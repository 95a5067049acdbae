---------------------------- MODULE ServerProofs ----------------------------
(***************************************************************************)
(* The safety properties of Server for any number of processes and         *)
(* migrations and any intervals of the probe and the shutdown: the schema  *)
(* is migrated in order, a process keeps one identity, and a graceful      *)
(* shutdown neither refuses nor aborts a request.  And those of the rate   *)
(* limiter in front of its handlers, for any number of addresses: it keeps *)
(* its bound, and its sweep misses no idle visitor and forgets no spent    *)
(* token.                                                                  *)
(***************************************************************************)
EXTENDS Server, RateLimiter, FiniteSetTheorems, WellFoundedInduction, TLAPS

-----------------------------------------------------------------------------
(* Types.                                                                  *)

\* The types hold at first.
LEMMA TypeInit == Init => TypeOK
<1> SUFFICES ASSUME Init PROVE TypeOK
  OBVIOUS
<1>1. proc \in [Proc -> ProcState]
  BY DEF Init, Down, Place, NoKey, ProcState
<1>2. executed \in Seq(Versions)
  BY DEF Init
<1>3. probeIn \in 0 .. ProbeEvery
  BY ServerAssumption DEF Init
<1> QED BY <1>1, <1>2, <1>3 DEF Init, TypeOK, NoKey

\* A process goes to another place.
LEMMA GoTyped ==
    ASSUME TypeOK, NEW p \in Proc, NEW a \in Place, Go(p, a)
    PROVE  proc' \in [Proc -> ProcState]
<1>1. proc \in [Proc -> ProcState]
  BY DEF TypeOK
<1> QED BY <1>1 DEF ProcState, Go

\* A process goes to another place, and sets its timer.
LEMMA WaitTyped ==
    ASSUME TypeOK, NEW p \in Proc, NEW a \in Place, NEW t \in Nat,
           proc' = [proc EXCEPT ![p].at = a, ![p].timer = t]
    PROVE  proc' \in [Proc -> ProcState]
<1>1. proc \in [Proc -> ProcState]
  BY DEF TypeOK
<1> QED BY <1>1 DEF ProcState

\* A process goes to another place, with a key.
LEMMA KeyTyped ==
    ASSUME TypeOK, NEW p \in Proc, NEW a \in Place, NEW k \in Nat,
           proc' = [proc EXCEPT ![p].at = a, ![p].key = k]
    PROVE  proc' \in [Proc -> ProcState]
<1>1. proc \in [Proc -> ProcState]
  BY DEF TypeOK
<1> QED BY <1>1 DEF ProcState

\* A process goes to another place, having read or added versions.
LEMMA KnownTyped ==
    ASSUME TypeOK, NEW p \in Proc, NEW a \in Place, NEW v \in SUBSET Versions,
           proc' = [proc EXCEPT ![p].at = a, ![p].known = v]
    PROVE  proc' \in [Proc -> ProcState]
<1>1. proc \in [Proc -> ProcState]
  BY DEF TypeOK
<1> QED BY <1>1 DEF ProcState

\* A process that exits forgets what it knew.
LEMMA ExitTyped ==
    ASSUME TypeOK, NEW p \in Proc, NEW a \in Place, Exit(p, a)
    PROVE  proc' \in [Proc -> ProcState]
<1>1. proc \in [Proc -> ProcState]
  BY DEF TypeOK
<1>2. [Down EXCEPT !.at = a] \in ProcState
  BY DEF ProcState, Down, NoKey
<1> QED BY <1>1, <1>2 DEF Exit

\* A timer stops at zero.
LEMMA TimerDown ==
    ASSUME NEW r \in ProcState
    PROVE  [r EXCEPT !.timer = IF @ > 0 THEN @ - 1 ELSE 0] \in ProcState
BY DEF ProcState

\* A passphrase is set or forgotten.
LEMMA Flipped ==
    ASSUME NEW f \in [Proc -> BOOLEAN], NEW p \in Proc
    PROVE  [f EXCEPT ![p] = ~@] \in [Proc -> BOOLEAN]
OBVIOUS

\* A step that changes no variable but proc and the counters.
LEMMA TypeOnlyProc ==
    ASSUME TypeOK, proc' \in [Proc -> ProcState], UNCHANGED <<executed, keyVars, lbVars>>
    PROVE  TypeOK'
BY DEF TypeOK, keyVars, lbVars

\* A process that comes to serve signs with one more key.
LEMMA ServeTyped ==
    ASSUME TypeOK, NEW p \in Proc, NEW k \in Nat, Serve(p, k)
    PROVE  proc' \in [Proc -> ProcState] /\ used' \in [Proc -> SUBSET Nat]
<1>1. proc' \in [Proc -> ProcState]
  <2>1. proc \in [Proc -> ProcState]
    BY DEF TypeOK
  <2> QED BY <2>1, KeyTyped DEF Serve, Place
<1>2. used' \in [Proc -> SUBSET Nat]
  BY DEF Serve, TypeOK
<1> QED BY <1>1, <1>2

\* Every step of the server and its environment keeps the types, given that a
\* transaction is open only for a version that is pending.
LEMMA TypeStep ==
    ASSUME TypeOK, Next, \A p \in Proc : proc[p].at = "tx" => NextVersion(p) \in Versions
    PROVE  TypeOK'
<1>a. proc \in [Proc -> ProcState] /\ executed \in Seq(Versions)
  BY DEF TypeOK
<1>b. Predrain \in Nat /\ DrainTimeout \in Nat /\ ProbeEvery \in Nat
  BY ServerAssumption
<1>1. ASSUME NEW p \in Proc, LoadApplied(p) PROVE TypeOK'
  <2>1. Applied \subseteq Versions
    BY <1>a DEF Applied
  <2>2. proc' \in [Proc -> ProcState]
    BY <1>1, <2>1, KnownTyped DEF LoadApplied, Place
  <2> QED BY <1>1, <2>2, TypeOnlyProc DEF LoadApplied
<1>2. ASSUME NEW p \in Proc, ApplyBegins(p) PROVE TypeOK'
  <2>1. proc' \in [Proc -> ProcState]
    <3>1. CASE Exit(p, "failed")
      BY <3>1, ExitTyped DEF Place
    <3>2. CASE Go(p, "tx")
      BY <3>2, GoTyped DEF Place
    <3> QED BY <1>2, <3>1, <3>2 DEF ApplyBegins
  <2> QED BY <1>2, <2>1, TypeOnlyProc DEF ApplyBegins
<1>3. ASSUME NEW p \in Proc, ApplyCommits(p) PROVE TypeOK'
  <2>1. NextVersion(p) \in Versions /\ proc[p].known \cup {NextVersion(p)} \in SUBSET Versions
    BY <1>3, <1>a DEF ApplyCommits, ProcState
  <2>2. proc' \in [Proc -> ProcState]
    <3>1. proc' = [proc EXCEPT ![p].at = "migrating", ![p].known = proc[p].known \cup {NextVersion(p)}]
      BY <1>3, <1>a DEF ApplyCommits
    <3> QED BY <2>1, <3>1, KnownTyped DEF Place
  <2>3. executed' \in Seq(Versions)
    BY <1>3, <1>a, <2>1 DEF ApplyCommits
  <2> QED BY <1>3, <2>2, <2>3 DEF ApplyCommits, TypeOK, keyVars, lbVars
<1>4. ASSUME NEW p \in Proc, StartFails(p) PROVE TypeOK'
  <2>1. proc' \in [Proc -> ProcState]
    BY <1>4, ExitTyped DEF StartFails, Place
  <2> QED BY <1>4, <2>1, TypeOnlyProc DEF StartFails
<1>5. ASSUME NEW p \in Proc, LoadKey(p) PROVE TypeOK'
  <2>1. files[p].enc \in Nat /\ files[p].plain \in Nat
    BY DEF TypeOK
  <2>3. ASSUME Exit(p, "failed"), UNCHANGED used
        PROVE  proc' \in [Proc -> ProcState] /\ used' \in [Proc -> SUBSET Nat]
    <3>1. proc' \in [Proc -> ProcState]
      BY <2>3, ExitTyped DEF Place
    <3> QED BY <2>3, <3>1 DEF TypeOK
  <2>4. proc' \in [Proc -> ProcState] /\ used' \in [Proc -> SUBSET Nat]
    BY <1>5, <2>1, <2>3, ServeTyped DEF LoadKey
  <2>5. UNCHANGED <<executed, files, encrypted, fresh, passedOver, lbVars>>
    BY <1>5 DEF LoadKey
  <2> QED BY <2>4, <2>5 DEF TypeOK, lbVars
<1>6. ASSUME NEW p \in Proc, PrepareKey(p) PROVE TypeOK'
  <2>1. files[p].plain \in Nat /\ fresh[p] + 1 \in Nat
    BY DEF TypeOK
  <2>2. ASSUME NEW k \in Nat, proc' = [proc EXCEPT ![p].at = "renaming", ![p].key = k]
        PROVE  proc' \in [Proc -> ProcState]
    BY <2>2, KeyTyped DEF Place
  <2>3. proc' \in [Proc -> ProcState]
    BY <1>6, <2>1, <2>2 DEF PrepareKey
  <2>4. fresh' \in [Proc -> Nat]
    BY <1>6, <2>1 DEF PrepareKey, TypeOK
  <2>5. UNCHANGED <<executed, files, encrypted, used, passedOver, lbVars>>
    BY <1>6 DEF PrepareKey
  <2> QED BY <2>3, <2>4, <2>5 DEF TypeOK, lbVars
<1>7. ASSUME NEW p \in Proc, RenameKey(p) PROVE TypeOK'
  <2>1. proc' \in [Proc -> ProcState]
    BY <1>7, GoTyped DEF RenameKey, Place
  <2>2. proc[p].key \in Nat
    BY <1>a DEF ProcState
  <2>3. files' \in [Proc -> [plain : Nat, enc : Nat]]
    <3>1. files \in [Proc -> [plain : Nat, enc : Nat]]
      BY DEF TypeOK
    <3>2. /\ [files[p] EXCEPT !.enc = proc[p].key] \in [plain : Nat, enc : Nat]
          /\ [files[p] EXCEPT !.plain = proc[p].key] \in [plain : Nat, enc : Nat]
      BY <2>2, <3>1
    <3>3. \/ files' = [files EXCEPT ![p].enc = proc[p].key]
          \/ files' = [files EXCEPT ![p].plain = proc[p].key]
      BY <1>7 DEF RenameKey
    <3> QED BY <3>1, <3>2, <3>3
  <2>4. UNCHANGED <<executed, encrypted, fresh, used, passedOver, lbVars>>
    BY <1>7 DEF RenameKey
  <2> QED BY <2>1, <2>3, <2>4 DEF TypeOK, lbVars
<1>8. ASSUME NEW p \in Proc, ScrubLegacy(p) PROVE TypeOK'
  <2>1. proc[p].key \in Nat
    BY <1>a DEF ProcState
  <2>2. proc' \in [Proc -> ProcState] /\ used' \in [Proc -> SUBSET Nat]
    BY <1>8, <2>1, ServeTyped DEF ScrubLegacy
  <2>3. files' \in [Proc -> [plain : Nat, enc : Nat]]
    <3>1. CASE UNCHANGED files
      BY <3>1 DEF TypeOK
    <3>2. CASE files' = [files EXCEPT ![p].plain = IF encrypted[p] THEN NoKey ELSE @]
      <4>1. files \in [Proc -> [plain : Nat, enc : Nat]] /\ NoKey \in Nat
        BY DEF TypeOK, NoKey
      <4>2. [files[p] EXCEPT !.plain = IF encrypted[p] THEN NoKey ELSE @] \in [plain : Nat, enc : Nat]
        BY <4>1
      <4> QED BY <3>2, <4>1, <4>2
    <3> QED BY <1>8, <3>1, <3>2 DEF ScrubLegacy
  <2>5. UNCHANGED <<executed, encrypted, fresh, passedOver, lbVars>>
    BY <1>8 DEF ScrubLegacy
  <2> QED BY <2>2, <2>3, <2>5 DEF TypeOK, lbVars
<1>9. ASSUME NEW p \in Proc, Reconfigure(p) PROVE TypeOK'
  <2>1. encrypted' \in [Proc -> BOOLEAN]
    BY <1>9, Flipped DEF Reconfigure, TypeOK
  <2> QED BY <1>9, <2>1 DEF Reconfigure, TypeOK, lbVars
<1>10. ASSUME NEW p \in Proc, Signal(p) PROVE TypeOK'
  <2>1. proc' \in [Proc -> ProcState]
    BY <1>10, <1>b, WaitTyped DEF Signal, Place
  <2> QED BY <1>10, <2>1, TypeOnlyProc DEF Signal
<1>11. ASSUME NEW p \in Proc, Drain(p) PROVE TypeOK'
  <2>1. proc' \in [Proc -> ProcState]
    BY <1>11, <1>b, WaitTyped DEF Drain, Place
  <2> QED BY <1>11, <2>1, TypeOnlyProc DEF Drain
<1>12. ASSUME NEW p \in Proc, Drained(p) PROVE TypeOK'
  <2>1. proc' \in [Proc -> ProcState]
    BY <1>12, GoTyped DEF Drained, Place
  <2> QED BY <1>12, <2>1, TypeOnlyProc DEF Drained
<1>13. ASSUME NEW p \in Proc, CloseDatabase(p) PROVE TypeOK'
  <2>1. proc' \in [Proc -> ProcState]
    BY <1>13, ExitTyped DEF CloseDatabase, Place
  <2>2. requests' \in [Proc -> BOOLEAN] /\ aborted' \in BOOLEAN
    BY <1>13 DEF CloseDatabase, TypeOK
  <2> QED BY <1>13, <2>1, <2>2 DEF CloseDatabase, TypeOK, keyVars
<1>14. ASSUME NEW p \in Proc, Crash(p) PROVE TypeOK'
  <2>1. proc' \in [Proc -> ProcState]
    BY <1>14, ExitTyped DEF Crash, Place
  <2>2. requests' \in [Proc -> BOOLEAN]
    BY <1>14 DEF Crash, TypeOK
  <2> QED BY <1>14, <2>1, <2>2 DEF Crash, TypeOK, keyVars
<1>15. ASSUME Probe PROVE TypeOK'
  <2>1. view' \in [Proc -> BOOLEAN]
    BY <1>15 DEF Probe, Ready
  <2> QED BY <1>15, <1>b, <2>1 DEF Probe, TypeOK, keyVars
<1>16. ASSUME NEW p \in Proc, Route(p) PROVE TypeOK'
  <2>1. requests' \in [Proc -> BOOLEAN] /\ refused' \in BOOLEAN
    BY <1>16 DEF Route, TypeOK
  <2> QED BY <1>16, <2>1 DEF Route, TypeOK, keyVars
<1>17. ASSUME NEW p \in Proc, Respond(p) PROVE TypeOK'
  BY <1>17 DEF Respond, TypeOK, keyVars
<1>18. ASSUME Tick PROVE TypeOK'
  <2>1. proc' \in [Proc -> ProcState]
    BY <1>18, <1>a, TimerDown DEF Tick
  <2>2. probeIn' \in 0 .. ProbeEvery
    BY <1>18, <1>b DEF Tick, TypeOK
  <2>3. UNCHANGED <<executed, keyVars, requests, view, refused, aborted>>
    BY <1>18 DEF Tick
  <2> QED BY <2>1, <2>2, <2>3 DEF TypeOK, keyVars
<1>19. ASSUME NEW p \in Proc, PassOver(p) PROVE TypeOK'
  <2>1. files[p].plain \in Nat /\ fresh[p] + 1 \in Nat
    BY DEF TypeOK
  <2>2. passedOver' \in [Proc -> BOOLEAN]
    BY <1>19 DEF PassOver, TypeOK
  <2>3. UNCHANGED <<executed, files, encrypted, lbVars>>
    BY <1>19 DEF PassOver
  <2>4. CASE Serve(p, files[p].plain) /\ UNCHANGED fresh
    <3>1. proc' \in [Proc -> ProcState] /\ used' \in [Proc -> SUBSET Nat]
      BY <2>1, <2>4, ServeTyped
    <3> QED BY <2>2, <2>3, <2>4, <3>1 DEF TypeOK, lbVars
  <2>5. CASE /\ proc' = [proc EXCEPT ![p].at = "renaming", ![p].key = fresh[p] + 1]
             /\ fresh' = [fresh EXCEPT ![p] = @ + 1]
             /\ UNCHANGED used
    <3>1. proc' \in [Proc -> ProcState]
      BY <2>1, <2>5, KeyTyped DEF Place
    <3>2. fresh' \in [Proc -> Nat]
      BY <2>1, <2>5 DEF TypeOK
    <3> QED BY <2>2, <2>3, <2>5, <3>1, <3>2 DEF TypeOK, lbVars
  <2> QED BY <1>19, <2>4, <2>5 DEF PassOver
<1> QED
  BY <1>1, <1>2, <1>3, <1>4, <1>5, <1>6, <1>7, <1>8, <1>9, <1>10, <1>11, <1>12,
     <1>13, <1>14, <1>15, <1>16, <1>17, <1>18, <1>19 DEF Next, Starting, Stopping

-----------------------------------------------------------------------------
(* The schema.  Every process has read, or applied itself, an initial      *)
(* segment of the migrations; the one whose transaction is open has them   *)
(* all, so that the next version is the next of the table.  The primary    *)
(* key of the version row leaves room for one such transaction.            *)

Segments ==
    /\ SchemaInOrder
    /\ \A p \in Proc : \E k \in 0 .. Len(executed) : proc[p].known = 1 .. k
    /\ \A p \in Proc : proc[p].at = "tx" =>
           proc[p].known = 1 .. Len(executed) /\ Len(executed) < Migrations
    /\ \A p, q \in Proc : proc[p].at = "tx" /\ proc[q].at = "tx" => p = q

\* The least pending version after an initial segment.
LEMMA NextIsNext ==
    ASSUME NEW p \in Proc, NEW k \in Nat, proc[p].known = 1 .. k, Pending(p) # {}
    PROVE  NextVersion(p) = k + 1 /\ k + 1 \in Versions
<1>0. Migrations \in Nat
  BY ServerAssumption
<1>1. Pending(p) = {v \in 1 .. Migrations : v > k}
  BY <1>0 DEF Pending, Versions
<1>2. k + 1 \in Pending(p)
  BY <1>0, <1>1
<1>3. \A w \in Pending(p) : k + 1 <= w
  BY <1>0, <1>1
<1>4. \A v \in Pending(p) : (\A w \in Pending(p) : v <= w) => v = k + 1
  BY <1>0, <1>1, <1>2, <1>3
<1>5. NextVersion(p) = k + 1
  BY <1>2, <1>3, <1>4 DEF NextVersion
<1> QED BY <1>2, <1>5 DEF Pending

\* The versions in the table, in order, are 1 to their number.
LEMMA ExecutedSet ==
    ASSUME TypeOK, SchemaInOrder
    PROVE  Applied = 1 .. Len(executed) /\ Len(executed) \in Nat
<1>1. Len(executed) \in Nat /\ DOMAIN executed = 1 .. Len(executed)
  BY DEF TypeOK
<1> QED BY <1>1 DEF Applied, SchemaInOrder

\* Whoever is inside a transaction of Apply is applying the next version.
LEMMA TxPending ==
    ASSUME TypeOK, Segments, NEW p \in Proc, proc[p].at = "tx"
    PROVE  NextVersion(p) = Len(executed) + 1 /\ NextVersion(p) \in Versions
<1>1. Len(executed) \in Nat /\ Migrations \in Nat
  BY ExecutedSet, ServerAssumption DEF Segments
<1>2. proc[p].known = 1 .. Len(executed) /\ Len(executed) < Migrations
  BY DEF Segments
<1>3. Len(executed) + 1 \in Pending(p)
  BY <1>1, <1>2 DEF Pending, Versions
<1> QED BY <1>1, <1>2, <1>3, NextIsNext

\* A step that commits nothing, opens no transaction and reads no rows.
LEMMA SegmentsKept ==
    ASSUME TypeOK, Segments, UNCHANGED executed,
           \A q \in Proc : /\ proc'[q].known \in {proc[q].known, {}}
                           /\ proc'[q].at = "tx" => proc[q].at = "tx" /\ proc'[q].known = proc[q].known
    PROVE  Segments'
<1>1. Len(executed) \in Nat
  BY ExecutedSet DEF Segments
<1>2. SchemaInOrder'
  BY DEF SchemaInOrder, Segments
<1>3. ASSUME NEW q \in Proc PROVE \E k \in 0 .. Len(executed) : proc'[q].known = 1 .. k
  <2>1. CASE proc'[q].known = proc[q].known
    BY <2>1 DEF Segments
  <2>2. CASE proc'[q].known = {}
    <3>1. 0 \in 0 .. Len(executed) /\ {} = 1 .. 0
      BY <1>1
    <3> QED BY <2>2, <3>1
  <2> QED BY <2>1, <2>2
<1>4. ASSUME NEW q \in Proc, proc'[q].at = "tx"
      PROVE  proc'[q].known = 1 .. Len(executed) /\ Len(executed) < Migrations
  BY <1>4 DEF Segments
<1>5. ASSUME NEW p \in Proc, NEW q \in Proc, proc'[p].at = "tx", proc'[q].at = "tx" PROVE p = q
  BY <1>5 DEF Segments
<1> QED BY <1>2, <1>3, <1>4, <1>5 DEF Segments

\* What the steps other than those of Apply do to the versions a process knows
\* and to transactions: nothing, or they end the process.
LEMMA ApplyUntouched ==
    ASSUME TypeOK, NEW p \in Proc,
           \/ StartFails(p) \/ LoadKey(p) \/ PrepareKey(p) \/ RenameKey(p) \/ ScrubLegacy(p)
           \/ PassOver(p) \/ Reconfigure(p) \/ Signal(p) \/ Stopping(p) \/ Crash(p) \/ Route(p) \/ Respond(p)
    PROVE  /\ UNCHANGED executed
           /\ \A q \in Proc : /\ proc'[q].known \in {proc[q].known, {}}
                              /\ proc'[q].at = "tx" => proc[q].at = "tx" /\ proc'[q].known = proc[q].known
<1>a. proc \in [Proc -> ProcState]
  BY DEF TypeOK
<1> DEFINE Kept ==
        \A q \in Proc : /\ proc'[q].known \in {proc[q].known, {}}
                        /\ proc'[q].at = "tx" => proc[q].at = "tx" /\ proc'[q].known = proc[q].known
<1>0. UNCHANGED executed
  BY DEF StartFails, LoadKey, PrepareKey, RenameKey, ScrubLegacy, PassOver, Reconfigure, Signal,
         Stopping, Drain, Drained, CloseDatabase, Crash, Route, Respond
<1>1. ASSUME NEW how, Exit(p, how), how # "tx" PROVE Kept
  BY <1>1, <1>a DEF Exit, Down, ProcState
<1>2. ASSUME NEW place, Go(p, place), place # "tx" PROVE Kept
  BY <1>2, <1>a DEF Go, ProcState
<1>3. ASSUME NEW k, Serve(p, k) PROVE Kept
  BY <1>3, <1>a DEF Serve, ProcState
<1>4. ASSUME StartFails(p) PROVE Kept
  BY <1>4, <1>1 DEF StartFails
<1>5. ASSUME LoadKey(p) PROVE Kept
  BY <1>5, <1>1, <1>3 DEF LoadKey
<1>6. ASSUME PrepareKey(p) PROVE Kept
  <2>1. ASSUME NEW k, proc' = [proc EXCEPT ![p].at = "renaming", ![p].key = k] PROVE Kept
    BY <2>1, <1>a DEF ProcState
  <2> QED BY <1>6, <2>1 DEF PrepareKey
<1>7. ASSUME RenameKey(p) PROVE Kept
  BY <1>7, <1>2 DEF RenameKey
<1>8. ASSUME ScrubLegacy(p) PROVE Kept
  BY <1>8, <1>3 DEF ScrubLegacy
<1>9. ASSUME Signal(p) PROVE Kept
  BY <1>9, <1>a DEF Signal, ProcState
<1>10. ASSUME Drain(p) PROVE Kept
  BY <1>10, <1>a DEF Drain, ProcState
<1>11. ASSUME Drained(p) PROVE Kept
  BY <1>11, <1>2 DEF Drained
<1>12. ASSUME CloseDatabase(p) PROVE Kept
  BY <1>12, <1>1 DEF CloseDatabase
<1>13. ASSUME Crash(p) PROVE Kept
  BY <1>13, <1>1 DEF Crash
<1>14. ASSUME UNCHANGED proc PROVE Kept
  BY <1>14
<1>15. ASSUME PassOver(p) PROVE Kept
  <2>1. ASSUME NEW k, proc' = [proc EXCEPT ![p].at = "renaming", ![p].key = k] PROVE Kept
    BY <2>1, <1>a DEF ProcState
  <2> QED BY <1>15, <1>3, <2>1 DEF PassOver
<1> QED
  BY <1>0, <1>4, <1>5, <1>6, <1>7, <1>8, <1>9, <1>10, <1>11, <1>12, <1>13, <1>14, <1>15
  DEF Reconfigure, Route, Respond, Stopping

\* Every step keeps what the processes have read a prefix of what was executed.
LEMMA SegmentsStep ==
    ASSUME TypeOK, Segments, [Next]_vars
    PROVE  Segments'
<1>a. proc \in [Proc -> ProcState] /\ executed \in Seq(Versions)
  BY DEF TypeOK
<1>b. Applied = 1 .. Len(executed) /\ Len(executed) \in Nat
  BY ExecutedSet DEF Segments
<1>c. Migrations \in Nat
  BY ServerAssumption
<1>1. ASSUME NEW p \in Proc, LoadApplied(p) PROVE Segments'
  <2>1. \A q \in Proc : proc'[q] = IF q = p THEN [proc[p] EXCEPT !.at = "migrating", !.known = 1 .. Len(executed)]
                                            ELSE proc[q]
    BY <1>1, <1>a, <1>b DEF LoadApplied, ProcState
  <2>2. proc'[p].at = "migrating" /\ proc'[p].known = 1 .. Len(executed)
    BY <2>1, <1>a DEF ProcState
  <2>3. executed' = executed /\ SchemaInOrder'
    BY <1>1 DEF LoadApplied, Segments, SchemaInOrder
  <2>4. \A q \in Proc : \E k \in 0 .. Len(executed) : proc'[q].known = 1 .. k
    BY <2>1, <2>2, <1>b DEF Segments
  <2>5. \A q \in Proc : proc'[q].at = "tx" => proc[q].at = "tx" /\ proc'[q].known = proc[q].known
    BY <2>1, <2>2
  <2> QED BY <2>3, <2>4, <2>5 DEF Segments
<1>2. ASSUME NEW p \in Proc, ApplyBegins(p) PROVE Segments'
  <2>0. executed' = executed
    BY <1>2 DEF ApplyBegins
  <2>1. CASE NextVersion(p) \in Applied
    <3>1. \A q \in Proc : proc'[q] = IF q = p THEN [Down EXCEPT !.at = "failed"] ELSE proc[q]
      BY <1>2, <2>1, <1>a DEF ApplyBegins, Exit
    <3>2. proc'[p].known = {} /\ proc'[p].at = "failed"
      BY <3>1 DEF Down
    <3> QED BY <2>0, <3>1, <3>2, SegmentsKept
  <2>2. CASE NextVersion(p) \notin Applied
    <3>1. proc' = [proc EXCEPT ![p].at = "tx"]
      BY <1>2, <2>2 DEF ApplyBegins, Go
    <3>2. \A q \in Proc : proc'[q].known = proc[q].known /\ (q # p => proc'[q].at = proc[q].at)
      BY <3>1, <1>a DEF ProcState
    <3>3. PICK k \in 0 .. Len(executed) : proc[p].known = 1 .. k
      BY DEF Segments
    <3>4. NextVersion(p) = k + 1 /\ k + 1 \in Versions
      BY <1>2, <3>3, <1>b, NextIsNext DEF ApplyBegins
    <3>5. k = Len(executed) /\ Len(executed) < Migrations
      BY <3>4, <2>2, <1>b, <1>c DEF Versions
    <3>6. ASSUME NEW q \in Proc, q # p PROVE proc[q].at # "tx"
      <4>1. ~InTx(q, NextVersion(p))
        BY <1>2, <3>6 DEF ApplyBegins
      <4> QED BY <4>1, <3>4, <3>5, TxPending DEF InTx
    <3>7. ASSUME NEW q \in Proc, proc'[q].at = "tx" PROVE q = p
      BY <3>2, <3>6, <3>7
    <3>8. SchemaInOrder'
      BY <2>0 DEF Segments, SchemaInOrder
    <3>9. \A q \in Proc : \E n \in 0 .. Len(executed) : proc'[q].known = 1 .. n
      BY <3>2 DEF Segments
    <3>10. \A q \in Proc : proc'[q].at = "tx" => proc'[q].known = 1 .. Len(executed) /\ Len(executed) < Migrations
      BY <3>2, <3>3, <3>5, <3>7
    <3> QED BY <2>0, <3>7, <3>8, <3>9, <3>10 DEF Segments
  <2> QED BY <2>1, <2>2
<1>3. ASSUME NEW p \in Proc, ApplyCommits(p) PROVE Segments'
  <2>1. NextVersion(p) = Len(executed) + 1 /\ NextVersion(p) \in Versions
    BY <1>3, TxPending DEF ApplyCommits
  <2>2. executed' = Append(executed, Len(executed) + 1)
    BY <1>3, <2>1 DEF ApplyCommits
  <2>3. Len(executed') = Len(executed) + 1 /\ DOMAIN executed' = 1 .. Len(executed) + 1
    BY <2>1, <2>2, <1>a, <1>b
  <2>4. SchemaInOrder'
    BY <2>1, <2>2, <1>a, <1>b DEF Segments, SchemaInOrder
  <2>5. \A q \in Proc : proc'[q].at = (IF q = p THEN "migrating" ELSE proc[q].at)
    BY <1>3, <1>a DEF ApplyCommits, ProcState
  <2>6. \A q \in Proc : proc'[q].known = (IF q = p THEN proc[p].known \cup {NextVersion(p)} ELSE proc[q].known)
    BY <1>3, <1>a DEF ApplyCommits, ProcState
  <2>7. proc'[p].known = 1 .. Len(executed) + 1
    <3>1. proc[p].known = 1 .. Len(executed)
      BY <1>3 DEF ApplyCommits, Segments
    <3>2. \A n \in Nat : (1 .. n) \cup {n + 1} = 1 .. n + 1
      OBVIOUS
    <3>3. (1 .. Len(executed)) \cup {Len(executed) + 1} = 1 .. Len(executed) + 1
      BY <3>2, <1>b
    <3>4. proc'[p].known = proc[p].known \cup {Len(executed) + 1}
      BY <2>1, <2>6
    <3> QED BY <3>1, <3>3, <3>4
  <2>8. \A q \in Proc : \E k \in 0 .. Len(executed') : proc'[q].known = 1 .. k
    BY <2>3, <2>6, <2>7, <1>b DEF Segments
  <2>9. \A q \in Proc : proc'[q].at # "tx"
    <3>1. \A q \in Proc : q # p => proc[q].at # "tx"
      BY <1>3 DEF ApplyCommits, Segments
    <3> QED BY <3>1, <2>5
  <2> QED BY <2>4, <2>8, <2>9 DEF Segments
<1>4. ASSUME Probe \/ UNCHANGED vars PROVE Segments'
  BY <1>4, SegmentsKept DEF Probe, vars
<1>5. ASSUME Tick PROVE Segments'
  <2>1. \A q \in Proc : proc'[q].known = proc[q].known /\ proc'[q].at = proc[q].at
    BY <1>5, <1>a DEF Tick, ProcState
  <2>2. executed' = executed
    BY <1>5 DEF Tick
  <2> QED BY <2>1, <2>2, SegmentsKept
<1>6. ASSUME NEW p \in Proc,
             \/ StartFails(p) \/ LoadKey(p) \/ PrepareKey(p) \/ RenameKey(p) \/ ScrubLegacy(p)
             \/ PassOver(p) \/ Reconfigure(p) \/ Signal(p) \/ Stopping(p) \/ Crash(p) \/ Route(p) \/ Respond(p)
      PROVE  Segments'
  BY <1>6, ApplyUntouched, SegmentsKept
<1> QED BY <1>1, <1>2, <1>3, <1>4, <1>5, <1>6 DEF Next, Starting

\* Types are part of the argument for the schema, and the other way round: a
\* version that is committed is one that was pending.
LEMMA TypedInOrder == Spec => [](TypeOK /\ Segments)
<1>1. Init => TypeOK /\ Segments
  <2> SUFFICES ASSUME Init PROVE Segments
    BY TypeInit
  <2>1. \A p \in Proc : proc[p].at = "down" /\ proc[p].known = {}
    BY DEF Init, Down
  <2>2. SchemaInOrder /\ Len(executed) = 0
    BY DEF Init, SchemaInOrder
  <2>3. {} = 1 .. 0 /\ 0 \in 0 .. 0
    OBVIOUS
  <2> QED BY <2>1, <2>2, <2>3 DEF Segments
<1>2. TypeOK /\ Segments /\ [Next]_vars => (TypeOK /\ Segments)'
  <2> SUFFICES ASSUME TypeOK, Segments, [Next]_vars PROVE TypeOK'
    BY SegmentsStep
  <2>1. CASE Next
    BY <2>1, TxPending, TypeStep
  <2>2. CASE UNCHANGED vars
    BY <2>2 DEF vars, keyVars, lbVars, TypeOK
  <2> QED BY <2>1, <2>2
<1> QED BY <1>1, <1>2, PTL DEF Spec

\* Migrations commit in the order of their versions, each once, for any number
\* of processes that start, race in Apply, fail and crash: Apply reads the applied
\* versions without a lock, and the primary key of the version row is enough.
THEOREM SchemaTheorem == Spec => []SchemaInOrder
<1>1. Segments => SchemaInOrder
  BY DEF Segments
<1> QED BY <1>1, TypedInOrder, PTL

-----------------------------------------------------------------------------
(* The signing key.  Of a process with key files f and configuration e,    *)
(* that has signed with the keys u and holds key k at a place of New: the  *)
(* two files agree; a key that has been used is in the file that will be   *)
(* loaded next; and the key on its way through the temporary file is the   *)
(* legacy key if there is one.  Nothing is said of a process that has      *)
(* passed over an encrypted key.                                           *)

KeySafe(f, u, e, at, k) ==
    /\ f.plain # NoKey /\ f.enc # NoKey => f.plain = f.enc
    /\ u \subseteq (IF f.enc # NoKey THEN {f.enc} ELSE {f.plain})
    /\ f.plain = NoKey /\ f.enc = NoKey => u = {}
    /\ at = "renaming" => /\ k # NoKey /\ f.enc = NoKey
                          /\ f.plain # NoKey => e /\ k = f.plain
    /\ at = "scrubbing" => /\ k # NoKey
                           /\ e => f.enc = k
                           /\ ~e => f.plain = k /\ f.enc = NoKey

KeysSafe ==
    \A p \in Proc : passedOver[p] \/ KeySafe(files[p], used[p], encrypted[p], proc[p].at, proc[p].key)

\* A step that leaves files and used keys alone and gets no process on its way
\* through LoadOrGenerate.
LEMMA KeysKept ==
    ASSUME KeysSafe, UNCHANGED <<files, used, passedOver>>,
           \A q \in Proc : proc'[q].at \in {"renaming", "scrubbing"} =>
               /\ proc'[q].at = proc[q].at /\ proc'[q].key = proc[q].key
               /\ encrypted'[q] = encrypted[q]
    PROVE  KeysSafe'
<1> SUFFICES ASSUME NEW q \in Proc, ~passedOver[q]
             PROVE  KeySafe(files[q], used[q], encrypted'[q], proc'[q].at, proc'[q].key)
  BY DEF KeysSafe
<1>1. KeySafe(files[q], used[q], encrypted[q], proc[q].at, proc[q].key)
  BY DEF KeysSafe
<1>2. CASE proc'[q].at \in {"renaming", "scrubbing"}
  BY <1>1, <1>2
<1>3. CASE proc'[q].at \notin {"renaming", "scrubbing"}
  BY <1>1, <1>3 DEF KeySafe
<1> QED BY <1>2, <1>3

\* Every step keeps a used key in the file that is loaded next.
LEMMA KeysStep ==
    ASSUME TypeOK, KeysSafe, [Next]_vars
    PROVE  KeysSafe'
<1>a. proc \in [Proc -> ProcState]
  BY DEF TypeOK
<1>b. files \in [Proc -> [plain : Nat, enc : Nat]]
  BY DEF TypeOK
<1>c. used \in [Proc -> SUBSET Nat] /\ fresh \in [Proc -> Nat]
  BY DEF TypeOK
<1> DEFINE Quiet == \A q \in Proc : proc'[q].at \in {"renaming", "scrubbing"} =>
                       /\ proc'[q].at = proc[q].at /\ proc'[q].key = proc[q].key
<1>1. ASSUME NEW p \in Proc, NEW how, Exit(p, how), how \in {"down", "failed"} PROVE Quiet
  BY <1>1, <1>a DEF Exit, Down, ProcState
<1>2. ASSUME NEW p \in Proc, NEW place, Go(p, place), place \notin {"renaming", "scrubbing"} PROVE Quiet
  BY <1>2, <1>a DEF Go, ProcState
<1>3. ASSUME NEW p \in Proc, LoadApplied(p) PROVE KeysSafe'
  <2>1. Quiet
    BY <1>3, <1>a DEF LoadApplied, ProcState
  <2> QED BY <1>3, <2>1, KeysKept DEF LoadApplied, keyVars
<1>4. ASSUME NEW p \in Proc, ApplyBegins(p) PROVE KeysSafe'
  <2>1. Quiet
    BY <1>4, <1>1, <1>2 DEF ApplyBegins
  <2> QED BY <1>4, <2>1, KeysKept DEF ApplyBegins, keyVars
<1>5. ASSUME NEW p \in Proc, ApplyCommits(p) PROVE KeysSafe'
  <2>1. Quiet
    BY <1>5, <1>a DEF ApplyCommits, ProcState
  <2> QED BY <1>5, <2>1, KeysKept DEF ApplyCommits, keyVars
<1>6. ASSUME NEW p \in Proc, StartFails(p) PROVE KeysSafe'
  <2>1. Quiet
    BY <1>6, <1>1 DEF StartFails
  <2> QED BY <1>6, <2>1, KeysKept DEF StartFails, keyVars
<1>7. ASSUME NEW p \in Proc, passedOver'[p],
             \A q \in Proc \ {p} : /\ proc'[q] = proc[q] /\ files'[q] = files[q] /\ used'[q] = used[q]
                                   /\ encrypted'[q] = encrypted[q] /\ passedOver'[q] = passedOver[q]
      PROVE  KeysSafe'
  BY <1>7 DEF KeysSafe
<1>8. ASSUME NEW p \in Proc, NEW k \in Nat \ {NoKey}, Serve(p, k), UNCHANGED <<encrypted, passedOver>>,
             \A q \in Proc \ {p} : files'[q] = files[q],
             files'[p].enc = k \/ (files'[p].plain = k /\ files'[p].enc = NoKey),
             files'[p].plain \in {NoKey, k}, used[p] \subseteq {k}
      PROVE  KeysSafe'
  <2>1. \A q \in Proc \ {p} : proc'[q] = proc[q] /\ used'[q] = used[q]
    BY <1>8, <1>a, <1>c DEF Serve
  <2>2. proc'[p].at = "running" /\ used'[p] = used[p] \cup {k}
    BY <1>8, <1>a, <1>c DEF Serve, ProcState
  <2>3. KeySafe(files'[p], used'[p], encrypted'[p], proc'[p].at, proc'[p].key)
    BY <2>2, <1>8 DEF KeySafe
  <2> QED BY <1>8, <2>1, <2>3 DEF KeysSafe
<1>9. ASSUME NEW p \in Proc, LoadKey(p) PROVE KeysSafe'
  <2>1. UNCHANGED <<files, encrypted, passedOver>>
    BY <1>9 DEF LoadKey
  <2>2. CASE Exit(p, "failed") /\ UNCHANGED used
    <3>1. Quiet
      BY <2>2, <1>1
    <3> QED BY <2>1, <2>2, <3>1, KeysKept
  <2>3. CASE passedOver[p] /\ \E k : Serve(p, k)
    <3>1. \A q \in Proc \ {p} : proc'[q] = proc[q] /\ used'[q] = used[q]
      BY <2>3, <1>a, <1>c DEF Serve
    <3> QED BY <2>1, <2>3, <3>1, <1>7
  <2>4. CASE ~passedOver[p]
    <3>1. KeySafe(files[p], used[p], encrypted[p], proc[p].at, proc[p].key)
      BY <2>4 DEF KeysSafe
    <3>2. CASE files[p].enc # NoKey /\ Serve(p, files[p].enc)
      <4>1. files[p].enc \in Nat \ {NoKey} /\ files[p].plain \in {NoKey, files[p].enc} /\ used[p] \subseteq {files[p].enc}
        BY <3>1, <3>2, <1>b DEF KeySafe
      <4> QED BY <2>1, <3>2, <4>1, <1>8
    <3>3. CASE files[p].enc = NoKey /\ files[p].plain # NoKey /\ Serve(p, files[p].plain)
      <4>1. files[p].plain \in Nat \ {NoKey} /\ used[p] \subseteq {files[p].plain}
        BY <3>1, <3>3, <1>b DEF KeySafe
      <4> QED BY <2>1, <3>3, <4>1, <1>8
    <3> QED BY <1>9, <2>2, <3>2, <3>3 DEF LoadKey, Refuses
  <2> QED BY <1>9, <2>2, <2>3, <2>4 DEF LoadKey
<1>10. ASSUME NEW p \in Proc, PrepareKey(p) PROVE KeysSafe'
  <2>1. UNCHANGED <<files, encrypted, used, passedOver>>
    BY <1>10 DEF PrepareKey
  <2>2. PICK k \in Nat \ {NoKey} : /\ proc' = [proc EXCEPT ![p].at = "renaming", ![p].key = k]
                                   /\ encrypted[p] /\ files[p].plain # NoKey => k = files[p].plain
    <3>1. files[p].plain \in Nat /\ fresh[p] + 1 \in Nat \ {NoKey}
      BY <1>b, <1>c DEF NoKey
    <3> QED BY <1>10, <3>1 DEF PrepareKey
  <2>3. files[p].enc = NoKey /\ (~encrypted[p] => files[p].plain = NoKey)
    BY <1>10 DEF PrepareKey, Refuses
  <2>4. /\ proc'[p].at = "renaming" /\ proc'[p].key = k
        /\ \A q \in Proc \ {p} : proc'[q] = proc[q]
    BY <2>2, <1>a DEF ProcState
  <2>5. CASE passedOver[p]
    BY <2>1, <2>4, <2>5, <1>7
  <2>6. CASE ~passedOver[p]
    <3>1. KeySafe(files[p], used[p], encrypted[p], proc[p].at, proc[p].key)
      BY <2>6 DEF KeysSafe
    <3>2. KeySafe(files[p], used[p], encrypted[p], proc'[p].at, proc'[p].key)
      BY <2>2, <2>3, <2>4, <3>1 DEF KeySafe
    <3> QED BY <2>1, <2>4, <3>2 DEF KeysSafe
  <2> QED BY <2>5, <2>6
<1>11. ASSUME NEW p \in Proc, RenameKey(p) PROVE KeysSafe'
  <2>1. UNCHANGED <<encrypted, used, passedOver>>
    BY <1>11 DEF RenameKey
  <2>2. /\ encrypted[p] => files'[p].enc = proc[p].key /\ files'[p].plain = files[p].plain
        /\ ~encrypted[p] => files'[p].plain = proc[p].key /\ files'[p].enc = files[p].enc
        /\ \A q \in Proc \ {p} : files'[q] = files[q]
    BY <1>11, <1>b DEF RenameKey
  <2>3. /\ proc'[p].at = "scrubbing" /\ proc'[p].key = proc[p].key
        /\ \A q \in Proc \ {p} : proc'[q] = proc[q]
    BY <1>11, <1>a DEF RenameKey, Go, ProcState
  <2>4. CASE passedOver[p]
    BY <2>1, <2>2, <2>3, <2>4, <1>7
  <2>5. CASE ~passedOver[p]
    <3>1. KeySafe(files[p], used[p], encrypted[p], "renaming", proc[p].key)
      BY <1>11, <2>5 DEF KeysSafe, RenameKey
    <3>2. KeySafe(files'[p], used[p], encrypted[p], "scrubbing", proc[p].key)
      BY <2>2, <3>1 DEF KeySafe
    <3> QED BY <2>1, <2>2, <2>3, <3>2 DEF KeysSafe
  <2> QED BY <2>4, <2>5
<1>12. ASSUME NEW p \in Proc, ScrubLegacy(p) PROVE KeysSafe'
  <2>1. UNCHANGED <<encrypted, passedOver>> /\ Serve(p, proc[p].key)
    BY <1>12 DEF ScrubLegacy
  <2>2. /\ files'[p].enc = files[p].enc /\ files'[p].plain \in {NoKey, files[p].plain}
        /\ ~encrypted[p] => files'[p].plain = files[p].plain
        /\ \A q \in Proc \ {p} : files'[q] = files[q]
    BY <1>12, <1>b DEF ScrubLegacy
  <2>3. CASE passedOver[p]
    <3>1. \A q \in Proc \ {p} : proc'[q] = proc[q] /\ used'[q] = used[q]
      BY <2>1, <1>a, <1>c DEF Serve
    <3> QED BY <2>1, <2>2, <2>3, <3>1, <1>7
  <2>4. CASE ~passedOver[p]
    <3>1. KeySafe(files[p], used[p], encrypted[p], "scrubbing", proc[p].key)
      BY <1>12, <2>4 DEF KeysSafe, ScrubLegacy
    <3>2. proc[p].key \in Nat \ {NoKey}
      BY <3>1, <1>a DEF KeySafe, ProcState
    <3>3. /\ files'[p].enc = proc[p].key \/ (files'[p].plain = proc[p].key /\ files'[p].enc = NoKey)
          /\ files'[p].plain \in {NoKey, proc[p].key} /\ used[p] \subseteq {proc[p].key}
      BY <2>2, <3>1 DEF KeySafe
    <3> QED BY <2>1, <2>2, <3>2, <3>3, <1>8
  <2> QED BY <2>3, <2>4
<1>13. ASSUME NEW p \in Proc, PassOver(p) PROVE KeysSafe'
  <2>1. \A q \in Proc \ {p} : proc'[q] = proc[q] /\ used'[q] = used[q]
    <3>1. CASE Serve(p, files[p].plain)
      BY <3>1, <1>a, <1>c DEF Serve
    <3>2. CASE proc' = [proc EXCEPT ![p].at = "renaming", ![p].key = fresh[p] + 1] /\ UNCHANGED used
      BY <3>2, <1>a
    <3> QED BY <1>13, <3>1, <3>2 DEF PassOver
  <2>2. passedOver'[p] /\ \A q \in Proc \ {p} : passedOver'[q] = passedOver[q]
    BY <1>13 DEF PassOver, TypeOK
  <2> QED BY <1>13, <2>1, <2>2, <1>7 DEF PassOver
<1>14. ASSUME NEW p \in Proc, Reconfigure(p) PROVE KeysSafe'
  <2>1. UNCHANGED <<files, used, proc, passedOver>> /\ proc[p].at \in {"down", "failed"}
    BY <1>14 DEF Reconfigure
  <2>2. \A q \in Proc \ {p} : encrypted'[q] = encrypted[q]
    BY <1>14 DEF Reconfigure, TypeOK
  <2> QED BY <2>1, <2>2, KeysKept
<1>15. ASSUME NEW p \in Proc, Signal(p) \/ Drain(p) PROVE KeysSafe'
  <2>1. Quiet
    BY <1>15, <1>a DEF Signal, Drain, ProcState
  <2> QED BY <1>15, <2>1, KeysKept DEF Signal, Drain, keyVars
<1>16. ASSUME NEW p \in Proc, Drained(p) PROVE KeysSafe'
  <2>1. Quiet
    BY <1>16, <1>2 DEF Drained
  <2> QED BY <1>16, <2>1, KeysKept DEF Drained, keyVars
<1>17. ASSUME NEW p \in Proc, CloseDatabase(p) \/ Crash(p) PROVE KeysSafe'
  <2>1. Quiet
    BY <1>17, <1>1 DEF CloseDatabase, Crash
  <2> QED BY <1>17, <2>1, KeysKept DEF CloseDatabase, Crash, keyVars
<1>18. ASSUME NEW p \in Proc, Route(p) \/ Respond(p) PROVE KeysSafe'
  BY <1>18, KeysKept DEF Route, Respond, keyVars
<1>19. ASSUME Probe \/ UNCHANGED vars PROVE KeysSafe'
  BY <1>19, KeysKept DEF Probe, vars, keyVars
<1>20. ASSUME Tick PROVE KeysSafe'
  <2>1. Quiet
    BY <1>20, <1>a DEF Tick, ProcState
  <2> QED BY <1>20, <2>1, KeysKept DEF Tick, keyVars
<1> QED
  BY <1>3, <1>4, <1>5, <1>6, <1>9, <1>10, <1>11, <1>12, <1>13, <1>14, <1>15, <1>16, <1>17,
     <1>18, <1>19, <1>20 DEF Next, Starting, Stopping

\* No process ever signs with two keys, whatever sequence of crashes, failed
\* starts, failed removals of the legacy file and changes of the passphrase
\* LoadOrGenerate goes through, unless it has passed over an encrypted key.
THEOREM IdentityTheorem == Spec => []IdentityKept
<1>1. Init => KeysSafe
  <2> SUFFICES ASSUME Init, NEW p \in Proc
               PROVE  KeySafe(files[p], used[p], encrypted[p], proc[p].at, proc[p].key)
    BY DEF KeysSafe
  <2>1. files[p].plain = NoKey /\ files[p].enc = NoKey /\ used[p] = {} /\ proc[p].at = "down"
    BY DEF Init, Down
  <2> QED BY <2>1 DEF KeySafe
<1>2. TypeOK /\ KeysSafe /\ [Next]_vars => KeysSafe'
  BY KeysStep
<1>3. KeysSafe => IdentityKept
  <2> SUFFICES ASSUME KeysSafe, NEW p \in Proc, ~passedOver[p] PROVE Cardinality(used[p]) <= 1
    BY DEF IdentityKept
  <2>1. PICK k : used[p] \subseteq {k}
    BY DEF KeysSafe, KeySafe
  <2>2. CASE used[p] = {}
    BY <2>2, FS_EmptySet
  <2>3. CASE used[p] = {k}
    <3>1. Cardinality({k}) = 1
      BY FS_Singleton, Zenon
    <3> QED BY <2>3, <3>1
  <2> QED BY <2>1, <2>2, <2>3
<1> QED BY <1>1, <1>2, <1>3, TypedInOrder, PTL DEF Spec

-----------------------------------------------------------------------------
(* Graceful shutdown.  As long as the load balancer takes a process to be  *)
(* ready, the listener will be open beyond the next probe; and a request   *)
(* is left over after the drain only if the drain has timed out.           *)

Served(p) ==
    /\ view[p] => proc[p].at \notin {"draining", "closing", "down"}
    /\ view[p] /\ proc[p].at = "predrain" => proc[p].timer > probeIn
    /\ proc[p].at = "closing" /\ requests[p] => proc[p].timer = 0

Traffic == NoRequestRefused /\ NoRequestAborted /\ \A p \in Proc : Served(p)

\* A step that moves a process to a place where it is neither shutting down nor
\* down.
LEMMA TrafficKept ==
    ASSUME Traffic, UNCHANGED <<view, probeIn, aborted>>, ~refused',
           \A q \in Proc : /\ \/ proc'[q].at \notin {"predrain", "draining", "closing", "down"}
                              \/ proc'[q].at = proc[q].at /\ proc'[q].timer = proc[q].timer
                           /\ requests'[q] => requests[q] \/ proc[q].at \in Listening
    PROVE  Traffic'
<1> SUFFICES ASSUME NEW q \in Proc PROVE Served(q)'
  BY DEF Traffic, NoRequestRefused, NoRequestAborted
<1>1. Served(q)
  BY DEF Traffic
<1> QED BY <1>1 DEF Served, Listening

\* Every step keeps what the load balancer relies on.
LEMMA TrafficStep ==
    ASSUME TypeOK, Traffic, [Next]_vars
    PROVE  Traffic'
<1>a. proc \in [Proc -> ProcState]
  BY DEF TypeOK
<1>b. requests \in [Proc -> BOOLEAN] /\ view \in [Proc -> BOOLEAN] /\ probeIn \in Nat /\ probeIn <= ProbeEvery
  BY ServerAssumption DEF TypeOK
<1>c. Predrain \in Nat /\ ProbeEvery \in Nat /\ ProbeEvery < Predrain /\ DrainTimeout \in Nat
  BY ServerAssumption
<1> DEFINE Quiet ==
        \A q \in Proc : \/ proc'[q].at \notin {"predrain", "draining", "closing", "down"}
                        \/ proc'[q].at = proc[q].at /\ proc'[q].timer = proc[q].timer
<1>d. ~refused
  BY DEF Traffic, NoRequestRefused
<1>1. ASSUME NEW p \in Proc, Exit(p, "failed") PROVE Quiet
  BY <1>1, <1>a DEF Exit, Down, ProcState
<1>2. ASSUME NEW p \in Proc, NEW k, Serve(p, k) PROVE Quiet
  BY <1>2, <1>a DEF Serve, ProcState
<1>3. ASSUME NEW p \in Proc, Starting(p) \/ StartFails(p) \/ PassOver(p) \/ Reconfigure(p) PROVE Traffic'
  <2>1. Quiet
    <3>1. ASSUME LoadApplied(p) PROVE Quiet
      BY <3>1, <1>a DEF LoadApplied, ProcState
    <3>2. ASSUME ApplyBegins(p) PROVE Quiet
      <4>1. ASSUME Go(p, "tx") PROVE Quiet
        BY <4>1, <1>a DEF Go, ProcState
      <4> QED BY <3>2, <4>1, <1>1 DEF ApplyBegins
    <3>3. ASSUME ApplyCommits(p) PROVE Quiet
      BY <3>3, <1>a DEF ApplyCommits, ProcState
    <3>4. ASSUME LoadKey(p) PROVE Quiet
      BY <3>4, <1>1, <1>2 DEF LoadKey
    <3>5. ASSUME PrepareKey(p) PROVE Quiet
      <4>1. ASSUME NEW k, proc' = [proc EXCEPT ![p].at = "renaming", ![p].key = k] PROVE Quiet
        BY <4>1, <1>a DEF ProcState
      <4> QED BY <3>5, <4>1 DEF PrepareKey
    <3>6. ASSUME RenameKey(p) PROVE Quiet
      BY <3>6, <1>a DEF RenameKey, Go, ProcState
    <3>7. ASSUME ScrubLegacy(p) PROVE Quiet
      BY <3>7, <1>2 DEF ScrubLegacy
    <3>8. ASSUME StartFails(p) PROVE Quiet
      BY <3>8, <1>1 DEF StartFails
    <3>9. ASSUME Reconfigure(p) PROVE Quiet
      BY <3>9 DEF Reconfigure
    <3>10. ASSUME PassOver(p) PROVE Quiet
      <4>1. ASSUME NEW k, proc' = [proc EXCEPT ![p].at = "renaming", ![p].key = k] PROVE Quiet
        BY <4>1, <1>a DEF ProcState
      <4> QED BY <3>10, <1>2, <4>1 DEF PassOver
    <3> QED BY <1>3, <3>1, <3>2, <3>3, <3>4, <3>5, <3>6, <3>7, <3>8, <3>9, <3>10 DEF Starting
  <2>2. UNCHANGED lbVars
    BY <1>3 DEF Starting, LoadApplied, ApplyBegins, ApplyCommits, LoadKey, PrepareKey,
                RenameKey, ScrubLegacy, StartFails, PassOver, Reconfigure
  <2> QED BY <1>d, <2>1, <2>2, TrafficKept DEF lbVars
<1>4. ASSUME NEW p \in Proc, Signal(p) PROVE Traffic'
  <2>1. /\ proc'[p].at = "predrain" /\ proc'[p].timer = Predrain
        /\ \A q \in Proc \ {p} : proc'[q] = proc[q]
        /\ UNCHANGED <<view, probeIn, refused, aborted, requests>>
    BY <1>4, <1>a DEF Signal, ProcState, lbVars
  <2>2. probeIn < Predrain
    BY <1>b, <1>c
  <2> QED BY <2>1, <2>2 DEF Traffic, Served, NoRequestRefused, NoRequestAborted
<1>5. ASSUME NEW p \in Proc, Drain(p) PROVE Traffic'
  <2>1. /\ proc'[p].at = "draining" /\ \A q \in Proc \ {p} : proc'[q] = proc[q]
        /\ UNCHANGED <<view, probeIn, refused, aborted, requests>>
    BY <1>5, <1>a DEF Drain, ProcState, lbVars
  <2>2. ~view[p]
    BY <1>5, <1>b DEF Drain, Traffic, Served
  <2> QED BY <2>1, <2>2 DEF Traffic, Served, NoRequestRefused, NoRequestAborted
<1>6. ASSUME NEW p \in Proc, Drained(p) PROVE Traffic'
  <2>1. /\ proc'[p].at = "closing" /\ proc'[p].timer = proc[p].timer
        /\ \A q \in Proc \ {p} : proc'[q] = proc[q]
        /\ UNCHANGED <<view, probeIn, refused, aborted, requests>>
    BY <1>6, <1>a DEF Drained, Go, ProcState, lbVars
  <2>2. ~view[p] /\ (requests[p] => proc[p].timer = 0)
    BY <1>6 DEF Drained, Traffic, Served
  <2> QED BY <2>1, <2>2 DEF Traffic, Served, NoRequestRefused, NoRequestAborted
<1>7. ASSUME NEW p \in Proc, CloseDatabase(p) PROVE Traffic'
  <2>1. /\ proc'[p].at = "down" /\ \A q \in Proc \ {p} : proc'[q] = proc[q]
        /\ \A q \in Proc \ {p} : requests'[q] = requests[q]
        /\ UNCHANGED <<view, probeIn, refused>>
    BY <1>7, <1>a, <1>b DEF CloseDatabase, Exit, Down
  <2>2. ~view[p] /\ (requests[p] => proc[p].timer = 0)
    BY <1>7 DEF CloseDatabase, Traffic, Served
  <2>3. ~aborted'
    <3>1. ~(requests[p] /\ proc[p].timer > 0)
      BY <2>2
    <3>2. aborted' = (aborted \/ (requests[p] /\ proc[p].timer > 0)) /\ ~aborted
      BY <1>7 DEF CloseDatabase, Traffic, NoRequestAborted
    <3> QED BY <3>1, <3>2, Zenon
  <2> QED BY <2>1, <2>2, <2>3 DEF Traffic, Served, NoRequestRefused, NoRequestAborted
<1>8. ASSUME NEW p \in Proc, Crash(p) PROVE Traffic'
  <2>1. Quiet
    BY <1>8, <1>1 DEF Crash
  <2>2. \A q \in Proc : requests'[q] => requests[q]
    BY <1>8, <1>b DEF Crash
  <2> QED BY <1>8, <1>d, <2>1, <2>2, TrafficKept DEF Crash
<1>9. ASSUME Probe PROVE Traffic'
  <2>1. \A q \in Proc : view'[q] <=> proc[q].at = "running"
    BY <1>9 DEF Probe, Ready
  <2>2. UNCHANGED <<proc, requests, refused, aborted>>
    BY <1>9 DEF Probe
  <2> QED BY <2>1, <2>2 DEF Traffic, Served, NoRequestRefused, NoRequestAborted
<1>10. ASSUME NEW p \in Proc, Route(p) PROVE Traffic'
  <2>1. ~refused'
    <3>1. ~refused /\ proc[p].at \notin {"draining", "closing", "down"}
      BY <1>10 DEF Route, Traffic, Served, NoRequestRefused
    <3>2. CASE UNCHANGED refused
      BY <3>1, <3>2
    <3>3. CASE refused' = (refused \/ proc[p].at \in {"draining", "closing", "down"})
      BY <3>1, <3>3, Zenon
    <3> QED BY <1>10, <3>2, <3>3 DEF Route
  <2>2. \A q \in Proc : requests'[q] => requests[q] \/ proc[q].at \in Listening
    BY <1>10, <1>b DEF Route
  <2> QED BY <1>10, <2>1, <2>2, TrafficKept DEF Route
<1>11. ASSUME NEW p \in Proc, Respond(p) PROVE Traffic'
  <2>1. \A q \in Proc : requests'[q] => requests[q]
    BY <1>11, <1>b DEF Respond
  <2> QED BY <1>11, <1>d, <2>1, TrafficKept DEF Respond
<1>12. ASSUME Tick PROVE Traffic'
  <2>1. \A q \in Proc : /\ proc'[q].at = proc[q].at
                        /\ proc'[q].timer = IF proc[q].timer > 0 THEN proc[q].timer - 1 ELSE 0
    BY <1>12, <1>a DEF Tick, ProcState
  <2>2. probeIn > 0 /\ probeIn' = probeIn - 1 /\ UNCHANGED <<view, requests, refused, aborted>>
    BY <1>12 DEF Tick
  <2>3. \A q \in Proc : proc[q].timer \in Nat
    BY <1>a DEF ProcState
  <2>4. ASSUME NEW q \in Proc PROVE Served(q)'
    <3>1. Served(q)
      BY DEF Traffic
    <3>2. PICK t \in Nat : t = proc[q].timer
      BY <2>3
    <3>3. /\ view'[q] = view[q] /\ requests'[q] = requests[q] /\ proc'[q].at = proc[q].at
          /\ proc'[q].timer = IF t > 0 THEN t - 1 ELSE 0
      BY <2>1, <2>2, <3>2
    <3>4. PICK n \in Nat : n = probeIn /\ n > 0
      BY <1>b, <2>2 DEF TypeOK
    <3>5. CASE t > 0
      <4>1. proc'[q].timer = t - 1 /\ probeIn' = n - 1
        BY <2>2, <3>3, <3>4, <3>5
      <4>2. (t > n => t - 1 > n - 1) /\ t # 0
        BY <3>5
      <4> QED BY <3>1, <3>2, <3>3, <3>4, <4>1, <4>2 DEF Served
    <3>6. CASE t = 0
      <4>1. proc'[q].timer = 0
        BY <3>3, <3>6
      <4>2. ~(t > n)
        BY <3>4, <3>6
      <4> QED BY <3>1, <3>2, <3>3, <3>4, <4>1, <4>2 DEF Served
    <3> QED BY <3>5, <3>6
  <2> QED BY <2>2, <2>4 DEF Traffic, NoRequestRefused, NoRequestAborted
<1>13. CASE UNCHANGED vars
  BY <1>13 DEF vars, lbVars, Traffic, Served, NoRequestRefused, NoRequestAborted
<1> QED
  BY <1>3, <1>4, <1>5, <1>6, <1>7, <1>8, <1>9, <1>10, <1>11, <1>12, <1>13 DEF Next, Stopping

\* The load balancer can rely on it in every reachable state.
LEMMA TrafficInvariant == Spec => []Traffic
<1>1. Init => Traffic
  BY DEF Init, Traffic, Served, Down, NoRequestRefused, NoRequestAborted
<1>2. TypeOK /\ Traffic /\ [Next]_vars => Traffic'
  BY TrafficStep
<1> QED BY <1>1, <1>2, TypedInOrder, PTL DEF Spec

\* No request finds the listener of a process closed that is shutting down
\* gracefully, for every predrain delay longer than the interval of the probe.
THEOREM RefusedTheorem == Spec => []NoRequestRefused
<1>1. Traffic => NoRequestRefused
  BY DEF Traffic
<1> QED BY <1>1, TrafficInvariant, PTL

\* The database is closed under a request only after the drain timed out.
THEOREM AbortedTheorem == Spec => []NoRequestAborted
<1>1. Traffic => NoRequestAborted
  BY DEF Traffic
<1> QED BY <1>1, TrafficInvariant, PTL

-----------------------------------------------------------------------------
(* The rate limiter *)

\* What NewRateLimiter makes of the configuration (a MaxVisitors that is not
\* positive is replaced), and buckets that fill up within the TTL: the defaults
\* are 200 tokens at 100 per second, 20 at 10 per second, and ten minutes.
Configured ==
    /\ MaxVisitors \in Nat \ {0} /\ MaxRequests \in Nat
    /\ {Rate, Burst, QueryRate, QueryBurst, IdleTTL} \subseteq Nat
    /\ Burst <= Rate * IdleTTL /\ QueryBurst <= QueryRate * IdleTTL

\* Nobody is ahead of the front, and no two visitors are in one place.
ListInv ==
    /\ \A ip \in IP : pos[ip] <= front
    /\ \A ip, other \in tracked : pos[ip] = pos[other] => ip = other

\* The list is ordered by lastSeen: who is further back has been idle for longer.
RecencyInv == \A ip, other \in tracked : pos[ip] <= pos[other] => idle[other] <= idle[ip]

\* A bucket holds what has flowed into it since its owner was last seen.
BucketInv ==
    \A ip \in IP :
        /\ tokens[ip] <= Burst /\ queryTokens[ip] <= QueryBurst
        /\ tokens[ip] = Burst \/ Rate * idle[ip] <= tokens[ip]
        /\ queryTokens[ip] = QueryBurst \/ QueryRate * idle[ip] <= queryTokens[ip]

SizeInv == IsFiniteSet(tracked) /\ VisitorsBounded

\* The inductive invariant.
LimiterInv == LimiterTypeOK /\ ListInv /\ RecencyInv /\ BucketInv /\ SizeInv

-----------------------------------------------------------------------------
\* What getVisitor does to everything but the size of the map.
LEMMA GetVisitorLists ==
    ASSUME Configured, LimiterTypeOK, ListInv, RecencyInv, BucketInv,
           NEW ip \in IP, NEW left \in 0 .. Burst, NEW queryLeft \in 0 .. QueryBurst,
           getVisitor(ip, left, queryLeft), inside' \subseteq IP, rejected' \in BOOLEAN
    PROVE  (LimiterTypeOK /\ ListInv /\ RecencyInv /\ BucketInv)'
<1>0. /\ Rate \in Nat /\ Burst \in Nat /\ QueryRate \in Nat /\ QueryBurst \in Nat
      /\ IdleTTL \in Nat
  BY DEF Configured
<1>1. LimiterTypeOK'
  BY <1>0 DEF LimiterTypeOK, getVisitor, Remaining
<1>2. /\ tracked' \subseteq tracked \cup {ip}
      /\ pos'[ip] = front + 1 /\ idle'[ip] = 0 /\ front' = front + 1
      /\ \A other \in IP \ {ip} : pos'[other] = pos[other] /\ idle'[other] = idle[other]
  BY DEF LimiterTypeOK, getVisitor, Remaining
<1>3. ListInv'
  BY <1>1, <1>2 DEF ListInv, LimiterTypeOK
<1>4. RecencyInv'
  <2> SUFFICES ASSUME NEW one \in tracked', NEW other \in tracked', pos'[one] <= pos'[other]
               PROVE  idle'[other] <= idle'[one]
    BY DEF RecencyInv
  <2>1. CASE other = ip
    BY <1>1, <1>2, <2>1 DEF LimiterTypeOK
  <2>2. CASE other # ip /\ one = ip
    <3>1. other \in IP /\ pos[other] <= front /\ pos[other] \in Nat /\ front \in Nat
      BY <1>2, <2>2 DEF LimiterTypeOK, ListInv
    <3>2. PICK f \in Nat, k \in Nat : f = front /\ k = pos[other] /\ k <= f
      BY <3>1
    <3>3. pos'[one] = f + 1 /\ pos'[other] = k
      BY <1>2, <2>2, <3>1, <3>2
    <3>4. ~(f + 1 <= k)
      BY <3>2
    <3> QED  BY <3>3, <3>4
  <2>3. CASE other # ip /\ one # ip
    BY <1>2, <2>3 DEF LimiterTypeOK, RecencyInv
  <2> QED  BY <2>1, <2>2, <2>3
<1>5. BucketInv'
  <2> SUFFICES ASSUME NEW one \in IP
               PROVE  /\ tokens'[one] <= Burst /\ queryTokens'[one] <= QueryBurst
                      /\ tokens'[one] = Burst \/ Rate * idle'[one] <= tokens'[one]
                      /\ queryTokens'[one] = QueryBurst \/ QueryRate * idle'[one] <= queryTokens'[one]
    BY DEF BucketInv
  <2>1. CASE one = ip
    <3>1. tokens'[one] = left /\ queryTokens'[one] = queryLeft /\ idle'[one] = 0
      BY <2>1 DEF getVisitor, LimiterTypeOK
    <3>2. Rate * 0 = 0 /\ QueryRate * 0 = 0
      BY <1>0
    <3> QED  BY <1>0, <3>1, <3>2
  <2>2. CASE one # ip
    <3>1. tokens'[one] = tokens[one] /\ queryTokens'[one] = queryTokens[one] /\ idle'[one] = idle[one]
      BY <2>2 DEF getVisitor, LimiterTypeOK
    <3> QED  BY <3>1 DEF BucketInv
  <2> QED  BY <2>1, <2>2
<1> QED  BY <1>1, <1>3, <1>4, <1>5

\* A list that is not empty has a tail: getVisitor on a full map makes room.
LEMMA TailExists ==
    ASSUME LimiterTypeOK, IsFiniteSet(tracked), tracked # {}
    PROVE  Oldest # {}
<1> DEFINE Behind(ip) == {other \in tracked : pos[other] < pos[ip]}
           Tails == {Behind(ip) : ip \in tracked}
<1>1. Tails \subseteq FiniteSubsetsOf(tracked) /\ Tails # {}
  <2>1. \A ip \in tracked : Behind(ip) \in SUBSET tracked /\ IsFiniteSet(Behind(ip))
    BY FS_Subset
  <2>2. \A ip \in tracked : Behind(ip) \in FiniteSubsetsOf(tracked)
    BY <2>1 DEF FiniteSubsetsOf
  <2> QED  BY <2>2
<1>2. PICK least \in Tails : \A tail \in Tails : ~(<<tail, least>> \in StrictSubsetOrdering(tracked))
  <2> HIDE DEF Tails
  <2> QED  BY <1>1, WFMin, FS_StrictSubsetOrderingWellFounded
<1>3. PICK ip \in tracked : least = Behind(ip)
  OBVIOUS
<1>4. ASSUME NEW other \in Behind(ip)  PROVE FALSE
  <2>1. Behind(other) \subseteq Behind(ip) /\ other \notin Behind(other)
    BY <1>4 DEF LimiterTypeOK
  <2>2. <<Behind(other), least>> \in StrictSubsetOrdering(tracked)
    BY <1>3, <1>4, <2>1 DEF StrictSubsetOrdering
  <2> QED  BY <1>2, <1>4, <2>2
<1>5. \A other \in tracked : pos[ip] <= pos[other]
  BY <1>4 DEF LimiterTypeOK
<1> QED  BY <1>5 DEF Oldest

\* getVisitor keeps the bound.
LEMMA GetVisitorSize ==
    ASSUME Configured, LimiterTypeOK, SizeInv, NEW ip \in IP, tracked' = Remaining(ip) \cup {ip}
    PROVE  SizeInv'
<1>0. MaxVisitors \in Nat \ {0} /\ IsFiniteSet(tracked) /\ Cardinality(tracked) <= MaxVisitors
  BY DEF Configured, SizeInv, VisitorsBounded
<1>1. Cardinality(tracked) \in Nat
  BY <1>0, FS_CardinalityType
<1>2. Remaining(ip) \subseteq tracked
  BY DEF Remaining
<1>3. IsFiniteSet(Remaining(ip)) /\ Cardinality(Remaining(ip)) <= Cardinality(tracked)
  BY <1>0, <1>2, FS_Subset
<1>4. Cardinality(Remaining(ip)) \in Nat
  BY <1>3, FS_CardinalityType
<1>5. /\ IsFiniteSet(Remaining(ip) \cup {ip})
      /\ Cardinality(Remaining(ip) \cup {ip}) =
           IF ip \in Remaining(ip) THEN Cardinality(Remaining(ip)) ELSE Cardinality(Remaining(ip)) + 1
  BY <1>3, FS_AddElement
<1>6. CASE ip \in tracked
  <2>1. ip \in Remaining(ip)
    BY <1>6 DEF Remaining
  <2> QED  BY <1>0, <1>1, <1>3, <1>4, <1>5, <2>1 DEF SizeInv, VisitorsBounded
<1>7. CASE ip \notin tracked /\ Cardinality(tracked) < MaxVisitors
  BY <1>0, <1>1, <1>3, <1>4, <1>5, <1>7 DEF SizeInv, VisitorsBounded
<1>8. CASE ip \notin tracked /\ Cardinality(tracked) >= MaxVisitors
  <2>1. tracked # {}
    BY <1>0, <1>8, FS_EmptySet
  <2>2. Remaining(ip) # tracked
    BY <1>0, <1>8, <2>1, TailExists DEF Remaining, Oldest
  <2>3. Cardinality(Remaining(ip)) < Cardinality(tracked)
    BY <1>0, <1>1, <1>2, <1>3, <1>4, <2>2, FS_Subset
  <2> QED  BY <1>0, <1>1, <1>4, <1>5, <2>3 DEF SizeInv, VisitorsBounded
<1> QED  BY <1>0, <1>1, <1>6, <1>7, <1>8

-----------------------------------------------------------------------------
\* The empty limiter.
LEMMA LimiterInit ==
    ASSUME Configured, NewRateLimiter
    PROVE  LimiterInv
<1>0. {Rate, Burst, QueryRate, QueryBurst, IdleTTL} \subseteq Nat /\ MaxVisitors \in Nat
  BY DEF Configured
<1>1. LimiterTypeOK
  BY <1>0 DEF NewRateLimiter, LimiterTypeOK
<1>2. ListInv /\ RecencyInv
  BY DEF NewRateLimiter, ListInv, RecencyInv
<1>3. BucketInv
  <2>1. Burst <= Burst /\ QueryBurst <= QueryBurst
    BY <1>0
  <2>2. \A ip \in IP : tokens[ip] = Burst /\ queryTokens[ip] = QueryBurst
    BY DEF NewRateLimiter
  <2> QED BY <2>1, <2>2 DEF BucketInv
<1>4. SizeInv
  <2>1. tracked = {} /\ MaxVisitors \in Nat
    BY <1>0 DEF NewRateLimiter
  <2>2. IsFiniteSet(tracked) /\ Cardinality(tracked) = 0
    BY <2>1, FS_EmptySet
  <2> QED BY <2>1, <2>2 DEF SizeInv, VisitorsBounded
<1> QED  BY <1>1, <1>2, <1>3, <1>4 DEF LimiterInv

\* The buckets after Allow are within their bounds.
LEMMA AllowBounded ==
    ASSUME Configured, LimiterTypeOK, BucketInv, NEW ip \in IP
    PROVE  /\ Bucket(ip) \in 0 .. Burst /\ Allow(Bucket(ip)) \in 0 .. Burst
           /\ QueryBucket(ip) \in 0 .. QueryBurst /\ Allow(QueryBucket(ip)) \in 0 .. QueryBurst
<1>1. {Burst, QueryBurst} \subseteq Nat
  BY DEF Configured
<1>2. Bucket(ip) \in 0 .. Burst /\ QueryBucket(ip) \in 0 .. QueryBurst
  BY <1>1 DEF Bucket, QueryBucket, LimiterTypeOK, BucketInv
<1> QED  BY <1>1, <1>2 DEF Allow

\* A unit of time pours rate into a bucket.
LEMMA RefillKeeps ==
    ASSUME NEW bucket \in Nat, NEW rate \in Nat, NEW burst \in Nat, NEW age \in Nat, NEW older \in Nat,
           older = age \/ older = age + 1,
           bucket <= burst, bucket = burst \/ rate * age <= bucket
    PROVE  /\ Refilled(bucket, rate, burst) <= burst
           /\ Refilled(bucket, rate, burst) = burst \/ rate * older <= Refilled(bucket, rate, burst)
<1>1. rate * (age + 1) = rate * age + rate /\ rate * age \in Nat
  OBVIOUS
<1>2. rate * older = rate * age \/ rate * older = rate * age + rate
  BY <1>1
<1>3. rate * older \in Nat
  OBVIOUS
<1> QED  BY <1>1, <1>2, <1>3 DEF Refilled

\* TimePasses keeps what is known of the buckets.
LEMMA TickKeepsBuckets ==
    ASSUME Configured, LimiterTypeOK, BucketInv, TimePasses
    PROVE  BucketInv'
<1>1. Rate \in Nat /\ Burst \in Nat /\ QueryRate \in Nat /\ QueryBurst \in Nat /\ IdleTTL \in Nat
  BY DEF Configured
<1>2. SUFFICES ASSUME NEW ip \in IP
               PROVE  /\ tokens'[ip] <= Burst /\ queryTokens'[ip] <= QueryBurst
                      /\ tokens'[ip] = Burst \/ Rate * idle'[ip] <= tokens'[ip]
                      /\ queryTokens'[ip] = QueryBurst \/ QueryRate * idle'[ip] <= queryTokens'[ip]
  BY DEF BucketInv
<1>3. /\ idle[ip] \in Nat /\ idle'[ip] \in Nat /\ (idle'[ip] = idle[ip] \/ idle'[ip] = idle[ip] + 1)
      /\ tokens[ip] \in Nat /\ queryTokens[ip] \in Nat
      /\ tokens'[ip] = Refilled(tokens[ip], Rate, Burst)
      /\ queryTokens'[ip] = Refilled(queryTokens[ip], QueryRate, QueryBurst)
  BY DEF LimiterTypeOK, TimePasses
<1>4. /\ tokens[ip] <= Burst /\ queryTokens[ip] <= QueryBurst
      /\ tokens[ip] = Burst \/ Rate * idle[ip] <= tokens[ip]
      /\ queryTokens[ip] = QueryBurst \/ QueryRate * idle[ip] <= queryTokens[ip]
  BY DEF BucketInv
<1>5. /\ Refilled(tokens[ip], Rate, Burst) <= Burst
      /\ \/ Refilled(tokens[ip], Rate, Burst) = Burst
         \/ Rate * idle'[ip] <= Refilled(tokens[ip], Rate, Burst)
  BY <1>1, <1>3, <1>4, RefillKeeps, Zenon
<1>6. /\ Refilled(queryTokens[ip], QueryRate, QueryBurst) <= QueryBurst
      /\ \/ Refilled(queryTokens[ip], QueryRate, QueryBurst) = QueryBurst
         \/ QueryRate * idle'[ip] <= Refilled(queryTokens[ip], QueryRate, QueryBurst)
  BY <1>1, <1>3, <1>4, RefillKeeps, Zenon
<1> QED  BY <1>3, <1>5, <1>6, Zenon

\* Every step keeps the invariant.
LEMMA LimiterStep ==
    ASSUME Configured, LimiterInv, [LimiterNext]_limiterVars
    PROVE  LimiterInv'
<1> USE DEF LimiterInv
<1>1. ASSUME NEW ip \in IP, NEW query \in BOOLEAN, Middleware(ip, query)  PROVE LimiterInv'
  <2>1. inside' \subseteq IP /\ rejected' \in BOOLEAN
    BY <1>1 DEF Middleware, LimiterTypeOK
  <2>2. getVisitor(ip, Allow(Bucket(ip)), QueryBucket(ip)) /\ tracked' = Remaining(ip) \cup {ip}
    BY <1>1 DEF Middleware, getVisitor
  <2>3. (LimiterTypeOK /\ ListInv /\ RecencyInv /\ BucketInv)'
    BY <2>1, <2>2, AllowBounded, GetVisitorLists
  <2>4. SizeInv'
    BY <2>2, GetVisitorSize
  <2> QED  BY <2>3, <2>4
<1>2. ASSUME NEW ip \in IP, withQueryRateLimit(ip)  PROVE LimiterInv'
  <2>1. inside' \subseteq IP /\ rejected' \in BOOLEAN
    BY <1>2 DEF withQueryRateLimit, LimiterTypeOK
  <2>2. getVisitor(ip, Bucket(ip), Allow(QueryBucket(ip))) /\ tracked' = Remaining(ip) \cup {ip}
    BY <1>2 DEF withQueryRateLimit, getVisitor
  <2>3. (LimiterTypeOK /\ ListInv /\ RecencyInv /\ BucketInv)'
    BY <2>1, <2>2, AllowBounded, GetVisitorLists
  <2>4. SizeInv'
    BY <2>2, GetVisitorSize
  <2> QED  BY <2>3, <2>4
<1>3. ASSUME cleanup  PROVE LimiterInv'
  <2>1. tracked' \subseteq tracked
    BY <1>3 DEF cleanup
  <2>2. (LimiterTypeOK /\ ListInv /\ RecencyInv /\ BucketInv)'
    BY <1>3, <2>1 DEF cleanup, LimiterTypeOK, ListInv, RecencyInv, BucketInv
  <2>3. IsFiniteSet(tracked) /\ Cardinality(tracked) \in Nat /\ MaxVisitors \in Nat
    BY FS_CardinalityType DEF SizeInv, Configured
  <2>4. IsFiniteSet(tracked') /\ Cardinality(tracked') <= Cardinality(tracked)
    BY <2>1, <2>3, FS_Subset
  <2>5. Cardinality(tracked') \in Nat
    BY <2>4, FS_CardinalityType
  <2> QED  BY <2>2, <2>3, <2>4, <2>5 DEF SizeInv, VisitorsBounded
<1>4. ASSUME TimePasses  PROVE LimiterInv'
  <2>0. /\ Rate \in Nat /\ Burst \in Nat /\ QueryRate \in Nat /\ QueryBurst \in Nat
        /\ IdleTTL \in Nat
    BY DEF Configured
  <2>a. LimiterTypeOK'
    BY <1>4, <2>0 DEF TimePasses, Refilled, LimiterTypeOK
  <2>b. ListInv'
    BY <1>4 DEF TimePasses, ListInv
  <2>1. LimiterTypeOK' /\ ListInv'
    BY <2>a, <2>b
  <2>2. RecencyInv'
    <3>1. \A ip \in tracked : /\ idle[ip] \in Nat
                              /\ idle'[ip] = IF idle[ip] > IdleTTL THEN idle[ip] ELSE idle[ip] + 1
      BY <1>4 DEF TimePasses, LimiterTypeOK
    <3>2. tracked' = tracked /\ pos' = pos
      BY <1>4 DEF TimePasses
    <3>3. ASSUME NEW one \in tracked, NEW other \in tracked, pos[one] <= pos[other]
          PROVE  idle'[other] <= idle'[one]
      <4>1. idle[other] <= idle[one]
        BY <3>3 DEF RecencyInv
      <4> QED BY <2>0, <3>1, <4>1
    <3> QED
      BY <3>2, <3>3 DEF RecencyInv
  <2>3. SizeInv'
    BY <1>4 DEF TimePasses, SizeInv, VisitorsBounded
  <2> QED  BY <1>4, <2>1, <2>2, <2>3, TickKeepsBuckets
<1>5. CASE UNCHANGED limiterVars
  BY <1>5 DEF limiterVars, LimiterTypeOK, ListInv, RecencyInv, BucketInv, SizeInv, VisitorsBounded
<1> QED  BY <1>1, <1>2, <1>3, <1>4, <1>5 DEF LimiterNext

-----------------------------------------------------------------------------
\* The limiter's list, buckets and size are always consistent.
THEOREM LimiterInvariant ==
    ASSUME Configured
    PROVE  LimiterSpec => []LimiterInv
<1>1. NewRateLimiter => LimiterInv
  BY LimiterInit
<1>2. LimiterInv /\ [LimiterNext]_limiterVars => LimiterInv'
  BY LimiterStep
<1> QED  BY <1>1, <1>2, PTL DEF LimiterSpec

\* getVisitor never lets the map grow beyond MaxVisitors.
THEOREM BoundedVisitors ==
    ASSUME Configured
    PROVE  LimiterSpec => []VisitorsBounded
<1>1. LimiterInv => VisitorsBounded
  BY DEF LimiterInv, SizeInv
<1> QED  BY <1>1, LimiterInvariant, PTL

\* The early end of cleanup's walk misses no idle visitor: the list is ordered by
\* lastSeen, so that the idle visitors are a tail of it.
THEOREM SweepComplete ==
    ASSUME Configured
    PROVE  LimiterSpec => CleanupComplete
<1>1. LimiterInv /\ [LimiterNext]_limiterVars => [cleanup => \A ip \in tracked' : idle[ip] <= IdleTTL]_limiterVars
  <2> SUFFICES ASSUME LimiterInv, cleanup, NEW ip \in tracked'
               PROVE  idle[ip] <= IdleTTL
    OBVIOUS
  <2>1. ip \in tracked /\ ip \notin Swept
    BY DEF cleanup
  <2>2. PICK other \in tracked : pos[other] <= pos[ip] /\ ~(idle[other] > IdleTTL)
    BY <2>1 DEF Swept
  <2>3. idle[ip] <= idle[other]
    BY <2>1, <2>2 DEF LimiterInv, RecencyInv
  <2>4. idle[ip] \in Nat /\ idle[other] \in Nat /\ IdleTTL \in Nat
    BY <2>1 DEF LimiterInv, LimiterTypeOK, Configured
  <2> QED  BY <2>2, <2>3, <2>4
<1> QED  BY <1>1, LimiterInvariant, PTL DEF LimiterSpec, CleanupComplete

\* cleanup drops only visitors whose buckets have filled up again, so that an
\* address gains nothing from being forgotten.
THEOREM SweepForgetsNothing ==
    ASSUME Configured
    PROVE  LimiterSpec => CleanupForgetsNothing
<1>1. ASSUME NEW rate \in Nat, NEW burst \in Nat, NEW bucket \in Nat, NEW age \in Nat, NEW ttl \in Nat,
             burst <= rate * ttl, ttl < age, bucket <= burst, bucket = burst \/ rate * age <= bucket
      PROVE  bucket = burst
  <2>1. rate * ttl <= rate * age
    BY <1>1
  <2>2. rate * ttl \in Nat /\ rate * age \in Nat
    OBVIOUS
  <2> QED  BY <1>1, <2>1, <2>2
<1>2. LimiterInv /\ [LimiterNext]_limiterVars
        => [cleanup => \A ip \in tracked \ tracked' :
                         tokens[ip] = Burst /\ queryTokens[ip] = QueryBurst]_limiterVars
  <2> SUFFICES ASSUME LimiterInv, cleanup, NEW ip \in tracked \ tracked'
               PROVE  tokens[ip] = Burst /\ queryTokens[ip] = QueryBurst
    OBVIOUS
  <2>1. ip \in Swept /\ ip \in IP
    BY DEF cleanup, LimiterInv, LimiterTypeOK
  <2>2. /\ Rate \in Nat /\ Burst \in Nat /\ QueryRate \in Nat /\ QueryBurst \in Nat /\ IdleTTL \in Nat
        /\ Burst <= Rate * IdleTTL /\ QueryBurst <= QueryRate * IdleTTL
    BY DEF Configured
  <2>3. tokens[ip] \in Nat /\ queryTokens[ip] \in Nat /\ idle[ip] \in Nat /\ pos[ip] \in Nat
    BY <2>1 DEF LimiterInv, LimiterTypeOK
  <2>4. IdleTTL < idle[ip]
    BY <2>1, <2>2, <2>3 DEF Swept
  <2>5. /\ tokens[ip] <= Burst /\ queryTokens[ip] <= QueryBurst
        /\ tokens[ip] = Burst \/ Rate * idle[ip] <= tokens[ip]
        /\ queryTokens[ip] = QueryBurst \/ QueryRate * idle[ip] <= queryTokens[ip]
    BY <2>1 DEF LimiterInv, BucketInv
  <2> QED  BY <1>1, <2>2, <2>3, <2>4, <2>5, Zenon
<1> QED  BY <1>2, LimiterInvariant, PTL DEF LimiterSpec, CleanupForgetsNothing

=============================================================================
