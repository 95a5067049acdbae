--------------------------- MODULE FetcherProofs ---------------------------
(***************************************************************************)
(* The circuit breaker under concurrent fetches, for any number of callers *)
(* and servers and any thresholds: a half-open phase lets in a bounded     *)
(* number of requests, and a circuit opens only after a streak of failures.*)
(* Then the server discovery a fetch starts with.                          *)
(***************************************************************************)
EXTENDS Fetcher, Resolver, TLAPS

\* The assumptions of the modules, in one place.
LEMMA Constants ==
    /\ FailureThreshold \in Nat \ {0} /\ ResetTimeout \in Nat \ {0} /\ HalfOpenMax \in Nat \ {0}
    /\ ServerTTL \in Nat /\ RetryAttempts \in Nat \ {0} /\ Fallbacks \in Nat
BY BreakerAssumption, FetcherAssumption

-----------------------------------------------------------------------------
(* The operations of the breaker on one circuit.                           *)

\* The fields of a serverCircuit, and of a server that has none.
LEMMA CircuitFields ==
    ASSUME NEW c \in Circuit \cup {None}
    PROVE  /\ c.state \in {"none", "closed", "open", "halfOpen"}
           /\ c.state = "none" <=> c = None
           /\ c.failures \in 0 .. FailureThreshold
           /\ c.sinceFailure \in 0 .. ResetTimeout + 1 /\ c.sinceTouched \in 0 .. ServerTTL + 1
           /\ c.halfOpenReqs \in 0 .. HalfOpenMax
<1>1. CASE c \in Circuit
  BY <1>1 DEF Circuit, None
<1>2. CASE c = None
  BY <1>2, Constants DEF None
<1> QED BY <1>1, <1>2

\* Allow leaves a circuit.
LEMMA AllowTyped ==
    ASSUME NEW c \in Circuit \cup {None}
    PROVE  AfterAllow(c) \in Circuit \cup {None}
<1>1. CASE c = None \/ isExpired(c)
  BY <1>1 DEF AfterAllow
<1>2. CASE c # None /\ ~isExpired(c)
  <2>1. (CASE Reopening(c) -> 0 [] ProbeLeft(c) -> c.halfOpenReqs + 1 [] OTHER -> c.halfOpenReqs)
            \in 0 .. HalfOpenMax
    <3>1. CASE Reopening(c)
      BY <3>1, Constants DEF Reopening, ProbeLeft
    <3>2. CASE ~Reopening(c) /\ ProbeLeft(c)
      BY <3>2, Constants, CircuitFields DEF ProbeLeft
    <3>3. CASE ~Reopening(c) /\ ~ProbeLeft(c)
      BY <3>3, CircuitFields
    <3> QED BY <3>1, <3>2, <3>3
  <2>2. 0 \in 0 .. ServerTTL + 1
    BY Constants
  <2>3. (IF Reopening(c) THEN "halfOpen" ELSE c.state) \in {"closed", "open", "halfOpen"}
    BY <1>2, CircuitFields
  <2> QED BY <1>2, <2>1, <2>2, <2>3 DEF AfterAllow, Circuit
<1> QED BY <1>1, <1>2

\* RecordSuccess leaves a circuit.
LEMMA SuccessTyped ==
    ASSUME NEW c \in Circuit \cup {None}
    PROVE  RecordSuccess(c) \in Circuit \cup {None}
<1>1. 0 \in 0 .. ServerTTL + 1 /\ 0 \in 0 .. FailureThreshold /\ 0 \in 0 .. HalfOpenMax
  BY Constants
<1>2. CASE c = None
  BY <1>2 DEF RecordSuccess, None
<1>3. CASE c \in Circuit
  <2>1. CASE c.state = "halfOpen"
    BY <2>1, <1>1, <1>3 DEF RecordSuccess, Circuit
  <2>2. CASE c.state = "closed"
    BY <2>2, <1>1, <1>3 DEF RecordSuccess, Circuit
  <2>3. CASE c.state = "open"
    BY <2>3, <1>1, <1>3 DEF RecordSuccess, Circuit
  <2> QED BY <1>3, <2>1, <2>2, <2>3 DEF Circuit
<1> QED BY <1>2, <1>3

\* What RecordFailure makes of a circuit, and when that is open.
LEMMA FailedTyped ==
    ASSUME NEW c \in Circuit \cup {None}
    PROVE  /\ Failed(c) \in Circuit
           /\ Failed(c).state \in {"open", "closed"}
           /\ Failed(c).failures = IF c.failures < FailureThreshold THEN c.failures + 1 ELSE c.failures
           /\ Failed(c).state = "open" <=> c.state \in {"open", "halfOpen"} \/ Failed(c).failures >= FailureThreshold
<1>1. c.failures \in 0 .. FailureThreshold /\ c.halfOpenReqs \in 0 .. HalfOpenMax
  BY CircuitFields
<1>2. 0 \in 0 .. ServerTTL + 1 /\ 0 \in 0 .. ResetTimeout + 1
  BY Constants
<1>3. (IF c.failures < FailureThreshold THEN c.failures + 1 ELSE c.failures) \in 0 .. FailureThreshold
  BY <1>1, Constants
<1> QED BY <1>1, <1>2, <1>3 DEF Failed, Circuit

\* Ages are counted up to the first one that no longer matters.
LEMMA OlderTyped ==
    ASSUME NEW n \in Nat, NEW a \in 0 .. n + 1
    PROVE  Older(a, n) \in 0 .. n + 1
BY DEF Older

\* Neither cleanup nor time spoils the map of circuits.
LEMMA MapsTyped ==
    ASSUME NEW cs \in Circuits
    PROVE  cleanup(cs) \in Circuits /\ Aged(cs) \in Circuits
<1>1. cleanup(cs) \in Circuits
  BY DEF cleanup, Circuits
<1>2. ASSUME NEW s \in Server, cs[s] # None
      PROVE  [cs[s] EXCEPT !.sinceFailure = Older(@, ResetTimeout), !.sinceTouched = Older(@, ServerTTL)] \in Circuit
  <2>1. cs[s] \in Circuit
    BY <1>2 DEF Circuits
  <2>2. Older(cs[s].sinceFailure, ResetTimeout) \in 0 .. ResetTimeout + 1
    BY <2>1, OlderTyped, Constants DEF Circuit
  <2>3. Older(cs[s].sinceTouched, ServerTTL) \in 0 .. ServerTTL + 1
    BY <2>1, OlderTyped, Constants DEF Circuit
  <2> QED BY <2>1, <2>2, <2>3 DEF Circuit
<1>3. Aged(cs) \in Circuits
  BY <1>2 DEF Aged, Circuits
<1> QED BY <1>1, <1>3

\* RecordFailure counts a failure against s; every other circuit stays or goes.
LEMMA FailureMap ==
    ASSUME NEW cs \in Circuits, NEW s \in Server, NEW new \in RecordFailure(cs, s)
    PROVE  /\ new \in Circuits
           /\ \A t \in Server \ {s} : new[t] \in {cs[t], None}
           /\ new[s] = Failed(cs[s]) \/ new[s] = Failed(None)
<1> DEFINE kept == cleanup(cs)
<1>1. kept \in Circuits /\ \A t \in Server : kept[t] \in {cs[t], None}
  BY MapsTyped DEF cleanup
<1>2. CASE \E o \in Oldest(kept) : new = [kept EXCEPT ![o] = None, ![s] = Failed(None)]
  <2>1. Failed(None) \in Circuit
    BY FailedTyped
  <2>2. PICK o \in Server : new = [kept EXCEPT ![o] = None, ![s] = Failed(None)]
    BY <1>2 DEF Oldest, Tracked
  <2> HIDE DEF kept
  <2> QED BY <1>1, <2>1, <2>2 DEF Circuits
<1>3. CASE new = [kept EXCEPT ![s] = Failed(@)]
  <2>1. kept[s] \in Circuit \cup {None}
    BY <1>1 DEF Circuits
  <2>2. Failed(kept[s]) \in Circuit
    BY <2>1, FailedTyped
  <2> HIDE DEF kept
  <2> QED BY <1>1, <1>3, <2>1, <2>2 DEF Circuits
<1> QED BY <1>2, <1>3 DEF RecordFailure

-----------------------------------------------------------------------------
(* The types that the counters rest on.  (That slots stays within 0 ..     *)
(* Slots is not needed for them.)                                          *)

Typed ==
    /\ circuits \in Circuits
    /\ fetch \in [Caller -> FetchState]
    /\ streak \in [Server -> 0 .. FailureThreshold]
    /\ admitted \in [Server -> 0 .. HalfOpenMax + 2]

\* What a fetch carries from place to place.
LEMMA FetchFields ==
    ASSUME NEW f \in FetchState
    PROVE  /\ f.at \in {"acquire", "direct", "fallback"} => f.server \in Server
           /\ f.at = "direct" => f \in [at : {"direct"}, server : Server, attempt : 1 .. RetryAttempts]
           /\ f.at = "fallback" => f.notary \in 1 .. Fallbacks
BY DEF FetchState, Idle

\* What a fetch that holds a slot does to the breaker: it reports, or goes on.
LEMMA Reports ==
    ASSUME Typed, NEW c \in Caller, FetchDirect(c) \/ FetchFromNotary(c) \/ FetchCancelled(c)
    PROVE  /\ fetch[c].server \in Server
           /\ fetch' \in [Caller -> FetchState]
           /\ Succeed(c) \/ Fail(c) \/ UNCHANGED <<circuits, streak, admitted>>
<1>1. fetch[c] \in FetchState /\ fetch[c].at \in {"direct", "fallback"}
  BY DEF Typed, FetchDirect, FetchFromNotary, FetchCancelled, At
<1>2. fetch[c].server \in Server
  BY <1>1, FetchFields
<1>3. Succeed(c) \/ Fail(c) => fetch' \in [Caller -> FetchState]
  BY DEF Succeed, Fail, Typed, FetchState
<1>4. ASSUME NEW i \in 1 .. Fallbacks + 1, ToFallback(c, i)
      PROVE  \/ Fail(c)
             \/ fetch' \in [Caller -> FetchState] /\ UNCHANGED <<circuits, streak, admitted>>
  <2>1. CASE i > Fallbacks
    BY <1>4, <2>1 DEF ToFallback
  <2>2. CASE ~(i > Fallbacks)
    <3>1. i \in 1 .. Fallbacks
      BY <2>2, Constants
    <3>2. [at |-> "fallback", server |-> fetch[c].server, notary |-> i] \in FetchState
      BY <1>2, <3>1 DEF FetchState
    <3> QED BY <1>4, <2>2, <3>2 DEF ToFallback, histVars, Typed
  <2> QED BY <2>1, <2>2
<1>5. CASE FetchDirect(c)
  <2>1. PICK outcome :
            CASE outcome = "ok" -> Succeed(c)
              [] outcome = "retry" /\ fetch[c].attempt < RetryAttempts ->
                     /\ fetch' = [fetch EXCEPT ![c].attempt = @ + 1]
                     /\ UNCHANGED <<circuits, slots, histVars>>
              [] OTHER -> ToFallback(c, 1)
    BY <1>5 DEF FetchDirect
  <2>2. CASE outcome = "ok"
    BY <1>2, <1>3, <2>1, <2>2
  <2>3. CASE outcome = "retry" /\ fetch[c].attempt < RetryAttempts
    <3>1. fetch[c] \in [at : {"direct"}, server : Server, attempt : 1 .. RetryAttempts]
      BY <1>1, <1>5, FetchFields DEF FetchDirect, At
    <3>2. fetch[c].attempt + 1 \in 1 .. RetryAttempts
      BY <2>3, <3>1, Constants
    <3>3. [fetch[c] EXCEPT !.attempt = @ + 1] \in FetchState
      BY <3>1, <3>2 DEF FetchState
    <3> QED BY <1>2, <2>1, <2>3, <3>3 DEF histVars, Typed
  <2>4. CASE outcome # "ok" /\ ~(outcome = "retry" /\ fetch[c].attempt < RetryAttempts)
    <3>1. ToFallback(c, 1)
      BY <2>1, <2>4
    <3>2. 1 \in 1 .. Fallbacks + 1
      BY Constants
    <3> QED BY <1>2, <1>3, <1>4, <3>1, <3>2
  <2> QED BY <2>2, <2>3, <2>4
<1>6. CASE FetchFromNotary(c)
  <2>1. Succeed(c) \/ ToFallback(c, fetch[c].notary + 1)
    BY <1>6 DEF FetchFromNotary
  <2>2. fetch[c].notary + 1 \in 1 .. Fallbacks + 1
    BY <1>1, <1>6, FetchFields, Constants DEF FetchFromNotary, At
  <2> QED BY <1>2, <1>3, <1>4, <2>1, <2>2
<1>7. CASE FetchCancelled(c)
  BY <1>2, <1>3, <1>7 DEF FetchCancelled
<1> QED BY <1>5, <1>6, <1>7

-----------------------------------------------------------------------------
(* The inductive invariant: the breaker's counters against what happened.  *)
(* A closed circuit has counted no failure that the streak has not; a      *)
(* half-open one has counted every request it let in, but the first.       *)

Counted(c, n) ==
    /\ c.state = "closed" => c.failures <= n.streak
    /\ c.state = "halfOpen" => n.admitted <= c.halfOpenReqs + 1

Counts(s) == [streak |-> streak[s], admitted |-> admitted[s]]

Counters == \A s \in Server : Counted(circuits[s], Counts(s))

\* Steps that leave circuits and counters alone.
LEMMA CountsKept ==
    ASSUME Counters, UNCHANGED <<circuits, streak, admitted>>
    PROVE  Counters'
BY DEF Counters, Counted, Counts

\* Circuits that only age, or go, keep their counters.
LEMMA CountedAged ==
    ASSUME Typed, Counters, UNCHANGED <<streak, admitted>>,
           circuits' = Aged(circuits) \/ circuits' = cleanup(circuits)
    PROVE  Counters' /\ \A s \in Server : circuits'[s].state = "open" => circuits[s].state = "open"
<1> SUFFICES ASSUME NEW s \in Server
             PROVE  Counted(circuits'[s], Counts(s)') /\ (circuits'[s].state = "open" => circuits[s].state = "open")
  BY DEF Counters
<1>1. circuits[s] \in Circuit \cup {None} /\ Counted(circuits[s], Counts(s))
  BY DEF Typed, Circuits, Counters
<1>2. Counts(s)' = Counts(s)
  BY DEF Counts
<1>3. CASE circuits'[s] \in {circuits[s], None}
  BY <1>1, <1>2, <1>3 DEF Counted, None
<1>4. CASE circuits' = Aged(circuits) /\ circuits[s] # None
  <2>1. circuits'[s] = [circuits[s] EXCEPT !.sinceFailure = Older(@, ResetTimeout),
                                           !.sinceTouched = Older(@, ServerTTL)]
    BY <1>4 DEF Aged
  <2>2. /\ circuits'[s].state = circuits[s].state /\ circuits'[s].failures = circuits[s].failures
        /\ circuits'[s].halfOpenReqs = circuits[s].halfOpenReqs
    BY <1>1, <1>4, <2>1 DEF Circuit
  <2> QED BY <1>1, <1>2, <2>2 DEF Counted
<1> QED BY <1>3, <1>4 DEF Aged, cleanup

\* Allow moves a circuit and its history together, and never opens one.
LEMMA CountedAllow ==
    ASSUME Typed, NEW s \in Server, Counted(circuits[s], Counts(s))
    PROVE  LET a == CASE Reopening(circuits[s]) -> 1
                      [] ProbeLeft(circuits[s]) /\ admitted[s] < HalfOpenMax + 2 -> admitted[s] + 1
                      [] OTHER -> admitted[s]
           IN  /\ a \in 0 .. HalfOpenMax + 2
               /\ Counted(AfterAllow(circuits[s]), [streak |-> streak[s], admitted |-> a])
               /\ AfterAllow(circuits[s]).state = "open" => circuits[s].state = "open"
<1> DEFINE c == circuits[s]
           a == CASE Reopening(c) -> 1
                  [] ProbeLeft(c) /\ admitted[s] < HalfOpenMax + 2 -> admitted[s] + 1
                  [] OTHER -> admitted[s]
           new == AfterAllow(c)
<1>1. c \in Circuit \cup {None} /\ streak[s] \in Nat /\ admitted[s] \in 0 .. HalfOpenMax + 2
  BY Constants DEF Typed, Circuits
<1>2. a \in 0 .. HalfOpenMax + 2
  BY <1>1, Constants DEF Reopening, ProbeLeft
<1>3. CASE c = None \/ isExpired(c)
  BY <1>2, <1>3 DEF AfterAllow, Counted, None
<1>4. CASE c # None /\ ~isExpired(c)
  <2>1. c \in Circuit /\ c.halfOpenReqs \in Nat
    BY <1>1, <1>4, Constants DEF Circuit
  <2>2. /\ c.state = "closed" => c.failures <= streak[s]
        /\ c.state = "halfOpen" => admitted[s] <= c.halfOpenReqs + 1
    BY DEF Counted, Counts
  <2>3. new = [c EXCEPT !.sinceTouched = 0,
                        !.state = IF Reopening(c) THEN "halfOpen" ELSE @,
                        !.halfOpenReqs = CASE Reopening(c) -> 0 [] ProbeLeft(c) -> @ + 1 [] OTHER -> @]
    BY <1>4 DEF AfterAllow
  <2>4. /\ new.failures = c.failures /\ new.state = IF Reopening(c) THEN "halfOpen" ELSE c.state
        /\ new.halfOpenReqs = CASE Reopening(c) -> 0 [] ProbeLeft(c) -> c.halfOpenReqs + 1 [] OTHER -> c.halfOpenReqs
    BY <2>1, <2>3 DEF Circuit
  <2>5. CASE Reopening(c)
    <3>1. new.state = "halfOpen" /\ new.halfOpenReqs = 0 /\ a = 1
      BY <2>4, <2>5 DEF Reopening, ProbeLeft
    <3> QED BY <1>2, <3>1 DEF Counted
  <2>6. CASE ~Reopening(c) /\ ProbeLeft(c)
    <3>1. new.state = "halfOpen" /\ new.halfOpenReqs = c.halfOpenReqs + 1
      BY <2>4, <2>6 DEF ProbeLeft
    <3>2. a <= admitted[s] + 1
      BY <1>1, <2>6
    <3>3. admitted[s] <= c.halfOpenReqs + 1
      BY <2>2, <2>6 DEF ProbeLeft
    <3>4. a <= new.halfOpenReqs + 1
      BY <1>1, <1>2, <2>1, <3>1, <3>2, <3>3, Constants
    <3> QED BY <1>2, <3>1, <3>4 DEF Counted
  <2>7. CASE ~Reopening(c) /\ ~ProbeLeft(c)
    <3>1. new.state = c.state /\ new.halfOpenReqs = c.halfOpenReqs /\ a = admitted[s]
      BY <2>4, <2>7
    <3> QED BY <1>2, <2>2, <2>4, <3>1 DEF Counted
  <2> QED BY <2>5, <2>6, <2>7
<1> QED BY <1>2, <1>3, <1>4

\* A circuit that opens in this step has FailureThreshold failures behind it.
Earned == \A s \in Server :
    circuits[s].state \in {"none", "closed"} /\ circuits'[s].state = "open" => streak'[s] >= FailureThreshold

\* A fetch that succeeds records it.
LEMMA SucceedStep ==
    ASSUME Typed, Counters, NEW c \in Caller, fetch[c].server \in Server, Succeed(c)
    PROVE  /\ circuits' \in Circuits /\ streak' \in [Server -> 0 .. FailureThreshold]
           /\ admitted' \in [Server -> 0 .. HalfOpenMax + 2]
           /\ Counters' /\ Earned
<1> DEFINE s == fetch[c].server
<1>1. circuits[s] \in Circuit \cup {None} /\ RecordSuccess(circuits[s]) \in Circuit \cup {None}
  BY SuccessTyped DEF Typed, Circuits
<1>2. /\ circuits' = [circuits EXCEPT ![s] = RecordSuccess(circuits[s])]
      /\ streak' = [streak EXCEPT ![s] = 0] /\ admitted' = [admitted EXCEPT ![s] = 0]
  BY DEF Succeed
<1>3. /\ circuits' \in Circuits /\ streak' \in [Server -> 0 .. FailureThreshold]
      /\ admitted' \in [Server -> 0 .. HalfOpenMax + 2]
  BY <1>1, <1>2, Constants DEF Typed, Circuits
<1>4. ASSUME NEW t \in Server, t # s
      PROVE  circuits'[t] = circuits[t] /\ streak'[t] = streak[t] /\ admitted'[t] = admitted[t]
  BY <1>2, <1>4 DEF Typed, Circuits
<1>5. circuits'[s] = RecordSuccess(circuits[s]) /\ streak'[s] = 0 /\ admitted'[s] = 0
  BY <1>2 DEF Typed, Circuits
<1>6. /\ circuits'[s].state = "closed" => circuits'[s].failures <= 0
      /\ circuits'[s].state = "open" => circuits[s].state = "open"
  <2>1. CASE circuits[s].state = "halfOpen"
    <3>1. circuits'[s] = [circuits[s] EXCEPT !.sinceTouched = 0, !.state = "closed",
                                             !.failures = 0, !.halfOpenReqs = 0]
      BY <1>5, <2>1 DEF RecordSuccess
    <3>2. circuits'[s].failures = 0
      BY <1>1, <2>1, <3>1 DEF Circuit, None
    <3>3. circuits'[s].state = "closed"
      BY <1>1, <2>1, <3>1 DEF Circuit, None
    <3> QED BY <3>2, <3>3
  <2>2. CASE circuits[s].state = "closed"
    <3>1. circuits'[s] = [circuits[s] EXCEPT !.sinceTouched = 0, !.failures = 0]
      BY <1>5, <2>2 DEF RecordSuccess
    <3>2. circuits'[s].failures = 0
      BY <1>1, <2>2, <3>1 DEF Circuit, None
    <3>3. circuits'[s].state = "closed"
      BY <1>1, <2>2, <3>1 DEF Circuit, None
    <3> QED BY <3>2, <3>3
  <2>3. CASE circuits[s].state = "open"
    <3>1. circuits'[s] = [circuits[s] EXCEPT !.sinceTouched = 0]
      BY <1>5, <2>3 DEF RecordSuccess
    <3>2. circuits'[s].state = "open"
      BY <1>1, <2>3, <3>1 DEF Circuit, None
    <3> QED BY <2>3, <3>2
  <2>4. CASE circuits[s].state = "none"
    BY <1>1, <1>5, <2>4 DEF RecordSuccess, Circuit, None
  <2> QED BY <1>1, <2>1, <2>2, <2>3, <2>4, CircuitFields
<1>7. circuits'[s].halfOpenReqs \in Nat
  BY <1>1, <1>5, CircuitFields, Constants
<1> HIDE DEF s
<1>8. Counters'
  BY <1>4, <1>5, <1>6, <1>7 DEF Counters, Counted, Counts
<1>9. Earned
  BY <1>4, <1>6 DEF Earned
<1> QED BY <1>3, <1>8, <1>9

\* A fetch that fails records it, and opens the circuit only when it may.
LEMMA FailStep ==
    ASSUME Typed, Counters, NEW c \in Caller, fetch[c].server \in Server, Fail(c)
    PROVE  /\ circuits' \in Circuits /\ streak' \in [Server -> 0 .. FailureThreshold]
           /\ admitted' \in [Server -> 0 .. HalfOpenMax + 2]
           /\ Counters' /\ Earned
<1> DEFINE s == fetch[c].server
<1>1. /\ circuits' \in RecordFailure(circuits, s)
      /\ streak' = [streak EXCEPT ![s] = IF @ < FailureThreshold THEN @ + 1 ELSE @]
      /\ admitted' = [admitted EXCEPT ![s] = 0]
  BY DEF Fail
<1>2. /\ circuits' \in Circuits
      /\ \A t \in Server \ {s} : circuits'[t] \in {circuits[t], None}
      /\ circuits'[s] = Failed(circuits[s]) \/ circuits'[s] = Failed(None)
  BY <1>1, FailureMap DEF Typed
<1>3. streak[s] \in 0 .. FailureThreshold
  BY DEF Typed
<1>4. streak'[s] = (IF streak[s] < FailureThreshold THEN streak[s] + 1 ELSE streak[s])
  BY <1>1 DEF Typed
<1>5. streak'[s] \in 0 .. FailureThreshold
  BY <1>3, <1>4, Constants
<1>6. ASSUME NEW t \in Server, t # s
      PROVE  streak'[t] = streak[t] /\ admitted'[t] = admitted[t]
  BY <1>1, <1>6 DEF Typed
<1>7. streak' \in [Server -> 0 .. FailureThreshold] /\ admitted' \in [Server -> 0 .. HalfOpenMax + 2]
  BY <1>1, <1>4, <1>5, Constants DEF Typed
<1>8. PICK old \in {circuits[s], None} : circuits'[s] = Failed(old)
  BY <1>2
<1>9. old \in Circuit \cup {None} /\ Counted(old, Counts(s))
  BY <1>8 DEF Typed, Circuits, Counters, Counted, None
<1>10. /\ circuits'[s].state \in {"open", "closed"}
       /\ circuits'[s].failures = IF old.failures < FailureThreshold THEN old.failures + 1 ELSE old.failures
       /\ circuits'[s].state = "open" <=> old.state \in {"open", "halfOpen"} \/ circuits'[s].failures >= FailureThreshold
  BY <1>8, <1>9, FailedTyped
<1>11. old.state \in {"none", "closed"} => circuits'[s].failures <= streak'[s]
  <2>1. old.state \in {"none", "closed"} => old.failures <= streak[s]
    BY <1>3, <1>9 DEF Counted, Counts, Circuit, None
  <2> QED BY <1>3, <1>4, <1>9, <1>10, <2>1, CircuitFields, Constants
<1>12. Counters'
  <2>1. ASSUME NEW t \in Server, t # s
        PROVE  Counted(circuits'[t], Counts(t)')
    <3>1. Counts(t)' = Counts(t)
      BY <1>6, <2>1 DEF Counts
    <3>2. Counted(circuits[t], Counts(t)) /\ circuits'[t] \in {circuits[t], None}
      BY <1>2, <2>1 DEF Counters
    <3> QED BY <3>1, <3>2 DEF Counted, None
  <2>2. circuits'[s].state = "closed" => old.state \in {"none", "closed"}
    BY <1>9, <1>10, CircuitFields
  <2>3. Counted(circuits'[s], [streak |-> streak'[s], admitted |-> admitted'[s]])
    BY <1>10, <1>11, <2>2 DEF Counted
  <2> HIDE DEF s
  <2> QED BY <2>1, <2>3 DEF Counters, Counts
<1>13. Earned
  <2>1. ASSUME NEW t \in Server, t # s
        PROVE  circuits'[t].state = "open" => circuits[t].state = "open"
    BY <1>2, <2>1 DEF None
  <2>2. circuits[s].state \in {"none", "closed"} /\ circuits'[s].state = "open" => streak'[s] >= FailureThreshold
    <3> SUFFICES ASSUME circuits[s].state \in {"none", "closed"}, circuits'[s].state = "open"
                 PROVE  streak'[s] >= FailureThreshold
      OBVIOUS
    <3>1. old.state \in {"none", "closed"}
      BY <1>8 DEF None
    <3>2. circuits'[s].failures >= FailureThreshold /\ circuits'[s].failures <= streak'[s]
      BY <1>10, <1>11, <3>1
    <3>3. circuits'[s].failures \in 0 .. FailureThreshold
      BY <1>2, CircuitFields DEF Circuits
    <3> QED BY <1>5, <3>2, <3>3, Constants
  <2> QED BY <2>1, <2>2 DEF Earned
<1> QED BY <1>2, <1>7, <1>12, <1>13

-----------------------------------------------------------------------------
(* The theorems.                                                           *)

\* A call passes Allow before anything else.
LEMMA CallStep ==
    ASSUME Typed, Counters, NEW c \in Caller, NEW s \in Server, Call(c, s)
    PROVE  Typed' /\ Counters' /\ Earned
<1>1. fetch' \in [Caller -> FetchState]
  <2>1. Idle \in FetchState /\ \A probe \in BOOLEAN : [at |-> "acquire", server |-> s, probe |-> probe] \in FetchState
    BY DEF FetchState
  <2>2. (Reopening(circuits[s]) \/ ProbeLeft(circuits[s])) \in BOOLEAN
    OBVIOUS
  <2> QED BY <2>1, <2>2 DEF Call, Typed
<1> DEFINE a == CASE Reopening(circuits[s]) -> 1
                  [] ProbeLeft(circuits[s]) /\ admitted[s] < HalfOpenMax + 2 -> admitted[s] + 1
                  [] OTHER -> admitted[s]
<1>2. /\ circuits' = [circuits EXCEPT ![s] = AfterAllow(circuits[s])]
      /\ admitted' = [admitted EXCEPT ![s] = a] /\ streak' = streak
  BY DEF Call
<1>3. /\ a \in 0 .. HalfOpenMax + 2
      /\ Counted(AfterAllow(circuits[s]), [streak |-> streak[s], admitted |-> a])
      /\ AfterAllow(circuits[s]).state = "open" => circuits[s].state = "open"
  BY CountedAllow DEF Counters
<1>4. AfterAllow(circuits[s]) \in Circuit \cup {None}
  BY AllowTyped DEF Typed, Circuits
<1> HIDE DEF a
<1>5. Typed'
  BY <1>1, <1>2, <1>3, <1>4 DEF Typed, Circuits
<1>6. /\ circuits'[s] = AfterAllow(circuits[s]) /\ admitted'[s] = a /\ streak'[s] = streak[s]
      /\ \A t \in Server \ {s} : /\ circuits'[t] = circuits[t] /\ admitted'[t] = admitted[t]
                                 /\ streak'[t] = streak[t]
  BY <1>2 DEF Typed, Circuits
<1>7. Counters'
  BY <1>3, <1>6 DEF Counters, Counts
<1>8. Earned
  <2>1. ASSUME NEW t \in Server
        PROVE  circuits'[t].state = "open" => circuits[t].state = "open"
    BY <1>3, <1>6
  <2> QED BY <2>1 DEF Earned
<1> QED BY <1>5, <1>7, <1>8

\* Every step keeps circuits and history together.
LEMMA BreakerStep ==
    ASSUME Typed, Counters, [Next]_vars
    PROVE  Typed' /\ Counters' /\ Earned
<1>1. CASE UNCHANGED <<circuits, streak, admitted>> /\ fetch' \in [Caller -> FetchState]
  <2>1. Typed' /\ Counters'
    BY <1>1, CountsKept DEF Typed
  <2>2. Earned
    BY <1>1 DEF Earned
  <2> QED BY <2>1, <2>2
<1>2. CASE UNCHANGED vars
  BY <1>1, <1>2 DEF vars, histVars, Typed
<1>3. ASSUME NEW c \in Caller, NEW s \in Server, Call(c, s)
      PROVE  Typed' /\ Counters' /\ Earned
  BY <1>3, CallStep
<1>4. ASSUME NEW c \in Caller, Acquire(c)
      PROVE  Typed' /\ Counters' /\ Earned
  <2>1. fetch[c] \in FetchState /\ fetch[c].server \in Server
    BY <1>4, FetchFields DEF Typed, Acquire, At
  <2>2. [at |-> "direct", server |-> fetch[c].server, attempt |-> 1] \in FetchState
    BY <2>1, Constants DEF FetchState
  <2> QED BY <1>1, <1>4, <2>2 DEF Acquire, histVars, Typed
<1>5. ASSUME NEW c \in Caller, AcquireCancelled(c)
      PROVE  Typed' /\ Counters' /\ Earned
  BY <1>1, <1>5 DEF AcquireCancelled, Typed, FetchState
<1>6. ASSUME NEW c \in Caller, FetchDirect(c) \/ FetchFromNotary(c) \/ FetchCancelled(c)
      PROVE  Typed' /\ Counters' /\ Earned
  <2>1. /\ fetch[c].server \in Server /\ fetch' \in [Caller -> FetchState]
        /\ Succeed(c) \/ Fail(c) \/ UNCHANGED <<circuits, streak, admitted>>
    BY <1>6, Reports
  <2>2. CASE Succeed(c)
    BY <2>1, <2>2, SucceedStep DEF Typed
  <2>3. CASE Fail(c)
    BY <2>1, <2>3, FailStep DEF Typed
  <2> QED BY <1>1, <2>1, <2>2, <2>3
<1>7. ASSUME NEW s \in Server, Break(s) \/ Repair(s)
      PROVE  Typed' /\ Counters' /\ Earned
  BY <1>1, <1>7 DEF Break, Repair, histVars, Typed
<1>8. CASE Tick \/ Stats
  <2>1. /\ circuits' \in {Aged(circuits), cleanup(circuits)}
        /\ UNCHANGED <<fetch, streak, admitted>>
    BY <1>8 DEF Tick, Stats, histVars
  <2>2. Counters' /\ \A s \in Server : circuits'[s].state = "open" => circuits[s].state = "open"
    BY <2>1, CountedAged
  <2> QED BY <2>1, <2>2, MapsTyped DEF Typed, Earned
<1> QED BY <1>2, <1>3, <1>4, <1>5, <1>6, <1>7, <1>8 DEF Next

\* No circuit and no history at first.
LEMMA BreakerInit == Init => Typed /\ Counters
BY Constants DEF Init, NewCircuitBreaker, Typed, Circuits, FetchState, Counters, Counted, None

\* A half-open phase lets in at most HalfOpenMax + 1 requests: Allow counts each
\* of them before the next can see the circuit.
THEOREM ProbesTheorem == Spec => []ProbesBounded
<1>1. Typed /\ Counters => ProbesBounded
  <2> SUFFICES ASSUME Typed, Counters, NEW s \in Server, circuits[s].state = "halfOpen"
               PROVE  admitted[s] <= HalfOpenMax + 1
    BY DEF ProbesBounded
  <2>1. circuits[s].halfOpenReqs \in 0 .. HalfOpenMax
    BY CircuitFields DEF Typed, Circuits
  <2>2. admitted[s] <= circuits[s].halfOpenReqs + 1
    BY DEF Counters, Counted, Counts
  <2>3. admitted[s] \in 0 .. HalfOpenMax + 2
    BY DEF Typed
  <2> QED BY <2>1, <2>2, <2>3, Constants
<1> QED BY <1>1, BreakerInit, BreakerStep, PTL DEF Spec

\* RecordFailure opens a circuit only with FailureThreshold failures in a row
\* behind it, however fetches of the same server overlap.
THEOREM TripsTheorem == Spec => TripsEarned
<1>1. Earned => [\A s \in Server :
          circuits[s].state \in {"none", "closed"} /\ circuits'[s].state = "open"
              => streak'[s] >= FailureThreshold]_vars
  BY DEF Earned
<1> QED BY <1>1, BreakerInit, BreakerStep, PTL DEF Spec, TripsEarned

-----------------------------------------------------------------------------
(* Server discovery: how old an answer of its caches can be, for any       *)
(* number of overlapping lookups and moves of the server and any times to  *)
(* live.                                                                   *)

\* Times are numbers.
LEMMA Times ==
    /\ LookupTime \in Nat
    /\ \A rec \in Record, k \in Kind : TTL(rec, k) \in Nat
BY ResolverAssumption DEF TTL

\* What a server publishes is an answer.
LEMMA PublishedTyped == \A s \in Site, rec \in Record : Published(s, rec) \in LookupAnswer
BY DEF Published, LookupAnswer, NoAnswer, Kind, Site

-----------------------------------------------------------------------------
(* Types.                                                                  *)

Entry == {Empty} \cup [kind : Kind, value : Site \cup {"none", "delegate"}, age : Nat]

ResolverTyped ==
    /\ cache \in [Record -> Entry]
    /\ lookup \in [Goroutine -> LookupState]
    /\ site \in Sites
    /\ former \in [Record -> SUBSET [answer : LookupAnswer, age : Nat]]

\* What a lookup carries.
LEMMA LookupFields ==
    ASSUME NEW l \in LookupState
    PROVE  /\ l.at = "look" => l.rec \in Record
           /\ l.at = "wait" => /\ l \in [at : {"wait"}, rec : Record, age : 0 .. LookupTime, answer : LookupAnswer]
                               /\ l.rec \in Record /\ l.age \in Nat /\ l.age <= LookupTime /\ l.answer \in LookupAnswer
BY Times DEF LookupState, NotResolving

\* A lookup that is not done goes on to a record.
LEMMA AfterTyped ==
    ASSUME NEW rec \in Record, NEW a
    PROVE  LET step == After(rec, a) IN step.at # "done" => step \in [at : {"look"}, rec : Record]
BY DEF After, LookUp, Result, Record

\* A goroutine that goes on waits for nothing.
LEMMA ContinueTyped ==
    ASSUME ResolverTyped, NEW c \in Goroutine, NEW rec \in Record, NEW a, Continue(c, After(rec, a))
    PROVE  /\ lookup' \in [Goroutine -> LookupState]
           /\ \A d \in Goroutine : lookup'[d].at = "wait" => lookup'[d] = lookup[d]
<1>1. CASE After(rec, a).at = "done"
  BY <1>1 DEF Continue, ResolverTyped, LookupState, NotResolving
<1>2. CASE After(rec, a).at # "done"
  <2>1. After(rec, a) \in [at : {"look"}, rec : Record]
    BY <1>2, AfterTyped
  <2> QED BY <1>2, <2>1 DEF Continue, ResolverTyped, LookupState
<1> QED BY <1>1, <1>2

-----------------------------------------------------------------------------
(* The inductive invariant.  An answer that a lookup brings was published  *)
(* or the lookup failed when it was sent, and one that a cache serves when *)
(* its lookup was sent.                                                    *)

\* The record says a, or a lookup was told so at most n ticks ago.
Recent(rec, a, n) ==
    \/ a = Published(site, rec)
    \/ \E f \in former[rec] : f.answer = a /\ f.age <= n

\* What is recent stays so for a longer time.
LEMMA RecentLonger ==
    ASSUME ResolverTyped, NEW rec \in Record, NEW a, NEW m \in Nat, NEW n \in Nat, m <= n,
           Recent(rec, a, m)
    PROVE  Recent(rec, a, n)
<1>1. \A f \in former[rec] : f.age \in Nat
  BY DEF ResolverTyped
<1>2. \A f \in former[rec] : f.age <= m => f.age <= n
  BY <1>1
<1> QED BY <1>2, Zenon DEF Recent

Content(e) == [kind |-> e.kind, value |-> e.value]

LookupsRecent ==
    \A c \in Goroutine : lookup[c].at = "wait"
                         => Recent(lookup[c].rec, lookup[c].answer, lookup[c].age)

CacheRecent ==
    \A rec \in Record : valid(rec)
                           => Recent(rec, Content(cache[rec]), cache[rec].age + LookupTime)

ResolverInv == ResolverTyped /\ LookupsRecent /\ CacheRecent

\* Empty caches, no lookups.
LEMMA ResolverInvInit == ResolverInit => ResolverInv
BY ResolverAssumption DEF ResolverInit, ResolverInv, ResolverTyped, Entry, LookupState, NotResolving, LookupsRecent, CacheRecent, valid

\* A lookup begins.
LEMMA BeginStep ==
    ASSUME ResolverInv, NEW c \in Goroutine, Begin(c)
    PROVE  ResolverInv'
<1>1. /\ lookup' = [lookup EXCEPT ![c] = LookUp("wellKnown")]
      /\ UNCHANGED <<cache, site, former>>
  BY DEF Begin
<1>2. LookUp("wellKnown") \in LookupState /\ LookUp("wellKnown").at = "look"
  BY DEF LookUp, LookupState, Record
<1>3. ResolverTyped' /\ \A d \in Goroutine : lookup'[d].at = "wait" => lookup'[d] = lookup[d]
  BY <1>1, <1>2 DEF ResolverInv, ResolverTyped
<1> QED BY <1>1, <1>3 DEF ResolverInv, LookupsRecent, CacheRecent, Recent, valid

\* A cache answers.
LEMMA HitStep ==
    ASSUME ResolverInv, NEW c \in Goroutine, Hit(c)
    PROVE  ResolverInv'
<1>1. /\ lookup[c].rec \in Record /\ Continue(c, After(lookup[c].rec, cache[lookup[c].rec]))
      /\ UNCHANGED <<cache, site, former>>
  BY LookupFields DEF Hit, ResolverInv, ResolverTyped
<1>2. /\ lookup' \in [Goroutine -> LookupState]
      /\ \A d \in Goroutine : lookup'[d].at = "wait" => lookup'[d] = lookup[d]
  BY <1>1, ContinueTyped DEF ResolverInv
<1> QED BY <1>1, <1>2 DEF ResolverInv, ResolverTyped, LookupsRecent, CacheRecent, Recent, valid

\* The answer is what is published at the moment, or a failure, which is kept in
\* mind.
LEMMA AskStep ==
    ASSUME ResolverInv, NEW c \in Goroutine, Ask(c)
    PROVE  ResolverInv'
<1>0. PICK rec : rec = lookup[c].rec
  OBVIOUS
<1>1. rec \in Record /\ site \in Site /\ UNCHANGED <<cache, site>>
  BY <1>0, LookupFields, ResolverAssumption DEF Ask, ResolverInv, ResolverTyped
<1>2. PICK a : /\ lookup' = [lookup EXCEPT ![c] = [at |-> "wait", rec |-> rec, age |-> 0, answer |-> a]]
               /\ \/ a = Published(site, rec) /\ former' = former
                  \/ /\ \E k \in FailureKinds(rec) : a = [kind |-> k, value |-> "none"]
                     /\ former' = [former EXCEPT ![rec] = @ \cup {[answer |-> a, age |-> 0]}]
  BY <1>0 DEF Ask
<1>3. a \in LookupAnswer
  <2>1. CASE a = Published(site, rec)
    BY <1>1, <2>1, PublishedTyped
  <2>2. FailureKinds(rec) \subseteq Kind
    BY DEF FailureKinds, Kind
  <2>3. ASSUME NEW k \in FailureKinds(rec), a = [kind |-> k, value |-> "none"] PROVE a \in LookupAnswer
    BY <2>2, <2>3 DEF LookupAnswer
  <2> QED BY <1>2, <2>1, <2>3
<1>4. [at |-> "wait", rec |-> rec, age |-> 0, answer |-> a] \in LookupState
  BY <1>1, <1>3, Times DEF LookupState
<1>5. /\ former' \in [Record -> SUBSET [answer : LookupAnswer, age : Nat]]
      /\ \A r \in Record : former[r] \subseteq former'[r]
  <2>1. [answer |-> a, age |-> 0] \in [answer : LookupAnswer, age : Nat]
    BY <1>3
  <2>2. former \in [Record -> SUBSET [answer : LookupAnswer, age : Nat]]
    BY DEF ResolverInv, ResolverTyped
  <2>3. former' = former \/ former' = [former EXCEPT ![rec] = @ \cup {[answer |-> a, age |-> 0]}]
    BY <1>2
  <2> QED BY <1>1, <2>1, <2>2, <2>3
<1>6. ResolverTyped'
  BY <1>1, <1>2, <1>4, <1>5 DEF ResolverInv, ResolverTyped
<1>7. ASSUME NEW r \in Record, NEW b, NEW n, Recent(r, b, n)
      PROVE  Recent(r, b, n)'
  BY <1>1, <1>5, <1>7 DEF Recent
<1>8. Recent(rec, a, 0)'
  <2>1. CASE a = Published(site, rec)
    BY <1>1, <2>1 DEF Recent
  <2>2. CASE former' = [former EXCEPT ![rec] = @ \cup {[answer |-> a, age |-> 0]}]
    <3> DEFINE f == [answer |-> a, age |-> 0]
    <3>1. f \in former'[rec] /\ f.answer = a /\ f.age <= 0
      BY <1>1, <2>2 DEF ResolverInv, ResolverTyped
    <3> QED BY <3>1 DEF Recent
  <2> QED BY <1>2, <2>1, <2>2
<1>9. LookupsRecent'
  <2> SUFFICES ASSUME NEW d \in Goroutine, lookup'[d].at = "wait"
               PROVE  Recent(lookup[d].rec, lookup[d].answer, lookup[d].age)'
    BY DEF LookupsRecent
  <2>1. CASE d = c
    <3>1. lookup'[d].rec = rec /\ lookup'[d].answer = a /\ lookup'[d].age = 0
      BY <1>2, <2>1 DEF ResolverInv, ResolverTyped
    <3> QED BY <1>8, <3>1 DEF Recent
  <2>2. CASE d # c
    <3>1. lookup'[d] = lookup[d]
      BY <1>2, <2>2 DEF ResolverInv, ResolverTyped
    <3>2. lookup[d].rec \in Record /\ Recent(lookup[d].rec, lookup[d].answer, lookup[d].age)
      BY <3>1, LookupFields DEF ResolverInv, ResolverTyped, LookupsRecent
    <3>3. PICK r, b, n : r = lookup[d].rec /\ b = lookup[d].answer /\ n = lookup[d].age
      OBVIOUS
    <3>4. Recent(r, b, n)'
      BY <1>7, <3>2, <3>3
    <3> QED BY <3>1, <3>3, <3>4 DEF Recent
  <2> QED BY <2>1, <2>2
<1>10. CacheRecent'
  <2> SUFFICES ASSUME NEW r \in Record, valid(r)'
               PROVE  Recent(r, Content(cache[r]), cache[r].age + LookupTime)'
    BY DEF CacheRecent
  <2>1. cache'[r] = cache[r] /\ valid(r)
    BY <1>1 DEF valid
  <2>2. PICK b, n : b = Content(cache[r]) /\ n = cache[r].age + LookupTime
    OBVIOUS
  <2>3. Recent(r, b, n)'
    BY <1>7, <2>1, <2>2 DEF ResolverInv, CacheRecent
  <2> QED BY <2>1, <2>2, <2>3 DEF Recent, Content
<1> QED BY <1>6, <1>9, <1>10 DEF ResolverInv

\* What was recent when the lookup was sent is, after the lookup, no older than
\* its client timeout.
LEMMA StoreStep ==
    ASSUME ResolverInv, NEW c \in Goroutine, Store(c)
    PROVE  ResolverInv'
<1>1. PICK rec, a : rec = lookup[c].rec /\ a = lookup[c].answer
  OBVIOUS
<1>2. /\ rec \in Record /\ a \in LookupAnswer /\ lookup[c].age \in Nat /\ lookup[c].age <= LookupTime
      /\ lookup[c].at = "wait"
  BY <1>1, LookupFields DEF Store, ResolverInv, ResolverTyped
<1>3. /\ cache' = [cache EXCEPT ![rec] = [kind |-> a.kind, value |-> a.value, age |-> 0]]
      /\ Continue(c, After(rec, a)) /\ UNCHANGED <<site, former>>
  BY <1>1 DEF Store
<1>4. /\ lookup' \in [Goroutine -> LookupState]
      /\ \A d \in Goroutine : lookup'[d].at = "wait" => lookup'[d] = lookup[d]
  BY <1>2, <1>3, ContinueTyped DEF ResolverInv
<1>5. [kind |-> a.kind, value |-> a.value, age |-> 0] \in Entry
  BY <1>2 DEF LookupAnswer, Entry
<1>6. ResolverTyped'
  BY <1>3, <1>4, <1>5 DEF ResolverInv, ResolverTyped
<1>7. LookupsRecent'
  BY <1>3, <1>4 DEF ResolverInv, LookupsRecent, Recent
<1>8. CacheRecent'
  <2> SUFFICES ASSUME NEW r \in Record, valid(r)'
               PROVE  Recent(r, Content(cache[r]), cache[r].age + LookupTime)'
    BY DEF CacheRecent
  <2>1. CASE r # rec
    <3>1. cache'[r] = cache[r]
      BY <1>3, <2>1 DEF ResolverInv, ResolverTyped
    <3> QED BY <1>3, <3>1 DEF ResolverInv, CacheRecent, Recent, valid
  <2>2. CASE r = rec
    <3>1. cache'[r] = [kind |-> a.kind, value |-> a.value, age |-> 0]
      BY <1>2, <1>3, <2>2 DEF ResolverInv, ResolverTyped
    <3>2. Content(cache'[r]) = a /\ cache'[r].age + LookupTime = LookupTime
      <4>1. /\ cache'[r].kind = a.kind /\ cache'[r].value = a.value /\ cache'[r].age = 0
            /\ a = [kind |-> a.kind, value |-> a.value]
        BY <1>2, <3>1 DEF LookupAnswer
      <4>2. LookupTime \in Nat
        BY Times
      <4>3. 0 + LookupTime = LookupTime
        BY <4>2
      <4> QED BY <4>1, <4>3 DEF Content
    <3>3. Recent(rec, a, lookup[c].age)
      BY <1>1, <1>2, <3>2 DEF ResolverInv, LookupsRecent
    <3>4. LookupTime \in Nat
      BY Times
    <3>5. Recent(rec, a, LookupTime)
      BY <1>2, <3>3, <3>4, RecentLonger DEF ResolverInv
    <3> QED BY <1>3, <2>2, <3>2, <3>5 DEF Recent
  <2> QED BY <2>1, <2>2
<1> QED BY <1>6, <1>7, <1>8 DEF ResolverInv

\* What a move outdates becomes a former answer.
LEMMA MoveStep ==
    ASSUME ResolverInv, Move
    PROVE  ResolverInv'
<1>1. PICK s \in Sites :
          /\ site' = s
          /\ former' = [r \in Record |->
                 former[r] \cup {f \in {[answer |-> Published(site, r), age |-> 0]} : f.answer # Published(s, r)}]
  BY DEF Move
<1>2. UNCHANGED <<cache, lookup>>
  BY DEF Move
<1>3. ASSUME NEW r \in Record, NEW a, NEW n \in Nat, Recent(r, a, n)
      PROVE  Recent(r, a, n)'
  <2>1. CASE a = Published(site, r)
    <3>1. CASE a = Published(s, r)
      BY <1>1, <3>1 DEF Recent
    <3>2. CASE a # Published(s, r)
      <4> DEFINE f == [answer |-> Published(site, r), age |-> 0]
      <4>1. f \in former'[r] /\ f.answer = a /\ f.age <= n
        BY <1>1, <2>1, <3>2
      <4> QED BY <4>1 DEF Recent
    <3> QED BY <3>1, <3>2
  <2>2. CASE \E f \in former[r] : f.answer = a /\ f.age <= n
    BY <1>1, <2>2 DEF Recent
  <2> QED BY <1>3, <2>1, <2>2 DEF Recent
<1>4. ResolverTyped'
  <2>1. \A r \in Record : [answer |-> Published(site, r), age |-> 0] \in [answer : LookupAnswer, age : Nat]
    BY PublishedTyped, ResolverAssumption DEF ResolverInv, ResolverTyped
  <2> QED BY <1>1, <1>2, <2>1 DEF ResolverInv, ResolverTyped
<1>5. LookupsRecent'
  BY <1>2, <1>3, LookupFields DEF ResolverInv, ResolverTyped, LookupsRecent
<1>6. CacheRecent'
  <2>1. \A r \in Record : valid(r)' = valid(r) /\ cache'[r] = cache[r] /\ cache[r].age + LookupTime \in Nat
    BY <1>2, Times DEF ResolverInv, ResolverTyped, Entry, Empty, valid
  <2> QED BY <1>3, <2>1 DEF ResolverInv, CacheRecent, Content
<1> QED BY <1>4, <1>5, <1>6 DEF ResolverInv

\* Everything that matters ages together.  A former answer is dropped only when
\* nothing that could serve it is young enough to be valid.
LEMMA TickStep ==
    ASSUME ResolverInv, ResolverTick
    PROVE  ResolverInv'
<1>1. /\ \A c \in Goroutine : lookup[c].at = "wait" => lookup[c].age < LookupTime
      /\ lookup' = [c \in Goroutine |-> IF lookup[c].at = "wait" THEN [lookup[c] EXCEPT !.age = @ + 1]
                                     ELSE lookup[c]]
      /\ cache' = [r \in Record |-> IF cache[r] = Empty THEN Empty
                                    ELSE [cache[r] EXCEPT !.age = EntryOlder(@, TTL(r, cache[r].kind))]]
      /\ former' = [r \in Record |-> {[f EXCEPT !.age = @ + 1] :
                                      f \in {g \in former[r] : g.age < TTL(r, g.answer.kind) + LookupTime}}]
      /\ site' = site
  BY DEF ResolverTick
<1>2. ASSUME NEW r \in Record, NEW a, NEW n \in Nat, Recent(r, a, n), n < TTL(r, a.kind) + LookupTime
      PROVE  Recent(r, a, n + 1)'
  <2>1. CASE a = Published(site, r)
    BY <1>1, <2>1 DEF Recent
  <2>2. ASSUME NEW f \in former[r], f.answer = a, f.age <= n
        PROVE  Recent(r, a, n + 1)'
    <3> DEFINE g == [f EXCEPT !.age = @ + 1]
    <3>1. f \in [answer : LookupAnswer, age : Nat]
      BY DEF ResolverInv, ResolverTyped
    <3>2. f.age < TTL(r, f.answer.kind) + LookupTime
      <4>1. PICK t \in Nat : t = TTL(r, a.kind) + LookupTime
        BY <2>2, <3>1, Times DEF LookupAnswer
      <4> QED BY <1>2, <2>2, <3>1, <4>1
    <3>3. g \in former'[r]
      BY <1>1, <3>2
    <3>4. g.answer = a /\ g.age <= n + 1
      BY <2>2, <3>1
    <3> QED BY <3>3, <3>4 DEF Recent
  <2> QED BY <1>2, <2>1, <2>2 DEF Recent
<1>3. ASSUME NEW c \in Goroutine, lookup[c].at = "wait"
      PROVE  /\ lookup'[c] \in LookupState /\ lookup'[c].at = "wait" /\ lookup'[c].rec = lookup[c].rec
             /\ lookup'[c].answer = lookup[c].answer /\ lookup'[c].age = lookup[c].age + 1
  <2>1. lookup[c] \in [at : {"wait"}, rec : Record, age : 0 .. LookupTime, answer : LookupAnswer]
    BY <1>3, LookupFields DEF ResolverInv, ResolverTyped
  <2>2. lookup'[c] = [lookup[c] EXCEPT !.age = @ + 1]
    BY <1>1, <1>3
  <2>3. lookup[c].age + 1 \in 0 .. LookupTime
    BY <1>1, <1>3, <2>1, Times
  <2> QED BY <2>1, <2>2, <2>3 DEF LookupState
<1>4. ASSUME NEW c \in Goroutine, lookup[c].at # "wait"
      PROVE  lookup'[c] = lookup[c]
  BY <1>1, <1>4
<1>5. ASSUME NEW r \in Record, cache[r] # Empty
      PROVE  /\ cache'[r] \in Entry /\ cache'[r].kind = cache[r].kind /\ cache'[r].value = cache[r].value
             /\ cache[r].kind \in Kind /\ cache[r].age \in Nat
             /\ cache'[r].age = EntryOlder(cache[r].age, TTL(r, cache[r].kind))
  <2>1. cache[r] \in [kind : Kind, value : Site \cup {"none", "delegate"}, age : Nat]
    BY <1>5 DEF ResolverInv, ResolverTyped, Entry
  <2>2. EntryOlder(cache[r].age, TTL(r, cache[r].kind)) \in Nat
    BY <2>1 DEF EntryOlder
  <2>3. cache'[r] = [cache[r] EXCEPT !.age = EntryOlder(@, TTL(r, cache[r].kind))]
    BY <1>1, <1>5
  <2> QED BY <2>1, <2>2, <2>3 DEF Entry
<1>6. ResolverTyped'
  <2>1. cache' \in [Record -> Entry]
    <3>1. \A r \in Record : cache'[r] \in Entry
      BY <1>1, <1>5 DEF Entry
    <3> QED BY <1>1, <3>1
  <2>2. lookup' \in [Goroutine -> LookupState]
    <3>1. \A c \in Goroutine : lookup'[c] \in LookupState
      BY <1>3, <1>4 DEF ResolverInv, ResolverTyped
    <3> QED BY <1>1, <3>1
  <2>3. former' \in [Record -> SUBSET [answer : LookupAnswer, age : Nat]]
    BY <1>1 DEF ResolverInv, ResolverTyped
  <2> QED BY <1>1, <2>1, <2>2, <2>3 DEF ResolverInv, ResolverTyped
<1>7. LookupsRecent'
  <2> SUFFICES ASSUME NEW c \in Goroutine, lookup'[c].at = "wait"
               PROVE  Recent(lookup[c].rec, lookup[c].answer, lookup[c].age)'
    BY DEF LookupsRecent
  <2>1. lookup[c].at = "wait"
    BY <1>4
  <2>2. PICK r, a, n : r = lookup[c].rec /\ a = lookup[c].answer /\ n = lookup[c].age
    OBVIOUS
  <2>3. lookup'[c].rec = r /\ lookup'[c].answer = a /\ lookup'[c].age = n + 1
    BY <1>3, <2>1, <2>2
  <2>4. r \in Record /\ n \in Nat /\ n < LookupTime
    BY <1>1, <2>1, <2>2, LookupFields DEF ResolverInv, ResolverTyped
  <2>5. Recent(r, a, n)
    BY <2>1, <2>2, <2>3 DEF ResolverInv, LookupsRecent
  <2>6. n < TTL(r, a.kind) + LookupTime
    <3>1. TTL(r, a.kind) \in Nat
      BY <2>1, <2>2, LookupFields, Times DEF ResolverInv, ResolverTyped, LookupAnswer
    <3> QED BY <2>4, <3>1, Times
  <2>7. Recent(r, a, n + 1)'
    BY <1>2, <2>4, <2>5, <2>6
  <2> QED BY <2>3, <2>7 DEF Recent
<1>8. CacheRecent'
  <2> SUFFICES ASSUME NEW r \in Record, valid(r)'
               PROVE  Recent(r, Content(cache[r]), cache[r].age + LookupTime)'
    BY DEF CacheRecent
  <2>1. cache[r] # Empty
    BY <1>1 DEF valid
  <2>2. PICK n : n = cache[r].age
    OBVIOUS
  <2>3. n \in Nat /\ TTL(r, cache[r].kind) \in Nat /\ cache[r].kind \in Kind
    BY <1>5, <2>1, <2>2, Times
  <2>4. cache'[r].age = n + 1 /\ n < TTL(r, cache[r].kind)
    <3>1. cache'[r].age <= TTL(r, cache[r].kind)
      BY <1>5, <2>1 DEF valid
    <3>2. PICK t \in Nat : t = TTL(r, cache[r].kind)
      BY <2>3
    <3>3. cache'[r].age = IF n > t THEN n ELSE n + 1
      BY <1>5, <2>1, <2>2, <3>2 DEF EntryOlder
    <3> QED BY <2>3, <3>1, <3>2, <3>3
  <2>5. Content(cache'[r]) = Content(cache[r])
    BY <1>5, <2>1 DEF Content
  <2>6. Recent(r, Content(cache[r]), n + LookupTime)
    <3>1. valid(r)
      <4>1. cache[r].age <= TTL(r, cache[r].kind)
        BY <2>2, <2>3, <2>4
      <4> QED BY <1>5, <2>1, <4>1 DEF valid
    <3> QED BY <2>2, <3>1 DEF ResolverInv, CacheRecent
  <2>7. PICK a : a = Content(cache[r])
    OBVIOUS
  <2>8. n + LookupTime \in Nat /\ n + LookupTime < TTL(r, a.kind) + LookupTime
    <3>1. a.kind = cache[r].kind
      BY <2>7 DEF Content
    <3> QED BY <2>3, <2>4, <3>1, Times
  <2>9. Recent(r, a, n + LookupTime + 1)'
    BY <1>2, <2>6, <2>7, <2>8
  <2>10. cache'[r].age + LookupTime = n + LookupTime + 1
    BY <2>3, <2>4, Times
  <2> QED BY <2>5, <2>7, <2>9, <2>10 DEF Recent
<1> QED BY <1>6, <1>7, <1>8 DEF ResolverInv

\* The caches of well-known files and SRV records serve nothing that has been
\* outdated for longer than its time to live and one lookup.
THEOREM ServedFreshTheorem == ResolverSpec => []ServedFresh
<1>1. ASSUME ResolverInv, [ResolverNext]_resolverVars
      PROVE  ResolverInv'
  <2>1. CASE UNCHANGED resolverVars
    BY <1>1, <2>1 DEF resolverVars, ResolverInv, ResolverTyped, LookupsRecent, CacheRecent, Recent, valid, Content
  <2> QED BY <1>1, <2>1, BeginStep, HitStep, AskStep, StoreStep, MoveStep, TickStep DEF ResolverNext
<1>2. ResolverInv => ServedFresh
  <2> SUFFICES ASSUME ResolverInv, NEW r \in Record, valid(r)
               PROVE  \/ Content(cache[r]) = Published(site, r)
                      \/ \E f \in former[r] : /\ f.answer = Content(cache[r])
                                              /\ f.age <= TTL(r, cache[r].kind) + LookupTime
    BY DEF ServedFresh, Content
  <2>1. cache[r].age \in Nat /\ cache[r].kind \in Kind
    BY DEF ResolverInv, ResolverTyped, Entry, valid
  <2>2. /\ cache[r].age + LookupTime <= TTL(r, cache[r].kind) + LookupTime
        /\ cache[r].age + LookupTime \in Nat /\ TTL(r, cache[r].kind) + LookupTime \in Nat
    BY <2>1, Times DEF valid
  <2>3. Recent(r, Content(cache[r]), cache[r].age + LookupTime)
    BY DEF ResolverInv, CacheRecent
  <2>4. Recent(r, Content(cache[r]), TTL(r, cache[r].kind) + LookupTime)
    BY <2>2, <2>3, RecentLonger DEF ResolverInv
  <2> QED BY <2>4 DEF Recent
<1> QED BY <1>1, <1>2, ResolverInvInit, PTL DEF ResolverSpec

=============================================================================
