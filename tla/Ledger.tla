------------------------------- MODULE Ledger -------------------------------
(***************************************************************************)
(* What the notary records about the keys it serves.  QueryKeys            *)
(* (internal/keys/notary_query.go) checks the trust policy, obtains a      *)
(* response and hands it to the analytics and to the transparency log;     *)
(* mxkeys-verify watches the signed tree heads; retention deletes old      *)
(* rows; the process may restart.                                          *)
(*                                                                         *)
(* A query holds its response between GetServerKeys and LogKey without a   *)
(* lock, so queries record what they saw in any order, old keys after new  *)
(* ones too: a recorded response is any response of the origin.            *)
(***************************************************************************)
EXTENDS TrustPolicy, Analytics, Transparency

CONSTANTS Server,
          Host,         \* [Server -> its name and address, see TrustPolicy]
          Responses,    \* the responses that the origins give over time
          MaxQueries, MaxFaults, MaxRestarts, MaxCleanups   \* bounds

ASSUME LedgerAssumption == {MaxQueries, MaxFaults, MaxRestarts, MaxCleanups} \subseteq Nat

VARIABLES
    log,        \* the transparency log: table and memory
    stats,      \* a.stats
    cutoff,     \* Cleanup between DELETE and rebuild: its cutoff, else 0
    head,       \* the signed tree head that mxkeys-verify saved
    alarm,      \* mxkeys-verify has found a head inconsistent
    clock,      \* queries recorded so far
    ever,       \* pairs of server and key hash that some INSERT put into the table
    unseen,     \* hashes in the table that the tree was not told of
    lost, faults, restarts, cleanups

boundVars == <<restarts, cleanups>>
vars == <<log, stats, clock, cutoff, head, alarm, ever, unseen, lost, faults, boundVars>>

NoHead == [size |-> 0, root |-> NoRoot]
KeyEvents == {"KEY_FIRST_SEEN", "KEY_ROTATION"}
Events == KeyEvents \cup {"ANOMALY_RAPID_ROTATION", "FETCH_FAILED", "POLICY_VIOLATION"}

TypeOK ==
    /\ \A i \in DOMAIN log.rows : log.rows[i].event \in Events /\ log.rows[i].time <= clock
    /\ DOMAIN log.keyHistory \subseteq Server
    /\ cutoff \in 0 .. MaxQueries /\ clock \in 0 .. MaxQueries /\ alarm \in BOOLEAN

Init ==
    /\ log = NewTransparencyLog(<<>>)
    /\ stats = NewAnalytics
    /\ cutoff = 0 /\ head = NoHead /\ alarm = FALSE /\ clock = 0
    /\ ever = {} /\ unseen = {} /\ lost = 0
    /\ faults = 0 /\ restarts = 0 /\ cleanups = 0

-----------------------------------------------------------------------------
\* The response r of the server s, as GetServerKeys hands it out.
Signed(s, r) == [r EXCEPT !.signers = IF r.selfSigned THEN @ \cup {s} ELSE @]

\* addNotarySignature: this notary signs a copy of the response, beside those who
\* have signed it.
Notary == "this notary"
addNotarySignature(resp) == [resp EXCEPT !.signers = @ \cup {Notary}]

\* The copy that the policy checks, that is recorded and that is served.
KeysForResponse(s, r) == addNotarySignature(Signed(s, r))

\* applyTrustPolicyToRequest: the servers of a request that are not refused.
Admitted == {s \in Server : CheckServer(Host[s])}

MaxInserts == 4
NoFault == [n \in 1 .. MaxInserts |-> "done"]

\* The plans with at most one INSERT that goes wrong.
Plans == {NoFault} \cup {[NoFault EXCEPT ![n] = o] : n \in 1 .. MaxInserts, o \in Outcome \ {"done"}}

\* A log method has run by one of the plans; runs[plan] is what it does then.
Logged(runs) ==
    \E plan \in Plans :
        LET run == runs[plan]
            new == SubSeq(run.log.rows, Len(log.rows) + 1, Len(run.log.rows))
            told == SubSeq(run.log.tree, Len(log.tree) + 1, Len(run.log.tree))
        IN  /\ plan # NoFault => faults < MaxFaults /\ \E n \in 1 .. run.inserts : plan[n] # "done"
            /\ log' = run.log
            /\ ever' = ever \cup {<<new[i].server, new[i].key>> : i \in DOMAIN new}
            /\ unseen' = unseen \cup ({new[i].hash : i \in DOMAIN new} \ ToSet(told))
            /\ faults' = IF plan = NoFault THEN faults ELSE faults + 1
            /\ lost' = IF "lost" \in ToSet(plan) THEN lost + 1 ELSE lost

Now == {[time |-> clock + 1, nano |-> x] : x \in Nanos}

\* QueryKeys, GetServerKeys fails: RecordFetchFailure and LogFailure.  A server
\* that the policy refuses gets no further than CheckServer.
QueryFails(s) ==
    /\ s \in Admitted /\ clock < MaxQueries
    /\ clock' = clock + 1
    /\ stats' = RecordFetchFailure(stats, s, clock + 1)
    /\ \E now \in Now : Logged([plan \in Plans |-> LogEvent(log, s, "FETCH_FAILED", now, plan)])
    /\ UNCHANGED <<cutoff, head, alarm, boundVars>>

\* QueryKeys, the policy refuses the response: LogPolicyViolation.
QueryRefused(s, r) ==
    /\ s \in Admitted /\ ~CheckResponse(s, KeysForResponse(s, r)) /\ clock < MaxQueries
    /\ clock' = clock + 1
    /\ \E now \in Now : Logged([plan \in Plans |-> LogEvent(log, s, "POLICY_VIOLATION", now, plan)])
    /\ UNCHANGED <<stats, cutoff, head, alarm, boundVars>>

\* QueryKeys, a response is served: RecordKeyObservation and LogKey, whose error
\* is ignored.
QueryRecords(s, r) ==
    /\ s \in Admitted /\ CheckResponse(s, KeysForResponse(s, r)) /\ clock < MaxQueries
    /\ clock' = clock + 1
    /\ stats' = RecordKeyObservation(stats, s, KeysForResponse(s, r), clock + 1)
    /\ \E now \in Now : Logged([plan \in Plans |-> LogKey(log, s, r.keys, now, plan)])
    /\ UNCHANGED <<cutoff, head, alarm, boundVars>>

\* Cleanup: the DELETE.  It goes on only when rows were deleted.
CleanupDeletes(c) ==
    /\ cutoff = 0 /\ cleanups < MaxCleanups
    /\ DeleteBefore(log.rows, c) # log.rows
    /\ log' = [log EXCEPT !.rows = DeleteBefore(@, c)]
    /\ cutoff' = c /\ cleanups' = cleanups + 1
    /\ UNCHANGED <<stats, clock, head, alarm, ever, unseen, lost, faults, restarts>>

\* Cleanup: the critical section after it.
CleanupRebuilds ==
    /\ cutoff # 0
    /\ \E upTo \in 0 .. Len(log.rows), reloaded \in BOOLEAN :
          LET whole == upTo = Len(log.rows) /\ reloaded IN
          /\ whole \/ faults < MaxFaults
          /\ faults' = IF whole THEN faults ELSE faults + 1
          /\ log' = CleanupMemory(log, cutoff, upTo, reloaded)
          /\ unseen' = {log.rows[i].hash : i \in upTo + 1 .. Len(log.rows)}
    /\ cutoff' = 0
    /\ UNCHANGED <<stats, clock, head, alarm, ever, lost, boundVars>>

\* mxkeys-verify: fetch the signed head, compare it with the saved one, save it.
\* The wall clock is taken to be monotonic, so that the times of heads agree.
SignedTreeHead == [size |-> Len(log.tree), root |-> Root(log.tree)]
Consistent(prev, sth) ==
    /\ sth.size >= prev.size
    /\ sth.size = prev.size => sth.root = prev.root
Verify ==
    /\ SignedTreeHead # head
    /\ IF Consistent(head, SignedTreeHead) THEN head' = SignedTreeHead /\ UNCHANGED alarm
                                           ELSE alarm' = TRUE /\ UNCHANGED head
    /\ UNCHANGED <<log, stats, clock, cutoff, ever, unseen, lost, faults, boundVars>>

\* The process restarts: the table stays.
Restart ==
    /\ restarts < MaxRestarts
    /\ restarts' = restarts + 1
    /\ log' = NewTransparencyLog(log.rows)
    /\ stats' = NewAnalytics
    /\ cutoff' = 0 /\ unseen' = {}
    /\ UNCHANGED <<clock, head, alarm, ever, lost, faults, cleanups>>

Next ==
    \/ \E s \in Server : QueryFails(s)
    \/ \E s \in Server, r \in Responses : QueryRefused(s, r) \/ QueryRecords(s, r)
    \/ \E c \in 1 .. clock : CleanupDeletes(c)
    \/ CleanupRebuilds
    \/ Verify
    \/ Restart

Spec == Init /\ [][Next]_vars

-----------------------------------------------------------------------------
\* appendEntry links every row to the row before it.  The links that are broken
\* are no more than the INSERTs whose answer was lost, whatever fails, restarts
\* or is cleaned up in between: with one process per table, a broken link always
\* has that one cause.
BreaksAreLostAnswers ==
    Cardinality({i \in 2 .. Len(log.rows) : log.rows[i].prev # log.rows[i - 1].hash}) <= lost

\* Outside the gap between Cleanup's DELETE and its rebuild, the Merkle tree of
\* the process holds the rows of the table in their order, except those it was
\* not told of: the signed heads are heads of the log.
TreeIsLog ==
    cutoff = 0 =>
        log.tree = SelectSeq(rebuildMerkleTree(log.rows), LAMBDA h : h \notin unseen)

\* The root that is signed is the RFC 6962 root of the leaves, although the code
\* computes it by promoting odd nodes, and GetProof gives a proof against that
\* root which VerifyProof accepts, for every entry and every size reached.
InclusionProvable ==
    LET levels == rebuild(log.tree) IN
    /\ log.tree # <<>> => Last(levels)[1] = MTH(log.tree)
    /\ \A i \in 0 .. Len(log.tree) - 1 : VerifyProof(GetProof(levels, i))

\* LogKey compares with the key hash it remembers; what it remembers it has
\* put into the table, also when an INSERT of a response with several keys fails
\* and the next observation takes it up again.
HistoryIsLogged ==
    \A s \in DOMAIN log.keyHistory :
        log.keyHistory[s].hash # NoHash => <<s, log.keyHistory[s].hash>> \in ever

\* mxkeys-verify finds a head inconsistent only if rows were deleted: restarts,
\* failed INSERTs and lost answers raise no false alarm.
NoFalseAlarm == alarm => cleanups > 0

\* The most active server that the analytics report is one with the most
\* rotations, also after fetch failures made entries of their own.
MostActiveIsTop ==
    LET rotations(s) == stats.ServerStats[s].RotationCount IN
    /\ \A s \in DOMAIN stats.ServerStats : rotations(s) <= stats.MostActiveRotations
    /\ stats.MostActiveRotations > 0
          => rotations(stats.MostActiveServer) = stats.MostActiveRotations

\* VerifyChain accepts a table that nobody but appendEntry has written, as long
\* as no answer was lost and no row deleted.  This is what
\* docs/transparency-verification.md says of it.
ChainVerifies == lost = 0 /\ cleanups = 0 => VerifyChain(log.rows)

\* A consistency proof from the head that mxkeys-verify saved to the present
\* tree is accepted.  GetConsistencyProof promises it; it is not so for most
\* pairs of sizes.
ConsistencyProvable ==
    cleanups = 0 /\ lost = 0 /\ head.size > 0
        => VerifyConsistencyProof(GetConsistencyProof(log.tree, head.size))
=============================================================================
