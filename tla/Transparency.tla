---------------------------- MODULE Transparency ----------------------------
(***************************************************************************)
(* The transparency log (internal/keys/transparency*.go) as operators on   *)
(* the table and the TransparencyLog struct.  Every method that appends    *)
(* holds tl.mu from start to end.                                          *)
(*                                                                         *)
(* A log is a record: `rows`, the table in the order of id, and lastHash,  *)
(* keyHistory and tree, the memory of the process.                         *)
(***************************************************************************)
EXTENDS Merkle

CONSTANTS RapidRotations,       \* rotations above which a further one is an anomaly
          RapidWindow,          \* the 24 hours in which they count
          LogKeyChanges, LogAnomalies,
          Nanos                 \* what time.Now() holds below a microsecond

ASSUME TransparencyAssumption ==
    /\ {RapidRotations, RapidWindow} \subseteq Nat
    /\ {LogKeyChanges, LogAnomalies} \subseteq BOOLEAN
    /\ Nanos \subseteq Nat /\ Nanos # {}

Genesis == <<"genesis">>
NoHash == 0

\* What an INSERT does: it is done; it is not done and reports an error; it is
\* done and reports an error, because the answer was lost or ctx ended.
Outcome == {"done", "failed", "lost"}

\* computeEntryHash: a hash of the fields and of the previous hash.  The time
\* is formatted with all its digits.
computeEntryHash(e) ==
    <<"entry", e.time, e.nano, e.server, e.event, e.key, e.prev>>

\* The column holds microseconds: what VerifyChain reads back has no rest.
Stored(e) == [e EXCEPT !.nano = 0]

loadLastHash(rows) == IF rows = <<>> THEN Genesis ELSE Last(rows).hash
rebuildMerkleTree(rows) == [i \in DOMAIN rows |-> rows[i].hash]

\* Mutant of NewTransparencyLog: the tree is not rebuilt.
NewTransparencyLogBare(rows) ==
    [rows |-> rows, lastHash |-> loadLastHash(rows), keyHistory |-> <<>>, tree |-> <<>>]

\* NewTransparencyLog on a table that may hold rows: the key history is empty.
NewTransparencyLog(rows) ==
    [rows |-> rows, lastHash |-> loadLastHash(rows), keyHistory |-> <<>>,
     tree |-> rebuildMerkleTree(rows)]

\* Mutant of appendEntry: lastHash advances before the error is looked at.
appendEntryEarly(log, entry, outcome) ==
    LET linked == [entry EXCEPT !.prev = log.lastHash]
        hash   == computeEntryHash(linked)
        row    == Stored(linked) @@ [hash |-> hash]
    IN  [log EXCEPT !.rows = IF outcome = "failed" THEN @ ELSE Append(@, row),
                    !.lastHash = hash,
                    !.tree = IF outcome = "done" THEN Append(@, hash) ELSE @]

\* appendEntry: lastHash and the tree follow only an INSERT that reports success.
appendEntry(log, entry, outcome) ==
    LET linked == [entry EXCEPT !.prev = log.lastHash]
        hash   == computeEntryHash(linked)
        row    == Stored(linked) @@ [hash |-> hash]
    IN  [log EXCEPT !.rows = IF outcome = "failed" THEN @ ELSE Append(@, row),
                    !.lastHash = IF outcome = "done" THEN hash ELSE @,
                    !.tree = IF outcome = "done" THEN Append(@, hash) ELSE @]

Entry(now, server, event, key) ==
    [time |-> now.time, nano |-> now.nano, server |-> server, event |-> event,
     key |-> key, prev |-> Genesis]

\* The method under way: the log, the number of INSERTs so far and whether it
\* has returned an error.  plan[n] is the outcome of its n-th INSERT.
Running(log) == [log |-> log, inserts |-> 0, error |-> FALSE]
Inserted(run, entry, plan) ==
    [log |-> appendEntry(run.log, entry, plan[run.inserts + 1]),
     inserts |-> run.inserts + 1, error |-> plan[run.inserts + 1] # "done"]

\* checkAnomalies: its error is only logged.
checkAnomalies(run, server, now, plan) ==
    LET history == run.log.keyHistory[server] IN
    IF LogAnomalies /\ history.rotations > RapidRotations
                    /\ now.time - history.firstSeen < RapidWindow
    THEN [Inserted(run, Entry(now, server, "ANOMALY_RAPID_ROTATION", NoHash), plan)
             EXCEPT !.error = FALSE]
    ELSE run

\* LogKey, a server not seen by this process: its history exists from here on,
\* without a key hash and, until LogOne has set it, with the zero time as the
\* time it was last seen.
LogFirstSeen(run, server, hash, now, plan) ==
    Inserted([run EXCEPT !.log.keyHistory =
                (server :> [hash |-> NoHash, rotations |-> 0, firstSeen |-> now.time,
                            lastSeen |-> 0]) @@ @],
             Entry(now, server, "KEY_FIRST_SEEN", hash), plan)

\* LogKey, another key than the one of the history.
LogRotation(run, server, hash, now, plan) ==
    LET logged == IF LogKeyChanges
                  THEN Inserted(run, Entry(now, server, "KEY_ROTATION", hash), plan) ELSE run
        checked == checkAnomalies(logged, server, now, plan)
    IN  IF logged.error THEN logged
        ELSE [checked EXCEPT !.log.keyHistory[server].rotations = @ + 1]

\* Mutant of LogOne: the history is updated although the INSERT failed.
LogOneRegardless(run, server, hash, now, plan) ==
    LET history == run.log.keyHistory
        next == IF server \notin DOMAIN history
                THEN LogFirstSeen(run, server, hash, now, plan)
                ELSE IF history[server].hash # hash
                     THEN LogRotation(run, server, hash, now, plan) ELSE run
    IN  [next EXCEPT !.log.keyHistory[server].hash = hash,
                     !.log.keyHistory[server].lastSeen = now.time]

\* LogKey, the body of the loop over the sorted keys.
LogOne(run, server, hash, now, plan) ==
    LET history == run.log.keyHistory
        next == IF server \notin DOMAIN history
                THEN LogFirstSeen(run, server, hash, now, plan)
                ELSE IF history[server].hash # hash
                     THEN LogRotation(run, server, hash, now, plan) ELSE run
    IN  IF next.error THEN next
        ELSE [next EXCEPT !.log.keyHistory[server].hash = hash,
                          !.log.keyHistory[server].lastSeen = now.time]

\* LogKey returns at the first error.
LogKey(log, server, keys, now, plan) ==
    FoldLeft(LAMBDA run, k : IF run.error THEN run ELSE LogOne(run, server, k.hash, now, plan),
             Running(log), keys)

\* LogFailure, LogPolicyViolation
LogEvent(log, server, event, now, plan) ==
    Inserted(Running(log), Entry(now, server, event, NoHash), plan)

\* VerifyChain: the links from "genesis" on, and every hash computed again.
VerifyChain(rows) ==
    \A i \in DOMAIN rows :
        /\ rows[i].prev = IF i = 1 THEN Genesis ELSE rows[i - 1].hash
        /\ rows[i].hash = computeEntryHash(rows[i])

\* Cleanup, the DELETE, which does not hold tl.mu.
DeleteBefore(rows, cutoff) == SelectSeq(rows, LAMBDA r : r.time >= cutoff)

\* Mutant of CleanupMemory: the hashes are added to the old tree.
CleanupMemoryOnTop(log, cutoff, upTo, reloaded) ==
    [log EXCEPT !.tree = @ \o rebuildMerkleTree(SubSeq(log.rows, 1, upTo)),
                !.lastHash = IF reloaded THEN loadLastHash(log.rows) ELSE @]

\* Cleanup, under tl.mu: a new tree from the first upTo rows (all of them unless
\* reading fails), the last hash (unless that fails), and the histories seen
\* since the cutoff.  The errors are only logged.
CleanupMemory(log, cutoff, upTo, reloaded) ==
    LET kept == {s \in DOMAIN log.keyHistory : log.keyHistory[s].lastSeen >= cutoff} IN
    [log EXCEPT !.tree = rebuildMerkleTree(SubSeq(log.rows, 1, upTo)),
                !.lastHash = IF reloaded THEN loadLastHash(log.rows) ELSE @,
                !.keyHistory = [s \in kept |-> @[s]]]
=============================================================================
