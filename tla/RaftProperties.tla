--------------------------- MODULE RaftProperties ---------------------------
(***************************************************************************)
(* What the Raft node promises.  The runs of MCRaft check these on small   *)
(* clusters; RaftProofs and RaftLogProofs prove some for every size.       *)
(***************************************************************************)
EXTENDS Raft

Leaders == {n \in Node : state[n] = "Leader"}

\* Both nodes still hold an entry at idx in memory.
Shared(i, j, idx) == InWindow(i, idx) /\ InWindow(j, idx)

\* Where both hold one up to last, it is the same.
AgreeUpTo(i, j, last) ==
    \A idx \in 1 .. last : Shared(i, j, idx) => EntryAt(i, idx) = EntryAt(j, idx)

\* The cmds of the entries of log[n] up to idx.
CommandsUpTo(n, idx) ==
    {EntryAt(n, i).cmd : i \in {i \in 1 .. idx : InWindow(n, i)}}

\* A record of entry e survives a crash of n.
OnDisk(n, e) ==
    \/ e.index <= snapFile[n].index
    \/ \E r \in 1 .. Len(wal[n]) : wal[n][r] = e

-----------------------------------------------------------------------------
(* State invariants.  LogMatching, CommittedAgree, LeaderCompleteness and
   MatchIndexSound are about nodes whose disk writes succeed and that do not
   restart: a leader whose persistEntry fails removes an entry that peers may
   already hold and gives its index to another command of the same term. *)

\* At most one leader per term: startElection, handleRequestVote and
\* becomeLeader never let two nodes collect a majority in the same term.
ElectionSafety ==
    \A i, j \in Leaders : currentTerm[i] = currentTerm[j] => i = j

\* Two logs that agree on the term of an index agree on every entry up to it:
\* the PrevLogTerm check and the truncation in handleAppendEntries.
LogMatching ==
    \A i, j \in Node : log[i] # log[j] =>
        \A idx \in 1 .. LogLen(i) :
            Shared(i, j, idx) /\ EntryAt(i, idx).term = EntryAt(j, idx).term =>
                AgreeUpTo(i, j, idx)

\* Two nodes never consider different entries committed at the same index
\* (quorum commit): updateCommitIndex against elections and truncation.
CommittedAgree ==
    \A i, j \in Node :
        log[i] # log[j] /\ commitIndex[i] <= commitIndex[j] => AgreeUpTo(i, j, commitIndex[i])

\* A leader holds every entry that any node of its term or an earlier one
\* considers committed: isLogUpToDate and the current-term rule of
\* updateCommitIndex.
LeaderCompleteness ==
    \A j \in Leaders : \A i \in Node :
        currentTerm[j] >= currentTerm[i] =>
            LogLen(j) >= commitIndex[i] /\ AgreeUpTo(i, j, commitIndex[i])

\* matchIndex never claims more than the peer holds, as long as the peer is in
\* the leader's term: a delayed request that an answered one has overtaken takes
\* nothing away from the peer, and late replies to AppendEntries and
\* InstallSnapshot do not move matchIndex past what the peer stored.
MatchIndexSound ==
    \A n \in Leaders : \A p \in Peers(n) :
        currentTerm[p] = currentTerm[n] =>
            LogLen(p) >= matchIndex[n][p] /\ AgreeUpTo(n, p, matchIndex[n][p])

\* n.log[i].Index = n.logOffset + i + 1 and logOffset = snapshotIndex, as the
\* comment on logOffset in raft.go states.
LogIndexInvariant ==
    \A n \in Node :
        /\ logOffset[n] = snapshotIndex[n]
        /\ \A i \in 1 .. Len(log[n]) : log[n][i].index = logOffset[n] + i

\* Nothing a node holds in memory is missing from its disk, except what a
\* Submit is still persisting or has reported as failed: no crash point of
\* CompactLog or of handleInstallSnapshot leaves a gap between raft.snapshot
\* and raft.wal, and no disk error in handleAppendEntries does either.
NoGapOnDisk ==
    \A n \in Node :
        /\ snapFile[n].index >= snapshotIndex[n]
        /\ \A i \in 1 .. Len(log[n]) :
               \/ OnDisk(n, log[n][i])
               \/ \E pub \in persisting[n] : pub.entry = log[n][i]
               \/ log[n][i].cmd \in rejected

\* CompactLog checks its index again after SaveSnapshot; the comment there
\* says that this check "should always hold": nothing moves snapshotIndex
\* while a compaction is between its two critical sections.
CompactionNotSuperseded ==
    \A n \in Node : snapTask[n].kind = "compact" => snapTask[n].snap.index > snapshotIndex[n]

\* Two replicas whose state machines report the same index hold the same
\* keys, so that their snapshots are identical (compact.go, snapshot.go).
SnapshotDeterminism ==
    \A i, j \in Node : raftLastApplied[i] = raftLastApplied[j] => keys[i] = keys[j]

\* The key cache holds every command up to the index it reports: nothing
\* committed is skipped by the apply loop or lost by a snapshot install.
KeysComplete ==
    \A n \in Node : CommandsUpTo(n, raftLastApplied[n]) \subseteq keys[n]

\* A Submit that returned nil has its command in a committed entry: some node
\* holds it at or below its commitIndex, or has applied it.
AckedIsCommitted ==
    \A c \in acked : \E n \in Node : c \in keys[n] \cup CommandsUpTo(n, commitIndex[n])

\* No disk write failed, no process restarted, and no election followed the
\* first one.
Undisturbed == failures = 0 /\ restarts = 0 /\ \A n \in Node : currentTerm[n] <= 1

\* A command whose Submit returned nil is on the disks of a majority: it was
\* persisted by the leader and by the peers that acknowledged it, and no
\* compaction or install takes it away.  This is so under one undisturbed
\* leader only.  A failed write of the leader, a second vote after a restart or
\* a later leader gives the index to another command, and Submit returns nil for
\* either of them, as replicateEntry compares nothing but the index.
AckedOnMajority ==
    Undisturbed => \A c \in acked :
        Cardinality({n \in Node : \/ c \in snapFile[n].data
                                  \/ \E r \in 1 .. Len(wal[n]) : wal[n][r].cmd = c}) >= Quorum

\* What the comment in Submit says of an entry that is published and not yet
\* persisted: "commitIndex will not advance past it until persist succeeds".
CommittedIsPersisted ==
    \A n \in Leaders : \A pub \in persisting[n] :
        InWindow(n, pub.entry.index) /\ EntryAt(n, pub.entry.index) = pub.entry
            => commitIndex[n] < pub.entry.index

\* Within a term a peer has at least as many entries as the leader counts for
\* it, also when a disk operation failed on either side (Success=false never
\* advances matchIndex) or a process restarted.  With both it is not so: after a
\* restart a term may have two leaders, and the one that steps down takes the
\* other one's entry from its log when its own persistEntry fails.
MatchIndexBounded ==
    failures + restarts <= 1 => \A n \in Leaders : \A p \in Peers(n) :
        currentTerm[p] = currentTerm[n] => LogLen(p) >= matchIndex[n][p]

-----------------------------------------------------------------------------
(* Action properties *)

\* commitIndex never moves back in a cluster that does not compact, whatever late
\* requests of an old or a new leader bring.  After a compaction handleAppendEntries
\* can lower it, by a request with prevLogIndex 0 and no entries.
CommitIndexMonotonic == [][\A n \in Node : commitIndex'[n] >= commitIndex[n]]_vars

\* While a node leads in one term, replies to AppendEntries that overtake each
\* other never move matchIndex back (the nextIdx comparison in
\* sendAppendEntries).  In a cluster that compacts, a late reply to
\* InstallSnapshot can: SendInstallSnapshot makes no such comparison.
MatchIndexMonotonic ==
    [][\A n \in Node : \A p \in Peers(n) :
          /\ state[n] = "Leader" /\ state'[n] = "Leader"
          /\ currentTerm'[n] = currentTerm[n]
          => matchIndex'[n][p] >= matchIndex[n][p]]_vars

\* Neither raft.snapshot on disk nor snapshotIndex in memory ever rolls back:
\* CompactLog and handleInstallSnapshot exclude each other with snapMu, and a
\* stale or duplicate InstallSnapshot is not installed.
SnapshotNeverRollsBack ==
    [][\A n \in Node : /\ snapshotIndex'[n] >= snapshotIndex[n]
                       /\ snapFile'[n].index >= snapFile[n].index]_vars

\* A Submit whose persist failed takes only its own entry off the log: "a fresh
\* leader's AppendEntries could have already rewritten the tail; leave that
\* state alone" (Submit).
FailedSubmitRemovesItsOwn ==
    [][\A n \in Node : \A i \in 1 .. Len(log[n]) :
          rejected' # rejected /\ i > Len(log'[n]) => log[n][i].cmd \in rejected']_vars

=============================================================================
