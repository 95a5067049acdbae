-------------------------------- MODULE Raft --------------------------------
(***************************************************************************)
(* The Raft node of internal/zero/raft together with the key state machine *)
(* that internal/cluster attaches to it: elections, replication, the       *)
(* persist-outside-the-lock write path of Submit, the apply loop, log      *)
(* compaction, snapshot catch-up and restart from disk.                    *)
(*                                                                         *)
(* One action is one critical section of the node mutex n.mu (or of the    *)
(* state-machine mutex c.state.mu), so whatever the code does between two  *)
(* critical sections can interleave with every other goroutine and node.   *)
(*                                                                         *)
(* Abstractions.  Time: an election may start at any moment (the pre-vote  *)
(* round only delays startElection).  Leader hints (leaderId, leaderAddr,  *)
(* lastContact) do not influence the state modelled here.  A command is a  *)
(* number, distinct for every Submit, and writes a key of its own.  A      *)
(* snapshot travels as one Done chunk.                                     *)
(***************************************************************************)
EXTENDS Naturals, Sequences, FiniteSets

CONSTANTS
    Node,            \* the members of the cluster (config.Peers plus self)
    Nobody,          \* the empty votedFor
    MaxTerm,         \* bound: elections started stay within this term
    MaxSubmits,      \* bound: commands submitted
    MaxInFlight,     \* bound: messages in flight when a node sends more
    MaxApplies,      \* bound: steps of the apply loops
    MaxAcks,         \* bound: Submit calls that return nil
    MaxFailures,     \* bound: failed disk operations
    MaxCompactions,  \* bound: CompactLog calls that persist a snapshot
    MaxRestarts      \* bound: process restarts

ASSUME NodeAssumption == IsFiniteSet(Node) /\ Nobody \notin Node

ASSUME BoundAssumption ==
    /\ MaxTerm \in Nat /\ MaxSubmits \in Nat /\ MaxInFlight \in Nat
    /\ MaxApplies \in Nat /\ MaxAcks \in Nat
    /\ MaxFailures \in Nat /\ MaxCompactions \in Nat /\ MaxRestarts \in Nat

VARIABLES
    state, currentTerm, votedFor, votes,
    log, logOffset, snapshotIndex, snapshotTerm,
    commitIndex, lastApplied,
    nextIndex, matchIndex,
    wal, snapFile,                      \* raft.wal and raft.snapshot on disk
    applying, keys, raftLastApplied,    \* apply loop and c.state
    persisting, waiting,                \* Submit calls: in WAL, in replicateEntry
    acked, rejected,                    \* commands whose Submit returned nil / a persist error
    snapTask, catchUp,                  \* holder of snapMu; driveInstallSnapshot goroutines
    msgs,                               \* RPC requests and responses in flight
    submits, applies, failures, compactions, restarts   \* counted against the bounds

electionVars == <<state, currentTerm, votedFor, votes>>
logVars      == <<log, logOffset, snapshotIndex, snapshotTerm>>
commitVars   == <<commitIndex, lastApplied>>
peerVars     == <<nextIndex, matchIndex>>
diskVars     == <<wal, snapFile>>
machineVars  == <<applying, keys, raftLastApplied, applies>>
submitVars   == <<persisting, waiting, acked, rejected, submits>>
snapVars     == <<snapTask, catchUp, compactions>>
faultVars    == <<failures, restarts>>
vars == <<electionVars, logVars, commitVars, peerVars, diskVars, machineVars,
          submitVars, snapVars, faultVars, msgs>>

-----------------------------------------------------------------------------
(* Types *)

Entry == [index : Nat, term : Nat, cmd : Nat]

\* A record removed by a WAL rewrite, and the idle apply loop.  Index 0 is
\* never a log index, so replay skips it.
Gone == [index |-> 0, term |-> 0, cmd |-> 0]

Snapshot == [index : Nat, term : Nat, data : SUBSET Nat]

NoSnapshot == [index |-> 0, term |-> 0, data |-> {}]

\* What the goroutine holding snapMu is doing.
Idle == [kind |-> "idle", snap |-> NoSnapshot, from |-> Nobody, conn |-> FALSE]

SnapTask == [kind : {"idle", "compact", "decode", "rename"},
             snap : Snapshot, from : Node \cup {Nobody}, conn : BOOLEAN]

\* conn says that the caller still waits for the reply (sendRPC is one
\* request and one response on a connection of its own).
RequestVote == [type : {"RequestVote"}, from : Node, to : Node, term : Nat,
                lastLogIndex : Nat, lastLogTerm : Nat, conn : BOOLEAN]

RequestVoteRes == [type : {"RequestVoteRes"}, from : Node, to : Node,
                   term : Nat, voteGranted : BOOLEAN]

AppendEntries == [type : {"AppendEntries"}, from : Node, to : Node, term : Nat,
                  prevLogIndex : Nat, prevLogTerm : Nat, entries : Seq(Entry),
                  leaderCommit : Nat, conn : BOOLEAN]

\* The last three fields are the sender's local appendEntriesSnapshot.
AppendEntriesRes == [type : {"AppendEntriesRes"}, from : Node, to : Node,
                     term : Nat, success : BOOLEAN,
                     reqTerm : Nat, nextIdx : Nat \ {0}, count : Nat]

InstallSnapshot == [type : {"InstallSnapshot"}, from : Node, to : Node,
                    term : Nat, snap : Snapshot, conn : BOOLEAN]

InstallSnapshotRes == [type : {"InstallSnapshotRes"}, from : Node, to : Node,
                       term : Nat, success : BOOLEAN, index : Nat]

Message == RequestVote \cup RequestVoteRes \cup AppendEntries
             \cup AppendEntriesRes \cup InstallSnapshot \cup InstallSnapshotRes

\* A Submit between its two critical sections.
Publication == [entry : Entry, publishedLen : Nat]

ElectionTypes ==
    /\ state \in [Node -> {"Follower", "Candidate", "Leader"}]
    /\ currentTerm \in [Node -> Nat]
    /\ votedFor \in [Node -> Node \cup {Nobody}]
    /\ votes \in [Node -> SUBSET Node]

LogTypes ==
    /\ log \in [Node -> Seq(Entry)]
    /\ logOffset \in [Node -> Nat]
    /\ snapshotIndex \in [Node -> Nat]
    /\ snapshotTerm \in [Node -> Nat]

CommitTypes == commitIndex \in [Node -> Nat] /\ lastApplied \in [Node -> Nat]

PeerTypes ==
    nextIndex \in [Node -> [Node -> Nat]] /\ matchIndex \in [Node -> [Node -> Nat]]

DiskTypes == wal \in [Node -> Seq(Entry)] /\ snapFile \in [Node -> Snapshot]

MachineTypes ==
    /\ applying \in [Node -> Entry]
    /\ keys \in [Node -> SUBSET Nat]
    /\ raftLastApplied \in [Node -> Nat]
    /\ applies \in Nat

SubmitTypes ==
    /\ persisting \in [Node -> SUBSET Publication]
    /\ waiting \in [Node -> SUBSET Entry]
    /\ acked \subseteq Nat
    /\ rejected \subseteq Nat
    /\ submits \in Nat

SnapTypes ==
    /\ snapTask \in [Node -> SnapTask]
    /\ catchUp \in [Node -> SUBSET Node]
    /\ compactions \in Nat

FaultTypes == failures \in Nat /\ restarts \in Nat

\* Every variable keeps the type the Go structs give it; indices and terms do
\* not go below zero (they are uint64 in the code).
TypeOK ==
    /\ ElectionTypes /\ LogTypes /\ CommitTypes /\ PeerTypes /\ DiskTypes
    /\ MachineTypes /\ SubmitTypes /\ SnapTypes /\ FaultTypes
    /\ msgs \subseteq Message

-----------------------------------------------------------------------------
(* Log accessors: absolute 1-based indices over a slice that starts at
   logOffset (log_view.go). *)

LogLen(n) == logOffset[n] + Len(log[n])

InWindow(n, idx) == idx > logOffset[n] /\ idx <= LogLen(n)

EntryAt(n, idx) == log[n][idx - logOffset[n]]

\* termAt returns (term, ok): TermKnown is ok, TermAt the term.
TermKnown(n, idx) == idx = 0 \/ idx = snapshotIndex[n] \/ InWindow(n, idx)

TermAt(n, idx) ==
    IF idx = 0 THEN 0
    ELSE IF idx = snapshotIndex[n] THEN snapshotTerm[n]
    ELSE EntryAt(n, idx).term

LastLogIndex(n) == IF log[n] = <<>> THEN snapshotIndex[n] ELSE log[n][Len(log[n])].index

LastLogTerm(n) == IF log[n] = <<>> THEN snapshotTerm[n] ELSE log[n][Len(log[n])].term

\* Mutant: the length of the log is not compared.
IsLogUpToDateByTerm(n, lastIndex, lastTerm) == lastTerm >= LastLogTerm(n)

IsLogUpToDate(n, lastIndex, lastTerm) ==
    IF lastTerm # LastLogTerm(n) THEN lastTerm > LastLogTerm(n)
                                 ELSE lastIndex >= LastLogIndex(n)

\* filterRewrite: the survivors keep their order.
TruncateAfter(records, lastKeep) ==
    [i \in DOMAIN records |-> IF records[i].index <= lastKeep THEN records[i] ELSE Gone]

TruncateBefore(records, firstKeep) ==
    [i \in DOMAIN records |-> IF records[i].index >= firstKeep THEN records[i] ELSE Gone]

\* Mutant: a follower forgets to write the entries it accepts.
PersistNothing(records, new) == records

\* persistEntry for each of the new entries, in order.
Persist(records, new) == records \o new

\* Mutant: the entry at the snapshot index stays in memory.
DropBelow(entries, offset, index) == SubSeq(entries, index - offset, Len(entries))

\* Mutant: the whole log goes.
DropAll(entries, offset, index) == <<>>

\* The in-memory tail above a snapshot at index.
DropCovered(entries, offset, index) == SubSeq(entries, index - offset + 1, Len(entries))

Peers(n) == Node \ {n}

\* Mutant: half of an odd cluster is enough.
HalfQuorum == Cardinality(Node) \div 2

Quorum == Cardinality(Node) \div 2 + 1

\* The entries updateCommitIndex(n) may commit, given the peers' matchIndex.
Committable(n, match) ==
    {i \in commitIndex[n] + 1 .. LogLen(n) :
        /\ TermKnown(n, i) /\ TermAt(n, i) = currentTerm[n]
        /\ 1 + Cardinality({p \in Peers(n) : match[p] >= i}) > Cardinality(Node) \div 2}

\* updateCommitIndex: the loop's last assignment wins.
UpdateCommitIndex(n, match) ==
    \E c \in {commitIndex[n]} \cup Committable(n, match) :
        /\ \A i \in Committable(n, match) : i <= c
        /\ commitIndex' = [commitIndex EXCEPT ![n] = c]

-----------------------------------------------------------------------------
(* The network: a request is delivered at most once, and either half of an
   RPC may be lost. *)

Send(m) ==
    /\ m \notin msgs
    /\ Cardinality(msgs) < MaxInFlight
    /\ msgs' = msgs \cup {m}

Reply(m, response) == msgs' = (msgs \ {m}) \cup (IF m.conn THEN {response} ELSE {})

Receive(m) == msgs' = msgs \ {m}

Drop(m) ==
    /\ Receive(m)
    /\ UNCHANGED <<electionVars, logVars, commitVars, peerVars, diskVars, machineVars,
                   submitVars, snapVars, faultVars>>

-----------------------------------------------------------------------------
(* Terms and elections *)

\* A response with a higher term: adopt it and step down.
StepDown(n, term) ==
    /\ currentTerm' = [currentTerm EXCEPT ![n] = term]
    /\ state' = [state EXCEPT ![n] = "Follower"]
    /\ votedFor' = [votedFor EXCEPT ![n] = Nobody]
    /\ votes' = [votes EXCEPT ![n] = {}]

\* A request from a leader of this or a later term.
FollowLeader(n, term) ==
    /\ currentTerm' = [currentTerm EXCEPT ![n] = term]
    /\ state' = [state EXCEPT ![n] = "Follower"]
    /\ votedFor' = [votedFor EXCEPT ![n] = IF term > currentTerm[n] THEN Nobody ELSE @]
    /\ votes' = [votes EXCEPT ![n] = {}]

\* The requests carry the log position read in the same critical section.
StartElection(n) ==
    LET term == currentTerm[n] + 1
        requests == {[type |-> "RequestVote", from |-> n, to |-> p, term |-> term,
                      lastLogIndex |-> LastLogIndex(n), lastLogTerm |-> LastLogTerm(n),
                      conn |-> TRUE] : p \in Peers(n)}
    IN  /\ state[n] # "Leader"
        /\ currentTerm[n] < MaxTerm
        /\ Cardinality(msgs) <= MaxInFlight
        /\ currentTerm' = [currentTerm EXCEPT ![n] = term]
        /\ state' = [state EXCEPT ![n] = "Candidate"]
        /\ votedFor' = [votedFor EXCEPT ![n] = n]
        /\ votes' = [votes EXCEPT ![n] = {n}]
        /\ msgs' = msgs \cup requests
        /\ UNCHANGED <<logVars, commitVars, peerVars, diskVars, machineVars, submitVars,
                       snapVars, faultVars>>

VoteResponse(m, term, granted) ==
    [type |-> "RequestVoteRes", from |-> m.to, to |-> m.from, term |-> term,
     voteGranted |-> granted]

\* Mutant: an earlier vote of the same term is forgotten.
VoteAlwaysFree(n, candidate) == TRUE

VoteIsFree(n, candidate) == votedFor[n] \in {Nobody, candidate}

HandleRequestVote(m) ==
    LET n     == m.to
        newer == m.term > currentTerm[n]
        free  == newer \/ VoteIsFree(n, m.from)
        grant == /\ m.term >= currentTerm[n]
                 /\ free
                 /\ IsLogUpToDate(n, m.lastLogIndex, m.lastLogTerm)
    IN  /\ currentTerm' = [currentTerm EXCEPT ![n] = IF newer THEN m.term ELSE @]
        /\ state' = [state EXCEPT ![n] = IF newer THEN "Follower" ELSE @]
        /\ votes' = [votes EXCEPT ![n] = IF newer THEN {} ELSE @]
        /\ votedFor' = [votedFor EXCEPT ![n] = IF grant THEN m.from
                                               ELSE IF newer THEN Nobody ELSE @]
        /\ Reply(m, VoteResponse(m, currentTerm'[n], grant))
        /\ UNCHANGED <<logVars, commitVars, peerVars, diskVars, machineVars, submitVars,
                       snapVars, faultVars>>

\* requestVote after sendRPC.  A granted vote counts for the election of its
\* own term only: the collecting loop's counter is local to that election.
HandleRequestVoteRes(m) ==
    LET n == m.to
    IN  /\ Receive(m)
        /\ \/ m.term > currentTerm[n] /\ StepDown(n, m.term)
           \/ /\ m.term <= currentTerm[n]
              /\ votes' = [votes EXCEPT ![n] =
                     IF m.voteGranted /\ state[n] = "Candidate" /\ m.term = currentTerm[n]
                     THEN @ \cup {m.from} ELSE @]
              /\ UNCHANGED <<state, currentTerm, votedFor>>
        /\ UNCHANGED <<logVars, commitVars, peerVars, diskVars, machineVars, submitVars,
                       snapVars, faultVars>>

BecomeLeader(n) ==
    /\ state[n] = "Candidate"
    /\ Cardinality(votes[n]) >= Quorum
    /\ state' = [state EXCEPT ![n] = "Leader"]
    /\ nextIndex' = [nextIndex EXCEPT ![n] = [p \in Node |-> LogLen(n) + 1]]
    /\ matchIndex' = [matchIndex EXCEPT ![n] = [p \in Node |-> 0]]
    /\ UNCHANGED <<currentTerm, votedFor, votes, logVars, commitVars, diskVars,
                   machineVars, submitVars, snapVars, faultVars, msgs>>

-----------------------------------------------------------------------------
(* Submit: publish under n.mu, persist without it, then commit and wait. *)

SubmitPublish(n) ==
    LET entry == [index |-> LogLen(n) + 1, term |-> currentTerm[n], cmd |-> submits + 1]
    IN  /\ state[n] = "Leader"
        /\ submits < MaxSubmits
        /\ submits' = submits + 1
        /\ log' = [log EXCEPT ![n] = Append(@, entry)]
        /\ persisting' = [persisting EXCEPT ![n] =
               @ \cup {[entry |-> entry, publishedLen |-> Len(log[n]) + 1]}]
        /\ UNCHANGED <<electionVars, logOffset, snapshotIndex, snapshotTerm, commitVars,
                       peerVars, diskVars, machineVars, waiting, acked, rejected,
                       snapVars, faultVars, msgs>>

\* persistEntry returned nil: updateCommitIndex runs whatever the node's
\* state is by now, and replicateEntry starts to wait.
SubmitPersisted(n, pub) ==
    /\ wal' = [wal EXCEPT ![n] = Append(@, pub.entry)]
    /\ persisting' = [persisting EXCEPT ![n] = @ \ {pub}]
    /\ waiting' = [waiting EXCEPT ![n] = @ \cup {pub.entry}]
    /\ UpdateCommitIndex(n, matchIndex[n])
    /\ UNCHANGED <<electionVars, logVars, lastApplied, peerVars, snapFile, machineVars,
                   acked, rejected, submits, snapVars, faultVars, msgs>>

\* persistEntry failed; the record may be in the file all the same (the
\* batch's fsync, or the write of a later record of the batch, failed).
SubmitPersistFailed(n, pub) ==
    LET onTop == /\ Len(log[n]) = pub.publishedLen
                 /\ log[n][Len(log[n])].index = pub.entry.index
    IN  /\ failures < MaxFailures
        /\ failures' = failures + 1
        /\ wal' \in {wal, [wal EXCEPT ![n] = Append(@, pub.entry)]}
        /\ persisting' = [persisting EXCEPT ![n] = @ \ {pub}]
        /\ rejected' = rejected \cup {pub.entry.cmd}
        /\ log' = [log EXCEPT ![n] = IF onTop THEN SubSeq(@, 1, Len(@) - 1) ELSE @]
        /\ UNCHANGED <<electionVars, logOffset, snapshotIndex, snapshotTerm, commitVars,
                       peerVars, snapFile, machineVars, waiting, acked, submits,
                       snapVars, restarts, msgs>>

\* replicateEntry sees commitIndex reach the entry's index.
SubmitReturn(n, entry) ==
    /\ commitIndex[n] >= entry.index
    /\ Cardinality(acked) < MaxAcks
    /\ waiting' = [waiting EXCEPT ![n] = @ \ {entry}]
    /\ acked' = acked \cup {entry.cmd}
    /\ UNCHANGED <<electionVars, logVars, commitVars, peerVars, diskVars, machineVars,
                   persisting, rejected, submits, snapVars, faultVars, msgs>>

-----------------------------------------------------------------------------
(* AppendEntries *)

\* appendEntriesSnapshot.  needsSnapshotCatchUp was evaluated in an earlier
\* critical section, when nextIndex may still have been above the snapshot.
SendAppendEntries(n, p) ==
    LET prev == nextIndex[n][p] - 1
        tail == IF InWindow(n, prev + 1)
                THEN SubSeq(log[n], prev + 1 - logOffset[n], Len(log[n])) ELSE <<>>
    IN  /\ state[n] = "Leader"
        /\ Send([type |-> "AppendEntries", from |-> n, to |-> p, term |-> currentTerm[n],
                 prevLogIndex |-> prev,
                 prevLogTerm |-> IF TermKnown(n, prev) THEN TermAt(n, prev) ELSE 0,
                 entries |-> tail, leaderCommit |-> commitIndex[n], conn |-> TRUE])
        /\ UNCHANGED <<electionVars, logVars, commitVars, peerVars, diskVars, machineVars,
                       submitVars, snapVars, faultVars>>

AppendResponse(m, term, success) ==
    [type |-> "AppendEntriesRes", from |-> m.to, to |-> m.from, term |-> term,
     success |-> success, reqTerm |-> m.term, nextIdx |-> m.prevLogIndex + 1,
     count |-> Len(m.entries)]

RejectStaleAppend(m) ==
    /\ m.term < currentTerm[m.to]
    /\ Reply(m, AppendResponse(m, currentTerm[m.to], FALSE))
    /\ UNCHANGED <<electionVars, logVars, commitVars, peerVars, diskVars, machineVars,
                   submitVars, snapVars, faultVars>>

PrevLogMatches(n, m) ==
    \/ m.prevLogIndex = 0
    \/ TermKnown(n, m.prevLogIndex) /\ TermAt(n, m.prevLogIndex) = m.prevLogTerm

\* The rejection carries the term read before the new one was adopted.
RejectPrevLog(m) ==
    LET n == m.to
    IN  /\ m.term >= currentTerm[n]
        /\ ~PrevLogMatches(n, m)
        /\ FollowLeader(n, m.term)
        /\ Reply(m, AppendResponse(m, currentTerm[n], FALSE))
        /\ UNCHANGED <<logVars, commitVars, peerVars, diskVars, machineVars, submitVars,
                       snapVars, faultVars>>

\* Mutant: an entry of another term at the same index counts as held.
HeldAtAnyTerm(n, m, i) ==
    LET idx == m.prevLogIndex + i
    IN  idx <= logOffset[n] \/ InWindow(n, idx)

\* Entry i of the request is skipped: covered by the snapshot, or already in
\* the log with the same term.
AlreadyHeld(n, m, i) ==
    LET idx == m.prevLogIndex + i
    IN  \/ idx <= logOffset[n]
        \/ InWindow(n, idx) /\ EntryAt(n, idx).term = m.entries[i].term

\* Entry k is the first one that is not skipped.  From there on every entry
\* is appended: either k conflicts and the tail goes, or the log ends at k.
FirstNew(n, m, k) ==
    /\ \A i \in 1 .. k - 1 : AlreadyHeld(n, m, i)
    /\ k <= Len(m.entries) => ~AlreadyHeld(n, m, k)

Conflicts(n, m, k) == k <= Len(m.entries) /\ InWindow(n, m.prevLogIndex + k)

\* Mutant: what follows the entries of the request is cut off, conflict or not.
KeptLogCut(n, m, k) == SubSeq(log[n], 1, m.prevLogIndex + k - 1 - logOffset[n])

KeptLog(n, m, k) ==
    IF Conflicts(n, m, k) THEN SubSeq(log[n], 1, m.prevLogIndex + k - 1 - logOffset[n])
                          ELSE log[n]

KeptWal(n, m, k) ==
    IF Conflicts(n, m, k) THEN TruncateAfter(wal[n], m.prevLogIndex + k - 1) ELSE wal[n]

\* Mutant: a heartbeat with an older leaderCommit is believed.
FollowerCommitUnchecked(current, leaderCommit, lastNew) ==
    IF leaderCommit < lastNew THEN leaderCommit ELSE lastNew

FollowerCommit(current, leaderCommit, lastNew) ==
    IF leaderCommit <= current THEN current
    ELSE IF leaderCommit < lastNew THEN leaderCommit ELSE lastNew

AcceptAppend(m) ==
    LET n == m.to
        lastNew == m.prevLogIndex + Len(m.entries)
    IN  /\ m.term >= currentTerm[n]
        /\ PrevLogMatches(n, m)
        /\ FollowLeader(n, m.term)
        /\ \E k \in 1 .. Len(m.entries) + 1 :
               LET new == SubSeq(m.entries, k, Len(m.entries))
               IN  /\ FirstNew(n, m, k)
                   /\ log' = [log EXCEPT ![n] = KeptLog(n, m, k) \o new]
                   /\ wal' = [wal EXCEPT ![n] = Persist(KeptWal(n, m, k), new)]
        /\ commitIndex' = [commitIndex EXCEPT ![n] = FollowerCommit(@, m.leaderCommit, lastNew)]
        /\ Reply(m, AppendResponse(m, m.term, TRUE))
        /\ UNCHANGED <<logOffset, snapshotIndex, snapshotTerm, lastApplied, peerVars,
                       snapFile, machineVars, submitVars, snapVars, faultVars>>

\* The entries from k on that are in memory when persistEntry fails for f.
HeldBefore(m, k, f) == SubSeq(m.entries, k, f - 1)

\* TruncateAfter fails, or persistEntry fails for entry f, whose record may
\* or may not have reached the file.
FailAppend(m) ==
    LET n == m.to
    IN  /\ m.term >= currentTerm[n]
        /\ PrevLogMatches(n, m)
        /\ failures < MaxFailures
        /\ failures' = failures + 1
        /\ FollowLeader(n, m.term)
        /\ \E k \in 1 .. Len(m.entries) :
               /\ FirstNew(n, m, k)
               /\ \/ /\ Conflicts(n, m, k)
                     /\ log' = [log EXCEPT ![n] = KeptLog(n, m, k)]
                     /\ wal' = wal
                  \/ \E f \in k .. Len(m.entries) : \E w \in {f - 1, f} :
                        /\ log' = [log EXCEPT ![n] =
                               KeptLog(n, m, k) \o HeldBefore(m, k, f)]
                        /\ wal' = [wal EXCEPT ![n] =
                               Persist(KeptWal(n, m, k), SubSeq(m.entries, k, w))]
        /\ Reply(m, AppendResponse(m, currentTerm[n], FALSE))
        /\ UNCHANGED <<logOffset, snapshotIndex, snapshotTerm, commitVars, peerVars,
                       snapFile, machineVars, submitVars, snapVars, restarts>>

HandleAppendEntries(m) ==
    RejectStaleAppend(m) \/ RejectPrevLog(m) \/ AcceptAppend(m) \/ FailAppend(m)

BackOff(nextIdx) == IF nextIdx > 1 THEN nextIdx - 1 ELSE nextIdx

\* nextIndex - 1 after a successful AppendEntries.
MatchAfter(nextIdx, count) == nextIdx + count - 1

\* Mutant: nextIndex may have moved since the request.
ReplyIsOfTerm(n, p, m) == state[n] = "Leader" /\ currentTerm[n] = m.reqTerm

ReplyIsCurrent(n, p, m) ==
    state[n] = "Leader" /\ currentTerm[n] = m.reqTerm /\ nextIndex[n][p] = m.nextIdx

\* sendAppendEntries after sendRPC: a reply to an outdated view is ignored.
HandleAppendEntriesRes(m) ==
    LET n == m.to
        p == m.from
        current == ReplyIsCurrent(n, p, m)
        match == [matchIndex[n] EXCEPT ![p] = MatchAfter(m.nextIdx, m.count)]
    IN  /\ Receive(m)
        /\ \/ /\ m.term > currentTerm[n]
              /\ StepDown(n, m.term)
              /\ UNCHANGED <<commitVars, peerVars>>
           \/ /\ m.term <= currentTerm[n]
              /\ ~current
              /\ UNCHANGED <<electionVars, commitVars, peerVars>>
           \/ /\ m.term <= currentTerm[n] /\ current /\ m.success
              /\ nextIndex' = [nextIndex EXCEPT ![n][p] = m.nextIdx + m.count]
              /\ matchIndex' = [matchIndex EXCEPT ![n] = match]
              /\ UpdateCommitIndex(n, match)
              /\ UNCHANGED <<electionVars, lastApplied>>
           \/ /\ m.term <= currentTerm[n] /\ current /\ ~m.success
              /\ nextIndex' = [nextIndex EXCEPT ![n][p] = BackOff(@)]
              /\ UNCHANGED <<electionVars, commitVars, matchIndex>>
        /\ UNCHANGED <<logVars, diskVars, machineVars, submitVars, snapVars, faultVars>>

-----------------------------------------------------------------------------
(* The apply loop releases n.mu around onApply. *)

\* The apply loop is one goroutine: it is not inside onApply.
ApplyIdle(n) == lastApplied[n] < commitIndex[n] /\ applying[n] = Gone

ApplyTake(n) ==
    /\ ApplyIdle(n)
    /\ applies < MaxApplies
    /\ applies' = applies + 1
    /\ lastApplied' = [lastApplied EXCEPT ![n] = @ + 1]
    /\ applying' = [applying EXCEPT ![n] =
           IF InWindow(n, lastApplied[n] + 1) THEN EntryAt(n, lastApplied[n] + 1) ELSE Gone]
    /\ UNCHANGED <<electionVars, logVars, commitIndex, peerVars, diskVars, keys,
                   raftLastApplied, submitVars, snapVars, faultVars, msgs>>

\* The onApply callback of startRaft, under c.state.mu.
ApplyRun(n) ==
    /\ applying[n] # Gone
    /\ keys' = [keys EXCEPT ![n] = @ \cup {applying[n].cmd}]
    /\ raftLastApplied' = [raftLastApplied EXCEPT ![n] =
           IF applying[n].index > @ THEN applying[n].index ELSE @]
    /\ applying' = [applying EXCEPT ![n] = Gone]
    /\ UNCHANGED <<electionVars, logVars, commitVars, peerVars, diskVars, applies,
                   submitVars, snapVars, faultVars, msgs>>

-----------------------------------------------------------------------------
(* Compaction and snapshot catch-up.  snapTask[n] # Idle means snapMu is held. *)

\* Mutant: CompactLog goes on although raft.snapshot was not written.
SaveNothing(n, snap) == snapFile

SaveSnapshot(n, snap) == [snapFile EXCEPT ![n] = snap]

\* The early returns of CompactLog before it saves a snapshot at idx.
Compactable(n, idx) ==
    idx > snapshotIndex[n] /\ idx <= commitIndex[n] /\ TermKnown(n, idx)

\* CompactLog up to SaveSnapshot.
CompactSave(n) ==
    LET idx  == raftLastApplied[n]
        snap == [index |-> idx, term |-> TermAt(n, idx), data |-> keys[n]]
    IN  /\ snapTask[n] = Idle
        /\ compactions < MaxCompactions
        /\ Compactable(n, idx)
        /\ compactions' = compactions + 1
        /\ snapFile' = SaveSnapshot(n, snap)
        /\ snapTask' = [snapTask EXCEPT ![n] = [Idle EXCEPT !.kind = "compact", !.snap = snap]]
        /\ UNCHANGED <<electionVars, logVars, commitVars, peerVars, wal, machineVars,
                       submitVars, catchUp, faultVars, msgs>>

\* The memory update and the WAL truncation.  A failed truncation leaves
\* only records that replay skips.  The repeated check of the index finds it
\* still above snapshotIndex (CompactionTheorem in RaftProofs).
CompactFinish(n) ==
    LET snap == snapTask[n].snap
    IN  /\ snapTask[n].kind = "compact"
        /\ log' = [log EXCEPT ![n] = DropCovered(@, logOffset[n], snap.index)]
        /\ logOffset' = [logOffset EXCEPT ![n] = snap.index]
        /\ snapshotIndex' = [snapshotIndex EXCEPT ![n] = snap.index]
        /\ snapshotTerm' = [snapshotTerm EXCEPT ![n] = snap.term]
        /\ wal' = [wal EXCEPT ![n] = TruncateBefore(@, snap.index + 1)]
        /\ snapTask' = [snapTask EXCEPT ![n] = Idle]
        /\ UNCHANGED <<electionVars, commitVars, peerVars, snapFile, machineVars,
                       submitVars, catchUp, compactions, faultVars, msgs>>

\* needsSnapshotCatchUp is true: a driveInstallSnapshot goroutine starts.
StartCatchUp(n, p) ==
    /\ state[n] = "Leader"
    /\ snapshotIndex[n] # 0
    /\ nextIndex[n][p] <= snapshotIndex[n]
    /\ p \notin catchUp[n]
    /\ catchUp' = [catchUp EXCEPT ![n] = @ \cup {p}]
    /\ UNCHANGED <<electionVars, logVars, commitVars, peerVars, diskVars, machineVars,
                   submitVars, snapTask, compactions, faultVars, msgs>>

\* SendInstallSnapshot loads the file and reads the term now; it does not
\* look at the node's state again.
SendInstallSnapshot(n, p) ==
    /\ p \in catchUp[n]
    /\ catchUp' = [catchUp EXCEPT ![n] = @ \ {p}]
    /\ Send([type |-> "InstallSnapshot", from |-> n, to |-> p, term |-> currentTerm[n],
             snap |-> snapFile[n], conn |-> TRUE])
    /\ UNCHANGED <<electionVars, logVars, commitVars, peerVars, diskVars, machineVars,
                   submitVars, snapTask, compactions, faultVars>>

SnapshotResponse(n, to, term, success, index) ==
    [type |-> "InstallSnapshotRes", from |-> n, to |-> to, term |-> term,
     success |-> success, index |-> index]

\* handleInstallSnapshot until it releases n.mu.
HandleInstallSnapshot(m) ==
    LET n == m.to
        covered == m.snap.index <= snapshotIndex[n] /\ snapshotIndex[n] > 0
    IN  /\ snapTask[n] = Idle
        /\ \/ /\ m.term < currentTerm[n]
              /\ Reply(m, SnapshotResponse(n, m.from, currentTerm[n], FALSE, m.snap.index))
              /\ UNCHANGED <<electionVars, snapTask>>
           \/ /\ m.term >= currentTerm[n] /\ covered
              /\ FollowLeader(n, m.term)
              /\ Reply(m, SnapshotResponse(n, m.from, m.term, TRUE, m.snap.index))
              /\ UNCHANGED snapTask
           \/ /\ m.term >= currentTerm[n] /\ ~covered
              /\ FollowLeader(n, m.term)
              /\ Receive(m)
              /\ snapTask' = [snapTask EXCEPT ![n] =
                     [kind |-> "decode", snap |-> m.snap, from |-> m.from, conn |-> m.conn]]
        /\ UNCHANGED <<logVars, commitVars, peerVars, diskVars, machineVars, submitVars,
                       catchUp, compactions, faultVars>>

\* installKeySnapshot replaces the key map, under c.state.mu only.
InstallDecoded(n) ==
    LET snap == snapTask[n].snap
    IN  /\ snapTask[n].kind = "decode"
        /\ keys' = [keys EXCEPT ![n] = snap.data]
        /\ raftLastApplied' = [raftLastApplied EXCEPT ![n] =
               IF snap.index > @ THEN snap.index ELSE @]
        /\ snapTask' = [snapTask EXCEPT ![n].kind = "rename"]
        /\ UNCHANGED <<electionVars, logVars, commitVars, peerVars, diskVars, applying,
                       applies, submitVars, catchUp, compactions, faultVars, msgs>>

\* Mutant: a failed install is acknowledged.
ReplyInstalled(n, success) ==
    LET t == snapTask[n]
    IN  /\ msgs' = msgs \cup
               (IF t.conn THEN {SnapshotResponse(n, t.from, currentTerm[n], TRUE, t.snap.index)}
                          ELSE {})
        /\ snapTask' = [snapTask EXCEPT ![n] = Idle]

\* The reply to the leader that sent the snapshot being installed.
ReplyInstall(n, success) ==
    LET t == snapTask[n]
    IN  /\ msgs' = msgs \cup
               (IF t.conn THEN {SnapshotResponse(n, t.from, currentTerm[n], success, t.snap.index)}
                          ELSE {})
        /\ snapTask' = [snapTask EXCEPT ![n] = Idle]

\* Rename, memory update and WAL truncation.  The log is ordered by index,
\* so the entries above the snapshot are its tail.
InstallFinish(n) ==
    LET snap == snapTask[n].snap
        covered == {i \in 1 .. Len(log[n]) : log[n][i].index <= snap.index}
    IN  /\ snapTask[n].kind = "rename"
        /\ snapFile' = [snapFile EXCEPT ![n] = snap]
        /\ snapshotIndex' = [snapshotIndex EXCEPT ![n] = snap.index]
        /\ snapshotTerm' = [snapshotTerm EXCEPT ![n] = snap.term]
        /\ commitIndex' = [commitIndex EXCEPT ![n] = IF snap.index > @ THEN snap.index ELSE @]
        /\ lastApplied' = [lastApplied EXCEPT ![n] = IF snap.index > @ THEN snap.index ELSE @]
        /\ log' = [log EXCEPT ![n] = SubSeq(@, Cardinality(covered) + 1, Len(@))]
        /\ logOffset' = [logOffset EXCEPT ![n] = IF snap.index > @ THEN snap.index ELSE @]
        /\ wal' = [wal EXCEPT ![n] = TruncateBefore(@, snap.index + 1)]
        /\ ReplyInstall(n, TRUE)
        /\ UNCHANGED <<electionVars, peerVars, machineVars, submitVars, catchUp,
                       compactions, faultVars>>

\* The installer rejects the payload, or the rename fails.
InstallFail(n) ==
    /\ snapTask[n].kind \in {"decode", "rename"}
    /\ failures < MaxFailures
    /\ failures' = failures + 1
    /\ ReplyInstall(n, FALSE)
    /\ UNCHANGED <<electionVars, logVars, commitVars, peerVars, diskVars, machineVars,
                   submitVars, catchUp, compactions, restarts>>

\* exchangeSnapshotChunk and the bookkeeping at the end of SendInstallSnapshot.
HandleInstallSnapshotRes(m) ==
    LET n == m.to
        p == m.from
    IN  /\ Receive(m)
        /\ IF m.term > currentTerm[n] THEN StepDown(n, m.term) ELSE UNCHANGED electionVars
        /\ nextIndex' = IF m.success THEN [nextIndex EXCEPT ![n][p] = m.index + 1] ELSE nextIndex
        /\ matchIndex' = IF m.success THEN [matchIndex EXCEPT ![n][p] = m.index] ELSE matchIndex
        /\ UNCHANGED <<logVars, commitVars, diskVars, machineVars, submitVars, snapVars,
                       faultVars>>

-----------------------------------------------------------------------------
(* Restart: the process dies and Start runs LoadFromDisk. *)

Replay(n) == SelectSeq(wal[n], LAMBDA e : e.index > snapFile[n].index)

\* The highest term on disk; votedFor is not written anywhere.
RecoveredTerm(n) ==
    LET terms == {snapFile[n].term} \cup {Replay(n)[i].term : i \in 1 .. Len(Replay(n))}
    IN  CHOOSE t \in terms : \A u \in terms : u <= t

Restart(n) ==
    /\ restarts < MaxRestarts
    /\ restarts' = restarts + 1
    /\ state' = [state EXCEPT ![n] = "Follower"]
    /\ currentTerm' = [currentTerm EXCEPT ![n] = RecoveredTerm(n)]
    /\ votedFor' = [votedFor EXCEPT ![n] = Nobody]
    /\ votes' = [votes EXCEPT ![n] = {}]
    /\ log' = [log EXCEPT ![n] = Replay(n)]
    /\ logOffset' = [logOffset EXCEPT ![n] = snapFile[n].index]
    /\ snapshotIndex' = [snapshotIndex EXCEPT ![n] = snapFile[n].index]
    /\ snapshotTerm' = [snapshotTerm EXCEPT ![n] = snapFile[n].term]
    /\ commitIndex' = [commitIndex EXCEPT ![n] = snapFile[n].index]
    /\ lastApplied' = [lastApplied EXCEPT ![n] = snapFile[n].index]
    /\ nextIndex' = [nextIndex EXCEPT ![n] = [p \in Node |-> 0]]
    /\ matchIndex' = [matchIndex EXCEPT ![n] = [p \in Node |-> 0]]
    /\ applying' = [applying EXCEPT ![n] = Gone]
    /\ keys' = [keys EXCEPT ![n] = snapFile[n].data]
    /\ raftLastApplied' = [raftLastApplied EXCEPT ![n] = snapFile[n].index]
    /\ persisting' = [persisting EXCEPT ![n] = {}]
    /\ waiting' = [waiting EXCEPT ![n] = {}]
    /\ snapTask' = [p \in Node |->
           IF p = n THEN Idle
           ELSE IF snapTask[p].from = n THEN [snapTask[p] EXCEPT !.conn = FALSE]
           ELSE snapTask[p]]
    /\ catchUp' = [catchUp EXCEPT ![n] = {}]
    /\ msgs' = {m \in msgs : "conn" \in DOMAIN m /\ m.from # n}
                 \cup {[m EXCEPT !.conn = FALSE] :
                          m \in {m \in msgs : "conn" \in DOMAIN m /\ m.from = n}}
                 \cup {m \in msgs : "conn" \notin DOMAIN m /\ m.to # n}
    /\ UNCHANGED <<diskVars, acked, rejected, submits, applies, compactions, failures>>

-----------------------------------------------------------------------------

Init ==
    /\ state = [n \in Node |-> "Follower"]
    /\ currentTerm = [n \in Node |-> 0]
    /\ votedFor = [n \in Node |-> Nobody]
    /\ votes = [n \in Node |-> {}]
    /\ log = [n \in Node |-> <<>>]
    /\ logOffset = [n \in Node |-> 0]
    /\ snapshotIndex = [n \in Node |-> 0]
    /\ snapshotTerm = [n \in Node |-> 0]
    /\ commitIndex = [n \in Node |-> 0]
    /\ lastApplied = [n \in Node |-> 0]
    /\ nextIndex = [n \in Node |-> [p \in Node |-> 0]]
    /\ matchIndex = [n \in Node |-> [p \in Node |-> 0]]
    /\ wal = [n \in Node |-> <<>>]
    /\ snapFile = [n \in Node |-> NoSnapshot]
    /\ applying = [n \in Node |-> Gone]
    /\ keys = [n \in Node |-> {}]
    /\ raftLastApplied = [n \in Node |-> 0]
    /\ persisting = [n \in Node |-> {}]
    /\ waiting = [n \in Node |-> {}]
    /\ acked = {} /\ rejected = {}
    /\ snapTask = [n \in Node |-> Idle]
    /\ catchUp = [n \in Node |-> {}]
    /\ msgs = {}
    /\ submits = 0 /\ applies = 0 /\ failures = 0 /\ compactions = 0 /\ restarts = 0

Deliver(m) ==
    \/ m.type = "RequestVote" /\ HandleRequestVote(m)
    \/ m.type = "RequestVoteRes" /\ HandleRequestVoteRes(m)
    \/ m.type = "AppendEntries" /\ HandleAppendEntries(m)
    \/ m.type = "AppendEntriesRes" /\ HandleAppendEntriesRes(m)
    \/ m.type = "InstallSnapshot" /\ HandleInstallSnapshot(m)
    \/ m.type = "InstallSnapshotRes" /\ HandleInstallSnapshotRes(m)

NodeStep(n) ==
    \/ StartElection(n) \/ BecomeLeader(n)
    \/ SubmitPublish(n)
    \/ \E pub \in persisting[n] : SubmitPersisted(n, pub) \/ SubmitPersistFailed(n, pub)
    \/ \E entry \in waiting[n] : SubmitReturn(n, entry)
    \/ ApplyTake(n) \/ ApplyRun(n)
    \/ CompactSave(n) \/ CompactFinish(n)
    \/ InstallDecoded(n) \/ InstallFinish(n) \/ InstallFail(n)

PeerStep(n, p) ==
    SendAppendEntries(n, p) \/ StartCatchUp(n, p) \/ SendInstallSnapshot(n, p)

Next ==
    \/ \E n \in Node : NodeStep(n)
    \/ \E n \in Node : \E p \in Peers(n) : PeerStep(n, p)
    \/ \E m \in msgs : Deliver(m) \/ Drop(m)

\* A cluster whose processes keep running.
Spec == Init /\ [][Next]_vars

\* The same cluster with processes that die and come back.
CrashNext == Next \/ \E n \in Node : Restart(n)

CrashSpec == Init /\ [][CrashNext]_vars

=============================================================================
