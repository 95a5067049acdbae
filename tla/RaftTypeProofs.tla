--------------------------- MODULE RaftTypeProofs ---------------------------
(***************************************************************************)
(* The Raft node keeps its types, for clusters of every size and for every *)
(* value of the bounds, as long as no process restarts (Spec).             *)
(***************************************************************************)
EXTENDS RaftProperties, Integers, FiniteSetTheorems, SequenceTheorems, TLAPS

-----------------------------------------------------------------------------
(* Sequences and log accessors *)

\* A contiguous part of a sequence, empty or not, is a sequence over the same
\* set: every log and WAL rewrite of the node is one.
LEMMA SubSeqType ==
    ASSUME NEW S, NEW s \in Seq(S), NEW a \in Int, NEW b \in Int, a >= 1, b <= Len(s)
    PROVE  SubSeq(s, a, b) \in Seq(S)
<1>1. CASE a <= b
  BY <1>1, SubSeqProperties
<1>2. CASE a > b
  <2>1. SubSeq(s, a, b) = << >>
    BY <1>2
  <2> QED
    BY <2>1
<1> QED
  BY <1>1, <1>2

\* Where the entries of a concatenation come from.
LEMMA Joined ==
    ASSUME NEW S, NEW s \in Seq(S), NEW t \in Seq(S)
    PROVE  /\ \A i \in 1 .. Len(s) : i \in 1 .. Len(s \o t) /\ (s \o t)[i] = s[i]
           /\ \A i \in 1 .. Len(t) :
                  Len(s) + i \in 1 .. Len(s \o t) /\ (s \o t)[Len(s) + i] = t[i]
           /\ \A i \in 1 .. Len(s \o t) :
                  i \in 1 .. Len(s) \/ \E j \in 1 .. Len(t) : i = Len(s) + j
<1>1. Len(s) \in Nat /\ Len(t) \in Nat /\ Len(s \o t) = Len(s) + Len(t)
  OBVIOUS
<1>2. \A i \in 1 .. Len(s \o t) :
          i \in 1 .. Len(s) \/ (i - Len(s) \in 1 .. Len(t) /\ i = Len(s) + (i - Len(s)))
  BY <1>1
<1>3. \A i \in 1 .. Len(s) : i \in 1 .. Len(s \o t) /\ (s \o t)[i] = s[i]
  BY <1>1
<1>4. \A i \in 1 .. Len(t) : Len(s) + i \in 1 .. Len(s \o t) /\ (s \o t)[Len(s) + i] = t[i]
  BY <1>1
<1> QED
  BY <1>2, <1>3, <1>4, Zenon

\* The entries of a sequence without its first c.
LEMMA Rest ==
    ASSUME NEW S, NEW s \in Seq(S), NEW c \in Nat
    PROVE  \A i \in 1 .. Len(SubSeq(s, c + 1, Len(s))) :
               c + i \in 1 .. Len(s) /\ SubSeq(s, c + 1, Len(s))[i] = s[c + i]
<1>1. CASE c + 1 <= Len(s)
  BY <1>1, SubSeqProperties
<1>2. CASE c + 1 > Len(s)
  <2>1. SubSeq(s, c + 1, Len(s)) = << >>
    BY <1>2
  <2> QED
    BY <2>1
<1> QED
  BY <1>1, <1>2

\* Two parts that begin at the same place.
LEMMA SameStart ==
    ASSUME NEW S, NEW s \in Seq(S), NEW k \in Nat \ {0}, NEW j \in Nat, NEW w \in Nat,
           j <= w, w <= Len(s)
    PROVE  \A i \in 1 .. Len(SubSeq(s, k, j)) :
               i \in 1 .. Len(SubSeq(s, k, w)) /\ SubSeq(s, k, w)[i] = SubSeq(s, k, j)[i]
<1>1. CASE k <= j
  BY <1>1, SubSeqProperties
<1>2. CASE k > j
  <2>1. SubSeq(s, k, j) = << >>
    BY <1>2
  <2> QED
    BY <2>1
<1> QED
  BY <1>1, <1>2

\* filterRewrite returns records of the same type.
LEMMA TruncateType ==
    ASSUME NEW records \in Seq(Entry), NEW bound \in Nat
    PROVE  /\ TruncateAfter(records, bound) \in Seq(Entry)
           /\ TruncateBefore(records, bound) \in Seq(Entry)
<1>1. Gone \in Entry
  BY DEF Gone, Entry
<1>2. \A i \in 1 .. Len(records) : records[i] \in Entry
  OBVIOUS
<1>3. DOMAIN records = 1 .. Len(records) /\ Len(records) \in Nat
  OBVIOUS
<1>4. TruncateAfter(records, bound) \in [1 .. Len(records) -> Entry]
  BY <1>1, <1>2, <1>3 DEF TruncateAfter
<1>5. TruncateBefore(records, bound) \in [1 .. Len(records) -> Entry]
  BY <1>1, <1>2, <1>3 DEF TruncateBefore
<1> QED
  BY <1>3, <1>4, <1>5

\* The log accessors return indices and terms on well-typed states.
LEMMA AccessorTypes ==
    ASSUME TypeOK, NEW n \in Node
    PROVE  /\ LogLen(n) \in Nat
           /\ LastLogIndex(n) \in Nat
           /\ LastLogTerm(n) \in Nat
           /\ \A idx \in Nat : InWindow(n, idx) => EntryAt(n, idx) \in Entry
           /\ \A idx \in Nat : TermKnown(n, idx) => TermAt(n, idx) \in Nat
<1>1. log[n] \in Seq(Entry) /\ logOffset[n] \in Nat /\ snapshotIndex[n] \in Nat
        /\ snapshotTerm[n] \in Nat
  BY DEF TypeOK, LogTypes
<1>2. Len(log[n]) \in Nat /\ \A i \in 1 .. Len(log[n]) : log[n][i] \in Entry
  BY <1>1
<1>3. LogLen(n) \in Nat
  BY <1>1, <1>2 DEF LogLen
<1>4. LastLogIndex(n) \in Nat /\ LastLogTerm(n) \in Nat
  <2>1. CASE log[n] = << >>
    BY <1>1, <2>1 DEF LastLogIndex, LastLogTerm
  <2>2. CASE log[n] # << >>
    <3>1. log[n][Len(log[n])] \in Entry
      BY <1>1, <1>2, <2>2
    <3> QED
      BY <2>2, <3>1 DEF LastLogIndex, LastLogTerm, Entry
  <2> QED
    BY <2>1, <2>2
<1>5. ASSUME NEW idx \in Nat, InWindow(n, idx)
      PROVE  EntryAt(n, idx) \in Entry
  BY <1>1, <1>2, <1>5 DEF InWindow, EntryAt, LogLen
<1>6. ASSUME NEW idx \in Nat, TermKnown(n, idx)
      PROVE  TermAt(n, idx) \in Nat
  BY <1>1, <1>5, <1>6 DEF TermKnown, TermAt, Entry
<1> QED
  BY <1>3, <1>4, <1>5, <1>6

\* updateCommitIndex leaves an index in commitIndex.
LEMMA UpdateCommitIndexType ==
    ASSUME TypeOK, NEW n \in Node, NEW match, UpdateCommitIndex(n, match)
    PROVE  commitIndex' \in [Node -> Nat]
<1>0. LogLen(n) \in Nat
  BY AccessorTypes
<1>1. LogLen(n) \in Nat /\ commitIndex \in [Node -> Nat]
  BY <1>0 DEF TypeOK, CommitTypes
<1>2. Committable(n, match) \subseteq Nat
  BY <1>1 DEF Committable
<1>3. PICK c \in {commitIndex[n]} \cup Committable(n, match) :
            commitIndex' = [commitIndex EXCEPT ![n] = c]
  BY Zenon DEF UpdateCommitIndex
<1> QED
  BY <1>1, <1>2, <1>3

\* Adopting a term keeps the election variables well typed.
LEMMA AdoptTermType ==
    ASSUME TypeOK, NEW n \in Node, NEW term \in Nat,
           StepDown(n, term) \/ FollowLeader(n, term)
    PROVE  ElectionTypes'
<1>1. /\ state' = [state EXCEPT ![n] = "Follower"]
      /\ currentTerm' = [currentTerm EXCEPT ![n] = term]
      /\ votes' = [votes EXCEPT ![n] = {}]
  BY DEF StepDown, FollowLeader
<1>2. ElectionTypes
  BY DEF TypeOK
<1>3. votedFor' \in [Node -> Node \cup {Nobody}]
  BY <1>2 DEF ElectionTypes, StepDown, FollowLeader
<1>4. votes' \in [Node -> SUBSET Node]
  BY <1>1, <1>2, {} \in SUBSET Node, Zenon DEF ElectionTypes
<1> QED
  BY <1>1, <1>2, <1>3, <1>4 DEF ElectionTypes

-----------------------------------------------------------------------------
(* Type correctness *)

\* A leader's nextIndex is never 0, so that the subtraction in
\* appendEntriesSnapshot does not wrap around.
NextIndexPositive ==
    \A n, p \in Node : state[n] = "Leader" => nextIndex[n][p] >= 1

\* Whoever holds snapMu works on a snapshot that is not behind the node's own,
\* and CompactLog on one that is ahead of it.
SnapMuInvariant ==
    \A n \in Node :
        /\ logOffset[n] = snapshotIndex[n]
        /\ snapTask[n].kind # "idle" => snapTask[n].snap.index >= snapshotIndex[n]
        /\ snapTask[n].kind \in {"decode", "rename"} => snapTask[n].from \in Node
        /\ snapTask[n].kind = "compact" => snapTask[n].snap.index > snapshotIndex[n]

TypeInv == TypeOK /\ NextIndexPositive /\ SnapMuInvariant

\* A message of each kind has the fields of its kind.
LEMMA MessageKinds ==
    ASSUME NEW m \in Message
    PROVE  /\ m.type = "RequestVote" => m \in RequestVote
           /\ m.type = "RequestVoteRes" => m \in RequestVoteRes
           /\ m.type = "AppendEntries" => m \in AppendEntries
           /\ m.type = "AppendEntriesRes" => m \in AppendEntriesRes
           /\ m.type = "InstallSnapshot" => m \in InstallSnapshot
           /\ m.type = "InstallSnapshotRes" => m \in InstallSnapshotRes
<1>1. /\ \A x \in RequestVote : x.type = "RequestVote"
      /\ \A x \in RequestVoteRes : x.type = "RequestVoteRes"
      /\ \A x \in AppendEntries : x.type = "AppendEntries"
      /\ \A x \in AppendEntriesRes : x.type = "AppendEntriesRes"
      /\ \A x \in InstallSnapshot : x.type = "InstallSnapshot"
      /\ \A x \in InstallSnapshotRes : x.type = "InstallSnapshotRes"
  BY DEF RequestVote, RequestVoteRes, AppendEntries, AppendEntriesRes, InstallSnapshot,
         InstallSnapshotRes
<1>2. m.type = "RequestVote" => m \in RequestVote
  BY <1>1 DEF Message
<1>3. m.type = "RequestVoteRes" => m \in RequestVoteRes
  BY <1>1 DEF Message
<1>4. m.type = "AppendEntries" => m \in AppendEntries
  BY <1>1 DEF Message
<1>5. m.type = "AppendEntriesRes" => m \in AppendEntriesRes
  BY <1>1 DEF Message
<1>6. m.type = "InstallSnapshot" => m \in InstallSnapshot
  BY <1>1 DEF Message
<1>7. m.type = "InstallSnapshotRes" => m \in InstallSnapshotRes
  BY <1>1 DEF Message
<1> QED
  BY <1>2, <1>3, <1>4, <1>5, <1>6, <1>7


\* A group of variables that a step leaves alone keeps its types.
LEMMA FrameTypes ==
    ASSUME TypeOK
    PROVE  /\ UNCHANGED electionVars => ElectionTypes'
           /\ UNCHANGED logVars => LogTypes'
           /\ UNCHANGED commitVars => CommitTypes'
           /\ UNCHANGED peerVars => PeerTypes'
           /\ UNCHANGED diskVars => DiskTypes'
           /\ UNCHANGED machineVars => MachineTypes'
           /\ UNCHANGED submitVars => SubmitTypes'
           /\ UNCHANGED snapVars => SnapTypes'
           /\ UNCHANGED faultVars => FaultTypes'
           /\ UNCHANGED msgs => msgs' \subseteq Message
<1>1. UNCHANGED electionVars => ElectionTypes'
  BY DEF TypeOK, electionVars, ElectionTypes
<1>2. UNCHANGED logVars => LogTypes'
  BY DEF TypeOK, logVars, LogTypes
<1>3. UNCHANGED commitVars => CommitTypes'
  BY DEF TypeOK, commitVars, CommitTypes
<1>4. UNCHANGED peerVars => PeerTypes'
  BY DEF TypeOK, peerVars, PeerTypes
<1>5. UNCHANGED diskVars => DiskTypes'
  BY DEF TypeOK, diskVars, DiskTypes
<1>6. UNCHANGED machineVars => MachineTypes'
  BY DEF TypeOK, machineVars, MachineTypes
<1>7. UNCHANGED submitVars => SubmitTypes'
  BY DEF TypeOK, submitVars, SubmitTypes
<1>8. UNCHANGED snapVars => SnapTypes'
  BY DEF TypeOK, snapVars, SnapTypes
<1>9. UNCHANGED faultVars => FaultTypes'
  BY DEF TypeOK, faultVars, FaultTypes
<1>10. UNCHANGED msgs => msgs' \subseteq Message
  BY DEF TypeOK
<1> QED
  BY <1>1, <1>2, <1>3, <1>4, <1>5, <1>6, <1>7, <1>8, <1>9, <1>10

\* startElection keeps the types.
LEMMA StartElectionType ==
    ASSUME TypeOK, NEW n \in Node, StartElection(n)
    PROVE  TypeOK'
<1>1. ElectionTypes'
  BY DEF TypeOK, ElectionTypes, StartElection
<1>2. msgs' \subseteq Message
  <2>1. LastLogIndex(n) \in Nat /\ LastLogTerm(n) \in Nat
    BY AccessorTypes
  <2>2. currentTerm[n] + 1 \in Nat
    BY DEF TypeOK, ElectionTypes
  <2>3. ASSUME NEW p \in Peers(n)
        PROVE  [type |-> "RequestVote", from |-> n, to |-> p, term |-> currentTerm[n] + 1,
                lastLogIndex |-> LastLogIndex(n), lastLogTerm |-> LastLogTerm(n),
                conn |-> TRUE] \in RequestVote
    BY <2>1, <2>2 DEF RequestVote, Peers
  <2>4. msgs' = msgs \cup
            {[type |-> "RequestVote", from |-> n, to |-> p, term |-> currentTerm[n] + 1,
              lastLogIndex |-> LastLogIndex(n), lastLogTerm |-> LastLogTerm(n),
              conn |-> TRUE] : p \in Peers(n)}
    BY DEF StartElection
  <2>5. msgs \subseteq Message /\ RequestVote \subseteq Message
    BY DEF TypeOK, Message
  <2> QED
    BY <2>3, <2>4, <2>5, Zenon
<1> QED
  BY <1>1, <1>2, FrameTypes DEF TypeOK, StartElection

\* The network operators put only well-typed messages in flight.
LEMMA NetworkTypes ==
    ASSUME TypeOK, NEW m, NEW response \in Message,
           Send(response) \/ Receive(m) \/ Reply(m, response)
    PROVE  msgs' \subseteq Message
BY DEF TypeOK, Send, Receive, Reply

\* Elections keep the types.
LEMMA HandleRequestVoteType ==
    ASSUME TypeOK, NEW m \in RequestVote, HandleRequestVote(m)
    PROVE  TypeOK'
<1>1. m.to \in Node /\ m.from \in Node /\ m.term \in Nat
  BY DEF RequestVote
<1>2. ElectionTypes
  BY DEF TypeOK
<1>3. state' \in [Node -> {"Follower", "Candidate", "Leader"}] /\ currentTerm' \in [Node -> Nat]
  BY <1>1, <1>2 DEF ElectionTypes, HandleRequestVote
<1>4. votes' \in [Node -> SUBSET Node]
  BY <1>1, <1>2 DEF ElectionTypes, HandleRequestVote
<1>5. votedFor' \in [Node -> Node \cup {Nobody}]
  BY <1>1, <1>2 DEF ElectionTypes, HandleRequestVote
<1>6. PICK g \in BOOLEAN : Reply(m, VoteResponse(m, currentTerm'[m.to], g))
  BY Zenon DEF HandleRequestVote
<1>7. VoteResponse(m, currentTerm'[m.to], g) \in Message
  BY <1>1, <1>3 DEF VoteResponse, Message, RequestVoteRes
<1>8. msgs' \subseteq Message
  BY <1>6, <1>7, NetworkTypes
<1> QED
  BY <1>3, <1>4, <1>5, <1>8, FrameTypes DEF TypeOK, ElectionTypes, HandleRequestVote

\* Counting a vote keeps the types.
LEMMA HandleRequestVoteResType ==
    ASSUME TypeOK, NEW m \in RequestVoteRes, HandleRequestVoteRes(m)
    PROVE  TypeOK'
<1>1. m.to \in Node /\ m.from \in Node /\ m.term \in Nat /\ m \in Message
  BY DEF RequestVoteRes, Message
<1>2. ElectionTypes'
  <2>1. CASE StepDown(m.to, m.term)
    BY <1>1, <2>1, AdoptTermType
  <2>2. CASE ~StepDown(m.to, m.term)
    <3>1. UNCHANGED <<state, currentTerm, votedFor>>
            /\ votes' \in {votes, [votes EXCEPT ![m.to] = @ \cup {m.from}]}
      BY <1>1, <2>2 DEF HandleRequestVoteRes, TypeOK, ElectionTypes
    <3> QED
      BY <1>1, <3>1 DEF TypeOK, ElectionTypes
  <2> QED
    BY <2>1, <2>2
<1>3. msgs' \subseteq Message
  BY <1>1, NetworkTypes DEF HandleRequestVoteRes
<1> QED
  BY <1>2, <1>3, FrameTypes DEF TypeOK, HandleRequestVoteRes

\* becomeLeader keeps the types.
LEMMA BecomeLeaderType ==
    ASSUME TypeOK, NEW n \in Node, BecomeLeader(n)
    PROVE  TypeOK'
<1>1. LogLen(n) + 1 \in Nat
  BY AccessorTypes
<1>2. ElectionTypes'
  BY DEF TypeOK, ElectionTypes, BecomeLeader
<1>3. PeerTypes'
  BY <1>1 DEF TypeOK, PeerTypes, BecomeLeader
<1> QED
  BY <1>2, <1>3, FrameTypes DEF TypeOK, BecomeLeader

\* The four steps of Submit keep the types.
LEMMA SubmitPublishType ==
    ASSUME TypeOK, NEW n \in Node, SubmitPublish(n)
    PROVE  TypeOK'
<1> DEFINE entry == [index |-> LogLen(n) + 1, term |-> currentTerm[n], cmd |-> submits + 1]
<1>1. LogLen(n) + 1 \in Nat
  BY AccessorTypes
<1>2. entry \in Entry
  BY <1>1 DEF Entry, TypeOK, ElectionTypes, SubmitTypes
<1>3. log' = [log EXCEPT ![n] = Append(@, entry)]
        /\ persisting' = [persisting EXCEPT ![n] =
               @ \cup {[entry |-> entry, publishedLen |-> Len(log[n]) + 1]}]
  BY Zenon DEF SubmitPublish
<1> HIDE DEF entry
<1>4. LogTypes'
  <2>1. log \in [Node -> Seq(Entry)] /\ Append(log[n], entry) \in Seq(Entry)
    BY <1>2 DEF TypeOK, LogTypes
  <2>2. log' \in [Node -> Seq(Entry)]
    BY <1>3, <2>1
  <2>3. UNCHANGED <<logOffset, snapshotIndex, snapshotTerm>>
    BY Zenon DEF SubmitPublish
  <2> QED
    BY <2>2, <2>3 DEF TypeOK, LogTypes
<1>5. [entry |-> entry, publishedLen |-> Len(log[n]) + 1] \in Publication
  BY <1>2 DEF Publication, TypeOK, LogTypes
<1>6. persisting' \in [Node -> SUBSET Publication]
  BY <1>3, <1>5 DEF TypeOK, SubmitTypes
<1>7. SubmitTypes'
  <2>1. submits' = submits + 1 /\ UNCHANGED <<waiting, acked, rejected>>
    BY Zenon DEF SubmitPublish
  <2> QED
    BY <1>6, <2>1 DEF TypeOK, SubmitTypes
<1> QED
  BY <1>4, <1>7, FrameTypes DEF TypeOK, SubmitPublish

\* Submit after a successful persistEntry keeps the types.
LEMMA SubmitPersistedType ==
    ASSUME TypeOK, NEW n \in Node, NEW pub \in persisting[n], SubmitPersisted(n, pub)
    PROVE  TypeOK'
<1>1. pub \in Publication
  BY DEF TypeOK, SubmitTypes
<1>2. pub.entry \in Entry
  BY <1>1 DEF Publication
<1>3. DiskTypes'
  <2>1. wal' = [wal EXCEPT ![n] = Append(@, pub.entry)] /\ UNCHANGED snapFile
    BY Zenon DEF SubmitPersisted
  <2>2. wal \in [Node -> Seq(Entry)] /\ Append(wal[n], pub.entry) \in Seq(Entry)
    BY <1>2 DEF TypeOK, DiskTypes
  <2>3. wal' \in [Node -> Seq(Entry)]
    BY <2>1, <2>2
  <2> QED
    BY <2>1, <2>3 DEF TypeOK, DiskTypes
<1>4. persisting' \in [Node -> SUBSET Publication]
  BY DEF TypeOK, SubmitTypes, SubmitPersisted
<1>5. waiting' \in [Node -> SUBSET Entry]
  BY <1>2 DEF TypeOK, SubmitTypes, SubmitPersisted
<1>6. SubmitTypes'
  BY <1>4, <1>5 DEF TypeOK, SubmitTypes, SubmitPersisted
<1>7. commitIndex' \in [Node -> Nat]
  BY UpdateCommitIndexType DEF SubmitPersisted
<1>8. CommitTypes'
  BY <1>7 DEF TypeOK, CommitTypes, SubmitPersisted
<1> QED
  BY <1>3, <1>6, <1>8, FrameTypes DEF TypeOK, SubmitPersisted

\* Submit after a failed persistEntry keeps the types: the roll-back stays a log.
LEMMA SubmitPersistFailedType ==
    ASSUME TypeOK, NEW n \in Node, NEW pub \in persisting[n], SubmitPersistFailed(n, pub)
    PROVE  TypeOK'
<1>1. pub \in Publication
  BY DEF TypeOK, SubmitTypes
<1>2. pub.entry \in Entry
  BY <1>1 DEF Publication
<1>3. DiskTypes'
  <2>1. wal' \in {wal, [wal EXCEPT ![n] = Append(@, pub.entry)]} /\ snapFile' = snapFile
    BY DEF SubmitPersistFailed
  <2>2. wal \in [Node -> Seq(Entry)] /\ snapFile \in [Node -> Snapshot]
    BY DEF TypeOK, DiskTypes
  <2>3. [wal EXCEPT ![n] = Append(@, pub.entry)] \in [Node -> Seq(Entry)]
    BY <1>2, <2>2
  <2> QED
    BY <2>1, <2>2, <2>3, Zenon DEF DiskTypes
<1>4. log[n] \in Seq(Entry) /\ Len(log[n]) \in Nat
  BY DEF TypeOK, LogTypes
<1>5. SubSeq(log[n], 1, Len(log[n]) - 1) \in Seq(Entry)
  BY <1>4, SubSeqType
<1>6. LogTypes'
  BY <1>4, <1>5 DEF TypeOK, LogTypes, SubmitPersistFailed
<1>7. persisting' \in [Node -> SUBSET Publication]
  BY DEF TypeOK, SubmitTypes, SubmitPersistFailed
<1>8. SubmitTypes'
  BY <1>2, <1>7, Zenon DEF TypeOK, SubmitTypes, SubmitPersistFailed, Entry
<1>9. FaultTypes'
  BY DEF TypeOK, FaultTypes, SubmitPersistFailed
<1> QED
  BY <1>3, <1>6, <1>8, <1>9, FrameTypes DEF TypeOK, SubmitPersistFailed

\* The return of Submit keeps the types.
LEMMA SubmitReturnType ==
    ASSUME TypeOK, NEW n \in Node, NEW entry \in waiting[n], SubmitReturn(n, entry)
    PROVE  TypeOK'
<1>1. entry.cmd \in Nat
  BY DEF TypeOK, SubmitTypes, Entry
<1>2. waiting' \in [Node -> SUBSET Entry]
  BY DEF TypeOK, SubmitTypes, SubmitReturn
<1>3. SubmitTypes'
  BY <1>1, <1>2, Zenon DEF TypeOK, SubmitTypes, SubmitReturn
<1> QED
  BY <1>3, FrameTypes DEF TypeOK, SubmitReturn

\* AppendEntries requests, their four outcomes and their replies keep the
\* types; composing one needs nextIndex >= 1.
LEMMA SendAppendEntriesType ==
    ASSUME TypeOK, NextIndexPositive, NEW n \in Node, NEW p \in Peers(n),
           SendAppendEntries(n, p)
    PROVE  TypeOK'
<1> DEFINE prev == nextIndex[n][p] - 1
           tail == IF InWindow(n, prev + 1)
                   THEN SubSeq(log[n], prev + 1 - logOffset[n], Len(log[n])) ELSE <<>>
           m == [type |-> "AppendEntries", from |-> n, to |-> p, term |-> currentTerm[n],
                 prevLogIndex |-> prev,
                 prevLogTerm |-> IF TermKnown(n, prev) THEN TermAt(n, prev) ELSE 0,
                 entries |-> tail, leaderCommit |-> commitIndex[n], conn |-> TRUE]
<1>1. p \in Node
  BY DEF Peers
<1>2. prev \in Nat
  <2>1. state[n] = "Leader"
    BY Zenon DEF SendAppendEntries
  <2>2. nextIndex[n][p] \in Nat
    BY <1>1 DEF TypeOK, PeerTypes
  <2> QED
    BY <1>1, <2>1, <2>2 DEF NextIndexPositive
<1>3. log[n] \in Seq(Entry) /\ Len(log[n]) \in Nat /\ logOffset[n] \in Nat
  BY DEF TypeOK, LogTypes
<1>4. tail \in Seq(Entry)
  <2>1. CASE InWindow(n, prev + 1)
    <3>1. prev + 1 - logOffset[n] >= 1
      BY <1>2, <1>3, <2>1 DEF InWindow
    <3>2. SubSeq(log[n], prev + 1 - logOffset[n], Len(log[n])) \in Seq(Entry)
      BY <1>2, <1>3, <3>1, SubSeqType
    <3> QED
      BY <2>1, <3>2
  <2>2. CASE ~InWindow(n, prev + 1)
    BY <2>2
  <2> QED
    BY <2>1, <2>2
<1>5. (IF TermKnown(n, prev) THEN TermAt(n, prev) ELSE 0) \in Nat
  BY <1>2, AccessorTypes
<1>6. currentTerm[n] \in Nat /\ commitIndex[n] \in Nat
  BY DEF TypeOK, ElectionTypes, CommitTypes
<1>7. Send(m)
  BY Zenon DEF SendAppendEntries
<1> HIDE DEF prev, tail
<1>8. m \in Message
  BY <1>1, <1>2, <1>4, <1>5, <1>6, Zenon DEF Message, AppendEntries
<1> HIDE DEF m
<1>9. msgs' \subseteq Message
  BY <1>7, <1>8, NetworkTypes
<1> QED
  BY <1>9, FrameTypes DEF TypeOK, SendAppendEntries

\* The reply to AppendEntries is a message.
LEMMA AppendResponseType ==
    ASSUME NEW m \in AppendEntries, NEW term \in Nat, NEW success \in BOOLEAN
    PROVE  AppendResponse(m, term, success) \in Message
<1>1. m.to \in Node /\ m.from \in Node /\ m.term \in Nat /\ m.prevLogIndex \in Nat
        /\ m.entries \in Seq(Entry)
  BY DEF AppendEntries
<1>2. m.prevLogIndex + 1 \in Nat \ {0} /\ Len(m.entries) \in Nat
  BY <1>1
<1> QED
  BY <1>1, <1>2 DEF AppendResponse, Message, AppendEntriesRes

\* A rejected AppendEntries keeps the types.
LEMMA RejectAppendType ==
    ASSUME TypeOK, NEW m \in AppendEntries, RejectStaleAppend(m) \/ RejectPrevLog(m)
    PROVE  TypeOK'
<1>1. m.to \in Node /\ m.term \in Nat
  BY DEF AppendEntries
<1>2. currentTerm[m.to] \in Nat
  BY <1>1 DEF TypeOK, ElectionTypes
<1>3. AppendResponse(m, currentTerm[m.to], FALSE) \in Message
  BY <1>2, AppendResponseType, Zenon
<1>4. msgs' \subseteq Message
  BY <1>3, NetworkTypes, Zenon DEF RejectStaleAppend, RejectPrevLog
<1>5. CASE RejectStaleAppend(m)
  BY <1>4, <1>5, FrameTypes, Zenon DEF TypeOK, RejectStaleAppend
<1>6. CASE RejectPrevLog(m)
  <2>1. ElectionTypes'
    BY <1>1, <1>6, AdoptTermType, Zenon DEF RejectPrevLog
  <2> QED
    BY <1>4, <1>6, <2>1, FrameTypes, Zenon DEF TypeOK, RejectPrevLog
<1> QED
  BY <1>5, <1>6

\* Whatever the request replaces, the log and the WAL stay sequences of entries.
LEMMA KeptTypes ==
    ASSUME TypeOK, NEW m \in AppendEntries, NEW k \in 1 .. Len(m.entries) + 1
    PROVE  /\ KeptLog(m.to, m, k) \in Seq(Entry)
           /\ KeptWal(m.to, m, k) \in Seq(Entry)
<1> DEFINE n == m.to
<1>1. n \in Node /\ m.prevLogIndex \in Nat /\ m.entries \in Seq(Entry) /\ Len(m.entries) \in Nat
  BY DEF AppendEntries
<1>2. log[n] \in Seq(Entry) /\ Len(log[n]) \in Nat /\ logOffset[n] \in Nat /\ wal[n] \in Seq(Entry)
  BY <1>1 DEF TypeOK, LogTypes, DiskTypes
<1>3. CASE Conflicts(n, m, k)
  <2>1. m.prevLogIndex + k - 1 \in Nat
    BY <1>1
  <2>2. m.prevLogIndex + k - 1 - logOffset[n] <= Len(log[n])
    BY <1>1, <1>2, <1>3 DEF Conflicts, InWindow, LogLen
  <2>3. SubSeq(log[n], 1, m.prevLogIndex + k - 1 - logOffset[n]) \in Seq(Entry)
    <3>1. \A b \in Int : b <= Len(log[n]) => SubSeq(log[n], 1, b) \in Seq(Entry)
      BY <1>2, SubSeqType
    <3>2. m.prevLogIndex + k - 1 - logOffset[n] \in Int
      BY <1>1, <1>2
    <3> QED
      BY <2>2, <3>1, <3>2
  <2>4. TruncateAfter(wal[n], m.prevLogIndex + k - 1) \in Seq(Entry)
    BY <1>2, <2>1, TruncateType
  <2> QED
    BY <1>3, <2>3, <2>4 DEF KeptLog, KeptWal
<1>4. CASE ~Conflicts(n, m, k)
  BY <1>2, <1>4 DEF KeptLog, KeptWal
<1> QED
  BY <1>3, <1>4

\* An accepted AppendEntries keeps the types.
LEMMA AcceptAppendType ==
    ASSUME TypeOK, NEW m \in AppendEntries, AcceptAppend(m)
    PROVE  TypeOK'
<1>1. m.to \in Node /\ m.term \in Nat /\ m.prevLogIndex \in Nat /\ m.leaderCommit \in Nat
        /\ m.entries \in Seq(Entry) /\ Len(m.entries) \in Nat
  BY DEF AppendEntries
<1>2. ElectionTypes'
  BY <1>1, AdoptTermType, Zenon DEF AcceptAppend
<1>3. PICK k \in 1 .. Len(m.entries) + 1 :
        /\ log' = [log EXCEPT ![m.to] =
               KeptLog(m.to, m, k) \o SubSeq(m.entries, k, Len(m.entries))]
        /\ wal' = [wal EXCEPT ![m.to] =
               Persist(KeptWal(m.to, m, k), SubSeq(m.entries, k, Len(m.entries)))]
  BY Zenon DEF AcceptAppend
<1>4. SubSeq(m.entries, k, Len(m.entries)) \in Seq(Entry)
  BY <1>1, SubSeqType
<1>5. KeptLog(m.to, m, k) \in Seq(Entry) /\ KeptWal(m.to, m, k) \in Seq(Entry)
  BY KeptTypes
<1>6. KeptLog(m.to, m, k) \o SubSeq(m.entries, k, Len(m.entries)) \in Seq(Entry)
  BY <1>4, <1>5
<1>7. Persist(KeptWal(m.to, m, k), SubSeq(m.entries, k, Len(m.entries))) \in Seq(Entry)
  BY <1>4, <1>5 DEF Persist
<1>8. LogTypes'
  BY <1>3, <1>6, Zenon DEF TypeOK, LogTypes, AcceptAppend
<1>9. DiskTypes'
  BY <1>3, <1>7, Zenon DEF TypeOK, DiskTypes, AcceptAppend
<1>10. CommitTypes'
  <2>1. FollowerCommit(commitIndex[m.to], m.leaderCommit, m.prevLogIndex + Len(m.entries)) \in Nat
    BY <1>1 DEF FollowerCommit, TypeOK, CommitTypes
  <2>2. commitIndex' = [commitIndex EXCEPT ![m.to] =
            FollowerCommit(@, m.leaderCommit, m.prevLogIndex + Len(m.entries))]
    BY Zenon DEF AcceptAppend
  <2> QED
    BY <1>1, <2>1, <2>2, Zenon DEF TypeOK, CommitTypes, AcceptAppend
<1>11. msgs' \subseteq Message
  BY <1>1, AppendResponseType, NetworkTypes, Zenon DEF AcceptAppend
<1> QED
  BY <1>2, <1>8, <1>9, <1>10, <1>11, FrameTypes, Zenon DEF TypeOK, AcceptAppend

\* An AppendEntries that fails on the disk keeps the types.
LEMMA FailAppendType ==
    ASSUME TypeOK, NEW m \in AppendEntries, FailAppend(m)
    PROVE  TypeOK'
<1>1. m.to \in Node /\ m.term \in Nat /\ m.entries \in Seq(Entry) /\ Len(m.entries) \in Nat
  BY DEF AppendEntries
<1>2. ElectionTypes'
  BY <1>1, AdoptTermType, Zenon DEF FailAppend
<1>3. PICK k \in 1 .. Len(m.entries) :
        \/ log' = [log EXCEPT ![m.to] = KeptLog(m.to, m, k)] /\ wal' = wal
        \/ \E f \in k .. Len(m.entries) : \E w \in {f - 1, f} :
              /\ log' = [log EXCEPT ![m.to] =
                     KeptLog(m.to, m, k) \o SubSeq(m.entries, k, f - 1)]
              /\ wal' = [wal EXCEPT ![m.to] =
                     Persist(KeptWal(m.to, m, k), SubSeq(m.entries, k, w))]
  BY Zenon DEF FailAppend, HeldBefore
<1>4. KeptLog(m.to, m, k) \in Seq(Entry) /\ KeptWal(m.to, m, k) \in Seq(Entry)
  BY <1>1, KeptTypes
<1>5. log' \in [Node -> Seq(Entry)] /\ wal' \in [Node -> Seq(Entry)]
  <2>1. CASE log' = [log EXCEPT ![m.to] = KeptLog(m.to, m, k)] /\ wal' = wal
    BY <1>4, <2>1, Zenon DEF TypeOK, LogTypes, DiskTypes
  <2>2. ASSUME NEW f \in k .. Len(m.entries), NEW w \in {f - 1, f},
               log' = [log EXCEPT ![m.to] =
                   KeptLog(m.to, m, k) \o SubSeq(m.entries, k, f - 1)],
               wal' = [wal EXCEPT ![m.to] =
                   Persist(KeptWal(m.to, m, k), SubSeq(m.entries, k, w))]
        PROVE  log' \in [Node -> Seq(Entry)] /\ wal' \in [Node -> Seq(Entry)]
    <3>1. SubSeq(m.entries, k, f - 1) \in Seq(Entry) /\ SubSeq(m.entries, k, w) \in Seq(Entry)
      BY <1>1, SubSeqType
    <3>2. KeptLog(m.to, m, k) \o SubSeq(m.entries, k, f - 1) \in Seq(Entry)
      BY <1>4, <3>1
    <3>3. Persist(KeptWal(m.to, m, k), SubSeq(m.entries, k, w)) \in Seq(Entry)
      BY <1>4, <3>1 DEF Persist
    <3> QED
      BY <2>2, <3>2, <3>3, Zenon DEF TypeOK, LogTypes, DiskTypes
  <2> QED
    BY <1>3, <2>1, <2>2, Zenon
<1>6. LogTypes' /\ DiskTypes'
  BY <1>5, Zenon DEF TypeOK, LogTypes, DiskTypes, FailAppend
<1>7. FaultTypes'
  <2>1. failures' = failures + 1 /\ UNCHANGED restarts
    BY Zenon DEF FailAppend
  <2> QED
    BY <2>1 DEF TypeOK, FaultTypes
<1>8. msgs' \subseteq Message
  <2>1. currentTerm[m.to] \in Nat
    BY <1>1 DEF TypeOK, ElectionTypes
  <2> QED
    BY <2>1, AppendResponseType, NetworkTypes, Zenon DEF FailAppend
<1> QED
  BY <1>2, <1>6, <1>7, <1>8, FrameTypes, Zenon DEF TypeOK, FailAppend

\* Bookkeeping of a reply keeps the types.
LEMMA HandleAppendEntriesResType ==
    ASSUME TypeOK, NEW m \in AppendEntriesRes, HandleAppendEntriesRes(m)
    PROVE  TypeOK'
<1> DEFINE n == m.to
           p == m.from
           match == [matchIndex[n] EXCEPT ![p] = MatchAfter(m.nextIdx, m.count)]
<1>1. n \in Node /\ p \in Node /\ m.term \in Nat /\ m.nextIdx \in Nat \ {0} /\ m.count \in Nat
  BY DEF AppendEntriesRes
<1>2. msgs' \subseteq Message
  <2>1. m \in Message
    BY DEF Message
  <2> QED
    BY <2>1, NetworkTypes DEF HandleAppendEntriesRes
<1>3. nextIndex \in [Node -> [Node -> Nat]] /\ matchIndex \in [Node -> [Node -> Nat]]
  BY DEF TypeOK, PeerTypes
<1>4. CASE StepDown(n, m.term) /\ UNCHANGED <<commitVars, peerVars>>
  <2>1. ElectionTypes'
    BY <1>1, <1>4, AdoptTermType
  <2> QED
    BY <1>2, <1>4, <2>1, FrameTypes DEF TypeOK, HandleAppendEntriesRes
<1>5. CASE UNCHANGED <<electionVars, commitVars, peerVars>>
  BY <1>2, <1>5, FrameTypes DEF TypeOK, HandleAppendEntriesRes
<1>6. CASE /\ nextIndex' = [nextIndex EXCEPT ![n][p] = m.nextIdx + m.count]
           /\ matchIndex' = [matchIndex EXCEPT ![n] = match]
           /\ UpdateCommitIndex(n, match)
           /\ UNCHANGED <<electionVars, lastApplied>>
  <2>1. MatchAfter(m.nextIdx, m.count) \in Nat /\ m.nextIdx + m.count \in Nat
    BY <1>1 DEF MatchAfter
  <2>2. match \in [Node -> Nat]
    BY <1>1, <1>3, <2>1
  <2> HIDE DEF match
  <2>3. PeerTypes'
    BY <1>1, <1>3, <1>6, <2>1, <2>2, Zenon DEF PeerTypes
  <2>4. CommitTypes'
    BY <1>1, <1>6, UpdateCommitIndexType DEF TypeOK, CommitTypes
  <2> QED
    BY <1>2, <1>6, <2>3, <2>4, FrameTypes DEF TypeOK, HandleAppendEntriesRes
<1>7. CASE /\ nextIndex' = [nextIndex EXCEPT ![n][p] = BackOff(@)]
           /\ UNCHANGED <<electionVars, commitVars, matchIndex>>
  <2>1. BackOff(nextIndex[n][p]) \in Nat
    <3> DEFINE k == nextIndex[n][p]
    <3>1. k \in Nat
      BY <1>1, <1>3, Zenon
    <3> HIDE DEF k
    <3>2. BackOff(k) \in Nat
      BY ONLY <3>1 DEF BackOff
    <3> QED
      BY <3>2, Zenon DEF k
  <2>2. PeerTypes'
    BY <1>1, <1>3, <1>7, <2>1 DEF PeerTypes
  <2> QED
    BY <1>2, <1>7, <2>2, FrameTypes DEF TypeOK, HandleAppendEntriesRes
<1> QED
  BY <1>4, <1>5, <1>6, <1>7 DEF HandleAppendEntriesRes

-----------------------------------------------------------------------------
(* The apply loop, snapshots and the rest of the node *)

\* The apply loop keeps the types.
LEMMA ApplyType ==
    ASSUME TypeOK, NEW n \in Node, ApplyTake(n) \/ ApplyRun(n)
    PROVE  TypeOK'
<1>1. CASE ApplyTake(n)
  <2>1. lastApplied[n] + 1 \in Nat
    BY DEF TypeOK, CommitTypes
  <2>2. (IF InWindow(n, lastApplied[n] + 1) THEN EntryAt(n, lastApplied[n] + 1) ELSE Gone)
            \in Entry
    <3>1. Gone \in Entry
      BY DEF Gone, Entry
    <3> QED
      BY <2>1, <3>1, AccessorTypes
  <2>3. CommitTypes'
    <3>1. lastApplied' = [lastApplied EXCEPT ![n] = @ + 1] /\ UNCHANGED commitIndex
      BY <1>1, Zenon DEF ApplyTake
    <3> QED
      BY <3>1 DEF TypeOK, CommitTypes
  <2>4. MachineTypes'
    BY <1>1, <2>2 DEF TypeOK, MachineTypes, ApplyTake
  <2> QED
    BY <1>1, <2>3, <2>4, FrameTypes DEF TypeOK, ApplyTake
<1>2. CASE ApplyRun(n)
  <2>1. applying[n] \in Entry /\ Gone \in Entry
    BY DEF TypeOK, MachineTypes, Gone, Entry
  <2>2. applying[n].cmd \in Nat /\ applying[n].index \in Nat
    BY <2>1 DEF Entry
  <2>3. keys' \in [Node -> SUBSET Nat]
    BY <1>2, <2>2 DEF TypeOK, MachineTypes, ApplyRun
  <2>4. MachineTypes'
    BY <1>2, <2>1, <2>2, <2>3 DEF TypeOK, MachineTypes, ApplyRun
  <2> QED
    BY <1>2, <2>4, FrameTypes DEF TypeOK, ApplyRun
<1> QED
  BY <1>1, <1>2

\* Compaction keeps the types; dropping the prefix needs SnapMuInvariant.
LEMMA CompactType ==
    ASSUME TypeOK, SnapMuInvariant, NEW n \in Node, CompactSave(n) \/ CompactFinish(n)
    PROVE  TypeOK'
<1>1. Idle \in SnapTask /\ NoSnapshot \in Snapshot
  BY DEF Idle, NoSnapshot, Snapshot, SnapTask
<1>2. CASE CompactSave(n)
  <2> DEFINE idx == raftLastApplied[n]
             snap == [index |-> idx, term |-> TermAt(n, idx), data |-> keys[n]]
  <2>1. idx \in Nat /\ keys[n] \in SUBSET Nat
    BY DEF TypeOK, MachineTypes
  <2>2. TermAt(n, idx) \in Nat
    BY <1>2, <2>1, AccessorTypes DEF CompactSave, Compactable
  <2>3. snap \in Snapshot
    BY <2>1, <2>2 DEF Snapshot
  <2>4. snapFile' = [snapFile EXCEPT ![n] = snap]
          /\ snapTask' = [snapTask EXCEPT ![n] = [Idle EXCEPT !.kind = "compact", !.snap = snap]]
    BY <1>2 DEF CompactSave, SaveSnapshot
  <2> HIDE DEF snap
  <2>5. [Idle EXCEPT !.kind = "compact", !.snap = snap] \in SnapTask
    BY <1>1, <2>3, Zenon DEF Idle, SnapTask
  <2>6. DiskTypes'
    BY <1>2, <2>3, <2>4, Zenon DEF TypeOK, DiskTypes, CompactSave
  <2>7. SnapTypes'
    BY <1>2, <2>4, <2>5 DEF TypeOK, SnapTypes, CompactSave
  <2> QED
    BY <1>2, <2>6, <2>7, FrameTypes DEF TypeOK, CompactSave
<1>3. CASE CompactFinish(n)
  <2> DEFINE snap == snapTask[n].snap
  <2>1. snap \in Snapshot
    BY DEF TypeOK, SnapTypes, SnapTask
  <2>2. snap.index \in Nat /\ snap.term \in Nat
    BY <2>1, Zenon DEF Snapshot
  <2>3. log[n] \in Seq(Entry) /\ Len(log[n]) \in Nat /\ logOffset[n] \in Nat
          /\ wal[n] \in Seq(Entry)
    BY DEF TypeOK, LogTypes, DiskTypes
  <2>4. snap.index - logOffset[n] + 1 \in Int /\ snap.index - logOffset[n] + 1 >= 1
    <3>1. snap.index > snapshotIndex[n] /\ logOffset[n] = snapshotIndex[n]
      BY <1>3, Zenon DEF CompactFinish, SnapMuInvariant
    <3> HIDE DEF snap
    <3> QED
      BY <2>2, <2>3, <3>1
  <2>5. DropCovered(log[n], logOffset[n], snap.index) \in Seq(Entry)
    <3>1. \A a \in Int : a >= 1 => SubSeq(log[n], a, Len(log[n])) \in Seq(Entry)
      BY <2>3, SubSeqType
    <3> QED
      BY <2>4, <3>1 DEF DropCovered
  <2>6. TruncateBefore(wal[n], snap.index + 1) \in Seq(Entry)
    <3>1. \A b \in Nat : TruncateBefore(wal[n], b) \in Seq(Entry)
      BY <2>3, TruncateType, Zenon
    <3>2. snap.index + 1 \in Nat
      BY <2>2
    <3> QED
      BY <3>1, <3>2
  <2>7. LogTypes'
    BY <1>3, <2>2, <2>5, Zenon DEF TypeOK, LogTypes, CompactFinish
  <2>8. DiskTypes'
    BY <1>3, <2>6, Zenon DEF TypeOK, DiskTypes, CompactFinish
  <2>9. SnapTypes'
    BY <1>1, <1>3, Zenon DEF TypeOK, SnapTypes, CompactFinish
  <2> QED
    BY <1>3, <2>7, <2>8, <2>9, FrameTypes, Zenon DEF TypeOK, CompactFinish
<1> QED
  BY <1>2, <1>3

\* Catch-up on the leader keeps the types.
LEMMA CatchUpType ==
    ASSUME TypeOK, NEW n \in Node, NEW p \in Peers(n),
           StartCatchUp(n, p) \/ SendInstallSnapshot(n, p)
    PROVE  TypeOK'
<1>1. p \in Node
  BY DEF Peers
<1>2. catchUp' \in [Node -> SUBSET Node]
  <2>1. \/ catchUp' = [catchUp EXCEPT ![n] = @ \cup {p}]
        \/ catchUp' = [catchUp EXCEPT ![n] = @ \ {p}]
    BY Zenon DEF StartCatchUp, SendInstallSnapshot
  <2> QED
    BY <1>1, <2>1 DEF TypeOK, SnapTypes
<1>3. SnapTypes'
  BY <1>2, Zenon DEF TypeOK, SnapTypes, StartCatchUp, SendInstallSnapshot
<1>4. CASE StartCatchUp(n, p)
  BY <1>3, <1>4, FrameTypes, Zenon DEF TypeOK, StartCatchUp
<1>5. CASE SendInstallSnapshot(n, p)
  <2>1. [type |-> "InstallSnapshot", from |-> n, to |-> p, term |-> currentTerm[n],
         snap |-> snapFile[n], conn |-> TRUE] \in Message
    BY <1>1 DEF Message, InstallSnapshot, TypeOK, ElectionTypes, DiskTypes
  <2>2. msgs' \subseteq Message
    BY <1>5, <2>1, NetworkTypes, Zenon DEF SendInstallSnapshot
  <2> QED
    BY <1>3, <1>5, <2>2, FrameTypes, Zenon DEF TypeOK, SendInstallSnapshot
<1> QED
  BY <1>4, <1>5

\* The reply to InstallSnapshot is a message.
LEMMA SnapshotResponseType ==
    ASSUME NEW n \in Node, NEW to \in Node, NEW term \in Nat, NEW success \in BOOLEAN,
           NEW index \in Nat
    PROVE  SnapshotResponse(n, to, term, success, index) \in Message
BY DEF SnapshotResponse, Message, InstallSnapshotRes

\* The follower's side of a snapshot keeps the types.
LEMMA HandleInstallSnapshotType ==
    ASSUME TypeOK, NEW m \in InstallSnapshot, HandleInstallSnapshot(m)
    PROVE  TypeOK'
<1> DEFINE n == m.to
<1>1. n \in Node /\ m.from \in Node /\ m.term \in Nat /\ m.snap \in Snapshot /\ m.conn \in BOOLEAN
        /\ m \in Message
  BY DEF InstallSnapshot, Message
<1>2. m.snap.index \in Nat
  BY <1>1 DEF Snapshot
<1>3. currentTerm[n] \in Nat
  BY <1>1 DEF TypeOK, ElectionTypes
<1>4. \A t \in Nat, b \in BOOLEAN : SnapshotResponse(n, m.from, t, b, m.snap.index) \in Message
  BY <1>1, <1>2, SnapshotResponseType
<1>5. CASE /\ Reply(m, SnapshotResponse(n, m.from, currentTerm[n], FALSE, m.snap.index))
           /\ UNCHANGED <<electionVars, snapTask>>
  <2>1. msgs' \subseteq Message
    BY <1>3, <1>4, <1>5, NetworkTypes, Zenon
  <2>2. UNCHANGED snapVars
    BY <1>5, Zenon DEF HandleInstallSnapshot, snapVars
  <2> QED
    BY <1>5, <2>1, <2>2, FrameTypes, Zenon DEF TypeOK, HandleInstallSnapshot
<1>6. CASE /\ FollowLeader(n, m.term)
           /\ Reply(m, SnapshotResponse(n, m.from, m.term, TRUE, m.snap.index))
           /\ UNCHANGED snapTask
  <2>1. msgs' \subseteq Message
    BY <1>1, <1>4, <1>6, NetworkTypes, Zenon
  <2>2. UNCHANGED snapVars
    BY <1>6, Zenon DEF HandleInstallSnapshot, snapVars
  <2>3. ElectionTypes'
    BY <1>1, <1>6, AdoptTermType, Zenon
  <2> QED
    BY <2>1, <2>2, <2>3, FrameTypes, Zenon DEF TypeOK, HandleInstallSnapshot
<1>7. CASE /\ FollowLeader(n, m.term)
           /\ Receive(m)
           /\ snapTask' = [snapTask EXCEPT ![n] =
                  [kind |-> "decode", snap |-> m.snap, from |-> m.from, conn |-> m.conn]]
  <2>1. msgs' \subseteq Message
    BY <1>1, <1>7, NetworkTypes, Zenon
  <2>2. [kind |-> "decode", snap |-> m.snap, from |-> m.from, conn |-> m.conn] \in SnapTask
    BY <1>1 DEF SnapTask
  <2>3. SnapTypes'
    BY <1>1, <1>7, <2>2, Zenon DEF TypeOK, SnapTypes, HandleInstallSnapshot
  <2>4. ElectionTypes'
    BY <1>1, <1>7, AdoptTermType, Zenon
  <2> QED
    BY <2>1, <2>3, <2>4, FrameTypes, Zenon DEF TypeOK, HandleInstallSnapshot
<1> QED
  BY <1>5, <1>6, <1>7, Zenon DEF HandleInstallSnapshot

\* Finishing an install sends a reply and releases snapMu.
LEMMA ReplyInstallType ==
    ASSUME TypeOK, NEW n \in Node, NEW success \in BOOLEAN, ReplyInstall(n, success),
           snapTask[n].from \in Node
    PROVE  msgs' \subseteq Message /\ snapTask' \in [Node -> SnapTask]
<1>1. snapTask[n] \in SnapTask /\ Idle \in SnapTask
  BY Zenon DEF TypeOK, SnapTypes, Idle, SnapTask, NoSnapshot, Snapshot
<1>2. snapTask[n].snap.index \in Nat
  BY <1>1 DEF SnapTask, Snapshot
<1>3. currentTerm[n] \in Nat
  BY DEF TypeOK, ElectionTypes
<1>4. SnapshotResponse(n, snapTask[n].from, currentTerm[n], success, snapTask[n].snap.index)
          \in Message
  BY <1>2, <1>3, SnapshotResponseType
<1>5. msgs' \subseteq Message
  BY <1>4 DEF ReplyInstall, TypeOK
<1>6. snapTask' \in [Node -> SnapTask]
  BY <1>1 DEF ReplyInstall, TypeOK, SnapTypes
<1> QED
  BY <1>5, <1>6

\* The steps of an install keep the types.
LEMMA InstallType ==
    ASSUME TypeOK, SnapMuInvariant, NEW n \in Node,
           InstallDecoded(n) \/ InstallFinish(n) \/ InstallFail(n)
    PROVE  TypeOK'
<1> DEFINE snap == snapTask[n].snap
<1>1. snapTask \in [Node -> SnapTask] /\ snapTask[n] \in SnapTask
  BY DEF TypeOK, SnapTypes
<1>2. snap \in Snapshot /\ snap.index \in Nat /\ snap.term \in Nat /\ snap.data \in SUBSET Nat
  BY <1>1 DEF SnapTask, Snapshot
<1>3. snapTask[n].from \in Node
  BY Zenon DEF InstallDecoded, InstallFinish, InstallFail, SnapMuInvariant
<1>4. CASE InstallDecoded(n)
  <2>1. [snapTask[n] EXCEPT !.kind = "rename"] \in SnapTask
    BY <1>1 DEF SnapTask
  <2>2. snapTask' \in [Node -> SnapTask]
    BY <1>1, <1>4, <2>1 DEF InstallDecoded
  <2>3. SnapTypes'
    BY <1>4, <2>2 DEF TypeOK, SnapTypes, InstallDecoded
  <2>4. MachineTypes'
    BY <1>2, <1>4 DEF TypeOK, MachineTypes, InstallDecoded
  <2> QED
    BY <1>4, <2>3, <2>4, FrameTypes DEF TypeOK, InstallDecoded
<1>5. CASE InstallFinish(n)
  <2> DEFINE covered == {i \in 1 .. Len(log[n]) : log[n][i].index <= snap.index}
  <2>1. log[n] \in Seq(Entry) /\ Len(log[n]) \in Nat /\ wal[n] \in Seq(Entry)
    BY DEF TypeOK, LogTypes, DiskTypes
  <2>2. Cardinality(covered) \in Nat
    <3>1. IsFiniteSet(1 .. Len(log[n]))
      BY <2>1, FS_Interval
    <3>2. IsFiniteSet(covered)
      BY <3>1, FS_Subset
    <3> QED
      BY <3>2, FS_CardinalityType
  <2>3. log' = [log EXCEPT ![n] = SubSeq(@, Cardinality(covered) + 1, Len(@))]
    BY <1>5, Zenon DEF InstallFinish
  <2> HIDE DEF covered
  <2>4. SubSeq(log[n], Cardinality(covered) + 1, Len(log[n])) \in Seq(Entry)
    <3>1. \A a \in Int : a >= 1 => SubSeq(log[n], a, Len(log[n])) \in Seq(Entry)
      BY <2>1, SubSeqType
    <3>2. Cardinality(covered) + 1 \in Int /\ Cardinality(covered) + 1 >= 1
      BY <2>2
    <3> QED
      BY <3>1, <3>2
  <2>5. LogTypes'
    BY <1>2, <1>5, <2>3, <2>4, Zenon DEF TypeOK, LogTypes, InstallFinish
  <2>6. TruncateBefore(wal[n], snap.index + 1) \in Seq(Entry)
    <3>1. \A b \in Nat : TruncateBefore(wal[n], b) \in Seq(Entry)
      BY <2>1, TruncateType
    <3>2. snap.index + 1 \in Nat
      BY <1>2
    <3> QED
      BY <3>1, <3>2
  <2>7. DiskTypes'
    BY <1>2, <1>5, <2>6, Zenon DEF TypeOK, DiskTypes, InstallFinish
  <2>8. CommitTypes'
    BY <1>2, <1>5, Zenon DEF TypeOK, CommitTypes, InstallFinish
  <2>9. msgs' \subseteq Message /\ snapTask' \in [Node -> SnapTask]
    BY <1>3, <1>5, ReplyInstallType, Zenon DEF InstallFinish
  <2>10. SnapTypes'
    BY <1>5, <2>9, Zenon DEF TypeOK, SnapTypes, InstallFinish
  <2> QED
    BY <1>5, <2>5, <2>7, <2>8, <2>9, <2>10, FrameTypes, Zenon DEF TypeOK, InstallFinish
<1>6. CASE InstallFail(n)
  <2>1. msgs' \subseteq Message /\ snapTask' \in [Node -> SnapTask]
    BY <1>3, <1>6, ReplyInstallType, Zenon DEF InstallFail
  <2>2. SnapTypes'
    BY <1>6, <2>1, Zenon DEF TypeOK, SnapTypes, InstallFail
  <2>3. FaultTypes'
    <3>1. failures' = failures + 1 /\ UNCHANGED restarts
      BY <1>6, Zenon DEF InstallFail
    <3> QED
      BY <3>1 DEF TypeOK, FaultTypes
  <2> QED
    BY <1>6, <2>1, <2>2, <2>3, FrameTypes, Zenon DEF TypeOK, InstallFail
<1> QED
  BY <1>4, <1>5, <1>6

\* Setting one peer's index keeps the table's type.
LEMMA PeerUpdateType ==
    ASSUME NEW f \in [Node -> [Node -> Nat]], NEW n \in Node, NEW p \in Node, NEW i \in Nat
    PROVE  [f EXCEPT ![n][p] = i] \in [Node -> [Node -> Nat]]
<1>1. [f[n] EXCEPT ![p] = i] \in [Node -> Nat]
  OBVIOUS
<1> QED
  BY <1>1

\* The reply to InstallSnapshot keeps the types.
LEMMA HandleInstallSnapshotResType ==
    ASSUME TypeOK, NEW m \in InstallSnapshotRes, HandleInstallSnapshotRes(m)
    PROVE  TypeOK'
<1> DEFINE n == m.to
           p == m.from
<1>1. n \in Node /\ p \in Node /\ m.term \in Nat /\ m.index \in Nat /\ m \in Message
  BY DEF InstallSnapshotRes, Message
<1>2. msgs' \subseteq Message
  BY <1>1, NetworkTypes DEF HandleInstallSnapshotRes
<1>3. ElectionTypes'
  <2>1. StepDown(n, m.term) \/ UNCHANGED electionVars
    BY DEF HandleInstallSnapshotRes
  <2> QED
    BY <1>1, <2>1, AdoptTermType, FrameTypes, Zenon
<1>4. PeerTypes'
  <2>1. nextIndex' = nextIndex \/ nextIndex' = [nextIndex EXCEPT ![n][p] = m.index + 1]
    BY DEF HandleInstallSnapshotRes
  <2>2. matchIndex' = matchIndex \/ matchIndex' = [matchIndex EXCEPT ![n][p] = m.index]
    BY DEF HandleInstallSnapshotRes
  <2>3. nextIndex \in [Node -> [Node -> Nat]] /\ matchIndex \in [Node -> [Node -> Nat]]
    BY DEF TypeOK, PeerTypes
  <2>4. m.index + 1 \in Nat
    BY <1>1
  <2>5. [nextIndex EXCEPT ![n][p] = m.index + 1] \in [Node -> [Node -> Nat]]
    BY <1>1, <2>3, <2>4, PeerUpdateType
  <2>6. [matchIndex EXCEPT ![n][p] = m.index] \in [Node -> [Node -> Nat]]
    BY <1>1, <2>3, PeerUpdateType
  <2>7. nextIndex' \in [Node -> [Node -> Nat]] /\ matchIndex' \in [Node -> [Node -> Nat]]
    BY <2>1, <2>2, <2>3, <2>5, <2>6, Zenon
  <2> QED
    BY <2>7 DEF PeerTypes
<1> QED
  BY <1>2, <1>3, <1>4, FrameTypes DEF TypeOK, HandleInstallSnapshotRes

\* Adopting a term makes nobody a leader.
LEMMA NoNewLeader ==
    ASSUME TypeOK, NEW n \in Node, NEW term, StepDown(n, term) \/ FollowLeader(n, term)
    PROVE  \A k \in Node : state'[k] = "Leader" => state[k] = "Leader"
BY DEF TypeOK, ElectionTypes, StepDown, FollowLeader

\* nextIndex stays positive on a leader, step by step.
LEMMA NextIndexPositiveStep ==
    ASSUME TypeInv, Next
    PROVE  NextIndexPositive'
<1> USE DEF TypeInv
<1>1. ASSUME \A k \in Node : state'[k] = "Leader" => state[k] = "Leader", nextIndex' = nextIndex
      PROVE  NextIndexPositive'
  BY <1>1 DEF NextIndexPositive
<1>2. ASSUME UNCHANGED electionVars, UNCHANGED peerVars
      PROVE  NextIndexPositive'
  BY <1>1, <1>2 DEF electionVars, peerVars
<1>3. ASSUME NEW n \in Node, NodeStep(n)
      PROVE  NextIndexPositive'
  <2>1. CASE StartElection(n)
    BY <1>1, <2>1, Zenon DEF StartElection, peerVars, TypeOK, ElectionTypes
  <2>2. CASE BecomeLeader(n)
    <3>1. LogLen(n) \in Nat
      BY AccessorTypes
    <3>2. /\ state' = [state EXCEPT ![n] = "Leader"]
          /\ nextIndex' = [nextIndex EXCEPT ![n] = [p \in Node |-> LogLen(n) + 1]]
      BY <2>2 DEF BecomeLeader
    <3>3. state \in [Node -> {"Follower", "Candidate", "Leader"}]
            /\ nextIndex \in [Node -> [Node -> Nat]]
      BY DEF TypeOK, ElectionTypes, PeerTypes
    <3> QED
      BY <3>1, <3>2, <3>3 DEF NextIndexPositive
  <2>3. CASE ~StartElection(n) /\ ~BecomeLeader(n)
    BY <1>2, <1>3, <2>3, Zenon DEF NodeStep, SubmitPublish, SubmitPersisted, SubmitPersistFailed,
       SubmitReturn, ApplyTake, ApplyRun, CompactSave, CompactFinish, InstallDecoded,
       InstallFinish, InstallFail
  <2> QED
    BY <2>1, <2>2, <2>3
<1>4. ASSUME NEW n \in Node, NEW p \in Peers(n), PeerStep(n, p)
      PROVE  NextIndexPositive'
  BY <1>2, <1>4, Zenon DEF PeerStep, SendAppendEntries, StartCatchUp, SendInstallSnapshot
<1>5. ASSUME NEW m \in msgs, Deliver(m) \/ Drop(m)
      PROVE  NextIndexPositive'
  <2>1. m \in Message
    BY DEF TypeOK
  <2>2. CASE Drop(m)
    BY <1>2, <2>2 DEF Drop
  <2>3. CASE m.type = "RequestVote" /\ HandleRequestVote(m)
    <3>1. m.to \in Node
      BY <2>1, <2>3, MessageKinds DEF RequestVote
    <3> QED
      BY <1>1, <2>3, <3>1, Zenon DEF HandleRequestVote, peerVars, TypeOK, ElectionTypes
  <2>4. CASE m.type = "RequestVoteRes" /\ HandleRequestVoteRes(m)
    <3>1. m.to \in Node
      BY <2>1, <2>4, MessageKinds DEF RequestVoteRes
    <3>2. StepDown(m.to, m.term) \/ UNCHANGED state
      BY <2>4, Zenon DEF HandleRequestVoteRes
    <3>3. \A k \in Node : state'[k] = "Leader" => state[k] = "Leader"
      BY <3>1, <3>2, NoNewLeader, Zenon
    <3> QED
      BY <1>1, <2>4, <3>3, Zenon DEF HandleRequestVoteRes, peerVars
  <2>5. CASE m.type = "AppendEntries" /\ HandleAppendEntries(m)
    <3>1. m.to \in Node
      BY <2>1, <2>5, MessageKinds DEF AppendEntries
    <3>2. FollowLeader(m.to, m.term) \/ UNCHANGED state
      BY <2>5, Zenon DEF HandleAppendEntries, RejectStaleAppend, RejectPrevLog, AcceptAppend,
         FailAppend, electionVars
    <3>3. \A k \in Node : state'[k] = "Leader" => state[k] = "Leader"
      BY <3>1, <3>2, NoNewLeader, Zenon
    <3> QED
      BY <1>1, <2>5, <3>3, Zenon DEF HandleAppendEntries, RejectStaleAppend, RejectPrevLog,
         AcceptAppend, FailAppend, peerVars
  <2>6. CASE m.type = "AppendEntriesRes" /\ HandleAppendEntriesRes(m)
    <3>1. m \in AppendEntriesRes
      BY <2>1, <2>6, MessageKinds
    <3>2. m.to \in Node /\ m.from \in Node /\ m.nextIdx \in Nat \ {0} /\ m.count \in Nat
      BY <3>1 DEF AppendEntriesRes
    <3>3. nextIndex \in [Node -> [Node -> Nat]]
      BY DEF TypeOK, PeerTypes
    <3>4. CASE StepDown(m.to, m.term) /\ UNCHANGED <<commitVars, peerVars>>
      BY <1>1, <3>2, <3>4, NoNewLeader DEF peerVars
    <3>5. CASE UNCHANGED <<electionVars, commitVars, peerVars>>
      BY <1>2, <3>5
    <3>6. CASE /\ nextIndex' = [nextIndex EXCEPT ![m.to][m.from] = m.nextIdx + m.count]
               /\ UNCHANGED electionVars
      <4>1. m.nextIdx + m.count >= 1
        BY <3>2
      <4> QED
        BY <3>2, <3>3, <3>6, <4>1 DEF NextIndexPositive, electionVars
    <3>7. CASE /\ nextIndex' = [nextIndex EXCEPT ![m.to][m.from] = BackOff(@)]
               /\ UNCHANGED electionVars
      <4>1. nextIndex[m.to][m.from] >= 1 => BackOff(nextIndex[m.to][m.from]) >= 1
        BY <3>2, <3>3 DEF BackOff
      <4> QED
        BY <3>2, <3>3, <3>7, <4>1 DEF NextIndexPositive, electionVars
    <3> QED
      BY <2>6, <3>4, <3>5, <3>6, <3>7 DEF HandleAppendEntriesRes
  <2>7. CASE m.type = "InstallSnapshot" /\ HandleInstallSnapshot(m)
    <3>1. m.to \in Node
      BY <2>1, <2>7, MessageKinds DEF InstallSnapshot
    <3>2. FollowLeader(m.to, m.term) \/ UNCHANGED state
      BY <2>7, Zenon DEF HandleInstallSnapshot, electionVars
    <3>3. \A k \in Node : state'[k] = "Leader" => state[k] = "Leader"
      BY <3>1, <3>2, NoNewLeader
    <3> QED
      BY <1>1, <2>7, <3>3, Zenon DEF HandleInstallSnapshot, peerVars
  <2>8. CASE m.type = "InstallSnapshotRes" /\ HandleInstallSnapshotRes(m)
    <3>1. m.to \in Node /\ m.from \in Node /\ m.index \in Nat
      BY <2>1, <2>8, MessageKinds DEF InstallSnapshotRes
    <3>2. StepDown(m.to, m.term) \/ UNCHANGED state
      BY <2>8 DEF HandleInstallSnapshotRes, electionVars
    <3>3. \A k \in Node : state'[k] = "Leader" => state[k] = "Leader"
      BY <3>1, <3>2, NoNewLeader
    <3>4. nextIndex \in [Node -> [Node -> Nat]] /\ m.index + 1 >= 1
      BY <3>1 DEF TypeOK, PeerTypes
    <3>5. nextIndex' = nextIndex
            \/ nextIndex' = [nextIndex EXCEPT ![m.to][m.from] = m.index + 1]
      BY <2>8 DEF HandleInstallSnapshotRes
    <3> QED
      BY <3>1, <3>3, <3>4, <3>5 DEF NextIndexPositive
  <2> QED
    BY <1>5, <2>2, <2>3, <2>4, <2>5, <2>6, <2>7, <2>8 DEF Deliver
<1> QED
  BY <1>3, <1>4, <1>5 DEF Next

\* What the holder of snapMu relies on is preserved step by step.
LEMMA SnapMuInvariantStep ==
    ASSUME TypeInv, Next
    PROVE  SnapMuInvariant'
<1> USE DEF TypeInv
<1>1. ASSUME UNCHANGED <<logOffset, snapshotIndex, snapTask>>
      PROVE  SnapMuInvariant'
  BY <1>1 DEF SnapMuInvariant
<1>2. /\ snapTask \in [Node -> SnapTask]
      /\ logOffset \in [Node -> Nat] /\ snapshotIndex \in [Node -> Nat]
  BY DEF TypeOK, SnapTypes, LogTypes
<1>3. \A k \in Node : snapTask[k].snap.index \in Nat
  BY <1>2 DEF SnapTask, Snapshot
<1>4. Idle.kind = "idle"
  BY DEF Idle
<1>5. ASSUME NEW n \in Node, NodeStep(n)
      PROVE  SnapMuInvariant'
  <2> DEFINE snap == snapTask[n].snap
  <2>1. CASE CompactSave(n)
    <3> DEFINE saved == [index |-> raftLastApplied[n], term |-> TermAt(n, raftLastApplied[n]),
                         data |-> keys[n]]
    <3>1. snapTask' = [snapTask EXCEPT ![n] = [Idle EXCEPT !.kind = "compact", !.snap = saved]]
            /\ UNCHANGED <<logOffset, snapshotIndex>>
            /\ saved.index > snapshotIndex[n]
      BY <2>1 DEF CompactSave, Compactable, logVars
    <3>2. saved.index \in Nat
      BY DEF TypeOK, MachineTypes
    <3> HIDE DEF saved
    <3>3. [Idle EXCEPT !.kind = "compact", !.snap = saved].kind = "compact"
            /\ [Idle EXCEPT !.kind = "compact", !.snap = saved].snap = saved
      BY DEF Idle
    <3> QED
      BY <1>2, <3>1, <3>2, <3>3 DEF SnapMuInvariant
  <2>2. CASE CompactFinish(n)
    <3>1. /\ logOffset' = [logOffset EXCEPT ![n] = snap.index]
          /\ snapshotIndex' = [snapshotIndex EXCEPT ![n] = snap.index]
          /\ snapTask' = [snapTask EXCEPT ![n] = Idle]
      BY <2>2, Zenon DEF CompactFinish
    <3> QED
      BY <1>2, <1>4, <3>1 DEF SnapMuInvariant
  <2>3. CASE InstallDecoded(n)
    <3>1. /\ snapTask' = [snapTask EXCEPT ![n].kind = "rename"]
          /\ UNCHANGED <<logOffset, snapshotIndex>> /\ snapTask[n].kind = "decode"
      BY <2>3 DEF InstallDecoded, logVars
    <3>2. snapTask'[n].kind = "rename" /\ snapTask'[n].snap = snapTask[n].snap
            /\ snapTask'[n].from = snapTask[n].from
      BY <1>2, <3>1 DEF SnapTask
    <3>3. \A k \in Node \ {n} : snapTask'[k] = snapTask[k]
      BY <1>2, <3>1
    <3> QED
      BY <3>1, <3>2, <3>3 DEF SnapMuInvariant
  <2>4. CASE InstallFinish(n)
    <3>1. snapTask[n].kind = "rename"
      BY <2>4, Zenon DEF InstallFinish
    <3>2. snap.index >= snapshotIndex[n] /\ logOffset[n] = snapshotIndex[n]
      BY <3>1 DEF SnapMuInvariant
    <3>3. /\ logOffset' = [logOffset EXCEPT ![n] = IF snap.index > @ THEN snap.index ELSE @]
          /\ snapshotIndex' = [snapshotIndex EXCEPT ![n] = snap.index]
          /\ snapTask' = [snapTask EXCEPT ![n] = Idle]
      BY <2>4, Zenon DEF InstallFinish, ReplyInstall
    <3>4. /\ logOffset'[n] = (IF snap.index > logOffset[n] THEN snap.index ELSE logOffset[n])
          /\ snapshotIndex'[n] = snap.index /\ snapTask'[n] = Idle
      BY <1>2, <3>3
    <3>5. logOffset'[n] = snapshotIndex'[n]
      <4>1. PICK a \in Nat, b \in Nat : a = snap.index /\ b = logOffset[n]
        BY <1>2, <1>3
      <4>2. logOffset'[n] = (IF a > b THEN a ELSE b) /\ a >= b
        BY <3>2, <3>4, <4>1
      <4> QED
        BY <3>4, <4>1, <4>2
    <3>6. \A k \in Node \ {n} : /\ snapTask'[k] = snapTask[k] /\ logOffset'[k] = logOffset[k]
                                /\ snapshotIndex'[k] = snapshotIndex[k]
      BY <1>2, <3>3, Zenon
    <3> QED
      BY <1>4, <3>4, <3>5, <3>6 DEF SnapMuInvariant
  <2>5. CASE InstallFail(n)
    <3>1. snapTask' = [snapTask EXCEPT ![n] = Idle] /\ UNCHANGED <<logOffset, snapshotIndex>>
      BY <2>5 DEF InstallFail, ReplyInstall, logVars
    <3> QED
      BY <1>2, <1>4, <3>1 DEF SnapMuInvariant
  <2>6. CASE SubmitPublish(n) \/ \E pub \in persisting[n] : SubmitPersistFailed(n, pub)
    BY <1>1, <2>6, Zenon DEF SubmitPublish, SubmitPersistFailed, snapVars
  <2>7. CASE \/ StartElection(n) \/ BecomeLeader(n) \/ ApplyTake(n) \/ ApplyRun(n)
             \/ \E pub \in persisting[n] : SubmitPersisted(n, pub)
             \/ \E entry \in waiting[n] : SubmitReturn(n, entry)
    <3>1. UNCHANGED <<logVars, snapVars>>
      BY <2>7, Zenon DEF StartElection, BecomeLeader, ApplyTake, ApplyRun, SubmitPersisted,
         SubmitReturn
    <3> QED
      BY <1>1, <3>1 DEF logVars, snapVars
  <2> QED
    BY <1>5, <2>1, <2>2, <2>3, <2>4, <2>5, <2>6, <2>7, Zenon DEF NodeStep
<1>6. ASSUME NEW n \in Node, NEW p \in Peers(n), PeerStep(n, p)
      PROVE  SnapMuInvariant'
  BY <1>1, <1>6, Zenon DEF PeerStep, SendAppendEntries, StartCatchUp, SendInstallSnapshot, logVars,
     snapVars
<1>7. ASSUME NEW m \in msgs, Deliver(m) \/ Drop(m)
      PROVE  SnapMuInvariant'
  <2>1. CASE m.type = "InstallSnapshot" /\ HandleInstallSnapshot(m)
    <3>1. m \in InstallSnapshot
      BY <2>1, MessageKinds DEF TypeOK
    <3>2. m.to \in Node /\ m.from \in Node /\ m.snap.index \in Nat
      BY <3>1 DEF InstallSnapshot, Snapshot
    <3>3. UNCHANGED <<logOffset, snapshotIndex>>
      BY <2>1, Zenon DEF HandleInstallSnapshot, logVars
    <3>4. CASE UNCHANGED snapTask
      BY <1>1, <3>3, <3>4
    <3>5. CASE /\ ~(m.snap.index <= snapshotIndex[m.to] /\ snapshotIndex[m.to] > 0)
               /\ snapTask' = [snapTask EXCEPT ![m.to] =
                      [kind |-> "decode", snap |-> m.snap, from |-> m.from, conn |-> m.conn]]
      <4>0. snapshotIndex[m.to] \in Nat
        BY <1>2, <3>2
      <4>1. m.snap.index >= snapshotIndex[m.to]
        BY <3>2, <3>5, <4>0
      <4> QED
        BY <1>2, <3>2, <3>3, <3>5, <4>1, Zenon DEF SnapMuInvariant
    <3> QED
      BY <2>1, <3>4, <3>5, Zenon DEF HandleInstallSnapshot
  <2>2. CASE AcceptAppend(m) \/ FailAppend(m)
    BY <1>1, <2>2, Zenon DEF AcceptAppend, FailAppend, snapVars
  <2>3. CASE \/ HandleRequestVote(m) \/ HandleRequestVoteRes(m) \/ RejectStaleAppend(m)
             \/ RejectPrevLog(m) \/ HandleAppendEntriesRes(m) \/ HandleInstallSnapshotRes(m)
             \/ Drop(m)
    <3>1. UNCHANGED <<logVars, snapVars>>
      BY <2>3, Zenon DEF HandleRequestVote, HandleRequestVoteRes, RejectStaleAppend, RejectPrevLog,
         HandleAppendEntriesRes, HandleInstallSnapshotRes, Drop
    <3> QED
      BY <1>1, <3>1 DEF logVars, snapVars
  <2> QED
    BY <1>7, <2>1, <2>2, <2>3 DEF Deliver, HandleAppendEntries
<1> QED
  BY <1>5, <1>6, <1>7 DEF Next

\* Every step of the node keeps the types.
LEMMA TypeOKStep ==
    ASSUME TypeInv, Next
    PROVE  TypeOK'
<1> USE DEF TypeInv
<1>1. ASSUME NEW n \in Node, NodeStep(n)
      PROVE  TypeOK'
  BY <1>1, StartElectionType, BecomeLeaderType, SubmitPublishType, SubmitPersistedType,
     SubmitPersistFailedType, SubmitReturnType, ApplyType, CompactType, InstallType, Zenon
     DEF NodeStep
<1>2. ASSUME NEW n \in Node, NEW p \in Peers(n), PeerStep(n, p)
      PROVE  TypeOK'
  BY <1>2, SendAppendEntriesType, CatchUpType DEF PeerStep
<1>3. ASSUME NEW m \in msgs, Deliver(m)
      PROVE  TypeOK'
  <2>1. m \in Message
    BY DEF TypeOK
  <2> QED
    BY <1>3, <2>1, MessageKinds, HandleRequestVoteType, HandleRequestVoteResType,
       RejectAppendType, AcceptAppendType, FailAppendType, HandleAppendEntriesResType,
       HandleInstallSnapshotType, HandleInstallSnapshotResType
       DEF Deliver, HandleAppendEntries
<1>4. ASSUME NEW m \in msgs, Drop(m)
      PROVE  TypeOK'
  <2>1. msgs' \subseteq Message
    BY <1>4 DEF Drop, Receive, TypeOK
  <2> QED
    BY <1>4, <2>1, FrameTypes DEF TypeOK, Drop
<1> QED
  BY <1>1, <1>2, <1>3, <1>4 DEF Next

\* The type invariant, with what it takes to preserve it, holds in every
\* reachable state: no index computed by the node goes below zero, nothing but
\* log entries reaches the log and the WAL, and every message is well formed.
THEOREM TypeInvariant == Spec => []TypeInv
<1>1. Init => TypeInv
  <2> SUFFICES ASSUME Init PROVE TypeInv
    OBVIOUS
  <2>1. Gone \in Entry /\ NoSnapshot \in Snapshot
    BY DEF Gone, Entry, NoSnapshot, Snapshot
  <2>2. Idle \in SnapTask
    BY <2>1 DEF Idle, SnapTask
  <2>a. ElectionTypes /\ CommitTypes
    <3>1. /\ state = [n \in Node |-> "Follower"] /\ currentTerm = [n \in Node |-> 0]
          /\ votedFor = [n \in Node |-> Nobody] /\ votes = [n \in Node |-> {}]
          /\ commitIndex = [n \in Node |-> 0] /\ lastApplied = [n \in Node |-> 0]
      BY Zenon DEF Init
    <3> QED
      BY <3>1 DEF ElectionTypes, CommitTypes
  <2>b. LogTypes
    BY DEF Init, LogTypes
  <2>c. PeerTypes
    <3>1. /\ nextIndex = [n \in Node |-> [p \in Node |-> 0]]
          /\ matchIndex = [n \in Node |-> [p \in Node |-> 0]]
      BY Zenon DEF Init
    <3> QED
      BY <3>1 DEF PeerTypes
  <2>d. DiskTypes /\ FaultTypes
    BY <2>1 DEF Init, DiskTypes, FaultTypes
  <2>e. MachineTypes
    BY <2>1 DEF Init, MachineTypes
  <2>f. SubmitTypes
    BY DEF Init, SubmitTypes
  <2>g. SnapTypes
    BY <2>2 DEF Init, SnapTypes
  <2>5. NextIndexPositive /\ SnapMuInvariant
    BY DEF Init, NextIndexPositive, SnapMuInvariant, Idle
  <2> QED
    BY <2>a, <2>b, <2>c, <2>d, <2>e, <2>f, <2>g, <2>5 DEF TypeInv, TypeOK, Init
<1>2. TypeInv /\ [Next]_vars => TypeInv'
  <2> SUFFICES ASSUME TypeInv, [Next]_vars PROVE TypeInv'
    OBVIOUS
  <2>1. CASE Next
    BY <2>1, TypeOKStep, NextIndexPositiveStep, SnapMuInvariantStep DEF TypeInv
  <2>2. CASE UNCHANGED vars
    <3>1. TypeOK'
      BY <2>2, FrameTypes DEF TypeInv, TypeOK, vars
    <3>2. NextIndexPositive' /\ SnapMuInvariant'
      BY <2>2, Zenon DEF TypeInv, NextIndexPositive, SnapMuInvariant, vars, electionVars, logVars,
         peerVars, snapVars
    <3> QED
      BY <3>1, <3>2 DEF TypeInv
  <2> QED
    BY <2>1, <2>2
<1> QED
  BY <1>1, <1>2, PTL DEF Spec

\* The types of the Go structs are kept (see TypeOK).
THEOREM TypeCorrectness == Spec => []TypeOK
<1>1. TypeInv => TypeOK
  BY DEF TypeInv
<1> QED
  BY <1>1, TypeInvariant, PTL

=============================================================================
