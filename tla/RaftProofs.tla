----------------------------- MODULE RaftProofs -----------------------------
(***************************************************************************)
(* Election safety of the Raft node, and its snapshots: raft.snapshot      *)
(* never rolls back and no compaction is overtaken, for clusters of every  *)
(* size and for every value of the bounds, as long as no process restarts  *)
(* (Spec).                                                                 *)
(***************************************************************************)
EXTENDS RaftTypeProofs

-----------------------------------------------------------------------------
(* Election safety *)

\* The reply with which j grants i its vote in term t.
Grant(j, i, t) ==
    [type |-> "RequestVoteRes", from |-> j, to |-> i, term |-> t, voteGranted |-> TRUE]

\* Somewhere in the system it is on record that j voted for i in term t: in a
\* reply in flight, in i's count of votes, or in j's votedFor.
Evidence(j, i, t) ==
    \/ Grant(j, i, t) \in msgs
    \/ j \in votes[i] /\ state[i] # "Follower" /\ currentTerm[i] = t
    \/ votedFor[j] = i /\ currentTerm[j] = t

\* Nobody votes ahead of its own term.
VotesArePast ==
    \A j, i \in Node : \A t \in Nat : Evidence(j, i, t) => t <= currentTerm[j]

\* A vote of the current term is the one in votedFor.
VotesAreKept ==
    \A j, i \in Node : \A t \in Nat :
        Evidence(j, i, t) /\ t = currentTerm[j] => votedFor[j] = i

\* Nobody votes twice in a term.
VotesAreUnique ==
    \A j, i, k \in Node : \A t \in Nat : Evidence(j, i, t) /\ Evidence(j, k, t) => i = k

\* A leader was elected by a majority.
LeaderHasQuorum ==
    \A n \in Node : state[n] = "Leader" => Cardinality(votes[n]) >= Quorum

VoteInv == VotesArePast /\ VotesAreKept /\ VotesAreUnique /\ LeaderHasQuorum

\* Two majorities of the cluster share a member.
LEMMA QuorumsIntersect ==
    ASSUME NEW P \in SUBSET Node, NEW Q \in SUBSET Node,
           Cardinality(P) >= Quorum, Cardinality(Q) >= Quorum
    PROVE  P \cap Q # {}
<1>1. IsFiniteSet(Node) /\ Cardinality(Node) \in Nat
  BY NodeAssumption, FS_CardinalityType
<1>2. IsFiniteSet(P) /\ IsFiniteSet(Q)
  BY <1>1, FS_Subset
<1>3. Cardinality(P) \in Nat /\ Cardinality(Q) \in Nat
  BY <1>2, FS_CardinalityType
<1>4. Cardinality(P) + Cardinality(Q) > Cardinality(Node)
  BY <1>1, <1>3 DEF Quorum
<1> QED
  BY <1>1, <1>4, FS_MajoritiesIntersect

\* The votes on record and the quorum rule leave room for one leader a term.
LEMMA VoteInvImpliesElectionSafety ==
    ASSUME TypeOK, VoteInv
    PROVE  ElectionSafety
<1> SUFFICES ASSUME NEW i \in Node, NEW k \in Node, state[i] = "Leader", state[k] = "Leader",
                    currentTerm[i] = currentTerm[k]
             PROVE  i = k
  BY DEF ElectionSafety, Leaders
<1>1. votes[i] \in SUBSET Node /\ votes[k] \in SUBSET Node /\ currentTerm[i] \in Nat
  BY DEF TypeOK, ElectionTypes
<1>2. votes[i] \cap votes[k] # {}
  BY <1>1, QuorumsIntersect DEF VoteInv, LeaderHasQuorum
<1>3. PICK j \in Node : j \in votes[i] /\ j \in votes[k]
  BY <1>1, <1>2
<1>4. Evidence(j, i, currentTerm[i]) /\ Evidence(j, k, currentTerm[i])
  BY <1>3 DEF Evidence
<1> QED
  BY <1>1, <1>3, <1>4 DEF VoteInv, VotesAreUnique

\* A step that records no new vote, moves no term back and forgets no vote of
\* an unchanged term preserves the invariant.
LEMMA NoNewEvidence ==
    ASSUME TypeOK, TypeOK', VoteInv, LeaderHasQuorum',
           \A j, i \in Node : \A t \in Nat : Evidence(j, i, t)' => Evidence(j, i, t),
           \A j \in Node : currentTerm[j] <= currentTerm'[j],
           \A j \in Node : currentTerm'[j] = currentTerm[j] => votedFor'[j] = votedFor[j]
    PROVE  VoteInv'
<1>1. \A j \in Node : currentTerm[j] \in Nat /\ currentTerm'[j] \in Nat
  BY DEF TypeOK, ElectionTypes
<1>2. VotesArePast'
  <2> SUFFICES ASSUME NEW j \in Node, NEW i \in Node, NEW t \in Nat, Evidence(j, i, t)'
               PROVE  t <= currentTerm'[j]
    BY DEF VotesArePast
  <2>1. Evidence(j, i, t)
    OBVIOUS
  <2>2. t <= currentTerm[j]
    BY <2>1 DEF VoteInv, VotesArePast
  <2> QED
    BY <1>1, <2>2
<1>3. VotesAreKept'
  <2> SUFFICES ASSUME NEW j \in Node, NEW i \in Node, NEW t \in Nat, Evidence(j, i, t)',
                      t = currentTerm'[j]
               PROVE  votedFor'[j] = i
    BY DEF VotesAreKept
  <2>1. Evidence(j, i, t)
    OBVIOUS
  <2>2. t <= currentTerm[j]
    BY <2>1 DEF VoteInv, VotesArePast
  <2>3. t = currentTerm[j] /\ currentTerm'[j] = currentTerm[j]
    BY <1>1, <2>2
  <2>4. votedFor[j] = i
    BY <2>1, <2>3 DEF VoteInv, VotesAreKept
  <2> QED
    BY <2>3, <2>4
<1>4. VotesAreUnique'
  <2> SUFFICES ASSUME NEW j \in Node, NEW i \in Node, NEW k \in Node, NEW t \in Nat,
                      Evidence(j, i, t)', Evidence(j, k, t)'
               PROVE  i = k
    BY DEF VotesAreUnique
  <2>1. Evidence(j, i, t) /\ Evidence(j, k, t)
    OBVIOUS
  <2> QED
    BY <2>1 DEF VoteInv, VotesAreUnique
<1> QED
  BY <1>2, <1>3, <1>4 DEF VoteInv

\* A step that records one new vote, of j0 for i0 in term t0, preserves the
\* invariant when j0 had not voted for anybody else in that term.
LEMMA OneNewVote ==
    ASSUME TypeOK, TypeOK', VoteInv, LeaderHasQuorum',
           NEW j0 \in Node, NEW i0 \in Node, NEW t0 \in Nat,
           \A j, i \in Node : \A t \in Nat :
               Evidence(j, i, t)' => Evidence(j, i, t) \/ (j = j0 /\ i = i0 /\ t = t0),
           \A j \in Node : currentTerm[j] <= currentTerm'[j],
           \A j \in Node \ {j0} :
               currentTerm'[j] = currentTerm[j] => votedFor'[j] = votedFor[j],
           currentTerm'[j0] = t0, votedFor'[j0] = i0,
           currentTerm[j0] = t0 => votedFor[j0] \in {Nobody, i0}
    PROVE  VoteInv'
<1>1. \A j \in Node : currentTerm[j] \in Nat /\ currentTerm'[j] \in Nat
  BY DEF TypeOK, ElectionTypes
<1>2. VotesArePast'
  <2> SUFFICES ASSUME NEW j \in Node, NEW i \in Node, NEW t \in Nat, Evidence(j, i, t)'
               PROVE  t <= currentTerm'[j]
    BY DEF VotesArePast
  <2>1. CASE Evidence(j, i, t)
    <3>1. t <= currentTerm[j]
      BY <2>1 DEF VoteInv, VotesArePast
    <3> QED
      BY <1>1, <3>1
  <2>2. CASE j = j0 /\ t = t0
    BY <2>2
  <2> QED
    BY <2>1, <2>2
<1>3. ASSUME NEW i \in Node, Evidence(j0, i, t0)
      PROVE  i = i0
  <2>1. t0 <= currentTerm[j0]
    BY <1>3 DEF VoteInv, VotesArePast
  <2>2. currentTerm[j0] = t0
    BY <1>1, <2>1
  <2>3. votedFor[j0] = i
    BY <1>3, <2>2 DEF VoteInv, VotesAreKept
  <2> QED
    BY <2>2, <2>3, NodeAssumption
<1>4. VotesAreKept'
  <2> SUFFICES ASSUME NEW j \in Node, NEW i \in Node, NEW t \in Nat, Evidence(j, i, t)',
                      t = currentTerm'[j]
               PROVE  votedFor'[j] = i
    BY DEF VotesAreKept
  <2>1. CASE j = j0
    BY <1>3, <2>1
  <2>2. CASE j # j0
    <3>1. Evidence(j, i, t)
      BY <2>2
    <3>2. t <= currentTerm[j]
      BY <3>1 DEF VoteInv, VotesArePast
    <3>3. t = currentTerm[j] /\ currentTerm'[j] = currentTerm[j]
      BY <1>1, <3>2
    <3>4. votedFor[j] = i
      BY <3>1, <3>3 DEF VoteInv, VotesAreKept
    <3> QED
      BY <2>2, <3>3, <3>4
  <2> QED
    BY <2>1, <2>2
<1>5. VotesAreUnique'
  <2> SUFFICES ASSUME NEW j \in Node, NEW i \in Node, NEW k \in Node, NEW t \in Nat,
                      Evidence(j, i, t)', Evidence(j, k, t)'
               PROVE  i = k
    BY DEF VotesAreUnique
  <2>1. CASE j = j0 /\ t = t0
    BY <1>3, <2>1
  <2>2. CASE ~(j = j0 /\ t = t0)
    <3>1. Evidence(j, i, t) /\ Evidence(j, k, t)
      BY <2>2
    <3> QED
      BY <3>1 DEF VoteInv, VotesAreUnique
  <2> QED
    BY <2>1, <2>2
<1> QED
  BY <1>2, <1>4, <1>5 DEF VoteInv

\* No reply that grants a vote enters the network.
NoNewGrant ==
    \A j, i \in Node : \A t \in Nat : Grant(j, i, t) \in msgs' => Grant(j, i, t) \in msgs

\* Messages of other kinds grant no vote.
LEMMA OtherMessages ==
    ASSUME NEW X, msgs' \subseteq msgs \cup X, \A x \in X : x.type # "RequestVoteRes"
    PROVE  NoNewGrant
<1> SUFFICES ASSUME NEW j \in Node, NEW i \in Node, NEW t \in Nat, Grant(j, i, t) \in msgs'
             PROVE  Grant(j, i, t) \in msgs
  BY DEF NoNewGrant
<1>1. Grant(j, i, t).type = "RequestVoteRes"
  BY DEF Grant
<1> QED
  BY <1>1

\* Steps that leave the election variables alone.
LEMMA QuietStep ==
    ASSUME TypeOK, TypeOK', VoteInv, UNCHANGED electionVars, NoNewGrant
    PROVE  VoteInv'
<1>1. UNCHANGED <<state, currentTerm, votedFor, votes>>
  BY DEF electionVars
<1>2. LeaderHasQuorum'
  BY <1>1 DEF VoteInv, LeaderHasQuorum, Quorum
<1>3. \A j, i \in Node : \A t \in Nat : Evidence(j, i, t)' => Evidence(j, i, t)
  BY <1>1 DEF Evidence, NoNewGrant, Grant
<1>4. \A j \in Node : currentTerm[j] <= currentTerm'[j]
  BY <1>1 DEF TypeOK, ElectionTypes
<1> QED
  BY <1>1, <1>2, <1>3, <1>4, NoNewEvidence

\* Steps that adopt a term: a higher one from a reply, or one that is not
\* lower from a leader.
LEMMA AdoptStep ==
    ASSUME TypeOK, TypeOK', VoteInv, NoNewGrant, NEW n \in Node, NEW term \in Nat,
           \/ term > currentTerm[n] /\ StepDown(n, term)
           \/ term >= currentTerm[n] /\ FollowLeader(n, term)
    PROVE  VoteInv'
<1>1. /\ state' = [state EXCEPT ![n] = "Follower"]
      /\ currentTerm' = [currentTerm EXCEPT ![n] = term]
      /\ votes' = [votes EXCEPT ![n] = {}]
      /\ term >= currentTerm[n]
  BY DEF StepDown, FollowLeader, TypeOK, ElectionTypes
<1>2. votedFor' = [votedFor EXCEPT ![n] = IF term > currentTerm[n] THEN Nobody ELSE @]
  BY DEF StepDown, FollowLeader
<1>3. ElectionTypes
  BY DEF TypeOK
<1>4. LeaderHasQuorum'
  BY <1>1, <1>3 DEF ElectionTypes, VoteInv, LeaderHasQuorum, Quorum
<1>5. \A j \in Node : currentTerm[j] <= currentTerm'[j]
  BY <1>1, <1>3 DEF ElectionTypes
<1>6. \A j \in Node : currentTerm'[j] = currentTerm[j] => votedFor'[j] = votedFor[j]
  BY <1>1, <1>2, <1>3 DEF ElectionTypes
<1>7. ASSUME NEW j \in Node, NEW i \in Node, NEW t \in Nat, Evidence(j, i, t)'
      PROVE  Evidence(j, i, t)
  <2>1. CASE Grant(j, i, t)' \in msgs'
    BY <2>1 DEF NoNewGrant, Evidence, Grant
  <2>2. CASE j \in votes'[i] /\ state'[i] # "Follower" /\ currentTerm'[i] = t
    BY <1>1, <1>3, <2>2 DEF ElectionTypes, Evidence
  <2>3. CASE votedFor'[j] = i /\ currentTerm'[j] = t
    <3>1. currentTerm'[j] = currentTerm[j]
      BY <1>1, <1>2, <1>3, <2>3, NodeAssumption DEF ElectionTypes
    <3> QED
      BY <1>6, <2>3, <3>1 DEF Evidence
  <2> QED
    BY <1>7, <2>1, <2>2, <2>3 DEF Evidence
<1> QED
  BY <1>4, <1>5, <1>6, <1>7, NoNewEvidence

\* startElection records the candidate's vote for itself in a new term.
LEMMA StartElectionVotes ==
    ASSUME TypeOK, TypeOK', VoteInv, NEW n \in Node, StartElection(n)
    PROVE  VoteInv'
<1> DEFINE t0 == currentTerm[n] + 1
<1>1. /\ state' = [state EXCEPT ![n] = "Candidate"]
      /\ currentTerm' = [currentTerm EXCEPT ![n] = t0]
      /\ votedFor' = [votedFor EXCEPT ![n] = n]
      /\ votes' = [votes EXCEPT ![n] = {n}]
  BY DEF StartElection
<1>2. ElectionTypes /\ t0 \in Nat /\ currentTerm[n] < t0
  BY DEF TypeOK, ElectionTypes
<1>3. NoNewGrant
  <2> DEFINE requests ==
          {[type |-> "RequestVote", from |-> n, to |-> p, term |-> currentTerm[n] + 1,
            lastLogIndex |-> LastLogIndex(n), lastLogTerm |-> LastLogTerm(n),
            conn |-> TRUE] : p \in Peers(n)}
  <2>1. msgs' = msgs \cup requests
    BY DEF StartElection
  <2>2. ASSUME NEW x \in requests PROVE x.type # "RequestVoteRes"
    <3>1. PICK p \in Peers(n) :
            x = [type |-> "RequestVote", from |-> n, to |-> p, term |-> currentTerm[n] + 1,
                 lastLogIndex |-> LastLogIndex(n), lastLogTerm |-> LastLogTerm(n),
                 conn |-> TRUE]
      BY Zenon
    <3>2. x.type = "RequestVote"
      BY <3>1, Zenon
    <3> QED
      BY <3>2
  <2> HIDE DEF requests
  <2> QED
    BY <2>1, <2>2, OtherMessages
<1>4. LeaderHasQuorum'
  BY <1>1, <1>2 DEF ElectionTypes, VoteInv, LeaderHasQuorum, Quorum
<1> HIDE DEF t0
<1>5. \A j \in Node : currentTerm[j] <= currentTerm'[j]
  BY <1>1, <1>2 DEF ElectionTypes
<1>6. \A j \in Node \ {n} : currentTerm'[j] = currentTerm[j] => votedFor'[j] = votedFor[j]
  BY <1>1, <1>2 DEF ElectionTypes
<1>7. ASSUME NEW j \in Node, NEW i \in Node, NEW t \in Nat, Evidence(j, i, t)'
      PROVE  Evidence(j, i, t) \/ (j = n /\ i = n /\ t = t0)
  <2>1. CASE Grant(j, i, t)' \in msgs'
    BY <1>3, <2>1 DEF NoNewGrant, Evidence, Grant
  <2>2. CASE j \in votes'[i] /\ state'[i] # "Follower" /\ currentTerm'[i] = t
    BY <1>1, <1>2, <2>2 DEF ElectionTypes, Evidence
  <2>3. CASE votedFor'[j] = i /\ currentTerm'[j] = t
    BY <1>1, <1>2, <2>3 DEF ElectionTypes, Evidence
  <2> QED
    BY <1>7, <2>1, <2>2, <2>3 DEF Evidence
<1>8. currentTerm'[n] = t0 /\ votedFor'[n] = n /\ currentTerm[n] # t0
  BY <1>1, <1>2 DEF ElectionTypes
<1> QED
  BY <1>2, <1>4, <1>5, <1>6, <1>7, <1>8, OneNewVote

\* handleRequestVote records at most one vote, and only when the voter has not
\* given it to another candidate of the same term.
LEMMA HandleRequestVoteVotes ==
    ASSUME TypeOK, TypeOK', VoteInv, NEW m \in RequestVote, HandleRequestVote(m)
    PROVE  VoteInv'
<1> DEFINE n     == m.to
           c     == m.from
           newer == m.term > currentTerm[n]
           grant == /\ m.term >= currentTerm[n]
                    /\ newer \/ VoteIsFree(n, c)
                    /\ IsLogUpToDate(n, m.lastLogIndex, m.lastLogTerm)
           t0    == IF newer THEN m.term ELSE currentTerm[n]
<1>1. n \in Node /\ c \in Node /\ m.term \in Nat
  BY DEF RequestVote
<1>2. ElectionTypes
  BY DEF TypeOK
<1>3. /\ currentTerm' = [currentTerm EXCEPT ![n] = t0]
      /\ state' = [state EXCEPT ![n] = IF newer THEN "Follower" ELSE @]
      /\ votes' = [votes EXCEPT ![n] = IF newer THEN {} ELSE @]
      /\ votedFor' = [votedFor EXCEPT ![n] = IF grant THEN c ELSE IF newer THEN Nobody ELSE @]
      /\ Reply(m, VoteResponse(m, currentTerm'[n], grant))
  BY Zenon DEF HandleRequestVote
<1>4. t0 \in Nat /\ currentTerm[n] <= t0 /\ (~newer => t0 = currentTerm[n])
        /\ (newer => t0 > currentTerm[n])
  BY <1>1, <1>2 DEF ElectionTypes
<1>5. grant => newer \/ votedFor[n] \in {Nobody, c}
  BY DEF VoteIsFree
<1>6. currentTerm'[n] = t0
  BY <1>1, <1>2, <1>3 DEF ElectionTypes
<1>7. ASSUME NEW j \in Node, NEW i \in Node, NEW t \in Nat, Grant(j, i, t) \in msgs'
      PROVE  Grant(j, i, t) \in msgs \/ (grant /\ j = n /\ i = c /\ t = t0)
  <2>1. CASE Grant(j, i, t) = VoteResponse(m, t0, grant)
    <3>1. /\ Grant(j, i, t).from = j /\ Grant(j, i, t).to = i /\ Grant(j, i, t).term = t
          /\ Grant(j, i, t).voteGranted = TRUE
      BY DEF Grant
    <3>2. /\ VoteResponse(m, t0, grant).from = n /\ VoteResponse(m, t0, grant).to = c
          /\ VoteResponse(m, t0, grant).term = t0
          /\ VoteResponse(m, t0, grant).voteGranted = grant
      BY DEF VoteResponse
    <3> QED
      BY <2>1, <3>1, <3>2, Zenon
  <2> QED
    BY <1>3, <1>6, <1>7, <2>1, Zenon DEF Reply
<1> HIDE DEF newer, grant, t0
<1>8. LeaderHasQuorum'
  <2> SUFFICES ASSUME NEW k \in Node, state'[k] = "Leader"
               PROVE  Cardinality(votes'[k]) >= Quorum
    BY DEF LeaderHasQuorum, Quorum
  <2>1. state[k] = "Leader" /\ votes'[k] = votes[k]
    BY <1>1, <1>2, <1>3 DEF ElectionTypes
  <2> QED
    BY <2>1, Zenon DEF VoteInv, LeaderHasQuorum
<1>9. \A j \in Node : currentTerm[j] <= currentTerm'[j]
  BY <1>1, <1>2, <1>3, <1>4 DEF ElectionTypes
<1>10. \A j \in Node \ {n} : currentTerm'[j] = currentTerm[j] /\ votedFor'[j] = votedFor[j]
  BY <1>1, <1>2, <1>3 DEF ElectionTypes
<1>11. ASSUME NEW j \in Node, NEW i \in Node, NEW t \in Nat, Evidence(j, i, t)'
       PROVE  Evidence(j, i, t) \/ (grant /\ j = n /\ i = c /\ t = t0)
  <2>1. CASE Grant(j, i, t)' \in msgs'
    BY <1>7, <2>1 DEF Evidence, Grant
  <2>2. CASE j \in votes'[i] /\ state'[i] # "Follower" /\ currentTerm'[i] = t
    <3>1. i = n => ~newer
      BY <1>1, <1>2, <1>3, <2>2 DEF ElectionTypes
    <3>2. votes'[i] = votes[i] /\ state'[i] = state[i] /\ currentTerm'[i] = currentTerm[i]
      BY <1>1, <1>2, <1>3, <1>4, <3>1 DEF ElectionTypes
    <3> QED
      BY <2>2, <3>2 DEF Evidence
  <2>3. CASE votedFor'[j] = i /\ currentTerm'[j] = t
    <3>1. CASE j # n
      BY <1>10, <2>3, <3>1 DEF Evidence
    <3>2. CASE j = n
      <4>1. votedFor'[n] = IF grant THEN c ELSE IF newer THEN Nobody ELSE votedFor[n]
        BY <1>1, <1>2, <1>3 DEF ElectionTypes
      <4> QED
        BY <1>4, <1>6, <2>3, <3>2, <4>1, NodeAssumption DEF Evidence
    <3> QED
      BY <3>1, <3>2
  <2> QED
    BY <1>11, <2>1, <2>2, <2>3 DEF Evidence
<1>12. CASE grant
  <2>1. votedFor'[n] = c
    <3>1. votedFor' = [votedFor EXCEPT ![n] = c]
      BY <1>3, <1>12, Zenon
    <3> QED
      BY <1>1, <1>2, <3>1 DEF ElectionTypes
  <2>2. currentTerm[n] = t0 => votedFor[n] \in {Nobody, c}
    <3>1. currentTerm[n] \in Nat
      BY <1>1, <1>2, Zenon DEF ElectionTypes
    <3>2. currentTerm[n] = t0 => ~newer
      BY <1>4, <3>1
    <3> QED
      BY <1>5, <1>12, <3>2, Zenon
  <2>3. ASSUME NEW j \in Node, NEW i \in Node, NEW t \in Nat, Evidence(j, i, t)'
        PROVE  Evidence(j, i, t) \/ (j = n /\ i = c /\ t = t0)
    BY <1>11, <2>3, Zenon
  <2>4. \A j \in Node \ {n} : currentTerm'[j] = currentTerm[j] => votedFor'[j] = votedFor[j]
    BY <1>10, Zenon
  <2>5. t0 \in Nat
    BY <1>4
  <2> HIDE DEF n, c
  <2> QED
    BY <1>1, <1>6, <1>8, <1>9, <2>1, <2>2, <2>3, <2>4, <2>5, OneNewVote
<1>13. CASE ~grant
  <2>1. currentTerm'[n] = currentTerm[n] => votedFor'[n] = votedFor[n]
    <3>1. currentTerm[n] \in Nat
      BY <1>1, <1>2, Zenon DEF ElectionTypes
    <3>2. currentTerm'[n] = currentTerm[n] => ~newer
      BY <1>4, <1>6, <3>1
    <3>3. ~newer => votedFor' = [votedFor EXCEPT ![n] = votedFor[n]]
      BY <1>3, <1>13, Zenon
    <3> QED
      BY <1>1, <1>2, <3>2, <3>3 DEF ElectionTypes
  <2>2. \A j, i \in Node : \A t \in Nat : Evidence(j, i, t)' => Evidence(j, i, t)
    BY <1>11, <1>13, Zenon
  <2>3. \A j \in Node : currentTerm'[j] = currentTerm[j] => votedFor'[j] = votedFor[j]
    BY <1>10, <2>1, Zenon
  <2> QED
    BY <1>8, <1>9, <2>2, <2>3, NoNewEvidence, Zenon
<1> QED
  BY <1>12, <1>13

\* Counting a vote moves its record from the reply to the candidate.
LEMMA HandleRequestVoteResVotes ==
    ASSUME TypeOK, TypeOK', VoteInv, NEW m \in msgs, m \in RequestVoteRes,
           HandleRequestVoteRes(m)
    PROVE  VoteInv'
<1> DEFINE n == m.to
<1>1. n \in Node /\ m.from \in Node /\ m.term \in Nat /\ m.voteGranted \in BOOLEAN
  BY DEF RequestVoteRes
<1>2. NoNewGrant
  BY DEF HandleRequestVoteRes, Receive, NoNewGrant
<1>3. CASE m.term > currentTerm[n]
  <2>1. currentTerm[n] \in Nat
    BY <1>1 DEF TypeOK, ElectionTypes
  <2>2. ~(m.term <= currentTerm[n])
    BY <1>1, <1>3, <2>1
  <2>3. StepDown(n, m.term)
    BY <2>2, Zenon DEF HandleRequestVoteRes
  <2> HIDE DEF n
  <2> QED
    BY <1>1, <1>2, <1>3, <2>3, AdoptStep
<1>4. CASE m.term <= currentTerm[n]
  <2>1. ElectionTypes
    BY DEF TypeOK
  <2>2. UNCHANGED <<state, currentTerm, votedFor>>
          /\ votes' = [votes EXCEPT ![n] =
                 IF m.voteGranted /\ state[n] = "Candidate" /\ m.term = currentTerm[n]
                 THEN @ \cup {m.from} ELSE @]
    <3>1. ~(m.term > currentTerm[n])
      BY <1>1, <1>4, <2>1 DEF ElectionTypes
    <3> QED
      BY <3>1, Zenon DEF HandleRequestVoteRes
  <2>3. LeaderHasQuorum'
    <3> SUFFICES ASSUME NEW k \in Node, state'[k] = "Leader"
                 PROVE  Cardinality(votes'[k]) >= Quorum
      BY DEF LeaderHasQuorum, Quorum
    <3>1. state[k] = "Leader"
      BY <2>2, Zenon
    <3>2. votes'[k] = votes[k]
      BY <1>1, <2>1, <2>2, <3>1 DEF ElectionTypes
    <3> QED
      BY <3>1, <3>2, Zenon DEF VoteInv, LeaderHasQuorum
  <2>4. ASSUME NEW j \in Node, NEW i \in Node, NEW t \in Nat, Evidence(j, i, t)'
        PROVE  Evidence(j, i, t)
    <3>1. CASE Grant(j, i, t)' \in msgs'
      BY <1>2, <3>1 DEF NoNewGrant, Evidence, Grant
    <3>2. CASE votedFor'[j] = i /\ currentTerm'[j] = t
      BY <2>2, <3>2 DEF Evidence
    <3>3. CASE /\ j \in votes'[i] /\ state'[i] # "Follower" /\ currentTerm'[i] = t
      <4>1. CASE j \in votes[i]
        BY <2>2, <3>3, <4>1 DEF Evidence
      <4>2. CASE j \notin votes[i]
        <5>1. i = n /\ j = m.from /\ m.voteGranted /\ m.term = t
          BY <1>1, <2>1, <2>2, <3>3, <4>2 DEF ElectionTypes
        <5>2. m = Grant(j, i, t)
          BY <1>1, <5>1 DEF Grant, RequestVoteRes
        <5> QED
          BY <5>2 DEF Evidence
      <4> QED
        BY <4>1, <4>2
    <3> QED
      BY <2>4, <3>1, <3>2, <3>3 DEF Evidence
  <2>5. \A j \in Node : currentTerm[j] <= currentTerm'[j]
    BY <2>1, <2>2 DEF ElectionTypes
  <2> QED
    BY <2>2, <2>3, <2>4, <2>5, NoNewEvidence, Zenon
<1> QED
  BY <1>1, <1>3, <1>4 DEF TypeOK, ElectionTypes

\* becomeLeader requires a majority.
LEMMA BecomeLeaderVotes ==
    ASSUME TypeOK, TypeOK', VoteInv, NEW n \in Node, BecomeLeader(n)
    PROVE  VoteInv'
<1>1. /\ state[n] = "Candidate" /\ state' = [state EXCEPT ![n] = "Leader"]
      /\ Cardinality(votes[n]) >= Quorum
      /\ UNCHANGED <<currentTerm, votedFor, votes, msgs>>
  BY DEF BecomeLeader
<1>2. ElectionTypes
  BY DEF TypeOK
<1>3. LeaderHasQuorum'
  BY <1>1, <1>2 DEF ElectionTypes, VoteInv, LeaderHasQuorum, Quorum
<1>4. \A j, i \in Node : \A t \in Nat : Evidence(j, i, t)' => Evidence(j, i, t)
  BY <1>1, <1>2 DEF ElectionTypes, Evidence, Grant
<1>5. \A j \in Node : currentTerm[j] <= currentTerm'[j]
  BY <1>1, <1>2 DEF ElectionTypes
<1> QED
  BY <1>1, <1>3, <1>4, <1>5, NoNewEvidence

\* One message of another kind grants no vote.
LEMMA OtherMessage ==
    ASSUME NEW x, msgs' \subseteq msgs \cup {x}, x.type # "RequestVoteRes"
    PROVE  NoNewGrant
<1> SUFFICES ASSUME NEW j \in Node, NEW i \in Node, NEW t \in Nat, Grant(j, i, t) \in msgs'
             PROVE  Grant(j, i, t) \in msgs
  BY DEF NoNewGrant
<1>1. Grant(j, i, t).type = "RequestVoteRes"
  BY DEF Grant
<1>2. Grant(j, i, t) # x
  BY <1>1, Zenon
<1> QED
  BY <1>2, Zenon

\* A reply of another kind grants no vote.
LEMMA OtherReplies ==
    ASSUME NEW m, NEW x, Reply(m, x), x.type # "RequestVoteRes"
    PROVE  NoNewGrant
<1>1. msgs' \subseteq msgs \cup {x}
  BY DEF Reply
<1> QED
  BY <1>1, OtherMessage, Zenon

\* handleAppendEntries and handleInstallSnapshot adopt the leader's term or
\* leave the election variables alone.
LEMMA LeaderRequestVotes ==
    ASSUME TypeOK, TypeOK', VoteInv, NEW m, m \in AppendEntries \cup InstallSnapshot,
           HandleAppendEntries(m) \/ HandleInstallSnapshot(m)
    PROVE  VoteInv'
<1>1. m.to \in Node /\ m.term \in Nat
  BY DEF AppendEntries, InstallSnapshot
<1>2. UNCHANGED electionVars \/ (m.term >= currentTerm[m.to] /\ FollowLeader(m.to, m.term))
  BY Zenon DEF HandleAppendEntries, RejectStaleAppend, RejectPrevLog, AcceptAppend, FailAppend,
     HandleInstallSnapshot
<1>3. \A t, s : AppendResponse(m, t, s).type # "RequestVoteRes"
  BY DEF AppendResponse
<1>4. \A n, to, t, s, i : SnapshotResponse(n, to, t, s, i).type # "RequestVoteRes"
  BY DEF SnapshotResponse
<1>5. \/ Receive(m)
      \/ \E t, s : Reply(m, AppendResponse(m, t, s))
      \/ \E n, to, t, s, i : Reply(m, SnapshotResponse(n, to, t, s, i))
  BY Zenon DEF HandleAppendEntries, RejectStaleAppend, RejectPrevLog, AcceptAppend, FailAppend,
     HandleInstallSnapshot
<1>6. NoNewGrant
  <2>1. CASE Receive(m)
    BY <2>1 DEF Receive, NoNewGrant
  <2> QED
    BY <1>3, <1>4, <1>5, <2>1, OtherReplies
<1> QED
  BY <1>1, <1>2, <1>6, QuietStep, AdoptStep

\* The replies to a leader make it step down or leave the election variables
\* alone.
LEMMA LeaderReplyVotes ==
    ASSUME TypeOK, TypeOK', VoteInv, NEW m, m \in AppendEntriesRes \cup InstallSnapshotRes,
           HandleAppendEntriesRes(m) \/ HandleInstallSnapshotRes(m)
    PROVE  VoteInv'
<1>1. m.to \in Node /\ m.term \in Nat
  BY DEF AppendEntriesRes, InstallSnapshotRes
<1>2. UNCHANGED electionVars \/ (m.term > currentTerm[m.to] /\ StepDown(m.to, m.term))
  BY DEF HandleAppendEntriesRes, HandleInstallSnapshotRes
<1>3. NoNewGrant
  BY DEF HandleAppendEntriesRes, HandleInstallSnapshotRes, Receive, NoNewGrant
<1> QED
  BY <1>1, <1>2, <1>3, QuietStep, AdoptStep

\* Steps of one node that have nothing to do with elections.
LEMMA OtherNodeStepVotes ==
    ASSUME TypeOK, TypeOK', VoteInv, NEW n \in Node, NodeStep(n),
           ~StartElection(n), ~BecomeLeader(n)
    PROVE  VoteInv'
<1>1. UNCHANGED electionVars
  BY Zenon DEF NodeStep, SubmitPublish, SubmitPersisted, SubmitPersistFailed, SubmitReturn,
     ApplyTake, ApplyRun, CompactSave, CompactFinish, InstallDecoded, InstallFinish, InstallFail
<1>2. UNCHANGED msgs \/ (\E s \in BOOLEAN : ReplyInstall(n, s))
  BY Zenon DEF NodeStep, SubmitPublish, SubmitPersisted, SubmitPersistFailed, SubmitReturn,
     ApplyTake, ApplyRun, CompactSave, CompactFinish, InstallDecoded, InstallFinish, InstallFail
<1>3. NoNewGrant
  <2>1. CASE UNCHANGED msgs
    BY <2>1 DEF NoNewGrant
  <2>2. ASSUME NEW s \in BOOLEAN, ReplyInstall(n, s)
        PROVE  NoNewGrant
    <3> DEFINE x == SnapshotResponse(n, snapTask[n].from, currentTerm[n], s,
                                     snapTask[n].snap.index)
    <3>1. msgs' \subseteq msgs \cup {x}
      BY <2>2 DEF ReplyInstall
    <3>2. x.type # "RequestVoteRes"
      BY DEF SnapshotResponse
    <3> HIDE DEF x
    <3> QED
      BY <3>1, <3>2, OtherMessage, Zenon
  <2> QED
    BY <1>2, <2>1, <2>2
<1> QED
  BY <1>1, <1>3, QuietStep

\* A leader's requests carry no vote.
LEMMA PeerStepVotes ==
    ASSUME TypeOK, TypeOK', VoteInv, NEW n \in Node, NEW p \in Peers(n), PeerStep(n, p)
    PROVE  VoteInv'
<1>1. UNCHANGED electionVars
  BY Zenon DEF PeerStep, SendAppendEntries, StartCatchUp, SendInstallSnapshot
<1>2. ASSUME NEW x, Send(x), x.type # "RequestVoteRes"
      PROVE  NoNewGrant
  <2>1. msgs' \subseteq msgs \cup {x}
    BY <1>2 DEF Send
  <2> QED
    BY <1>2, <2>1, OtherMessage, Zenon
<1>3. NoNewGrant
  <2>1. CASE SendAppendEntries(n, p)
    BY <1>2, <2>1, Zenon DEF SendAppendEntries
  <2>2. CASE StartCatchUp(n, p)
    BY <2>2, Zenon DEF StartCatchUp, NoNewGrant
  <2>3. CASE SendInstallSnapshot(n, p)
    BY <1>2, <2>3 DEF SendInstallSnapshot
  <2> QED
    BY <2>1, <2>2, <2>3 DEF PeerStep
<1> QED
  BY <1>1, <1>3, QuietStep

\* Every step of the cluster preserves the vote invariant.
LEMMA VoteInvStep ==
    ASSUME TypeOK, TypeOK', VoteInv, Next
    PROVE  VoteInv'
<1>1. ASSUME NEW n \in Node, NodeStep(n)
      PROVE  VoteInv'
  BY <1>1, StartElectionVotes, BecomeLeaderVotes, OtherNodeStepVotes
<1>2. ASSUME NEW n \in Node, NEW p \in Peers(n), PeerStep(n, p)
      PROVE  VoteInv'
  BY <1>2, PeerStepVotes
<1>3. ASSUME NEW m \in msgs, Drop(m)
      PROVE  VoteInv'
  BY <1>3, QuietStep DEF Drop, Receive, NoNewGrant
<1>4. ASSUME NEW m \in msgs, Deliver(m)
      PROVE  VoteInv'
  <2>1. m \in Message
    BY DEF TypeOK
  <2> QED
    BY <1>4, <2>1, MessageKinds, HandleRequestVoteVotes, HandleRequestVoteResVotes,
       LeaderRequestVotes, LeaderReplyVotes DEF Deliver
<1> QED
  BY <1>1, <1>2, <1>3, <1>4 DEF Next

\* Initially nobody has voted.
LEMMA VoteInvInit ==
    ASSUME Init
    PROVE  VoteInv
<1>1. \A j, i \in Node : \A t \in Nat : ~Evidence(j, i, t)
  BY NodeAssumption DEF Init, Evidence
<1>2. \A n \in Node : state[n] # "Leader"
  BY DEF Init
<1> QED
  BY <1>1, <1>2 DEF VoteInv, VotesArePast, VotesAreKept, VotesAreUnique, LeaderHasQuorum

\* A step that changes nothing keeps the vote invariant.
LEMMA VoteInvStutter ==
    ASSUME VoteInv, UNCHANGED vars
    PROVE  VoteInv'
<1>1. /\ state' = state /\ currentTerm' = currentTerm /\ votedFor' = votedFor
      /\ votes' = votes /\ msgs' = msgs
  BY Zenon DEF vars, electionVars
<1>2. ASSUME NEW j \in Node, NEW i \in Node, NEW t \in Nat
      PROVE  Evidence(j, i, t)' <=> Evidence(j, i, t)
  <2>1. Grant(j, i, t)' \in msgs' <=> Grant(j, i, t) \in msgs
    BY <1>1, Zenon DEF Grant
  <2> QED
    BY <1>1, <2>1, Zenon DEF Evidence
<1> QED
  BY <1>1, <1>2 DEF VoteInv, VotesArePast, VotesAreKept, VotesAreUnique, LeaderHasQuorum, Quorum

\* Election safety: in a cluster of any size whose processes keep running
\* there is at most one leader per term, whatever messages are lost, delayed
\* or reordered and whatever disk operations fail.
THEOREM ElectionSafetyTheorem == Spec => []ElectionSafety
<1>1. Init => VoteInv
  BY VoteInvInit
<1>2. TypeInv /\ TypeInv' /\ VoteInv /\ [Next]_vars => VoteInv'
  BY VoteInvStep, VoteInvStutter DEF TypeInv
<1>3. TypeInv /\ VoteInv => ElectionSafety
  BY VoteInvImpliesElectionSafety DEF TypeInv
<1> QED
  BY <1>1, <1>2, <1>3, TypeInvariant, PTL DEF Spec

-----------------------------------------------------------------------------
(* Snapshots *)

\* raft.snapshot is the snapshot that memory knows of, or the one that
\* CompactLog has just saved.
SnapFileInvariant ==
    \A n \in Node :
        snapFile[n].index = IF snapTask[n].kind = "compact" THEN snapTask[n].snap.index
                                                            ELSE snapshotIndex[n]

\* One step of the promise.
SnapshotStep ==
    \A n \in Node : /\ snapshotIndex'[n] >= snapshotIndex[n]
                    /\ snapFile'[n].index >= snapFile[n].index

\* The step leaves the snapshot of every node but n alone.
OnlySnapshotOf(n) ==
    \A k \in Node : k # n => /\ snapFile'[k] = snapFile[k]
                             /\ snapTask'[k] = snapTask[k]
                             /\ snapshotIndex'[k] = snapshotIndex[k]

\* What a step that touches the snapshot of n has to show.
LEMMA SnapFileChange ==
    ASSUME TypeInv, SnapFileInvariant, NEW n \in Node, OnlySnapshotOf(n),
           snapFile'[n].index = IF snapTask'[n].kind = "compact" THEN snapTask'[n].snap.index
                                                                 ELSE snapshotIndex'[n],
           snapshotIndex'[n] >= snapshotIndex[n], snapFile'[n].index >= snapFile[n].index
    PROVE  SnapFileInvariant' /\ SnapshotStep
<1>1. \A k \in Node : snapshotIndex[k] \in Nat /\ snapFile[k].index \in Nat
  BY DEF TypeInv, TypeOK, LogTypes, DiskTypes, Snapshot
<1>2. ASSUME NEW k \in Node
      PROVE  /\ snapFile'[k].index = IF snapTask'[k].kind = "compact"
                                     THEN snapTask'[k].snap.index ELSE snapshotIndex'[k]
             /\ snapshotIndex'[k] >= snapshotIndex[k]
             /\ snapFile'[k].index >= snapFile[k].index
  <2>1. CASE k = n
    BY <2>1
  <2>2. CASE k # n
    <3>1. /\ snapFile'[k] = snapFile[k] /\ snapTask'[k] = snapTask[k]
          /\ snapshotIndex'[k] = snapshotIndex[k]
      BY <2>2, Zenon DEF OnlySnapshotOf
    <3>2. snapFile[k].index = IF snapTask[k].kind = "compact" THEN snapTask[k].snap.index
                                                              ELSE snapshotIndex[k]
      BY Zenon DEF SnapFileInvariant
    <3>3. /\ snapshotIndex[k] >= snapshotIndex[k] /\ snapFile[k].index >= snapFile[k].index
      BY <1>1
    <3> QED
      BY <3>1, <3>2, <3>3, Zenon
  <2> QED
    BY <2>1, <2>2
<1> QED
  BY <1>2, Zenon DEF SnapFileInvariant, SnapshotStep

\* Only compaction and installs touch the snapshot; each of them keeps
\* SnapFileInvariant and moves forward.
LEMMA SnapFileStep ==
    ASSUME TypeInv, SnapFileInvariant, Next
    PROVE  SnapFileInvariant' /\ SnapshotStep
<1>1. /\ snapTask \in [Node -> SnapTask] /\ snapFile \in [Node -> Snapshot]
      /\ snapshotIndex \in [Node -> Nat]
  BY DEF TypeInv, TypeOK, SnapTypes, DiskTypes, LogTypes
<1>2. \A k \in Node : /\ snapTask[k].snap.index \in Nat /\ snapFile[k].index \in Nat
                      /\ snapshotIndex[k] \in Nat
  BY <1>1 DEF SnapTask, Snapshot
<1>3. SnapMuInvariant
  BY DEF TypeInv
<1>4. Idle.kind # "compact"
  BY DEF Idle
<1>5. ASSUME UNCHANGED <<snapshotIndex, snapFile, snapTask>>
      PROVE  SnapFileInvariant' /\ SnapshotStep
  <2>1. \A k \in Node : snapshotIndex[k] >= snapshotIndex[k] /\ snapFile[k].index >= snapFile[k].index
    BY <1>2
  <2> QED
    BY <1>5, <2>1, Zenon DEF SnapFileInvariant, SnapshotStep
<1>6. ASSUME NEW n \in Node, NodeStep(n)
      PROVE  SnapFileInvariant' /\ SnapshotStep
  <2> DEFINE snap == snapTask[n].snap
  <2>1. CASE CompactSave(n)
    <3> DEFINE saved == [index |-> raftLastApplied[n], term |-> TermAt(n, raftLastApplied[n]),
                         data |-> keys[n]]
               task  == [Idle EXCEPT !.kind = "compact", !.snap = saved]
    <3>1. /\ snapTask' = [snapTask EXCEPT ![n] = task]
          /\ snapFile' = [snapFile EXCEPT ![n] = saved]
          /\ UNCHANGED snapshotIndex /\ saved.index > snapshotIndex[n] /\ snapTask[n] = Idle
      BY <2>1 DEF CompactSave, Compactable, SaveSnapshot, logVars
    <3>2. saved.index \in Nat
      BY DEF TypeInv, TypeOK, MachineTypes
    <3> HIDE DEF saved
    <3>3. task.kind = "compact" /\ task.snap = saved
      BY DEF Idle
    <3> HIDE DEF task
    <3>4. snapFile[n].index = snapshotIndex[n]
      BY <1>4, <3>1, Zenon DEF SnapFileInvariant
    <3>5. snapTask'[n] = task /\ snapFile'[n] = saved /\ OnlySnapshotOf(n)
      BY <1>1, <3>1 DEF OnlySnapshotOf
    <3>6. snapFile'[n].index = saved.index /\ snapTask'[n].kind = "compact"
            /\ snapTask'[n].snap.index = saved.index
      BY <3>3, <3>5, Zenon
    <3>7. saved.index >= snapFile[n].index /\ snapshotIndex'[n] >= snapshotIndex[n]
      BY <1>2, <3>1, <3>2, <3>4
    <3> QED
      BY <3>5, <3>6, <3>7, SnapFileChange
  <2>2. CASE CompactFinish(n)
    <3>1. /\ snapshotIndex' = [snapshotIndex EXCEPT ![n] = snap.index]
          /\ snapTask' = [snapTask EXCEPT ![n] = Idle]
          /\ UNCHANGED snapFile /\ snapTask[n].kind = "compact"
      BY <2>2, Zenon DEF CompactFinish
    <3>2. snap.index > snapshotIndex[n] /\ snapFile[n].index = snap.index
      BY <1>3, <3>1 DEF SnapFileInvariant, SnapMuInvariant
    <3>3. snapTask'[n] = Idle /\ snapshotIndex'[n] = snap.index /\ OnlySnapshotOf(n)
      BY <1>1, <3>1 DEF OnlySnapshotOf
    <3>4. snapFile'[n].index = snapshotIndex'[n] /\ snapTask'[n].kind # "compact"
      BY <1>4, <3>1, <3>2, <3>3, Zenon
    <3>5. snapshotIndex'[n] >= snapshotIndex[n] /\ snapFile'[n].index >= snapFile[n].index
      <4>1. /\ snapFile' = snapFile /\ snapshotIndex[n] \in Nat /\ snap.index \in Nat
            /\ snapFile[n].index \in Nat
        BY <1>2, <3>1
      <4> QED
        BY <3>2, <3>3, <4>1
    <3> QED
      BY <3>3, <3>4, <3>5, SnapFileChange
  <2>3. CASE InstallDecoded(n)
    <3>1. /\ snapTask' = [snapTask EXCEPT ![n].kind = "rename"]
          /\ UNCHANGED <<snapshotIndex, snapFile>> /\ snapTask[n].kind = "decode"
      BY <2>3, Zenon DEF InstallDecoded, logVars, diskVars
    <3>2. snapTask'[n].kind = "rename" /\ OnlySnapshotOf(n)
      BY <1>1, <3>1 DEF SnapTask, OnlySnapshotOf
    <3>3. snapFile'[n].index = snapshotIndex'[n] /\ snapTask'[n].kind # "compact"
      BY <3>1, <3>2 DEF SnapFileInvariant
    <3>4. snapshotIndex'[n] >= snapshotIndex[n] /\ snapFile'[n].index >= snapFile[n].index
      BY <1>2, <3>1
    <3> QED
      BY <3>2, <3>3, <3>4, SnapFileChange
  <2>4. CASE InstallFinish(n)
    <3>1. /\ snapFile' = [snapFile EXCEPT ![n] = snap]
          /\ snapshotIndex' = [snapshotIndex EXCEPT ![n] = snap.index]
          /\ snapTask' = [snapTask EXCEPT ![n] = Idle] /\ snapTask[n].kind = "rename"
      BY <2>4, Zenon DEF InstallFinish, ReplyInstall
    <3>2. snap.index >= snapshotIndex[n] /\ snapFile[n].index = snapshotIndex[n]
      BY <1>3, <3>1 DEF SnapFileInvariant, SnapMuInvariant
    <3>3. /\ snapTask'[n] = Idle /\ snapshotIndex'[n] = snap.index /\ snapFile'[n] = snap
          /\ OnlySnapshotOf(n)
      BY <1>1, <3>1 DEF OnlySnapshotOf
    <3>4. snapFile'[n].index = snapshotIndex'[n] /\ snapTask'[n].kind # "compact"
      BY <1>4, <3>3, Zenon
    <3>5. snapshotIndex'[n] >= snapshotIndex[n] /\ snapFile'[n].index >= snapFile[n].index
      BY <1>2, <3>2, <3>3
    <3> QED
      BY <3>3, <3>4, <3>5, SnapFileChange
  <2>5. CASE InstallFail(n)
    <3>1. /\ snapTask' = [snapTask EXCEPT ![n] = Idle] /\ UNCHANGED <<snapshotIndex, snapFile>>
          /\ snapTask[n].kind \in {"decode", "rename"}
      BY <2>5, Zenon DEF InstallFail, ReplyInstall, logVars, diskVars
    <3>2. snapTask'[n] = Idle /\ OnlySnapshotOf(n)
      BY <1>1, <3>1 DEF OnlySnapshotOf
    <3>3. snapFile'[n].index = snapshotIndex'[n] /\ snapTask'[n].kind # "compact"
      BY <1>4, <3>1, <3>2 DEF SnapFileInvariant
    <3>4. snapshotIndex'[n] >= snapshotIndex[n] /\ snapFile'[n].index >= snapFile[n].index
      BY <1>2, <3>1
    <3> QED
      BY <3>2, <3>3, <3>4, SnapFileChange
  <2>6. CASE \/ StartElection(n) \/ BecomeLeader(n) \/ ApplyTake(n) \/ ApplyRun(n)
             \/ SubmitPublish(n)
             \/ \E pub \in persisting[n] : SubmitPersisted(n, pub) \/ SubmitPersistFailed(n, pub)
             \/ \E entry \in waiting[n] : SubmitReturn(n, entry)
    <3>1. UNCHANGED <<snapshotIndex, snapFile, snapVars>>
      BY <2>6, Zenon DEF StartElection, BecomeLeader, ApplyTake, ApplyRun, SubmitPublish,
         SubmitPersisted, SubmitPersistFailed, SubmitReturn, logVars, diskVars
    <3> QED
      BY <1>5, <3>1 DEF snapVars
  <2> QED
    BY <1>6, <2>1, <2>2, <2>3, <2>4, <2>5, <2>6, Zenon DEF NodeStep
<1>7. ASSUME NEW n \in Node, NEW p \in Peers(n), PeerStep(n, p)
      PROVE  SnapFileInvariant' /\ SnapshotStep
  BY <1>5, <1>7, Zenon DEF PeerStep, SendAppendEntries, StartCatchUp, SendInstallSnapshot, logVars,
     diskVars, snapVars
<1>8. ASSUME NEW m \in msgs, Deliver(m) \/ Drop(m)
      PROVE  SnapFileInvariant' /\ SnapshotStep
  <2>1. CASE m.type = "InstallSnapshot" /\ HandleInstallSnapshot(m)
    <3> DEFINE task == [kind |-> "decode", snap |-> m.snap, from |-> m.from, conn |-> m.conn]
    <3>1. m.to \in Node
      BY <2>1, MessageKinds DEF TypeInv, TypeOK, InstallSnapshot
    <3>2. UNCHANGED <<snapshotIndex, snapFile>> /\ snapTask[m.to] = Idle
      BY <2>1, Zenon DEF HandleInstallSnapshot, logVars, diskVars
    <3>3. \/ UNCHANGED snapTask
          \/ snapTask' = [snapTask EXCEPT ![m.to] = task]
      BY <2>1, Zenon DEF HandleInstallSnapshot
    <3>4. CASE UNCHANGED snapTask
      BY <1>5, <3>2, <3>4
    <3>5. CASE snapTask' = [snapTask EXCEPT ![m.to] = task]
      <4>1. task.kind # "compact"
        OBVIOUS
      <4> HIDE DEF task
      <4>2. snapTask'[m.to] = task /\ OnlySnapshotOf(m.to)
        BY <1>1, <3>1, <3>2, <3>5 DEF OnlySnapshotOf
      <4>3. snapFile[m.to].index = snapshotIndex[m.to]
        BY <1>4, <3>1, <3>2, Zenon DEF SnapFileInvariant
      <4>4. snapFile'[m.to].index = snapshotIndex'[m.to] /\ snapTask'[m.to].kind # "compact"
        BY <3>2, <4>1, <4>2, <4>3, Zenon
      <4>5. snapshotIndex'[m.to] >= snapshotIndex[m.to]
              /\ snapFile'[m.to].index >= snapFile[m.to].index
        BY <1>2, <3>1, <3>2
      <4> QED
        BY <3>1, <4>2, <4>4, <4>5, SnapFileChange
    <3> QED
      BY <3>3, <3>4, <3>5
  <2>2. CASE \/ HandleRequestVote(m) \/ HandleRequestVoteRes(m) \/ HandleAppendEntries(m)
             \/ HandleAppendEntriesRes(m) \/ HandleInstallSnapshotRes(m) \/ Drop(m)
    <3>1. UNCHANGED <<snapshotIndex, snapFile, snapVars>>
      BY <2>2, Zenon DEF HandleRequestVote, HandleRequestVoteRes, HandleAppendEntries,
         RejectStaleAppend, RejectPrevLog, AcceptAppend, FailAppend, HandleAppendEntriesRes,
         HandleInstallSnapshotRes, Drop, logVars, diskVars
    <3> QED
      BY <1>5, <3>1 DEF snapVars
  <2> QED
    BY <1>8, <2>1, <2>2 DEF Deliver
<1> QED
  BY <1>6, <1>7, <1>8 DEF Next

\* A step that changes nothing keeps the snapshot where it is.
LEMMA SnapFileStutter ==
    ASSUME TypeInv, SnapFileInvariant, UNCHANGED vars
    PROVE  SnapFileInvariant' /\ SnapshotStep
<1>1. UNCHANGED <<snapshotIndex, snapFile, snapTask>>
  BY DEF vars, logVars, diskVars, snapVars
<1>2. \A n \in Node : snapshotIndex[n] \in Nat /\ snapFile[n].index \in Nat
  BY DEF TypeInv, TypeOK, LogTypes, DiskTypes, Snapshot
<1> QED
  BY <1>1, <1>2 DEF SnapFileInvariant, SnapshotStep

\* The installed snapshot never rolls back, neither raft.snapshot on disk nor
\* snapshotIndex in memory, however CompactLog and handleInstallSnapshot
\* interleave with everything else that the node does.
THEOREM SnapshotMonotonic == Spec => SnapshotNeverRollsBack
<1>1. Init => SnapFileInvariant
  <2>1. Init => /\ snapFile = [n \in Node |-> NoSnapshot] /\ snapTask = [n \in Node |-> Idle]
                /\ snapshotIndex = [n \in Node |-> 0]
    BY Zenon DEF Init
  <2>2. NoSnapshot.index = 0 /\ Idle.kind = "idle"
    BY DEF NoSnapshot, Idle
  <2> QED
    BY <2>1, <2>2 DEF SnapFileInvariant
<1>2. TypeInv /\ SnapFileInvariant /\ [Next]_vars => SnapFileInvariant' /\ SnapshotStep
  BY SnapFileStep, SnapFileStutter
<1>3. TypeInv /\ SnapFileInvariant /\ [Next]_vars =>
        [\A n \in Node : /\ snapshotIndex'[n] >= snapshotIndex[n]
                         /\ snapFile'[n].index >= snapFile[n].index]_vars
  BY <1>2 DEF SnapshotStep
<1> QED
  BY <1>1, <1>2, <1>3, TypeInvariant, PTL DEF Spec, SnapshotNeverRollsBack

\* The repeated check in CompactLog always holds: nothing overtakes a
\* compaction between SaveSnapshot and the update of the node's memory.
THEOREM CompactionTheorem == Spec => []CompactionNotSuperseded
<1>1. TypeInv => CompactionNotSuperseded
  BY DEF TypeInv, SnapMuInvariant, CompactionNotSuperseded
<1> QED
  BY <1>1, TypeInvariant, PTL

=============================================================================
