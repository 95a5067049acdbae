-------------------------- MODULE MCRaftOvertaking --------------------------
(***************************************************************************)
(* Instances of Raft in which requests and replies overtake each other.    *)
(* With two messages in flight all the way the instances are out of reach. *)
(* A history variable remembers that a message was sent beside another     *)
(* one, and the constraints set narrower bounds from there on.             *)
(***************************************************************************)
EXTENDS MCRaft

VARIABLE overtaking     \* two requests or replies have been in flight together

NoVotes(ms) == {m \in ms : m.type \notin {"RequestVote", "RequestVoteRes"}}

\* A request or reply leaves while a message is in flight, or an election starts
\* while two are.
SentBeside ==
    \/ msgs # {} /\ Cardinality(NoVotes(msgs')) > Cardinality(NoVotes(msgs))
    \/ Cardinality(msgs') > 3

OvertakingNext == Next /\ overtaking' = (overtaking \/ SentBeside)

OvertakingSpec == Init /\ overtaking = FALSE /\ [][OvertakingNext]_<<vars, overtaking>>

\* Constraint of the run replication: messages overtake each other in the first
\* term; over two terms one is in flight, beside the requests of an election.
FirstTermOvertakes == OneCandidate /\ (overtaking => \A n \in Node : currentTerm[n] <= 1)

\* Constraint of the run compaction.  Messages overtake each other with one
\* command and one compaction.  With one message in flight there are two commands
\* around a compaction, or two compactions, and an install, that meet on a node.
CompactionCases ==
    /\ submits <= 1 \/ (applies <= 1 /\ compactions <= 1)
    /\ overtaking => submits <= 1 /\ acked = {} /\ applies <= 1 /\ compactions <= 1
=============================================================================
