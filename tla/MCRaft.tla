------------------------------- MODULE MCRaft -------------------------------
(***************************************************************************)
(* Model-checking instances of Raft.  Nodes are model values and no        *)
(* definition distinguishes them, so they are symmetric.                   *)
(***************************************************************************)
EXTENDS RaftProperties, TLC

Symmetry == Permutations(Node)

\* Constraint: one candidate at a time.
OneCandidate == Cardinality({n \in Node : state[n] = "Candidate"}) <= 1

\* Constraint: logs of one entry, so that a second command conflicts with the
\* first one instead of following it.
OneEntryLogs == OneCandidate /\ \A n \in Node : Len(log[n]) <= 1

\* Constraint: one fault, a restart or a failed disk operation.
OneFault == failures + restarts <= 1

=============================================================================
