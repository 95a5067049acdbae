------------------------------ MODULE MCGossip ------------------------------
(***************************************************************************)
(* Model-checking instances of Gossip: every node lists every other one as *)
(* a seed.                                                                 *)
(***************************************************************************)
EXTENDS Gossip

CONSTANTS n1, n2, n3

FullMesh2 == [n \in {n1, n2} |-> {n1, n2} \ {n}]
FullMesh3 == [n \in {n1, n2, n3} |-> {n1, n2, n3} \ {n}]

=============================================================================
