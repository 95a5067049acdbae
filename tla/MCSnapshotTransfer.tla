------------------------- MODULE MCSnapshotTransfer -------------------------
(***************************************************************************)
(* Two snapshots of two chunks, taken in one term, sent by two goroutines. *)
(***************************************************************************)
EXTENDS SnapshotTransfer, TLC

MCIndex  == {1, 2}
MCTermOf == [i \in MCIndex |-> 1]
MCFile   == [i \in MCIndex |-> [k \in 1 .. 2 |-> <<i, k>>]]
MCChunk  == MCIndex \X (1 .. 2)

Symmetry == Permutations(Sender)

=============================================================================
