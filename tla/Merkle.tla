------------------------------- MODULE Merkle -------------------------------
(***************************************************************************)
(* The Merkle tree of internal/zero/merkle: levels, root, inclusion proofs *)
(* and consistency proofs.  A hash is a term: SHA-256 is taken to be       *)
(* injective, and the 0x00/0x01 prefixes are the tag of the term.  A tree  *)
(* is the sequence of its leaf hashes; levels and root follow from it,     *)
(* because every Add ends in rebuild.                                      *)
(***************************************************************************)
EXTENDS Integers, SequencesExt

hashNode(left, right) == <<"node", left, right>>

\* Mutant of NextLevel: the odd node is paired with itself.
NextLevelDuplicating(level) ==
    [i \in 1 .. (Len(level) + 1) \div 2 |->
        hashNode(level[2 * i - 1], level[IF 2 * i <= Len(level) THEN 2 * i ELSE 2 * i - 1])]

\* rebuild: one round over a level; the odd node at its end is promoted.
NextLevel(level) ==
    [i \in 1 .. (Len(level) + 1) \div 2 |->
        IF 2 * i <= Len(level) THEN hashNode(level[2 * i - 1], level[2 * i])
                               ELSE level[2 * i - 1]]

\* rebuild: t.levels, from the leaves up to the level of one node.
rebuild(leaves) ==
    LET level[k \in 0 .. Len(leaves)] == IF k = 0 THEN leaves ELSE NextLevel(level[k - 1])
        height == Min({k \in 0 .. Len(leaves) : Len(level[k]) <= 1})
    IN  [k \in 1 .. height + 1 |-> level[k - 1]]

NoRoot == <<"no root">>

Root(leaves) == IF leaves = <<>> THEN NoRoot ELSE Last(rebuild(leaves))[1]

\* GetProof of a tree with the given t.levels: the sibling at every level that
\* has one.  Indices count from 0 as in the code.  dir: 0 = left, 1 = right.
GetProof(levels, index) ==
    LET idx(k) == index \div 2^(k - 1)
        sibling(k) == IF idx(k) % 2 = 0 THEN idx(k) + 1 ELSE idx(k) - 1
        step(k) == [hash |-> levels[k][sibling(k) + 1], dir |-> 1 - (idx(k) % 2)]
        present == SelectSeq([k \in 1 .. Len(levels) - 1 |-> k],
                             LAMBDA k : sibling(k) < Len(levels[k]))
    IN  [index |-> index, leaf |-> levels[1][index + 1], size |-> Len(levels[1]),
         root |-> Last(levels)[1],
         path |-> [j \in DOMAIN present |-> step(present[j])]]

\* VerifyProof: the leaf hashed up along the path gives the declared root.
VerifyProof(proof) ==
    /\ 0 <= proof.index /\ proof.index < proof.size
    /\ FoldLeft(LAMBDA h, s : IF s.dir = 0 THEN hashNode(s.hash, h) ELSE hashNode(h, s.hash),
                proof.leaf, proof.path) = proof.root

\* consistencyPath: the old root, then what the walk over the levels collects.
consistencyPath(m, leaves) ==
    LET levels == rebuild(leaves)
        up[k \in 1 .. Len(levels)] == IF k = 1 THEN m ELSE (up[k - 1] + 1) \div 2
        n(k) == Len(levels[k])
        taken == SelectSeq([k \in 1 .. Len(levels) - 1 |-> k],
                           LAMBDA k : up[k] < n(k) /\ up[k] % 2 = 0)
        node(k) == IF up[k] + 1 < n(k) THEN levels[k][up[k] + 2] ELSE levels[k][up[k] + 1]
    IN  IF m = Len(leaves) THEN <<>>
        ELSE <<Root(SubSeq(leaves, 1, m))>> \o [j \in DOMAIN taken |-> node(taken[j])]

GetConsistencyProof(leaves, oldSize) ==
    [old |-> oldSize, new |-> Len(leaves), oldRoot |-> Root(SubSeq(leaves, 1, oldSize)),
     newRoot |-> Root(leaves), path |-> consistencyPath(oldSize, leaves)]

\* x with its trailing ones (in the first number) or zeros shifted out, in step.
Shifted(pair, bit) ==
    LET s[n \in 0 .. pair[1]] == IF n = 0 \/ n % 2 # bit THEN 0 ELSE 1 + s[n \div 2]
    IN  <<pair[1] \div 2^s[pair[1]], pair[2] \div 2^s[pair[1]]>>

\* VerifyConsistencyProof, for proofs with well-formed hashes.
VerifyConsistencyProof(proof) ==
    LET start == Shifted(<<proof.old - 1, proof.new - 1>>, 1)
        half(p) == <<p[1] \div 2, p[2] \div 2>>
        next(a, c) ==
            IF ~a.ok \/ a.at[2] = 0 THEN [a EXCEPT !.ok = FALSE]
            ELSE IF a.at[1] % 2 = 1 \/ a.at[1] = a.at[2]
                 THEN [ok |-> TRUE, fr |-> hashNode(c, a.fr), sr |-> hashNode(c, a.sr),
                       at |-> half(Shifted(a.at, 0))]
                 ELSE [a EXCEPT !.sr = hashNode(a.sr, c), !.at = half(a.at)]
        end == FoldLeft(next, [ok |-> TRUE, fr |-> Head(proof.path), sr |-> Head(proof.path),
                               at |-> start], Tail(proof.path))
    IN  /\ 0 < proof.old /\ proof.old <= proof.new
        /\ IF proof.old = proof.new THEN proof.oldRoot = proof.newRoot /\ proof.path = <<>>
           ELSE /\ proof.path # <<>>
                /\ end.ok /\ end.at[2] = 0
                /\ end.fr = proof.oldRoot /\ end.sr = proof.newRoot

-----------------------------------------------------------------------------
\* Reference: the Merkle tree hash of RFC 6962, section 2.1.  The left subtree
\* holds the largest power of two smaller than the number of leaves.
MTH(leaves) ==
    LET split(n) == Max({2^k : k \in {j \in 0 .. n : 2^j < n}})
        h[from \in 1 .. Len(leaves), n \in 1 .. Len(leaves)] ==
            IF n = 1 THEN leaves[from]
            ELSE hashNode(h[from, split(n)], h[from + split(n), n - split(n)])
    IN  IF leaves = <<>> THEN NoRoot ELSE h[1, Len(leaves)]

\* Reference: leaves numbered 1 to n.
Numbered(n) == [i \in 1 .. n |-> <<"leaf", i>>]
=============================================================================
