---------------------------- MODULE MCChangeSets ----------------------------
(* Instances of ChangeSets for TLC. *)
EXTENDS ChangeSets, TLC

CONSTANTS ann, bob, cyd, s1, s2, s3, x, y, z, h

OneAdmin == [u \in {ann} |-> "admin"]
ThreePeople == [u \in {ann, bob, cyd} |-> IF u = cyd THEN "editor" ELSE "admin"]

Symmetry == Permutations({s1, s2})

\* where both rows are soft and there at the start
RowSymmetry == Symmetry \cup Permutations({x, z})
=============================================================================
