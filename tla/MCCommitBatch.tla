---------------------------- MODULE MCCommitBatch ---------------------------
(* Instances of CommitBatch for TLC. *)
EXTENDS CommitBatch, TLC

CONSTANTS r1, r2, r3, s1, s2, k1, k2

OneRow == [s \in Sets |-> k1]
OwnRows == [s \in Sets |-> IF s = s1 THEN k1 ELSE k2]

One(kind, s) == [kind |-> kind, ids |-> <<s>>, approve |-> FALSE]
Batch(kind, ids, approve) == [kind |-> kind, ids |-> ids, approve |-> approve]

\* batches over both sets, in either order
Pairs == {<<s1, s2>>, <<s2, s1>>}

\* enough to lock two sets in both orders, with and without the feed's lock,
\* and to change, withdraw and submit a set while another is under way
CrossingJobs ==
  {One("edit", s2), One("reopen", s1)}
    \cup {Batch(kind, ids, FALSE) : kind \in {"submit", "approve"}, ids \in Pairs}
    \cup {Batch("commit", <<s1, s2>>, TRUE), Batch("commit", <<s2, s1>>, FALSE)}

Symmetry == Permutations(Requests)
=============================================================================
