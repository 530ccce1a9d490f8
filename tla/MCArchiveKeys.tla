---------------------------- MODULE MCArchiveKeys ----------------------------
(* Small instances of ArchiveKeys.                                         *)
EXTENDS ArchiveKeys, TLC

CONSTANTS anna, ben, ga, gb, q1, a1, a2, k1, k2, w1, w2

TwoOwners == {anna, ben}
JustAnna == {anna}
TwoGrants == {ga, gb}
Bound == [g \in TwoGrants |-> IF g = ga THEN anna ELSE ben]
OneRequest == {q1}
TwoArchives == {a1, a2}
TwoKeys == {k1, k2}
TwoWorkers == {w1, w2}

\* Random values and threads are interchangeable.
Interchangeable ==
  Permutations(TwoArchives) \cup Permutations(TwoKeys) \cup Permutations(TwoWorkers)
==============================================================================
