------------------------------ MODULE MCRollout ------------------------------
(* A small instance of Rollout.                                            *)
EXTENDS Rollout, TLC

CONSTANTS alice, bob, h0, h1, h2, s0, s1

TwoOperators == {alice, bob}
TwoLabels == {h0, h1}
ThreeLabels == {h0, h1, h2}
OneTick == {1}
TwoSites == {s0, s1}

OldTrees == [site : Sites, changes : {{}}, readable : {TRUE}]

Symmetry == Permutations(Operators) \cup Permutations(Hand \ {First}) \cup Permutations(Sites)
===============================================================================
