--------------------------- MODULE MCRuntimeSecret ---------------------------
(* Small instances of RuntimeSecret.                                       *)
EXTENDS RuntimeSecret, TLC

CONSTANTS alice, bob, p1, p2

TwoOperators == {alice, bob}
TwoPasswords == {p1, p2}

Interchangeable == Permutations(TwoOperators) \cup Permutations(TwoPasswords)
===============================================================================
