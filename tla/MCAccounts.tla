------------------------------ MODULE MCAccounts ------------------------------
(* Small instances of Accounts.                                            *)
EXTENDS Accounts, TLC

CONSTANTS e1, e2, t1, t2, t3, w1, w2

OneEmail == {e1}
TwoEmails == {e1, e2}
TwoTokens == {t1, t2}
ThreeTokens == {t1, t2, t3}
OneWorker == {w1}
TwoWorkers == {w1, w2}

Symmetry ==
  Permutations(Emails) \cup Permutations(Tokens) \cup Permutations(Workers)
===============================================================================
