---------------------------- MODULE MCOAuthStore ----------------------------
(* Small instances of OAuthStore.                                          *)
EXTENDS OAuthStore, TLC

CONSTANTS u1, mail, connector, f1, f2, k1, k2, k3, w1, w2, read, keys

OneUser == {u1}
OneFamily == {f1}
TwoFamilies == {f1, f2}
ThreeSecrets == {k1, k2, k3}
TwoWorkers == {w1, w2}
BothClients == {mail, connector}
MailOnly == {mail}
KeysOnly == {keys}
ReadOnly == {read}

Symmetry ==
  Permutations(Families) \cup Permutations(Credentials) \cup Permutations(Workers)
=============================================================================
