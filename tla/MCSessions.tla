------------------------------ MODULE MCSessions ------------------------------
(* Small instances of Sessions.                                            *)
EXTENDS Sessions, TLC

CONSTANTS mail, u1, u2, d1, d2, d3, n1, n2, p1, p2, w1, w2

OneUser == {u1}
TwoUsers == {u1, u2}
TwoDigests == {d1, d2}
ThreeDigests == {d1, d2, d3}
OneNonce == {n1}
TwoNonces == {n1, n2}
OneFlow == {p1}
TwoFlows == {p1, p2}
TwoWorkers == {w1, w2}
MailOnly == {mail}
ToMail == [f \in Flows |-> mail]

Symmetry ==
  UNION {Permutations(S) : S \in {Users, Digests, Nonces, Flows, Workers}}
===============================================================================
