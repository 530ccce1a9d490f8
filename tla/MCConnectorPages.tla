--------------------------- MODULE MCConnectorPages ---------------------------
(* Small instances of ConnectorPages.                                      *)
EXTENDS ConnectorPages, TLC

CONSTANTS mail, u1, u2, d1, d2, d3, n1, p1, p2, w1, w2

OneUser == {u1}
TwoUsers == {u1, u2}
NoUser == {}
TwoDigests == {d1, d2}
ThreeDigests == {d1, d2, d3}
OneNonce == {n1}
OneFlow == {p1}
TwoFlows == {p1, p2}
OneWorker == {w1}
TwoWorkers == {w1, w2}
BothProducts == {mail, Connector}
ToConnector == [f \in Flows |-> Connector]

Symmetry == UNION {Permutations(S) : S \in {Users, Digests, Nonces, Flows, Workers}}
===============================================================================
