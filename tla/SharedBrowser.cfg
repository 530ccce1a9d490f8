\* Two users of one browser take turns in two tabs while one of them sets up a
\* database; one database comes or goes.
CONSTANTS
  mail = mail  Connector = connector
  u1 = u1  u2 = u2  d1 = d1  d2 = d2  d3 = d3
  n1 = n1  p1 = p1  p2 = p2  w1 = w1  w2 = w2
  None = None  NoRow = NoRow  Mail = mail
  Products <- BothProducts
  ProductOf <- ToConnector
  Users <- TwoUsers
  Restless <- NoUser
  Digests <- TwoDigests
  Nonces <- OneNonce
  Flows <- OneFlow
  Workers <- TwoWorkers
  MaxResets = 0  MaxUses = 1  MaxMoves = 1
SPECIFICATION ConnectorSpec
SYMMETRY Symmetry
INVARIANTS
  ConnectorTypeOK
  ConsentOwner
PROPERTIES
  IdentityFixed
  CodeNeedsDatabase
  SetupIsPersonal
