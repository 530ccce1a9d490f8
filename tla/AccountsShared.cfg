\* Two addresses that share the link table and its cleanup.
CONSTANTS
  e1 = e1  e2 = e2  t1 = t1  t2 = t2  t3 = t3  w1 = w1  w2 = w2
  None = None  NoRow = NoRow
  Emails <- TwoEmails
  Tokens <- ThreeTokens
  Workers <- OneWorker
  VerifyTTL = 1  ResetTTL = 1  CleanupLimit = 1
  MaxTime = 2  MaxHashes = 1
SPECIFICATION Spec
SYMMETRY Symmetry
PROPERTIES
  OwnerProofOnly
  ResendKeepsLinks
