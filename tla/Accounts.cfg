\* One address, three links, two concurrent requests, and a clock that outlives
\* a reset link and then a verification link.
CONSTANTS
  e1 = e1  e2 = e2  t1 = t1  t2 = t2  t3 = t3  w1 = w1  w2 = w2
  None = None  NoRow = NoRow
  Emails <- OneEmail
  Tokens <- ThreeTokens
  Workers <- TwoWorkers
  VerifyTTL = 2  ResetTTL = 1  CleanupLimit = 1
  MaxTime = 3  MaxHashes = 2
SPECIFICATION Spec
SYMMETRY Symmetry
INVARIANTS
  TypeOK
  LinksMatchPassword
  SentWasDelivered
PROPERTIES
  DisabledUntouched
  RowRefinement
