\* Two requests of two owners, the same request id; one password reset.
CONSTANTS
  anna = anna  ben = ben  ga = ga  gb = gb  q1 = q1
  a1 = a1  a2 = a2  k1 = k1  k2 = k2  w1 = w1  w2 = w2
  None = None  NoRow = NoRow
  Owners <- TwoOwners
  Grants <- TwoGrants
  OwnerOf <- Bound
  Requests <- OneRequest
  Archives <- TwoArchives
  Keys <- TwoKeys
  Workers <- TwoWorkers
  MaxResets = 1
  Restless <- JustAnna
SYMMETRY Interchangeable
SPECIFICATION Spec
INVARIANTS
  TypeOK
  AnsweredIsRecoverable
PROPERTIES
  NoKeyForDeadGrant
  CustodyRefinement
