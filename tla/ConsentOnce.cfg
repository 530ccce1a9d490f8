\* The one-use consent nonce, against two tabs.
CONSTANTS
  u1 = u1  u2 = u2  d1 = d1  d2 = d2  d3 = d3
  n1 = n1  n2 = n2  p1 = p1  p2 = p2  w1 = w1  w2 = w2
  None = None  NoRow = NoRow  Mail = mail  mail = mail
  Products <- MailOnly
  ProductOf <- ToMail
  Users <- OneUser
  Restless <- OneUser
  Digests <- TwoDigests
  Nonces <- OneNonce
  Flows <- OneFlow
  Workers <- TwoWorkers
  MaxResets = 0  MaxUses = 2
SPECIFICATION Spec
SYMMETRY Symmetry
INVARIANTS
  ConsentUsedOnce
