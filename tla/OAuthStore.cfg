\* One family with two rotations, two concurrent requests, one reset, and a
\* clock that outlives the family.  No purge age: a family is purged as soon as
\* it has expired, so that it may go in the middle of an exchange.
CONSTANTS
  u1 = u1  mail = mail  connector = connector
  f1 = f1  f2 = f2  k1 = k1  k2 = k2  k3 = k3
  w1 = w1  w2 = w2  read = read  keys = keys
  None = None  NoRow = NoRow
  Users <- OneUser
  Clients <- MailOnly
  MailClient = mail
  Families <- OneFamily
  Credentials <- ThreeSecrets
  Workers <- TwoWorkers
  BrowserScope = read
  NativeScopes <- ReadOnly
  CodeTTL = 1  GrantTTL = 2  AccessTTL = 1  PurgeAge = 0  PurgeLimit = 1
  RequestTTL = 1  MaxTime = 4  MaxResets = 1
SPECIFICATION Spec
SYMMETRY Symmetry
INVARIANTS
  LinearFamily
  NoOrphanCredential
PROPERTIES
  RevocationIsFinal
  DeadlineFixed
  RetiredTagStaysDead
  SpentRemembered
  PublishedWithFamily
  FamilyRefinement
