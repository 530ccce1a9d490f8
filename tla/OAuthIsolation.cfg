\* Two families of two clients in the same tables, both scopes, one reset.
CONSTANTS
  u1 = u1  mail = mail  connector = connector
  f1 = f1  f2 = f2  k1 = k1  k2 = k2  k3 = k3
  w1 = w1  w2 = w2  read = read  keys = keys
  None = None  NoRow = NoRow
  Users <- OneUser
  Clients <- BothClients
  MailClient = mail
  Families <- TwoFamilies
  Credentials <- ThreeSecrets
  Workers <- TwoWorkers
  BrowserScope = read
  NativeScopes <- KeysOnly
  CodeTTL = 1  GrantTTL = 2  AccessTTL = 1  PurgeAge = 1  PurgeLimit = 1
  RequestTTL = 1  MaxTime = 0  MaxResets = 1
SPECIFICATION Spec
SYMMETRY Symmetry
INVARIANTS
  TypeOK
  FamilyBinding
