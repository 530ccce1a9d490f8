\* Two operators, two passwords, up to six versions of the document.
CONSTANTS
  alice = alice  bob = bob  p1 = p1  p2 = p2
  None = None
  Operators <- TwoOperators
  Passwords <- TwoPasswords
  MaxVersions = 6
SYMMETRY Interchangeable
SPECIFICATION Spec
INVARIANTS
  TypeOK
  PasswordKept
  SettingsAreBacked
PROPERTIES
  ActivationIsExact
