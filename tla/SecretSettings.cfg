\* One script writes back a document that another has extended.
CONSTANTS
  alice = alice  bob = bob  p1 = p1  p2 = p2
  None = None
  Operators <- TwoOperators
  Passwords <- TwoPasswords
  MaxVersions = 6
SYMMETRY Interchangeable
SPECIFICATION Spec
PROPERTIES
  NothingIsLost
