\* Two operators start three scripts, and one other deployment or restart is made
\* of an older tree with either of two sites.
CONSTANTS
  alice = alice  bob = bob  h0 = h0  h1 = h1  h2 = h2  s0 = s0  s1 = s1
  None = None
  Operators <- TwoOperators
  Hand <- TwoLabels
  First = h0
  Ticks <- OneTick
  Sites <- TwoSites
  Trees <- OldTrees
  MaxRuns = 3
SPECIFICATION Spec
SYMMETRY Symmetry
PROPERTIES
  VersionContentFixed
  ScriptsKeepReleases
