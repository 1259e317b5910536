CONSTANTS
  d = d
  x = x
  n1 = n1
  Default = d
  Path = {d, x}
  Net = {n1}
SPECIFICATION Spec
CONSTRAINT PathsWhole
INVARIANTS
  ManifestTellsState
PROPERTIES
  ForeignKept
