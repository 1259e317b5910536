CONSTANTS
  a = a
  b = b
  c = c
  i1 = i1
  i2 = i2
  i3 = i3
  None = None
  NoInfo = NoInfo
  Procfs = TRUE
  Proc = {a, b, c}
  Clearers = {c}
  LongRunners = {}
  Mortal = {a, b, c}
  Inode = {i1, i2, i3}
  MaxIncarnation = 2
  MaxAcquire = 2
SPECIFICATION Spec
SYMMETRY Symmetry
INVARIANTS
  HeldArmSparesOwner
