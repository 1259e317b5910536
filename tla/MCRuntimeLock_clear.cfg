CONSTANTS
  a = a
  b = b
  c = c
  i1 = i1
  i2 = i2
  i3 = i3
  None = None
  NoInfo = NoInfo
  Procfs = TRUE
  Proc = {a, b, c}
  Clearers = {b, c}
  LongRunners = {a}
  Mortal = {a}
  Inode = {i1, i2, i3}
  MaxIncarnation = 2
  MaxAcquire = 2
SPECIFICATION Spec
SYMMETRY Symmetry
INVARIANTS
  TypeOK
  ExclusionUnlessCut
  NoLeakedFlock
  SettledHolderNotStale
  LoneClearSparesOwner
PROPERTIES
  RefinesGlobalLock
  AcquireReturns
