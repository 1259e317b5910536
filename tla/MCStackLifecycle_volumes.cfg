CONSTANTS
  d = d
  n1 = n1
  n2 = n2
  Default = d
  Path = {d}
  Net = {n1, n2}
SPECIFICATION Spec
PROPERTIES
  VolumesSurvive
