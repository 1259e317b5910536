SPECIFICATION Spec
CONSTANTS
  Catalogs <- MCCatalogs
  Releases <- MCReleases
  Requests <- MCRequests
  Reconfigures <- MCReconfigures
  Hosts <- MCHosts
  MemModulus = 64
  Reserve = 4
  MaxRounds = 2
INVARIANTS
  TypeOK
  EnvSound
  DeployedAsDeclared
PROPERTIES
  OthersKept
CHECK_DEADLOCK FALSE
