SPECIFICATION Spec
CONSTANTS
    MaxPort = 8
    Privileged = 2
    PortSuggestScanWindow = 5
    Apps <- MCApps
    Overrides <- MCOverrides
    InitiallyTaken <- MCInitiallyTaken
    DeniedPorts = {1, 2}
    AutoPortMaxAttempts = 8
    MaxMoves = 2
INVARIANTS
    TypeOK
    PlannedIsPublished
    PublicExactlyAsDeclared
    AutoPortConverges
PROPERTIES
    UpdateKeepsPorts
CHECK_DEADLOCK FALSE
