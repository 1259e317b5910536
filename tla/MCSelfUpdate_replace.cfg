SPECIFICATION Spec
CONSTANTS
  Proc = {p1, p2}
  MaxVersion = 2
SYMMETRY ProcSymmetry
INVARIANTS TypeOK OldBinaryReachable ReportedOutcomeHolds OnlyPublished InstallsWhatWasNamed
