CONSTANTS
  MaxGen = 3
  Limit = 1
  Histories = {{2, 3}, {1, 3}}
SPECIFICATION Spec
CHECK_DEADLOCK FALSE
INVARIANTS
  TypeOK
  AllOrNothing
  SnapshotCoversRewrite
  RetentionKeepsOwn
PROPERTIES
  EveryStepAdvances
