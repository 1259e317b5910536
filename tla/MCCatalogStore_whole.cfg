SPECIFICATION Spec
CONSTANT MaxVersion = 3
INVARIANTS TypeOK InstalledIsWhole FailedUpdateUndone
PROPERTY NeverOlder
