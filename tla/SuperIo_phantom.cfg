\* No access fails.
CONSTANTS
  Bank = {"b0", "b1", "b4", "b5", "b6"}
  Cleared <- SomeCleared
  Offset <- SomeOffsets
  IteFields <- SomeIteFields
  NctFields <- SomeNctFields
  WinFields <- SomeWinFields
  Source <- SomeSource
  Dead <- SomeDead
  Boards <- SomeBoards
  Wanted <- AllKinds
  MaxFaults = 0
SPECIFICATION Spec
INVARIANTS PhantomFree
