\* Accesses fail, the process may die: at most two of these.
CONSTANTS
  Bank = {"b0", "b1", "b4", "b5", "b6"}
  Cleared <- SomeCleared
  Offset <- SomeOffsets
  IteFields <- SomeIteFields
  NctFields <- SomeNctFields
  WinFields <- SomeWinFields
  Source <- SomeSource
  Dead <- SomeDead
  Boards <- SomeBoards
  Wanted <- TempAndVolt
  MaxFaults = 2
SPECIFICATION Spec
INVARIANTS TypeOK LeavesConfigMode RegistersKept StaysOnChip ReadingsOwn SourcesOnce
