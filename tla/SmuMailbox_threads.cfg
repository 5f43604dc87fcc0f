\* Two threads with a context each, no system call fails.
CONSTANTS
  Client = {c1, c2}
  Ccd <- TwoCcds
  Absent = {"ccd1", "plane1"}
  PollLimit = 2
  MaxCommands = 2
  Faulty = FALSE
SPECIFICATION Spec
INVARIANTS SensorsOwn
\* The commands of a behaviour are bounded.
CHECK_DEADLOCK FALSE
