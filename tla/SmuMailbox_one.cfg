\* One thread, every system call may fail.
CONSTANTS
  Client = {c1}
  Ccd <- TwoCcds
  Absent = {"ccd1", "plane1"}
  PollLimit = 2
  MaxCommands = 4
  Faulty = TRUE
SPECIFICATION FairSpec
INVARIANTS TypeOK AnswerIsOwn PowerIsFresh WedgedOnlyByCut SensorsOwn
PROPERTIES ReaderReturns
\* The commands of a behaviour are bounded.
CHECK_DEADLOCK FALSE
