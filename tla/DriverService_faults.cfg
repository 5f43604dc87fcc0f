\* Two callers, every system call may fail, callers may die.
CONSTANTS
  Proc = {p1, p2}
  Retries = 3
  Faults <- AllFaults
  Crashes = TRUE
SPECIFICATION FairSpec
INVARIANTS TypeOK NoLeakedHandle UndisturbedInitSucceeds NothingLeftBehind
PROPERTIES UndisturbedShutdownCleans InitReturns
