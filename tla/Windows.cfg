\* Machines of all kinds, one change of the sources during a call, two threads
\* at WMI and at the GPU.  The system stops when all calls are made or one has
\* crashed.
CONSTANTS
  DriveMax = 2
  LetterMax = 3
  FanMax = 2
  FirstChunk = 1
  MaxChanges = 1
  Leftover = {0, 77}
  Thread <- Both
  Job <- MCJob
  New <- MCNew
SPECIFICATION Spec
INVARIANTS TypeOK LeavesAsFound ReportFaithful
CHECK_DEADLOCK FALSE
