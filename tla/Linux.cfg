\* Machines of all kinds, one change of the files during a call, two threads
\* at the GPU.  The system stops when all calls are made or one has crashed.
CONSTANTS
  HwmonMax = 3
  CpuHwmonMax = 2
  InputMax = 2
  ZoneMax = 2
  CpuMax = 2
  BoardMax = 2
  ListMax = 1
  Wide = 32
  MaxChanges = 1
  Thread <- Both
  Job <- MCJob
  New <- MCNew
  Temperatures <- MCTemperatures
  Samples <- MCSamples
SPECIFICATION Spec
INVARIANTS TypeOK ReportFaithful NvmlGuarded
CHECK_DEADLOCK FALSE
