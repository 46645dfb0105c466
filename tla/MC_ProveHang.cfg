\* The mutex as it is built, of a station whose streams have no I/O module.
SPECIFICATION Spec
CONSTANTS
  DetA <- MCDetA
  DetB <- MCDetB
  Setups <- MCManual
  StreamCount = 2
  StreamOnModule = FALSE
  RecursiveMutex = FALSE
PROPERTY
  WaitD1Ends
CHECK_DEADLOCK FALSE
