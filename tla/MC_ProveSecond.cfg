\* A prover with two detectors; the mutex is taken as recursive, so that a cycle returns.
SPECIFICATION Spec
CONSTANTS
  DetA <- MCDetA
  DetB <- MCDetB
  Setups <- MCManual
  StreamCount = 2
  StreamOnModule = FALSE
  RecursiveMutex = TRUE
PROPERTY
  WaitD2Waits
CHECK_DEADLOCK FALSE
