\* The whole procedure of the prover, whose mutex is taken as recursive, so that a cycle
\* returns; selectors of all configurations and modes.
SPECIFICATION ObjectsSpec
CONSTANTS
  DetA <- MCDetA
  DetB <- MCDetB
  Setups <- MCProvers
  StreamCount = 2
  StreamOnModule = TRUE
  RecursiveMutex = TRUE
  MAX_INPUTS = 4
  MaxLinks = 5
INVARIANTS
  ValveExclusive
  WayCoherent
  SelectorTypeOK
PROPERTIES
  Advances
  ProcedureEnds
  PairSwitches
  NoChangeHolds
  PhantomShort
CHECK_DEADLOCK FALSE
