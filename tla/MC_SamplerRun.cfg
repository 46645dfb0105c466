\* Tests of one dose, or of none, over the wrap of the tick.
SPECIFICATION Spec
CONSTANTS
  UDINT = 3
  CAN_MAX = 2
  Methods = {"PERIOD", "VOLUME"}
  Selects = {0, 2}
  Periods = {2}
  Tests = {0, 1}
  CanDoses = {1}
  Growths = {"far"}
  MaxBack = 1
CHECK_DEADLOCK FALSE
INVARIANTS
  DosesAdd
PROPERTIES
  HeldStartsOnce
  
  TestEnds
