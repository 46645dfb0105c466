\* Periods of two hours in a day of four; the clock is set twice, by half an hour or more.
SPECIFICATION Spec
CONSTANTS
  Units = 2
  Hours = 4
  Period = 2
  Types = {"PERIODIC", "BATCH"}
  Limit = 3
  Incs = {0, 1}
  Shifts <- MCShifts
  MaxSets = 2
INVARIANTS
  ValidIsWhole
  StartKnown
PROPERTIES
  FlowReported
  ReportsEnd
