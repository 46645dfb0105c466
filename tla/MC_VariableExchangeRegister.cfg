\* Two variables of each kind, two clients.
SPECIFICATION Spec
CONSTANTS
  VarList <- MCVars
  Written = {"w1", "w2"}
  Dumped = {"w1"}
  Clients = {"c1", "c2"}
  Tokens = {11, 12}
  None = None
  MaxCycles = 1
  MaxCalls = 3
PROPERTIES
  Implements
  Taken
CHECK_DEADLOCK FALSE
