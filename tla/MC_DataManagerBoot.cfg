\* Every command line, one crash, dumps of the totals of any program.
SPECIFICATION LiveSpec
CONSTANTS
  Configs = {"good", "broken"}
  ValidConfigs = {"good"}
  Args <- MCArgs
  Params = {1, 2}
  InitTotals <- MCAnyDumps
  InitVars <- MCOwnDumps
  RestartKinds = {"WARM", "COLD"}
  MaxTotal = 1
  MaxCrash = 1
INVARIANTS
  TotalsKept
  HaltBootsCold
PROPERTIES
  RecoversWithConf
  ParamsSaved
