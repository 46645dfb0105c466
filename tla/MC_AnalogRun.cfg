\* Codes on, below and above the scale; values at and around every limit.
SPECIFICATION Spec
CONSTANTS
  NaN = NaN
  Codes = {0, 2, 4}
  MinADC = 1
  MaxADC = 3
  Min = 10
  Max = 14
  Noise = 2
  Setups <- MCSetups
  Keypads = {8, 14}
  LimitSets <- MCLimits
  Garbage <- MCGarbage
PROPERTIES
  GoodOrTorn
  Substituted
  NoChatter
  FaultFollows
