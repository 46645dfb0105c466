\* Two streams, whose counts wrap, and their station in both orders of the list.
SPECIFICATION Spec
CONSTANTS
  Streams = {"s1", "s2"}
  Station = "sikn"
  Lists <- MCLists
  Word = 3
  Limit = 15
  Grain = 3
  Weight = 2
  MaxPulses = 2
  MaxRepeats = 1
  MaxFaults = 1
  MaxSets = 1
CHECK_DEADLOCK FALSE
INVARIANTS
  SavedAgree
PROPERTIES
  PulsesKept
  AllTaken
