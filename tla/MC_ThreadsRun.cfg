\* Two threads to close, one of them paused, one further pause or restore; a system that
\* runs or waits for a dump, and three threads that may halt it, each twice; three
\* connections to a server of two clients, and one failure.
SPECIFICATION ThreadsSpec
CONSTANTS
  ThreadList <- MCTwo
  Paused = {"data"}
  Requesters = {"web"}
  MaxPause = 1
  Halters = {"io", "opc"}
  Objects = 3
  InitLive = {"RUNNING", "DUMP_TOTALS"}
  MaxHalt = 2
  Conns = {"c1", "c2", "c3"}
  Fds = {4, 6, 7}
  Listen = 5
  MaxClient = 2
  MaxErrors = 1
INVARIANTS
  ClosedInReverse
  WaitsForAsked
  HaltRequestsCold
PROPERTIES
  EndsUnlessLost
  HaltIsFinal
  QuietStays
  InputTaken
CHECK_DEADLOCK FALSE
