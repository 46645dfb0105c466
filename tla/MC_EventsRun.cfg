\* Three connections to a server of two clients, two events, one failure.
SPECIFICATION EventsSpec
CONSTANTS
  Conns = {"c1", "c2", "c3"}
  Fds = {4, 6, 7}
  Listen = 5
  MaxClient = 2
  MaxErrors = 1
  MAX_EVENT = 0
  MaxAdds = 2
INVARIANTS
  SentInOrder
PROPERTIES
  FeedImplemented
