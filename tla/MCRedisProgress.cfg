\* Liveness: a subscriber that can lag and a publisher, weak fairness.
CONSTANTS
  c1 = c1
  c2 = c2
  ch1 = ch1
  ch2 = ch2
  k1 = k1
  v1 = v1
  Conns = {c1, c2}
  Keys = {k1}
  Vals = {v1}
  Absent = Absent
  Chans = {ch1}
  Capacity = 1
  Requests <- PubSubRequests
  MaxConns = 2
  MaxRequests <- PubSubBound
SPECIFICATION FairSpec
PROPERTIES
  ShutdownCompletes
  BacklogDrains
  RequestsAnswered
CHECK_DEADLOCK FALSE
