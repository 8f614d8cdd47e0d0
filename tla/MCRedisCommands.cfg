\* Safety: every handler, a permit for each client, a ring of two messages that
\* the publisher can overrun.
CONSTANTS
  c1 = c1
  c2 = c2
  ch1 = ch1
  ch2 = ch2
  k1 = k1
  v1 = v1
  Conns = {c1, c2}
  Keys = {k1}
  Vals = {v1}
  Absent = Absent
  Chans = {ch1, ch2}
  Capacity = 2
  Requests <- CommandRequests
  MaxConns = 2
  MaxRequests <- CommandBound
SPECIFICATION Spec
INVARIANTS
  TypeOK
  PermitsConserved
  EndMeansDrained
  ShutdownReachesAll
  AnswersInOrder
  CountsMatchWire
  WritesStay
  MessagesOnlyWhileSubscribed
  DeliveredInOrder
PROPERTIES
  SkipsOnlyOverwritten
CHECK_DEADLOCK FALSE
