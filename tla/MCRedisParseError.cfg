\* Every command outside and inside a stream, one permit for two clients.
CONSTANTS
  c1 = c1
  c2 = c2
  ch1 = ch1
  ch2 = ch2
  k1 = k1
  v1 = v1
  Conns = {c1, c2}
  Keys = {k1}
  Vals = {v1}
  Absent = Absent
  Chans = {ch1, ch2}
  Capacity = 1
  Requests <- CommandRequests
  MaxConns = 1
  MaxRequests <- CommandBound
SPECIFICATION Spec
PROPERTIES
  ParseErrorTerminates
CHECK_DEADLOCK FALSE
