\* Three goroutines that call operations forever: a range can meet two writes,
\* and one can wait while two take turns in front of it.
SPECIFICATION RWFairSpec
CONSTANTS
  Clients = {c1, c2, c3}
  Keys = {k1, k2}
  Values = {v1}
  Absent = Absent
  Seed <- MCSeed
INVARIANTS
  RWTypeOK
  NoConcurrentMapAccess
PROPERTIES
  Atomic
  OperationsReturn
