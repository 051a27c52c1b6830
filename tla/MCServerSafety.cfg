\* Two workers and three clients, of which b may send anything, with few descriptors.
CONSTANTS
  m = m
  w1 = w1
  w2 = w2
  a = a
  b = b
  c = c
  Main = m
  Producers = {m}
  Consumers = {w1, w2}
  Clients = {a, b, c}
  Good = {a, c}
  OtherKinds = {"file", "missing", "untyped", "unreadable", "full", "torn", "malformed", "silent", "gone"}
  Requests <- RequestsOf
  Fds = {4, 5}
  Capacity = 1
  Faults = {"sigint", "accept"}
  NoThread = NoThread
  NoId = NoId
SPECIFICATION ServerSpec
SYMMETRY Symmetry
INVARIANTS
  ServerTypeOK
  ConnectionsHaveOneOwner
PROPERTIES
  QueueSpec
\* The server ends.
CHECK_DEADLOCK FALSE
