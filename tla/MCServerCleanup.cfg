\* SIGINT between the test of keep_going and accept.
CONSTANTS
  m = m
  w1 = w1
  a = a
  Main = m
  Producers = {m}
  Consumers = {w1}
  Clients = {a}
  Good = {a}
  OtherKinds = {}
  Requests <- RequestsOf
  Fds = {4, 5}
  Capacity = 1
  Faults = {"sigint"}
  NoThread = NoThread
  NoId = NoId
SPECIFICATION ServerFairSpec
PROPERTIES
  CleanupReached
CHECK_DEADLOCK FALSE
