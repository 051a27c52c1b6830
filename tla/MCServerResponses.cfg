\* SIGINT while one worker answers and two wait.
CONSTANTS
  m = m
  w1 = w1
  w2 = w2
  w3 = w3
  a = a
  Main = m
  Producers = {m}
  Consumers = {w1, w2, w3}
  Clients = {a}
  Good = {a}
  OtherKinds = {}
  Requests <- RequestsOf
  Fds = {4, 5}
  Capacity = 1
  Faults = {"sigint"}
  NoThread = NoThread
  NoId = NoId
SPECIFICATION ServerSpec
PROPERTIES
  ResponsesIntact
CHECK_DEADLOCK FALSE
