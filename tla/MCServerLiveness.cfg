\* Everything that may fail, and client b, who can cost the server one of its two workers or all of it.
CONSTANTS
  m = m
  w1 = w1
  w2 = w2
  a = a
  b = b
  Main = m
  Producers = {m}
  Consumers = {w1, w2}
  Clients = {a, b}
  Good = {a}
  OtherKinds = {"silent", "malformed", "unreadable"}
  Requests <- RequestsOf
  Fds = {4, 5, 6, 7}
  Capacity = 1
  Faults = {"sigint", "setup", "accept"}
  NoThread = NoThread
  NoId = NoId
SPECIFICATION ServerFairSpec
PROPERTIES
  
  JoinCompletes
  BroadcastReleases
\* The server ends, or waits once everyone is served.
CHECK_DEADLOCK FALSE
