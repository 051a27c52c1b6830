\* Two producers and three consumers around a ring of two.
CONSTANTS
  p1 = p1
  p2 = p2
  c1 = c1
  c2 = c2
  c3 = c3
  Producers = {p1, p2}
  Consumers = {c1, c2, c3}
  Fds = {4, 5}
  Capacity = 2
  NoThread = NoThread
SYMMETRY Symmetry
SPECIFICATION QueueSpec
INVARIANTS
  TypeOK
  LockDiscipline
  RingOK
  RoomToMove
  NoLostSignal
  ShutdownMissesOne
PROPERTIES
  ShutdownIsFinal
  FifoSpec
