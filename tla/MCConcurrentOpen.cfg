\* Groups of three among five threads, three groups in all: callers of one group can
\* pass in the place of the one before.
CONSTANTS
  t1 = t1
  t2 = t2
  t3 = t3
  t4 = t4
  t5 = t5
  Openers = {t1, t2, t3, t4, t5}
  CONCURRENCY_DEGREE = 3
  MaxCalls = 9
  NoThread = NoThread
SPECIFICATION OpenFairSpec
PROPERTIES
  GroupsSpec
  NoGroupLeft
\* The bound on calls is reached, or too few threads came.
CHECK_DEADLOCK FALSE
