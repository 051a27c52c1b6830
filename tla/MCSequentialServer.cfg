\* Connections one after the other; requests and files of up to one and a half buffers.
CONSTANTS
  BUFSIZE = 2
  MaxRequest = 3
  MaxFile = 3
SPECIFICATION SequentialFairSpec
INVARIANTS
  SuccessIsWhole
  ReturnReleases
  CleanExit
PROPERTIES
  ShortRequestDealtWith
\* The server ends.
CHECK_DEADLOCK FALSE
