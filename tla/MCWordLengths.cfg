\* Three files, each any of five.
CONSTANTS
  N = 3
  MAX_WORD_LEN = 2
  NoFile <- MCNoFile
  Files <- MCFiles
  Arrays <- MCArrays
SPECIFICATION WordFairSpec
INVARIANTS
  PipeCarriesCounts
  RunningTotal
  FailureNoticed
PROPERTIES
  Prints
\* main returns.
CHECK_DEADLOCK FALSE
