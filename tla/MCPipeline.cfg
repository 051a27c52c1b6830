\* Two command lines of at most two bars, through pipes that hold
\* one of the two items.
CONSTANTS
  Lines = 2
  CommandLines <- MCLines
  MaxPipes = 2
  Items = 2
  Capacity = 1
SPECIFICATION PipeFairSpec
INVARIANTS
  PipeTypeOK
  CommandsSplit
  OwnEndsOnly
  NothingLeft
  WholeOutput
PROPERTIES
  ChildrenEnd
\* The shell's input ends.
CHECK_DEADLOCK FALSE
