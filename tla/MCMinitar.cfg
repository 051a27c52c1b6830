\* Two files; four commands, or edits of a file between them.
CONSTANTS
  Names = {"f", "g"}
  Nameless = {"g"}
  Contents <- MCContents
  BLOCK_SIZE = 8
  Digits = 2
  FileLists <- MCFileLists
  MaxCommands = 4
SPECIFICATION TarSpec
INVARIANTS
  ExtractsLatest
PROPERTIES
  LogSpec
  EarlierKept
\* The bound on commands is reached.
CHECK_DEADLOCK FALSE
