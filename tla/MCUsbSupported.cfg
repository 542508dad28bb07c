SPECIFICATION FairSpec
CONSTANTS
  FileSystems <- Formats
INVARIANTS
  UnsupportedLeftAlone
CHECK_DEADLOCK FALSE
