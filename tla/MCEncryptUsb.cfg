SPECIFICATION FairSpec
CONSTANTS
  FileSystems <- Formats
INVARIANTS
  TypeOK
  NothingWithoutConsent
PROPERTIES
  WrittenOnlyUnmounted
  KeyReachesOwner
CHECK_DEADLOCK FALSE
