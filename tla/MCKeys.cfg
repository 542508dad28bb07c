SPECIFICATION Spec
CONSTANTS
  Methods <- AllMethods
  Times <- Stamps
  RecoveryKeys <- Keys
  MaxRuns = 2
INVARIANTS
  TypeOK
  NonceUsedOnce
  ParsesWhatWasBuilt
  EitherProtectorOpens
  RecoveryTypoRefused
CHECK_DEADLOCK FALSE
