SPECIFICATION Spec
CONSTANTS
  EntriesPerSector = 6
  EntryRange = 4
  Geometries <- Boots
  Volume = 13
  Entries <- EntryValues
INVARIANTS
  TypeOK
  ReturnsTheRuns
  MergeLosesNothing
CHECK_DEADLOCK FALSE
