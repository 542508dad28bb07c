SPECIFICATION FairSpec
CONSTANTS
  NumHeaderSectors = 2
  BlockSize = 2
  MetadataStart = 6
  Spacing = 6
  MaxUsable = 1000
  VolumeSectors = 20
  SectorSize = 1
  BaseSectorSize = 1
  EntriesPerSector = 10
  EntryRange = 4
  Bpb <- Boot
  ChunkSectors = 4
  Held <- Buffered
  Requests <- AllRequests
INVARIANTS
  TypeOK
  RoundTrip
  CutImageKeepsData
PROPERTIES
  EncryptionEnds
CHECK_DEADLOCK FALSE
