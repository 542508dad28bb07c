SPECIFICATION FairSpec
CONSTANTS
  NumHeaderSectors = 2
  BlockSize = 2
  MetadataStart = 6
  Spacing = 6
  MaxUsable = 1000
  VolumeSectors = 20
  SectorSize = 1
  BaseSectorSize = 1
  EntriesPerSector = 10
  EntryRange = 4
  FsType = "FAT32"
  Bpb <- Boot
  FveFatSize = 1
  ChunkSectors = 3
  Allocations <- InUseSets
  StaleReadings <- Readings
  MaxRuns = 1
INVARIANTS
  AllDataEncryptedInPlace
CHECK_DEADLOCK FALSE
