SPECIFICATION FairSpec
CONSTANTS
  NumHeaderSectors = 2
  BlockSize = 4
  MetadataStart = 12
  Spacing = 12
  MaxUsable = 1000
  VolumeSectors = 20
  SectorSize = 2
  BaseSectorSize = 1
  EntriesPerSector = 10
  EntryRange = 4
  FsType = "FAT32"
  Bpb <- Boot
  FveFatSize = 1
  ChunkSectors = 3
  Allocations <- InUseSets
  StaleReadings <- Readings
  MaxRuns = 1
INVARIANTS
  OriginalHeaderRestored
CHECK_DEADLOCK FALSE
