SPECIFICATION FairSpec
CONSTANTS
  NumHeaderSectors = 2
  BlockSize = 2
  MetadataStart = 6
  Spacing = 6
  MaxUsable = 1000
  VolumeSectors = 20
  SectorSize = 1
  BaseSectorSize = 1
  Key <- K
  ChunkSectors = 3
  Jobs <- AllJobs
INVARIANTS
  TypeOK
  FailureKeepsOutput
  OneCopyIsEnough
  FindsTheVolume
  InfoFromOneBlock
  OutputIsOriginal
  DoneMeansView
PROPERTIES
  DecryptionEnds
CHECK_DEADLOCK FALSE
