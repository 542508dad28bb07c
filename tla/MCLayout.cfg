SPECIFICATION Spec
CONSTANTS
  NumHeaderSectors = 16
  BlockSize = 1024
  MetadataStart = 589824
  Spacing = 16777216
  MaxUsable = 67108863
  VolumeSizes <- Sizes
  SectorSizes <- BpbSectorSizes
INVARIANTS
  StructuresDisjoint
  StructuresSectorAligned
  OffsetsWithin32Bits
CHECK_DEADLOCK FALSE
