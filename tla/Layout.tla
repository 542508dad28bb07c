------------------------------- MODULE Layout -------------------------------
(***************************************************************************)
(* Where encryptor.py puts the BitLocker structures on a volume            *)
(* (_calculate_layout, _align).  Offsets and sizes are in one unit, the    *)
(* byte in the code; the constants are those of the code, or a scaled-down *)
(* copy of them in a small instance.                                       *)
(***************************************************************************)
EXTENDS Naturals

CONSTANTS
  NumHeaderSectors,   \* NUM_HEADER_SECTORS: 16
  BlockSize,          \* METADATA_BLOCK_SIZE: 64 KB
  MetadataStart,      \* METADATA_START: 36 MB
  Spacing,            \* GB: the distance between two metadata blocks
  MaxUsable           \* 0xFFFFFFFF, the cap on the part a small volume uses

ASSUME LayoutConstants ==
  /\ NumHeaderSectors \in Nat \ {0}
  /\ BlockSize \in Nat \ {0}
  /\ MetadataStart \in Nat
  /\ Spacing \in Nat
  /\ MaxUsable \in Nat

(* _align: round an offset up to a multiple of the alignment. *)
Align(offset, alignment) == ((offset + alignment - 1) \div alignment) * alignment

HeaderSize(s) == NumHeaderSectors * s

Copies == 1 .. 3

(* The volume is too small for the third block of the Windows layout. *)
IsSmall(v) == MetadataStart + 2 * Spacing + BlockSize > v

Usable(v) == IF v \div 2 < MaxUsable THEN v \div 2 ELSE MaxUsable

SmallSpacing(v) == Usable(v) \div 4

(* Seeded fault: the offsets of a small volume are not aligned.            *)
MetadataUnaligned(v, s, j) ==
  IF IsSmall(v) THEN SmallSpacing(v) * j ELSE MetadataStart + (j - 1) * Spacing

(* Seeded fault: the blocks are spread over any volume.                    *)
MetadataOverVolume(v, s, j) == Align((v \div 8) * j, s)

(* metadata_offsets: the first byte of each of the three metadata blocks. *)
MetadataOffset(v, s, j) ==
  IF IsSmall(v) THEN Align(SmallSpacing(v) * j, s)
                ELSE MetadataStart + (j - 1) * Spacing

(* Seeded fault: the size of the block is not added.                       *)
BackupOnFirstBlock(v, s) == Align(MetadataOffset(v, s, 1), s)

(* volume_header_offset: the backup follows the first metadata block. *)
VolumeHeaderOffset(v, s) == Align(MetadataOffset(v, s, 1) + BlockSize, s)

-----------------------------------------------------------------------------
(* The areas the layout hands out, as half-open intervals. *)
HeaderArea(s) == [start |-> 0, end |-> HeaderSize(s)]
BlockArea(v, s, j) == [start |-> MetadataOffset(v, s, j),
                       end   |-> MetadataOffset(v, s, j) + BlockSize]
BackupArea(v, s) == [start |-> VolumeHeaderOffset(v, s),
                     end   |-> VolumeHeaderOffset(v, s) + HeaderSize(s)]

Before(a, b) == a.end =< b.start

(* The structures follow each other on the volume without overlapping:     *)
(* header, first block, backup, second block, third block, end of volume.  *)
LaidOut(v, s) ==
  /\ Before(HeaderArea(s), BlockArea(v, s, 1))
  /\ Before(BlockArea(v, s, 1), BackupArea(v, s))
  /\ Before(BackupArea(v, s), BlockArea(v, s, 2))
  /\ Before(BlockArea(v, s, 2), BlockArea(v, s, 3))
  /\ BlockArea(v, s, 3).end =< v

(* Whole sectors only: what is sealed as a sector is addressed as one. *)
SectorAligned(v, s) ==
  /\ \A j \in Copies : MetadataOffset(v, s, j) % s = 0
  /\ VolumeHeaderOffset(v, s) % s = 0

(* The size from which the layout is sound.  A small volume needs a        *)
(* spacing that holds a block, the backup and the rounding of both; the    *)
(* constants of a large one are checked once.                              *)
LayoutFits(v, s) ==
  IF IsSmall(v)
  THEN SmallSpacing(v) >= BlockSize + HeaderSize(s) + 2 * s
  ELSE /\ MetadataStart >= HeaderSize(s)
       /\ Spacing >= BlockSize + HeaderSize(s) + s
=============================================================================
