--------------------------- MODULE BitLockerVolume ---------------------------
(***************************************************************************)
(* A volume as the encryptor writes it and the decryptor reads it: an      *)
(* array of sectors on which the structures of BitLocker take the places   *)
(* that Layout gives them.                                                 *)
(***************************************************************************)
EXTENDS Layout, SectorCipher

CONSTANTS
  VolumeSectors,     \* bpb_total_sectors
  SectorSize,        \* the sector size the BPB states
  BaseSectorSize     \* SECTOR_SIZE: 512 bytes

VolumeSize == VolumeSectors * SectorSize

ASSUME VolumeConstants ==
  /\ VolumeSectors \in Nat \ {0}
  /\ SectorSize \in Nat \ {0}
  /\ BaseSectorSize \in 1 .. SectorSize
  /\ BlockSize % SectorSize = 0
  /\ SectorAligned(VolumeSize, SectorSize)
  /\ LaidOut(VolumeSize, SectorSize)

Sectors == 0 .. VolumeSectors - 1
HeaderSectors == 0 .. NumHeaderSectors - 1

MetaAt(j) == MetadataOffset(VolumeSize, SectorSize, j) \div SectorSize
BackupAt == VolumeHeaderOffset(VolumeSize, SectorSize) \div SectorSize
BlockSectors == BlockSize \div SectorSize

(* original_header is NUM_HEADER_SECTORS * SECTOR_SIZE bytes, whatever the *)
(* sector size of the volume.                                              *)
SavedSectors == (NumHeaderSectors * BaseSectorSize) \div SectorSize

-----------------------------------------------------------------------------
(* What the sectors hold. *)
Original(i) == Plain([kind |-> "data", at |-> i, key |-> 0])

Zero == Plain([kind |-> "zero", at |-> 0, key |-> 0])

(* build_bitlocker_header: the FVE signature and the three offsets, which  *)
(* depend on the volume and not on the keys.                               *)
BitLockerHeader == Plain([kind |-> "boot", at |-> 0, key |-> 0])

(* fve_block: the metadata that unlocks volume key k, padded to its size;  *)
(* the same block is written at each of the three places.                  *)
FveBlock(k) ==
  [i \in 0 .. BlockSectors - 1 |-> Plain([kind |-> "fve", at |-> i, key |-> k])]

ReadAt(d, start, n) == [i \in 0 .. n - 1 |-> d[start + i]]

(* A write of len sectors, and the disk after the first m of them. *)
WriteAt(start, n, data) == [at |-> start, len |-> n, data |-> data]

Put(d, w, m) ==
  [i \in DOMAIN d |-> IF w.at =< i /\ i < w.at + m THEN w.data[i - w.at] ELSE d[i]]

-----------------------------------------------------------------------------
(* What a reader makes of a disk. *)
IsBitLocker(d) == d[0] = BitLockerHeader

CopyIntact(d, k, j) == ReadAt(d, MetaAt(j), BlockSectors) = FveBlock(k)

(* A BitLocker header leads to a metadata block that yields key k. *)
Unlocks(d, k) == IsBitLocker(d) /\ \E j \in Copies : CopyIntact(d, k, j)

(* The sector as decrypt_volume gives it back: those of the header come    *)
(* from the backup, under the tweak of the place they were stored at.      *)
View(d, k, i) ==
  IF i \in HeaderSectors
  THEN DecryptSector(k, BackupAt + i, d[BackupAt + i])
  ELSE DecryptSector(k, i, d[i])

MetadataPlaces == {i \in Sectors : \E j \in Copies : MetaAt(j) =< i /\ i < MetaAt(j) + BlockSectors}
BackupPlaces == BackupAt .. BackupAt + SavedSectors - 1

(* The sectors on which the structures are written: what was there before  *)
(* is not kept anywhere.                                                   *)
Overwritten == MetadataPlaces \cup BackupPlaces
=============================================================================
