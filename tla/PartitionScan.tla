--------------------------- MODULE PartitionScan ---------------------------
(***************************************************************************)
(* Where in a file a BitLocker volume starts, and whether its first sector *)
(* is taken for a header: detect_bitlocker_offset and read_volume_header.  *)
(* Of a sector only its face counts: what stands at offset 3, whether it   *)
(* ends in 55 AA, whether "FAT32   " stands at offset 82.                  *)
(***************************************************************************)
EXTENDS Naturals, Sequences
Seqs == INSTANCE SequencesExt

(* "fve" is -FVE-FS-, "mswin" is MSWIN4.1: the OEM name of BitLocker To Go *)
(* and of any FAT volume that Windows 98 formatted.                        *)
Face == [signature : {"fve", "mswin", "other"}, mark : BOOLEAN, fat32 : BOOLEAN]

(* An entry of the partition table; used: its type is not zero. *)
Entry == [used : BOOLEAN, start : Nat]

(* sectors: how many whole sectors the file has.  faces: the sectors with  *)
(* a face of their own; all others are blank.                              *)
IsImage(img) ==
  /\ DOMAIN img = {"sectors", "faces", "table"}
  /\ img.sectors \in Nat
  /\ \A i \in DOMAIN img.faces : img.faces[i] \in Face
  /\ img.table \in Seq(Entry) /\ Len(img.table) = 4

Blank == [signature |-> "other", mark |-> FALSE, fat32 |-> FALSE]

FaceAt(img, i) == IF i \in DOMAIN img.faces THEN img.faces[i] ELSE Blank

(* A whole sector with either signature; nothing else of it is looked at.  *)
Signed(img, i) == i < img.sectors /\ FaceAt(img, i).signature # "other"

(* Seeded fault: an unused entry ends the scan.                            *)
ScanToFirstUnused(img) ==
  Seqs!SelectInSeq(img.table, LAMBDA e : ~e.used \/ Signed(img, e.start))

(* _find_bitlocker_partition: the first entry in use whose first sector    *)
(* can be read and is signed; 0 when there is none.                        *)
FindBitLockerPartition(img) ==
  Seqs!SelectInSeq(img.table, LAMBDA e : e.used /\ Signed(img, e.start))

DetectOffset(img) ==
  LET n == FindBitLockerPartition(img)
  IN  IF ~Signed(img, 0) /\ img.sectors > 0 /\ FaceAt(img, 0).mark /\ n # 0
      THEN img.table[n].start
      ELSE 0

(* read_volume_header returns: 55 AA, and -FVE-FS- or a FAT32 boot sector  *)
(* of MSWIN4.1.                                                            *)
HeaderReads(img, at) ==
  /\ at < img.sectors
  /\ FaceAt(img, at).mark
  /\ \/ FaceAt(img, at).signature = "fve"
     \/ FaceAt(img, at).signature = "mswin" /\ FaceAt(img, at).fat32
=============================================================================
