--------------------------- MODULE ImageEncryptor ---------------------------
(***************************************************************************)
(* encrypt_volume: an image or a device is read and a BitLocker image is   *)
(* written, header first, then the sectors, then the structures over them. *)
(* The run may be cut off inside any write, and the output path may name   *)
(* the source.                                                             *)
(***************************************************************************)
EXTENDS BitLockerVolume, Fat32, FiniteSets

CONSTANTS
  Bpb,             \* the FAT32 geometry in the boot sector
  ChunkSectors,    \* chunk_sectors: 256
  Held,            \* how many sectors the open source may still hold in its
                   \* buffer when opening the output has emptied the file
  Requests         \* the calls a user may make

Key == 1

(* fs: what _detect_source_fs makes of the boot sector.  full:             *)
(* encrypt_full_drive.  allocated: the clusters in use.  ragged: the last  *)
(* sector of the source is a partial one.  aliased: output_path names the  *)
(* source.                                                                 *)
IsRequest(r) ==
  /\ DOMAIN r = {"fs", "full", "allocated", "ragged", "aliased"}
  /\ r.fs \in {"FAT32", "NTFS", "other"}
  /\ r.full \in BOOLEAN /\ r.ragged \in BOOLEAN /\ r.aliased \in BOOLEAN

ASSUME ImageConstants ==
  /\ Bpb \in Geometry /\ SystemRegion(Bpb).end =< VolumeSectors
  /\ ChunkSectors \in Nat \ {0}
  /\ Held \subseteq 0 .. VolumeSectors
  /\ \A r \in Requests : IsRequest(r)

VARIABLES
  request,   \* what was asked for; fixed
  source,    \* the sectors of the source
  out,       \* the file at output_path
  pc,        \* what the run does next
  regions,   \* used_regions, sorted
  saved,     \* original_header
  offset,    \* current_offset
  copy       \* the metadata block written next

encVars == <<request, source, out, pc, regions, saved, offset, copy>>

Writing == {"head", "body", "metadata", "backup", "fit"}
EncryptionOver == {"refused", "done", "cut"}

EncInit ==
  /\ request \in Requests
  /\ source = [i \in Sectors |-> Original(i)]
  /\ out = <<>>
  /\ pc = "start"
  /\ regions = <<>>
  /\ saved = <<>>
  /\ offset = 0
  /\ copy = 1

-----------------------------------------------------------------------------
Length(file) == Cardinality(DOMAIN file)

(* fp.seek(at); fp.read(n): short at the end of file. *)
ReadSource(at, n) ==
  [i \in 0 .. Least(n, IF Length(source) > at THEN Length(source) - at ELSE 0) - 1 |->
     source[at + i]]

(* The file after the first m sectors of a write: it grows as it must, a   *)
(* gap reads as zeros.                                                     *)
Written(file, w, m) ==
  [i \in DOMAIN file \cup (IF m = 0 THEN {} ELSE 0 .. w.at + m - 1) |->
     CASE w.at =< i /\ i < w.at + m -> w.data[i - w.at]
       [] ~(w.at =< i /\ i < w.at + m) -> IF i \in DOMAIN file THEN file[i] ELSE Zero]

(* used_regions is None unless the call is for the used space of FAT32. *)
Selective == ~request.full /\ request.fs = "FAT32"

(* regions.sort(): s lists R by where the regions start. *)
IsSorting(s, R) ==
  /\ \A r \in R : \E n \in DOMAIN s : s[n] = r
  /\ \A i, j \in DOMAIN s : i < j => s[i].start < s[j].start

(* The runs of the sectors in use, in order. *)
UsedRegions ==
  LET R == Runs(Covered(Bpb, VolumeSectors, request.allocated), VolumeSectors)
  IN  CHOOSE s \in [1 .. Cardinality(R) -> R] : IsSorting(s, R)

(* Seeded fault: a sector that begins where a region begins is not in it.  *)
AfterTheStart(at) ==
  \E n \in DOMAIN regions : regions[n].start < at /\ at < regions[n].end

(* _offset_in_regions for a sector: the first region that overlaps it; the *)
(* search is given up at a region that starts well behind it.              *)
OffsetInRegions(at) ==
  \E n \in DOMAIN regions :
    /\ at < regions[n].end /\ at + 1 > regions[n].start
    /\ \A i \in 1 .. n - 1 : ~(regions[i].start > at + 1)

-----------------------------------------------------------------------------
Refuse ==
  /\ pc = "start"
  /\ request.fs = "other"
  /\ pc' = "refused"
  /\ UNCHANGED <<request, source, out, regions, saved, offset, copy>>

(* Everything up to the opening of the output. *)
Open ==
  /\ pc = "start"
  /\ request.fs # "other"
  /\ saved' = ReadSource(0, SavedSectors)
  /\ regions' = IF Selective THEN UsedRegions ELSE <<>>
  /\ IF request.aliased
     THEN \E n \in Held : source' = [i \in 0 .. n - 1 |-> source[i]]
     ELSE UNCHANGED source
  /\ out' = <<>>
  /\ pc' = "head"
  /\ UNCHANGED <<request, offset, copy>>

HeadWrite ==
  WriteAt(0, NumHeaderSectors,
          [i \in HeaderSectors |-> IF i = 0 THEN BitLockerHeader ELSE Zero])

WriteHead ==
  /\ pc = "head"
  /\ out' = Written(out, HeadWrite, HeadWrite.len)
  /\ offset' = NumHeaderSectors
  /\ pc' = "body"
  /\ UNCHANGED <<request, source, regions, saved, copy>>

Chunk == ReadSource(offset, Least(ChunkSectors, VolumeSectors - offset))

(* Seeded fault: the sectors of a chunk are numbered from its start.       *)
SealedByChunk(at, chunk) ==
  [i \in DOMAIN chunk |->
     IF Selective /\ ~OffsetInRegions(at + i)
     THEN chunk[i]
     ELSE EncryptSector(Key, i, chunk[i])]

(* A sector is sealed under its own place, or copied as it is when no      *)
(* region is near; a partial last one has been filled up with zeros.       *)
Sealed(at, chunk) ==
  [i \in DOMAIN chunk |->
     IF Selective /\ ~OffsetInRegions(at + i)
     THEN chunk[i]
     ELSE EncryptSector(Key, at + i, chunk[i])]

ChunkWrite == WriteAt(offset, Length(Chunk), Sealed(offset, Chunk))

(* Seeded fault: a short read counts as a whole chunk.                     *)
AfterWholeChunk == offset + ChunkSectors

AfterChunk == offset + Length(Chunk)

EncryptChunk ==
  /\ pc = "body"
  /\ offset < VolumeSectors
  /\ Chunk # <<>>
  /\ out' = Written(out, ChunkWrite, ChunkWrite.len)
  /\ offset' = AfterChunk
  /\ UNCHANGED <<request, source, pc, regions, saved, copy>>

(* Seeded fault: an empty read does not end the loop.                      *)
AtVolumeEnd == offset >= VolumeSectors

BodyOver == offset >= VolumeSectors \/ Chunk = <<>>

EndBody ==
  /\ pc = "body"
  /\ BodyOver
  /\ pc' = "metadata"
  /\ UNCHANGED <<request, source, out, regions, saved, offset, copy>>

MetadataWrite(j) == WriteAt(MetaAt(j), BlockSectors, FveBlock(Key))

WriteMetadata ==
  /\ pc = "metadata"
  /\ out' = IF MetaAt(copy) < VolumeSectors
            THEN Written(out, MetadataWrite(copy), BlockSectors)
            ELSE out
  /\ IF copy = 3
     THEN pc' = "backup" /\ UNCHANGED copy
     ELSE copy' = copy + 1 /\ UNCHANGED pc
  /\ UNCHANGED <<request, source, regions, saved, offset>>

BackupWrite == WriteAt(BackupAt, SavedSectors, EncryptSectors(Key, BackupAt, saved))

WriteBackup ==
  /\ pc = "backup"
  /\ out' = Written(out, BackupWrite, SavedSectors)
  /\ pc' = "fit"
  /\ UNCHANGED <<request, source, regions, saved, offset, copy>>

(* The file is made as long as the source was; the end of a filled up last *)
(* sector is cut off.                                                      *)
FitSize ==
  /\ pc = "fit"
  /\ out' = [i \in Sectors |-> IF i \in DOMAIN out THEN out[i] ELSE Zero]
  /\ pc' = "done"
  /\ UNCHANGED <<request, source, regions, saved, offset, copy>>

(* A read or a write raises, or the process is killed, inside the write    *)
(* under way.                                                              *)
Pending ==
  CASE pc = "head"     -> HeadWrite
    [] pc = "body"     -> ChunkWrite
    [] pc = "metadata" -> MetadataWrite(copy)
    [] pc = "backup"   -> BackupWrite
    [] pc = "fit"      -> WriteAt(0, 0, <<>>)

Interrupt ==
  /\ pc \in Writing
  /\ \E m \in 0 .. Pending.len : out' = Written(out, Pending, m)
  /\ pc' = "cut"
  /\ UNCHANGED <<request, source, regions, saved, offset, copy>>

EncryptStep == \/ Refuse \/ Open \/ WriteHead \/ EncryptChunk \/ EndBody
               \/ WriteMetadata \/ WriteBackup \/ FitSize
-----------------------------------------------------------------------------
EncTypeOK ==
  /\ IsRequest(request)
  /\ DOMAIN source \subseteq Sectors
  /\ DOMAIN out \subseteq Sectors
  /\ \A i \in DOMAIN out : out[i] \in Content
  /\ pc \in {"start"} \cup Writing \cup EncryptionOver
  /\ \A n \in DOMAIN regions : regions[n] \in [start : Nat, end : Nat]
  /\ offset \in 0 .. VolumeSectors
  /\ copy \in Copies

(* Every call ends, also one that has emptied what it was about to read. *)
EncryptionEnds == <>(pc \in EncryptionOver)
=============================================================================
