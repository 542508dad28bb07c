-------------------------- MODULE InPlaceEncryptor --------------------------
(***************************************************************************)
(* encrypt_device_inplace: the conversion of a FAT32 or NTFS volume to     *)
(* BitLocker on the device itself, write by write.  The run may be cut off *)
(* at any sector of any write (the drive is pulled, an I/O error is        *)
(* raised, the process is killed), and the user may run it again.          *)
(***************************************************************************)
EXTENDS BitLockerVolume, Fat32

CONSTANTS
  FsType,          \* the file system on the volume: "FAT32" or "NTFS"
  Bpb,             \* the FAT32 geometry in its boot sector
  FveFatSize,      \* 0x1FE0, the sectors_per_fat of a BitLocker header
  ChunkSectors,    \* chunk_sectors: 256
  Allocations,     \* the sets of clusters that may be in use
  StaleReadings,   \* what a FAT that is no longer in the clear may read as
  MaxRuns          \* bound: how often the user starts the tool

ASSUME EncryptorConstants ==
  /\ FsType \in {"FAT32", "NTFS"}
  /\ Bpb \in Geometry
  /\ Bpb.fats > 0
  /\ FveFatSize \in Nat
  /\ ChunkSectors \in Nat \ {0}
  /\ MaxRuns \in Nat
  /\ SystemRegion(Bpb).end =< VolumeSectors

VARIABLES
  disk,        \* the sectors of the device
  allocated,   \* the clusters the file system has in use
  pc,          \* what the run does next
  run,         \* number of the run, which is also the key it generated
  used,        \* the sectors of used_regions
  regions,     \* the regions the loop has not entered yet
  offset,      \* the sector the loop is at
  extent,      \* region_end of the region it is in
  saved,       \* original_header
  copy         \* the metadata block written next

vars == <<disk, allocated, pc, run, used, regions, offset, extent, saved, copy>>

Stopped == {"idle", "refused", "failed", "done"}
Running == {"regions", "chunks", "metadata", "backup", "header", "sync"}

Init ==
  /\ disk = [i \in Sectors |-> Original(i)]
  /\ allocated \in Allocations
  /\ pc = "idle"
  /\ run = 0
  /\ used = {}
  /\ regions = {}
  /\ offset = 0
  /\ extent = 0
  /\ saved = <<>>
  /\ copy = 1

-----------------------------------------------------------------------------
(* Reading the volume, before anything is written. *)

(* _detect_source_fs.  The header of a converted FAT32 volume is a copy of *)
(* its boot sector with the OEM name replaced: the "FAT32   " at offset 82 *)
(* is still there, and is enough to pass.                                  *)
Accepted(sector0) == sector0 # BitLockerHeader \/ FsType = "FAT32"

(* The BPB fields of sector 0, as build_bitlocker_header rewrites them. *)
BpbOf(sector0) ==
  IF sector0 = BitLockerHeader
  THEN [Bpb EXCEPT !.reserved = 0, !.fats = 0, !.fatSize = FveFatSize]
  ELSE Bpb

(* Clusters whose entry in the first FAT is not zero.  A FAT that this run *)
(* or an earlier one has overwritten reads as anything.                    *)
FatInClear ==
  \A i \in FatStart(Bpb) .. FatStart(Bpb) + Bpb.fatSize - 1 : disk[i] = Original(i)

FatReadings(sector0) ==
  IF sector0 # BitLockerHeader /\ FatInClear THEN {allocated} ELSE StaleReadings

(* The whole volume from the header on, or the used regions of a FAT32 one. *)
WholeVolume == {[start |-> NumHeaderSectors, end |-> VolumeSectors]}

(* Seeded fault: the regions are not merged.                               *)
RegionsUnmerged(full, sector0, reading) ==
  IF full \/ FsType = "NTFS"
  THEN WholeVolume
  ELSE {SystemRegion(BpbOf(sector0))}
         \cup {ClusterRegion(BpbOf(sector0), VolumeSectors, c) : c \in reading}

RegionsFor(full, sector0, reading) ==
  IF full \/ FsType = "NTFS"
  THEN WholeVolume
  ELSE Runs(Covered(BpbOf(sector0), VolumeSectors, reading), VolumeSectors)

(* Everything up to the opening of the device for writing; a new run has   *)
(* new keys.                                                               *)
ReadVolume ==
  /\ pc \in Stopped
  /\ run < MaxRuns
  /\ Accepted(disk[0])
  /\ run' = run + 1
  /\ saved' = ReadAt(disk, 0, SavedSectors)
  /\ \E full \in BOOLEAN, reading \in FatReadings(disk[0]) :
       regions' = RegionsFor(full, disk[0], reading)
  /\ used' = UNION {Places(r) : r \in regions'}
  /\ pc' = "regions"
  /\ offset' = 0
  /\ extent' = 0
  /\ copy' = 1
  /\ UNCHANGED <<disk, allocated>>

RefuseVolume ==
  /\ pc \in Stopped
  /\ run < MaxRuns
  /\ ~Accepted(disk[0])
  /\ pc' = "refused"
  /\ UNCHANGED <<disk, allocated, run, used, regions, offset, extent, saved, copy>>

-----------------------------------------------------------------------------
(* The writes of a run, in the order of the code.                          *)

(* Seeded fault: only whole chunks are read.                               *)
ChunkRounded(o, e) == ((e - o) \div ChunkSectors) * ChunkSectors

ChunkLength(o, e) == Least(ChunkSectors, e - o)

(* Seeded fault: the tweak counts from the start of the chunk.             *)
ChunkWriteFromZero ==
  LET n == ChunkLength(offset, extent)
  IN  WriteAt(offset, n, EncryptSectors(run, 0, ReadAt(disk, offset, n)))

ChunkWrite ==
  LET n == ChunkLength(offset, extent)
  IN  WriteAt(offset, n, EncryptSectors(run, offset, ReadAt(disk, offset, n)))

MetadataWrite(j) == WriteAt(MetaAt(j), BlockSectors, FveBlock(run))

(* Seeded fault: the backup starts one sector early.                       *)
BackupOffByOne == WriteAt(BackupAt - 1, SavedSectors, EncryptSectors(run, BackupAt, saved))

(* Seeded fault: the backup is sealed under the places of the header.      *)
BackupAsHeader == WriteAt(BackupAt, SavedSectors, EncryptSectors(run, 0, saved))

BackupWrite == WriteAt(BackupAt, SavedSectors, EncryptSectors(run, BackupAt, saved))

(* bl_header, then zeros over the rest of the header. *)
HeaderWrite ==
  WriteAt(0, NumHeaderSectors,
          [i \in HeaderSectors |-> IF i = 0 THEN BitLockerHeader ELSE Zero])

(* The loop takes the regions by their start; one that ends in the header  *)
(* is skipped, one that begins there is entered at the end of the header.  *)
InHeader(r) == r.end =< NumHeaderSectors

EntryPoint(r) == IF r.start > NumHeaderSectors THEN r.start ELSE NumHeaderSectors

EnterRegion ==
  /\ pc = "regions"
  /\ \E r \in regions :
       /\ \A q \in regions : r.start =< q.start
       /\ regions' = regions \ {r}
       /\ IF InHeader(r)
          THEN UNCHANGED <<pc, offset, extent>>
          ELSE /\ pc' = "chunks"
               /\ offset' = EntryPoint(r)
               /\ extent' = r.end
  /\ UNCHANGED <<disk, allocated, run, used, saved, copy>>

EncryptChunk ==
  /\ pc = "chunks"
  /\ disk' = Put(disk, ChunkWrite, ChunkWrite.len)
  /\ offset' = offset + ChunkWrite.len
  /\ pc' = IF offset' < extent THEN "chunks" ELSE "regions"
  /\ UNCHANGED <<allocated, run, used, regions, extent, saved, copy>>

RegionsDone ==
  /\ pc = "regions"
  /\ regions = {}
  /\ pc' = "metadata"
  /\ UNCHANGED <<disk, allocated, run, used, regions, offset, extent, saved, copy>>

(* Seeded fault: the loop stops before the third block.                    *)
WriteTwoBlocks ==
  /\ pc = "metadata"
  /\ disk' = IF MetaAt(copy) < VolumeSectors
             THEN Put(disk, MetadataWrite(copy), BlockSectors)
             ELSE disk
  /\ copy' = copy + 1
  /\ pc' = IF copy = 2 THEN "backup" ELSE "metadata"
  /\ UNCHANGED <<allocated, run, used, regions, offset, extent, saved>>

(* Seeded fault: the loop goes on to a fourth block.                       *)
WriteFourBlocks ==
  /\ pc = "metadata"
  /\ disk' = IF MetaAt(copy) < VolumeSectors
             THEN Put(disk, MetadataWrite(copy), BlockSectors)
             ELSE disk
  /\ copy' = copy + 1
  /\ pc' = IF copy = 4 THEN "backup" ELSE "metadata"
  /\ UNCHANGED <<allocated, run, used, regions, offset, extent, saved>>

(* Seeded fault: a block that stands there already is not written again.   *)
WriteMissingBlock ==
  /\ pc = "metadata"
  /\ disk' = IF MetaAt(copy) < VolumeSectors /\ \A k \in 1 .. run : ~CopyIntact(disk, k, copy)
             THEN Put(disk, MetadataWrite(copy), BlockSectors)
             ELSE disk
  /\ copy' = copy + 1
  /\ pc' = IF copy = 3 THEN "backup" ELSE "metadata"
  /\ UNCHANGED <<allocated, run, used, regions, offset, extent, saved>>

WriteMetadata ==
  /\ pc = "metadata"
  /\ disk' = IF MetaAt(copy) < VolumeSectors
             THEN Put(disk, MetadataWrite(copy), BlockSectors)
             ELSE disk
  /\ copy' = copy + 1
  /\ pc' = IF copy = 3 THEN "backup" ELSE "metadata"
  /\ UNCHANGED <<allocated, run, used, regions, offset, extent, saved>>

WriteBackup ==
  /\ pc = "backup"
  /\ disk' = Put(disk, BackupWrite, SavedSectors)
  /\ pc' = "header"
  /\ UNCHANGED <<allocated, run, used, regions, offset, extent, saved, copy>>

WriteHeader ==
  /\ pc = "header"
  /\ disk' = Put(disk, HeaderWrite, NumHeaderSectors)
  /\ pc' = "sync"
  /\ UNCHANGED <<allocated, run, used, regions, offset, extent, saved, copy>>

(* flush, fsync, and the return of the recovery key to the caller. *)
Sync ==
  /\ pc = "sync"
  /\ pc' = "done"
  /\ UNCHANGED <<disk, allocated, run, used, regions, offset, extent, saved, copy>>

(* The run ends between two writes or inside one: a first part of the      *)
(* write under way has reached the device, and nothing after it.           *)
Pending ==
  CASE pc = "chunks"   -> ChunkWrite
    [] pc = "metadata" -> MetadataWrite(copy)
    [] pc = "backup"   -> BackupWrite
    [] pc = "header"   -> HeaderWrite
    [] OTHER           -> WriteAt(0, 0, <<>>)

Interrupt ==
  /\ pc \in Running
  /\ \E m \in 0 .. Pending.len : disk' = Put(disk, Pending, m)
  /\ pc' = "failed"
  /\ UNCHANGED <<allocated, run, used, regions, offset, extent, saved, copy>>

RunStep == \/ EnterRegion \/ EncryptChunk \/ RegionsDone
           \/ WriteMetadata \/ WriteBackup \/ WriteHeader \/ Sync

Next == ReadVolume \/ RefuseVolume \/ RunStep \/ Interrupt

Spec == Init /\ [][Next]_vars

(* A run that was started goes on; nobody has to start one, or to end it. *)
FairSpec == Spec /\ WF_vars(RunStep)

-----------------------------------------------------------------------------
(* What the file system holds: the sectors of its structures and files.    *)
Live == IF FsType = "NTFS" THEN Sectors
                           ELSE Covered(Bpb, VolumeSectors, allocated)

(* The sectors the owner gets back: those in use whose place no structure  *)
(* of BitLocker takes.                                                     *)
Preserved == (Live \cup HeaderSectors) \ Overwritten

TypeOK ==
  /\ disk \in [Sectors -> Content]
  /\ allocated \in Allocations
  /\ pc \in Stopped \cup Running
  /\ run \in 0 .. MaxRuns
  /\ used \subseteq Sectors
  /\ regions \subseteq [start : 0 .. VolumeSectors, end : 0 .. VolumeSectors]
  /\ offset \in 0 .. VolumeSectors
  /\ extent \in 0 .. VolumeSectors
  /\ run > 0 => saved \in [0 .. SavedSectors - 1 -> Content]
  /\ copy \in 1 .. 4

(* Once the BitLocker header is on the device, by a run that ended or by   *)
(* one that was cut off, the volume unlocks, and every preserved sector    *)
(* comes back as it was before: "LAST for safety" (encryptor.py:614).      *)
(* For the first run: what a second one does to the data is another run's  *)
(* question.                                                               *)
LockedMeansRecoverable ==
  run = 1 /\ IsBitLocker(disk) =>
    /\ Unlocks(disk, run)
    /\ \A i \in Preserved : View(disk, run, i) = Original(i)

(* The first run seals a sector once, under the tweak of its own place,    *)
(* and only a sector in use: the others are not touched, wherever the run  *)
(* is and wherever it was cut off.                                         *)
SealedOnceInPlace ==
  run =< 1 =>
    \A i \in Sectors \ (Overwritten \cup HeaderSectors) :
      disk[i] \in {Original(i)} \cup
        IF i \in used THEN {EncryptSector(run, i, Original(i))} ELSE {}

(* A run puts its BitLocker header down when all three metadata blocks and *)
(* the backup of the header it replaces are complete on the device.        *)
HeaderWrittenLast ==
  [][ disk'[0] # disk[0] =>
        /\ \A j \in Copies : CopyIntact(disk, run, j)
        /\ ReadAt(disk, BackupAt, SavedSectors) = EncryptSectors(run, BackupAt, saved) ]_vars

(* A run never writes over a metadata block that it has itself put down:   *)
(* the three copies are made for redundancy, and stay redundant.           *)
CopiesSurviveTheRun ==
  [][ \A j \in Copies : run > 0 /\ run' = run /\ CopyIntact(disk, run, j)
        => CopyIntact(disk', run, j) ]_vars

(* A run comes to an end: every region is taken once, every chunk moves    *)
(* the loop on.                                                            *)
RunEnds == pc \in Running ~> pc \in Stopped

(* What the runs up to number k leave of sector i: the original, under the *)
(* layers of those of them that sealed it, each at its own place.          *)
SealedByRuns(c, i, k) ==
  /\ c.base = Original(i).base
  /\ \A n \in DOMAIN c.layers : c.layers[n] \in {Tweaked("enc", j, i) : j \in 1 .. k}

(* The run that reports success has put the header, the blocks and the     *)
(* backup of this very run on the device, and has sealed every sector in   *)
(* use exactly once and no other: with its key, the reader gets each of    *)
(* them as the run found it.  So too when it started on what an earlier    *)
(* run had left, half sealed, with or without its blocks: nothing of that  *)
(* is taken for work already done, and nothing is done twice.              *)
ReportedMeansComplete ==
  pc = "done" =>
    /\ IsBitLocker(disk)
    /\ \A j \in Copies : CopyIntact(disk, run, j)
    /\ ReadAt(disk, BackupAt, SavedSectors) = EncryptSectors(run, BackupAt, saved)
    /\ \A i \in Sectors \ (Overwritten \cup HeaderSectors) :
         SealedByRuns(IF i \in used THEN View(disk, run, i) ELSE disk[i], i, run - 1)

(* The tool converts a file system and nothing else: "The source volume    *)
(* must be a valid NTFS or FAT32 filesystem." (encryptor.py:57).           *)
OnlyFileSystemsConverted ==
  [][ (pc \in Stopped /\ pc' = "regions") => ~IsBitLocker(disk) ]_vars

(* "All existing data on the drive will be encrypted in place."            *)
(* (README.md:294): after a first run that succeeds, every sector in use   *)
(* comes back, those under the structures of BitLocker too.                *)
AllDataEncryptedInPlace ==
  run = 1 /\ pc = "done" => \A i \in Live : View(disk, run, i) = Original(i)

(* "Restores the original volume header" (README.md:246): the sectors of   *)
(* the header come back from the backup, whatever the sector size.         *)
OriginalHeaderRestored ==
  run = 1 /\ pc = "done" =>
    \A i \in HeaderSectors : View(disk, run, i) = Original(i)

-----------------------------------------------------------------------------
(* The run as a conversion.  Readable is what the owner can read: with the *)
(* key once the volume is locked, straight from the device before.         *)
StatusOf ==
  CASE IsBitLocker(disk)  -> "locked"
    [] ~IsBitLocker(disk) /\ pc \in Running -> "converting"
    [] ~IsBitLocker(disk) /\ pc = "failed"  -> "broken"
    [] OTHER              -> "plain"

ReadableOf ==
  IF IsBitLocker(disk)
  THEN Unlocks(disk, run) /\ \A i \in Preserved : View(disk, run, i) = Original(i)
  ELSE \A i \in Preserved : disk[i] = Original(i)

Promise == INSTANCE Conversion
  WITH status <- StatusOf, readable <- ReadableOf, retry <- run > 1

(* Every run implements the conversion: the write of sector 0 is its       *)
(* commit, everything before it and after it is invisible or allowed, and  *)
(* only a volume that is not locked is converted.                          *)
ImplementsConversion == Promise!Spec
=============================================================================
