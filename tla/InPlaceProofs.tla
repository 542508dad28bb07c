---------------------------- MODULE InPlaceProofs ----------------------------
(***************************************************************************)
(* The safety of encrypt_device_inplace, for every volume, layout, chunk   *)
(* size and set of files.                                                  *)
(***************************************************************************)
EXTENDS InPlaceInvariant, VolumeProofs

-----------------------------------------------------------------------------
(* The layout in sectors. *)

(* Header, first block, backup, second and third block, in this order. *)
LEMMA Placement ==
  /\ NumHeaderSectors \in Nat \ {0}
  /\ VolumeSectors \in Nat \ {0}
  /\ \A j \in Copies : MetaAt(j) \in Nat
  /\ BackupAt \in Nat
  /\ BlockSectors \in Nat
  /\ SavedSectors \in 0 .. NumHeaderSectors
  /\ NumHeaderSectors =< MetaAt(1)
  /\ MetaAt(1) + BlockSectors =< BackupAt
  /\ BackupAt + NumHeaderSectors =< MetaAt(2)
  /\ MetaAt(2) + BlockSectors =< MetaAt(3)
  /\ MetaAt(3) + BlockSectors =< VolumeSectors
  /\ NumHeaderSectors < VolumeSectors
  /\ NumHeaderSectors =< BackupAt
  /\ BackupAt + SavedSectors =< MetaAt(2)
  /\ BackupAt + SavedSectors =< VolumeSectors
<1>1. /\ VolumeSectors \in Nat \ {0} /\ SectorSize \in Nat \ {0}
      /\ BaseSectorSize \in 1 .. SectorSize /\ BlockSize % SectorSize = 0
      /\ SectorAligned(VolumeSectors * SectorSize, SectorSize)
      /\ LaidOut(VolumeSectors * SectorSize, SectorSize)
  BY VolumeConstants DEF VolumeSize
<1>2. PlacedInSectors(VolumeSectors, SectorSize)
  BY <1>1, LayoutInSectors
<1>3. SavedSectors \in 0 .. NumHeaderSectors
  BY <1>1, SavedInSectors DEF SavedSectors
<1>4. QED
  BY <1>1, <1>2, <1>3, LayoutConstants
     DEF PlacedInSectors, SectorOf, MetaAt, BackupAt, BlockSectors, VolumeSize, Copies

-----------------------------------------------------------------------------
(* Reads and writes. *)

LEMMA ContentsAreContent ==
  /\ \A i \in Nat : Original(i) \in Content
  /\ Zero \in Content
  /\ BitLockerHeader \in Content
  /\ \A k \in Nat : FveBlock(k) \in [0 .. BlockSectors - 1 -> Content]
<1>1. \A i \in Nat : Original(i) \in Content
  BY PlainIsContent DEF Original, Base
<1>2. Zero \in Content /\ BitLockerHeader \in Content
  BY PlainIsContent DEF Zero, BitLockerHeader, Base
<1>3. ASSUME NEW k \in Nat PROVE FveBlock(k) \in [0 .. BlockSectors - 1 -> Content]
  <2>1. \A i \in 0 .. BlockSectors - 1 : [kind |-> "fve", at |-> i, key |-> k] \in Base
    BY Placement DEF Base
  <2>2. QED
    BY <2>1, PlainIsContent DEF FveBlock
<1>4. QED
  BY <1>1, <1>2, <1>3

LEMMA PutIsDisk ==
  ASSUME NEW d \in [Sectors -> Content],
         NEW start \in Nat, NEW n \in Nat, NEW data \in [0 .. n - 1 -> Content],
         NEW m \in 0 .. n
  PROVE  Put(d, WriteAt(start, n, data), m) \in [Sectors -> Content]
<1>1. \A i \in Sectors : start =< i /\ i < start + m => data[i - start] \in Content
  BY DEF Sectors
<1>2. QED
  BY <1>1 DEF Put, WriteAt

(* Each sector after the first m sectors of a write. *)
LEMMA PutAt ==
  ASSUME NEW d \in [Sectors -> Content],
         NEW start \in Nat, NEW n \in Nat, NEW data, NEW m \in 0 .. n,
         NEW i \in Sectors
  PROVE  Put(d, WriteAt(start, n, data), m)[i] =
           IF start =< i /\ i < start + m THEN data[i - start] ELSE d[i]
BY DEF Put, WriteAt

(* A write does not disturb what is read elsewhere. *)
LEMMA ReadApart ==
  ASSUME NEW d \in [Sectors -> Content],
         NEW start \in Nat, NEW n \in Nat, NEW data, NEW m \in 0 .. n,
         NEW from \in Nat, NEW len \in Nat, from + len =< VolumeSectors,
         from + len =< start \/ start + n =< from
  PROVE  ReadAt(Put(d, WriteAt(start, n, data), m), from, len) = ReadAt(d, from, len)
<1>1. \A i \in 0 .. len - 1 : from + i \in Sectors /\ ~ (start =< from + i /\ from + i < start + m)
  BY Placement DEF Sectors
<1>2. ASSUME NEW i \in 0 .. len - 1
      PROVE  Put(d, WriteAt(start, n, data), m)[from + i] = d[from + i]
  <2> DEFINE x == from + i
  <2>1. x \in Sectors /\ ~ (start =< x /\ x < start + m)
    BY <1>1
  <2> HIDE DEF x
  <2>2. Put(d, WriteAt(start, n, data), m)[x] = d[x]
    BY <2>1, PutAt
  <2>3. QED
    BY <2>2 DEF x
<1>3. QED
  BY <1>2 DEF ReadAt

(* What has been written is what is read. *)
LEMMA ReadWritten ==
  ASSUME NEW d \in [Sectors -> Content],
         NEW start \in Nat, NEW n \in Nat, NEW data \in [0 .. n - 1 -> Content],
         start + n =< VolumeSectors
  PROVE  ReadAt(Put(d, WriteAt(start, n, data), n), start, n) = data
<1>1. \A i \in 0 .. n - 1 :
        /\ start + i \in Sectors
        /\ start =< start + i /\ start + i < start + n
        /\ (start + i) - start = i
  BY Placement DEF Sectors
<1>2. \A i \in 0 .. n - 1 : Put(d, WriteAt(start, n, data), n)[start + i] = data[i]
  BY <1>1, PutAt
<1>3. QED
  BY <1>2 DEF ReadAt

LEMMA ReadIsContent ==
  ASSUME NEW d \in [Sectors -> Content], NEW start \in Nat, NEW n \in Nat,
         start + n =< VolumeSectors
  PROVE  ReadAt(d, start, n) \in [0 .. n - 1 -> Content]
<1>1. \A i \in 0 .. n - 1 : start + i \in Sectors
  BY Placement DEF Sectors
<1>2. QED
  BY <1>1 DEF ReadAt

LEMMA EncryptSectorsIsContent ==
  ASSUME NEW k \in Nat, NEW start \in Nat, NEW n \in Nat,
         NEW data \in [0 .. n - 1 -> Content]
  PROVE  EncryptSectors(k, start, data) \in [0 .. n - 1 -> Content]
<1>1. \A i \in 0 .. n - 1 : EncryptSector(k, start + i, data[i]) \in Content
  BY CipherIsContent
<1>2. QED
  BY <1>1 DEF EncryptSectors

-----------------------------------------------------------------------------
(* The four writes of a run are of the form the lemmas speak of, and end   *)
(* inside the volume.                                                      *)

LEMMA ChunkLengthBounds ==
  ASSUME TypeOK, LoopInRegion, pc = "chunks"
  PROVE  /\ ChunkLength(offset, extent) \in Nat \ {0}
         /\ offset + ChunkLength(offset, extent) =< extent
         /\ offset \in Nat /\ extent \in 0 .. VolumeSectors
<1>1. /\ offset \in Nat /\ extent \in Nat /\ offset < extent /\ extent =< VolumeSectors
      /\ ChunkSectors \in Nat \ {0}
  BY EncryptorConstants DEF TypeOK, LoopInRegion
<1>2. QED
  BY <1>1 DEF ChunkLength, Least

LEMMA ChunkWriteShape ==
  ASSUME TypeOK, LoopInRegion, pc = "chunks"
  PROVE  \E n \in Nat \ {0} : \E data \in [0 .. n - 1 -> Content] :
           /\ n = ChunkLength(offset, extent)
           /\ ChunkWrite = WriteAt(offset, n, data)
           /\ ChunkWrite.len = n
           /\ offset + n =< extent
           /\ \A i \in 0 .. n - 1 : data[i] = EncryptSector(run, offset + i, disk[offset + i])
<1> DEFINE n == ChunkLength(offset, extent)
<1> DEFINE data == EncryptSectors(run, offset, ReadAt(disk, offset, n))
<1>1. /\ n \in Nat \ {0} /\ offset + n =< extent
      /\ offset \in Nat /\ extent \in 0 .. VolumeSectors
  BY ChunkLengthBounds
<1>2. ReadAt(disk, offset, n) \in [0 .. n - 1 -> Content]
  <2> HIDE DEF n
  <2>1. disk \in [Sectors -> Content]
    BY DEF TypeOK
  <2>2. n \in Nat /\ offset \in Nat /\ offset + n =< VolumeSectors
    BY <1>1, Placement
  <2>3. QED
    BY <2>1, <2>2, ReadIsContent
<1>3. data \in [0 .. n - 1 -> Content]
  BY <1>1, <1>2, EncryptSectorsIsContent, EncryptorConstants DEF TypeOK
<1>4. ChunkWrite = WriteAt(offset, n, data) /\ ChunkWrite.len = n
  BY DEF ChunkWrite, WriteAt
<1>5. \A i \in 0 .. n - 1 : data[i] = EncryptSector(run, offset + i, disk[offset + i])
  BY DEF EncryptSectors, ReadAt
<1>6. QED
  BY <1>1, <1>3, <1>4, <1>5

LEMMA OtherWritesShape ==
  ASSUME TypeOK, run > 0
  PROVE  /\ run \in Nat
         /\ FveBlock(run) \in [0 .. BlockSectors - 1 -> Content]
         /\ EncryptSectors(run, BackupAt, saved) \in [0 .. SavedSectors - 1 -> Content]
         /\ [i \in HeaderSectors |-> IF i = 0 THEN BitLockerHeader ELSE Zero]
              \in [0 .. NumHeaderSectors - 1 -> Content]
<1>1. run \in Nat /\ saved \in [0 .. SavedSectors - 1 -> Content]
  BY EncryptorConstants DEF TypeOK
<1>2. EncryptSectors(run, BackupAt, saved) \in [0 .. SavedSectors - 1 -> Content]
  <2>1. SavedSectors \in Nat /\ BackupAt \in Nat
    BY Placement
  <2>2. QED
    BY <1>1, <2>1, EncryptSectorsIsContent
<1>3. QED
  BY <1>1, <1>2, ContentsAreContent DEF HeaderSectors

-----------------------------------------------------------------------------
(* The regions a run visits. *)

LEMMA PlacesOf ==
  ASSUME NEW r \in [start : 0 .. VolumeSectors, end : 0 .. VolumeSectors]
  PROVE  \A i : i \in Places(r) <=> (i \in Nat /\ r.start =< i /\ i < r.end)
BY Placement DEF Places

LEMMA RegionsForShape ==
  ASSUME NEW full \in BOOLEAN, NEW sector0, NEW reading
  PROVE  LET R == RegionsFor(full, sector0, reading)
         IN  /\ R \subseteq [start : 0 .. VolumeSectors, end : 0 .. VolumeSectors]
             /\ \A r \in R : r.start < r.end
             /\ \A r, q \in R : \A i \in Places(r) : i \in Places(q) => r = q
             /\ UNION {Places(r) : r \in R} \subseteq Sectors
<1> DEFINE R == RegionsFor(full, sector0, reading)
<1>1. /\ R \subseteq [start : 0 .. VolumeSectors, end : 0 .. VolumeSectors]
      /\ \A r \in R : r.start < r.end
      /\ \A r, q \in R : \A i \in Places(r) : i \in Places(q) => r = q
  <2>1. CASE full \/ FsType = "NTFS"
    <3>1. R = {[start |-> NumHeaderSectors, end |-> VolumeSectors]}
      BY <2>1 DEF RegionsFor, WholeVolume
    <3>2. QED
      BY <3>1, Placement
  <2>2. CASE ~ (full \/ FsType = "NTFS")
    <3> DEFINE S == Covered(BpbOf(sector0), VolumeSectors, reading)
    <3>1. R = Runs(S, VolumeSectors)
      BY <2>2 DEF RegionsFor
    <3>2. VolumeSectors \in Nat
      BY Placement
    <3> HIDE DEF S, R
    <3>3. R \subseteq [start : 0 .. VolumeSectors, end : 0 .. VolumeSectors]
      BY <3>1 DEF Runs
    <3>4. \A r \in R : r.start < r.end
      BY <3>1, <3>2, RunPlaces
    <3>5. \A r, q \in R : \A i \in Places(r) : i \in Places(q) => r = q
      BY <3>1, <3>2, RunsApart
    <3>6. QED
      BY <3>3, <3>4, <3>5
  <2>3. QED
    BY <2>1, <2>2
<1> HIDE DEF R
<1>2. \A r \in R : Places(r) \subseteq Sectors
  BY <1>1, PlacesOf, Placement DEF Sectors
<1>3. QED
  BY <1>1, <1>2 DEF R

-----------------------------------------------------------------------------
(* Type correctness. *)

LEMMA InitType == Init => TypeOK
<1> SUFFICES ASSUME Init PROVE TypeOK
  OBVIOUS
<1>1. disk \in [Sectors -> Content]
  BY ContentsAreContent DEF Init, Sectors
<1>2. QED
  BY <1>1, Placement, EncryptorConstants DEF Init, TypeOK, Stopped

LEMMA ReadVolumeType ==
  ASSUME TypeOK, ReadVolume
  PROVE  TypeOK'
<1>1. PICK full \in BOOLEAN, reading \in FatReadings(disk[0]) :
        regions' = RegionsFor(full, disk[0], reading)
  BY DEF ReadVolume
<1>2. /\ regions' \subseteq [start : 0 .. VolumeSectors, end : 0 .. VolumeSectors]
      /\ used' \subseteq Sectors
  <2>1. used' = UNION {Places(r) : r \in regions'}
    BY DEF ReadVolume
  <2>2. QED
    BY <1>1, <2>1, RegionsForShape
<1>3. saved' \in [0 .. SavedSectors - 1 -> Content]
  <2>1. saved' = ReadAt(disk, 0, SavedSectors)
    BY DEF ReadVolume
  <2>2. SavedSectors \in Nat /\ 0 + SavedSectors =< VolumeSectors
    BY Placement
  <2>3. QED
    BY <2>1, <2>2, ReadIsContent DEF TypeOK
<1>4. run' \in 0 .. MaxRuns
  BY EncryptorConstants DEF ReadVolume, TypeOK
<1>5. QED
  BY <1>2, <1>3, <1>4, Placement DEF ReadVolume, TypeOK, Running

LEMMA EnterRegionType ==
  ASSUME TypeOK, EnterRegion
  PROVE  TypeOK'
<1>1. PICK r \in regions :
        /\ regions' = regions \ {r}
        /\ IF InHeader(r) THEN UNCHANGED <<pc, offset, extent>>
           ELSE /\ pc' = "chunks" /\ offset' = EntryPoint(r) /\ extent' = r.end
  BY DEF EnterRegion
<1>2. offset' \in 0 .. VolumeSectors /\ extent' \in 0 .. VolumeSectors
  <2>1. r.start \in 0 .. VolumeSectors /\ r.end \in 0 .. VolumeSectors
    BY DEF TypeOK
  <2>2. QED
    BY <1>1, <2>1, Placement DEF TypeOK, EntryPoint
<1>3. pc' \in Stopped \cup Running
  BY <1>1 DEF TypeOK, Running
<1>4. QED
  BY <1>1, <1>2, <1>3 DEF EnterRegion, TypeOK

LEMMA EncryptChunkType ==
  ASSUME TypeOK, LoopInRegion, EncryptChunk
  PROVE  TypeOK'
<1>1. pc = "chunks"
  BY DEF EncryptChunk
<1>2. PICK n \in Nat \ {0} : \E data \in [0 .. n - 1 -> Content] :
           /\ ChunkWrite = WriteAt(offset, n, data)
           /\ ChunkWrite.len = n
           /\ offset + n =< extent
  BY <1>1, ChunkWriteShape
<1>3. PICK data \in [0 .. n - 1 -> Content] : ChunkWrite = WriteAt(offset, n, data)
  BY <1>2
<1>4. disk' \in [Sectors -> Content]
  <2>1. disk' = Put(disk, WriteAt(offset, n, data), n)
    BY <1>2, <1>3 DEF EncryptChunk
  <2>2. disk \in [Sectors -> Content] /\ offset \in Nat
    BY DEF TypeOK
  <2>3. QED
    BY <2>1, <2>2, PutIsDisk
<1>5. offset' \in 0 .. VolumeSectors
  BY <1>2, Placement DEF EncryptChunk, TypeOK
<1>6. QED
  BY <1>4, <1>5 DEF EncryptChunk, TypeOK, Running

LEMMA WriteType ==
  ASSUME TypeOK, run > 0
  PROVE  /\ \A j \in Copies, m \in 0 .. BlockSectors :
              Put(disk, MetadataWrite(j), m) \in [Sectors -> Content]
         /\ \A m \in 0 .. SavedSectors :
              Put(disk, BackupWrite, m) \in [Sectors -> Content]
         /\ \A m \in 0 .. NumHeaderSectors :
              Put(disk, HeaderWrite, m) \in [Sectors -> Content]
<1>1. disk \in [Sectors -> Content]
  BY DEF TypeOK
<1>2. /\ BlockSectors \in Nat /\ SavedSectors \in Nat /\ NumHeaderSectors \in Nat
      /\ BackupAt \in Nat /\ \A j \in Copies : MetaAt(j) \in Nat
  BY Placement
<1>3. QED
  BY <1>1, <1>2, OtherWritesShape, PutIsDisk
     DEF MetadataWrite, BackupWrite, HeaderWrite

LEMMA InterruptType ==
  ASSUME TypeOK, LoopInRegion, StructuresWritten, Interrupt
  PROVE  TypeOK'
<1>1. PICK m \in 0 .. Pending.len : disk' = Put(disk, Pending, m)
  BY DEF Interrupt
<1>2. run > 0 /\ pc \in Running
  BY DEF Interrupt, StructuresWritten
<1>3. disk' \in [Sectors -> Content]
  <2>1. CASE pc = "chunks"
    <3>1. PICK n \in Nat \ {0} : \E data \in [0 .. n - 1 -> Content] :
             ChunkWrite = WriteAt(offset, n, data) /\ ChunkWrite.len = n
      BY <2>1, ChunkWriteShape
    <3>2. PICK data \in [0 .. n - 1 -> Content] :
             ChunkWrite = WriteAt(offset, n, data)
      BY <3>1
    <3>3. Pending = WriteAt(offset, n, data) /\ m \in 0 .. n
      BY <1>1, <2>1, <3>1, <3>2 DEF Pending
    <3>4. QED
      BY <1>1, <3>3, PutIsDisk DEF TypeOK
  <2>2. CASE pc = "metadata"
    <3>1. Pending = MetadataWrite(copy) /\ Pending.len = BlockSectors
      BY <2>2 DEF Pending, MetadataWrite, WriteAt
    <3>2. copy \in Copies
      BY <2>2 DEF StructuresWritten, TypeOK, Copies
    <3>3. QED
      BY <1>1, <1>2, <3>1, <3>2, WriteType
  <2>3. CASE pc = "backup"
    <3>1. Pending = BackupWrite /\ Pending.len = SavedSectors
      BY <2>3 DEF Pending, BackupWrite, WriteAt
    <3>2. QED
      BY <1>1, <1>2, <3>1, WriteType
  <2>4. CASE pc = "header"
    <3>1. Pending = HeaderWrite /\ Pending.len = NumHeaderSectors
      BY <2>4 DEF Pending, HeaderWrite, WriteAt
    <3>2. QED
      BY <1>1, <1>2, <3>1, WriteType
  <2>5. CASE pc \in {"regions", "sync"}
    <3>1. Pending = WriteAt(0, 0, <<>>)
      BY <2>5 DEF Pending
    <3>2. m \in 0 .. 0
      BY <1>1, <3>1 DEF WriteAt
    <3>3. disk' = [i \in Sectors |-> disk[i]]
      BY <1>1, <3>1, <3>2 DEF Put, WriteAt, TypeOK, Sectors
    <3>4. QED
      BY <3>3 DEF TypeOK
  <2>6. QED
    BY <1>2, <2>1, <2>2, <2>3, <2>4, <2>5 DEF Running
<1>4. QED
  BY <1>3 DEF Interrupt, TypeOK, Stopped

LEMMA NextType ==
  ASSUME TypeOK, LoopInRegion, StructuresWritten, [Next]_vars
  PROVE  TypeOK'
<1>1. CASE ReadVolume
  BY <1>1, ReadVolumeType
<1>2. CASE RefuseVolume
  BY <1>2 DEF RefuseVolume, TypeOK, Stopped
<1>3. CASE EnterRegion
  BY <1>3, EnterRegionType
<1>4. CASE EncryptChunk
  BY <1>4, EncryptChunkType
<1>5. CASE RegionsDone
  BY <1>5 DEF RegionsDone, TypeOK, Running
<1>6. CASE WriteMetadata
  <2>1. copy \in Copies /\ run > 0
    BY <1>6 DEF WriteMetadata, StructuresWritten, TypeOK, Copies, Running
  <2>2. disk' \in [Sectors -> Content]
    BY <1>6, <2>1, WriteType, Placement DEF WriteMetadata, TypeOK
  <2>3. copy' \in 1 .. 4 /\ pc' \in Running
    BY <1>6, <2>1 DEF WriteMetadata, Copies, Running
  <2>4. QED
    BY <1>6, <2>2, <2>3 DEF WriteMetadata, TypeOK
<1>7. CASE WriteBackup
  <2>1. run > 0
    BY <1>7 DEF WriteBackup, StructuresWritten, Running
  <2>2. disk' \in [Sectors -> Content]
    BY <1>7, <2>1, WriteType, Placement DEF WriteBackup
  <2>3. QED
    BY <1>7, <2>2 DEF WriteBackup, TypeOK, Running
<1>8. CASE WriteHeader
  <2>1. run > 0
    BY <1>8 DEF WriteHeader, StructuresWritten, Running
  <2>2. disk' \in [Sectors -> Content]
    BY <1>8, <2>1, WriteType, Placement DEF WriteHeader
  <2>3. QED
    BY <1>8, <2>2 DEF WriteHeader, TypeOK, Running
<1>9. CASE Sync
  BY <1>9 DEF Sync, TypeOK, Stopped
<1>10. CASE Interrupt
  BY <1>10, InterruptType
<1>11. CASE UNCHANGED vars
  BY <1>11 DEF vars, TypeOK
<1>12. QED
  BY <1>1, <1>2, <1>3, <1>4, <1>5, <1>6, <1>7, <1>8, <1>9, <1>10, <1>11
     DEF Next, RunStep

-----------------------------------------------------------------------------
(* The position of the run. *)

LEMMA InitProgress == Init => Progress
BY DEF Init, Progress, RegionsApart, LoopInRegion, StructuresWritten, Running

LEMMA ReadVolumeProgress ==
  ASSUME TypeOK, ReadVolume
  PROVE  Progress'
<1>1. PICK full \in BOOLEAN, reading \in FatReadings(disk[0]) :
        regions' = RegionsFor(full, disk[0], reading)
  BY DEF ReadVolume
<1>2. /\ pc' = "regions" /\ used' = UNION {Places(r) : r \in regions'}
      /\ run' > 0 /\ copy' = 1
  BY EncryptorConstants DEF ReadVolume, TypeOK
<1>3. Current' = {} /\ Rest' = used'
  BY <1>2 DEF Current, Rest
<1>4. RegionsApart'
  BY <1>1, <1>2, <1>3, RegionsForShape DEF RegionsApart
<1>5. QED
  BY <1>2, <1>4 DEF Progress, LoopInRegion, StructuresWritten

LEMMA EnterRegionProgress ==
  ASSUME TypeOK, Progress, EnterRegion
  PROVE  Progress'
<1>1. PICK r \in regions :
        /\ regions' = regions \ {r}
        /\ IF InHeader(r) THEN UNCHANGED <<pc, offset, extent>>
           ELSE /\ pc' = "chunks" /\ offset' = EntryPoint(r) /\ extent' = r.end
  BY DEF EnterRegion
<1>2. pc = "regions" /\ UNCHANGED <<disk, run, used, saved, copy>>
  BY DEF EnterRegion
<1>3. /\ r.start \in 0 .. VolumeSectors /\ r.end \in 0 .. VolumeSectors
      /\ r.start < r.end
  BY <1>2 DEF TypeOK, Progress, RegionsApart
<1>4. /\ \A p, q \in regions : \A i \in Places(p) : i \in Places(q) => p = q
      /\ Rest \subseteq used
      /\ \A q \in regions : q.start < q.end
  BY <1>2 DEF Progress, RegionsApart
<1>5. Rest' \subseteq Rest
  BY <1>1 DEF Rest
<1>6. CASE InHeader(r)
  <2>1. pc' = "regions" /\ Current' = {}
    BY <1>1, <1>2, <1>6 DEF Current
  <2>2. RegionsApart'
    BY <1>1, <1>2, <1>4, <1>5, <2>1 DEF RegionsApart
  <2>3. QED
    BY <1>2, <2>1, <2>2 DEF Progress, LoopInRegion, StructuresWritten, Running
<1>7. CASE ~ InHeader(r)
  <2>1. pc' = "chunks" /\ offset' = EntryPoint(r) /\ extent' = r.end
    BY <1>1, <1>7
  <2>2. /\ NumHeaderSectors =< offset' /\ offset' < extent'
        /\ r.start =< offset' /\ offset' \in Nat /\ extent' \in Nat
    BY <1>3, <1>7, <2>1, Placement DEF EntryPoint, InHeader
  <2>3. Current' = offset' .. extent' - 1
    BY <2>1 DEF Current
  <2>4. Current' \subseteq Places(r)
    BY <1>3, <2>1, <2>2, <2>3 DEF Places
  <2>5. Rest' \cap Current' = {}
    BY <1>1, <1>4, <2>4 DEF Rest
  <2>6. Current' \subseteq used'
    BY <1>2, <1>4, <2>4 DEF Rest
  <2>7. RegionsApart'
    BY <1>1, <1>2, <1>4, <1>5, <2>5, <2>6 DEF RegionsApart
  <2>8. QED
    BY <1>2, <2>1, <2>2, <2>7 DEF Progress, LoopInRegion, StructuresWritten, Running
<1>8. QED
  BY <1>6, <1>7

LEMMA EncryptChunkProgress ==
  ASSUME TypeOK, Progress, EncryptChunk
  PROVE  Progress'
<1>1. pc = "chunks" /\ UNCHANGED <<run, used, regions, extent, saved, copy>>
  BY DEF EncryptChunk
<1>2. PICK n \in Nat \ {0} : ChunkWrite.len = n /\ offset + n =< extent
  BY <1>1, ChunkWriteShape DEF Progress
<1>3. offset' = offset + n /\ offset \in Nat /\ extent \in Nat
  BY <1>2 DEF EncryptChunk, TypeOK
<1>4. pc' = IF offset' < extent THEN "chunks" ELSE "regions"
  BY DEF EncryptChunk
<1>5. Current = offset .. extent - 1
  BY <1>1 DEF Current
<1>6. Current' \subseteq Current
  BY <1>1, <1>3, <1>5 DEF Current
<1>7. Rest' = Rest
  BY <1>1 DEF Rest
<1>8. RegionsApart'
  BY <1>1, <1>6, <1>7 DEF RegionsApart, Progress
<1>9. LoopInRegion'
  BY <1>1, <1>3, <1>4, Placement DEF LoopInRegion, Progress
<1>10. StructuresWritten'
  BY <1>1, <1>4 DEF StructuresWritten, Progress, Running
<1>11. QED
  BY <1>8, <1>9, <1>10 DEF Progress

(* A metadata block once written is not touched by the other writes.       *)
LEMMA CopiesKept ==
  ASSUME TypeOK, run > 0, NEW j \in Copies
  PROVE  /\ \A k \in Copies, m \in 0 .. BlockSectors : k # j =>
              ReadAt(Put(disk, MetadataWrite(k), m), MetaAt(j), BlockSectors)
                = ReadAt(disk, MetaAt(j), BlockSectors)
         /\ \A m \in 0 .. SavedSectors :
              ReadAt(Put(disk, BackupWrite, m), MetaAt(j), BlockSectors)
                = ReadAt(disk, MetaAt(j), BlockSectors)
         /\ \A m \in 0 .. NumHeaderSectors :
              ReadAt(Put(disk, HeaderWrite, m), MetaAt(j), BlockSectors)
                = ReadAt(disk, MetaAt(j), BlockSectors)
<1>1. /\ disk \in [Sectors -> Content]
      /\ Copies = {1, 2, 3}
  BY DEF TypeOK, Copies
<1>2. /\ MetaAt(j) \in Nat /\ BlockSectors \in Nat
      /\ MetaAt(j) + BlockSectors =< VolumeSectors
      /\ NumHeaderSectors \in Nat /\ SavedSectors \in Nat /\ BackupAt \in Nat
      /\ NumHeaderSectors =< MetaAt(j)
      /\ MetaAt(j) + BlockSectors =< BackupAt \/ BackupAt + SavedSectors =< MetaAt(j)
  BY <1>1, Placement
<1>3. \A k \in Copies : k # j =>
        /\ MetaAt(k) \in Nat
        /\ MetaAt(j) + BlockSectors =< MetaAt(k) \/ MetaAt(k) + BlockSectors =< MetaAt(j)
  BY <1>1, Placement
<1>4. \A k \in Copies, m \in 0 .. BlockSectors : k # j =>
        ReadAt(Put(disk, MetadataWrite(k), m), MetaAt(j), BlockSectors)
          = ReadAt(disk, MetaAt(j), BlockSectors)
  BY <1>1, <1>2, <1>3, ReadApart DEF MetadataWrite
<1>5. \A m \in 0 .. SavedSectors :
        ReadAt(Put(disk, BackupWrite, m), MetaAt(j), BlockSectors)
          = ReadAt(disk, MetaAt(j), BlockSectors)
  BY <1>1, <1>2, ReadApart DEF BackupWrite
<1>6. \A m \in 0 .. NumHeaderSectors :
        ReadAt(Put(disk, HeaderWrite, m), MetaAt(j), BlockSectors)
          = ReadAt(disk, MetaAt(j), BlockSectors)
  <2>1. 0 + NumHeaderSectors =< MetaAt(j)
    BY <1>2
  <2>2. QED
    BY <1>1, <1>2, <2>1, ReadApart DEF HeaderWrite
<1>7. QED
  BY <1>4, <1>5, <1>6

(* Nor is the backup of the header by the write of the header. *)
LEMMA BackupKept ==
  ASSUME TypeOK, NEW m \in 0 .. NumHeaderSectors
  PROVE  ReadAt(Put(disk, HeaderWrite, m), BackupAt, SavedSectors)
           = ReadAt(disk, BackupAt, SavedSectors)
<1>1. /\ disk \in [Sectors -> Content]
      /\ NumHeaderSectors \in Nat /\ SavedSectors \in Nat /\ BackupAt \in Nat
      /\ BackupAt + SavedSectors =< VolumeSectors
      /\ 0 + NumHeaderSectors =< BackupAt
  BY Placement DEF TypeOK
<1>2. QED
  BY <1>1, ReadApart DEF HeaderWrite

LEMMA WriteMetadataProgress ==
  ASSUME TypeOK, Progress, WriteMetadata
  PROVE  Progress'
<1>1. /\ pc = "metadata" /\ copy \in Copies /\ run > 0
      /\ \A j \in Copies : j < copy => CopyIntact(disk, run, j)
  BY DEF WriteMetadata, Progress, StructuresWritten, Running, TypeOK, Copies
<1>2. disk' = Put(disk, MetadataWrite(copy), BlockSectors)
  <2>1. MetaAt(copy) < VolumeSectors
    <3>1. BlockSectors # 0
      BY WholeSectors, VolumeConstants, LayoutConstants DEF BlockSectors, SectorOf
    <3>2. Copies = {1, 2, 3}
      BY DEF Copies
    <3>3. QED
      BY <1>1, <3>1, <3>2, Placement
  <2>2. QED
    BY <2>1 DEF WriteMetadata
<1>3. CopyIntact(disk', run, copy)
  <2>1. /\ disk \in [Sectors -> Content]
        /\ MetaAt(copy) \in Nat /\ BlockSectors \in Nat
        /\ MetaAt(copy) + BlockSectors =< VolumeSectors
    <3>1. Copies = {1, 2, 3}
      BY DEF Copies
    <3>2. QED
      BY <1>1, <3>1, Placement DEF TypeOK
  <2>2. FveBlock(run) \in [0 .. BlockSectors - 1 -> Content]
    BY <1>1, OtherWritesShape
  <2>3. QED
    BY <1>2, <2>1, <2>2, ReadWritten DEF CopyIntact, MetadataWrite
<1>4. \A j \in Copies : j < copy => CopyIntact(disk', run, j)
  BY <1>1, <1>2, CopiesKept, Placement DEF CopyIntact, Copies
<1>5. \A j \in Copies : j < copy' => CopyIntact(disk', run', j)
  BY <1>1, <1>3, <1>4 DEF WriteMetadata, Copies
<1>6. StructuresWritten'
  <2>1. /\ copy' = copy + 1 /\ run' = run
        /\ pc' = IF copy = 3 THEN "backup" ELSE "metadata"
    BY DEF WriteMetadata
  <2>2. pc' = "metadata" => copy' =< 3
    BY <1>1, <2>1 DEF Copies
  <2>3. pc' = "backup" => \A j \in Copies : j < copy'
    BY <1>1, <2>1 DEF Copies
  <2>4. QED
    BY <1>1, <1>5, <2>1, <2>2, <2>3 DEF StructuresWritten
<1>7. QED
  BY <1>1, <1>6 DEF Progress, RegionsApart, LoopInRegion, WriteMetadata

LEMMA WriteBackupProgress ==
  ASSUME TypeOK, Progress, WriteBackup
  PROVE  Progress'
<1>1. /\ pc = "backup" /\ run > 0 /\ pc' = "header"
      /\ disk' = Put(disk, BackupWrite, SavedSectors)
      /\ UNCHANGED <<run, saved>>
      /\ \A j \in Copies : CopyIntact(disk, run, j)
  BY DEF WriteBackup, Progress, StructuresWritten, Running
<1>2. \A j \in Copies : CopyIntact(disk', run', j)
  BY <1>1, CopiesKept, Placement DEF CopyIntact
<1>3. BackupInPlace'
  <2>1. /\ disk \in [Sectors -> Content]
        /\ BackupAt \in Nat /\ SavedSectors \in Nat
        /\ BackupAt + SavedSectors =< VolumeSectors
    BY Placement DEF TypeOK
  <2>2. EncryptSectors(run, BackupAt, saved) \in [0 .. SavedSectors - 1 -> Content]
    BY <1>1, OtherWritesShape
  <2>3. ReadAt(disk', BackupAt, SavedSectors) = EncryptSectors(run, BackupAt, saved)
    BY <1>1, <2>1, <2>2, ReadWritten DEF BackupWrite
  <2>4. QED
    BY <1>1, <2>3 DEF BackupInPlace
<1>4. QED
  BY <1>1, <1>2, <1>3 DEF Progress, RegionsApart, LoopInRegion, StructuresWritten

LEMMA WriteHeaderProgress ==
  ASSUME TypeOK, Progress, WriteHeader
  PROVE  Progress'
<1>1. /\ pc = "header" /\ run > 0 /\ pc' = "sync"
      /\ disk' = Put(disk, HeaderWrite, NumHeaderSectors)
      /\ UNCHANGED <<run, saved>>
      /\ \A j \in Copies : CopyIntact(disk, run, j)
      /\ BackupInPlace
  BY DEF WriteHeader, Progress, StructuresWritten, Running
<1>2. \A j \in Copies : CopyIntact(disk', run', j)
  BY <1>1, CopiesKept, Placement DEF CopyIntact
<1>3. BackupInPlace'
  BY <1>1, BackupKept, Placement DEF BackupInPlace
<1>4. IsBitLocker(disk')
  <2>1. 0 \in Sectors /\ 0 \in HeaderSectors /\ 0 < 0 + NumHeaderSectors
    BY Placement DEF Sectors, HeaderSectors
  <2>2. QED
    BY <1>1, <2>1 DEF Put, HeaderWrite, WriteAt, IsBitLocker, TypeOK
<1>5. QED
  BY <1>1, <1>2, <1>3, <1>4 DEF Progress, RegionsApart, LoopInRegion, StructuresWritten

LEMMA NextProgress ==
  ASSUME TypeOK, Progress, [Next]_vars
  PROVE  Progress'
<1>1. CASE ReadVolume
  BY <1>1, ReadVolumeProgress
<1>2. CASE RefuseVolume
  BY <1>2 DEF RefuseVolume, Progress, RegionsApart, LoopInRegion, StructuresWritten, Running
<1>3. CASE EnterRegion
  BY <1>3, EnterRegionProgress
<1>4. CASE EncryptChunk
  BY <1>4, EncryptChunkProgress
<1>5. CASE RegionsDone
  <2>1. \A j \in Copies : ~ (j < 1)
    BY DEF Copies
  <2>2. QED
    BY <1>5, <2>1
       DEF RegionsDone, Progress, RegionsApart, LoopInRegion, StructuresWritten, Running
<1>6. CASE WriteMetadata
  BY <1>6, WriteMetadataProgress
<1>7. CASE WriteBackup
  BY <1>7, WriteBackupProgress
<1>8. CASE WriteHeader
  BY <1>8, WriteHeaderProgress
<1>9. CASE Sync
  BY <1>9 DEF Sync, Progress, RegionsApart, LoopInRegion, StructuresWritten, Running,
              CopyIntact, BackupInPlace, IsBitLocker
<1>10. CASE Interrupt
  BY <1>10 DEF Interrupt, Progress, RegionsApart, LoopInRegion, StructuresWritten
<1>11. CASE UNCHANGED vars
  BY <1>11 DEF vars, Progress, RegionsApart, LoopInRegion, StructuresWritten,
               CopyIntact, BackupInPlace, IsBitLocker, Rest, Current
<1>12. QED
  BY <1>1, <1>2, <1>3, <1>4, <1>5, <1>6, <1>7, <1>8, <1>9, <1>10, <1>11
     DEF Next, RunStep

-----------------------------------------------------------------------------
(* The data, during the first run. *)

LEMMA OriginalIsNoHeader ==
  ASSUME NEW i
  PROVE  Original(i) # BitLockerHeader
BY DEF Original, BitLockerHeader, Plain

LEMMA CoveredInVolume == Covered(Bpb, VolumeSectors, allocated) \subseteq Sectors
<1>1. /\ SystemRegion(Bpb).end =< VolumeSectors
      /\ DataStart(Bpb) \in Nat /\ Bpb.cluster \in Nat \ {0} /\ VolumeSectors \in Nat
      /\ SystemRegion(Bpb).end \in Nat /\ SystemRegion(Bpb).start = 0
  <2>1. Bpb.reserved \in Nat /\ Bpb.fats \in Nat /\ Bpb.fatSize \in Nat /\ Bpb.cluster \in Nat \ {0}
    BY EncryptorConstants DEF Geometry
  <2>2. DataStart(Bpb) \in Nat
    BY <2>1 DEF DataStart
  <2>3. QED
    BY <2>1, <2>2, EncryptorConstants, Placement DEF SystemRegion
<1>2. Places(SystemRegion(Bpb)) \subseteq Sectors
  BY <1>1 DEF Places, Sectors
<1>3. ASSUME NEW c \in 2 .. MaxCluster(Bpb, VolumeSectors) - 1
      PROVE  Places(ClusterRegion(Bpb, VolumeSectors, c)) \subseteq Sectors
  <2>1. c \in Int /\ c >= 2
    OBVIOUS
  <2>2. ClusterStart(Bpb, c) \in Nat
    <3>1. c - 2 \in Nat /\ (c - 2) * Bpb.cluster \in Nat
      BY <1>1, <2>1
    <3>2. QED
      BY <1>1, <3>1 DEF ClusterStart
  <2>3. /\ ClusterRegion(Bpb, VolumeSectors, c).start \in Nat
        /\ ClusterRegion(Bpb, VolumeSectors, c).end \in Nat
        /\ ClusterRegion(Bpb, VolumeSectors, c).end =< VolumeSectors
    BY <1>1, <2>2 DEF ClusterRegion, Least
  <2>4. QED
    BY <1>1, <2>3 DEF Places, Sectors
<1>4. QED
  BY <1>2, <1>3 DEF Covered

LEMMA FatInVolume ==
  FatStart(Bpb) .. FatStart(Bpb) + Bpb.fatSize - 1 \subseteq Sectors
<1>1. /\ Bpb.reserved \in Nat /\ Bpb.fats \in Nat \ {0} /\ Bpb.fatSize \in Nat
      /\ Bpb.cluster \in Nat \ {0}
  BY EncryptorConstants DEF Geometry
<1>2. Bpb.fatSize =< Bpb.fats * Bpb.fatSize
  BY <1>1
<1>3. Bpb.reserved + Bpb.fats * Bpb.fatSize + Bpb.cluster =< VolumeSectors
  BY EncryptorConstants DEF SystemRegion, DataStart
<1>4. QED
  BY <1>1, <1>2, <1>3, Placement DEF FatStart, Sectors

LEMMA LiveInVolume == Live \subseteq Sectors
BY CoveredInVolume DEF Live

LEMMA InitData == Init => DataInv
<1> SUFFICES ASSUME Init PROVE DataInv
  OBVIOUS
<1>1. run = 0 /\ disk = [i \in Sectors |-> Original(i)]
  BY DEF Init
<1>2. QED
  BY <1>1 DEF DataInv, UntouchedYet, SealedSoFar, AllSealed, HeaderStands,
              HeaderSaved, LockedIsComplete, LiveIsUsed, SealedOnceInPlace

(* Only the first run is spoken of: a later one makes DataInv hold. *)
LEMMA LaterRuns ==
  ASSUME run' \in Nat, run' > 1
  PROVE  DataInv'
BY DEF DataInv, UntouchedYet, SealedSoFar, AllSealed, HeaderStands,
       HeaderSaved, LockedIsComplete, LiveIsUsed, SealedOnceInPlace

LEMMA ReadVolumeData ==
  ASSUME TypeOK, DataInv, ReadVolume
  PROVE  DataInv'
<1>1. run \in Nat /\ run' = run + 1 /\ disk' = disk /\ allocated' = allocated
  BY EncryptorConstants DEF TypeOK, ReadVolume
<1>2. CASE run # 0
  BY <1>1, <1>2, LaterRuns
<1>3. CASE run = 0
  <2>1. disk = [i \in Sectors |-> Original(i)]
    BY <1>3 DEF DataInv, UntouchedYet
  <2>2. disk[0] # BitLockerHeader
    BY <2>1, OriginalIsNoHeader, Placement DEF Sectors
  <2>3. FatReadings(disk[0]) = {allocated}
    BY <2>1, <2>2, FatInVolume DEF FatReadings, FatInClear
  <2>4. PICK full \in BOOLEAN : regions' = RegionsFor(full, disk[0], allocated)
    BY <2>3 DEF ReadVolume
  <2>5. /\ used' = UNION {Places(r) : r \in regions'}
        /\ pc' = "regions"
        /\ saved' = ReadAt(disk, 0, SavedSectors)
    BY DEF ReadVolume
  <2>6. Rest' = used' /\ Current' = {}
    BY <2>5 DEF Rest, Current
  <2>7. LiveIsUsed'
    <3>1. Live' = Live
      BY <1>1 DEF Live
    <3>2. CASE full \/ FsType = "NTFS"
      <4>1. used' = Places([start |-> NumHeaderSectors, end |-> VolumeSectors])
        BY <2>4, <2>5, <3>2 DEF RegionsFor, WholeVolume
      <4>2. Sectors \subseteq used' \cup HeaderSectors
        BY <4>1, Placement DEF Places, Sectors, HeaderSectors
      <4>3. QED
        BY <3>1, <4>2, LiveInVolume DEF LiveIsUsed
    <3>3. CASE ~ (full \/ FsType = "NTFS")
      <4> DEFINE S == Covered(Bpb, VolumeSectors, allocated)
      <4>1. regions' = Runs(S, VolumeSectors)
        BY <2>2, <2>4, <3>3 DEF RegionsFor, BpbOf
      <4>2. Live = S
        BY <3>3 DEF Live
      <4>3. S \subseteq 0 .. VolumeSectors - 1
        BY CoveredInVolume DEF Sectors
      <4> HIDE DEF S
      <4>4. used' = S
        BY <2>5, <4>1, <4>3, RunsCover, Placement
      <4>5. QED
        BY <3>1, <4>2, <4>4 DEF LiveIsUsed
    <3>4. QED
      BY <3>2, <3>3
  <2>8. HeaderSaved'
    <3>1. \A i \in 0 .. SavedSectors - 1 : 0 + i \in Sectors /\ 0 + i = i
      BY Placement DEF Sectors
    <3>2. QED
      BY <2>1, <2>5, <3>1 DEF HeaderSaved, ReadAt
  <2>9. run' = 1
    BY <1>1, <1>3
  <2>10. \A i \in Sectors : disk'[i] = Original(i)
    BY <1>1, <2>1
  <2>11. QED
    BY <2>5, <2>6, <2>7, <2>8, <2>9, <2>10
       DEF DataInv, UntouchedYet, SealedSoFar, AllSealed, HeaderStands,
           LockedIsComplete, SealedOnceInPlace, Stopped
<1>4. QED
  BY <1>2, <1>3

(* Until the header is written, sector 0 is as it was. *)
LEMMA NotYetLocked ==
  ASSUME DataInv, run = 1, pc \in {"regions", "chunks", "metadata", "backup", "header"}
  PROVE  disk[0] = Original(0) /\ ~ IsBitLocker(disk)
<1>1. 0 \in Sectors /\ 0 \in HeaderSectors
  BY Placement DEF Sectors, HeaderSectors
<1>2. disk[0] = Original(0)
  BY <1>1 DEF DataInv, SealedSoFar, HeaderStands
<1>3. QED
  BY <1>2, OriginalIsNoHeader DEF IsBitLocker

LEMMA EnterRegionData ==
  ASSUME TypeOK, Progress, DataInv, EnterRegion
  PROVE  DataInv'
<1>1. PICK r \in regions :
        /\ regions' = regions \ {r}
        /\ IF InHeader(r) THEN UNCHANGED <<pc, offset, extent>>
           ELSE /\ pc' = "chunks" /\ offset' = EntryPoint(r) /\ extent' = r.end
  BY DEF EnterRegion
<1>2. pc = "regions" /\ UNCHANGED <<disk, allocated, run, used, saved>>
  BY DEF EnterRegion
<1>3. pc' \in {"regions", "chunks"}
  BY <1>1, <1>2
<1>4. /\ r \in [start : 0 .. VolumeSectors, end : 0 .. VolumeSectors]
      /\ r.start \in 0 .. VolumeSectors /\ r.end \in 0 .. VolumeSectors
  BY DEF TypeOK
<1>5. \A i \in Sectors \ HeaderSectors :
        i \in Places(r) => i \in Current'
  <2>1. TAKE i \in Sectors \ HeaderSectors
  <2>2. i \in Nat /\ NumHeaderSectors =< i
    BY Placement DEF Sectors, HeaderSectors
  <2>3. HAVE i \in Places(r)
  <2>4. r.start =< i /\ i < r.end
    BY <1>4, <2>3, PlacesOf
  <2>5. ~ InHeader(r)
    BY <1>4, <2>2, <2>4, Placement DEF InHeader
  <2>6. pc' = "chunks" /\ offset' = EntryPoint(r) /\ extent' = r.end
    BY <1>1, <2>5
  <2>7. offset' =< i
    BY <2>2, <2>4, <2>6 DEF EntryPoint
  <2>8. QED
    BY <1>4, <2>2, <2>4, <2>6, <2>7, Placement DEF Current, EntryPoint
<1>6. \A i \in Sectors \ HeaderSectors :
        i \in Current' => i \in Places(r)
  <2>1. TAKE i \in Sectors \ HeaderSectors
  <2>2. i \in Nat
    BY Placement DEF Sectors
  <2>3. HAVE i \in Current'
  <2>4. pc' = "chunks" /\ i \in offset' .. extent' - 1
    BY <2>3 DEF Current
  <2>5. offset' = EntryPoint(r) /\ extent' = r.end
    BY <1>1, <1>2, <2>4
  <2>6. r.start =< EntryPoint(r) /\ EntryPoint(r) \in Nat
    BY <1>4, Placement DEF EntryPoint
  <2>7. r.start =< i /\ i < r.end
    BY <1>4, <2>2, <2>4, <2>5, <2>6
  <2>8. QED
    BY <1>4, <2>2, <2>7, PlacesOf
<1>7. \A i \in Sectors \ HeaderSectors :
        i \in Rest \cup Current <=> i \in Rest' \cup Current'
  <2>1. Current = {}
    BY <1>2 DEF Current
  <2>2. \A i : i \in Rest <=> i \in Rest' \/ i \in Places(r)
    BY <1>1 DEF Rest
  <2>3. QED
    BY <1>5, <1>6, <2>1, <2>2
<1>8. SealedSoFar'
  BY <1>2, <1>3, <1>7 DEF DataInv, SealedSoFar
<1>9. LiveIsUsed' /\ HeaderSaved' /\ SealedOnceInPlace'
  BY <1>2 DEF DataInv, LiveIsUsed, Live, HeaderSaved, SealedOnceInPlace
<1>10. QED
  BY <1>2, <1>3, <1>8, <1>9
     DEF DataInv, UntouchedYet, AllSealed, HeaderStands, LockedIsComplete, Stopped

(* A part of a chunk seals the sectors it has come to, each at its place. *)
LEMMA ChunkAt ==
  ASSUME TypeOK, Progress, pc = "chunks", NEW m \in 0 .. ChunkWrite.len
  PROVE  \A i \in Sectors :
           Put(disk, ChunkWrite, m)[i] =
             IF offset =< i /\ i < offset + m THEN EncryptSector(run, i, disk[i]) ELSE disk[i]
<1>1. PICK n \in Nat \ {0} : \E data \in [0 .. n - 1 -> Content] :
           /\ ChunkWrite = WriteAt(offset, n, data)
           /\ ChunkWrite.len = n
           /\ \A i \in 0 .. n - 1 : data[i] = EncryptSector(run, offset + i, disk[offset + i])
  BY ChunkWriteShape DEF Progress
<1>2. PICK data \in [0 .. n - 1 -> Content] :
           /\ ChunkWrite = WriteAt(offset, n, data)
           /\ \A i \in 0 .. n - 1 : data[i] = EncryptSector(run, offset + i, disk[offset + i])
  BY <1>1
<1>3. offset \in Nat /\ disk \in [Sectors -> Content] /\ m \in 0 .. n
  BY <1>1 DEF TypeOK
<1>4. TAKE i \in Sectors
<1>5. Put(disk, ChunkWrite, m)[i] =
        IF offset =< i /\ i < offset + m THEN data[i - offset] ELSE disk[i]
  BY <1>2, <1>3, PutAt
<1>6. ASSUME offset =< i, i < offset + m
      PROVE  data[i - offset] = EncryptSector(run, i, disk[i])
  <2>1. i \in Nat /\ i - offset \in 0 .. n - 1 /\ offset + (i - offset) = i
    BY <1>3, <1>6, Placement DEF Sectors
  <2>2. QED
    BY <1>2, <2>1
<1>7. QED
  BY <1>5, <1>6

(* A chunk, whole or torn: the sectors written are sealed, each for its    *)
(* own place, and were not sealed before.                                  *)
LEMMA ChunkSeals ==
  ASSUME TypeOK, Progress, DataInv, run = 1, pc = "chunks",
         NEW m \in 0 .. ChunkWrite.len
  PROVE  \A i \in Sectors :
           Put(disk, ChunkWrite, m)[i] =
             IF offset =< i /\ i < offset + m THEN Sealed(i) ELSE disk[i]
<1>1. PICK n \in Nat : ChunkWrite.len = n /\ offset + n =< extent
  BY ChunkWriteShape DEF Progress
<1>2. /\ offset \in Nat /\ NumHeaderSectors =< offset /\ extent \in Nat
      /\ m \in 0 .. n
  BY <1>1 DEF TypeOK, Progress, LoopInRegion
<1>3. TAKE i \in Sectors
<1>4. ASSUME offset =< i, i < offset + m PROVE disk[i] = Original(i)
  <2>1. i \in Current /\ i \notin HeaderSectors
    BY <1>1, <1>2, <1>4, Placement DEF Current, HeaderSectors, Sectors
  <2>2. QED
    BY <2>1 DEF DataInv, SealedSoFar
<1>5. QED
  BY <1>4, ChunkAt DEF Sealed

LEMMA EncryptChunkData ==
  ASSUME TypeOK, Progress, DataInv, EncryptChunk
  PROVE  DataInv'
<1>1. /\ pc = "chunks" /\ pc' = IF offset' < extent THEN "chunks" ELSE "regions"
      /\ UNCHANGED <<allocated, run, used, regions, extent, saved>>
      /\ disk' = Put(disk, ChunkWrite, ChunkWrite.len)
      /\ offset' = offset + ChunkWrite.len
  BY DEF EncryptChunk
<1>2. run \in Nat /\ run > 0
  BY <1>1, EncryptorConstants DEF TypeOK, Progress, StructuresWritten, Running
<1>3. CASE run > 1
  BY <1>1, <1>2, <1>3, LaterRuns
<1>4. CASE run = 1
  <2>1. PICK n \in Nat \ {0} : ChunkWrite.len = n /\ offset + n =< extent
    BY <1>1, ChunkWriteShape DEF Progress
  <2>2. /\ offset \in Nat /\ extent \in Nat /\ NumHeaderSectors =< offset
        /\ Current = offset .. extent - 1
        /\ Rest' = Rest
    BY <1>1 DEF TypeOK, Progress, LoopInRegion, Current, Rest
  <2>3. \A i \in Sectors :
          disk'[i] = IF offset =< i /\ i < offset + n THEN Sealed(i) ELSE disk[i]
    BY <1>1, <1>4, <2>1, ChunkSeals
  <2>4. Current' = offset + n .. extent - 1
    BY <1>1, <2>1, <2>2 DEF Current
  <2>5. ASSUME NEW i \in Sectors
        PROVE  disk'[i] = IF i \in used' /\ i \notin HeaderSectors /\ i \notin Rest' \cup Current'
                          THEN Sealed(i) ELSE Original(i)
    <3>1. i \in Nat
      BY Placement DEF Sectors
    <3>2. CASE offset =< i /\ i < offset + n
      <4>1. i \in Current
        BY <2>1, <2>2, <3>1, <3>2
      <4>2. i \in used /\ i \notin Rest
        BY <1>1, <4>1 DEF Progress, RegionsApart
      <4>3. i \notin HeaderSectors
        BY <2>2, <3>1, <3>2, Placement DEF HeaderSectors
      <4>4. i \notin Current'
        BY <2>2, <2>4, <3>1, <3>2
      <4>5. QED
        BY <1>1, <2>2, <2>3, <3>2, <4>2, <4>3, <4>4
    <3>3. CASE ~ (offset =< i /\ i < offset + n)
      <4>1. i \in Current <=> i \in Current'
        BY <2>1, <2>2, <2>4, <3>1, <3>3
      <4>2. disk'[i] = disk[i]
        BY <2>3, <3>3
      <4>3. disk[i] = IF i \in used /\ i \notin HeaderSectors /\ i \notin Rest \cup Current
                      THEN Sealed(i) ELSE Original(i)
        BY <1>1, <1>4 DEF DataInv, SealedSoFar
      <4>4. QED
        BY <1>1, <2>2, <4>1, <4>2, <4>3
    <3>4. QED
      BY <3>2, <3>3
  <2>6. SealedSoFar'
    BY <2>5 DEF SealedSoFar, Sealed
  <2>7. SealedOnceInPlace'
    BY <1>1, <1>4, <2>5 DEF SealedOnceInPlace, Sealed
  <2>8. LiveIsUsed' /\ HeaderSaved'
    BY <1>1 DEF DataInv, LiveIsUsed, Live, HeaderSaved
  <2>9. pc' \in {"regions", "chunks"} /\ run' = 1
    BY <1>1, <1>4
  <2>10. QED
    BY <2>6, <2>7, <2>8, <2>9
       DEF DataInv, UntouchedYet, AllSealed, HeaderStands, LockedIsComplete, Stopped
<1>5. QED
  BY <1>2, <1>3, <1>4

(* The structures are written beside the data that counts, and all but the *)
(* last write leave the header alone.                                      *)
LEMMA StructuresBesideData ==
  ASSUME TypeOK, run > 0
  PROVE  /\ \A i \in Sectors \ (Overwritten \cup HeaderSectors) :
              /\ \A j \in Copies, m \in 0 .. BlockSectors :
                   Put(disk, MetadataWrite(j), m)[i] = disk[i]
              /\ \A m \in 0 .. SavedSectors : Put(disk, BackupWrite, m)[i] = disk[i]
              /\ \A m \in 0 .. NumHeaderSectors : Put(disk, HeaderWrite, m)[i] = disk[i]
         /\ \A i \in HeaderSectors :
              /\ \A j \in Copies, m \in 0 .. BlockSectors :
                   Put(disk, MetadataWrite(j), m)[i] = disk[i]
              /\ \A m \in 0 .. SavedSectors : Put(disk, BackupWrite, m)[i] = disk[i]
<1>1. /\ disk \in [Sectors -> Content]
      /\ Copies = {1, 2, 3}
      /\ BlockSectors \in Nat /\ SavedSectors \in Nat /\ NumHeaderSectors \in Nat
      /\ BackupAt \in Nat /\ NumHeaderSectors =< BackupAt
      /\ \A j \in Copies : MetaAt(j) \in Nat /\ NumHeaderSectors =< MetaAt(j)
      /\ HeaderSectors \subseteq Sectors
      /\ \A i \in Sectors : i \in Nat
      /\ \A i \in Sectors : i \in HeaderSectors <=> i < NumHeaderSectors
  BY Placement DEF TypeOK, Copies, HeaderSectors, Sectors
<1>2. ASSUME NEW i \in Sectors \ (Overwritten \cup HeaderSectors)
      PROVE  /\ \A j \in Copies : ~ (MetaAt(j) =< i /\ i < MetaAt(j) + BlockSectors)
             /\ ~ (BackupAt =< i /\ i < BackupAt + SavedSectors)
             /\ NumHeaderSectors =< i
  BY <1>1, <1>2 DEF Overwritten, MetadataPlaces, BackupPlaces
<1>3. ASSUME NEW i \in Sectors \ (Overwritten \cup HeaderSectors)
      PROVE  /\ \A j \in Copies, m \in 0 .. BlockSectors :
                  Put(disk, MetadataWrite(j), m)[i] = disk[i]
             /\ \A m \in 0 .. SavedSectors : Put(disk, BackupWrite, m)[i] = disk[i]
             /\ \A m \in 0 .. NumHeaderSectors : Put(disk, HeaderWrite, m)[i] = disk[i]
  <2>1. i \in Nat
    BY <1>1
  <2>2. \A j \in Copies, m \in 0 .. BlockSectors :
           Put(disk, MetadataWrite(j), m)[i] = disk[i]
    <3> TAKE j \in Copies, m \in 0 .. BlockSectors
    <3>1. ~ (MetaAt(j) =< i /\ i < MetaAt(j) + m)
      BY <1>1, <1>2, <2>1
    <3>2. QED
      BY <1>1, <3>1 DEF MetadataWrite, Put, WriteAt
  <2>3. \A m \in 0 .. SavedSectors : Put(disk, BackupWrite, m)[i] = disk[i]
    BY <1>1, <1>2, <2>1 DEF BackupWrite, Put, WriteAt
  <2>4. \A m \in 0 .. NumHeaderSectors : Put(disk, HeaderWrite, m)[i] = disk[i]
    BY <1>1, <1>2, <2>1 DEF HeaderWrite, Put, WriteAt
  <2>5. QED
    BY <2>2, <2>3, <2>4
<1>4. ASSUME NEW i \in HeaderSectors
      PROVE  /\ \A j \in Copies, m \in 0 .. BlockSectors :
                  Put(disk, MetadataWrite(j), m)[i] = disk[i]
             /\ \A m \in 0 .. SavedSectors : Put(disk, BackupWrite, m)[i] = disk[i]
  <2>1. i \in Nat /\ i \in Sectors /\ i < NumHeaderSectors
    BY <1>1
  <2>2. \A j \in Copies, m \in 0 .. BlockSectors :
           Put(disk, MetadataWrite(j), m)[i] = disk[i]
    BY <1>1, <2>1 DEF MetadataWrite, Put, WriteAt
  <2>3. \A m \in 0 .. SavedSectors : Put(disk, BackupWrite, m)[i] = disk[i]
    BY <1>1, <2>1 DEF BackupWrite, Put, WriteAt
  <2>4. QED
    BY <2>2, <2>3
<1>5. QED
  BY <1>3, <1>4

LEMMA RegionsDoneData ==
  ASSUME TypeOK, Progress, DataInv, RegionsDone
  PROVE  DataInv'
<1>1. /\ pc = "regions" /\ pc' = "metadata" /\ regions = {}
      /\ UNCHANGED <<disk, allocated, run, used, saved>>
  BY DEF RegionsDone
<1>2. Rest = {} /\ Current = {}
  BY <1>1 DEF Rest, Current
<1>3. run = 1 => \A i \in Sectors :
                   disk[i] = IF i \in used /\ i \notin HeaderSectors THEN Sealed(i) ELSE Original(i)
  BY <1>1, <1>2 DEF DataInv, SealedSoFar
<1>4. HeaderSectors \subseteq Sectors
  BY Placement DEF HeaderSectors, Sectors
<1>5. AllSealed' /\ HeaderStands'
  BY <1>1, <1>3, <1>4 DEF AllSealed, HeaderStands, DataSealed, Sealed
<1>6. LiveIsUsed' /\ HeaderSaved' /\ SealedOnceInPlace' /\ UntouchedYet'
  BY <1>1 DEF DataInv, LiveIsUsed, Live, HeaderSaved, SealedOnceInPlace, UntouchedYet
<1>7. QED
  BY <1>1, <1>5, <1>6 DEF DataInv, SealedSoFar, LockedIsComplete, Stopped

(* DataSealed is all that SealedOnceInPlace asks for. *)
LEMMA SealedImpliesOnce ==
  ASSUME run = 1, DataSealed
  PROVE  SealedOnceInPlace
BY DEF DataSealed, SealedOnceInPlace, Sealed

LEMMA WriteMetadataData ==
  ASSUME TypeOK, Progress, DataInv, WriteMetadata
  PROVE  DataInv'
<1>1. /\ pc = "metadata" /\ pc' \in {"metadata", "backup"} /\ copy \in Copies /\ run > 0
      /\ UNCHANGED <<allocated, run, used, saved>>
  BY DEF WriteMetadata, Progress, StructuresWritten, Running, TypeOK, Copies
<1>2. disk' = Put(disk, MetadataWrite(copy), BlockSectors) \/ disk' = disk
  BY DEF WriteMetadata
<1>3. /\ \A i \in Sectors \ (Overwritten \cup HeaderSectors) : disk'[i] = disk[i]
      /\ \A i \in HeaderSectors : disk'[i] = disk[i]
  BY <1>1, <1>2, StructuresBesideData, Placement
<1>4. CASE run # 1
  BY <1>1, <1>4, LaterRuns, EncryptorConstants DEF TypeOK
<1>5. CASE run = 1
  <2>1. DataSealed' /\ (\A i \in HeaderSectors : disk'[i] = Original(i))
    BY <1>1, <1>3, <1>5 DEF DataInv, AllSealed, HeaderStands, DataSealed, Sealed
  <2>2. SealedOnceInPlace'
    BY <1>1, <1>5, <2>1 DEF DataSealed, SealedOnceInPlace, Sealed
  <2>3. LiveIsUsed' /\ HeaderSaved'
    BY <1>1 DEF DataInv, LiveIsUsed, Live, HeaderSaved
  <2>4. QED
    BY <1>1, <1>5, <2>1, <2>2, <2>3
       DEF DataInv, UntouchedYet, SealedSoFar, AllSealed, HeaderStands, LockedIsComplete, Stopped
<1>6. QED
  BY <1>4, <1>5

LEMMA WriteBackupData ==
  ASSUME TypeOK, Progress, DataInv, WriteBackup
  PROVE  DataInv'
<1>1. /\ pc = "backup" /\ pc' = "header" /\ run > 0
      /\ disk' = Put(disk, BackupWrite, SavedSectors)
      /\ UNCHANGED <<allocated, run, used, saved>>
  BY DEF WriteBackup, Progress, StructuresWritten, Running
<1>2. /\ \A i \in Sectors \ (Overwritten \cup HeaderSectors) : disk'[i] = disk[i]
      /\ \A i \in HeaderSectors : disk'[i] = disk[i]
  BY <1>1, StructuresBesideData, Placement
<1>3. CASE run # 1
  BY <1>1, <1>3, LaterRuns, EncryptorConstants DEF TypeOK
<1>4. CASE run = 1
  <2>1. DataSealed' /\ (\A i \in HeaderSectors : disk'[i] = Original(i))
    BY <1>1, <1>2, <1>4 DEF DataInv, AllSealed, HeaderStands, DataSealed, Sealed
  <2>2. SealedOnceInPlace'
    BY <1>1, <1>4, <2>1 DEF DataSealed, SealedOnceInPlace, Sealed
  <2>3. LiveIsUsed' /\ HeaderSaved'
    BY <1>1 DEF DataInv, LiveIsUsed, Live, HeaderSaved
  <2>4. QED
    BY <1>1, <1>4, <2>1, <2>2, <2>3
       DEF DataInv, UntouchedYet, SealedSoFar, AllSealed, HeaderStands, LockedIsComplete, Stopped
<1>5. QED
  BY <1>3, <1>4

LEMMA WriteHeaderData ==
  ASSUME TypeOK, Progress, DataInv, WriteHeader
  PROVE  DataInv'
<1>1. /\ pc = "header" /\ pc' = "sync" /\ run > 0
      /\ disk' = Put(disk, HeaderWrite, NumHeaderSectors)
      /\ UNCHANGED <<allocated, run, used, saved>>
  BY DEF WriteHeader, Progress, StructuresWritten, Running
<1>2. \A i \in Sectors \ (Overwritten \cup HeaderSectors) : disk'[i] = disk[i]
  BY <1>1, StructuresBesideData, Placement
<1>3. CASE run # 1
  BY <1>1, <1>3, LaterRuns, EncryptorConstants DEF TypeOK
<1>4. CASE run = 1
  <2>1. DataSealed'
    BY <1>1, <1>2, <1>4 DEF DataInv, AllSealed, DataSealed, Sealed
  <2>2. SealedOnceInPlace'
    BY <1>1, <1>4, <2>1 DEF DataSealed, SealedOnceInPlace, Sealed
  <2>3. LiveIsUsed' /\ HeaderSaved'
    BY <1>1 DEF DataInv, LiveIsUsed, Live, HeaderSaved
  <2>4. QED
    BY <1>1, <1>4, <2>1, <2>2, <2>3
       DEF DataInv, UntouchedYet, SealedSoFar, AllSealed, HeaderStands, LockedIsComplete, Stopped
<1>5. QED
  BY <1>3, <1>4

LEMMA SyncData ==
  ASSUME TypeOK, Progress, DataInv, Sync
  PROVE  DataInv'
<1>1. /\ pc = "sync" /\ pc' = "done"
      /\ UNCHANGED <<disk, allocated, run, used, saved>>
  BY DEF Sync
<1>2. /\ \A j \in Copies : CopyIntact(disk, run, j)
      /\ BackupInPlace
      /\ run = 1 => DataSealed
  BY <1>1 DEF Progress, StructuresWritten, DataInv, AllSealed
<1>3. LockedIsComplete'
  BY <1>1, <1>2 DEF LockedIsComplete, CopyIntact, BackupInPlace, DataSealed, Sealed
<1>4. LiveIsUsed' /\ HeaderSaved' /\ SealedOnceInPlace' /\ UntouchedYet'
  BY <1>1 DEF DataInv, LiveIsUsed, Live, HeaderSaved, SealedOnceInPlace, UntouchedYet
<1>5. QED
  BY <1>1, <1>3, <1>4 DEF DataInv, SealedSoFar, AllSealed, HeaderStands

LEMMA InterruptData ==
  ASSUME TypeOK, Progress, DataInv, Interrupt
  PROVE  DataInv'
<1>1. /\ pc \in Running /\ pc' = "failed" /\ run > 0
      /\ UNCHANGED <<allocated, run, used, saved>>
  BY DEF Interrupt, Progress, StructuresWritten
<1>2. PICK m \in 0 .. Pending.len : disk' = Put(disk, Pending, m)
  BY DEF Interrupt
<1>3. CASE run # 1
  BY <1>1, <1>3, LaterRuns, EncryptorConstants DEF TypeOK
<1>4. ASSUME run = 1,
             SealedOnceInPlace',
             IsBitLocker(disk') => /\ \A j \in Copies : CopyIntact(disk', run, j)
                                   /\ BackupInPlace'
                                   /\ DataSealed'
      PROVE  DataInv'
  <2>1. LiveIsUsed' /\ HeaderSaved'
    BY <1>1 DEF DataInv, LiveIsUsed, Live, HeaderSaved
  <2>2. QED
    BY <1>1, <1>4, <2>1
       DEF DataInv, UntouchedYet, SealedSoFar, AllSealed, HeaderStands, LockedIsComplete
<1>5. 0 \in Sectors /\ 0 \in HeaderSectors
  BY Placement DEF Sectors, HeaderSectors
<1>6. CASE run = 1
  <2>1. CASE pc = "chunks"
    <3>1. Pending = ChunkWrite
      BY <2>1 DEF Pending
    <3>2. /\ offset \in Nat /\ NumHeaderSectors =< offset /\ extent \in Nat
          /\ Current = offset .. extent - 1
      BY <2>1 DEF TypeOK, Progress, LoopInRegion, Current
    <3>3. PICK n \in Nat \ {0} : ChunkWrite.len = n /\ offset + n =< extent
      BY <2>1, ChunkWriteShape DEF Progress
    <3>4. \A i \in Sectors :
            disk'[i] = IF offset =< i /\ i < offset + m THEN Sealed(i) ELSE disk[i]
      BY <1>2, <1>6, <2>1, <3>1, ChunkSeals
    <3>5. disk'[0] = Original(0)
      <4>1. ~ (offset =< 0)
        BY <3>2, Placement
      <4>2. QED
        BY <1>5, <1>6, <2>1, <3>4, <4>1, NotYetLocked
    <3>6. ~ IsBitLocker(disk')
      BY <3>5, OriginalIsNoHeader DEF IsBitLocker
    <3>7. SealedOnceInPlace'
      <4>1. ASSUME NEW i \in Sectors, offset =< i, i < offset + m PROVE i \in used
        <5>1. i \in Nat /\ m \in 0 .. n
          BY <1>2, <3>1, <3>3, Placement DEF Sectors
        <5>2. i \in Current
          BY <3>2, <3>3, <4>1, <5>1
        <5>3. QED
          BY <2>1, <5>2 DEF Progress, RegionsApart
      <4>2. QED
        BY <1>1, <1>6, <3>4, <4>1 DEF DataInv, SealedOnceInPlace, Sealed
    <3>8. QED
      BY <1>4, <1>6, <3>6, <3>7
  <2>2. CASE pc \in {"metadata", "backup"}
    <3>1. /\ \A i \in Sectors \ (Overwritten \cup HeaderSectors) : disk'[i] = disk[i]
          /\ \A i \in HeaderSectors : disk'[i] = disk[i]
      <4>1. CASE pc = "metadata"
        <5>1. Pending = MetadataWrite(copy) /\ Pending.len = BlockSectors /\ copy \in Copies
          BY <4>1 DEF Pending, MetadataWrite, WriteAt, Progress, StructuresWritten, TypeOK, Copies
        <5>2. QED
          BY <1>1, <1>2, <5>1, StructuresBesideData
      <4>2. CASE pc = "backup"
        <5>1. Pending = BackupWrite /\ Pending.len = SavedSectors
          BY <4>2 DEF Pending, BackupWrite, WriteAt
        <5>2. QED
          BY <1>1, <1>2, <5>1, StructuresBesideData
      <4>3. QED
        BY <2>2, <4>1, <4>2
    <3>2. disk'[0] = Original(0)
      BY <1>5, <1>6, <2>2, <3>1, NotYetLocked
    <3>3. ~ IsBitLocker(disk')
      BY <3>2, OriginalIsNoHeader DEF IsBitLocker
    <3>4. SealedOnceInPlace'
      BY <1>1, <1>6, <3>1 DEF DataInv, SealedOnceInPlace
    <3>5. QED
      BY <1>4, <1>6, <3>3, <3>4
  <2>3. CASE pc = "header"
    <3>1. Pending = HeaderWrite /\ m \in 0 .. NumHeaderSectors
      BY <1>2, <2>3 DEF Pending, HeaderWrite, WriteAt
    <3>2. \A i \in Sectors \ (Overwritten \cup HeaderSectors) : disk'[i] = disk[i]
      BY <1>1, <1>2, <3>1, StructuresBesideData
    <3>3. DataSealed'
      BY <1>1, <1>6, <2>3, <3>2 DEF DataInv, AllSealed, DataSealed, Sealed
    <3>4. \A j \in Copies : CopyIntact(disk', run, j)
      BY <1>1, <1>2, <2>3, <3>1, CopiesKept DEF Progress, StructuresWritten, CopyIntact
    <3>5. BackupInPlace'
      BY <1>1, <1>2, <2>3, <3>1, BackupKept DEF Progress, StructuresWritten, BackupInPlace
    <3>6. SealedOnceInPlace'
      BY <1>1, <1>6, <3>3 DEF DataSealed, SealedOnceInPlace, Sealed
    <3>7. QED
      BY <1>4, <1>6, <3>3, <3>4, <3>5, <3>6
  <2>4. CASE pc \in {"regions", "sync"}
    <3>1. Pending = WriteAt(0, 0, <<>>)
      BY <2>4 DEF Pending
    <3>2. disk' = [i \in Sectors |-> disk[i]]
      BY <1>2, <3>1 DEF Put, WriteAt, TypeOK, Sectors
    <3>3. disk' = disk
      BY <3>2 DEF TypeOK
    <3>4. SealedOnceInPlace'
      BY <1>1, <3>3 DEF DataInv, SealedOnceInPlace
    <3>5. IsBitLocker(disk') => /\ \A j \in Copies : CopyIntact(disk', run, j)
                                /\ BackupInPlace'
                                /\ DataSealed'
      <4>1. CASE pc = "regions"
        BY <1>6, <3>3, <4>1, NotYetLocked
      <4>2. CASE pc = "sync"
        BY <1>1, <1>6, <3>3, <4>2
           DEF Progress, StructuresWritten, DataInv, AllSealed, BackupInPlace, DataSealed, Sealed
      <4>3. QED
        BY <2>4, <4>1, <4>2
    <3>6. QED
      BY <1>4, <1>6, <3>4, <3>5
  <2>5. QED
    BY <1>1, <2>1, <2>2, <2>3, <2>4 DEF Running
<1>7. QED
  BY <1>3, <1>6

LEMMA NextData ==
  ASSUME TypeOK, Progress, DataInv, [Next]_vars
  PROVE  DataInv'
<1>1. CASE ReadVolume
  BY <1>1, ReadVolumeData
<1>2. CASE RefuseVolume
  BY <1>2 DEF RefuseVolume, DataInv, UntouchedYet, SealedSoFar, AllSealed, HeaderStands,
              HeaderSaved, LockedIsComplete, LiveIsUsed, Live, SealedOnceInPlace,
              CopyIntact, BackupInPlace, DataSealed, Sealed, IsBitLocker, Stopped
<1>3. CASE EnterRegion
  BY <1>3, EnterRegionData
<1>4. CASE EncryptChunk
  BY <1>4, EncryptChunkData
<1>5. CASE RegionsDone
  BY <1>5, RegionsDoneData
<1>6. CASE WriteMetadata
  BY <1>6, WriteMetadataData
<1>7. CASE WriteBackup
  BY <1>7, WriteBackupData
<1>8. CASE WriteHeader
  BY <1>8, WriteHeaderData
<1>9. CASE Sync
  BY <1>9, SyncData
<1>10. CASE Interrupt
  BY <1>10, InterruptData
<1>11. CASE UNCHANGED vars
  BY <1>11 DEF vars, DataInv, UntouchedYet, SealedSoFar, AllSealed, HeaderStands,
               HeaderSaved, LockedIsComplete, LiveIsUsed, Live, SealedOnceInPlace,
               CopyIntact, BackupInPlace, DataSealed, Sealed, IsBitLocker, Rest, Current
<1>12. QED
  BY <1>1, <1>2, <1>3, <1>4, <1>5, <1>6, <1>7, <1>8, <1>9, <1>10, <1>11
     DEF Next, RunStep

-----------------------------------------------------------------------------
(* The writes of a run, one part at a time. *)

(* What a step may do to the device: nothing, or a part of the one write   *)
(* that the run is at.                                                     *)
LEMMA StepWrites ==
  ASSUME TypeOK, Progress, [Next]_vars
  PROVE  \/ disk' = disk
         \/ /\ pc \in {"chunks", "metadata", "backup", "header"}
            /\ run > 0 /\ run' = run /\ saved' = saved /\ allocated' = allocated
            /\ \/ /\ pc = "chunks"
                  /\ \E m \in 0 .. ChunkWrite.len : disk' = Put(disk, ChunkWrite, m)
               \/ /\ pc = "metadata" /\ copy \in Copies
                  /\ \E m \in 0 .. BlockSectors : disk' = Put(disk, MetadataWrite(copy), m)
               \/ /\ pc = "backup"
                  /\ \E m \in 0 .. SavedSectors : disk' = Put(disk, BackupWrite, m)
               \/ /\ pc = "header"
                  /\ \E m \in 0 .. NumHeaderSectors : disk' = Put(disk, HeaderWrite, m)
<1>1. /\ BlockSectors \in 0 .. BlockSectors /\ SavedSectors \in 0 .. SavedSectors
      /\ NumHeaderSectors \in 0 .. NumHeaderSectors
  BY Placement
<1>2. pc \in Running => run > 0
  BY DEF Progress, StructuresWritten
<1>3. pc = "metadata" => copy \in Copies
  BY DEF Progress, StructuresWritten, TypeOK, Copies
<1>4. CASE ReadVolume \/ RefuseVolume \/ EnterRegion \/ RegionsDone \/ Sync \/ UNCHANGED vars
  BY <1>4 DEF ReadVolume, RefuseVolume, EnterRegion, RegionsDone, Sync, vars
<1>5. CASE EncryptChunk
  <2>1. pc = "chunks" /\ UNCHANGED <<run, saved, allocated>>
    BY <1>5 DEF EncryptChunk
  <2>2. ChunkWrite.len \in 0 .. ChunkWrite.len
    BY <2>1, ChunkWriteShape DEF Progress
  <2>3. disk' = Put(disk, ChunkWrite, ChunkWrite.len)
    BY <1>5 DEF EncryptChunk
  <2>4. QED
    BY <1>2, <2>1, <2>2, <2>3 DEF Running
<1>6. CASE WriteMetadata
  <2>1. pc = "metadata" /\ UNCHANGED <<run, saved, allocated>>
    BY <1>6 DEF WriteMetadata
  <2>2. disk' = disk \/ disk' = Put(disk, MetadataWrite(copy), BlockSectors)
    BY <1>6 DEF WriteMetadata
  <2>3. QED
    BY <1>1, <1>2, <1>3, <2>1, <2>2 DEF Running
<1>7. CASE WriteBackup
  BY <1>1, <1>2, <1>7 DEF WriteBackup, Running
<1>8. CASE WriteHeader
  BY <1>1, <1>2, <1>8 DEF WriteHeader, Running
<1>9. CASE Interrupt
  <2>1. pc \in Running /\ UNCHANGED <<run, saved, allocated>>
    BY <1>9 DEF Interrupt
  <2>2. PICK m \in 0 .. Pending.len : disk' = Put(disk, Pending, m)
    BY <1>9 DEF Interrupt
  <2>3. CASE pc = "chunks"
    BY <1>2, <2>1, <2>2, <2>3 DEF Pending
  <2>4. CASE pc = "metadata"
    <3>1. Pending = MetadataWrite(copy) /\ Pending.len = BlockSectors
      BY <2>4 DEF Pending, MetadataWrite, WriteAt
    <3>2. QED
      BY <1>2, <1>3, <2>1, <2>2, <2>4, <3>1
  <2>5. CASE pc = "backup"
    <3>1. Pending = BackupWrite /\ Pending.len = SavedSectors
      BY <2>5 DEF Pending, BackupWrite, WriteAt
    <3>2. QED
      BY <1>2, <2>1, <2>2, <2>5, <3>1
  <2>6. CASE pc = "header"
    <3>1. Pending = HeaderWrite /\ Pending.len = NumHeaderSectors
      BY <2>6 DEF Pending, HeaderWrite, WriteAt
    <3>2. QED
      BY <1>2, <2>1, <2>2, <2>6, <3>1
  <2>7. CASE pc \in {"regions", "sync"}
    <3>1. Pending = WriteAt(0, 0, <<>>)
      BY <2>7 DEF Pending
    <3>2. disk' = [i \in Sectors |-> disk[i]]
      BY <2>2, <3>1 DEF Put, WriteAt, TypeOK, Sectors
    <3>3. QED
      BY <3>2 DEF TypeOK
  <2>8. QED
    BY <2>1, <2>3, <2>4, <2>5, <2>6, <2>7 DEF Running
<1>10. QED
  BY <1>4, <1>5, <1>6, <1>7, <1>8, <1>9 DEF Next, RunStep

(* So a sector is sealed or as it was, and sector 0, before all regions,   *)
(* as it was.                                                              *)
LEMMA ChunkPart ==
  ASSUME TypeOK, Progress, pc = "chunks", NEW m \in 0 .. ChunkWrite.len
  PROVE  /\ Put(disk, ChunkWrite, m)[0] = disk[0]
         /\ \A i \in Sectors :
              Put(disk, ChunkWrite, m)[i] \in {disk[i], EncryptSector(run, i, disk[i])}
<1>1. offset \in Nat /\ ~ (offset =< 0) /\ 0 \in Sectors
  BY Placement DEF TypeOK, Progress, LoopInRegion, Sectors
<1>2. QED
  BY <1>1, ChunkAt

-----------------------------------------------------------------------------
(* What the runs leave of the data, one layer each. *)

(* A run adds its layer to those of the runs before it, and its key takes  *)
(* that layer away again.                                                  *)
LEMMA SealsOnceMore ==
  ASSUME NEW i \in Nat, NEW k \in Nat \ {0}, NEW c \in Content, SealedByRuns(c, i, k - 1)
  PROVE  /\ SealedByRuns(c, i, k)
         /\ SealedByRuns(EncryptSector(k, i, c), i, k)
         /\ DecryptSector(k, i, EncryptSector(k, i, c)) = c
<1> DEFINE e == Tweaked("enc", k, i)
<1> DEFINE d == Tweaked("dec", k, i)
<1>1. /\ c.layers \in Seq(Layer) /\ c = [base |-> c.base, layers |-> c.layers]
      /\ e \in Layer /\ d \in Layer /\ Undo(d) = e /\ Undo(e) = d /\ d.op = "dec"
  BY DEF Content, Tweaked, Layer, Undo
<1>2. c.base = Original(i).base
      /\ \A n \in DOMAIN c.layers : c.layers[n] \in {Tweaked("enc", j, i) : j \in 1 .. k - 1}
  BY DEF SealedByRuns
<1>3. \A n \in DOMAIN c.layers : c.layers[n] \in {Tweaked("enc", j, i) : j \in 1 .. k}
  BY <1>2
<1>4. e \in {Tweaked("enc", j, i) : j \in 1 .. k}
  OBVIOUS
<1>5. EncryptSector(k, i, c) = [base |-> c.base, layers |-> <<e>> \o c.layers]
  <2>1. \A n \in DOMAIN c.layers : c.layers[n].op = "enc"
    BY <1>2 DEF Tweaked
  <2>2. ~ (c.layers # <<>> /\ Head(c.layers) = Undo(e))
    <3> SUFFICES ASSUME c.layers # <<>> PROVE Head(c.layers).op = "enc"
      BY <1>1
    <3>1. 1 \in DOMAIN c.layers /\ Head(c.layers) = c.layers[1]
      BY <1>1
    <3>2. QED
      BY <2>1, <3>1
  <2>3. Apply(e, c) = [c EXCEPT !.layers = <<e>> \o @]
    BY <2>2 DEF Apply
  <2>4. QED
    BY <1>1, <2>3 DEF EncryptSector
<1> HIDE DEF e, d
<1> DEFINE s == <<e>> \o c.layers
<1>6. /\ s # <<>> /\ Head(s) = e /\ Tail(s) = c.layers
      /\ \A n \in DOMAIN s : s[n] = e \/ \E x \in DOMAIN c.layers : s[n] = c.layers[x]
  <2>1. s \in Seq(Layer) /\ Len(s) = Len(c.layers) + 1 /\ Len(c.layers) \in Nat
    BY <1>1
  <2>2. \A n \in 1 .. Len(s) : s[n] = IF n = 1 THEN e ELSE c.layers[n - 1]
    BY <1>1
  <2>3. Tail(s) = c.layers
    BY <1>1
  <2>4. QED
    BY <1>1, <2>1, <2>2, <2>3
<1> HIDE DEF s
<1>7. SealedByRuns(EncryptSector(k, i, c), i, k)
  BY <1>2, <1>3, <1>4, <1>5, <1>6 DEF SealedByRuns, s
<1>8. Apply(d, [base |-> c.base, layers |-> s]) = [base |-> c.base, layers |-> c.layers]
  BY <1>1, <1>6 DEF Apply
<1>9. DecryptSector(k, i, EncryptSector(k, i, c)) = c
  BY <1>1, <1>5, <1>8 DEF DecryptSector, d, s
<1>10. SealedByRuns(c, i, k)
  BY <1>2, <1>3 DEF SealedByRuns
<1>11. QED
  BY <1>7, <1>9, <1>10

(* A sector of the data lies behind the header. *)
LEMMA DataSectors ==
  ASSUME TypeOK, NEW i \in Sectors \ (Overwritten \cup HeaderSectors)
  PROVE  i \in Nat /\ NumHeaderSectors =< i /\ disk[i] \in Content
BY Placement DEF TypeOK, Sectors, HeaderSectors

(* A step that neither writes a sector of the data nor passes one. *)
LEMMA LayersKept ==
  ASSUME LayersInv, run' = run,
         pc' \in Running \cup {"done"} => pc \in Running \cup {"done"},
         NEW D, D = Sectors \ (Overwritten \cup HeaderSectors),
         \A i \in D : disk'[i] = disk[i],
         pc' \in Running \cup {"done"} => \A i \in D : Passed(i)' <=> Passed(i)
  PROVE  LayersInv'
<1>1. \A i \in D : SealedByRuns(disk'[i], i, run')
  BY DEF LayersInv, SealedByRunsOnly
<1>2. ASSUME pc' \in Running \cup {"done"}, NEW i \in D
      PROVE  SealedByRuns(IF Passed(i)' THEN View(disk', run', i) ELSE disk'[i], i, run' - 1)
  <2>1. SealedByRuns(IF Passed(i) THEN View(disk, run, i) ELSE disk[i], i, run - 1)
    BY <1>2 DEF LayersInv, SealedByThisRun
  <2>2. View(disk', run', i) = View(disk, run, i)
    BY DEF View
  <2>3. QED
    BY <1>2, <2>1, <2>2
<1>3. SealedByThisRun'
  BY <1>2 DEF SealedByThisRun
<1>4. SealedByRunsOnly'
  BY <1>1 DEF SealedByRunsOnly
<1>5. QED
  BY <1>3, <1>4 DEF LayersInv

LEMMA InitLayers == Init => LayersInv
<1> SUFFICES ASSUME Init PROVE LayersInv
  OBVIOUS
<1>1. disk = [i \in Sectors |-> Original(i)] /\ pc = "idle"
  BY DEF Init
<1>2. \A i \in Sectors : Original(i).layers = <<>>
  BY DEF Original, Plain
<1>3. SealedByRunsOnly
  BY <1>1, <1>2 DEF SealedByRunsOnly, SealedByRuns
<1>4. QED
  BY <1>1, <1>3 DEF LayersInv, SealedByThisRun, Running

(* A new run finds what the runs before it left, and has sealed nothing.   *)
LEMMA ReadVolumeLayers ==
  ASSUME TypeOK, LayersInv, ReadVolume
  PROVE  LayersInv'
<1>1. /\ run' = run + 1 /\ pc' = "regions" /\ disk' = disk
      /\ used' = UNION {Places(r) : r \in regions'}
  BY DEF ReadVolume
<1>2. run \in Nat /\ run' - 1 = run /\ run' \in Nat \ {0}
  BY <1>1, EncryptorConstants DEF TypeOK
<1>3. ASSUME NEW i \in Sectors \ (Overwritten \cup HeaderSectors)
      PROVE  SealedByRuns(disk'[i], i, run' - 1) /\ SealedByRuns(disk'[i], i, run')
  <2>1. SealedByRuns(disk[i], i, run)
    BY DEF LayersInv, SealedByRunsOnly
  <2>2. i \in Nat /\ disk[i] \in Content
    BY DataSectors
  <2>3. SealedByRuns(disk[i], i, run' - 1)
    BY <1>2, <2>1
  <2>4. QED
    BY <1>1, <1>2, <2>2, <2>3, SealsOnceMore
<1>4. \A i : ~ Passed(i)'
  BY <1>1 DEF Passed, Rest
<1>5. SealedByThisRun'
  BY <1>3, <1>4 DEF SealedByThisRun
<1>6. SealedByRunsOnly'
  BY <1>3 DEF SealedByRunsOnly
<1>7. QED
  BY <1>5, <1>6 DEF LayersInv

(* What the loop passes over when it enters a region, or skips one, lies   *)
(* in the header.                                                          *)
LEMMA EnterRegionLayers ==
  ASSUME TypeOK, Progress, LayersInv, EnterRegion
  PROVE  LayersInv'
<1> DEFINE D == Sectors \ (Overwritten \cup HeaderSectors)
<1>1. PICK r \in regions :
        /\ regions' = regions \ {r}
        /\ IF InHeader(r) THEN UNCHANGED <<pc, offset, extent>>
           ELSE /\ pc' = "chunks" /\ offset' = EntryPoint(r) /\ extent' = r.end
  BY DEF EnterRegion
<1>2. pc = "regions" /\ UNCHANGED <<disk, run, used>> /\ pc' \in {"regions", "chunks"}
  BY <1>1 DEF EnterRegion
<1>3. /\ r \in [start : 0 .. VolumeSectors, end : 0 .. VolumeSectors]
      /\ r.start \in Nat /\ r.end \in Nat /\ NumHeaderSectors \in Nat
  BY Placement DEF TypeOK
<1>4. ASSUME NEW i \in D
      PROVE  i \in Rest \cup Current <=> i \in Rest' \cup Current'
  <2>1. i \in Nat /\ NumHeaderSectors =< i
    BY DataSectors
  <2>2. i \in Places(r) <=> r.start =< i /\ i < r.end
    BY <1>3, <2>1, PlacesOf
  <2>3. i \in Places(r) <=> i \in Current'
    <3>1. CASE InHeader(r)
      <4>1. Current' = {}
        BY <1>1, <1>2, <3>1 DEF Current
      <4>2. QED
        BY <1>3, <2>1, <2>2, <3>1, <4>1 DEF InHeader
    <3>2. CASE ~ InHeader(r)
      <4>1. Current' = EntryPoint(r) .. r.end - 1
        BY <1>1, <3>2 DEF Current
      <4>2. EntryPoint(r) \in Nat /\ (EntryPoint(r) =< i <=> r.start =< i)
        BY <1>3, <2>1 DEF EntryPoint
      <4>3. QED
        BY <1>3, <2>1, <2>2, <4>1, <4>2
    <3>3. QED
      BY <3>1, <3>2
  <2>4. Current = {} /\ Rest = Rest' \cup Places(r)
    BY <1>1, <1>2 DEF Current, Rest
  <2>5. QED
    BY <2>3, <2>4
<1>5. \A i \in D : Passed(i)' <=> Passed(i)
  BY <1>2, <1>4 DEF Passed
<1>6. pc \in Running
  BY <1>2 DEF Running
<1> HIDE DEF D
<1>7. QED
  BY <1>2, <1>5, <1>6, LayersKept DEF D

(* A chunk, or a part of one, in each of its sectors. *)
LEMMA ChunkLayers ==
  ASSUME TypeOK, Progress, LayersInv, pc = "chunks", NEW m \in 0 .. ChunkWrite.len,
         NEW i \in Sectors \ (Overwritten \cup HeaderSectors)
  PROVE  LET e == EncryptSector(run, i, disk[i])
         IN  /\ SealedByRuns(Put(disk, ChunkWrite, m)[i], i, run)
             /\ offset =< i /\ i < offset + m =>
                  /\ Put(disk, ChunkWrite, m)[i] = e
                  /\ SealedByRuns(DecryptSector(run, i, e), i, run - 1)
<1>1. Put(disk, ChunkWrite, m)[i] =
        IF offset =< i /\ i < offset + m THEN EncryptSector(run, i, disk[i]) ELSE disk[i]
  BY ChunkAt
<1>2. SealedByRuns(disk[i], i, run)
  BY DEF LayersInv, SealedByRunsOnly
<1>3. ASSUME offset =< i, i < offset + m
      PROVE  SealedByRuns(disk[i], i, run - 1)
  <2>1. PICK n \in Nat : ChunkWrite.len = n /\ offset + n =< extent
    BY ChunkWriteShape DEF Progress
  <2>2. i \in Nat /\ offset \in Nat /\ extent \in Nat
    BY DataSectors DEF TypeOK
  <2>3. i \in Current
    BY <1>3, <2>1, <2>2 DEF Current
  <2>4. ~ Passed(i) /\ pc \in Running
    BY <2>3 DEF Passed, Running
  <2>5. QED
    BY <2>4 DEF LayersInv, SealedByThisRun
<1>4. i \in Nat /\ disk[i] \in Content /\ run \in Nat \ {0}
  BY DataSectors, EncryptorConstants DEF TypeOK, Progress, StructuresWritten, Running
<1>5. ASSUME offset =< i, i < offset + m
      PROVE  /\ SealedByRuns(EncryptSector(run, i, disk[i]), i, run)
             /\ SealedByRuns(DecryptSector(run, i, EncryptSector(run, i, disk[i])), i, run - 1)
  BY <1>3, <1>4, <1>5, SealsOnceMore
<1>6. QED
  BY <1>1, <1>2, <1>5

LEMMA EncryptChunkLayers ==
  ASSUME TypeOK, Progress, LayersInv, EncryptChunk
  PROVE  LayersInv'
<1> DEFINE D == Sectors \ (Overwritten \cup HeaderSectors)
<1>1. /\ pc = "chunks" /\ pc' = IF offset' < extent THEN "chunks" ELSE "regions"
      /\ UNCHANGED <<run, used, regions, extent>>
      /\ disk' = Put(disk, ChunkWrite, ChunkWrite.len)
      /\ offset' = offset + ChunkWrite.len
  BY DEF EncryptChunk
<1>2. PICK n \in Nat \ {0} : ChunkWrite.len = n /\ offset + n =< extent
  BY <1>1, ChunkWriteShape DEF Progress
<1>3. /\ offset \in Nat /\ extent \in Nat /\ n \in 0 .. ChunkWrite.len
      /\ Current = offset .. extent - 1 /\ Current' = offset + n .. extent - 1
      /\ Rest' = Rest
  BY <1>1, <1>2 DEF TypeOK, Current, Rest
<1>4. ASSUME NEW i \in D
      PROVE  /\ SealedByRuns(disk'[i], i, run')
             /\ SealedByRuns(IF Passed(i)' THEN View(disk', run', i) ELSE disk'[i], i, run' - 1)
  <2>1. SealedByRuns(disk'[i], i, run')
    BY <1>1, <1>2, <1>3, ChunkLayers
  <2>2. i \in Nat /\ i \notin HeaderSectors
    BY DataSectors
  <2>3. View(disk', run', i) = DecryptSector(run, i, disk'[i])
    BY <1>1, <2>2 DEF View
  <2>4. CASE offset =< i /\ i < offset + n
    <3>1. i \in Current /\ i \notin Current'
      BY <1>2, <1>3, <2>2, <2>4
    <3>2. i \in used /\ i \notin Rest
      BY <1>1, <3>1 DEF Progress, RegionsApart
    <3>3. Passed(i)'
      BY <1>1, <1>3, <3>1, <3>2 DEF Passed
    <3>4. SealedByRuns(DecryptSector(run, i, disk'[i]), i, run - 1)
      BY <1>1, <1>2, <1>3, <2>4, ChunkLayers
    <3>5. QED
      BY <1>1, <2>1, <2>3, <3>3, <3>4
  <2>5. CASE ~ (offset =< i /\ i < offset + n)
    <3>1. disk'[i] = disk[i]
      BY <1>1, <1>2, <1>3, <2>5, ChunkAt
    <3>2. Passed(i)' <=> Passed(i)
      BY <1>1, <1>2, <1>3, <2>2, <2>5 DEF Passed
    <3>3. SealedByRuns(IF Passed(i) THEN View(disk, run, i) ELSE disk[i], i, run - 1)
      BY <1>1 DEF LayersInv, SealedByThisRun, Running
    <3>4. View(disk', run', i) = View(disk, run, i)
      BY <1>1, <2>2, <3>1 DEF View
    <3>5. QED
      BY <1>1, <2>1, <3>1, <3>2, <3>3, <3>4
  <2>6. QED
    BY <2>4, <2>5
<1>5. SealedByThisRun' /\ SealedByRunsOnly'
  BY <1>4 DEF SealedByThisRun, SealedByRunsOnly
<1>6. QED
  BY <1>5 DEF LayersInv

(* The structures are written beside the data. *)
LEMMA StructuresLayers ==
  ASSUME TypeOK, Progress, LayersInv, WriteMetadata \/ WriteBackup \/ WriteHeader
  PROVE  LayersInv'
<1> DEFINE D == Sectors \ (Overwritten \cup HeaderSectors)
<1>1. /\ pc \in {"metadata", "backup", "header"}
      /\ pc' \in {"metadata", "backup", "header", "sync"}
      /\ UNCHANGED <<run, used>>
  BY DEF WriteMetadata, WriteBackup, WriteHeader
<1>2. \A i \in D : disk'[i] = disk[i]
  <2>1. run > 0
    BY <1>1 DEF Progress, StructuresWritten, Running
  <2>2. CASE disk' = disk
    BY <2>2
  <2>3. CASE disk' # disk
    <3>1. [Next]_vars
      BY DEF Next, RunStep
    <3>2. \/ copy \in Copies /\ \E m \in 0 .. BlockSectors : disk' = Put(disk, MetadataWrite(copy), m)
          \/ \E m \in 0 .. SavedSectors : disk' = Put(disk, BackupWrite, m)
          \/ \E m \in 0 .. NumHeaderSectors : disk' = Put(disk, HeaderWrite, m)
      BY <1>1, <2>3, <3>1, StepWrites
    <3>3. QED
      BY <2>1, <3>2, StructuresBesideData
  <2>4. QED
    BY <2>2, <2>3
<1>3. \A i \in D : Passed(i)' <=> Passed(i)
  BY <1>1 DEF Passed
<1>4. pc \in Running
  BY <1>1 DEF Running
<1> HIDE DEF D
<1>5. QED
  BY <1>1, <1>2, <1>3, <1>4, LayersKept DEF D

LEMMA InterruptLayers ==
  ASSUME TypeOK, Progress, LayersInv, Interrupt
  PROVE  LayersInv'
<1>1. pc' = "failed" /\ UNCHANGED run /\ [Next]_vars
  BY DEF Interrupt, Next
<1>2. ASSUME NEW i \in Sectors \ (Overwritten \cup HeaderSectors)
      PROVE  SealedByRuns(disk'[i], i, run)
  <2>1. SealedByRuns(disk[i], i, run)
    BY DEF LayersInv, SealedByRunsOnly
  <2>2. CASE disk' = disk
    BY <2>1, <2>2
  <2>3. CASE disk' # disk
    <3>1. run > 0
      BY <1>1, <2>3, StepWrites
    <3>2. CASE pc = "chunks"
      <4>1. PICK m \in 0 .. ChunkWrite.len : disk' = Put(disk, ChunkWrite, m)
        BY <1>1, <2>3, <3>2, StepWrites
      <4>2. QED
        BY <3>2, <4>1, ChunkLayers
    <3>3. CASE pc # "chunks"
      <4>1. \/ copy \in Copies /\ \E m \in 0 .. BlockSectors : disk' = Put(disk, MetadataWrite(copy), m)
            \/ \E m \in 0 .. SavedSectors : disk' = Put(disk, BackupWrite, m)
            \/ \E m \in 0 .. NumHeaderSectors : disk' = Put(disk, HeaderWrite, m)
        BY <1>1, <2>3, <3>3, StepWrites
      <4>2. disk'[i] = disk[i]
        BY <3>1, <4>1, StructuresBesideData
      <4>3. QED
        BY <2>1, <4>2
    <3>4. QED
      BY <3>2, <3>3
  <2>4. QED
    BY <2>2, <2>3
<1>3. SealedByRunsOnly'
  BY <1>1, <1>2 DEF SealedByRunsOnly
<1>4. SealedByThisRun'
  BY <1>1 DEF SealedByThisRun, Running
<1>5. QED
  BY <1>3, <1>4 DEF LayersInv

LEMMA NextLayers ==
  ASSUME TypeOK, Progress, LayersInv, [Next]_vars
  PROVE  LayersInv'
<1> DEFINE D == Sectors \ (Overwritten \cup HeaderSectors)
<1>1. CASE RefuseVolume
  BY <1>1 DEF RefuseVolume, LayersInv, SealedByThisRun, SealedByRunsOnly, Running
<1>2. CASE RegionsDone
  <2>1. /\ pc = "regions" /\ pc' = "metadata" /\ regions = {}
        /\ UNCHANGED <<disk, run, used>>
    BY <1>2 DEF RegionsDone
  <2>2. \A i \in D : Passed(i)' <=> Passed(i)
    BY <2>1 DEF Passed, Rest, Current
  <2>3. pc \in Running
    BY <2>1 DEF Running
  <2> HIDE DEF D
  <2>4. QED
    BY <2>1, <2>2, <2>3, LayersKept DEF D
<1>3. CASE Sync
  <2>1. pc = "sync" /\ pc' = "done" /\ UNCHANGED <<disk, run, used>>
    BY <1>3 DEF Sync
  <2>2. \A i \in D : Passed(i)' <=> Passed(i)
    BY <2>1 DEF Passed
  <2>3. pc \in Running
    BY <2>1 DEF Running
  <2> HIDE DEF D
  <2>4. QED
    BY <2>1, <2>2, <2>3, LayersKept DEF D
<1>4. CASE UNCHANGED vars
  <2>1. UNCHANGED <<disk, pc, run, used, regions, offset, extent>>
    BY <1>4 DEF vars
  <2>2. \A i \in D : Passed(i)' <=> Passed(i)
    BY <2>1 DEF Passed, Rest, Current
  <2> HIDE DEF D
  <2>3. QED
    BY <2>1, <2>2, LayersKept DEF D
<1>5. QED
  BY <1>1, <1>2, <1>3, <1>4, ReadVolumeLayers, EnterRegionLayers, EncryptChunkLayers,
     StructuresLayers, InterruptLayers DEF Next, RunStep

-----------------------------------------------------------------------------
(* The theorems. *)

(* IInv holds of a device that is untouched, and no step of the encryptor  *)
(* leads out of it, whole or cut off.                                      *)
THEOREM Invariance == Spec => []IInv
<1>1. Init => IInv
  BY InitType, InitProgress, InitData, InitLayers DEF IInv
<1>2. IInv /\ [Next]_vars => IInv'
  <2> SUFFICES ASSUME IInv, [Next]_vars PROVE IInv'
    OBVIOUS
  <2>1. TypeOK /\ Progress /\ DataInv /\ LayersInv
    BY DEF IInv
  <2>2. TypeOK'
    BY <2>1, NextType DEF Progress
  <2>3. Progress'
    BY <2>1, NextProgress
  <2>4. DataInv'
    BY <2>1, NextData
  <2>5. LayersInv'
    BY <2>1, NextLayers
  <2>6. QED
    BY <2>2, <2>3, <2>4, <2>5 DEF IInv
<1>3. QED
  BY <1>1, <1>2, PTL DEF Spec

(* The disk stays a disk, the loop inside the volume, on every volume.     *)
THEOREM TypeCorrect == Spec => []TypeOK
<1>1. IInv => TypeOK
  BY DEF IInv
<1>2. QED
  BY <1>1, Invariance, PTL

(* The first run seals a sector in use once, under the tweak of its own    *)
(* place, and leaves the others alone, wherever it is cut off.             *)
THEOREM SealsOnceInPlace == Spec => []SealedOnceInPlace
<1>1. IInv => SealedOnceInPlace
  BY DEF IInv, DataInv
<1>2. QED
  BY <1>1, Invariance, PTL

(* A run that reports success, the first or a later one, has put down its  *)
(* blocks, its backup and the header, and has sealed the sectors in use    *)
(* and no others, each once, over what the runs before it left.            *)
THEOREM SuccessIsComplete == Spec => []ReportedMeansComplete
<1>1. ASSUME IInv, pc = "done", NEW i \in Sectors \ (Overwritten \cup HeaderSectors)
      PROVE  SealedByRuns(IF i \in used THEN View(disk, run, i) ELSE disk[i], i, run - 1)
  <2>1. SealedByRuns(IF Passed(i) THEN View(disk, run, i) ELSE disk[i], i, run - 1)
    BY <1>1 DEF IInv, LayersInv, SealedByThisRun
  <2>2. Passed(i) <=> i \in used
    BY <1>1 DEF Passed
  <2>3. QED
    BY <2>1, <2>2
<1>2. IInv => ReportedMeansComplete
  BY <1>1 DEF IInv, Progress, StructuresWritten, BackupInPlace, ReportedMeansComplete
<1>3. QED
  BY <1>2, Invariance, PTL

(* On a volume of 512-byte sectors (SectorSize = BaseSectorSize): once the *)
(* BitLocker header is on the device, whether the run ended or was cut     *)
(* off, the volume unlocks and every preserved sector comes back as it was *)
(* before the run.                                                         *)
LEMMA LockedRecovers ==
  ASSUME SectorSize = BaseSectorSize, IInv
  PROVE  LockedMeansRecoverable
<1> SUFFICES ASSUME run = 1, IsBitLocker(disk)
             PROVE  /\ Unlocks(disk, run)
                    /\ \A i \in Preserved : View(disk, run, i) = Original(i)
  BY DEF LockedMeansRecoverable
<1>1. TypeOK /\ Progress /\ DataInv
  BY DEF IInv
<1>2. pc \in Stopped \cup {"sync"}
  BY <1>1, NotYetLocked DEF TypeOK, Running
<1>3. /\ \A j \in Copies : CopyIntact(disk, run, j)
      /\ BackupInPlace
      /\ DataSealed
  <2>1. CASE pc \in Stopped
    BY <1>1, <2>1 DEF DataInv, LockedIsComplete
  <2>2. CASE pc = "sync"
    BY <1>1, <2>2 DEF DataInv, AllSealed, Progress, StructuresWritten
  <2>3. QED
    BY <1>2, <2>1, <2>2
<1>4. Unlocks(disk, run)
  BY <1>3 DEF Unlocks, Copies
<1>5. SavedSectors = NumHeaderSectors
  <2>1. /\ NumHeaderSectors \in Nat /\ SectorSize \in Nat \ {0}
    BY VolumeConstants, LayoutConstants
  <2>2. (NumHeaderSectors * SectorSize) \div SectorSize = NumHeaderSectors
    BY <2>1
  <2>3. QED
    BY <2>2 DEF SavedSectors
<1>6. ASSUME NEW i \in HeaderSectors
      PROVE  View(disk, run, i) = Original(i)
  <2>1. i \in Nat /\ i \in 0 .. SavedSectors - 1 /\ BackupAt + i \in Nat
    BY <1>5, Placement DEF HeaderSectors
  <2>2. ReadAt(disk, BackupAt, SavedSectors)[i] = disk[BackupAt + i]
    BY <2>1 DEF ReadAt
  <2>3. saved = [x \in 0 .. SavedSectors - 1 |-> Original(x)]
    BY <1>1 DEF DataInv, HeaderSaved
  <2>4. EncryptSectors(1, BackupAt, saved)[i] = EncryptSector(1, BackupAt + i, Original(i))
    BY <2>1, <2>3 DEF EncryptSectors
  <2>5. disk[BackupAt + i] = EncryptSector(1, BackupAt + i, Original(i))
    BY <1>3, <2>2, <2>4 DEF BackupInPlace
  <2>6. [kind |-> "data", at |-> i, key |-> 0] \in Base
    BY <2>1 DEF Base
  <2>7. DecryptSector(1, BackupAt + i, disk[BackupAt + i]) = Original(i)
    BY <2>1, <2>5, <2>6, DecryptUndoesEncrypt DEF Original
  <2>8. QED
    BY <2>7 DEF View
<1>7. ASSUME NEW i \in Preserved, i \notin HeaderSectors
      PROVE  View(disk, run, i) = Original(i)
  <2>1. i \in Live /\ i \notin Overwritten /\ i \in Sectors
    BY <1>7, LiveInVolume DEF Preserved
  <2>2. i \in used
    BY <1>1, <1>7, <2>1 DEF DataInv, LiveIsUsed
  <2>3. disk[i] = EncryptSector(1, i, Original(i))
    BY <1>3, <1>7, <2>1, <2>2 DEF DataSealed, Sealed
  <2>4. i \in Nat
    BY <2>1, Placement DEF Sectors
  <2>5. [kind |-> "data", at |-> i, key |-> 0] \in Base
    BY <2>4 DEF Base
  <2>6. DecryptSector(1, i, disk[i]) = Original(i)
    BY <2>3, <2>4, <2>5, DecryptUndoesEncrypt DEF Original
  <2>7. QED
    BY <1>7, <2>6 DEF View
<1>8. QED
  BY <1>4, <1>6, <1>7

(* LockedMeansRecoverable, on every volume of 512-byte sectors.            *)
THEOREM LockedVolumeRecoverable ==
  ASSUME SectorSize = BaseSectorSize
  PROVE  Spec => []LockedMeansRecoverable
<1>1. IInv => LockedMeansRecoverable
  BY LockedRecovers
<1>2. QED
  BY <1>1, Invariance, PTL

-----------------------------------------------------------------------------
(* The header is the last write. *)

(* Sector 0 is written by the write of the header and by nothing else. *)
LEMMA SectorZeroKept ==
  ASSUME TypeOK, Progress, [Next]_vars, pc # "header"
  PROVE  disk'[0] = disk[0]
<1>1. 0 \in HeaderSectors
  BY Placement DEF HeaderSectors
<1>2. CASE disk' = disk
  BY <1>2
<1>3. CASE disk' # disk
  <2>1. run > 0
    BY <1>3, StepWrites
  <2>2. /\ \A j \in Copies, m \in 0 .. BlockSectors : Put(disk, MetadataWrite(j), m)[0] = disk[0]
        /\ \A m \in 0 .. SavedSectors : Put(disk, BackupWrite, m)[0] = disk[0]
    BY <1>1, <2>1, StructuresBesideData
  <2>3. CASE pc = "chunks"
    <3>1. \E m \in 0 .. ChunkWrite.len : disk' = Put(disk, ChunkWrite, m)
      BY <1>3, <2>3, StepWrites
    <3>2. QED
      BY <2>3, <3>1, ChunkPart
  <2>4. CASE pc = "metadata"
    <3>1. copy \in Copies /\ \E m \in 0 .. BlockSectors : disk' = Put(disk, MetadataWrite(copy), m)
      BY <1>3, <2>4, StepWrites
    <3>2. QED
      BY <2>2, <3>1
  <2>5. CASE pc = "backup"
    <3>1. \E m \in 0 .. SavedSectors : disk' = Put(disk, BackupWrite, m)
      BY <1>3, <2>5, StepWrites
    <3>2. QED
      BY <2>2, <3>1
  <2>6. QED
    BY <1>3, <2>3, <2>4, <2>5, StepWrites
<1>4. QED
  BY <1>2, <1>3

(* Sector 0 changes only when the three blocks and the backup of the run   *)
(* that changes it are complete, on the first run and on every later one.  *)
THEOREM HeaderIsLast == Spec => HeaderWrittenLast
<1> DEFINE Complete ==
      /\ \A j \in Copies : CopyIntact(disk, run, j)
      /\ ReadAt(disk, BackupAt, SavedSectors) = EncryptSectors(run, BackupAt, saved)
<1>1. ASSUME IInv, [Next]_vars, disk'[0] # disk[0]
      PROVE  Complete
  <2>1. TypeOK /\ Progress
    BY <1>1 DEF IInv
  <2>2. pc = "header"
    BY <1>1, <2>1, SectorZeroKept
  <2>3. QED
    BY <2>1, <2>2 DEF Progress, StructuresWritten, BackupInPlace
<1>2. IInv /\ [Next]_vars => (disk'[0] # disk[0] => Complete)
  BY <1>1
<1>3. Spec => [][disk'[0] # disk[0] => Complete]_vars
  BY <1>2, Invariance, PTL DEF Spec
<1>4. QED
  BY <1>3 DEF HeaderWrittenLast

-----------------------------------------------------------------------------
(* The three copies stay redundant. *)

(* Sealing a sector does not change which run has written it. *)
LEMMA SealingKeepsBase ==
  ASSUME NEW k, NEW at, NEW c \in Content
  PROVE  EncryptSector(k, at, c).base = c.base
BY DEF EncryptSector, Apply, Content

LEMMA KeysOfContents ==
  /\ \A i : Original(i).base.key = 0
  /\ Zero.base.key = 0 /\ BitLockerHeader.base.key = 0
  /\ \A k : \A i \in 0 .. BlockSectors - 1 : FveBlock(k)[i].base.key = k
BY DEF Original, Zero, BitLockerHeader, FveBlock, Plain

LEMMA KeysAreNat ==
  ASSUME NEW c \in Content
  PROVE  c.base.key \in Nat
BY DEF Content, Base

(* A write puts down what has a key of at most the bound, and leaves the   *)
(* rest.                                                                   *)
LEMMA PutKeepsBound ==
  ASSUME NEW d \in [Sectors -> Content], NEW k \in Nat,
         \A i \in Sectors : d[i].base.key =< k,
         NEW start \in Nat, NEW n \in Nat, NEW data, NEW m \in 0 .. n,
         \A i \in 0 .. n - 1 : data[i].base.key =< k
  PROVE  \A i \in Sectors : Put(d, WriteAt(start, n, data), m)[i].base.key =< k
<1> SUFFICES ASSUME NEW i \in Sectors
             PROVE  Put(d, WriteAt(start, n, data), m)[i].base.key =< k
  OBVIOUS
<1>1. i \in Nat
  BY Placement DEF Sectors
<1>2. CASE start =< i /\ i < start + m
  <2>1. i - start \in 0 .. n - 1
    BY <1>1, <1>2
  <2>2. Put(d, WriteAt(start, n, data), m)[i] = data[i - start]
    BY <1>2, PutAt
  <2>3. QED
    BY <2>1, <2>2
<1>3. CASE ~ (start =< i /\ i < start + m)
  <2>1. Put(d, WriteAt(start, n, data), m)[i] = d[i]
    BY <1>3, PutAt
  <2>2. QED
    BY <2>1
<1>4. QED
  BY <1>2, <1>3

(* No write of a run brings in a key that is newer than the run. *)
LEMMA WritesKeepBound ==
  ASSUME TypeOK, KeysOnDevice, run > 0
  PROVE  /\ \A j \in Copies, m \in 0 .. BlockSectors :
              \A i \in Sectors : Put(disk, MetadataWrite(j), m)[i].base.key =< run
         /\ \A m \in 0 .. SavedSectors :
              \A i \in Sectors : Put(disk, BackupWrite, m)[i].base.key =< run
         /\ \A m \in 0 .. NumHeaderSectors :
              \A i \in Sectors : Put(disk, HeaderWrite, m)[i].base.key =< run
<1>1. /\ disk \in [Sectors -> Content] /\ run \in Nat
      /\ saved \in [0 .. SavedSectors - 1 -> Content]
      /\ \A i \in Sectors : disk[i].base.key =< run
      /\ \A i \in 0 .. SavedSectors - 1 : saved[i].base.key =< run
  BY EncryptorConstants DEF TypeOK, KeysOnDevice
<1>2. /\ BlockSectors \in Nat /\ SavedSectors \in Nat /\ NumHeaderSectors \in Nat
      /\ BackupAt \in Nat /\ \A j \in Copies : MetaAt(j) \in Nat
  BY Placement
<1>3. \A i \in 0 .. BlockSectors - 1 : FveBlock(run)[i].base.key =< run
  BY <1>1, KeysOfContents
<1>4. \A i \in 0 .. SavedSectors - 1 :
         EncryptSectors(run, BackupAt, saved)[i].base.key =< run
  <2> TAKE i \in 0 .. SavedSectors - 1
  <2>1. EncryptSectors(run, BackupAt, saved)[i] = EncryptSector(run, BackupAt + i, saved[i])
    BY <1>1 DEF EncryptSectors
  <2>2. saved[i] \in Content
    BY <1>1
  <2>3. QED
    BY <1>1, <2>1, <2>2, SealingKeepsBase
<1> DEFINE head == [i \in HeaderSectors |-> IF i = 0 THEN BitLockerHeader ELSE Zero]
<1>5. \A i \in 0 .. NumHeaderSectors - 1 : head[i].base.key =< run
  BY <1>1, KeysOfContents DEF HeaderSectors
<1> HIDE DEF head
<1>6. \A j \in Copies, m \in 0 .. BlockSectors :
         \A i \in Sectors : Put(disk, MetadataWrite(j), m)[i].base.key =< run
  <2> TAKE j \in Copies, m \in 0 .. BlockSectors
  <2>1. MetadataWrite(j) = WriteAt(MetaAt(j), BlockSectors, FveBlock(run))
    BY DEF MetadataWrite
  <2>2. QED
    BY <1>1, <1>2, <1>3, <2>1, PutKeepsBound
<1>7. \A m \in 0 .. SavedSectors :
         \A i \in Sectors : Put(disk, BackupWrite, m)[i].base.key =< run
  <2> TAKE m \in 0 .. SavedSectors
  <2>1. BackupWrite = WriteAt(BackupAt, SavedSectors, EncryptSectors(run, BackupAt, saved))
    BY DEF BackupWrite
  <2>2. QED
    BY <1>1, <1>2, <1>4, <2>1, PutKeepsBound
<1>8. \A m \in 0 .. NumHeaderSectors :
         \A i \in Sectors : Put(disk, HeaderWrite, m)[i].base.key =< run
  <2> TAKE m \in 0 .. NumHeaderSectors
  <2>1. HeaderWrite = WriteAt(0, NumHeaderSectors, head)
    BY DEF HeaderWrite, head
  <2>2. QED
    BY <1>1, <1>2, <1>5, <2>1, PutKeepsBound
<1>9. QED
  BY <1>6, <1>7, <1>8

(* Sealing a chunk brings in no key at all. *)
LEMMA ChunksKeepBound ==
  ASSUME TypeOK, Progress, KeysOnDevice, pc = "chunks", NEW m \in 0 .. ChunkWrite.len
  PROVE  \A i \in Sectors : Put(disk, ChunkWrite, m)[i].base.key < run
<1>1. PICK n \in Nat \ {0} : \E data \in [0 .. n - 1 -> Content] :
         /\ ChunkWrite = WriteAt(offset, n, data)
         /\ ChunkWrite.len = n
         /\ offset + n =< extent
         /\ \A i \in 0 .. n - 1 : data[i] = EncryptSector(run, offset + i, disk[offset + i])
  BY ChunkWriteShape DEF Progress
<1>2. PICK data \in [0 .. n - 1 -> Content] :
         /\ ChunkWrite = WriteAt(offset, n, data)
         /\ \A i \in 0 .. n - 1 : data[i] = EncryptSector(run, offset + i, disk[offset + i])
  BY <1>1
<1>3. /\ disk \in [Sectors -> Content] /\ run \in Nat /\ offset \in Nat
      /\ extent \in 0 .. VolumeSectors
      /\ \A i \in Sectors : disk[i].base.key < run
  BY EncryptorConstants DEF TypeOK, KeysOnDevice
<1>4. \A i \in Sectors : disk[i].base.key \in Nat
  BY <1>3, KeysAreNat
<1>5. run - 1 \in Nat /\ \A i \in Sectors : disk[i].base.key =< run - 1
  <2>1. run > 0
    BY DEF Progress, StructuresWritten, Running
  <2>2. QED
    BY <1>3, <1>4, <2>1
<1>6. \A i \in 0 .. n - 1 : data[i].base.key =< run - 1
  <2> TAKE i \in 0 .. n - 1
  <2>1. offset + i \in Sectors
    BY <1>1, <1>3, Placement DEF Sectors
  <2>2. disk[offset + i] \in Content /\ disk[offset + i].base.key =< run - 1
    BY <1>3, <1>5, <2>1
  <2>3. QED
    BY <1>2, <2>2, SealingKeepsBase
<1>7. \A i \in Sectors : Put(disk, ChunkWrite, m)[i].base.key =< run - 1
  BY <1>1, <1>2, <1>3, <1>5, <1>6, PutKeepsBound
<1>8. \A i \in Sectors : Put(disk, ChunkWrite, m)[i] \in Content
  <2>1. m \in 0 .. n
    BY <1>1
  <2>2. Put(disk, WriteAt(offset, n, data), m) \in [Sectors -> Content]
    BY <1>3, <2>1, PutIsDisk
  <2>3. QED
    BY <1>2, <2>2
<1>9. QED
  BY <1>3, <1>7, <1>8, KeysAreNat

LEMMA InitKeys == Init => KeysOnDevice
<1> SUFFICES ASSUME Init PROVE KeysOnDevice
  OBVIOUS
<1>1. run = 0 /\ pc \notin {"regions", "chunks"} /\ disk = [i \in Sectors |-> Original(i)]
  BY DEF Init
<1>2. QED
  BY <1>1, KeysOfContents DEF KeysOnDevice

(* A new run has a new key; what it reads and saves is older. *)
LEMMA ReadVolumeKeys ==
  ASSUME TypeOK, KeysOnDevice, ReadVolume
  PROVE  KeysOnDevice'
<1>1. /\ run \in Nat /\ run' = run + 1 /\ disk' = disk /\ disk \in [Sectors -> Content]
      /\ saved' = ReadAt(disk, 0, SavedSectors)
      /\ \A i \in Sectors : disk[i].base.key =< run
  BY EncryptorConstants DEF TypeOK, ReadVolume, KeysOnDevice
<1>2. \A i \in Sectors : disk[i].base.key \in Nat
  BY <1>1, KeysAreNat
<1>3. \A i \in Sectors : disk[i].base.key < run + 1 /\ disk[i].base.key =< run + 1
  BY <1>1, <1>2
<1>4. ASSUME NEW i \in 0 .. SavedSectors - 1
      PROVE  saved'[i].base.key =< run + 1
  <2>1. i \in Sectors /\ 0 + i = i
    BY Placement DEF Sectors
  <2>2. saved'[i] = disk[i]
    BY <1>1, <2>1 DEF ReadAt
  <2>3. QED
    BY <1>3, <2>1, <2>2
<1>5. QED
  BY <1>1, <1>3, <1>4 DEF KeysOnDevice

(* Nothing is written that is newer than the run, torn or whole.           *)
LEMMA InterruptKeys ==
  ASSUME TypeOK, Progress, KeysOnDevice, Interrupt
  PROVE  KeysOnDevice'
<1>1. /\ pc \in Running /\ pc' = "failed" /\ run > 0 /\ run \in Nat
      /\ UNCHANGED <<run, saved>> /\ disk \in [Sectors -> Content]
  BY EncryptorConstants DEF Interrupt, Progress, StructuresWritten, TypeOK
<1>2. PICK m \in 0 .. Pending.len : disk' = Put(disk, Pending, m)
  BY DEF Interrupt
<1>3. SUFFICES \A i \in Sectors : disk'[i].base.key =< run
  BY <1>1 DEF KeysOnDevice
<1>4. CASE pc = "chunks"
  <2>1. Pending = ChunkWrite
    BY <1>4 DEF Pending
  <2>2. PICK n \in Nat \ {0} : \E data \in [0 .. n - 1 -> Content] :
           ChunkWrite = WriteAt(offset, n, data) /\ ChunkWrite.len = n
    BY <1>4, ChunkWriteShape DEF Progress
  <2>3. PICK data \in [0 .. n - 1 -> Content] : ChunkWrite = WriteAt(offset, n, data)
    BY <2>2
  <2>4. disk' \in [Sectors -> Content]
    BY <1>1, <1>2, <2>1, <2>2, <2>3, PutIsDisk DEF TypeOK
  <2>5. \A i \in Sectors : disk'[i].base.key < run
    BY <1>2, <1>4, <2>1, ChunksKeepBound
  <2>6. \A i \in Sectors : disk'[i].base.key \in Nat
    BY <2>4, KeysAreNat
  <2>7. QED
    BY <1>1, <2>5, <2>6
<1>5. CASE pc = "metadata"
  <2>1. Pending = MetadataWrite(copy) /\ Pending.len = BlockSectors /\ copy \in Copies
    BY <1>5 DEF Pending, MetadataWrite, WriteAt, Progress, StructuresWritten, TypeOK, Copies
  <2>2. QED
    BY <1>1, <1>2, <2>1, WritesKeepBound
<1>6. CASE pc = "backup"
  <2>1. Pending = BackupWrite /\ Pending.len = SavedSectors
    BY <1>6 DEF Pending, BackupWrite, WriteAt
  <2>2. QED
    BY <1>1, <1>2, <2>1, WritesKeepBound
<1>7. CASE pc = "header"
  <2>1. Pending = HeaderWrite /\ Pending.len = NumHeaderSectors
    BY <1>7 DEF Pending, HeaderWrite, WriteAt
  <2>2. QED
    BY <1>1, <1>2, <2>1, WritesKeepBound
<1>8. CASE pc \in {"regions", "sync"}
  <2>1. Pending = WriteAt(0, 0, <<>>)
    BY <1>8 DEF Pending
  <2>2. disk' = [i \in Sectors |-> disk[i]]
    BY <1>1, <1>2, <2>1 DEF Put, WriteAt, Sectors
  <2>3. disk' = disk
    BY <1>1, <2>2
  <2>4. QED
    BY <2>3 DEF KeysOnDevice
<1>9. QED
  BY <1>1, <1>4, <1>5, <1>6, <1>7, <1>8 DEF Running

LEMMA NextKeys ==
  ASSUME TypeOK, Progress, KeysOnDevice, [Next]_vars
  PROVE  KeysOnDevice'
<1>1. CASE ReadVolume
  BY <1>1, ReadVolumeKeys
<1>2. CASE RefuseVolume \/ EnterRegion \/ RegionsDone \/ Sync \/ UNCHANGED vars
  <2>1. UNCHANGED <<disk, run, saved>>
    BY <1>2 DEF RefuseVolume, EnterRegion, RegionsDone, Sync, vars
  <2>2. pc' \in {"regions", "chunks"} => pc \in {"regions", "chunks"}
    BY <1>2 DEF RefuseVolume, EnterRegion, RegionsDone, Sync, vars
  <2>3. QED
    BY <2>1, <2>2 DEF KeysOnDevice
<1>3. CASE EncryptChunk
  <2>1. /\ pc = "chunks" /\ pc' \in {"regions", "chunks"} /\ UNCHANGED <<run, saved>>
        /\ disk' = Put(disk, ChunkWrite, ChunkWrite.len)
    BY <1>3 DEF EncryptChunk
  <2>2. PICK n \in Nat \ {0} : \E data \in [0 .. n - 1 -> Content] :
           ChunkWrite = WriteAt(offset, n, data) /\ ChunkWrite.len = n
    BY <2>1, ChunkWriteShape DEF Progress
  <2>3. ChunkWrite.len \in 0 .. ChunkWrite.len
    BY <2>2
  <2>4. \A i \in Sectors : disk'[i].base.key < run
    BY <2>1, <2>3, ChunksKeepBound
  <2>5. disk' \in [Sectors -> Content] /\ run \in Nat
    BY <1>3, EncryptChunkType, EncryptorConstants DEF TypeOK, Progress
  <2>6. \A i \in Sectors : disk'[i].base.key \in Nat
    BY <2>5, KeysAreNat
  <2>7. \A i \in Sectors : disk'[i].base.key =< run
    BY <2>4, <2>5, <2>6
  <2>8. QED
    BY <2>1, <2>4, <2>7 DEF KeysOnDevice
<1>4. CASE WriteMetadata
  <2>1. /\ pc = "metadata" /\ copy \in Copies /\ run > 0
        /\ pc' \in {"metadata", "backup"} /\ UNCHANGED <<run, saved>>
    BY <1>4 DEF WriteMetadata, Progress, StructuresWritten, Running, TypeOK, Copies
  <2>2. disk' = disk \/ disk' = Put(disk, MetadataWrite(copy), BlockSectors)
    BY <1>4 DEF WriteMetadata
  <2>3. BlockSectors \in 0 .. BlockSectors
    BY Placement
  <2>4. \A i \in Sectors : disk'[i].base.key =< run
    <3>1. CASE disk' = disk
      BY <3>1 DEF KeysOnDevice
    <3>2. CASE disk' = Put(disk, MetadataWrite(copy), BlockSectors)
      BY <2>1, <2>3, <3>2, WritesKeepBound
    <3>3. QED
      BY <2>2, <3>1, <3>2
  <2>5. QED
    BY <2>1, <2>4 DEF KeysOnDevice
<1>5. CASE WriteBackup
  <2>1. /\ pc = "backup" /\ pc' = "header" /\ run > 0 /\ UNCHANGED <<run, saved>>
        /\ disk' = Put(disk, BackupWrite, SavedSectors)
    BY <1>5 DEF WriteBackup, Progress, StructuresWritten, Running
  <2>2. SavedSectors \in 0 .. SavedSectors
    BY Placement
  <2>3. \A i \in Sectors : disk'[i].base.key =< run
    BY <2>1, <2>2, WritesKeepBound
  <2>4. QED
    BY <2>1, <2>3 DEF KeysOnDevice
<1>6. CASE WriteHeader
  <2>1. /\ pc = "header" /\ pc' = "sync" /\ run > 0 /\ UNCHANGED <<run, saved>>
        /\ disk' = Put(disk, HeaderWrite, NumHeaderSectors)
    BY <1>6 DEF WriteHeader, Progress, StructuresWritten, Running
  <2>2. NumHeaderSectors \in 0 .. NumHeaderSectors
    BY Placement
  <2>3. \A i \in Sectors : disk'[i].base.key =< run
    BY <2>1, <2>2, WritesKeepBound
  <2>4. QED
    BY <2>1, <2>3 DEF KeysOnDevice
<1>7. CASE Interrupt
  BY <1>7, InterruptKeys
<1>8. QED
  BY <1>1, <1>2, <1>3, <1>4, <1>5, <1>6, <1>7 DEF Next, RunStep

(* While a run seals, none of its blocks is on the device: the sectors it  *)
(* seals cannot have been one.                                             *)
LEMMA NoCopyWhileSealing ==
  ASSUME TypeOK, KeysOnDevice, pc \in {"regions", "chunks"}, NEW j \in Copies
  PROVE  ~ CopyIntact(disk, run, j)
<1> SUFFICES ASSUME CopyIntact(disk, run, j) PROVE FALSE
  OBVIOUS
<1>1. BlockSectors \in Nat /\ BlockSectors # 0
  BY WholeSectors, VolumeConstants, LayoutConstants, Placement DEF BlockSectors, SectorOf
<1>2. 0 \in 0 .. BlockSectors - 1 /\ MetaAt(j) \in Sectors /\ MetaAt(j) + 0 = MetaAt(j)
  <2>1. Copies = {1, 2, 3}
    BY DEF Copies
  <2>2. QED
    BY <1>1, <2>1, Placement DEF Sectors
<1>3. ReadAt(disk, MetaAt(j), BlockSectors)[0] = disk[MetaAt(j)]
  BY <1>2 DEF ReadAt
<1>4. disk[MetaAt(j)] = FveBlock(run)[0]
  BY <1>3 DEF CopyIntact
<1>5. disk[MetaAt(j)].base.key = run
  BY <1>2, <1>4, KeysOfContents
<1>6. disk[MetaAt(j)].base.key < run /\ run \in Nat
  BY <1>2, EncryptorConstants DEF KeysOnDevice, TypeOK
<1>7. QED
  BY <1>5, <1>6

(* A block written over itself stays what it is, after any part of the     *)
(* write.                                                                  *)
LEMMA RewrittenIsIntact ==
  ASSUME TypeOK, run > 0, NEW j \in Copies, CopyIntact(disk, run, j),
         NEW m \in 0 .. BlockSectors
  PROVE  CopyIntact(Put(disk, MetadataWrite(j), m), run, j)
<1>1. /\ disk \in [Sectors -> Content] /\ BlockSectors \in Nat /\ MetaAt(j) \in Nat
      /\ MetaAt(j) + BlockSectors =< VolumeSectors /\ VolumeSectors \in Nat
      /\ MetadataWrite(j) = WriteAt(MetaAt(j), BlockSectors, FveBlock(run))
  <2>1. Copies = {1, 2, 3}
    BY DEF Copies
  <2>2. QED
    BY <2>1, Placement DEF TypeOK, MetadataWrite
<1>2. ReadAt(disk, MetaAt(j), BlockSectors) = FveBlock(run)
  BY DEF CopyIntact
<1> DEFINE after == Put(disk, MetadataWrite(j), m)
<1>3. ASSUME NEW i \in 0 .. BlockSectors - 1
      PROVE  after[MetaAt(j) + i] = disk[MetaAt(j) + i]
  <2>1. MetaAt(j) + i \in Sectors /\ (MetaAt(j) + i) - MetaAt(j) = i
    BY <1>1 DEF Sectors
  <2>2. FveBlock(run)[i] = disk[MetaAt(j) + i]
    <3>1. ReadAt(disk, MetaAt(j), BlockSectors)[i] = disk[MetaAt(j) + i]
      BY DEF ReadAt
    <3>2. QED
      BY <1>2, <3>1
  <2>3. after[MetaAt(j) + i] =
          IF MetaAt(j) =< MetaAt(j) + i /\ MetaAt(j) + i < MetaAt(j) + m
          THEN FveBlock(run)[(MetaAt(j) + i) - MetaAt(j)] ELSE disk[MetaAt(j) + i]
    BY <1>1, <2>1, PutAt
  <2>4. QED
    BY <2>1, <2>2, <2>3
<1>4. ReadAt(after, MetaAt(j), BlockSectors) = ReadAt(disk, MetaAt(j), BlockSectors)
  <2> HIDE DEF after
  <2>1. QED
    BY <1>3 DEF ReadAt
<1>5. QED
  BY <1>2, <1>4 DEF CopyIntact

(* A run never damages a metadata block that it has itself put down, not   *)
(* by a write that is cut off either.                                      *)
THEOREM CopiesStayIntact == Spec => CopiesSurviveTheRun
<1>1. ASSUME IInv, KeysOnDevice, [Next]_vars, run > 0, run' = run,
             NEW j \in Copies, CopyIntact(disk, run, j)
      PROVE  CopyIntact(disk', run, j)
  <2>1. TypeOK /\ Progress /\ run \in Nat
    BY <1>1, EncryptorConstants DEF IInv, TypeOK
  <2>2. pc \notin {"regions", "chunks"}
    BY <1>1, <2>1, NoCopyWhileSealing
  <2>3. /\ BlockSectors \in 0 .. BlockSectors /\ SavedSectors \in 0 .. SavedSectors
        /\ NumHeaderSectors \in 0 .. NumHeaderSectors
    BY Placement
  <2>4. \A k \in Copies, m \in 0 .. BlockSectors :
           CopyIntact(Put(disk, MetadataWrite(k), m), run, j)
    <3> TAKE k \in Copies, m \in 0 .. BlockSectors
    <3>1. CASE k = j
      BY <1>1, <2>1, <3>1, RewrittenIsIntact
    <3>2. CASE k # j
      BY <1>1, <2>1, <3>2, CopiesKept DEF CopyIntact
    <3>3. QED
      BY <3>1, <3>2
  <2>5. \A m \in 0 .. SavedSectors : CopyIntact(Put(disk, BackupWrite, m), run, j)
    BY <1>1, <2>1, CopiesKept DEF CopyIntact
  <2>6. \A m \in 0 .. NumHeaderSectors : CopyIntact(Put(disk, HeaderWrite, m), run, j)
    BY <1>1, <2>1, CopiesKept DEF CopyIntact
  <2>7. pc = "metadata" => copy \in Copies
    BY <2>1 DEF Progress, StructuresWritten, TypeOK, Copies
  <2>8. CASE ReadVolume
    BY <1>1, <2>1, <2>8 DEF ReadVolume
  <2>9. CASE RefuseVolume \/ EnterRegion \/ RegionsDone \/ Sync \/ UNCHANGED vars
    <3>1. disk' = disk
      BY <2>9 DEF RefuseVolume, EnterRegion, RegionsDone, Sync, vars
    <3>2. QED
      BY <1>1, <3>1
  <2>10. CASE EncryptChunk
    BY <2>2, <2>10 DEF EncryptChunk
  <2>11. CASE WriteMetadata
    <3>1. pc = "metadata" /\ (disk' = disk \/ disk' = Put(disk, MetadataWrite(copy), BlockSectors))
      BY <2>11 DEF WriteMetadata
    <3>2. CASE disk' = disk
      BY <1>1, <3>2
    <3>3. CASE disk' = Put(disk, MetadataWrite(copy), BlockSectors)
      BY <2>3, <2>4, <2>7, <3>1, <3>3
    <3>4. QED
      BY <3>1, <3>2, <3>3
  <2>12. CASE WriteBackup
    BY <2>3, <2>5, <2>12 DEF WriteBackup
  <2>13. CASE WriteHeader
    BY <2>3, <2>6, <2>13 DEF WriteHeader
  <2>14. CASE Interrupt
    <3>1. PICK m \in 0 .. Pending.len : disk' = Put(disk, Pending, m)
      BY <2>14 DEF Interrupt
    <3>2. CASE pc = "metadata"
      <4>1. Pending = MetadataWrite(copy) /\ Pending.len = BlockSectors
        BY <3>2 DEF Pending, MetadataWrite, WriteAt
      <4>2. QED
        BY <2>4, <2>7, <3>1, <3>2, <4>1
    <3>3. CASE pc = "backup"
      <4>1. Pending = BackupWrite /\ Pending.len = SavedSectors
        BY <3>3 DEF Pending, BackupWrite, WriteAt
      <4>2. QED
        BY <2>5, <3>1, <4>1
    <3>4. CASE pc = "header"
      <4>1. Pending = HeaderWrite /\ Pending.len = NumHeaderSectors
        BY <3>4 DEF Pending, HeaderWrite, WriteAt
      <4>2. QED
        BY <2>6, <3>1, <4>1
    <3>5. CASE pc = "sync"
      <4>1. Pending = WriteAt(0, 0, <<>>)
        BY <3>5 DEF Pending
      <4>2. disk' = [i \in Sectors |-> disk[i]]
        BY <2>1, <3>1, <4>1 DEF Put, WriteAt, TypeOK, Sectors
      <4>3. disk' = disk
        BY <2>1, <4>2 DEF TypeOK
      <4>4. QED
        BY <1>1, <4>3
    <3>6. QED
      BY <2>2, <2>14, <3>2, <3>3, <3>4, <3>5 DEF Interrupt, Running
  <2>15. QED
    BY <1>1, <2>8, <2>9, <2>10, <2>11, <2>12, <2>13, <2>14 DEF Next, RunStep
<1> DEFINE Survive == \A j \in Copies : run > 0 /\ run' = run /\ CopyIntact(disk, run, j)
                        => CopyIntact(disk', run, j)
<1>2. IInv /\ KeysOnDevice /\ [Next]_vars => Survive
  BY <1>1
<1>3. IInv /\ KeysOnDevice /\ [Next]_vars => KeysOnDevice'
  BY NextKeys DEF IInv
<1>4. Spec => [][Survive]_vars
  BY <1>2, <1>3, InitKeys, Invariance, PTL DEF Spec
<1>5. QED
  BY <1>4 DEF CopiesSurviveTheRun

-----------------------------------------------------------------------------
(* The encryptor as a conversion. *)

(* Nothing on the device was ever deciphered, or is after a write of what  *)
(* was not.                                                                *)
LEMMA SealedOnlyContents ==
  /\ \A i \in Nat : Original(i) \in SealedOnly
  /\ Zero \in SealedOnly
  /\ BitLockerHeader \in SealedOnly
  /\ \A k \in Nat : FveBlock(k) \in [0 .. BlockSectors - 1 -> SealedOnly]
<1>1. \A i \in Nat : Original(i).layers = <<>>
  BY DEF Original, Plain
<1>2. Zero.layers = <<>> /\ BitLockerHeader.layers = <<>>
  BY DEF Zero, BitLockerHeader, Plain
<1>3. \A k \in Nat : \A i \in 0 .. BlockSectors - 1 : FveBlock(k)[i].layers = <<>>
  BY DEF FveBlock, Plain
<1>4. ASSUME NEW k \in Nat PROVE FveBlock(k) \in [0 .. BlockSectors - 1 -> SealedOnly]
  <2>1. FveBlock(k) \in [0 .. BlockSectors - 1 -> Content]
    BY ContentsAreContent
  <2>2. QED
    BY <1>3, <2>1 DEF SealedOnly
<1>5. QED
  BY <1>1, <1>2, <1>4, ContentsAreContent DEF SealedOnly

(* Sealing such a sector adds a layer: it is not in the clear afterwards.  *)
LEMMA SealingAddsLayer ==
  ASSUME NEW k \in Nat, NEW at \in Nat, NEW c \in SealedOnly
  PROVE  /\ EncryptSector(k, at, c) \in SealedOnly
         /\ EncryptSector(k, at, c).layers # <<>>
<1> DEFINE l == Tweaked("enc", k, at)
<1>1. c \in Content /\ c.layers \in Seq(Layer) /\ l \in Layer
      /\ l.op = "enc" /\ Undo(l).op = "dec"
  BY DEF SealedOnly, Content, Tweaked, Layer, Undo
<1> HIDE DEF l
<1>2. ~ (c.layers # <<>> /\ Head(c.layers) = Undo(l))
  BY <1>1 DEF SealedOnly
<1>3. Apply(l, c) = [c EXCEPT !.layers = <<l>> \o @]
  BY <1>2 DEF Apply
<1>4. Apply(l, c).layers = <<l>> \o c.layers
  BY <1>1, <1>3 DEF Content
<1>5. <<l>> \o c.layers # <<>> /\ Head(<<l>> \o c.layers) = l
  BY <1>1
<1>6. EncryptSector(k, at, c) = Apply(l, c)
  BY DEF EncryptSector, l
<1>7. EncryptSector(k, at, c) \in Content
  BY <1>1, CipherIsContent
<1>8. QED
  BY <1>1, <1>4, <1>5, <1>6, <1>7 DEF SealedOnly

(* A write of sectors of a set on a disk of sectors of that set. *)
LEMMA PutInSet ==
  ASSUME NEW S, NEW d \in [Sectors -> S],
         NEW start \in Nat, NEW n \in Nat, NEW data \in [0 .. n - 1 -> S],
         NEW m \in 0 .. n
  PROVE  Put(d, WriteAt(start, n, data), m) \in [Sectors -> S]
<1>1. \A i \in Sectors : start =< i /\ i < start + m => data[i - start] \in S
  BY Placement DEF Sectors
<1>2. QED
  BY <1>1 DEF Put, WriteAt

LEMMA WritesSealOnly ==
  ASSUME TypeOK, run > 0, disk \in [Sectors -> SealedOnly],
         saved \in [0 .. SavedSectors - 1 -> SealedOnly]
  PROVE  /\ \A j \in Copies, m \in 0 .. BlockSectors :
              Put(disk, MetadataWrite(j), m) \in [Sectors -> SealedOnly]
         /\ \A m \in 0 .. SavedSectors : Put(disk, BackupWrite, m) \in [Sectors -> SealedOnly]
         /\ \A m \in 0 .. NumHeaderSectors :
              Put(disk, HeaderWrite, m) \in [Sectors -> SealedOnly]
<1>1. /\ BlockSectors \in Nat /\ SavedSectors \in Nat /\ NumHeaderSectors \in Nat
      /\ BackupAt \in Nat /\ \A j \in Copies : MetaAt(j) \in Nat
      /\ run \in Nat /\ 0 \in Nat
  BY Placement, EncryptorConstants DEF TypeOK
<1>2. FveBlock(run) \in [0 .. BlockSectors - 1 -> SealedOnly]
  BY <1>1, SealedOnlyContents
<1>3. EncryptSectors(run, BackupAt, saved) \in [0 .. SavedSectors - 1 -> SealedOnly]
  <2>1. \A i \in 0 .. SavedSectors - 1 :
           EncryptSector(run, BackupAt + i, saved[i]) \in SealedOnly
    BY <1>1, SealingAddsLayer
  <2>2. QED
    BY <2>1 DEF EncryptSectors
<1> DEFINE head == [i \in HeaderSectors |-> IF i = 0 THEN BitLockerHeader ELSE Zero]
<1>4. head \in [0 .. NumHeaderSectors - 1 -> SealedOnly]
  BY SealedOnlyContents DEF HeaderSectors
<1> HIDE DEF head
<1>5. \A j \in Copies, m \in 0 .. BlockSectors :
         Put(disk, MetadataWrite(j), m) \in [Sectors -> SealedOnly]
  <2> TAKE j \in Copies, m \in 0 .. BlockSectors
  <2>1. MetadataWrite(j) = WriteAt(MetaAt(j), BlockSectors, FveBlock(run))
    BY DEF MetadataWrite
  <2>2. QED
    BY <1>1, <1>2, <2>1, PutInSet
<1>6. \A m \in 0 .. SavedSectors : Put(disk, BackupWrite, m) \in [Sectors -> SealedOnly]
  <2> TAKE m \in 0 .. SavedSectors
  <2>1. BackupWrite = WriteAt(BackupAt, SavedSectors, EncryptSectors(run, BackupAt, saved))
    BY DEF BackupWrite
  <2>2. QED
    BY <1>1, <1>3, <2>1, PutInSet
<1>7. \A m \in 0 .. NumHeaderSectors : Put(disk, HeaderWrite, m) \in [Sectors -> SealedOnly]
  <2> TAKE m \in 0 .. NumHeaderSectors
  <2>1. HeaderWrite = WriteAt(0, NumHeaderSectors, head)
    BY DEF HeaderWrite, head
  <2>2. QED
    BY <1>1, <1>4, <2>1, PutInSet
<1>8. QED
  BY <1>5, <1>6, <1>7

LEMMA ChunkSealsOnly ==
  ASSUME TypeOK, Progress, pc = "chunks", run > 0, disk \in [Sectors -> SealedOnly],
         NEW m \in 0 .. ChunkWrite.len
  PROVE  Put(disk, ChunkWrite, m) \in [Sectors -> SealedOnly]
<1>1. run \in Nat /\ \A i \in Sectors : i \in Nat
  BY EncryptorConstants, Placement DEF TypeOK, Sectors
<1>2. \A i \in Sectors : EncryptSector(run, i, disk[i]) \in SealedOnly
  BY <1>1, SealingAddsLayer
<1>3. \A i \in Sectors : Put(disk, ChunkWrite, m)[i] \in SealedOnly
  BY <1>2, ChunkPart
<1>4. Put(disk, ChunkWrite, m) = [i \in Sectors |-> Put(disk, ChunkWrite, m)[i]]
  BY DEF Put, TypeOK
<1>5. QED
  BY <1>3, <1>4

(* The data of the invariant of the conversion. *)
LEMMA NextSealsOnly ==
  ASSUME TypeOK, Progress, ConversionInv, [Next]_vars
  PROVE  /\ disk' \in [Sectors -> SealedOnly]
         /\ run' > 0 => saved' \in [0 .. SavedSectors - 1 -> SealedOnly]
<1>1. disk \in [Sectors -> SealedOnly]
      /\ (run > 0 => saved \in [0 .. SavedSectors - 1 -> SealedOnly])
  BY DEF ConversionInv
<1>2. disk' \in [Sectors -> SealedOnly]
  <2>1. CASE disk' = disk
    BY <1>1, <2>1
  <2>2. CASE disk' # disk
    <3>1. run > 0
      BY <2>2, StepWrites
    <3>2. \/ /\ pc = "chunks"
             /\ \E m \in 0 .. ChunkWrite.len : disk' = Put(disk, ChunkWrite, m)
          \/ /\ copy \in Copies
             /\ \E m \in 0 .. BlockSectors : disk' = Put(disk, MetadataWrite(copy), m)
          \/ \E m \in 0 .. SavedSectors : disk' = Put(disk, BackupWrite, m)
          \/ \E m \in 0 .. NumHeaderSectors : disk' = Put(disk, HeaderWrite, m)
      BY <2>2, StepWrites
    <3>3. QED
      BY <1>1, <3>1, <3>2, ChunkSealsOnly, WritesSealOnly
  <2>3. QED
    BY <2>1, <2>2
<1>3. run' > 0 => saved' \in [0 .. SavedSectors - 1 -> SealedOnly]
  <2>1. CASE ReadVolume
    <3>1. saved' = ReadAt(disk, 0, SavedSectors)
      BY <2>1 DEF ReadVolume
    <3>2. \A i \in 0 .. SavedSectors - 1 : 0 + i \in Sectors
      BY Placement DEF Sectors
    <3>3. QED
      BY <1>1, <3>1, <3>2 DEF ReadAt
  <2>2. CASE ~ ReadVolume
    <3>1. run' = run /\ saved' = saved
      BY <2>2 DEF Next, RunStep, RefuseVolume, EnterRegion, EncryptChunk, RegionsDone,
                  WriteMetadata, WriteBackup, WriteHeader, Sync, Interrupt, vars
    <3>2. QED
      BY <1>1, <3>1
  <2>3. QED
    BY <2>1, <2>2
<1>4. QED
  BY <1>2, <1>3

(* Only a file system is converted, where the boot sector of a converted   *)
(* one is not taken for it.                                                *)
OneConversion == FsType = "NTFS" \/ MaxRuns =< 1

LEMMA ReadsNoBitLocker ==
  ASSUME OneConversion, TypeOK, UntouchedYet, ReadVolume
  PROVE  ~ IsBitLocker(disk)
<1>1. CASE FsType = "NTFS"
  BY <1>1 DEF ReadVolume, Accepted, IsBitLocker
<1>2. CASE MaxRuns =< 1
  <2>1. run = 0
    BY <1>2, EncryptorConstants DEF ReadVolume, TypeOK
  <2>2. disk[0] = Original(0)
    BY <2>1, Placement DEF UntouchedYet, Sectors
  <2>3. QED
    BY <2>2, OriginalIsNoHeader DEF IsBitLocker
<1>3. QED
  BY <1>1, <1>2 DEF OneConversion

LEMMA InitConversion == Init => ConversionInv
<1> SUFFICES ASSUME Init PROVE ConversionInv
  OBVIOUS
<1>1. pc = "idle" /\ run = 0 /\ disk = [i \in Sectors |-> Original(i)]
  BY DEF Init
<1>2. \A i \in Sectors : Original(i) \in SealedOnly
  BY SealedOnlyContents, Placement DEF Sectors
<1>3. QED
  BY <1>1, <1>2 DEF ConversionInv, Running

LEMMA NextConversion ==
  ASSUME OneConversion, IInv, ConversionInv, [Next]_vars
  PROVE  ConversionInv'
<1>1. TypeOK /\ Progress /\ UntouchedYet
  BY DEF IInv, DataInv
<1>2. /\ disk' \in [Sectors -> SealedOnly]
      /\ run' > 0 => saved' \in [0 .. SavedSectors - 1 -> SealedOnly]
  BY <1>1, NextSealsOnly
<1>3. pc' = "idle" => run' = 0
  BY DEF Next, RunStep, ReadVolume, RefuseVolume, EnterRegion, EncryptChunk, RegionsDone,
         WriteMetadata, WriteBackup, WriteHeader, Sync, Interrupt, vars, ConversionInv
<1>4. pc' = "refused" => IsBitLocker(disk)'
  <2>1. CASE RefuseVolume
    BY <2>1 DEF RefuseVolume, Accepted, IsBitLocker
  <2>2. CASE UNCHANGED vars
    BY <2>2 DEF vars, IsBitLocker, ConversionInv
  <2>3. CASE Next /\ ~ RefuseVolume
    <3>1. pc' # "refused"
      BY <2>3 DEF Next, RunStep, ReadVolume, EnterRegion, EncryptChunk, RegionsDone,
                  WriteMetadata, WriteBackup, WriteHeader, Sync, Interrupt
    <3>2. QED
      BY <3>1
  <2>4. QED
    BY <2>1, <2>2, <2>3
<1>5. pc' \in Running \ {"sync"} => ~ IsBitLocker(disk)'
  <2>1. CASE ReadVolume
    BY <1>1, <2>1, ReadsNoBitLocker DEF ReadVolume, IsBitLocker
  <2>2. CASE ~ ReadVolume
    <3>1. pc' \in Running \ {"sync"} =>
             (pc \in Running \ {"sync"} /\ pc # "header") \/ UNCHANGED vars
      BY <2>2 DEF Next, RunStep, RefuseVolume, EnterRegion, EncryptChunk, RegionsDone,
                  WriteMetadata, WriteBackup, WriteHeader, Sync, Interrupt, vars, Running
    <3>2. pc \in Running \ {"sync"} /\ pc # "header" => ~ IsBitLocker(disk)'
      BY <1>1, SectorZeroKept DEF ConversionInv, IsBitLocker
    <3>3. UNCHANGED vars /\ pc' \in Running \ {"sync"} => ~ IsBitLocker(disk)'
      BY DEF vars, ConversionInv, IsBitLocker
    <3>4. QED
      BY <3>1, <3>2, <3>3
  <2>3. QED
    BY <2>1, <2>2
<1>6. QED
  BY <1>2, <1>3, <1>4, <1>5 DEF ConversionInv

(* Until the header is written, data ceases to be readable and does not    *)
(* become so; and only a chunk takes it away.                              *)
LEMMA PreservedKept ==
  ASSUME TypeOK, Progress, ConversionInv, [Next]_vars, pc # "header"
  PROVE  /\ InClear' => InClear
         /\ pc # "chunks" => (InClear => InClear')
<1>1. allocated' = allocated
  BY DEF Next, RunStep, ReadVolume, RefuseVolume, EnterRegion, EncryptChunk, RegionsDone,
         WriteMetadata, WriteBackup, WriteHeader, Sync, Interrupt, vars
<1>2. Preserved' = Preserved
  BY <1>1 DEF Preserved, Live
<1>3. Preserved \subseteq Sectors /\ Preserved \cap Overwritten = {}
      /\ \A i \in Sectors : i \in Nat
  <2>1. HeaderSectors \subseteq Sectors /\ \A i \in Sectors : i \in Nat
    BY Placement DEF HeaderSectors, Sectors
  <2>2. QED
    BY <2>1, LiveInVolume DEF Preserved
<1>4. CASE disk' = disk
  BY <1>2, <1>4 DEF InClear
<1>5. ASSUME disk' # disk, pc \in {"metadata", "backup"}
      PROVE  InClear' <=> InClear
  <2>1. run > 0
    BY <1>5, StepWrites
  <2>2. \A i \in Preserved :
          /\ \A j \in Copies, m \in 0 .. BlockSectors :
               Put(disk, MetadataWrite(j), m)[i] = disk[i]
          /\ \A m \in 0 .. SavedSectors : Put(disk, BackupWrite, m)[i] = disk[i]
    <3> TAKE i \in Preserved
    <3>1. CASE i \in HeaderSectors
      BY <2>1, <3>1, StructuresBesideData
    <3>2. CASE i \notin HeaderSectors
      <4>1. i \in Sectors \ (Overwritten \cup HeaderSectors)
        BY <1>3, <3>2
      <4>2. QED
        BY <2>1, <4>1, StructuresBesideData
    <3>3. QED
      BY <3>1, <3>2
  <2>3. \/ copy \in Copies /\ \E m \in 0 .. BlockSectors : disk' = Put(disk, MetadataWrite(copy), m)
        \/ \E m \in 0 .. SavedSectors : disk' = Put(disk, BackupWrite, m)
    BY <1>5, StepWrites
  <2>4. \A i \in Preserved : disk'[i] = disk[i]
    BY <2>2, <2>3
  <2>5. QED
    BY <1>2, <2>4 DEF InClear
<1>6. ASSUME disk' # disk, pc = "chunks", InClear'
      PROVE  InClear
  <2>1. PICK m \in 0 .. ChunkWrite.len : disk' = Put(disk, ChunkWrite, m)
    BY <1>6, StepWrites
  <2>2. ASSUME NEW i \in Preserved
        PROVE  disk[i] = Original(i)
    <3>1. disk'[i] = Original(i) /\ i \in Sectors /\ i \in Nat
      BY <1>2, <1>3, <1>6 DEF InClear
    <3>2. disk'[i] \in {disk[i], EncryptSector(run, i, disk[i])}
      BY <1>6, <2>1, <3>1, ChunkPart
    <3>3. Original(i).layers = <<>>
      BY DEF Original, Plain
    <3>4. EncryptSector(run, i, disk[i]).layers # <<>>
      <4>1. run \in Nat /\ disk[i] \in SealedOnly
        BY <3>1, EncryptorConstants DEF TypeOK, ConversionInv
      <4>2. QED
        BY <3>1, <4>1, SealingAddsLayer
    <3>5. QED
      BY <3>1, <3>2, <3>3, <3>4
  <2>3. QED
    BY <2>2 DEF InClear
<1>7. CASE disk' # disk
  <2>1. pc \in {"chunks", "metadata", "backup"}
    BY <1>7, StepWrites
  <2>2. QED
    BY <1>5, <1>6, <1>7, <2>1
<1>8. QED
  BY <1>4, <1>7

(* A write of the header that leaves no header has written nothing. *)
LEMMA HeaderNotBegun ==
  ASSUME TypeOK, Progress, [Next]_vars, pc = "header", ~ IsBitLocker(disk)'
  PROVE  disk' = disk
<1> SUFFICES ASSUME disk' # disk PROVE FALSE
  OBVIOUS
<1>1. PICK m \in 0 .. NumHeaderSectors : disk' = Put(disk, HeaderWrite, m)
  BY StepWrites
<1>2. disk \in [Sectors -> Content] /\ 0 \in Sectors /\ 0 \in HeaderSectors
  BY Placement DEF TypeOK, Sectors, HeaderSectors
<1> DEFINE head == [i \in HeaderSectors |-> IF i = 0 THEN BitLockerHeader ELSE Zero]
<1>3. head[0] = BitLockerHeader
  BY <1>2
<1>4. HeaderWrite = WriteAt(0, NumHeaderSectors, head)
  BY DEF HeaderWrite
<1> HIDE DEF head
<1>5. CASE m = 0
  <2>1. disk' = [i \in Sectors |-> disk[i]]
    BY <1>1, <1>2, <1>4, <1>5, Placement DEF Put, WriteAt, Sectors
  <2>2. QED
    BY <1>2, <2>1
<1>6. CASE m # 0
  <2>1. 0 =< 0 /\ 0 < 0 + m /\ 0 - 0 = 0 /\ NumHeaderSectors \in Nat /\ 0 \in Nat
    BY <1>6, Placement
  <2>2. disk'[0] = head[0]
    BY <1>1, <1>2, <1>4, <2>1 DEF Put, WriteAt
  <2>3. QED
    BY <1>3, <2>2 DEF IsBitLocker
<1>7. QED
  BY <1>5, <1>6

-----------------------------------------------------------------------------
(* Each step of the encryptor is a step of the conversion or none. *)

LEMMA ReadableIs ==
  /\ ReadableOf \in BOOLEAN
  /\ ~ IsBitLocker(disk) => ReadableOf = InClear
  /\ InClear \in BOOLEAN
BY DEF ReadableOf, InClear

LEMMA StatusIs ==
  /\ IsBitLocker(disk) => StatusOf = "locked"
  /\ ~ IsBitLocker(disk) /\ pc \in Running => StatusOf = "converting"
  /\ ~ IsBitLocker(disk) /\ pc = "failed" => StatusOf = "broken"
  /\ ~ IsBitLocker(disk) /\ pc = "idle" => StatusOf = "plain"
BY DEF StatusOf, Running

(* A locked volume stays as it is: it is not converted again. *)
LEMMA LockedStays ==
  ASSUME OneConversion, IInv, ConversionInv, [Next]_vars, IsBitLocker(disk)
  PROVE  UNCHANGED Promise!vars
<1>1. TypeOK /\ Progress /\ UntouchedYet
  BY DEF IInv, DataInv
<1>2. pc \notin {"regions", "chunks", "metadata", "backup", "header"}
  BY DEF ConversionInv, Running
<1>3. disk' = disk
  BY <1>1, <1>2, StepWrites
<1>4. ~ ReadVolume
  BY <1>1, ReadsNoBitLocker
<1>5. run' = run /\ allocated' = allocated
  BY <1>4 DEF Next, RunStep, RefuseVolume, EnterRegion, EncryptChunk, RegionsDone,
              WriteMetadata, WriteBackup, WriteHeader, Sync, Interrupt, vars
<1>6. StatusOf' = StatusOf
  BY <1>3 DEF StatusOf, IsBitLocker
<1>7. ReadableOf' = ReadableOf
  BY <1>3, <1>5 DEF ReadableOf, IsBitLocker, Unlocks, CopyIntact, Preserved, Live, View
<1>8. QED
  BY <1>5, <1>6, <1>7 DEF Promise!vars

(* The header comes down: the commit. *)
LEMMA HeaderCommits ==
  ASSUME IInv, [Next]_vars, ~ IsBitLocker(disk), IsBitLocker(disk)',
         TypeOK', LockedMeansRecoverable'
  PROVE  Promise!Commit
<1>1. TypeOK /\ Progress
  BY DEF IInv
<1>2. pc = "header"
  BY <1>1, SectorZeroKept DEF IsBitLocker
<1>3. disk' # disk
  BY DEF IsBitLocker
<1>4. run' = run /\ run > 0 /\ run \in Nat
  BY <1>1, <1>3, StepWrites, EncryptorConstants DEF TypeOK
<1>5. StatusOf = "converting"
  BY <1>2, StatusIs DEF Running
<1>6. StatusOf' = "locked"
  BY DEF StatusOf
<1>7. ReadableOf' \in BOOLEAN
  BY DEF ReadableOf
<1>8. ASSUME ~ (run > 1)
      PROVE  ReadableOf' = TRUE
  <2>1. run' = 1
    BY <1>4, <1>8
  <2>2. (Unlocks(disk, run) /\ \A i \in Preserved : View(disk, run, i) = Original(i))'
    BY <2>1 DEF LockedMeansRecoverable
  <2>3. QED
    BY <2>2 DEF ReadableOf
<1>9. ReadableOf' \in IF run > 1 THEN BOOLEAN ELSE {TRUE}
  BY <1>7, <1>8
<1>10. (run > 1)' = (run > 1)
  BY <1>4
<1>11. QED
  BY <1>5, <1>6, <1>9, <1>10 DEF Promise!Commit

(* A conversion begins on a plain volume, or again on a broken one. *)
LEMMA ReadingBegins ==
  ASSUME OneConversion, IInv, ConversionInv, ReadVolume
  PROVE  Promise!Begin \/ Promise!TryAgain
<1>1. TypeOK /\ Progress /\ UntouchedYet /\ run \in Nat
  BY EncryptorConstants DEF IInv, DataInv, TypeOK
<1>2. ~ IsBitLocker(disk) /\ ~ IsBitLocker(disk)' /\ disk' = disk /\ allocated' = allocated
  BY <1>1, ReadsNoBitLocker DEF ReadVolume, IsBitLocker
<1>3. StatusOf' = "converting"
  BY <1>2 DEF StatusOf, ReadVolume, Running
<1>4. ReadableOf' = ReadableOf
  BY <1>2 DEF ReadableOf, Preserved, Live
<1>5. pc \in {"idle", "failed"} /\ run' = run + 1
  BY <1>1, <1>2 DEF ReadVolume, Stopped, ConversionInv, Progress, StructuresWritten
<1>6. CASE pc = "idle"
  <2>1. ~ (run > 1) /\ ~ (run' > 1)
    BY <1>5, <1>6 DEF ConversionInv
  <2>2. StatusOf = "plain"
    BY <1>2, <1>6, StatusIs
  <2>3. QED
    BY <1>3, <1>4, <2>1, <2>2 DEF Promise!Begin
<1>7. CASE pc = "failed"
  <2>1. run' > 1
    BY <1>1, <1>5, <1>7 DEF Progress, StructuresWritten
  <2>2. StatusOf = "broken"
    BY <1>2, <1>7, StatusIs
  <2>3. QED
    BY <1>3, <1>4, <2>1, <2>2 DEF Promise!TryAgain
<1>8. QED
  BY <1>5, <1>6, <1>7

(* What a run does before its header: sealing, or nothing that shows. *)
LEMMA WorkUnseen ==
  ASSUME IInv, ConversionInv, RunStep, ~ IsBitLocker(disk), ~ IsBitLocker(disk)'
  PROVE  Promise!Seal \/ UNCHANGED Promise!vars
<1>1. TypeOK /\ Progress /\ [Next]_vars
  BY DEF IInv, Next
<1>2. pc \in Running \ {"header", "sync"} /\ pc' \in Running /\ run' = run
  <2>1. pc # "header"
    <3>1. pc = "header" => pc' = "sync" /\ disk' = Put(disk, HeaderWrite, NumHeaderSectors)
      BY DEF RunStep, EnterRegion, EncryptChunk, RegionsDone, WriteMetadata, WriteBackup,
             WriteHeader, Sync
    <3>2. pc = "header" => IsBitLocker(disk)'
      BY <1>1, <3>1, NextProgress DEF Progress, StructuresWritten
    <3>3. QED
      BY <3>2
  <2>2. pc # "sync"
    BY <1>1 DEF Progress, StructuresWritten
  <2>3. QED
    BY <2>1, <2>2 DEF RunStep, EnterRegion, EncryptChunk, RegionsDone, WriteMetadata,
             WriteBackup, WriteHeader, Sync, Running
<1>3. StatusOf = "converting" /\ StatusOf' = "converting"
  BY <1>2 DEF StatusOf, Running
<1>4. ReadableOf = InClear /\ ReadableOf' = InClear' /\ InClear \in BOOLEAN /\ InClear' \in BOOLEAN
  BY DEF ReadableOf, InClear
<1>5. InClear' => InClear
  BY <1>1, <1>2, PreservedKept
<1>6. CASE InClear' = InClear
  BY <1>2, <1>3, <1>4, <1>6 DEF Promise!vars
<1>7. CASE InClear' # InClear
  <2>1. InClear' = FALSE
    BY <1>4, <1>5, <1>7
  <2>2. QED
    BY <1>2, <1>3, <1>4, <2>1 DEF Promise!Seal
<1>8. QED
  BY <1>6, <1>7

(* A run that is cut off before its header breaks the volume, and does not *)
(* make readable what was not.                                             *)
LEMMA InterruptBreaks ==
  ASSUME IInv, ConversionInv, Interrupt, ~ IsBitLocker(disk), ~ IsBitLocker(disk)'
  PROVE  Promise!Break
<1>1. TypeOK /\ Progress /\ [Next]_vars
  BY DEF IInv, Next
<1>2. pc \in Running /\ pc' = "failed" /\ run' = run /\ allocated' = allocated
  BY DEF Interrupt
<1>3. StatusOf = "converting" /\ StatusOf' = "broken"
  BY <1>2 DEF StatusOf, Running
<1>4. ReadableOf = InClear /\ ReadableOf' = InClear' /\ InClear \in BOOLEAN /\ InClear' \in BOOLEAN
  BY DEF ReadableOf, InClear
<1>5. InClear' => InClear
  <2>1. CASE pc = "header"
    <3>1. disk' = disk
      BY <1>1, <2>1, HeaderNotBegun
    <3>2. QED
      BY <1>2, <3>1 DEF InClear, Preserved, Live
  <2>2. CASE pc # "header"
    BY <1>1, <2>2, PreservedKept
  <2>3. QED
    BY <2>1, <2>2
<1>6. InClear' \in {InClear, FALSE}
  BY <1>4, <1>5
<1>7. QED
  BY <1>2, <1>3, <1>4, <1>6 DEF Promise!Break

(* The encryptor keeps the promise of Conversion, step by step: on volumes *)
(* of 512-byte sectors, a volume is never locked and unreadable, and what  *)
(* a run does to it before its header is to seal it or to break off.  For  *)
(* an NTFS volume over any number of runs, for a FAT32 one over the first: *)
(* a second run does not see that it is converted already.                 *)
THEOREM PromiseKept ==
  ASSUME SectorSize = BaseSectorSize, OneConversion
  PROVE  Spec => Promise!Init /\ [][Promise!Next]_(Promise!vars)
<1>1. Init => Promise!Init
  <2> SUFFICES ASSUME Init PROVE Promise!Init
    OBVIOUS
  <2>1. pc = "idle" /\ run = 0 /\ disk = [i \in Sectors |-> Original(i)]
    BY DEF Init
  <2>2. ~ IsBitLocker(disk)
    BY <2>1, OriginalIsNoHeader, Placement DEF IsBitLocker, Sectors
  <2>3. StatusOf = "plain"
    BY <2>1, <2>2, StatusIs
  <2>4. InClear
    BY <2>1, LiveInVolume, Placement DEF InClear, Preserved, HeaderSectors, Sectors
  <2>5. ReadableOf = TRUE
    BY <2>2, <2>4 DEF ReadableOf, InClear
  <2>6. (run > 1) = FALSE
    BY <2>1
  <2>7. QED
    BY <2>3, <2>5, <2>6 DEF Promise!Init
<1>2. ASSUME IInv, ConversionInv, [Next]_vars, IInv', LockedMeansRecoverable'
      PROVE  [Promise!Next]_(Promise!vars)
  <2>1. CASE IsBitLocker(disk)
    BY <1>2, <2>1, LockedStays
  <2>2. CASE ~ IsBitLocker(disk) /\ IsBitLocker(disk)'
    <3>1. TypeOK'
      BY <1>2 DEF IInv
    <3>2. QED
      BY <1>2, <2>2, <3>1, HeaderCommits DEF Promise!Next
  <2>3. CASE ~ IsBitLocker(disk) /\ ~ IsBitLocker(disk)'
    <3>1. CASE ReadVolume
      BY <1>2, <3>1, ReadingBegins DEF Promise!Next
    <3>2. CASE RefuseVolume
      BY <2>3, <3>2 DEF RefuseVolume, Accepted, IsBitLocker
    <3>3. CASE RunStep
      BY <1>2, <2>3, <3>3, WorkUnseen DEF Promise!Next
    <3>4. CASE Interrupt
      BY <1>2, <2>3, <3>4, InterruptBreaks DEF Promise!Next
    <3>5. CASE UNCHANGED vars
      BY <3>5 DEF vars, Promise!vars, StatusOf, ReadableOf, IsBitLocker, Unlocks, CopyIntact,
                  Preserved, Live, View
    <3>6. QED
      BY <1>2, <3>1, <3>2, <3>3, <3>4, <3>5 DEF Next
  <2>4. QED
    BY <2>1, <2>2, <2>3
<1>3. Spec => []ConversionInv
  BY InitConversion, NextConversion, Invariance, PTL DEF Spec
<1>4. Spec => []LockedMeansRecoverable
  BY LockedVolumeRecoverable
<1>5. QED
  BY <1>1, <1>2, <1>3, <1>4, Invariance, PTL DEF Spec
=============================================================================
