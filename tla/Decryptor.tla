----------------------------- MODULE Decryptor -----------------------------
(***************************************************************************)
(* decrypt_volume: a BitLocker volume in a file or on a device is looked   *)
(* for and read through a password or a recovery key into an output image; *)
(* get_volume_info: it is looked for and described.  The volume lies       *)
(* somewhere in its source (a partition, a container), any of the three    *)
(* metadata blocks may be damaged, and a read may fail.                    *)
(***************************************************************************)
EXTENDS BitLockerVolume, PartitionScan, FiniteSets

CONSTANTS
  Key,            \* the volume key the metadata holds
  ChunkSectors,   \* chunk_size in sectors: 256
  Jobs            \* the calls a user may make

(* What a metadata block turns out to be: "absent" has offset zero in the  *)
(* header, "unreadable" makes read_metadata raise, the next two parse      *)
(* without the entry that is then looked for, "bad_key" parses with them,  *)
(* but a wrapped key in it is damaged, the last two state an encryption    *)
(* method or a protection type that constants.py does not list.            *)
Health == {"good", "absent", "unreadable", "no_vmk", "no_fvek", "bad_key",
           "odd_method", "odd_protector"}

Credential == {"none", "right", "wrong"}

(* volume: where the volume starts in the source.  faces, table: what the  *)
(* partition scan sees.  footer: a VHD footer ends the source.  ragged:    *)
(* its last sector is a partial one.  encrypted: encrypted_volume_size.    *)
(* backup: the metadata block has a volume_header_offset.  aliased:        *)
(* output_path names the source.                                           *)
IsJob(j) ==
  /\ DOMAIN j = {"command", "source", "volume", "faces", "table", "footer", "ragged",
                 "encrypted", "backup", "copies", "protectors", "password",
                 "recovery", "aliased"}
  /\ j.command \in {"decrypt", "info"}
  /\ IsFiniteSet(DOMAIN j.source)
  /\ DOMAIN j.source = 0 .. Cardinality(DOMAIN j.source) - 1
  /\ \A i \in DOMAIN j.source : j.source[i] \in Content
  /\ j.volume \in Nat /\ j.encrypted \in Nat
  /\ IsImage([sectors |-> Cardinality(DOMAIN j.source), faces |-> j.faces,
              table |-> j.table])
  /\ {j.footer, j.ragged, j.backup, j.aliased} \subseteq BOOLEAN
  /\ j.copies \in [Copies -> Health]
  /\ j.protectors \subseteq {"password", "recovery"}
  /\ j.password \in Credential /\ j.recovery \in Credential

ASSUME DecryptorConstants == Key \in Nat /\ ChunkSectors \in Nat \ {0}

EncryptedPart(j) ==
  IF j.encrypted = 0
  THEN Cardinality(DOMAIN j.source) - (IF j.footer THEN 1 ELSE 0) - j.volume
  ELSE j.encrypted

IsPartial(j, i) == j.ragged /\ j.volume + i = Cardinality(DOMAIN j.source) - 1

(* The source is not cut off inside the header or the backup of it. *)
HoldsBackup(j) ==
  /\ NumHeaderSectors =< EncryptedPart(j)
  /\ \A i \in HeaderSectors : j.volume + (BackupAt + i) \in DOMAIN j.source

(* A source whose metadata names the backup of a header carries a volume:  *)
(* the sectors of the header are in the backup, sealed where they are      *)
(* stored, and those that no structure takes are in their places, sealed   *)
(* if they belong to the encrypted part and are not a partial one.         *)
CarriesVolume(j) ==
  /\ HoldsBackup(j)
  /\ \A i \in HeaderSectors :
       j.source[j.volume + (BackupAt + i)] = EncryptSector(Key, BackupAt + i, Original(i))
  /\ \A i \in Sectors \ (Overwritten \cup HeaderSectors) :
       j.volume + i \in DOMAIN j.source =>
         j.source[j.volume + i] =
           IF i < EncryptedPart(j) /\ ~IsPartial(j, i)
           THEN EncryptSector(Key, i, Original(i))
           ELSE Original(i)

ASSUME JobsAssumption == \A j \in Jobs : IsJob(j) /\ (j.backup => CarriesVolume(j))

VARIABLES
  job,      \* what was asked for; fixed
  source,   \* the sectors of the source
  out,      \* the file at output_path
  pc,       \* what the run does next
  partition, \* partition_offset
  copy,     \* the metadata block it tries, then the one it uses
  offset,   \* current_offset; in the tail, the file position
  lost,     \* the metadata blocks whose read failed
  info      \* for each field of the description, the block it is from

vars == <<job, source, out, pc, partition, copy, offset, lost, info>>

(* What a file already at output_path holds. *)
Previous == [i \in {0} |-> Zero]

Reading == {"detect", "metadata", "header", "body", "tail"}
Opened == {"header", "body", "tail", "done", "cut"}
Ended == {"done", "cut", "shown", "no_credential", "no_header", "no_metadata",
          "no_entry", "no_protector", "wrong_key", "unread"}

(* The fields that get_volume_info takes from a metadata block; 0: none.   *)
Fields == {"method", "size", "volume_id", "protections"}

Init ==
  /\ job \in Jobs
  /\ source = job.source
  /\ out = Previous
  /\ pc = "start"
  /\ partition = 0
  /\ copy = 1
  /\ offset = 0
  /\ lost = {}
  /\ info = [f \in Fields |-> 0]

-----------------------------------------------------------------------------
Size(file) == Cardinality(DOMAIN file)

(* fp.seek(partition_offset + at); fp.read(n): short at the end of file. *)
Read(at, n) ==
  LET from == partition + at
      left == IF Size(source) > from THEN Size(source) - from ELSE 0
  IN  [i \in 0 .. (IF n < left THEN n ELSE left) - 1 |-> source[from + i]]

Joined(f, g) ==
  [i \in 0 .. Size(f) + Size(g) - 1 |-> IF i < Size(f) THEN f[i] ELSE g[i - Size(f)]]

(* get_volume_size less the partition offset, taken before the output is   *)
(* opened; a VHD footer at the end of the file is not counted.             *)
TotalSize == Size(job.source) - (IF job.footer THEN 1 ELSE 0) - partition

EncryptedSize == IF job.encrypted = 0 THEN TotalSize ELSE job.encrypted

(* A password is preferred over a recovery key when both are given. *)
Chosen == IF job.password # "none" THEN "password" ELSE "recovery"
Given == IF job.password # "none" THEN job.password ELSE job.recovery

-----------------------------------------------------------------------------
CheckCredentials ==
  /\ pc = "start"
  /\ pc' = IF job.command = "decrypt" /\ Given = "none" THEN "no_credential" ELSE "detect"
  /\ UNCHANGED <<job, source, out, partition, copy, offset, lost, info>>

(* What the partition scan looks at; a partial last sector is too short. *)
Image ==
  [sectors |-> Size(source) - (IF job.ragged THEN 1 ELSE 0),
   faces |-> job.faces, table |-> job.table]

FindVolume ==
  /\ pc = "detect"
  /\ partition' = DetectOffset(Image)
  /\ pc' = IF HeaderReads(Image, partition') THEN "metadata" ELSE "no_header"
  /\ UNCHANGED <<job, source, out, copy, offset, lost, info>>

(* The metadata block a header leads to.  Where a plain FAT volume has its *)
(* boot code, three offsets are read all the same, and lead to no block.   *)
HealthOf(j) == IF partition = job.volume THEN job.copies[j] ELSE "unreadable"

(* The loop over metadata_offsets: the first block that parses is used to  *)
(* decrypt.                                                                *)
Parses(h) == h \notin {"absent", "unreadable"}

(* Seeded fault: an absent or unreadable block ends the loop.              *)
BreakAtBadCopy ==
  /\ pc = "metadata"
  /\ copy \in Copies
  /\ ~Parses(HealthOf(copy))
  /\ pc' = "no_metadata"
  /\ UNCHANGED <<job, source, out, partition, copy, offset, lost, info>>

SkipCopy ==
  /\ pc = "metadata"
  /\ copy \in Copies
  /\ ~Parses(HealthOf(copy))
  /\ copy' = copy + 1
  /\ UNCHANGED <<job, source, out, partition, pc, offset, lost, info>>

NoCopyLeft ==
  /\ pc = "metadata"
  /\ copy \notin Copies
  /\ pc' = IF job.command = "decrypt" THEN "no_metadata" ELSE "shown"
  /\ UNCHANGED <<job, source, out, partition, copy, offset, lost, info>>

TakeCopy ==
  /\ pc = "metadata"
  /\ job.command = "decrypt"
  /\ copy \in Copies
  /\ Parses(HealthOf(copy))
  /\ pc' = "unlock"
  /\ UNCHANGED <<job, source, out, partition, copy, offset, lost, info>>

(* Seeded fault: the method is looked up after the other fields are set.   *)
SetBeforeMethod(h) == IF h = "odd_method" THEN {"size", "volume_id"} ELSE Fields

(* get_volume_info: the fields set before a lookup in an enumeration       *)
(* raises, the method's before any of them, a protection type's before the *)
(* last.                                                                   *)
SetFrom(h) ==
  CASE h = "odd_method"                     -> {}
    [] h = "odd_protector"                  -> Fields \ {"protections"}
    [] h \notin {"odd_method", "odd_protector"} -> Fields

(* A block whose fields were all set ends the loop; after an exception the *)
(* next block is tried, and writes over what this one has set.             *)
DescribeCopy ==
  /\ pc = "metadata"
  /\ job.command = "info"
  /\ copy \in Copies
  /\ Parses(HealthOf(copy))
  /\ LET set == SetFrom(HealthOf(copy))
     IN  /\ info' = [f \in Fields |-> IF f \in set THEN copy ELSE info[f]]
         /\ IF set = Fields
            THEN pc' = "shown" /\ UNCHANGED copy
            ELSE copy' = copy + 1 /\ UNCHANGED pc
  /\ UNCHANGED <<job, source, out, partition, offset, lost>>

(* The entries are looked up, the VMK of the chosen protector is unwrapped *)
(* with the stretched key, the FVEK with the VMK; only then is the output  *)
(* opened, and an existing file at its path emptied.  A wrapped key is     *)
(* authenticated: a damaged one does not open under the right key either.  *)
UnlockOutcome ==
  CASE HealthOf(copy) \in {"no_vmk", "no_fvek"} -> "no_entry"
    [] HealthOf(copy) \notin {"no_vmk", "no_fvek"} /\ Chosen \notin job.protectors ->
         "no_protector"
    [] HealthOf(copy) \notin {"no_vmk", "no_fvek"} /\ Chosen \in job.protectors ->
         IF Given = "wrong" \/ HealthOf(copy) = "bad_key" THEN "wrong_key" ELSE "header"

(* Seeded fault: the output is opened before the keys are unwrapped.       *)
OpensBeforeUnwrap(outcome) == outcome \in {"wrong_key", "header"}

OpensOutput(outcome) == outcome = "header"

Unlock ==
  /\ pc = "unlock"
  /\ pc' = UnlockOutcome
  /\ out' = IF OpensOutput(pc') THEN <<>> ELSE out
  /\ source' = IF OpensOutput(pc') /\ job.aliased THEN <<>> ELSE source
  /\ UNCHANGED <<job, partition, copy, offset, lost, info>>

(* What remains of a chunk that ends inside a sector is not handed to      *)
(* decrypt_sectors.                                                        *)
PartialAt(at) == job.ragged /\ partition + at = Size(source) - 1

Whole(at, chunk) == {i \in DOMAIN chunk : ~PartialAt(at + i)}

(* decrypt_sectors knows the method, or is handed no sector. *)
Deciphers(sectors) == sectors = {} \/ HealthOf(copy) # "odd_method"

RestoreHeader ==
  /\ pc = "header"
  /\ job.backup => Deciphers(DOMAIN Read(BackupAt, NumHeaderSectors))
  /\ out' = IF job.backup
            THEN DecryptSectors(Key, BackupAt, Read(BackupAt, NumHeaderSectors))
            ELSE [i \in HeaderSectors |-> Zero]
  /\ offset' = NumHeaderSectors
  /\ pc' = "body"
  /\ UNCHANGED <<job, source, partition, copy, lost, info>>

(* Seeded fault: the last chunk is not cut at the encrypted size.          *)
FullChunk(o) == ChunkSectors

ChunkLength(o) == IF ChunkSectors < EncryptedSize - o THEN ChunkSectors ELSE EncryptedSize - o

(* Seeded fault: the tweak counts from the start of the source.            *)
DecodedBySource(at, chunk) == DecryptSectors(Key, partition + at, chunk)

(* Whole sectors are decrypted, each under its place on the volume; the    *)
(* rest goes out as it is.                                                 *)
Decoded(at, chunk) ==
  [i \in DOMAIN chunk |->
     IF i \in Whole(at, chunk) THEN DecryptSectors(Key, at, chunk)[i] ELSE chunk[i]]

(* Seeded fault: a short read counts as a whole chunk.                     *)
AdvancedByChunk(o, chunk) == o + ChunkSectors

Advanced(o, chunk) == o + Size(chunk)

DecryptChunk ==
  /\ pc = "body"
  /\ offset < EncryptedSize
  /\ LET chunk == Read(offset, ChunkLength(offset))
     IN  /\ chunk # <<>>
         /\ Deciphers(Whole(offset, chunk))
         /\ out' = Joined(out, Decoded(offset, chunk))
         /\ offset' = Advanced(offset, chunk)
  /\ UNCHANGED <<job, source, pc, partition, copy, lost, info>>

(* Seeded fault: an empty read does not end the loop.                      *)
AtEncryptedSize == offset >= EncryptedSize

(* The end of the encrypted part, or of a source that holds less of it. *)
AtEnd == offset >= EncryptedSize \/ Read(offset, ChunkLength(offset)) = <<>>

BodyDone ==
  /\ pc = "body"
  /\ AtEnd
  /\ IF TotalSize > EncryptedSize
     THEN pc' = "tail" /\ offset' = EncryptedSize
     ELSE pc' = "done" /\ offset' = offset
  /\ UNCHANGED <<job, source, out, partition, copy, lost, info>>

CopyTail ==
  /\ pc = "tail"
  /\ LET chunk == Read(offset, ChunkSectors)
     IN  IF chunk = <<>>
         THEN pc' = "done" /\ UNCHANGED <<out, offset>>
         ELSE /\ out' = Joined(out, chunk)
              /\ offset' = Advanced(offset, chunk)
              /\ UNCHANGED pc
  /\ UNCHANGED <<job, source, partition, copy, lost, info>>

(* A method decrypt_sectors does not know ends the run at the first sector *)
(* that is to be decrypted: after the output has been opened.              *)
UnknownMethod ==
  /\ \/ /\ pc = "header" /\ job.backup
        /\ ~Deciphers(DOMAIN Read(BackupAt, NumHeaderSectors))
     \/ /\ pc = "body" /\ offset < EncryptedSize
        /\ ~Deciphers(Whole(offset, Read(offset, ChunkLength(offset))))
  /\ pc' = "cut"
  /\ UNCHANGED <<job, source, out, partition, copy, offset, lost, info>>

(* A read raises: while a metadata block is read the loop goes on to the   *)
(* next one, afterwards the run ends with what it has written.             *)
ReadFails ==
  /\ pc \in Reading
  /\ IF pc = "metadata"
     THEN copy \in Copies /\ copy' = copy + 1 /\ lost' = lost \cup {copy} /\ UNCHANGED pc
     ELSE pc' = (IF pc = "detect" THEN "unread" ELSE "cut") /\ UNCHANGED <<copy, lost>>
  /\ UNCHANGED <<job, source, out, partition, offset, info>>

DecryptStep == \/ CheckCredentials \/ FindVolume \/ SkipCopy \/ NoCopyLeft
               \/ TakeCopy \/ DescribeCopy \/ Unlock \/ RestoreHeader
               \/ DecryptChunk \/ UnknownMethod \/ BodyDone \/ CopyTail

Next == DecryptStep \/ ReadFails

Spec == Init /\ [][Next]_vars
FairSpec == Spec /\ WF_vars(DecryptStep)
-----------------------------------------------------------------------------
(* The block the loop arrives at: the first whose read does not fail and   *)
(* which parses.  The decryption can succeed when that block is whole and  *)
(* the credential that counts is right.                                    *)
Skipped(j) == job.copies[j] \in {"absent", "unreadable"} \/ j \in lost

Unlockable ==
  /\ Given = "right"
  /\ Chosen \in job.protectors
  /\ \E j \in Copies : /\ job.copies[j] = "good"
                       /\ j \notin lost
                       /\ \A i \in Copies : i < j => Skipped(i)

(* The part of the source that is the volume, by its own offsets. *)
Volume == [i \in 0 .. Size(job.source) - job.volume - 1 |-> job.source[job.volume + i]]

(* The volume has a header, at the start of the file or of a partition.    *)
Reachable ==
  /\ HeaderReads(Image, job.volume)
  /\ \/ job.volume = 0
     \/ /\ FaceAt(Image, 0).mark
        /\ \E n \in 1 .. 4 : job.table[n] = [used |-> TRUE, start |-> job.volume]

(* Nothing else carries one of the two signatures. *)
OnlySigned == \A i \in DOMAIN job.faces : job.faces[i].signature # "other" => i = job.volume

Looked == pc \notin {"start", "detect", "no_credential", "unread"}

TypeOK ==
  /\ IsJob(job)
  /\ source \in {job.source, <<>>}
  /\ DOMAIN out = 0 .. Size(out) - 1
  /\ \A i \in DOMAIN out : out[i] \in Content
  /\ pc \in {"start", "unlock"} \cup Reading \cup Ended
  /\ partition \in {0, job.volume} \cup {job.table[n].start : n \in 1 .. 4}
  /\ copy \in 1 .. 4
  /\ offset \in {0, NumHeaderSectors} \cup 0 .. Size(job.source) - job.volume
  /\ lost \subseteq Copies
  /\ info \in [Fields -> {0} \cup Copies]

(* The volume is found behind unused entries, entries of other systems and *)
(* entries that point past the end of the file, as long as no other sector *)
(* looked at is signed.  (A FAT volume that has MSWIN4.1 for its OEM name  *)
(* hides one in a later entry: partition.py:32 and 66.)                    *)
FindsTheVolume ==
  Looked /\ source = job.source /\ Reachable /\ OnlySigned =>
    partition = job.volume /\ pc # "no_header"

(* A decryption that fails before it has both keys has not touched a file  *)
(* that was already at output_path: a mistyped password, a damaged block   *)
(* or a missing protector costs nothing.                                   *)
FailureKeepsOutput ==
  pc \in Ended \ {"done", "cut"} => out = Previous /\ source = job.source

(* Two of the three metadata blocks may be lost or damaged: an error is    *)
(* raised only when the block that the loop arrives at does not serve, or  *)
(* the credential does not.  (A block that parses but lacks an entry, or   *)
(* has a damaged key, stops the loop: the blocks after it are not tried.)  *)
OneCopyIsEnough ==
  /\ pc \in {"no_credential", "no_entry", "no_protector", "wrong_key"} => ~Unlockable
  /\ pc = "no_metadata" /\ partition = job.volume => ~Unlockable

(* What the info command shows of a volume is from one metadata block,     *)
(* although an exception may leave fields of one block to the next: no     *)
(* volume is described by the method of one and the size of another.  And  *)
(* one block that can be read and described whole is enough.               *)
InfoFromOneBlock ==
  pc = "shown" =>
    /\ info["size"] = info["method"] /\ info["volume_id"] = info["method"]
    /\ info["protections"] \in {0, info["method"]}
    /\ info["method"] = 0 \/ info["method"] \notin lost
    /\ (\E j \in Copies \ lost : HealthOf(j) \in {"good", "no_vmk", "no_fvek", "bad_key"}) =>
         info["protections"] # 0

(* At every moment what has been written is a right beginning of the       *)
(* original volume: the header from its backup under the tweak of the      *)
(* place it was stored at, each sector under its offset from the start of  *)
(* the volume and not of the source, what lies past the encrypted size and *)
(* a last partial sector as they are.                                      *)
OutputIsOriginal ==
  pc \in Opened /\ job.backup =>
    \A i \in DOMAIN out \cap Sectors : i \notin Overwritten => out[i] = Original(i)

(* A decryption that reports success has written every sector of the       *)
(* volume, and of the encrypted part what View defines: View is what the   *)
(* encryptor's properties take a reader of the volume to see.  (When the   *)
(* output path names the source, nothing is left to read; the run ends     *)
(* with an empty file.)                                                    *)
DoneMeansView ==
  pc = "done" /\ job.backup /\ ~job.aliased =>
    /\ 0 .. TotalSize - 1 \subseteq DOMAIN out
    /\ \A i \in (0 .. EncryptedSize - 1) \cap (0 .. TotalSize - 1) :
         ~(job.ragged /\ i = TotalSize - 1) => out[i] = View(Volume, Key, i)

(* Every decryption ends, with the image or with an error, and every       *)
(* description with what could be read.                                    *)
DecryptionEnds == <>(pc \in Ended)
=============================================================================
