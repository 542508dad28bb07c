-------------------------- MODULE InPlaceInvariant --------------------------
(***************************************************************************)
(* The inductive invariant of InPlaceEncryptor: what the safety properties *)
(* leave unsaid about the middle of a run.                                 *)
(***************************************************************************)
EXTENDS InPlaceEncryptor

(* The sectors of the regions the loop has not entered, and those it has   *)
(* still to seal in the region it is in.                                   *)
Rest == UNION {Places(r) : r \in regions}
Current == IF pc = "chunks" THEN offset .. extent - 1 ELSE {}

(* The regions to come are apart from each other and from the current one: *)
(* no sector will be sealed twice.                                         *)
RegionsApart ==
  pc \in {"regions", "chunks"} =>
    /\ \A r, q \in regions : \A i \in Places(r) : i \in Places(q) => r = q
    /\ Rest \cap Current = {}
    /\ Rest \cup Current \subseteq used
    /\ \A r \in regions : r.start < r.end

LoopInRegion ==
  pc = "chunks" => NumHeaderSectors =< offset /\ offset < extent

(* The structures this run has written so far are on the device. *)
BackupInPlace ==
  ReadAt(disk, BackupAt, SavedSectors) = EncryptSectors(run, BackupAt, saved)

StructuresWritten ==
  /\ pc \in {"regions", "chunks"} => copy = 1
  /\ pc = "metadata" => copy =< 3 /\ \A j \in Copies : j < copy => CopyIntact(disk, run, j)
  /\ pc \in {"backup", "header", "sync", "done"} =>
       \A j \in Copies : CopyIntact(disk, run, j)
  /\ pc \in {"header", "sync", "done"} => BackupInPlace
  /\ pc \in {"sync", "done"} => IsBitLocker(disk)
  /\ pc \in Running \cup {"failed", "done"} => run > 0

-----------------------------------------------------------------------------
(* The data, during the first run. *)
Sealed(i) == EncryptSector(1, i, Original(i))

(* All data sectors are sealed or left alone, as the regions have it. *)
DataSealed ==
  \A i \in Sectors \ (Overwritten \cup HeaderSectors) :
    disk[i] = IF i \in used THEN Sealed(i) ELSE Original(i)

UntouchedYet == run = 0 => disk = [i \in Sectors |-> Original(i)]

SealedSoFar ==
  run = 1 /\ pc \in {"regions", "chunks"} =>
    \A i \in Sectors :
      disk[i] = IF i \in used /\ i \notin HeaderSectors /\ i \notin Rest \cup Current
                THEN Sealed(i) ELSE Original(i)

AllSealed ==
  run = 1 /\ pc \in {"metadata", "backup", "header", "sync"} => DataSealed

HeaderStands ==
  run = 1 /\ pc \in {"metadata", "backup", "header"} =>
    \A i \in HeaderSectors : disk[i] = Original(i)

HeaderSaved ==
  run = 1 => saved = [i \in 0 .. SavedSectors - 1 |-> Original(i)]

(* The header in place, by a run that is over: all the rest is in place. *)
LockedIsComplete ==
  run = 1 /\ pc \in Stopped /\ IsBitLocker(disk) =>
    /\ \A j \in Copies : CopyIntact(disk, run, j)
    /\ BackupInPlace
    /\ DataSealed

LiveIsUsed == run = 1 => Live \subseteq used \cup HeaderSectors

-----------------------------------------------------------------------------
(* The data, during any run.  The sectors the run has passed are sealed by *)
(* it, once, over what the runs before it left; the others, and those not  *)
(* in use, are as those runs left them.                                    *)
Passed(i) ==
  /\ i \in used
  /\ pc \in {"regions", "chunks"} => i \notin Rest \cup Current

SealedByThisRun ==
  pc \in Running \cup {"done"} =>
    \A i \in Sectors \ (Overwritten \cup HeaderSectors) :
      SealedByRuns(IF Passed(i) THEN View(disk, run, i) ELSE disk[i], i, run - 1)

(* A run that was cut off has sealed some of them and not the others. *)
SealedByRunsOnly ==
  \A i \in Sectors \ (Overwritten \cup HeaderSectors) : SealedByRuns(disk[i], i, run)

LayersInv == SealedByThisRun /\ SealedByRunsOnly

-----------------------------------------------------------------------------
Progress == RegionsApart /\ LoopInRegion /\ StructuresWritten

DataInv == /\ UntouchedYet /\ SealedSoFar /\ AllSealed /\ HeaderStands
           /\ HeaderSaved /\ LockedIsComplete /\ LiveIsUsed /\ SealedOnceInPlace

(* TypeOK, the position of the run and the state of the data together, in  *)
(* the first run and in every one: no step of the code, torn or whole,     *)
(* leads out of it.                                                        *)
IInv == TypeOK /\ Progress /\ DataInv /\ LayersInv

-----------------------------------------------------------------------------
(* The key a run has made is on the device only as the run has put it      *)
(* there: what it finds are keys of the runs before.  So no sector can be  *)
(* taken for a part of a metadata block that is still to be written.       *)
KeysOnDevice ==
  /\ \A i \in Sectors : disk[i].base.key =< run
  /\ pc \in {"regions", "chunks"} => \A i \in Sectors : disk[i].base.key < run
  /\ run > 0 => \A i \in 0 .. SavedSectors - 1 : saved[i].base.key =< run

-----------------------------------------------------------------------------
(* What the abstract conversion needs of the encryptor.  Nothing on the    *)
(* device was ever deciphered, so that sealing adds a layer and never      *)
(* takes one away.                                                         *)
SealedOnly == {c \in Content : c.layers # <<>> => Head(c.layers).op = "enc"}

(* What the owner reads before there is a key. *)
InClear == \A i \in Preserved : disk[i] = Original(i)

(* A conversion begins on a file system, and its header is the last thing  *)
(* that it puts down.                                                      *)
ConversionInv ==
  /\ pc = "idle" => run = 0
  /\ pc = "refused" => IsBitLocker(disk)
  /\ pc \in Running \ {"sync"} => ~IsBitLocker(disk)
  /\ disk \in [Sectors -> SealedOnly]
  /\ run > 0 => saved \in [0 .. SavedSectors - 1 -> SealedOnly]
=============================================================================
