--------------------------- MODULE ImageRoundTrip ---------------------------
(***************************************************************************)
(* The encrypt command and the decrypt command, one after the other: the   *)
(* image that encrypt_volume has written, or the part of it a run left     *)
(* that was cut off, is what decrypt_volume is given.                      *)
(***************************************************************************)
EXTENDS ImageEncryptor

VARIABLES
  job,        \* the decryption; the variables of Decryptor
  image,      \* its source
  plain,      \* its output
  phase, partition, tried, position, lost, info

decVars == <<job, image, plain, phase, partition, tried, position, lost, info>>
vars == <<request, source, out, pc, regions, saved, offset, copy,
          job, image, plain, phase, partition, tried, position, lost, info>>

D == INSTANCE Decryptor WITH
       Jobs <- {}, source <- image, out <- plain, pc <- phase, copy <- tried,
       offset <- position

NoJob == [command |-> "none"]

Init ==
  /\ EncInit
  /\ job = NoJob
  /\ image = <<>> /\ plain = <<>> /\ phase = "idle"
  /\ partition = 0 /\ tried = 1 /\ position = 0 /\ lost = {}
  /\ info = [f \in D!Fields |-> 0]

(* What read_metadata can make of the j-th block of a file: the entries    *)
(* lie in its first sectors, so that a block that is not complete may do,  *)
(* or may lack what is looked for or hold it damaged.                      *)
BlockHealth(file, j) ==
  CASE \A i \in 0 .. BlockSectors - 1 :
         MetaAt(j) + i \in DOMAIN file /\ file[MetaAt(j) + i] = FveBlock(Key)[i] -> {"good"}
    [] ~(MetaAt(j) \in DOMAIN file /\ file[MetaAt(j)] = FveBlock(Key)[0]) -> {"unreadable"}
    [] OTHER -> {"good", "unreadable", "no_vmk", "no_fvek", "bad_key"}

Unused == [used |-> FALSE, start |-> 0]

JobFor(file, h) ==
  [command |-> "decrypt", source |-> file, volume |-> 0,
   faces |-> [i \in {0} \cap DOMAIN file |->
                [signature |-> "fve", mark |-> TRUE, fat32 |-> FALSE]],
   table |-> <<Unused, Unused, Unused, Unused>>, footer |-> FALSE,
   ragged |-> request.ragged, encrypted |-> VolumeSectors, backup |-> TRUE,
   copies |-> h, protectors |-> {"password", "recovery"}, password |-> "right",
   recovery |-> "none", aliased |-> FALSE]

(* The user decrypts the file. *)
StartDecryption ==
  /\ phase = "idle"
  /\ pc \in {"done", "cut"}
  /\ \E h \in [Copies -> D!Health] :
       /\ \A j \in Copies : h[j] \in BlockHealth(out, j)
       /\ job' = JobFor(out, h)
  /\ image' = out
  /\ plain' = D!Previous
  /\ phase' = "start"
  /\ UNCHANGED <<request, source, out, pc, regions, saved, offset, copy,
                 partition, tried, position, lost, info>>

Encrypt == EncryptStep /\ UNCHANGED decVars
CutOff == Interrupt /\ UNCHANGED decVars
Decrypt == phase # "idle" /\ D!DecryptStep /\ UNCHANGED encVars

Next == Encrypt \/ CutOff \/ StartDecryption \/ Decrypt

Spec == Init /\ [][Next]_vars

(* Both are straight runs of one process; nobody has to start the second.  *)
FairSpec == Spec /\ WF_vars(Encrypt) /\ WF_vars(Decrypt)
-----------------------------------------------------------------------------
(* The sectors that hold something: all of the volume, or the regions in   *)
(* use and the header.                                                     *)
Live ==
  IF Selective
  THEN HeaderSectors \cup Covered(Bpb, VolumeSectors, request.allocated)
  ELSE Sectors

(* What no structure was written over, nor sealed and then cut short. *)
Kept == {i \in Live \ Overwritten : ~(request.ragged /\ i = VolumeSectors - 1)}

TypeOK ==
  /\ EncTypeOK
  /\ phase \in {"idle", "start", "unlock"} \cup D!Reading \cup D!Ended
  /\ \A i \in DOMAIN plain : plain[i] \in Content
  /\ tried \in 1 .. 4 /\ position \in 0 .. VolumeSectors

(* Encrypting an image and decrypting the result gives back every sector   *)
(* that was in use, in either mode, for either file system, whatever the   *)
(* clusters in use are and where the chunks fall.  (When the output path   *)
(* names the source there is nothing left to encrypt.)                     *)
RoundTrip ==
  pc = "done" /\ phase \in D!Ended /\ ~request.aliased =>
    /\ phase = "done"
    /\ \A i \in Kept : i \in DOMAIN plain /\ plain[i] = Original(i)

(* A run that was cut off leaves a file that says it is a BitLocker        *)
(* volume.  If that file opens, all its data are there: the blocks with    *)
(* the keys come after the sectors.  Only the header may be missing, whose *)
(* backup is written after the blocks.                                     *)
CutImageKeepsData ==
  pc = "cut" /\ phase = "done" /\ ~request.aliased =>
    \A i \in Kept \ HeaderSectors : i \in DOMAIN plain /\ plain[i] = Original(i)
=============================================================================
