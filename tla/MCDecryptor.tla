---------------------------- MODULE MCDecryptor ----------------------------
(* The volume of MCInPlace, 20 sectors, encrypted in full or up to sector  *)
(* 13, at the start of its source or in one of the partitions of a table,  *)
(* with what else a container holds.                                       *)
EXTENDS Decryptor, Integers

K == 1

(* What the encrypted volume holds at place i. *)
Stored(i, encrypted) ==
  CASE i = 0                             -> BitLockerHeader
    [] i \in HeaderSectors \ {0}         -> Zero
    [] i \in MetadataPlaces              -> Zero
    [] i \in BackupPlaces                -> EncryptSector(K, i, Original(i - BackupAt))
    [] i \notin Overwritten \cup HeaderSectors ->
         IF encrypted = 0 \/ i < encrypted
         THEN EncryptSector(K, i, Original(i)) ELSE Original(i)

Fve == [signature |-> "fve", mark |-> TRUE, fat32 |-> FALSE]
FatBoot == [signature |-> "mswin", mark |-> TRUE, fat32 |-> TRUE]
OldFat == [signature |-> "mswin", mark |-> TRUE, fat32 |-> FALSE]
Marked == [signature |-> "other", mark |-> TRUE, fat32 |-> FALSE]

Unused == [used |-> FALSE, start |-> 0]
At(p) == [used |-> TRUE, start |-> p]
NoTable == <<Unused, Unused, Unused, Unused>>

(* The first face of a volume, the faces and the table around it, where it *)
(* starts, the sectors after it (or missing of it), a VHD footer, a        *)
(* partial last sector.                                                    *)
Container(f, others, t, p, more, footer, ragged) ==
  [faces |-> [i \in {p} \cup DOMAIN others |-> IF i = p THEN f ELSE others[i]],
   table |-> t, volume |-> p, more |-> more, footer |-> footer, ragged |-> ragged]

Bare(more, ragged) == Container(Fve, <<>>, NoTable, 0, more, FALSE, ragged)
Disk(others, t, p, more) ==
  Container(Fve, [i \in {0} \cup DOMAIN others |-> IF i = 0 THEN Marked ELSE others[i]],
            t, p, more, TRUE, FALSE)

Vhd == Disk(<<>>, <<At(3), Unused, Unused, Unused>>, 3, 2)

Containers ==
  {Bare(-4, FALSE), Bare(0, FALSE), Bare(0, TRUE), Vhd,
   Container(FatBoot, <<>>, NoTable, 0, 0, FALSE, FALSE),
   Disk(<<>>, <<At(3), Unused, Unused, Unused>>, 3, 0)}

(* A volume that is not at once found, or not at all: behind an unused     *)
(* entry, a partition of another system, one past the end of the file;     *)
(* behind a FAT volume with or without the label that makes a header of    *)
(* its boot sector; in a file without a table, or with a FAT boot sector.  *)
Hidden ==
  {Disk(<<>>, <<Unused, Unused, Unused, At(3)>>, 3, 0),
   Disk([i \in {1} |-> Marked], <<At(1), At(900), At(3), Unused>>, 3, 0),
   Disk([i \in {1} |-> FatBoot], <<At(1), At(3), Unused, Unused>>, 3, 0),
   Disk([i \in {1} |-> OldFat], <<At(1), At(3), Unused, Unused>>, 3, 0),
   Disk([i \in {1} |-> FatBoot], <<At(3), At(1), Unused, Unused>>, 3, 0),
   Container(Fve, <<>>, <<At(3), Unused, Unused, Unused>>, 3, 0, FALSE, FALSE),
   Container(Fve, [i \in {0} |-> FatBoot], <<At(3), Unused, Unused, Unused>>, 3, 0,
             FALSE, FALSE)}

SourceOf(c, encrypted) ==
  LET p == c.volume
      part == p + VolumeSectors - 1
  IN  [i \in 0 .. p + VolumeSectors + c.more + (IF c.footer THEN 1 ELSE 0) - 1 |->
         CASE i < p -> Zero
           [] i >= p /\ c.ragged /\ i = part -> Original(i - p)
           [] i >= p /\ i =< part /\ ~(c.ragged /\ i = part) -> Stored(i - p, encrypted)
           [] i > part -> Zero]

Job(cmd, c, e, b, h, t, w, r, a) ==
  [command |-> cmd, source |-> SourceOf(c, e), volume |-> c.volume, faces |-> c.faces,
   table |-> c.table, footer |-> c.footer, ragged |-> c.ragged,
   encrypted |-> e, backup |-> b, copies |-> h, protectors |-> t,
   password |-> w, recovery |-> r, aliased |-> a]

Both == {"password", "recovery"}
AllGood == <<"good", "good", "good">>

(* Every state of the first metadata block, and what the next ones may be. *)
Damage == {<<a, b, c>> : a \in Health, b \in {"good", "absent", "no_vmk"},
                         c \in {"good", "unreadable"}}

Unlocking ==
  {Job("decrypt", Vhd, 13, TRUE, h, t, w, r, FALSE) :
     h \in Damage, t \in {Both, {"recovery"}}, w \in Credential, r \in Credential}

(* A method that is not known, met in the header or in the body. *)
Unknown ==
  {Job("decrypt", Bare(0, FALSE), e, b, <<"odd_method", "good", "good">>, Both,
       "right", "none", FALSE) : e \in {0, 13}, b \in BOOLEAN}

(* Every container and encrypted size, with the right password. *)
Reads ==
  {Job("decrypt", c, e, b, AllGood, Both, "right", "none", FALSE) :
     c \in Containers, e \in {0, 13, VolumeSectors}, b \in BOOLEAN}

(* The search, for either command. *)
Searches ==
  {Job(cmd, c, 13, TRUE, AllGood, Both, "right", "none", FALSE) :
     cmd \in {"decrypt", "info"}, c \in Hidden}

(* Descriptions of volumes with blocks that cannot be described. *)
Descriptions ==
  {Job("info", Vhd, 13, TRUE, <<a, b, c>>, Both, "none", "none", FALSE) :
     a \in Health, b \in Health, c \in Health}

(* The output path names the source. *)
OnItself ==
  {Job("decrypt", Bare(0, FALSE), VolumeSectors, TRUE, AllGood, Both, w, "none", TRUE) :
     w \in {"right", "wrong"}}

AllJobs == Unlocking \cup Unknown \cup Reads \cup Searches \cup Descriptions \cup OnItself
=============================================================================
