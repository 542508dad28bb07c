----------------------------- MODULE EncryptUsb -----------------------------
(***************************************************************************)
(* The encrypt-usb command: a drive is detected, the user is asked, the    *)
(* drive is unmounted, converted in place and mounted again, and the       *)
(* recovery key is shown.  Meanwhile the system and the user may mount and *)
(* unmount the drive, the device may fail, and the user may stop the       *)
(* command.  The call of encrypt_device_inplace is not translated a second *)
(* time: in its place stands Conversion, the abstract specification that   *)
(* InPlaceEncryptor is shown to implement.                                 *)
(***************************************************************************)
EXTENDS Naturals

CONSTANT FileSystems   \* what the drives at hand are formatted with

ASSUME UsbAssumption ==
  FileSystems \subseteq {"FAT32", "FAT16", "NTFS", "ExFAT", "HFS+"}

VARIABLES
  fs,         \* the file system on the drive
  mounted,    \* the drive is mounted
  status,     \* what the conversion has made of the volume
  readable,   \* its data can be read
  drive,      \* the USBDrive record, a snapshot taken at detection
  full,       \* encrypt_full_drive
  pc,         \* what the command does next
  consent,    \* the user has confirmed and given a password
  took,       \* the command has unmounted the drive
  meddled,    \* somebody else has mounted the drive since it was detected
  key_shown   \* the recovery key has been displayed

vars == <<fs, mounted, status, readable, drive, full, pc, consent, took, meddled, key_shown>>
conversion == <<status, readable>>

(* What the command may rely on while encrypt_device_inplace runs: a drive *)
(* is converted by one call, which is not tried again.                     *)
Contract == INSTANCE Conversion WITH retry <- FALSE

answers == <<full, consent>>

Working == {"start", "check", "ask", "unmount", "preview", "encrypt",
            "write", "sync", "mount", "report"}
Ended == {"refused", "aborted", "failed", "crashed", "killed", "finished"}

NoDrive == [filesystem |-> "", mount_point |-> FALSE]

Init ==
  /\ fs \in FileSystems
  /\ mounted \in BOOLEAN
  /\ status = "plain"
  /\ readable = TRUE
  /\ drive = NoDrive
  /\ full = FALSE
  /\ pc = "start"
  /\ consent = FALSE
  /\ took = FALSE
  /\ meddled = FALSE
  /\ key_shown = FALSE

-----------------------------------------------------------------------------
(* _get_partition_info: FilesystemName holds "FAT" for every FAT, ExFAT    *)
(* included, and that is tested first.                                     *)
HoldsFat == {"FAT32", "FAT16", "ExFAT"}

(* Seeded fault: the names of diskutil are not mapped.                     *)
FilesystemAsNamed(f) == f

FilesystemOf(f) == IF f \in HoldsFat THEN "FAT32" ELSE f

(* _detect_source_fs accepts the boot sector: any that says FAT at offset  *)
(* 54 passes for FAT32.                                                    *)
Detectable(f) == f \in {"FAT32", "FAT16", "NTFS"}

(* Without root, or without a drive that can be used, the command ends. *)
Detect ==
  /\ pc = "start"
  /\ \/ pc' = "refused" /\ UNCHANGED drive
     \/ /\ drive' = [filesystem |-> FilesystemOf(fs), mount_point |-> mounted]
        /\ pc' = "check"
  /\ UNCHANGED <<fs, mounted, conversion, answers, took, meddled, key_shown>>

Supported == {"FAT32", "NTFS"}

(* Seeded fault: the file system is not looked at.                         *)
CheckNothing ==
  /\ pc = "check"
  /\ pc' = "ask"
  /\ UNCHANGED <<fs, mounted, conversion, drive, answers, took, meddled, key_shown>>

CheckFilesystem ==
  /\ pc = "check"
  /\ pc' = IF drive.filesystem \in Supported THEN "ask" ELSE "refused"
  /\ UNCHANGED <<fs, mounted, conversion, drive, answers, took, meddled, key_shown>>

(* The mode, the confirmation, and the password, twice and long enough. *)
Ask ==
  /\ pc = "ask"
  /\ \/ /\ full' \in BOOLEAN
        /\ consent' = TRUE
        /\ pc' = "unmount"
     \/ pc' \in {"aborted", "refused"} /\ UNCHANGED answers
  /\ UNCHANGED <<fs, mounted, conversion, drive, took, meddled, key_shown>>

(* diskutil refuses to unmount a drive that is busy or not mounted. *)
AfterUnmount == IF full THEN "encrypt" ELSE "preview"

(* Seeded fault: the result of the unmount is ignored.                     *)
FailureIgnored == AfterUnmount

OnUnmountFailure == "refused"

Unmount ==
  /\ pc = "unmount"
  /\ \/ /\ ~drive.mount_point
        /\ pc' = AfterUnmount
        /\ UNCHANGED <<mounted, took>>
     \/ /\ drive.mount_point /\ mounted
        /\ mounted' = FALSE
        /\ took' = TRUE
        /\ pc' = AfterUnmount
     \/ /\ drive.mount_point
        /\ pc' = OnUnmountFailure
        /\ UNCHANGED <<mounted, took>>
  /\ UNCHANGED <<fs, conversion, drive, answers, meddled, key_shown>>

(* The used regions are read once more, only to be displayed, and outside  *)
(* of any try: an error here ends the command with a traceback.            *)
Preview ==
  /\ pc = "preview"
  /\ \/ Detectable(fs) /\ pc' = "encrypt"
     \/ pc' = "crashed"
  /\ UNCHANGED <<fs, mounted, conversion, drive, answers, took, meddled, key_shown>>

-----------------------------------------------------------------------------
(* The call of encrypt_device_inplace: what it does to the volume is what  *)
(* Conversion allows, what it raises and returns is seen by the command.   *)
Begin ==
  /\ pc = "encrypt"
  /\ \/ Detectable(fs) /\ Contract!Begin /\ pc' = "write"
     \/ pc' = "failed" /\ UNCHANGED conversion
  /\ UNCHANGED <<fs, mounted, drive, answers, took, meddled, key_shown>>

Seal ==
  /\ pc = "write"
  /\ Contract!Seal
  /\ UNCHANGED <<fs, mounted, drive, answers, pc, took, meddled, key_shown>>

Commit ==
  /\ pc = "write"
  /\ Contract!Commit
  /\ pc' = "sync"
  /\ UNCHANGED <<fs, mounted, drive, answers, took, meddled, key_shown>>

(* An OSError, or any other error, reaches the command. *)
WriteFails ==
  /\ pc = "write"
  /\ Contract!Break
  /\ pc' = "failed"
  /\ UNCHANGED <<fs, mounted, drive, answers, took, meddled, key_shown>>

(* fsync may still fail; the recovery key is then not returned. *)
Sync ==
  /\ pc = "sync"
  /\ pc' \in {"mount", "failed"}
  /\ UNCHANGED <<fs, mounted, conversion, drive, answers, took, meddled, key_shown>>

(* Seeded fault: a mount that fails ends the command.                      *)
MountOrExit ==
  /\ pc = "mount"
  /\ mounted' = IF status = "locked" THEN mounted ELSE TRUE
  /\ pc' = IF mounted' THEN "report" ELSE "crashed"
  /\ UNCHANGED <<fs, conversion, drive, answers, took, meddled, key_shown>>

(* mount_partition: macOS does not mount a BitLocker volume; the call      *)
(* fails or is given up after five seconds, and the result is ignored.     *)
Mount ==
  /\ pc = "mount"
  /\ mounted' = IF status = "locked" THEN mounted ELSE TRUE
  /\ pc' = "report"
  /\ UNCHANGED <<fs, conversion, drive, answers, took, meddled, key_shown>>

Report ==
  /\ pc = "report"
  /\ key_shown' = TRUE
  /\ pc' = "finished"
  /\ UNCHANGED <<fs, mounted, conversion, drive, answers, took, meddled>>

Step == \/ Detect \/ CheckFilesystem \/ Unmount \/ Preview \/ Begin
        \/ Seal \/ Commit \/ WriteFails \/ Sync \/ Mount \/ Report

-----------------------------------------------------------------------------
(* The user stops the command, or it dies. *)
Kill ==
  /\ pc \in Working
  /\ pc' = "killed"
  /\ IF pc = "write" THEN Contract!Break ELSE UNCHANGED conversion
  /\ UNCHANGED <<fs, mounted, drive, answers, took, meddled, key_shown>>

(* The system or the user mounts the drive, or takes it down. *)
OthersMount ==
  /\ ~mounted
  /\ status # "locked"
  /\ mounted' = TRUE
  /\ meddled' = (drive # NoDrive)
  /\ UNCHANGED <<fs, conversion, drive, answers, pc, took, key_shown>>

OthersUnmount ==
  /\ mounted
  /\ mounted' = FALSE
  /\ UNCHANGED <<fs, conversion, drive, answers, pc, took, meddled, key_shown>>

Next == Step \/ Ask \/ Kill \/ OthersMount \/ OthersUnmount

Spec == Init /\ [][Next]_vars

(* The command goes on by itself as long as nobody stops it; nobody has to *)
(* answer its prompts.                                                     *)
FairSpec == Spec /\ WF_vars(Step)

-----------------------------------------------------------------------------
TypeOK ==
  /\ fs \in FileSystems
  /\ mounted \in BOOLEAN /\ readable \in BOOLEAN
  /\ status \in {"plain", "converting", "locked", "broken"}
  /\ drive \in [filesystem : {"", "FAT32", "NTFS", "ExFAT", "HFS+"}, mount_point : BOOLEAN]
  /\ full \in BOOLEAN /\ consent \in BOOLEAN
  /\ pc \in Working \cup Ended
  /\ took \in BOOLEAN /\ meddled \in BOOLEAN /\ key_shown \in BOOLEAN

(* The device is written only while it is not mounted, unless somebody     *)
(* else mounts it after the detection: the command looks at mount_point    *)
(* once, long before it writes.                                            *)
WrittenOnlyUnmounted ==
  [][ conversion' # conversion /\ ~meddled => ~mounted ]_vars

(* Nothing happens to a drive, neither its unmounting nor a write, before  *)
(* its owner has confirmed and the file system has been found supported.   *)
NothingWithoutConsent ==
  took \/ status # "plain" => consent /\ drive.filesystem \in Supported

(* The recovery key exists only in the memory of the command: on a drive   *)
(* that has been locked it reaches the owner, unless the command is        *)
(* stopped or its last fsync fails.                                        *)
KeyReachesOwner == status = "locked" ~> (key_shown \/ pc \in {"killed", "failed"})

(* "Only FAT32 and NTFS are supported." (cli.py:274): a drive with another *)
(* file system is left alone.                                              *)
UnsupportedLeftAlone == fs \notin Supported => ~took /\ status = "plain"
=============================================================================
