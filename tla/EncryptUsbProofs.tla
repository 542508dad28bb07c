-------------------------- MODULE EncryptUsbProofs --------------------------
(***************************************************************************)
(* The encrypt-usb command asks before it acts, and writes to a drive that *)
(* is not mounted: for every drive, and whatever the system and the user   *)
(* do in between.                                                          *)
(***************************************************************************)
EXTENDS EncryptUsb, TLAPS

-----------------------------------------------------------------------------
(* The state stays well formed. *)
LEMMA StepsAreKnown ==
  pc \in Working \cup Ended /\ [Next]_vars => pc' \in Working \cup Ended
<1> SUFFICES ASSUME pc \in Working \cup Ended, [Next]_vars
             PROVE  pc' \in Working \cup Ended
  OBVIOUS
<1> USE DEF Working, Ended
<1>1. CASE Detect
  BY <1>1 DEF Detect
<1>2. CASE CheckFilesystem
  BY <1>2 DEF CheckFilesystem
<1>3. CASE Ask
  BY <1>3 DEF Ask
<1>4. CASE Unmount
  BY <1>4 DEF Unmount, AfterUnmount, OnUnmountFailure
<1>5. CASE Preview
  BY <1>5 DEF Preview
<1>6. CASE Begin
  BY <1>6 DEF Begin
<1>7. CASE Seal
  BY <1>7 DEF Seal
<1>8. CASE Commit
  BY <1>8 DEF Commit
<1>9. CASE WriteFails
  BY <1>9 DEF WriteFails
<1>10. CASE Sync
  BY <1>10 DEF Sync
<1>11. CASE Mount
  BY <1>11 DEF Mount
<1>12. CASE Report
  BY <1>12 DEF Report
<1>13. CASE Kill
  BY <1>13 DEF Kill
<1>14. CASE OthersMount
  BY <1>14 DEF OthersMount
<1>15. CASE OthersUnmount
  BY <1>15 DEF OthersUnmount
<1>16. CASE UNCHANGED vars
  BY <1>16 DEF vars
<1>17. QED
  BY <1>1, <1>2, <1>3, <1>4, <1>5, <1>6, <1>7, <1>8,
     <1>9, <1>10, <1>11, <1>12, <1>13, <1>14, <1>15, <1>16
     DEF Next, Step

(* Every stage of the command, and whatever happens around it, keeps the   *)
(* variables in their types.                                               *)
THEOREM UsbTypes == Spec => []TypeOK
<1>1. Init => TypeOK
  <2> SUFFICES ASSUME Init
               PROVE  TypeOK
    OBVIOUS
  <2>1. pc \in Working \cup Ended
    BY DEF Init, Working
  <2>2. drive \in [filesystem : {"", "FAT32", "NTFS", "ExFAT", "HFS+"}, mount_point : BOOLEAN]
    BY Zenon DEF Init, NoDrive
  <2>3. QED
    BY <2>1, <2>2, Zenon DEF Init, TypeOK
<1>2. TypeOK /\ [Next]_vars => TypeOK'
  <2> SUFFICES ASSUME TypeOK, [Next]_vars
               PROVE  TypeOK'
    OBVIOUS
  <2>0. pc' \in Working \cup Ended
    BY StepsAreKnown, Zenon DEF TypeOK
  <2>1. CASE Detect
    <3>1. FilesystemOf(fs) \in {"FAT32", "NTFS", "ExFAT", "HFS+"}
      BY UsbAssumption DEF TypeOK, FilesystemOf, HoldsFat
    <3>2. FilesystemOf(fs) \in {"", "FAT32", "NTFS", "ExFAT", "HFS+"}
      BY <3>1
    <3>3. mounted \in BOOLEAN
      BY Zenon DEF TypeOK
    <3>4. [filesystem |-> FilesystemOf(fs), mount_point |-> mounted]
            \in [filesystem : {"", "FAT32", "NTFS", "ExFAT", "HFS+"}, mount_point : BOOLEAN]
      BY <3>2, <3>3, Zenon
    <3>5. drive' \in {drive, [filesystem |-> FilesystemOf(fs), mount_point |-> mounted]}
      BY <2>1 DEF Detect
    <3>6. QED
      BY <2>0, <2>1, <3>4, <3>5, Zenon DEF Detect, TypeOK, conversion, answers
  <2>2. CASE CheckFilesystem
    BY <2>0, <2>2 DEF CheckFilesystem, TypeOK, conversion, answers
  <2>3. CASE Ask
    BY <2>0, <2>3 DEF Ask, TypeOK, conversion, answers
  <2>4. CASE Unmount
    BY <2>0, <2>4 DEF Unmount, TypeOK, conversion, answers
  <2>5. CASE Preview
    BY <2>0, <2>5 DEF Preview, TypeOK, conversion, answers
  <2>6. CASE Begin
    BY <2>0, <2>6 DEF Begin, Contract!Begin, TypeOK, conversion, answers
  <2>7. CASE Seal
    BY <2>0, <2>7 DEF Seal, Contract!Seal, TypeOK, conversion, answers
  <2>8. CASE Commit
    BY <2>0, <2>8 DEF Commit, Contract!Commit, TypeOK, conversion, answers
  <2>9. CASE WriteFails
    BY <2>0, <2>9 DEF WriteFails, Contract!Break, TypeOK, conversion, answers
  <2>10. CASE Sync
    BY <2>0, <2>10 DEF Sync, TypeOK, conversion, answers
  <2>11. CASE Mount
    BY <2>0, <2>11 DEF Mount, TypeOK, conversion, answers
  <2>12. CASE Report
    BY <2>0, <2>12 DEF Report, TypeOK, conversion, answers
  <2>13. CASE Kill
    BY <2>0, <2>13 DEF Kill, Contract!Break, TypeOK, conversion, answers
  <2>14. CASE OthersMount
    BY <2>0, <2>14 DEF OthersMount, TypeOK, conversion, answers
  <2>15. CASE OthersUnmount
    BY <2>0, <2>15 DEF OthersUnmount, TypeOK, conversion, answers
  <2>16. CASE UNCHANGED vars
    BY <2>0, <2>16 DEF vars, TypeOK
  <2>17. QED
    BY <2>1, <2>2, <2>3, <2>4, <2>5, <2>6, <2>7, <2>8,
       <2>9, <2>10, <2>11, <2>12, <2>13, <2>14, <2>15, <2>16
       DEF Next, Step
<1>3. QED
  BY <1>1, <1>2, PTL DEF Spec

-----------------------------------------------------------------------------
(* What the command knows and has done, by the step it is at. *)
Before == {"start", "check", "ask", "unmount", "preview", "encrypt"}
Writing == {"unmount", "preview", "encrypt", "write", "sync", "mount", "report"}

StepInv ==
  /\ pc \in Before => status = "plain"
  /\ pc = "write" => status = "converting"
  /\ pc \in {"start", "check", "ask"} => ~took
  /\ pc = "ask" \/ pc \in Writing => drive.filesystem \in Supported
  /\ pc \in Writing => consent
  /\ NothingWithoutConsent

LEMMA StepInvInductive ==
  /\ Init => StepInv
  /\ StepInv /\ [Next]_vars => StepInv'
<1>1. Init => StepInv
  BY DEF Init, StepInv, Before, Writing, NothingWithoutConsent
<1>2. StepInv /\ [Next]_vars => StepInv'
  <2> SUFFICES ASSUME StepInv, [Next]_vars
               PROVE  StepInv'
    OBVIOUS
  <2> USE DEF StepInv, NothingWithoutConsent, Before, Writing, Working
  <2>1. CASE Detect
    BY <2>1 DEF Detect, conversion, answers
  <2>2. CASE CheckFilesystem
    BY <2>2 DEF CheckFilesystem, conversion, answers
  <2>3. CASE Ask
    BY <2>3 DEF Ask, conversion, answers
  <2>4. CASE Unmount
    BY <2>4 DEF Unmount, conversion, answers, AfterUnmount, OnUnmountFailure
  <2>5. CASE Preview
    BY <2>5 DEF Preview, conversion, answers
  <2>6. CASE Begin
    BY <2>6 DEF Begin, Contract!Begin, conversion, answers
  <2>7. CASE Seal
    BY <2>7 DEF Seal, Contract!Seal, conversion, answers
  <2>8. CASE Commit
    BY <2>8 DEF Commit, Contract!Commit, conversion, answers
  <2>9. CASE WriteFails
    BY <2>9 DEF WriteFails, Contract!Break, conversion, answers
  <2>10. CASE Sync
    BY <2>10 DEF Sync, conversion, answers
  <2>11. CASE Mount
    BY <2>11 DEF Mount, conversion, answers
  <2>12. CASE Report
    BY <2>12 DEF Report, conversion, answers
  <2>13. CASE Kill
    BY <2>13 DEF Kill, Contract!Break, conversion, answers
  <2>14. CASE OthersMount
    BY <2>14 DEF OthersMount, conversion, answers
  <2>15. CASE OthersUnmount
    BY <2>15 DEF OthersUnmount, conversion, answers
  <2>16. CASE UNCHANGED vars
    BY <2>16 DEF vars, conversion, answers
  <2>17. QED
    BY <2>1, <2>2, <2>3, <2>4, <2>5, <2>6, <2>7, <2>8,
       <2>9, <2>10, <2>11, <2>12, <2>13, <2>14, <2>15, <2>16
       DEF Next, Step
<1>3. QED
  BY <1>1, <1>2

(* A drive is neither unmounted nor written before its owner has confirmed *)
(* and its file system has been found supported.                           *)
THEOREM ConsentComesFirst == Spec => []NothingWithoutConsent
<1>1. StepInv => NothingWithoutConsent
  BY DEF StepInv
<1>2. QED
  BY <1>1, StepInvInductive, PTL DEF Spec

-----------------------------------------------------------------------------
(* Nobody but the command has mounted the drive since it was detected: it  *)
(* is not mounted when it was not, or once the command has unmounted it.   *)
MountInv ==
  /\ pc # "start" /\ pc \in Before \cup {"write"} => drive # NoDrive
  /\ pc \in {"check", "ask", "unmount"} /\ ~meddled /\ ~drive.mount_point => ~mounted
  /\ pc \in {"preview", "encrypt", "write"} /\ ~meddled => ~mounted

LEMMA MountInvInductive ==
  /\ Init => MountInv
  /\ TypeOK /\ MountInv /\ [Next]_vars => MountInv'
<1>1. Init => MountInv
  BY DEF Init, MountInv
<1>2. TypeOK /\ MountInv /\ [Next]_vars => MountInv'
  <2> SUFFICES ASSUME TypeOK, MountInv, [Next]_vars
               PROVE  MountInv'
    OBVIOUS
  <2> USE DEF MountInv, Before
  <2>1. CASE Detect
    <3>1. CASE pc' = "refused"
      BY <3>1
    <3>2. CASE pc' # "refused"
      <4>1. /\ drive' = [filesystem |-> FilesystemOf(fs), mount_point |-> mounted]
            /\ pc' = "check" /\ mounted' = mounted
        BY <2>1, <3>2 DEF Detect
      <4>2. FilesystemOf(fs) # ""
        BY UsbAssumption DEF TypeOK, FilesystemOf, HoldsFat
      <4>3. drive' # NoDrive
        BY <4>1, <4>2 DEF NoDrive
      <4>4. drive'.mount_point = mounted
        BY <4>1
      <4>5. QED
        BY <4>1, <4>3, <4>4
    <3>3. QED
      BY <3>1, <3>2
  <2>2. CASE CheckFilesystem
    BY <2>2 DEF CheckFilesystem, conversion, answers
  <2>3. CASE Ask
    BY <2>3 DEF Ask, conversion, answers
  <2>4. CASE Unmount
    <3>1. /\ pc = "unmount" /\ drive' = drive /\ meddled' = meddled
          /\ pc' \in {"encrypt", "preview", "refused"}
      BY <2>4 DEF Unmount, AfterUnmount, OnUnmountFailure
    <3>2. pc' # "refused" => mounted' = FALSE \/ (~drive.mount_point /\ mounted' = mounted)
      BY <2>4, Zenon DEF Unmount, OnUnmountFailure
    <3>3. QED
      BY <3>1, <3>2
  <2>5. CASE Preview
    BY <2>5 DEF Preview, conversion, answers
  <2>6. CASE Begin
    BY <2>6 DEF Begin, Contract!Begin, conversion, answers
  <2>7. CASE Seal
    BY <2>7 DEF Seal, Contract!Seal, conversion, answers
  <2>8. CASE Commit
    BY <2>8 DEF Commit, Contract!Commit, conversion, answers
  <2>9. CASE WriteFails
    BY <2>9 DEF WriteFails, Contract!Break, conversion, answers
  <2>10. CASE Sync
    BY <2>10 DEF Sync, conversion, answers
  <2>11. CASE Mount
    BY <2>11 DEF Mount, conversion, answers
  <2>12. CASE Report
    BY <2>12 DEF Report, conversion, answers
  <2>13. CASE Kill
    BY <2>13 DEF Kill, Contract!Break, conversion, answers
  <2>14. CASE OthersMount
    <3>1. pc' = pc /\ drive' = drive
      BY <2>14 DEF OthersMount
    <3>2. drive # NoDrive => meddled'
      BY <2>14, Zenon DEF OthersMount
    <3>3. QED
      BY <3>1, <3>2
  <2>15. CASE OthersUnmount
    BY <2>15 DEF OthersUnmount, conversion, answers
  <2>16. CASE UNCHANGED vars
    BY <2>16 DEF vars, conversion, answers
  <2>17. QED
    BY <2>1, <2>2, <2>3, <2>4, <2>5, <2>6, <2>7, <2>8,
       <2>9, <2>10, <2>11, <2>12, <2>13, <2>14, <2>15, <2>16
       DEF Next, Step
<1>3. QED
  BY <1>1, <1>2

(* encrypt_device_inplace writes to a drive that is not mounted, unless    *)
(* somebody else has mounted it since the command looked at mount_point.   *)
THEOREM WritesToUnmounted == Spec => WrittenOnlyUnmounted
<1>1. MountInv /\ [Next]_vars => [conversion' # conversion /\ ~meddled => ~mounted]_vars
  <2> SUFFICES ASSUME MountInv, [Next]_vars, conversion' # conversion, ~meddled
               PROVE  ~mounted
    BY DEF vars
  <2> USE DEF MountInv
  <2>1. CASE Detect
    BY <2>1 DEF Detect, conversion, answers
  <2>2. CASE CheckFilesystem
    BY <2>2 DEF CheckFilesystem, conversion, answers
  <2>3. CASE Ask
    BY <2>3 DEF Ask, conversion, answers
  <2>4. CASE Unmount
    BY <2>4 DEF Unmount, conversion, answers
  <2>5. CASE Preview
    BY <2>5 DEF Preview, conversion, answers
  <2>6. CASE Begin
    BY <2>6 DEF Begin, Contract!Begin, conversion, answers
  <2>7. CASE Seal
    BY <2>7 DEF Seal, Contract!Seal, conversion, answers
  <2>8. CASE Commit
    BY <2>8 DEF Commit, Contract!Commit, conversion, answers
  <2>9. CASE WriteFails
    BY <2>9 DEF WriteFails, Contract!Break, conversion, answers
  <2>10. CASE Sync
    BY <2>10 DEF Sync, conversion, answers
  <2>11. CASE Mount
    BY <2>11 DEF Mount, conversion, answers
  <2>12. CASE Report
    BY <2>12 DEF Report, conversion, answers
  <2>13. CASE Kill
    BY <2>13 DEF Kill, Contract!Break, conversion, answers
  <2>14. CASE OthersMount
    BY <2>14 DEF OthersMount, conversion, answers
  <2>15. CASE OthersUnmount
    BY <2>15 DEF OthersUnmount, conversion, answers
  <2>16. CASE UNCHANGED vars
    BY <2>16 DEF vars, conversion, answers
  <2>17. QED
    BY <2>1, <2>2, <2>3, <2>4, <2>5, <2>6, <2>7, <2>8,
       <2>9, <2>10, <2>11, <2>12, <2>13, <2>14, <2>15, <2>16
       DEF Next, Step
<1>2. QED
  BY <1>1, MountInvInductive, UsbTypes, PTL DEF Spec, WrittenOnlyUnmounted
=============================================================================
