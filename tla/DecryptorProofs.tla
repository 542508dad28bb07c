-------------------------- MODULE DecryptorProofs --------------------------
(***************************************************************************)
(* What a decryption that fails leaves alone, that one whole metadata      *)
(* block is enough, that a description is of one block, that a volume is   *)
(* found wherever it lies, and that what is written is the original volume *)
(* and, at the end, all of it: for every volume, its place and every call. *)
(***************************************************************************)
EXTENDS Decryptor, VolumeProofs, FiniteSetTheorems

-----------------------------------------------------------------------------
(* Until the output is opened nothing has been written. *)
OutputInv == pc \notin Opened => out = Previous /\ source = job.source

(* open(output_path, 'wb') comes after both keys have been unwrapped: a    *)
(* run that ends before has touched neither the output nor the source.     *)
THEOREM FailedRunsKeepOutput == Spec => []FailureKeepsOutput
<1>1. Init => OutputInv
  BY DEF Init, OutputInv
<1>2. OutputInv /\ [Next]_vars => OutputInv'
  <2> SUFFICES ASSUME OutputInv, [Next]_vars
               PROVE  OutputInv'
    OBVIOUS
  <2> USE DEF OutputInv, Opened
  <2>1. CASE CheckCredentials
    BY <2>1 DEF CheckCredentials
  <2>2. CASE FindVolume
    BY <2>2 DEF FindVolume
  <2>3. CASE SkipCopy
    BY <2>3 DEF SkipCopy
  <2>4. CASE NoCopyLeft
    BY <2>4 DEF NoCopyLeft
  <2>5. CASE TakeCopy
    BY <2>5 DEF TakeCopy
  <2>6. CASE DescribeCopy
    BY <2>6 DEF DescribeCopy
  <2>7. CASE Unlock
    BY <2>7 DEF Unlock, OpensOutput, Previous
  <2>8. CASE RestoreHeader
    BY <2>8 DEF RestoreHeader
  <2>9. CASE DecryptChunk
    BY <2>9 DEF DecryptChunk
  <2>10. CASE UnknownMethod
    BY <2>10 DEF UnknownMethod
  <2>11. CASE BodyDone
    BY <2>11 DEF BodyDone
  <2>12. CASE CopyTail
    BY <2>12 DEF CopyTail
  <2>13. CASE ReadFails
    BY <2>13 DEF ReadFails, Reading, Previous
  <2>14. CASE UNCHANGED vars
    BY <2>14 DEF vars, Previous
  <2>15. QED
    BY <2>1, <2>2, <2>3, <2>4, <2>5, <2>6, <2>7, <2>8, <2>9, <2>10, <2>11, <2>12,
       <2>13, <2>14 DEF Next, DecryptStep
<1>3. OutputInv => FailureKeepsOutput
  BY DEF OutputInv, FailureKeepsOutput, Opened, Ended
<1>4. QED
  BY <1>1, <1>2, <1>3, PTL DEF Spec

-----------------------------------------------------------------------------
(* The loop over the metadata blocks: which block it is at, and why it is  *)
(* past the others.                                                        *)
LoopInv ==
  /\ pc \in {"start", "unlock"} \cup Reading \cup Ended
  /\ copy \in 1 .. 4
  /\ pc \in {"start", "detect"} => copy = 1
  /\ \A j \in lost : j \in Copies /\ j < copy
  /\ pc = "unlock" => copy \in Copies /\ Parses(HealthOf(copy))

(* The same for a decryption, and what each of its errors is about. *)
ErrorInv ==
  /\ partition = job.volume /\ job.command = "decrypt" =>
       \A i \in Copies : i < copy => Skipped(i)
  /\ pc \in {"unlock", "no_metadata", "no_entry", "no_protector", "wrong_key"} =>
       job.command = "decrypt"
  /\ pc = "no_metadata" => copy \notin Copies
  /\ pc = "no_entry" => copy \in Copies /\ HealthOf(copy) \in {"no_vmk", "no_fvek"}
  /\ pc = "no_protector" => Chosen \notin job.protectors
  /\ pc = "wrong_key" =>
       Given = "wrong" \/ (copy \in Copies /\ HealthOf(copy) = "bad_key")
  /\ pc = "no_credential" => Given = "none"

(* The same for a description: of the blocks it is past, those that could  *)
(* be read set the first three fields or none.                             *)
Describable(j) == HealthOf(j) \in {"good", "no_vmk", "no_fvek", "bad_key"}

InfoInv ==
  /\ info["size"] = info["method"] /\ info["volume_id"] = info["method"]
  /\ info["protections"] \in {0, info["method"]}
  /\ info["method"] \in {0} \cup Copies
  /\ info["method"] \notin lost
  /\ pc # "shown" => info["protections"] = 0 /\ info["method"] < copy
  /\ job.command # "decrypt" /\ info["protections"] = 0 =>
       \A j \in Copies \ lost : j < copy => ~Describable(j)
  /\ pc = "shown" => job.command # "decrypt"
  /\ pc = "shown" /\ info["protections"] = 0 => copy \notin Copies

LEMMA LoopInvInductive ==
  /\ Init => LoopInv
  /\ LoopInv /\ [Next]_vars => LoopInv'
<1>1. Init => LoopInv
  BY DEF Init, LoopInv
<1>2. LoopInv /\ [Next]_vars => LoopInv'
  <2> SUFFICES ASSUME LoopInv, [Next]_vars
               PROVE  LoopInv'
    OBVIOUS
  <2> USE DEF LoopInv, Copies, Reading, Ended
  <2>1. CASE CheckCredentials
    BY <2>1 DEF CheckCredentials
  <2>2. CASE FindVolume
    BY <2>2 DEF FindVolume
  <2>3. CASE SkipCopy
    BY <2>3 DEF SkipCopy
  <2>4. CASE NoCopyLeft
    BY <2>4 DEF NoCopyLeft
  <2>5. CASE TakeCopy
    BY <2>5 DEF TakeCopy, HealthOf
  <2>6. CASE DescribeCopy
    BY <2>6 DEF DescribeCopy
  <2>7. CASE Unlock
    BY <2>7 DEF Unlock, UnlockOutcome, HealthOf
  <2>8. CASE RestoreHeader
    BY <2>8 DEF RestoreHeader
  <2>9. CASE DecryptChunk
    BY <2>9 DEF DecryptChunk
  <2>10. CASE UnknownMethod
    BY <2>10 DEF UnknownMethod
  <2>11. CASE BodyDone
    BY <2>11 DEF BodyDone
  <2>12. CASE CopyTail
    BY <2>12 DEF CopyTail
  <2>13. CASE ReadFails
    BY <2>13 DEF ReadFails
  <2>14. CASE UNCHANGED vars
    BY <2>14 DEF vars, HealthOf
  <2>15. QED
    BY <2>1, <2>2, <2>3, <2>4, <2>5, <2>6, <2>7, <2>8, <2>9, <2>10, <2>11, <2>12,
       <2>13, <2>14 DEF Next, DecryptStep
<1>3. QED
  BY <1>1, <1>2

LEMMA ErrorInvInductive ==
  /\ Init => ErrorInv
  /\ LoopInv /\ ErrorInv /\ [Next]_vars => ErrorInv'
<1>1. Init => ErrorInv
  BY DEF Init, ErrorInv, Copies
<1>2. LoopInv /\ ErrorInv /\ [Next]_vars => ErrorInv'
  <2> SUFFICES ASSUME LoopInv, ErrorInv, [Next]_vars
               PROVE  ErrorInv'
    OBVIOUS
  <2> USE DEF LoopInv, ErrorInv, Copies, Reading, Ended, HealthOf, Skipped, Chosen, Given
  <2>1. CASE CheckCredentials
    BY <2>1 DEF CheckCredentials
  <2>2. CASE FindVolume
    BY <2>2 DEF FindVolume
  <2>3. CASE SkipCopy
    BY <2>3 DEF SkipCopy, Parses
  <2>4. CASE NoCopyLeft
    BY <2>4 DEF NoCopyLeft
  <2>5. CASE TakeCopy
    BY <2>5 DEF TakeCopy
  <2>6. CASE DescribeCopy
    BY <2>6 DEF DescribeCopy
  <2>7. CASE Unlock
    BY <2>7 DEF Unlock, UnlockOutcome
  <2>8. CASE RestoreHeader
    BY <2>8 DEF RestoreHeader
  <2>9. CASE DecryptChunk
    BY <2>9 DEF DecryptChunk
  <2>10. CASE UnknownMethod
    BY <2>10 DEF UnknownMethod
  <2>11. CASE BodyDone
    BY <2>11 DEF BodyDone
  <2>12. CASE CopyTail
    BY <2>12 DEF CopyTail
  <2>13. CASE ReadFails
    BY <2>13 DEF ReadFails
  <2>14. CASE UNCHANGED vars
    BY <2>14 DEF vars
  <2>15. QED
    BY <2>1, <2>2, <2>3, <2>4, <2>5, <2>6, <2>7, <2>8, <2>9, <2>10, <2>11, <2>12,
       <2>13, <2>14 DEF Next, DecryptStep
<1>3. QED
  BY <1>1, <1>2

LEMMA InfoInvInductive ==
  /\ Init => InfoInv
  /\ LoopInv /\ InfoInv /\ [Next]_vars => InfoInv'
<1>1. Init => InfoInv
  BY DEF Init, InfoInv, Fields, Copies
<1>2. LoopInv /\ InfoInv /\ [Next]_vars => InfoInv'
  <2> SUFFICES ASSUME LoopInv, InfoInv, [Next]_vars
               PROVE  InfoInv'
    OBVIOUS
  <2> USE DEF LoopInv, InfoInv, Copies, Reading, Ended, HealthOf, Describable
  <2>1. CASE CheckCredentials
    BY <2>1 DEF CheckCredentials
  <2>2. CASE FindVolume
    BY <2>2 DEF FindVolume
  <2>3. CASE SkipCopy
    BY <2>3 DEF SkipCopy, Parses
  <2>4. CASE NoCopyLeft
    BY <2>4 DEF NoCopyLeft
  <2>5. CASE TakeCopy
    BY <2>5 DEF TakeCopy
  <2>6. CASE DescribeCopy
    BY <2>6 DEF DescribeCopy, SetFrom, Fields, Parses
  <2>7. CASE Unlock
    BY <2>7 DEF Unlock, UnlockOutcome
  <2>8. CASE RestoreHeader
    BY <2>8 DEF RestoreHeader
  <2>9. CASE DecryptChunk
    BY <2>9 DEF DecryptChunk
  <2>10. CASE UnknownMethod
    BY <2>10 DEF UnknownMethod
  <2>11. CASE BodyDone
    BY <2>11 DEF BodyDone
  <2>12. CASE CopyTail
    BY <2>12 DEF CopyTail
  <2>13. CASE ReadFails
    BY <2>13 DEF ReadFails
  <2>14. CASE UNCHANGED vars
    BY <2>14 DEF vars
  <2>15. QED
    BY <2>1, <2>2, <2>3, <2>4, <2>5, <2>6, <2>7, <2>8, <2>9, <2>10, <2>11, <2>12,
       <2>13, <2>14 DEF Next, DecryptStep
<1>3. QED
  BY <1>1, <1>2

(* decrypt_volume raises an error only when the block its loop arrives at  *)
(* does not serve, or the credential does not.                             *)
THEOREM OneBlockIsEnough == Spec => []OneCopyIsEnough
<1>1. LoopInv /\ ErrorInv => OneCopyIsEnough
  <2> SUFFICES ASSUME LoopInv, ErrorInv, Unlockable
               PROVE  /\ pc \notin {"no_credential", "no_entry", "no_protector", "wrong_key"}
                      /\ ~(pc = "no_metadata" /\ partition = job.volume)
    BY DEF OneCopyIsEnough
  <2>1. PICK j \in Copies : /\ job.copies[j] = "good"
                            /\ j \notin lost
                            /\ \A i \in Copies : i < j => Skipped(i)
    BY DEF Unlockable
  <2>2. pc # "no_credential" /\ pc # "no_protector"
    BY DEF ErrorInv, Unlockable
  <2>3. ~Skipped(j)
    BY <2>1 DEF Skipped
  <2>4. pc # "no_entry" /\ pc # "wrong_key"
    BY <2>1, <2>3 DEF ErrorInv, LoopInv, HealthOf, Skipped, Copies, Unlockable
  <2>5. ~(pc = "no_metadata" /\ partition = job.volume)
    BY <2>3 DEF ErrorInv, LoopInv, Copies
  <2>6. QED
    BY <2>2, <2>4, <2>5
<1>2. QED
  BY <1>1, LoopInvInductive, ErrorInvInductive, PTL DEF Spec

(* get_volume_info, which tries the next block after an exception in the   *)
(* middle of one, never mixes two in what it returns.                      *)
THEOREM DescriptionIsOfOneBlock == Spec => []InfoFromOneBlock
<1>1. LoopInv /\ InfoInv => InfoFromOneBlock
  BY DEF LoopInv, InfoInv, InfoFromOneBlock, Describable, Copies
<1>2. QED
  BY <1>1, LoopInvInductive, InfoInvInductive, PTL DEF Spec

-----------------------------------------------------------------------------
(* Files: functions on the places from 0 on. *)

LEMMA SizeIs ==
  ASSUME NEW n \in Nat, NEW f, DOMAIN f = 0 .. n - 1
  PROVE  Size(f) = n
<1>1. Cardinality(0 .. n - 1) = IF 0 > n - 1 THEN 0 ELSE (n - 1) - 0 + 1
  BY FS_Interval
<1>2. QED
  BY <1>1 DEF Size

(* A read gives the sectors from its place on, as many as are asked for or *)
(* as there are.                                                           *)
LEMMA ReadIs ==
  ASSUME NEW s \in Nat, DOMAIN source = 0 .. s - 1, partition \in Nat,
         NEW at \in Nat, NEW n \in Nat
  PROVE  \E k \in 0 .. n :
           /\ DOMAIN Read(at, n) = 0 .. k - 1
           /\ \A i \in 0 .. k - 1 : /\ partition + (at + i) \in DOMAIN source
                                    /\ Read(at, n)[i] = source[partition + (at + i)]
           /\ k < n => s =< partition + at + k
<1> DEFINE from == partition + at
<1> DEFINE left == IF s > from THEN s - from ELSE 0
<1> DEFINE k == IF n < left THEN n ELSE left
<1>1. Size(source) = s
  BY SizeIs
<1>2. from \in Nat /\ left \in Nat /\ k \in 0 .. n
  OBVIOUS
<1>3. Read(at, n) = [i \in 0 .. k - 1 |-> source[from + i]]
  BY <1>1 DEF Read
<1>4. \A i \in 0 .. k - 1 : from + i \in 0 .. s - 1 /\ from + i = partition + (at + i)
  BY <1>2
<1>5. k < n => s =< partition + at + k
  OBVIOUS
<1> HIDE DEF k, left, from
<1>6. \A i \in 0 .. k - 1 : /\ partition + (at + i) \in DOMAIN source
                            /\ Read(at, n)[i] = source[partition + (at + i)]
  BY <1>3, <1>4
<1>7. QED
  BY <1>2, <1>3, <1>5, <1>6 DEF from

LEMMA EmptyRead ==
  ASSUME DOMAIN source = {}, partition \in Nat, NEW at \in Nat, NEW n \in Nat
  PROVE  DOMAIN Read(at, n) = {}
<1>1. DOMAIN source = 0 .. 0 - 1
  OBVIOUS
<1>2. PICK k \in 0 .. n :
         /\ DOMAIN Read(at, n) = 0 .. k - 1
         /\ \A i \in 0 .. k - 1 : partition + (at + i) \in DOMAIN source
  BY <1>1, ReadIs
<1>3. QED
  BY <1>2

LEMMA JoinedIs ==
  ASSUME NEW a \in Nat, NEW b \in Nat, NEW f, NEW g,
         DOMAIN f = 0 .. a - 1, DOMAIN g = 0 .. b - 1
  PROVE  /\ DOMAIN Joined(f, g) = 0 .. a + b - 1
         /\ \A i \in 0 .. a - 1 : Joined(f, g)[i] = f[i]
         /\ \A i \in a .. a + b - 1 : Joined(f, g)[i] = g[i - a] /\ i - a \in 0 .. b - 1
<1>1. Size(f) = a /\ Size(g) = b
  BY SizeIs
<1>2. Joined(f, g) = [i \in 0 .. a + b - 1 |-> IF i < a THEN f[i] ELSE g[i - a]]
  BY <1>1 DEF Joined
<1>3. /\ \A i \in 0 .. a - 1 : i \in 0 .. a + b - 1 /\ i < a
      /\ \A i \in a .. a + b - 1 : i \in 0 .. a + b - 1 /\ ~ (i < a) /\ i - a \in 0 .. b - 1
  OBVIOUS
<1>4. QED
  BY <1>2, <1>3

LEMMA BackupAtIsNat == BackupAt \in Nat /\ NumHeaderSectors \in Nat
<1>1. SectorSize \in Nat \ {0} /\ VolumeSize \in Nat /\ NumHeaderSectors \in Nat
  BY VolumeConstants, LayoutConstants DEF VolumeSize
<1>2. VolumeHeaderOffset(VolumeSize, SectorSize) \in Nat
  BY <1>1, OffsetsAreNat
<1>3. QED
  BY <1>1, <1>2 DEF BackupAt

LEMMA OpensOriginal ==
  ASSUME NEW at \in Nat, NEW i \in Nat
  PROVE  DecryptSector(Key, at, EncryptSector(Key, at, Original(i))) = Original(i)
<1>1. [kind |-> "data", at |-> i, key |-> 0] \in Base
  BY DEF Base
<1>2. QED
  BY <1>1, DecryptUndoesEncrypt, DecryptorConstants DEF Original

-----------------------------------------------------------------------------
(* The search. *)

(* _find_bitlocker_partition gives an entry that serves, or none does.     *)
LEMMA ScanFinds ==
  ASSUME NEW img, Len(img.table) \in Nat
  PROVE  LET n == FindBitLockerPartition(img)
             serving == {i \in 1 .. Len(img.table) :
                           img.table[i].used /\ Signed(img, img.table[i].start)}
         IN  IF serving = {} THEN n = 0 ELSE n \in serving
<1> DEFINE serving == {i \in 1 .. Len(img.table) :
                         img.table[i].used /\ Signed(img, img.table[i].start)}
<1>1. FindBitLockerPartition(img) = IF serving # {} THEN Seqs!Min(serving) ELSE 0
  BY DEF FindBitLockerPartition, Seqs!SelectInSeq
<1>2. CASE serving # {}
  <2>1. serving \subseteq Nat
    OBVIOUS
  <2>2. \E x \in serving : \A y \in serving : x =< y
    BY <1>2, <2>1, LeastOfNat
  <2>3. Seqs!Min(serving) \in serving
    BY <2>2 DEF Seqs!Min
  <2>4. QED
    BY <1>1, <1>2, <2>3
<1>3. QED
  BY <1>1, <1>2

LEMMA DetectOffsetIs ==
  ASSUME NEW img, Len(img.table) \in Nat
  PROVE  DetectOffset(img) = 0
           \/ \E n \in 1 .. Len(img.table) : DetectOffset(img) = img.table[n].start
BY ScanFinds DEF DetectOffset

(* What the search has found, for as long as the source is there.          *)
SearchInv ==
  /\ job \in Jobs
  /\ source \in {job.source, <<>>}
  /\ pc \in {"start", "detect"} => source = job.source
  /\ Looked /\ source = job.source =>
       /\ partition = DetectOffset(Image)
       /\ pc = "no_header" => ~HeaderReads(Image, partition)

LEMMA SearchInvInductive ==
  /\ Init => SearchInv
  /\ LoopInv /\ SearchInv /\ [Next]_vars => SearchInv'
<1>1. Init => SearchInv
  BY DEF Init, SearchInv, Looked
<1>2. LoopInv /\ SearchInv /\ [Next]_vars => SearchInv'
  <2> SUFFICES ASSUME LoopInv, SearchInv, [Next]_vars
               PROVE  SearchInv'
    OBVIOUS
  <2>1. CASE FindVolume
    <3>1. /\ pc = "detect" /\ UNCHANGED <<job, source>> /\ Image' = Image
          /\ partition' = DetectOffset(Image)
          /\ pc' = IF HeaderReads(Image, partition') THEN "metadata" ELSE "no_header"
      BY <2>1 DEF FindVolume, Image, Size
    <3>2. QED
      BY <3>1 DEF SearchInv
  <2>2. CASE Unlock
    <3>1. /\ pc = "unlock" /\ UNCHANGED <<job, partition>> /\ source' \in {source, <<>>}
          /\ pc' \in {"no_entry", "no_protector", "wrong_key", "header"}
      BY <2>2 DEF Unlock, UnlockOutcome
    <3>2. source' = job.source => source' = source
      BY <3>1 DEF SearchInv
    <3>3. source' = source => Image' = Image
      BY <3>1 DEF Image, Size
    <3>4. QED
      BY <3>1, <3>2, <3>3 DEF SearchInv, Looked
  <2>3. ASSUME UNCHANGED <<job, source, partition>>, Looked' => Looked,
               pc' \in {"start", "detect"} => pc \in {"start", "detect"},
               pc' = "no_header" => pc = "no_header"
        PROVE  SearchInv'
    BY <2>3 DEF SearchInv, Image, Size
  <2>4. CASE CheckCredentials
    BY <2>3, <2>4 DEF CheckCredentials, Looked
  <2>5. CASE SkipCopy \/ NoCopyLeft \/ TakeCopy \/ DescribeCopy
    BY <2>3, <2>5 DEF SkipCopy, NoCopyLeft, TakeCopy, DescribeCopy, Looked
  <2>6. CASE RestoreHeader \/ DecryptChunk \/ UnknownMethod
    BY <2>3, <2>6 DEF RestoreHeader, DecryptChunk, UnknownMethod, Looked
  <2>7. CASE BodyDone \/ CopyTail
    BY <2>3, <2>7 DEF BodyDone, CopyTail, Looked
  <2>8. CASE ReadFails
    BY <2>3, <2>8 DEF ReadFails, Looked, Reading
  <2>9. CASE UNCHANGED vars
    BY <2>3, <2>9 DEF vars, Looked
  <2>10. QED
    BY <2>1, <2>2, <2>4, <2>5, <2>6, <2>7, <2>8, <2>9 DEF Next, DecryptStep
<1>3. QED
  BY <1>1, <1>2

(* detect_bitlocker_offset gives where the volume starts. *)
LEMMA ReachableIsFound ==
  ASSUME IsJob(job), source = job.source, Reachable, OnlySigned
  PROVE  DetectOffset(Image) = job.volume /\ HeaderReads(Image, job.volume)
<1>1. HeaderReads(Image, job.volume)
  BY DEF Reachable
<1>2. Signed(Image, job.volume) /\ job.volume \in Nat /\ Image.sectors \in Int
  <2>1. job.volume \in Nat /\ Size(job.source) \in Nat
    BY FS_CardinalityType DEF IsJob, Size
  <2>2. Image.sectors \in Int
    BY <2>1 DEF Image
  <2>3. QED
    BY <1>1, <2>1, <2>2 DEF Signed, HeaderReads
<1>3. \A i : Signed(Image, i) => i = job.volume
  BY DEF Signed, FaceAt, Blank, Image, OnlySigned
<1>4. CASE job.volume = 0
  BY <1>1, <1>2, <1>4 DEF DetectOffset
<1>5. CASE job.volume # 0
  <2>1. ~Signed(Image, 0)
    BY <1>3, <1>5
  <2>2. PICK m \in 1 .. 4 : job.table[m] = [used |-> TRUE, start |-> job.volume]
    BY <1>5 DEF Reachable
  <2>3. FaceAt(Image, 0).mark
    BY <1>5 DEF Reachable
  <2>4. Image.sectors > 0
    BY <1>2 DEF Signed
  <2>5. Len(Image.table) = 4 /\ Image.table = job.table
    BY DEF IsJob, IsImage, Image
  <2> DEFINE n == FindBitLockerPartition(Image)
  <2>6. n \in 1 .. 4 /\ Signed(Image, Image.table[n].start)
    <3> DEFINE serving == {i \in 1 .. Len(Image.table) :
                             Image.table[i].used /\ Signed(Image, Image.table[i].start)}
    <3>1. m \in serving
      BY <1>2, <2>2, <2>5
    <3>2. n \in serving
      <4>1. Len(Image.table) \in Nat /\ serving # {}
        BY <2>5, <3>1
      <4>2. QED
        BY <4>1, ScanFinds
    <3>3. QED
      BY <2>5, <3>2
  <2> HIDE DEF n
  <2>7. DetectOffset(Image) = Image.table[n].start
    BY <2>1, <2>3, <2>4, <2>6 DEF DetectOffset, n
  <2>8. QED
    BY <1>1, <1>3, <2>6, <2>7
<1>6. QED
  BY <1>4, <1>5

(* partition.py finds a volume behind whatever entries come before its     *)
(* own, and its header is read there.                                      *)
THEOREM VolumeIsFound == Spec => []FindsTheVolume
<1>1. LoopInv /\ SearchInv => FindsTheVolume
  <2> SUFFICES ASSUME SearchInv, Looked, source = job.source, Reachable, OnlySigned
               PROVE  partition = job.volume /\ pc # "no_header"
    BY DEF FindsTheVolume
  <2>1. IsJob(job)
    BY JobsAssumption DEF SearchInv
  <2>2. QED
    BY <2>1, ReachableIsFound DEF SearchInv
<1>2. QED
  BY <1>1, LoopInvInductive, SearchInvInductive, PTL DEF Spec

-----------------------------------------------------------------------------
(* Types. *)
IsFile(f) == \E n \in Nat : DOMAIN f = 0 .. n - 1

(* A block is opened only where a volume is, and a file has no holes.      *)
TypeInv ==
  /\ TypeOK
  /\ IsFile(out)
  /\ pc \in {"unlock", "header", "body", "tail"} => partition = job.volume

(* The numbers of a call and what follows from them. *)
LEMMA JobIs ==
  ASSUME IsJob(job)
  PROVE  /\ Size(job.source) \in Nat
         /\ DOMAIN job.source = 0 .. Size(job.source) - 1
         /\ job.volume \in Nat /\ job.encrypted \in Nat
         /\ Len(job.table) = 4 /\ \A n \in 1 .. 4 : job.table[n].start \in Nat
<1>1. Size(job.source) \in Nat /\ DOMAIN job.source = 0 .. Size(job.source) - 1
  BY FS_CardinalityType DEF IsJob, Size
<1>2. job.table \in Seq(Entry) /\ Len(job.table) = 4
  BY DEF IsJob, IsImage
<1>3. \A n \in 1 .. 4 : job.table[n] \in Entry
  BY <1>2
<1>4. QED
  BY <1>1, <1>2, <1>3 DEF IsJob, Entry

LEMMA SizesAreInt ==
  ASSUME IsJob(job), partition \in Nat
  PROVE  /\ TotalSize \in Int /\ TotalSize =< Size(job.source) - partition
         /\ EncryptedSize \in Int
         /\ TotalSize > EncryptedSize => EncryptedSize \in Nat
BY JobIs DEF TotalSize, EncryptedSize

(* A read gives sectors, and only of a source that is still there. *)
LEMMA ReadIsTyped ==
  ASSUME TypeInv, partition \in Nat, NEW at \in Nat, NEW n \in Nat
  PROVE  \E k \in 0 .. n :
           /\ DOMAIN Read(at, n) = 0 .. k - 1
           /\ \A i \in 0 .. k - 1 : Read(at, n)[i] \in Content
           /\ k > 0 => partition + at + k =< Size(job.source)
<1>1. IsJob(job)
  BY DEF TypeInv, TypeOK
<1>2. CASE source = job.source
  <2>1. PICK s \in Nat : s = Size(job.source) /\ DOMAIN source = 0 .. s - 1
    BY <1>1, <1>2, JobIs
  <2>2. PICK k \in 0 .. n :
           /\ DOMAIN Read(at, n) = 0 .. k - 1
           /\ \A i \in 0 .. k - 1 : /\ partition + (at + i) \in DOMAIN source
                                    /\ Read(at, n)[i] = source[partition + (at + i)]
    BY <2>1, ReadIs
  <2>3. \A i \in 0 .. k - 1 : Read(at, n)[i] \in Content
    BY <1>1, <1>2, <2>2 DEF IsJob
  <2>4. ASSUME k > 0 PROVE partition + at + k =< Size(job.source)
    <3>1. k - 1 \in 0 .. k - 1
      BY <2>4
    <3>2. partition + (at + (k - 1)) \in 0 .. s - 1
      BY <2>1, <2>2, <3>1
    <3>3. QED
      BY <2>1, <2>4, <3>2
  <2>5. QED
    BY <2>2, <2>3, <2>4
<1>3. CASE source = <<>>
  <2>1. DOMAIN Read(at, n) = {}
    BY <1>3, EmptyRead
  <2>2. 0 \in 0 .. n
    OBVIOUS
  <2>3. QED
    BY <2>1, <2>2
<1>4. QED
  BY <1>2, <1>3 DEF TypeInv, TypeOK

(* A file grows by the sectors of a chunk. *)
LEMMA GrowsByChunk ==
  ASSUME TypeInv, partition \in Nat, partition = job.volume,
         NEW n \in Nat, offset \in Nat,
         NEW g, DOMAIN g = DOMAIN Read(offset, n),
         \A i \in DOMAIN g : Read(offset, n)[i] \in Content => g[i] \in Content
  PROVE  /\ IsFile(Joined(out, g))
         /\ \A i \in DOMAIN Joined(out, g) : Joined(out, g)[i] \in Content
         /\ Advanced(offset, Read(offset, n)) \in
              {offset} \cup 0 .. Size(job.source) - job.volume
<1> DEFINE chunk == Read(offset, n)
<1>1. PICK k \in 0 .. n :
         /\ DOMAIN chunk = 0 .. k - 1
         /\ \A i \in 0 .. k - 1 : chunk[i] \in Content
         /\ k > 0 => partition + offset + k =< Size(job.source)
  BY ReadIsTyped
<1>2. k \in Nat
  BY <1>1
<1>3. DOMAIN g = 0 .. k - 1 /\ \A i \in 0 .. k - 1 : g[i] \in Content
  BY <1>1
<1>4. PICK a \in Nat : DOMAIN out = 0 .. a - 1
  BY DEF TypeInv, IsFile
<1>5. \A i \in 0 .. a - 1 : out[i] \in Content
  BY <1>4 DEF TypeInv, TypeOK
<1> HIDE DEF chunk
<1>6. /\ DOMAIN Joined(out, g) = 0 .. a + k - 1
      /\ \A i \in 0 .. a - 1 : Joined(out, g)[i] = out[i]
      /\ \A i \in a .. a + k - 1 : Joined(out, g)[i] = g[i - a] /\ i - a \in 0 .. k - 1
  BY <1>2, <1>3, <1>4, JoinedIs
<1>7. \A i \in 0 .. a + k - 1 : i \in 0 .. a - 1 \/ i \in a .. a + k - 1
  BY <1>2
<1>8. \A i \in DOMAIN Joined(out, g) : Joined(out, g)[i] \in Content
  BY <1>3, <1>5, <1>6, <1>7
<1>9. IsFile(Joined(out, g))
  <2> USE DEF IsFile
  <2>1. a + k \in Nat
    BY <1>2
  <2>2. WITNESS a + k \in Nat
  <2>3. QED
    BY <1>6
<1>10. Advanced(offset, chunk) = offset + k
  BY <1>1, <1>2, SizeIs DEF Advanced
<1>11. Size(job.source) \in Nat /\ job.volume \in Nat
  BY JobIs DEF TypeInv, TypeOK
<1>12. offset + k \in {offset} \cup 0 .. Size(job.source) - job.volume
  BY <1>1, <1>2, <1>11
<1>13. QED
  BY <1>8, <1>9, <1>10, <1>12 DEF chunk

(* A file is as long as it has sectors. *)
LEMMA FileHasNoHole ==
  ASSUME NEW f, IsFile(f)
  PROVE  DOMAIN f = 0 .. Size(f) - 1
<1>1. PICK n \in Nat : DOMAIN f = 0 .. n - 1
  BY DEF IsFile
<1>2. Size(f) = n
  BY <1>1, SizeIs
<1>3. QED
  BY <1>1, <1>2

LEMMA PlainsAreContent ==
  /\ Zero \in Content
  /\ IsFile(<<>>) /\ IsFile(Previous) /\ IsFile([i \in HeaderSectors |-> Zero])
  /\ \A i \in DOMAIN Previous : Previous[i] \in Content
<1>1. [kind |-> "zero", at |-> 0, key |-> 0] \in Base
  BY DEF Base
<1>2. Zero \in Content
  BY <1>1, PlainIsContent DEF Zero
<1>3. DOMAIN Previous = 0 .. 1 - 1 /\ DOMAIN (<<>>) = 0 .. 0 - 1
  BY DEF Previous
<1>4. DOMAIN [i \in HeaderSectors |-> Zero] = 0 .. NumHeaderSectors - 1
  BY DEF HeaderSectors
<1>5. 0 \in Nat /\ 1 \in Nat
  OBVIOUS
<1>6. QED
  BY <1>2, <1>3, <1>4, <1>5, BackupAtIsNat DEF IsFile, Previous

(* Each step keeps the types. *)
LEMMA HeaderIsTyped ==
  ASSUME TypeInv, RestoreHeader
  PROVE  TypeInv'
<1>1. /\ pc = "header" /\ pc' = "body" /\ offset' = NumHeaderSectors
      /\ UNCHANGED <<job, source, partition, copy, lost, info>> /\ partition = job.volume
  BY DEF RestoreHeader, TypeInv
<1>2. partition \in Nat
  BY <1>1, JobIs DEF TypeInv, TypeOK
<1>3. IsFile(out') /\ \A i \in DOMAIN out' : out'[i] \in Content
  <2>1. CASE job.backup
    <3> DEFINE piece == Read(BackupAt, NumHeaderSectors)
    <3>1. out' = [i \in DOMAIN piece |-> DecryptSector(Key, BackupAt + i, piece[i])]
      BY <2>1 DEF RestoreHeader, DecryptSectors
    <3>2. PICK k \in 0 .. NumHeaderSectors :
             /\ DOMAIN piece = 0 .. k - 1
             /\ \A i \in 0 .. k - 1 : piece[i] \in Content
      BY <1>2, BackupAtIsNat, ReadIsTyped
    <3> HIDE DEF piece
    <3>3. k \in Nat /\ \A i \in 0 .. k - 1 : BackupAt + i \in Nat
      BY BackupAtIsNat
    <3>4. \A i \in 0 .. k - 1 : out'[i] \in Content
      BY <3>1, <3>2, <3>3, DecryptorConstants, CipherIsContent
    <3>5. QED
      BY <3>1, <3>2, <3>3, <3>4 DEF IsFile
  <2>2. CASE ~job.backup
    BY <2>2, PlainsAreContent DEF RestoreHeader
  <2>3. QED
    BY <2>1, <2>2
<1>4. DOMAIN out' = 0 .. Size(out') - 1
  BY <1>3, FileHasNoHole
<1>5. QED
  BY <1>1, <1>3, <1>4 DEF TypeInv, TypeOK, Reading, Size

LEMMA ChunkIsTyped ==
  ASSUME TypeInv, DecryptChunk
  PROVE  TypeInv'
<1> DEFINE n == ChunkLength(offset)
<1> DEFINE chunk == Read(offset, n)
<1>1. /\ pc = "body" /\ pc' = "body" /\ offset < EncryptedSize
      /\ UNCHANGED <<job, source, partition, copy, lost, info>> /\ partition = job.volume
      /\ out' = Joined(out, Decoded(offset, chunk)) /\ offset' = Advanced(offset, chunk)
  BY DEF DecryptChunk, TypeInv
<1>2. /\ partition \in Nat /\ EncryptedSize \in Int
      /\ Size(job.source) \in Nat /\ job.volume \in Nat
  BY <1>1, JobIs, SizesAreInt DEF TypeInv, TypeOK
<1>3. offset \in Nat
  BY <1>2, BackupAtIsNat DEF TypeInv, TypeOK
<1>4. n \in Nat
  BY <1>1, <1>2, <1>3, DecryptorConstants DEF ChunkLength
<1> HIDE DEF n
<1>5. \A i \in DOMAIN chunk : i \in Nat
  <2>1. \E k \in 0 .. n : DOMAIN chunk = 0 .. k - 1
    BY <1>2, <1>3, <1>4, ReadIsTyped
  <2>2. QED
    BY <2>1
<1>6. DOMAIN Decoded(offset, chunk) = DOMAIN chunk
      /\ \A i \in DOMAIN chunk : chunk[i] \in Content => Decoded(offset, chunk)[i] \in Content
  <2>1. ASSUME NEW i \in DOMAIN chunk, chunk[i] \in Content
        PROVE  DecryptSector(Key, offset + i, chunk[i]) \in Content
    <3>1. offset + i \in Nat
      BY <1>3, <1>5
    <3>2. QED
      BY <2>1, <3>1, DecryptorConstants, CipherIsContent
  <2> HIDE DEF chunk
  <2>2. QED
    BY <2>1 DEF Decoded, DecryptSectors
<1>7. /\ IsFile(out')
      /\ \A i \in DOMAIN out' : out'[i] \in Content
      /\ offset' \in {offset} \cup 0 .. Size(job.source) - job.volume
  BY <1>1, <1>2, <1>3, <1>4, <1>6, GrowsByChunk
<1>8. DOMAIN out' = 0 .. Size(out') - 1
  BY <1>7, FileHasNoHole
<1>9. QED
  BY <1>1, <1>7, <1>8 DEF TypeInv, TypeOK, Reading, Size

LEMMA TailIsTyped ==
  ASSUME TypeInv, CopyTail
  PROVE  TypeInv'
<1> DEFINE chunk == Read(offset, ChunkSectors)
<1>1. /\ pc = "tail" /\ pc' \in {"tail", "done"}
      /\ UNCHANGED <<job, source, partition, copy, lost, info>> /\ partition = job.volume
      /\ \/ out' = out /\ offset' = offset
         \/ out' = Joined(out, chunk) /\ offset' = Advanced(offset, chunk)
  BY DEF CopyTail, TypeInv
<1>2. partition \in Nat /\ Size(job.source) \in Nat /\ job.volume \in Nat
  BY <1>1, JobIs DEF TypeInv, TypeOK
<1>3. offset \in Nat
  BY <1>2, BackupAtIsNat DEF TypeInv, TypeOK
<1>4. /\ IsFile(out')
      /\ \A i \in DOMAIN out' : out'[i] \in Content
      /\ offset' \in {offset} \cup 0 .. Size(job.source) - job.volume
  <2>1. CASE out' = out /\ offset' = offset
    BY <2>1 DEF TypeInv, TypeOK
  <2>2. CASE out' = Joined(out, chunk) /\ offset' = Advanced(offset, chunk)
    BY <1>1, <1>2, <1>3, <2>2, DecryptorConstants, GrowsByChunk
  <2>3. QED
    BY <1>1, <2>1, <2>2
<1>5. DOMAIN out' = 0 .. Size(out') - 1
  BY <1>4, FileHasNoHole
<1>6. QED
  BY <1>1, <1>4, <1>5 DEF TypeInv, TypeOK, Reading, Ended, Size

LEMMA NextIsTyped ==
  ASSUME TypeInv, LoopInv, LoopInv', [Next]_vars
  PROVE  TypeInv'
<1> USE DEF Size
<1>1. CASE CheckCredentials
  BY <1>1 DEF CheckCredentials, TypeInv, TypeOK, Reading, Ended
<1>2. CASE FindVolume
  <2>1. /\ UNCHANGED <<job, source, out, copy, offset, lost, info>>
        /\ partition' = DetectOffset(Image) /\ pc' \in {"metadata", "no_header"}
    BY <1>2 DEF FindVolume
  <2>2. Len(job.table) = 4 /\ Image.table = job.table
    BY JobIs DEF TypeInv, TypeOK, Image
  <2>3. DetectOffset(Image) = 0 \/ \E n \in 1 .. 4 : DetectOffset(Image) = job.table[n].start
    <3>1. Len(Image.table) = 4 /\ Len(Image.table) \in Nat
      BY <2>2
    <3>2. QED
      BY <2>2, <3>1, DetectOffsetIs
  <2>4. QED
    BY <2>1, <2>3 DEF TypeInv, TypeOK, Reading, Ended
<1>3. CASE SkipCopy \/ NoCopyLeft \/ DescribeCopy
  <2>1. /\ UNCHANGED <<job, source, out, partition, offset, lost>>
        /\ pc' \in {"metadata", "no_metadata", "shown"}
    BY <1>3 DEF SkipCopy, NoCopyLeft, DescribeCopy
  <2>2. info' \in [Fields -> {0} \cup Copies]
    BY <1>3 DEF SkipCopy, NoCopyLeft, DescribeCopy, TypeInv, TypeOK
  <2>3. QED
    BY <2>1, <2>2 DEF TypeInv, TypeOK, Reading, Ended, LoopInv
<1>4. CASE TakeCopy
  <2>1. UNCHANGED <<job, source, out, partition, copy, offset, lost, info>> /\ pc' = "unlock"
    BY <1>4 DEF TakeCopy
  <2>2. partition = job.volume
    BY <1>4 DEF TakeCopy, Parses, HealthOf
  <2>3. QED
    BY <2>1, <2>2 DEF TypeInv, TypeOK
<1>5. CASE Unlock
  <2>1. /\ pc = "unlock" /\ UNCHANGED <<job, partition, copy, offset, lost, info>>
        /\ pc' \in {"no_entry", "no_protector", "wrong_key", "header"}
        /\ out' \in {out, <<>>} /\ source' \in {source, <<>>}
    BY <1>5 DEF Unlock, UnlockOutcome
  <2>2. IsFile(out') /\ \A i \in DOMAIN out' : out'[i] \in Content
    BY <2>1, PlainsAreContent DEF TypeInv, TypeOK
  <2>3. DOMAIN out' = 0 .. Size(out') - 1
    BY <2>2, FileHasNoHole
  <2>4. QED
    BY <2>1, <2>2, <2>3 DEF TypeInv, TypeOK, Reading, Ended
<1>6. CASE RestoreHeader
  BY <1>6, HeaderIsTyped
<1>7. CASE DecryptChunk
  BY <1>7, ChunkIsTyped
<1>8. CASE BodyDone
  <2>1. /\ pc = "body" /\ UNCHANGED <<job, source, out, partition, copy, lost, info>>
        /\ partition = job.volume /\ pc' \in {"tail", "done"}
        /\ \/ offset' = offset
           \/ TotalSize > EncryptedSize /\ offset' = EncryptedSize
    BY <1>8 DEF BodyDone, TypeInv
  <2>2. partition \in Nat /\ Size(job.source) \in Nat /\ job.volume \in Nat
    BY <2>1, JobIs DEF TypeInv, TypeOK
  <2>3. offset' \in {offset} \cup 0 .. Size(job.source) - job.volume
    BY <2>1, <2>2, SizesAreInt DEF TypeInv, TypeOK
  <2>4. QED
    BY <2>1, <2>3 DEF TypeInv, TypeOK, Reading, Ended
<1>9. CASE CopyTail
  BY <1>9, TailIsTyped
<1>10. CASE UnknownMethod
  BY <1>10 DEF UnknownMethod, TypeInv, TypeOK, Reading, Ended
<1>11. CASE ReadFails
  <2>1. /\ pc \in Reading /\ UNCHANGED <<job, source, out, partition, offset, info>>
        /\ pc' \in {"metadata", "unread", "cut"}
    BY <1>11 DEF ReadFails
  <2>2. lost' \subseteq Copies
    BY DEF LoopInv
  <2>3. QED
    BY <2>1, <2>2 DEF TypeInv, TypeOK, Reading, Ended, LoopInv
<1>12. CASE UNCHANGED vars
  BY <1>12 DEF vars, TypeInv, TypeOK
<1>13. QED
  BY <1>1, <1>2, <1>3, <1>4, <1>5, <1>6, <1>7, <1>8, <1>9, <1>10, <1>11, <1>12
     DEF Next, DecryptStep

(* The types of a decryption: what goes out is a file of sectors without a *)
(* hole, the position is in the volume or at the end of the header, which  *)
(* is written whole, and a partition is the start of the file or an        *)
(* entry's.                                                                *)
THEOREM DecryptorTypes == Spec => []TypeOK
<1>1. Init => TypeInv
  <2> SUFFICES ASSUME Init PROVE TypeInv
    OBVIOUS
  <2>1. IsJob(job)
    BY JobsAssumption DEF Init
  <2>2. IsFile(out) /\ \A i \in DOMAIN out : out[i] \in Content
    BY PlainsAreContent DEF Init
  <2>3. DOMAIN out = 0 .. Size(out) - 1
    BY <2>2, FileHasNoHole
  <2>4. QED
    BY <2>1, <2>2, <2>3 DEF Init, TypeInv, TypeOK, Fields, Copies
<1>2. TypeInv /\ LoopInv /\ LoopInv' /\ [Next]_vars => TypeInv'
  BY NextIsTyped
<1>3. TypeInv => TypeOK
  BY DEF TypeInv
<1>4. QED
  BY <1>1, <1>2, <1>3, LoopInvInductive, PTL DEF Spec

-----------------------------------------------------------------------------
(* Where on the volume a sector is stored, and what decrypt_volume makes   *)
(* of what is there.                                                       *)
PlaceOf(i) == IF i \in HeaderSectors THEN BackupAt + i ELSE i

Enciphered(i) == i \in HeaderSectors \/ (i < EncryptedPart(job) /\ ~IsPartial(job, i))

Yielded(i) ==
  IF Enciphered(i)
  THEN DecryptSector(Key, PlaceOf(i), job.source[job.volume + PlaceOf(i)])
  ELSE job.source[job.volume + PlaceOf(i)]

(* What is written is what the volume yields, sector for sector.           *)
Right(file) ==
  \A i \in DOMAIN file :
    job.volume + PlaceOf(i) \in DOMAIN job.source /\ file[i] = Yielded(i)

SoundJob == IsJob(job) /\ (job.backup => HoldsBackup(job))

(* While sectors are copied the output is as long as the offset says, or   *)
(* there is nothing to copy, the source being the output.  A run is done   *)
(* when the source has no more.                                            *)
CopyInv ==
  /\ SoundJob
  /\ source = job.source \/ (DOMAIN source = {} /\ job.aliased)
  /\ pc \in {"unlock", "header", "body", "tail", "done"} => partition = job.volume
  /\ pc = "header" => DOMAIN out = {}
  /\ pc \in {"body", "tail"} /\ job.backup =>
       /\ offset \in Nat /\ NumHeaderSectors =< offset
       /\ source # job.source => DOMAIN out = {}
  /\ pc \in {"body", "tail", "done"} /\ job.backup /\ source = job.source =>
       /\ offset \in Nat
       /\ DOMAIN out = 0 .. offset - 1
       /\ pc = "body" => offset =< EncryptedSize
       /\ pc = "tail" => EncryptedSize =< offset
       /\ pc = "done" => TotalSize =< offset
  /\ pc \in Opened /\ job.backup => Right(out)

(* The source of a job, while it is whole. *)
LEMMA SourceIs ==
  ASSUME SoundJob, job.backup, partition = job.volume
  PROVE  /\ \E s \in Nat : DOMAIN job.source = 0 .. s - 1 /\ Size(job.source) = s
         /\ partition \in Nat
         /\ EncryptedSize = EncryptedPart(job)
         /\ EncryptedSize \in Int /\ TotalSize \in Int
         /\ NumHeaderSectors =< EncryptedSize
         /\ \A i \in HeaderSectors : partition + (BackupAt + i) \in DOMAIN job.source
<1>1. EncryptedSize = EncryptedPart(job)
  BY DEF EncryptedSize, EncryptedPart, TotalSize, Size
<1>2. HoldsBackup(job)
  BY DEF SoundJob
<1>3. QED
  BY <1>1, <1>2, JobIs, SizesAreInt DEF SoundJob, HoldsBackup

(* A file grows by a right piece. *)
LEMMA JoinedIsRight ==
  ASSUME NEW a \in Nat, NEW b \in Nat, NEW f, NEW g,
         DOMAIN f = 0 .. a - 1, DOMAIN g = 0 .. b - 1, Right(f),
         \A x \in 0 .. b - 1 : /\ job.volume + PlaceOf(a + x) \in DOMAIN job.source
                               /\ g[x] = Yielded(a + x)
  PROVE  Right(Joined(f, g))
<1>1. /\ DOMAIN Joined(f, g) = 0 .. a + b - 1
      /\ \A i \in 0 .. a - 1 : Joined(f, g)[i] = f[i]
      /\ \A i \in a .. a + b - 1 : Joined(f, g)[i] = g[i - a] /\ i - a \in 0 .. b - 1
  BY JoinedIs
<1> SUFFICES ASSUME NEW i \in DOMAIN Joined(f, g)
             PROVE  /\ job.volume + PlaceOf(i) \in DOMAIN job.source
                    /\ Joined(f, g)[i] = Yielded(i)
  BY DEF Right
<1>2. i \in 0 .. a + b - 1
  BY <1>1
<1>3. CASE i < a
  <2>1. i \in 0 .. a - 1
    BY <1>2, <1>3
  <2>2. QED
    BY <1>1, <2>1 DEF Right
<1>4. CASE ~ (i < a)
  <2>1. i \in a .. a + b - 1
    BY <1>2, <1>4
  <2>2. i - a \in 0 .. b - 1 /\ a + (i - a) = i
    BY <2>1
  <2>3. job.volume + PlaceOf(i) \in DOMAIN job.source /\ g[i - a] = Yielded(i)
    BY <2>2
  <2>4. QED
    BY <1>1, <2>1, <2>3
<1>5. QED
  BY <1>3, <1>4

(* A sector beyond the header is stored at its own place. *)
LEMMA BeyondHeader ==
  ASSUME SoundJob, job.backup, partition = job.volume, NEW i \in Nat,
         NumHeaderSectors =< i
  PROVE  /\ i \notin HeaderSectors /\ PlaceOf(i) = i
         /\ Enciphered(i) <=> i < EncryptedSize /\ ~IsPartial(job, i)
<1>1. i \notin HeaderSectors
  BY BackupAtIsNat DEF HeaderSectors
<1>2. QED
  BY <1>1, SourceIs DEF PlaceOf, Enciphered

(* What the invariant says of a file is about the job, which stays.        *)
LEMMA JobStays ==
  ASSUME job' = job
  PROVE  /\ partition' = partition => EncryptedSize' = EncryptedSize /\ TotalSize' = TotalSize
         /\ Right(out)' <=> Right(out')
         /\ SoundJob' <=> SoundJob
<1>1. partition' = partition => EncryptedSize' = EncryptedSize /\ TotalSize' = TotalSize
  BY DEF EncryptedSize, TotalSize, Size
<1>2. Right(out)' <=> Right(out')
  BY DEF Right, Yielded, Enciphered, PlaceOf, EncryptedPart, IsPartial
<1>3. SoundJob' <=> SoundJob
  BY DEF SoundJob, IsJob, HoldsBackup, EncryptedPart
<1>4. QED
  BY <1>1, <1>2, <1>3

(* Each step of the output keeps it a right beginning.                     *)
LEMMA HeaderIsRight ==
  ASSUME CopyInv, RestoreHeader
  PROVE  CopyInv'
<1> USE DEF CopyInv
<1>1. /\ pc = "header" /\ pc' = "body" /\ offset' = NumHeaderSectors
      /\ UNCHANGED <<job, source, partition>> /\ partition = job.volume
  BY DEF RestoreHeader
<1>2. /\ EncryptedSize' = EncryptedSize /\ TotalSize' = TotalSize
      /\ Right(out)' <=> Right(out')
      /\ SoundJob' /\ SoundJob
  BY <1>1, JobStays
<1>3. SUFFICES ASSUME job.backup
               PROVE  /\ source # job.source => DOMAIN out' = {}
                      /\ source = job.source => /\ DOMAIN out' = 0 .. NumHeaderSectors - 1
                                                /\ NumHeaderSectors =< EncryptedSize
                      /\ Right(out')
  BY <1>1, <1>2, BackupAtIsNat DEF Opened
<1> DEFINE piece == Read(BackupAt, NumHeaderSectors)
<1>4. out' = DecryptSectors(Key, BackupAt, piece)
  BY <1>3 DEF RestoreHeader
<1>5. DOMAIN out' = DOMAIN piece
      /\ \A i \in DOMAIN piece : out'[i] = DecryptSector(Key, BackupAt + i, piece[i])
  BY <1>4 DEF DecryptSectors
<1> HIDE DEF piece
<1>6. /\ partition \in Nat /\ NumHeaderSectors =< EncryptedSize
      /\ \A i \in HeaderSectors : partition + (BackupAt + i) \in DOMAIN job.source
      /\ \E s \in Nat : DOMAIN job.source = 0 .. s - 1
  BY <1>1, <1>2, <1>3, SourceIs
<1>7. CASE source # job.source
  <2>1. DOMAIN piece = {}
    BY <1>6, <1>7, BackupAtIsNat, EmptyRead DEF piece
  <2>2. QED
    BY <1>5, <1>7, <2>1 DEF Right
<1>8. CASE source = job.source
  <2>1. PICK s \in Nat : DOMAIN source = 0 .. s - 1
    BY <1>6, <1>8
  <2>2. PICK k \in 0 .. NumHeaderSectors :
           /\ DOMAIN piece = 0 .. k - 1
           /\ \A i \in 0 .. k - 1 : piece[i] = source[partition + (BackupAt + i)]
           /\ k < NumHeaderSectors => s =< partition + BackupAt + k
    BY <1>6, <2>1, BackupAtIsNat, ReadIs DEF piece
  <2>3. \A i \in HeaderSectors : partition + (BackupAt + i) \in DOMAIN source
    BY <1>6, <1>8
  <2>4. k = NumHeaderSectors
    <3>1. SUFFICES ASSUME k < NumHeaderSectors PROVE FALSE
      BY <2>2, BackupAtIsNat
    <3>2. k \in HeaderSectors
      BY <2>2, <3>1, BackupAtIsNat DEF HeaderSectors
    <3>3. partition + (BackupAt + k) \in 0 .. s - 1
      BY <2>1, <2>3, <3>2
    <3>4. QED
      BY <1>6, <2>2, <3>1, <3>3, BackupAtIsNat
  <2>5. \A i \in 0 .. NumHeaderSectors - 1 :
          job.volume + PlaceOf(i) \in DOMAIN job.source /\ out'[i] = Yielded(i)
    <3> TAKE i \in 0 .. NumHeaderSectors - 1
    <3>1. i \in HeaderSectors
      BY DEF HeaderSectors
    <3>2. PlaceOf(i) = BackupAt + i /\ Enciphered(i)
      BY <3>1 DEF PlaceOf, Enciphered
    <3>3. out'[i] = DecryptSector(Key, BackupAt + i, source[partition + (BackupAt + i)])
      BY <1>5, <2>2, <2>4
    <3>4. QED
      BY <1>1, <1>8, <2>3, <3>1, <3>2, <3>3 DEF Yielded
  <2>6. DOMAIN out' = 0 .. NumHeaderSectors - 1
    BY <1>5, <2>2, <2>4
  <2>7. QED
    BY <1>6, <1>8, <2>5, <2>6 DEF Right
<1>9. QED
  BY <1>7, <1>8

LEMMA ChunkIsRight ==
  ASSUME CopyInv, DecryptChunk
  PROVE  CopyInv'
<1> USE DEF CopyInv
<1>1. /\ pc = "body" /\ pc' = "body" /\ offset < EncryptedSize
      /\ UNCHANGED <<job, source, partition>> /\ partition = job.volume
  BY DEF DecryptChunk
<1>2. /\ EncryptedSize' = EncryptedSize /\ TotalSize' = TotalSize
      /\ Right(out)' <=> Right(out')
      /\ SoundJob' /\ SoundJob
  BY <1>1, JobStays
<1> DEFINE n == ChunkLength(offset)
<1> DEFINE chunk == Read(offset, n)
<1>3. chunk # <<>> /\ out' = Joined(out, Decoded(offset, chunk)) /\ offset' = Advanced(offset, chunk)
  BY DEF DecryptChunk
<1> HIDE DEF n, chunk
<1>4. CASE ~ job.backup
  BY <1>1, <1>2, <1>4 DEF Opened
<1>5. CASE job.backup /\ source # job.source
  <2>1. partition \in Nat /\ EncryptedSize \in Int /\ offset \in Nat
    BY <1>1, <1>5, SourceIs
  <2>2. n \in Nat
    BY <1>1, <2>1, DecryptorConstants DEF n, ChunkLength
  <2>3. DOMAIN source = {} /\ DOMAIN out = 0 .. 0 - 1
    BY <1>1, <1>5
  <2>4. DOMAIN chunk = 0 .. 0 - 1
    BY <2>1, <2>2, <2>3, EmptyRead DEF chunk
  <2>5. DOMAIN Decoded(offset, chunk) = 0 .. 0 - 1
    BY <2>4 DEF Decoded
  <2>6. DOMAIN out' = 0 .. 0 + 0 - 1
    BY <1>3, <2>3, <2>5, JoinedIs
  <2>7. offset' = offset
    BY <1>3, <2>1, <2>4, SizeIs DEF Advanced
  <2>8. Right(out')
    BY <2>6 DEF Right
  <2>9. QED
    BY <1>1, <1>2, <1>5, <2>6, <2>7, <2>8
<1>6. CASE job.backup /\ source = job.source
  <2>1. /\ partition \in Nat /\ EncryptedSize \in Int
        /\ offset \in Nat /\ NumHeaderSectors =< offset
        /\ DOMAIN out = 0 .. offset - 1 /\ Right(out)
    BY <1>1, <1>6, SourceIs DEF Opened
  <2>2. PICK s \in Nat : DOMAIN source = 0 .. s - 1 /\ Size(source) = s
    BY <1>1, <1>6, SourceIs
  <2>3. n \in Nat /\ offset + n =< EncryptedSize
    BY <1>1, <2>1, DecryptorConstants DEF n, ChunkLength
  <2>4. PICK k \in 0 .. n :
           /\ DOMAIN chunk = 0 .. k - 1
           /\ \A i \in 0 .. k - 1 : /\ partition + (offset + i) \in DOMAIN source
                                    /\ chunk[i] = source[partition + (offset + i)]
    BY <2>1, <2>2, <2>3, ReadIs DEF chunk
  <2>5. k \in Nat /\ Size(chunk) = k
    BY <2>3, <2>4, SizeIs
  <2>6. /\ DOMAIN Decoded(offset, chunk) = 0 .. k - 1
        /\ \A x \in 0 .. k - 1 : Decoded(offset, chunk)[x] =
             IF IsPartial(job, offset + x) THEN chunk[x]
             ELSE DecryptSector(Key, offset + x, chunk[x])
    <3>1. ASSUME NEW x \in 0 .. k - 1
          PROVE  PartialAt(offset + x) <=> IsPartial(job, offset + x)
      BY <1>1, <1>6 DEF PartialAt, IsPartial, Size
    <3>2. QED
      BY <2>4, <3>1 DEF Decoded, Whole, DecryptSectors
  <2>7. ASSUME NEW x \in 0 .. k - 1
        PROVE  /\ job.volume + PlaceOf(offset + x) \in DOMAIN job.source
               /\ Decoded(offset, chunk)[x] = Yielded(offset + x)
    <3> DEFINE i == offset + x
    <3>1. i \in Nat /\ NumHeaderSectors =< i /\ i < EncryptedSize
      BY <2>1, <2>3, <2>4, BackupAtIsNat
    <3>2. partition + i \in DOMAIN job.source /\ chunk[x] = job.source[partition + i]
      BY <1>6, <2>4
    <3>3. Decoded(offset, chunk)[x] =
            IF IsPartial(job, i) THEN chunk[x] ELSE DecryptSector(Key, i, chunk[x])
      BY <2>6
    <3> HIDE DEF i
    <3>4. i \notin HeaderSectors /\ PlaceOf(i) = i
          /\ (Enciphered(i) <=> i < EncryptedSize /\ ~IsPartial(job, i))
      BY <1>1, <1>2, <1>6, <3>1, BeyondHeader
    <3>5. /\ job.volume + PlaceOf(i) \in DOMAIN job.source
          /\ Decoded(offset, chunk)[x] = Yielded(i)
      BY <1>1, <3>1, <3>2, <3>3, <3>4 DEF Yielded
    <3>6. QED
      BY <3>5 DEF i
  <2>8. Right(out')
    BY <1>3, <2>1, <2>5, <2>6, <2>7, JoinedIsRight
  <2>9. DOMAIN out' = 0 .. offset + k - 1
    <3>1. out' = Joined(out, Decoded(offset, chunk))
      BY <1>3
    <3>2. DOMAIN Decoded(offset, chunk) = 0 .. k - 1 /\ DOMAIN out = 0 .. offset - 1
      BY <2>1, <2>6
    <3> DEFINE decoded == Decoded(offset, chunk)
    <3> HIDE DEF decoded
    <3>3. DOMAIN Joined(out, decoded) = 0 .. offset + k - 1
      <4>1. DOMAIN decoded = 0 .. k - 1 /\ offset \in Nat /\ k \in Nat
        BY <2>1, <2>5, <3>2 DEF decoded
      <4>2. QED
        BY <3>2, <4>1, JoinedIs
    <3>4. QED
      BY <3>1, <3>3 DEF decoded
  <2>10. offset' = offset + k
    BY <1>3, <2>5 DEF Advanced
  <2>11. offset' \in Nat /\ NumHeaderSectors =< offset' /\ offset' =< EncryptedSize
    BY <2>1, <2>3, <2>4, <2>5, <2>10, BackupAtIsNat
  <2>12. QED
    BY <1>1, <1>2, <1>6, <2>8, <2>9, <2>10, <2>11
<1>7. QED
  BY <1>4, <1>5, <1>6

(* Nothing is read only at the end of the source. *)
LEMMA NothingLeft ==
  ASSUME NEW s \in Nat, DOMAIN source = 0 .. s - 1, partition \in Nat, offset \in Nat,
         NEW n \in Nat \ {0}, Read(offset, n) = <<>>
  PROVE  s =< partition + offset
<1>1. PICK k \in 0 .. n :
         /\ DOMAIN Read(offset, n) = 0 .. k - 1
         /\ k < n => s =< partition + offset + k
  BY ReadIs
<1>2. DOMAIN Read(offset, n) = {}
  OBVIOUS
<1>3. k = 0
  BY <1>1, <1>2
<1>4. QED
  BY <1>1, <1>3

(* The rest begins where the encrypted part ends, unless there is none.    *)
LEMMA BodyEndIsRight ==
  ASSUME CopyInv, BodyDone
  PROVE  CopyInv'
<1> USE DEF CopyInv
<1>1. /\ pc = "body" /\ AtEnd /\ UNCHANGED <<job, source, partition, out>>
      /\ partition = job.volume
      /\ \/ pc' = "tail" /\ TotalSize > EncryptedSize /\ offset' = EncryptedSize
         \/ pc' = "done" /\ ~ (TotalSize > EncryptedSize) /\ offset' = offset
  BY DEF BodyDone
<1>2. /\ EncryptedSize' = EncryptedSize /\ TotalSize' = TotalSize
      /\ Right(out)' <=> Right(out')
      /\ SoundJob' /\ SoundJob
  BY <1>1, JobStays
<1>3. job.backup => Right(out)'
  BY <1>1, <1>2 DEF Opened
<1>4. CASE ~ job.backup
  BY <1>1, <1>2, <1>4
<1>5. CASE job.backup /\ source # job.source
  <2>1. EncryptedSize \in Int /\ NumHeaderSectors =< EncryptedSize
    BY <1>1, <1>2, <1>5, SourceIs
  <2>2. /\ pc' = "tail" => offset' \in Nat /\ NumHeaderSectors =< offset'
        /\ DOMAIN out' = {} /\ source' # job'.source
    BY <1>1, <1>5, <2>1, BackupAtIsNat
  <2>3. QED
    BY <1>1, <1>2, <1>3, <1>5, <2>2
<1>6. CASE job.backup /\ source = job.source
  <2>1. /\ partition \in Nat /\ EncryptedSize \in Int /\ TotalSize \in Int
        /\ offset \in Nat /\ NumHeaderSectors =< offset /\ offset =< EncryptedSize
        /\ DOMAIN out = 0 .. offset - 1
    BY <1>1, <1>2, <1>6, SourceIs
  <2>2. PICK s \in Nat : DOMAIN source = 0 .. s - 1 /\ Size(source) = s
    BY <1>1, <1>2, <1>6, SourceIs
  <2>3. TotalSize =< s - partition
    BY <1>6, <2>1, <2>2 DEF TotalSize
  <2>4. offset = EncryptedSize \/ TotalSize =< offset
    <3>1. SUFFICES ASSUME offset < EncryptedSize PROVE TotalSize =< offset
      BY <2>1
    <3> DEFINE n == ChunkLength(offset)
    <3>2. n \in Nat \ {0}
      BY <2>1, <3>1, DecryptorConstants DEF ChunkLength
    <3>3. Read(offset, n) = <<>>
      BY <1>1, <2>1, <3>1 DEF AtEnd
    <3> HIDE DEF n
    <3>4. s =< partition + offset
      BY <2>1, <2>2, <3>2, <3>3, NothingLeft
    <3>5. QED
      BY <2>1, <2>2, <2>3, <3>4
  <2>5. /\ offset' \in Nat /\ offset' = offset
        /\ pc' = "tail" => EncryptedSize =< offset'
        /\ pc' = "done" => TotalSize =< offset'
    BY <1>1, <2>1, <2>4
  <2>6. QED
    BY <1>1, <1>2, <1>3, <1>6, <2>1, <2>5
<1>7. QED
  BY <1>4, <1>5, <1>6

LEMMA TailIsRight ==
  ASSUME CopyInv, CopyTail
  PROVE  CopyInv'
<1> USE DEF CopyInv
<1> DEFINE chunk == Read(offset, ChunkSectors)
<1>1. /\ pc = "tail" /\ pc' \in {"tail", "done"}
      /\ UNCHANGED <<job, source, partition>> /\ partition = job.volume
      /\ \/ pc' = "done" /\ UNCHANGED <<out, offset>> /\ chunk = <<>>
         \/ /\ pc' = "tail" /\ out' = Joined(out, chunk) /\ offset' = Advanced(offset, chunk)
  BY DEF CopyTail
<1>2. /\ EncryptedSize' = EncryptedSize /\ TotalSize' = TotalSize
      /\ Right(out)' <=> Right(out')
      /\ SoundJob' /\ SoundJob
  BY <1>1, JobStays
<1> HIDE DEF chunk
<1>3. CASE ~ job.backup \/ pc' = "done"
  <2>1. CASE ~ job.backup \/ source # job.source
    BY <1>1, <1>2, <1>3, <2>1 DEF Opened
  <2>2. CASE job.backup /\ pc' = "done" /\ source = job.source
    <3>1. partition \in Nat /\ TotalSize \in Int /\ offset \in Nat
      BY <1>1, <1>2, <2>2, SourceIs
    <3>2. PICK s \in Nat : DOMAIN source = 0 .. s - 1 /\ Size(source) = s
      BY <1>1, <1>2, <2>2, SourceIs
    <3>3. s =< partition + offset
      BY <1>1, <2>2, <3>1, <3>2, DecryptorConstants, NothingLeft DEF chunk
    <3>4. TotalSize =< s - partition
      BY <2>2, <3>1, <3>2 DEF TotalSize
    <3>5. TotalSize =< offset
      BY <3>1, <3>2, <3>3, <3>4
    <3>6. QED
      BY <1>1, <1>2, <2>2, <3>1, <3>5 DEF Opened
  <2>3. QED
    BY <1>3, <2>1, <2>2
<1>4. CASE job.backup /\ pc' = "tail" /\ source # job.source
  <2>1. partition \in Nat /\ offset \in Nat /\ ChunkSectors \in Nat
    BY <1>1, <1>4, SourceIs, DecryptorConstants
  <2>2. DOMAIN source = {} /\ DOMAIN out = 0 .. 0 - 1
    BY <1>1, <1>4
  <2>3. DOMAIN chunk = 0 .. 0 - 1
    BY <2>1, <2>2, EmptyRead DEF chunk
  <2>4. DOMAIN out' = 0 .. 0 + 0 - 1
    <3>1. DOMAIN Joined(out, chunk) = 0 .. 0 + 0 - 1
      <4>1. 0 \in Nat
        OBVIOUS
      <4>2. QED
        BY <2>2, <2>3, <4>1, JoinedIs
    <3>2. QED
      BY <1>1, <1>4, <3>1
  <2>5. offset' = offset
    BY <1>1, <1>4, <2>1, <2>3, SizeIs DEF Advanced
  <2>6. Right(out')
    BY <2>4 DEF Right
  <2>7. QED
    BY <1>1, <1>2, <1>4, <2>4, <2>5, <2>6
<1>5. CASE job.backup /\ pc' = "tail" /\ source = job.source
  <2>1. /\ partition \in Nat /\ EncryptedSize \in Int
        /\ offset \in Nat /\ NumHeaderSectors =< offset /\ EncryptedSize =< offset
        /\ DOMAIN out = 0 .. offset - 1 /\ Right(out)
    BY <1>1, <1>5, SourceIs DEF Opened
  <2>2. PICK s \in Nat : DOMAIN source = 0 .. s - 1
    BY <1>1, <1>5, SourceIs
  <2>3. PICK k \in 0 .. ChunkSectors :
           /\ DOMAIN chunk = 0 .. k - 1
           /\ \A i \in 0 .. k - 1 : /\ partition + (offset + i) \in DOMAIN source
                                    /\ chunk[i] = source[partition + (offset + i)]
    BY <2>1, <2>2, DecryptorConstants, ReadIs DEF chunk
  <2>4. k \in Nat /\ Size(chunk) = k
    BY <2>3, SizeIs, DecryptorConstants
  <2>5. ASSUME NEW x \in 0 .. k - 1
        PROVE  /\ job.volume + PlaceOf(offset + x) \in DOMAIN job.source
               /\ chunk[x] = Yielded(offset + x)
    <3> DEFINE i == offset + x
    <3>1. i \in Nat /\ NumHeaderSectors =< i /\ ~ (i < EncryptedSize)
      BY <2>1, <2>4, BackupAtIsNat
    <3>2. partition + i \in DOMAIN job.source /\ chunk[x] = job.source[partition + i]
      BY <1>5, <2>3
    <3> HIDE DEF i
    <3>3. i \notin HeaderSectors /\ PlaceOf(i) = i /\ ~Enciphered(i)
      BY <1>1, <1>2, <1>5, <3>1, BeyondHeader
    <3>4. job.volume + PlaceOf(i) \in DOMAIN job.source /\ chunk[x] = Yielded(i)
      BY <1>1, <3>2, <3>3 DEF Yielded
    <3>5. QED
      BY <3>4 DEF i
  <2>6. Right(out') /\ DOMAIN out' = 0 .. offset + k - 1
    <3>1. Right(Joined(out, chunk))
      BY <2>1, <2>3, <2>4, <2>5, JoinedIsRight
    <3>2. DOMAIN Joined(out, chunk) = 0 .. offset + k - 1
      BY <2>1, <2>3, <2>4, JoinedIs
    <3>3. QED
      BY <1>1, <1>5, <3>1, <3>2
  <2>7. offset' = offset + k
    BY <1>1, <1>5, <2>4 DEF Advanced
  <2>8. offset' \in Nat /\ NumHeaderSectors =< offset' /\ EncryptedSize =< offset'
    BY <2>1, <2>4, <2>7, BackupAtIsNat
  <2>9. QED
    BY <1>1, <1>2, <1>5, <2>6, <2>7, <2>8
<1>6. QED
  BY <1>1, <1>3, <1>4, <1>5

LEMMA NextCopies ==
  ASSUME CopyInv, [Next]_vars
  PROVE  CopyInv'
<1>1. job' = job
  BY DEF Next, DecryptStep, CheckCredentials, FindVolume, SkipCopy, NoCopyLeft, TakeCopy,
         DescribeCopy, Unlock, RestoreHeader, DecryptChunk, UnknownMethod, BodyDone,
         CopyTail, ReadFails, vars
<1>2. SoundJob' /\ SoundJob /\ (Right(out)' <=> Right(out'))
  BY <1>1, JobStays DEF CopyInv
<1>3. CASE CheckCredentials \/ FindVolume \/ SkipCopy \/ NoCopyLeft \/ DescribeCopy
  <2>1. UNCHANGED <<job, source>> /\ pc' \notin {"unlock", "header", "body", "tail", "done", "cut"}
    BY <1>3 DEF CheckCredentials, FindVolume, SkipCopy, NoCopyLeft, DescribeCopy
  <2>2. QED
    BY <1>2, <2>1 DEF CopyInv, Opened
<1>4. CASE TakeCopy
  <2>1. UNCHANGED <<job, source, partition>> /\ pc' = "unlock" /\ Parses(HealthOf(copy))
    BY <1>4 DEF TakeCopy
  <2>2. partition = job.volume
    BY <2>1 DEF Parses, HealthOf
  <2>3. QED
    BY <1>2, <2>1, <2>2 DEF CopyInv, Opened
<1>5. CASE Unlock
  <2>1. /\ pc = "unlock" /\ UNCHANGED <<job, partition>>
        /\ pc' \in {"no_entry", "no_protector", "wrong_key", "header"}
        /\ pc' = "header" => out' = <<>>
        /\ source' = source \/ (source' = <<>> /\ job.aliased)
    BY <1>5 DEF Unlock, UnlockOutcome, OpensOutput
  <2>2. DOMAIN (<<>>) = {}
    OBVIOUS
  <2>3. QED
    BY <1>2, <2>1, <2>2 DEF CopyInv, Opened, Right
<1>6. CASE RestoreHeader
  BY <1>6, HeaderIsRight
<1>7. CASE DecryptChunk
  BY <1>7, ChunkIsRight
<1>8. CASE BodyDone
  BY <1>8, BodyEndIsRight
<1>9. CASE CopyTail
  BY <1>9, TailIsRight
<1>10. CASE UnknownMethod
  <2>1. UNCHANGED <<job, source, out>> /\ pc' = "cut" /\ pc \in {"header", "body"}
    BY <1>10 DEF UnknownMethod
  <2>2. QED
    BY <1>2, <2>1 DEF CopyInv, Opened
<1>11. CASE ReadFails
  <2>1. /\ pc \in Reading /\ UNCHANGED <<job, source, out, partition>>
        /\ pc = "metadata" => pc' = "metadata"
        /\ pc = "detect" => pc' = "unread"
        /\ pc \in {"header", "body", "tail"} => pc' = "cut"
    BY <1>11 DEF ReadFails
  <2>2. QED
    BY <1>2, <2>1 DEF CopyInv, Opened, Reading
<1>12. CASE UNCHANGED vars
  BY <1>2, <1>12, JobStays DEF vars, CopyInv
<1>13. QED
  BY <1>3, <1>4, <1>5, <1>6, <1>7, <1>8, <1>9, <1>10, <1>11, <1>12 DEF Next, DecryptStep

LEMMA CopyInvInductive ==
  /\ Init => CopyInv
  /\ CopyInv /\ [Next]_vars => CopyInv'
<1>1. Init => CopyInv
  BY JobsAssumption DEF Init, CopyInv, SoundJob, CarriesVolume, Opened
<1>2. QED
  BY <1>1, NextCopies

(* Of a volume that carries what was encrypted, what decrypt_volume makes  *)
(* of a sector is the original one.                                        *)
LEMMA YieldsOriginal ==
  ASSUME SoundJob, CarriesVolume(job), NEW i \in Sectors \ Overwritten,
         job.volume + PlaceOf(i) \in DOMAIN job.source
  PROVE  Yielded(i) = Original(i)
<1>1. i \in Nat
  BY DEF Sectors
<1>2. CASE i \in HeaderSectors
  <2>1. Yielded(i) = DecryptSector(Key, BackupAt + i, EncryptSector(Key, BackupAt + i, Original(i)))
    BY <1>2 DEF Yielded, PlaceOf, Enciphered, CarriesVolume
  <2>2. BackupAt + i \in Nat
    BY <1>1, BackupAtIsNat
  <2>3. QED
    BY <1>1, <2>1, <2>2, OpensOriginal
<1>3. CASE i \notin HeaderSectors
  <2>1. PlaceOf(i) = i /\ i \in Sectors \ (Overwritten \cup HeaderSectors)
    BY <1>3 DEF PlaceOf
  <2>2. job.source[job.volume + i] =
          IF i < EncryptedPart(job) /\ ~IsPartial(job, i)
          THEN EncryptSector(Key, i, Original(i)) ELSE Original(i)
    BY <2>1 DEF CarriesVolume
  <2>3. DecryptSector(Key, i, EncryptSector(Key, i, Original(i))) = Original(i)
    BY <1>1, OpensOriginal
  <2>4. QED
    BY <1>3, <2>1, <2>2, <2>3 DEF Yielded, Enciphered
<1>4. QED
  BY <1>2, <1>3

(* Whatever the place of the volume in its source, the size of a chunk and *)
(* the end of the encrypted part, and wherever the run ends: every sector  *)
(* that decrypt_volume has written is the one of the original volume.      *)
THEOREM DecryptsToOriginal == Spec => []OutputIsOriginal
<1>1. job \in Jobs /\ CopyInv => OutputIsOriginal
  BY JobsAssumption, YieldsOriginal DEF CopyInv, OutputIsOriginal, Right
<1>2. Init => job \in Jobs
  BY DEF Init
<1>3. SearchInv => job \in Jobs
  BY DEF SearchInv
<1>4. QED
  BY <1>1, <1>3, LoopInvInductive, SearchInvInductive, CopyInvInductive, PTL DEF Spec

(* A run that ends in decrypt_volume's return has written the whole        *)
(* volume, and of its encrypted part what a reader with the key is to see. *)
THEOREM SuccessIsTheView == Spec => []DoneMeansView
<1>1. CopyInv => DoneMeansView
  <2> SUFFICES ASSUME CopyInv, pc = "done", job.backup, ~job.aliased
               PROVE  /\ 0 .. TotalSize - 1 \subseteq DOMAIN out
                      /\ \A i \in (0 .. EncryptedSize - 1) \cap (0 .. TotalSize - 1) :
                           ~(job.ragged /\ i = TotalSize - 1) => out[i] = View(Volume, Key, i)
    BY DEF DoneMeansView
  <2>1. /\ SoundJob /\ source = job.source /\ partition = job.volume
        /\ offset \in Nat /\ DOMAIN out = 0 .. offset - 1 /\ TotalSize =< offset
        /\ Right(out)
    BY DEF CopyInv, Opened
  <2>2. PICK s \in Nat : DOMAIN job.source = 0 .. s - 1 /\ Size(job.source) = s
    BY <2>1, SourceIs
  <2>3. /\ partition \in Nat /\ TotalSize \in Int /\ EncryptedSize \in Int
        /\ EncryptedSize = EncryptedPart(job)
    BY <2>1, SourceIs
  <2>4. 0 .. TotalSize - 1 \subseteq DOMAIN out
    BY <2>1, <2>3
  <2>5. ASSUME NEW i \in (0 .. EncryptedSize - 1) \cap (0 .. TotalSize - 1),
               ~(job.ragged /\ i = TotalSize - 1)
        PROVE  out[i] = View(Volume, Key, i)
    <3>1. i \in DOMAIN out /\ i \in Nat /\ i < EncryptedPart(job)
      BY <2>3, <2>4
    <3>2. ~IsPartial(job, i)
      <4>1. SUFFICES ASSUME job.ragged, job.volume + i = s - 1 PROVE FALSE
        BY <2>2 DEF IsPartial, Size
      <4>2. TotalSize = s - partition \/ TotalSize = s - 1 - partition
        BY <2>1, <2>2, <2>3 DEF TotalSize
      <4>3. QED
        BY <2>1, <2>2, <2>3, <2>5, <4>1, <4>2
    <3>3. /\ job.volume + PlaceOf(i) \in 0 .. s - 1
          /\ out[i] = DecryptSector(Key, PlaceOf(i), job.source[job.volume + PlaceOf(i)])
      BY <2>1, <2>2, <3>1, <3>2 DEF Right, Yielded, Enciphered
    <3>4. PlaceOf(i) \in Nat
      BY <3>1, BackupAtIsNat DEF PlaceOf
    <3>5. PlaceOf(i) \in 0 .. Size(job.source) - job.volume - 1
      BY <2>1, <2>2, <2>3, <3>3, <3>4
    <3>6. Volume[PlaceOf(i)] = job.source[job.volume + PlaceOf(i)]
      BY <3>5 DEF Volume
    <3>7. View(Volume, Key, i) = DecryptSector(Key, PlaceOf(i), Volume[PlaceOf(i)])
      BY DEF View, PlaceOf
    <3>8. QED
      BY <3>3, <3>6, <3>7
  <2>6. QED
    BY <2>4, <2>5
<1>2. QED
  BY <1>1, CopyInvInductive, PTL DEF Spec
=============================================================================
