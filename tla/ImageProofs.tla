----------------------------- MODULE ImageProofs -----------------------------
(***************************************************************************)
(* encrypt_volume and then decrypt_volume on what it left: for every       *)
(* volume, layout, chunk size and set of files, a finished image gives     *)
(* everything back, and one that was cut off either does not open or has   *)
(* its data.                                                               *)
(***************************************************************************)
EXTENDS ImageRoundTrip, VolumeProofs, FiniteSetTheorems

(* What is known of decrypt_volume, whatever its job. *)
DP == INSTANCE DecryptorProofs WITH
        Jobs <- {}, source <- image, out <- plain, pc <- phase, copy <- tried,
        offset <- position

-----------------------------------------------------------------------------
(* The invariant. *)

(* A file of sectors without holes, no longer than the volume. *)
IsPart(f) ==
  /\ \E n \in 0 .. VolumeSectors : DOMAIN f = 0 .. n - 1
  /\ \A i \in DOMAIN f : f[i] \in Content

InUseSectors == Covered(Bpb, VolumeSectors, request.allocated)

Whole == [i \in Sectors |-> Original(i)]
SavedHeader == [i \in 0 .. SavedSectors - 1 |-> Original(i)]

(* What the loop makes of a sector. *)
SealedOne(i) ==
  IF Selective /\ i \notin InUseSectors THEN Original(i) ELSE EncryptSector(Key, i, Original(i))

(* The loop has passed the whole volume, and what it made of the sectors   *)
(* is there where no structure has been written.                           *)
BodyThere(f) ==
  /\ DOMAIN f = Sectors
  /\ \A i \in Sectors \ (HeaderSectors \cup Overwritten) : f[i] = SealedOne(i)

BlockThere(f, j) == \A i \in 0 .. BlockSectors - 1 : f[MetaAt(j) + i] = FveBlock(Key)[i]

BackupThere(f) ==
  \A i \in 0 .. SavedSectors - 1 :
    f[BackupAt + i] = EncryptSector(Key, BackupAt + i, Original(i))

(* No sector of a metadata block has been written. *)
Keyless(f) == \A i \in DOMAIN f : f[i].base.kind # "fve"

FileInv ==
  /\ request \in Requests
  /\ pc \in {"start"} \cup Writing \cup EncryptionOver
  /\ IsPart(source) /\ IsPart(out)
  /\ \A n \in DOMAIN regions : regions[n] \in [start : Nat, end : Nat]
  /\ pc \notin {"start", "refused"} => saved \in [0 .. SavedSectors - 1 -> Content]
  /\ pc = "start" => source = Whole /\ offset = 0
  /\ pc = "head" => out = <<>>
  /\ offset \in 0 .. VolumeSectors
  /\ copy \in Copies

(* What _offset_in_regions says is whether a sector is in use. *)
RegionsFound == Selective => \A i \in Sectors : OffsetInRegions(i) <=> i \in InUseSectors

(* Unless the output has emptied the source. *)
DataInv ==
  ~request.aliased =>
    /\ source = Whole
    /\ pc \notin {"start", "refused"} => saved = SavedHeader /\ RegionsFound
    /\ pc \in {"start", "head", "body"} => copy = 1
    /\ pc = "body" =>
         /\ NumHeaderSectors =< offset
         /\ DOMAIN out = 0 .. offset - 1 /\ Keyless(out)
         /\ \A i \in NumHeaderSectors .. offset - 1 : out[i] = SealedOne(i)
    /\ pc \in {"metadata", "backup", "fit", "done"} => BodyThere(out)
    /\ pc = "metadata" => \A j \in 1 .. copy - 1 : BlockThere(out, j)
    /\ pc \in {"backup", "fit", "done"} => \A j \in Copies : BlockThere(out, j)
    /\ pc \in {"fit", "done"} => BackupThere(out)
    /\ pc = "cut" => BodyThere(out) \/ Keyless(out)

(* The decryption of a finished image meets no error. *)
Straight == {"start", "detect", "metadata", "unlock", "header", "body", "tail", "done"}

(* That of a file without keys ends at its metadata. *)
Locked == {"start", "detect", "metadata", "no_header", "no_metadata"}

ReadInv ==
  /\ phase = "idle" =>
       job = NoJob /\ plain = <<>> /\ partition = 0 /\ tried = 1 /\ position = 0
  /\ lost = {} /\ info \in [DP!Fields -> {0} \cup Copies]
  /\ phase # "idle" =>
       /\ pc \in {"done", "cut"} /\ image = out
       /\ \E h \in [Copies -> DP!Health] :
            /\ \A j \in Copies : h[j] \in BlockHealth(out, j)
            /\ job = JobFor(out, h)
       /\ DP!TypeInv /\ DP!LoopInv
       /\ ~request.aliased =>
            /\ DOMAIN out = Sectors => DP!CopyInv
            /\ Keyless(out) => phase \in Locked
            /\ pc = "done" => phase \in Straight /\ tried = 1

ImageInv == FileInv /\ DataInv /\ ReadInv

-----------------------------------------------------------------------------
(* Places, contents, reads and writes. *)

(* Header, first block, backup, second and third block, in this order. *)
LEMMA Placement ==
  /\ NumHeaderSectors \in Nat \ {0}
  /\ VolumeSectors \in Nat \ {0}
  /\ \A j \in Copies : /\ MetaAt(j) \in Nat
                       /\ NumHeaderSectors =< MetaAt(j)
                       /\ MetaAt(j) + BlockSectors =< VolumeSectors
  /\ BackupAt \in Nat
  /\ BlockSectors \in Nat \ {0}
  /\ SavedSectors \in 0 .. NumHeaderSectors
  /\ SectorSize = BaseSectorSize => SavedSectors = NumHeaderSectors
  /\ MetaAt(1) + BlockSectors =< BackupAt
  /\ BackupAt + NumHeaderSectors =< MetaAt(2)
  /\ MetaAt(2) + BlockSectors =< MetaAt(3)
  /\ NumHeaderSectors =< BackupAt
  /\ NumHeaderSectors < VolumeSectors
  /\ BackupAt + NumHeaderSectors =< VolumeSectors
<1>1. /\ VolumeSectors \in Nat \ {0} /\ SectorSize \in Nat \ {0}
      /\ BaseSectorSize \in 1 .. SectorSize /\ BlockSize % SectorSize = 0
      /\ SectorAligned(VolumeSectors * SectorSize, SectorSize)
      /\ LaidOut(VolumeSectors * SectorSize, SectorSize)
  BY VolumeConstants DEF VolumeSize
<1>2. PlacedInSectors(VolumeSectors, SectorSize)
  BY <1>1, LayoutInSectors
<1>3. /\ SavedSectors \in 0 .. NumHeaderSectors
      /\ SectorSize = BaseSectorSize => SavedSectors = NumHeaderSectors
  BY <1>1, SavedInSectors DEF SavedSectors
<1>4. /\ MetaAt(1) \in Nat /\ MetaAt(2) \in Nat /\ MetaAt(3) \in Nat
      /\ BackupAt \in Nat /\ BlockSectors \in Nat \ {0}
      /\ NumHeaderSectors =< MetaAt(1)
      /\ MetaAt(1) + BlockSectors =< BackupAt
      /\ BackupAt + NumHeaderSectors =< MetaAt(2)
      /\ MetaAt(2) + BlockSectors =< MetaAt(3)
      /\ MetaAt(3) + BlockSectors =< VolumeSectors
  BY <1>2 DEF PlacedInSectors, SectorOf, MetaAt, BackupAt, BlockSectors, VolumeSize, Copies
<1>5. NumHeaderSectors \in Nat \ {0}
  BY LayoutConstants
<1>6. \A j \in Copies : j = 1 \/ j = 2 \/ j = 3
  BY DEF Copies
<1>7. \A j \in Copies : /\ MetaAt(j) \in Nat
                        /\ NumHeaderSectors =< MetaAt(j)
                        /\ MetaAt(j) + BlockSectors =< VolumeSectors
  <2> TAKE j \in Copies
  <2>1. j = 1 \/ j = 2 \/ j = 3
    BY <1>6
  <2>2. /\ NumHeaderSectors =< MetaAt(2) /\ NumHeaderSectors =< MetaAt(3)
        /\ MetaAt(1) + BlockSectors =< VolumeSectors
        /\ MetaAt(2) + BlockSectors =< VolumeSectors
    BY <1>1, <1>4, <1>5
  <2>3. QED
    BY <1>4, <2>1, <2>2
<1>8. /\ NumHeaderSectors =< BackupAt /\ NumHeaderSectors < VolumeSectors
      /\ BackupAt + NumHeaderSectors =< VolumeSectors
  BY <1>1, <1>4, <1>5
<1>9. QED
  BY <1>1, <1>3, <1>4, <1>5, <1>7, <1>8

LEMMA KeyIsNat == Key \in Nat
BY DEF Key

LEMMA ContentsAreContent ==
  /\ \A i \in Nat : Original(i) \in Content /\ Original(i).base.kind = "data"
  /\ Zero \in Content /\ Zero.base.kind = "zero"
  /\ BitLockerHeader \in Content /\ BitLockerHeader.base.kind = "boot"
  /\ \A i \in 0 .. BlockSectors - 1 :
       FveBlock(Key)[i] \in Content /\ FveBlock(Key)[i].base.kind = "fve"
<1>1. \A i \in Nat : Original(i) \in Content /\ Original(i).base.kind = "data"
  BY PlainIsContent DEF Original, Base, Plain
<1>2. /\ Zero \in Content /\ Zero.base.kind = "zero"
      /\ BitLockerHeader \in Content /\ BitLockerHeader.base.kind = "boot"
  BY PlainIsContent DEF Zero, BitLockerHeader, Base, Plain
<1>3. ASSUME NEW i \in 0 .. BlockSectors - 1
      PROVE  FveBlock(Key)[i] \in Content /\ FveBlock(Key)[i].base.kind = "fve"
  <2>1. [kind |-> "fve", at |-> i, key |-> Key] \in Base
    BY Placement, KeyIsNat DEF Base
  <2>2. FveBlock(Key)[i] = Plain([kind |-> "fve", at |-> i, key |-> Key])
    BY DEF FveBlock
  <2>3. QED
    BY <2>1, <2>2, PlainIsContent DEF Plain
<1>4. QED
  BY <1>1, <1>2, <1>3

(* Sealing does not make a metadata block of a sector. *)
LEMMA SealedKeepsBase ==
  ASSUME NEW k \in Nat, NEW at \in Nat, NEW c \in Content
  PROVE  EncryptSector(k, at, c).base = c.base
<1>1. c = [base |-> c.base, layers |-> c.layers]
  BY DEF Content
<1>2. QED
  BY <1>1 DEF EncryptSector, Apply

(* Opening what was sealed gives the original. *)
LEMMA OpensOriginal ==
  ASSUME NEW i \in Nat, NEW at \in Nat
  PROVE  DecryptSector(Key, at, EncryptSector(Key, at, Original(i))) = Original(i)
<1>1. [kind |-> "data", at |-> i, key |-> 0] \in Base
  BY DEF Base
<1>2. QED
  BY <1>1, KeyIsNat, DecryptUndoesEncrypt DEF Original

LEMMA LengthIs ==
  ASSUME NEW n \in Nat, NEW f, DOMAIN f = 0 .. n - 1
  PROVE  Length(f) = n
<1>1. Cardinality(0 .. n - 1) = n
  BY FS_Interval
<1>2. QED
  BY <1>1 DEF Length

(* A read gives what the file has, from a place on. *)
LEMMA ReadSourceIs ==
  ASSUME NEW s \in Nat, DOMAIN source = 0 .. s - 1, NEW at \in Nat, NEW n \in Nat
  PROVE  \E k \in 0 .. n :
           /\ DOMAIN ReadSource(at, n) = 0 .. k - 1
           /\ \A i \in 0 .. k - 1 : /\ at + i \in DOMAIN source
                                    /\ ReadSource(at, n)[i] = source[at + i]
           /\ k < n => s =< at + k
<1>1. Length(source) = s
  BY LengthIs
<1> DEFINE left == IF s > at THEN s - at ELSE 0
<1> DEFINE k == Least(n, left)
<1>2. /\ left \in Nat /\ k \in 0 .. n /\ k =< left
      /\ k < n => k = left
  BY DEF Least
<1>3. ReadSource(at, n) = [i \in 0 .. k - 1 |-> source[at + i]]
  BY <1>1 DEF ReadSource
<1>4. \A i \in 0 .. k - 1 : at + i \in 0 .. s - 1
  BY <1>2
<1>5. k < n => s =< at + k
  BY <1>2
<1> HIDE DEF k
<1>6. DOMAIN ReadSource(at, n) = 0 .. k - 1
  BY <1>3
<1>7. QED
  BY <1>2, <1>3, <1>4, <1>5, <1>6

(* What a write of len sectors, or the first m of them, makes of a file.   *)
LEMMA WrittenIs ==
  ASSUME NEW f, NEW a \in 0 .. VolumeSectors, DOMAIN f = 0 .. a - 1,
         NEW w, w.at \in Nat, NEW m \in Nat, w.at + m =< VolumeSectors
  PROVE  LET g == Written(f, w, m)
         IN  /\ DOMAIN f \subseteq DOMAIN g
             /\ \A i \in DOMAIN g :
                  g[i] = IF w.at =< i /\ i < w.at + m THEN w.data[i - w.at]
                         ELSE IF i \in DOMAIN f THEN f[i] ELSE Zero
             /\ \A i \in Nat : w.at =< i /\ i < w.at + m => i \in DOMAIN g
             /\ \E b \in 0 .. VolumeSectors :
                  /\ DOMAIN g = 0 .. b - 1 /\ a =< b
                  /\ b = a \/ (m > 0 /\ b = w.at + m)
                  /\ w.at =< a /\ a =< w.at + m => b = w.at + m
<1> DEFINE g == Written(f, w, m)
<1>1. DOMAIN g = DOMAIN f \cup (IF m = 0 THEN {} ELSE 0 .. w.at + m - 1)
  BY DEF Written
<1>2. \A i \in DOMAIN g :
        g[i] = IF w.at =< i /\ i < w.at + m THEN w.data[i - w.at]
               ELSE IF i \in DOMAIN f THEN f[i] ELSE Zero
  BY DEF Written
<1> HIDE DEF g
<1>3. VolumeSectors \in Nat /\ a \in Nat
  BY Placement
<1>4. \A i \in Nat : w.at =< i /\ i < w.at + m => i \in DOMAIN g
  BY <1>1
<1>5. \E b \in 0 .. VolumeSectors :
        /\ DOMAIN g = 0 .. b - 1 /\ a =< b
        /\ b = a \/ (m > 0 /\ b = w.at + m)
        /\ w.at =< a /\ a =< w.at + m => b = w.at + m
  <2>1. CASE m = 0
    <3>1. DOMAIN g = 0 .. a - 1
      BY <1>1, <2>1
    <3>2. w.at =< a /\ a =< w.at + m => a = w.at + m
      BY <1>3, <2>1
    <3>3. QED
      BY <1>3, <3>1, <3>2
  <2>2. CASE m # 0 /\ a =< w.at + m
    <3>1. DOMAIN g = 0 .. (w.at + m) - 1
      BY <1>1, <1>3, <2>2
    <3>2. w.at + m \in 0 .. VolumeSectors /\ m > 0
      BY <2>2
    <3>3. QED
      BY <1>3, <2>2, <3>1, <3>2
  <2>3. CASE m # 0 /\ ~ (a =< w.at + m)
    <3>1. DOMAIN g = 0 .. a - 1
      BY <1>1, <1>3, <2>3
    <3>2. QED
      BY <1>3, <2>3, <3>1
  <2>4. QED
    BY <2>1, <2>2, <2>3
<1>6. QED
  BY <1>1, <1>2, <1>4, <1>5 DEF g

(* A write of sectors keeps a file of sectors one. *)
LEMMA WrittenIsPart ==
  ASSUME NEW f, IsPart(f), NEW w, w.at \in Nat, NEW m \in Nat, w.at + m =< VolumeSectors,
         \A i \in 0 .. m - 1 : w.data[i] \in Content
  PROVE  IsPart(Written(f, w, m))
<1>1. PICK a \in 0 .. VolumeSectors : DOMAIN f = 0 .. a - 1
  BY DEF IsPart
<1> DEFINE g == Written(f, w, m)
<1>2. /\ DOMAIN f \subseteq DOMAIN g
      /\ \A i \in DOMAIN g :
           g[i] = IF w.at =< i /\ i < w.at + m THEN w.data[i - w.at]
                  ELSE IF i \in DOMAIN f THEN f[i] ELSE Zero
      /\ \A i \in Nat : w.at =< i /\ i < w.at + m => i \in DOMAIN g
      /\ \E b \in 0 .. VolumeSectors :
           /\ DOMAIN g = 0 .. b - 1 /\ a =< b
           /\ b = a \/ (m > 0 /\ b = w.at + m)
           /\ w.at =< a /\ a =< w.at + m => b = w.at + m
  BY <1>1, WrittenIs, SMTT(30)
<1> HIDE DEF g
<1>3. \A i \in DOMAIN g : i \in Nat
  BY <1>2
<1>4. ASSUME NEW i \in DOMAIN g PROVE g[i] \in Content
  <2>1. CASE w.at =< i /\ i < w.at + m
    <3>1. i - w.at \in 0 .. m - 1
      BY <1>3, <2>1
    <3>2. QED
      BY <1>2, <2>1, <3>1
  <2>2. CASE ~ (w.at =< i /\ i < w.at + m)
    BY <1>2, <2>2, ContentsAreContent DEF IsPart
  <2>3. QED
    BY <2>1, <2>2
<1>5. QED
  BY <1>2, <1>4 DEF IsPart, g

-----------------------------------------------------------------------------
(* The regions in use. *)

(* A finite set of regions that begin at different places can be sorted:   *)
(* each has as its place the number of those that begin no later.          *)
LEMMA SortingExists ==
  ASSUME NEW R, IsFiniteSet(R), \A r \in R : r.start \in Nat,
         \A r, q \in R : r.start = q.start => r = q
  PROVE  \E s \in [1 .. Cardinality(R) -> R] : IsSorting(s, R)
<1> DEFINE n == Cardinality(R)
<1> DEFINE Upto(r) == {q \in R : q.start =< r.start}
<1> DEFINE rank == [r \in R |-> Cardinality(Upto(r))]
<1>1. n \in Nat
  BY FS_CardinalityType
<1>2. ASSUME NEW r \in R
      PROVE  IsFiniteSet(Upto(r)) /\ Cardinality(Upto(r)) \in 1 .. n
  <2>1. IsFiniteSet(Upto(r)) /\ Cardinality(Upto(r)) =< n
    BY FS_Subset
  <2>2. Cardinality(Upto(r)) \in Nat
    BY <2>1, FS_CardinalityType
  <2>3. Cardinality(Upto(r)) # 0
    BY <2>1, FS_EmptySet
  <2>4. QED
    BY <1>1, <2>1, <2>2, <2>3
<1>3. ASSUME NEW r \in R, NEW q \in R, r.start < q.start
      PROVE  rank[r] < rank[q]
  <2>1. Upto(r) \subseteq Upto(q)
    <3>1. \A x \in R : x.start =< r.start => x.start =< q.start
      BY <1>3
    <3>2. QED
      BY <3>1
  <2>2. q \in Upto(q) /\ q \notin Upto(r)
    BY <1>3
  <2> DEFINE A == Upto(r)
  <2> DEFINE B == Upto(q)
  <2>3. IsFiniteSet(B) /\ Cardinality(A) \in Nat /\ Cardinality(B) \in Nat
    <3>1. IsFiniteSet(Upto(q)) /\ Cardinality(Upto(q)) \in 1 .. n
      BY <1>2
    <3>2. Cardinality(Upto(r)) \in 1 .. n
      BY <1>2
    <3>3. \A x \in 1 .. n : x \in Nat
      BY <1>1
    <3> HIDE DEF Upto, n
    <3>4. QED
      BY <3>1, <3>2, <3>3
  <2>4. A \in SUBSET B /\ A # B
    BY <2>1, <2>2
  <2>5. rank[r] = Cardinality(A) /\ rank[q] = Cardinality(B)
    OBVIOUS
  <2> HIDE DEF A, B, rank
  <2>6. Cardinality(A) =< Cardinality(B) /\ Cardinality(A) # Cardinality(B)
    BY <2>3, <2>4, FS_Subset
  <2>7. QED
    BY <2>3, <2>5, <2>6
<1>4. rank \in [R -> 1 .. n]
  BY <1>2
<1> HIDE DEF Upto, rank, n
<1>5. \A r, q \in R : rank[r] = rank[q] => r = q
  <2> TAKE r \in R, q \in R
  <2> HAVE rank[r] = rank[q]
  <2>1. rank[r] \in Nat /\ rank[q] \in Nat
    BY <1>1, <1>4
  <2>2. ~ (r.start < q.start) /\ ~ (q.start < r.start)
    BY <1>3, <2>1
  <2>3. QED
    BY <2>2
<1>6. rank \in Surjection(R, 1 .. n)
  <2>1. rank \in Injection(R, 1 .. n)
    BY <1>4, <1>5 DEF Injection, IsInjective
  <2>2. IsFiniteSet(1 .. n) /\ Cardinality(1 .. n) = n
    BY <1>1, FS_Interval
  <2>3. QED
    BY <2>1, <2>2, FS_Injection DEF n
<1>7. \A k \in 1 .. n : \E r \in R : rank[r] = k
  BY <1>6 DEF Surjection
<1> DEFINE s == [k \in 1 .. n |-> CHOOSE r \in R : rank[r] = k]
<1>8. \A k \in 1 .. n : s[k] \in R /\ rank[s[k]] = k
  BY <1>7
<1>9. s \in [1 .. n -> R]
  BY <1>8
<1> HIDE DEF s
<1>10. \A r \in R : \E k \in DOMAIN s : s[k] = r
  <2> TAKE r \in R
  <2>1. rank[r] \in 1 .. n /\ s[rank[r]] \in R /\ rank[s[rank[r]]] = rank[r]
    BY <1>4, <1>8
  <2>2. s[rank[r]] = r
    BY <1>5, <2>1
  <2>3. QED
    BY <1>9, <2>1, <2>2
<1>11. \A i, j \in DOMAIN s : i < j => s[i].start < s[j].start
  <2> TAKE i \in DOMAIN s, j \in DOMAIN s
  <2> HAVE i < j
  <2>1. /\ i \in 1 .. n /\ j \in 1 .. n /\ s[i] \in R /\ s[j] \in R
        /\ rank[s[i]] = i /\ rank[s[j]] = j
    BY <1>8, <1>9
  <2>2. i \in Nat /\ j \in Nat /\ i # j
    BY <1>1, <2>1
  <2>3. s[i].start # s[j].start
    BY <2>1, <2>2
  <2>4. ~ (s[j].start < s[i].start)
    <3>1. s[j].start < s[i].start => j < i
      BY <1>3, <2>1
    <3>2. QED
      BY <2>2, <3>1
  <2>5. QED
    BY <2>1, <2>3, <2>4
<1>12. QED
  BY <1>9, <1>10, <1>11 DEF IsSorting, n

LEMMA CoveredInVolume == InUseSectors \subseteq Sectors
<1>1. /\ VolumeSectors \in Nat
      /\ SystemRegion(Bpb).end \in Nat /\ SystemRegion(Bpb).end =< VolumeSectors
  BY Placement, ImageConstants DEF SystemRegion, DataStart, Geometry
<1>2. Places(SystemRegion(Bpb)) \subseteq Sectors
  BY <1>1 DEF Places, Sectors
<1>3. ASSUME NEW c \in 2 .. MaxCluster(Bpb, VolumeSectors) - 1
      PROVE  Places(ClusterRegion(Bpb, VolumeSectors, c)) \subseteq Sectors
  <2> DEFINE r == ClusterRegion(Bpb, VolumeSectors, c)
  <2> DEFINE e == ClusterStart(Bpb, c) + Bpb.cluster
  <2>1. r.end = IF e < VolumeSectors THEN e ELSE VolumeSectors
    BY DEF ClusterRegion, Least
  <2> HIDE DEF e, r
  <2>2. \A i \in Nat : i < r.end => i < VolumeSectors
    <3>1. CASE e < VolumeSectors
      <4>1. e \in Int
        <5>1. /\ Bpb.reserved \in Nat /\ Bpb.fats \in Nat /\ Bpb.fatSize \in Nat
              /\ Bpb.cluster \in Nat /\ c \in Int
          BY ImageConstants DEF Geometry
        <5>2. (c - 2) * Bpb.cluster \in Int /\ Bpb.fats * Bpb.fatSize \in Nat
          BY <5>1
        <5>3. QED
          BY <5>1, <5>2 DEF e, ClusterStart, DataStart
      <4>2. QED
        BY <1>1, <2>1, <3>1, <4>1
    <3>2. CASE ~ (e < VolumeSectors)
      BY <1>1, <2>1, <3>2
    <3>3. QED
      BY <3>1, <3>2
  <2>3. \A i \in Places(r) : i \in Nat /\ i < r.end
    BY DEF Places
  <2>4. QED
    BY <1>1, <2>2, <2>3 DEF Sectors, r
<1>4. \A i \in InUseSectors :
        \/ i \in Places(SystemRegion(Bpb))
        \/ \E c \in 2 .. MaxCluster(Bpb, VolumeSectors) - 1 :
             i \in Places(ClusterRegion(Bpb, VolumeSectors, c))
  BY DEF InUseSectors, Covered
<1>5. QED
  BY <1>2, <1>3, <1>4

(* used_regions are the runs of the sectors in use, in order.              *)
LEMMA UsedRegionsSorted ==
  LET R == Runs(InUseSectors, VolumeSectors)
  IN  /\ UsedRegions \in [1 .. Cardinality(R) -> R]
      /\ IsSorting(UsedRegions, R)
      /\ Cardinality(R) \in Nat
<1> DEFINE R == Runs(InUseSectors, VolumeSectors)
<1>1. VolumeSectors \in Nat
  BY Placement
<1>2. \A r \in R : r.start \in 0 .. VolumeSectors /\ r.start \in Places(r)
  <2> TAKE r \in R
  <2>1. /\ r.start \in 0 .. VolumeSectors /\ r.end \in 0 .. VolumeSectors /\ r.start < r.end
    BY <1>1, RunPlaces
  <2>2. QED
    BY <2>1 DEF Places
<1>3. \A r, q \in R : r.start = q.start => r = q
  BY <1>1, <1>2, RunsApart
<1>4. IsFiniteSet(R)
  <2> DEFINE f == [r \in R |-> r.start]
  <2>1. f \in Injection(R, 0 .. VolumeSectors)
    BY <1>2, <1>3 DEF Injection, IsInjective
  <2>2. IsFiniteSet(0 .. VolumeSectors)
    BY <1>1, FS_Interval
  <2>3. QED
    BY <2>1, <2>2, FS_Injection
<1>5. \A r \in R : r.start \in Nat
  BY <1>2
<1>6. UsedRegions = CHOOSE s \in [1 .. Cardinality(R) -> R] : IsSorting(s, R)
  BY DEF UsedRegions, InUseSectors
<1> HIDE DEF R
<1>7. \E s \in [1 .. Cardinality(R) -> R] : IsSorting(s, R)
  BY <1>3, <1>4, <1>5, SortingExists
<1>8. QED
  BY <1>4, <1>6, <1>7, FS_CardinalityType DEF R

(* _offset_in_regions on a list of regions. *)
Near(s, i) ==
  \E n \in DOMAIN s :
    /\ i < s[n].end /\ i + 1 > s[n].start
    /\ \A m \in 1 .. n - 1 : ~(s[m].start > i + 1)

LEMMA NearIs ==
  ASSUME NEW i
  PROVE  (OffsetInRegions(i) <=> Near(regions, i)) /\ (OffsetInRegions(i)' <=> Near(regions', i))
BY DEF OffsetInRegions, Near

(* It tells whether a sector is in use: its search is not given up too     *)
(* early.                                                                  *)
LEMMA SearchFinds ==
  ASSUME NEW s, s = UsedRegions, NEW i \in Sectors
  PROVE  Near(s, i) <=> i \in InUseSectors
<1> DEFINE R == Runs(InUseSectors, VolumeSectors)
<1> DEFINE n == Cardinality(R)
<1>1. /\ s \in [1 .. n -> R] /\ IsSorting(s, R) /\ n \in Nat
  BY UsedRegionsSorted
<1>2. VolumeSectors \in Nat /\ InUseSectors \subseteq 0 .. VolumeSectors - 1 /\ i \in Nat
  BY Placement, CoveredInVolume DEF Sectors
<1>3. \A r \in R : /\ r.start \in Nat /\ r.end \in Nat
                   /\ i \in Places(r) <=> r.start =< i /\ i < r.end
  <2> TAKE r \in R
  <2>1. r.start \in Nat /\ r.end \in Nat
    BY <1>2, RunPlaces
  <2>2. QED
    BY <1>2, <2>1 DEF Places
<1>4. i \in InUseSectors <=> \E r \in R : i \in Places(r)
  <2>1. UNION {Places(r) : r \in R} = InUseSectors
    BY <1>2, RunsCover
  <2> HIDE DEF R
  <2>2. QED
    BY <2>1
<1> HIDE DEF R, n
<1>5. ASSUME Near(s, i) PROVE i \in InUseSectors
  <2>1. PICK k \in DOMAIN s : i < s[k].end /\ i + 1 > s[k].start
    BY <1>5 DEF Near
  <2>2. s[k] \in R
    BY <1>1, <2>1
  <2>3. s[k].start =< i
    BY <1>2, <1>3, <2>1, <2>2
  <2>4. QED
    BY <1>3, <1>4, <2>1, <2>2, <2>3
<1>6. ASSUME i \in InUseSectors PROVE Near(s, i)
  <2>1. PICK r \in R : r.start =< i /\ i < r.end
    BY <1>3, <1>4, <1>6
  <2>2. PICK k \in DOMAIN s : s[k] = r
    BY <1>1 DEF IsSorting
  <2>3. i < s[k].end /\ i + 1 > s[k].start
    BY <1>2, <1>3, <2>1, <2>2
  <2>4. ASSUME NEW j \in 1 .. k - 1 PROVE ~ (s[j].start > i + 1)
    <3>1. k \in 1 .. n /\ DOMAIN s = 1 .. n
      BY <1>1
    <3>2. j \in DOMAIN s /\ j < k
      BY <1>1, <3>1
    <3>3. s[j].start < s[k].start /\ s[j] \in R
      BY <1>1, <3>2 DEF IsSorting
    <3>4. QED
      BY <1>2, <1>3, <2>1, <2>2, <3>3
  <2>5. QED
    BY <2>3, <2>4 DEF Near
<1>7. QED
  BY <1>5, <1>6

-----------------------------------------------------------------------------
(* The writes of encrypt_volume: sectors, inside the volume. *)

IsWrite(w) ==
  /\ w.at \in Nat /\ w.len \in Nat /\ w.at + w.len =< VolumeSectors
  /\ \A i \in 0 .. w.len - 1 : w.data[i] \in Content

LEMMA HeadWriteIs ==
  /\ IsWrite(HeadWrite) /\ HeadWrite.at = 0 /\ HeadWrite.len = NumHeaderSectors
  /\ \A i \in 0 .. NumHeaderSectors - 1 : HeadWrite.data[i] \in {BitLockerHeader, Zero}
<1>1. \A i \in 0 .. NumHeaderSectors - 1 : HeadWrite.data[i] \in {BitLockerHeader, Zero}
  BY DEF HeadWrite, WriteAt, HeaderSectors
<1>2. QED
  BY <1>1, Placement, ContentsAreContent DEF HeadWrite, WriteAt, IsWrite

LEMMA MetadataWriteIs ==
  ASSUME NEW j \in Copies
  PROVE  /\ IsWrite(MetadataWrite(j)) /\ MetadataWrite(j).at = MetaAt(j)
         /\ MetadataWrite(j).len = BlockSectors
         /\ MetadataWrite(j).data = FveBlock(Key)
BY Placement, ContentsAreContent DEF MetadataWrite, WriteAt, IsWrite

LEMMA BackupWriteIs ==
  ASSUME saved \in [0 .. SavedSectors - 1 -> Content]
  PROVE  /\ IsWrite(BackupWrite) /\ BackupWrite.at = BackupAt
         /\ BackupWrite.len = SavedSectors
         /\ \A i \in 0 .. SavedSectors - 1 :
              BackupWrite.data[i] = EncryptSector(Key, BackupAt + i, saved[i])
<1>1. \A i \in 0 .. SavedSectors - 1 :
        BackupWrite.data[i] = EncryptSector(Key, BackupAt + i, saved[i])
  BY DEF BackupWrite, WriteAt, EncryptSectors
<1>2. \A i \in 0 .. SavedSectors - 1 : BackupAt + i \in Nat
  BY Placement
<1>3. \A i \in 0 .. SavedSectors - 1 : BackupWrite.data[i] \in Content
  BY <1>1, <1>2, KeyIsNat, CipherIsContent
<1>4. BackupWrite.at = BackupAt /\ BackupWrite.len = SavedSectors
  BY DEF BackupWrite, WriteAt
<1>5. SavedSectors \in Nat /\ BackupAt \in Nat /\ BackupAt + SavedSectors =< VolumeSectors
  BY Placement
<1>6. QED
  BY <1>1, <1>3, <1>4, <1>5 DEF IsWrite

(* A chunk is what the source has from the offset on, no further than the  *)
(* end of the volume, and not empty before the end of a whole source.      *)
LEMMA ChunkIs ==
  ASSUME FileInv
  PROVE  \E k \in Nat :
           /\ DOMAIN Chunk = 0 .. k - 1 /\ Length(Chunk) = k
           /\ offset + k =< VolumeSectors
           /\ \A i \in 0 .. k - 1 : /\ offset + i \in DOMAIN source
                                    /\ Chunk[i] = source[offset + i]
                                    /\ Chunk[i] \in Content
           /\ DOMAIN source = Sectors /\ offset < VolumeSectors => k > 0
<1> DEFINE n == Least(ChunkSectors, VolumeSectors - offset)
<1>1. offset \in Nat /\ VolumeSectors \in Nat /\ offset =< VolumeSectors
  BY Placement DEF FileInv
<1>2. n \in Nat /\ offset + n =< VolumeSectors /\ (offset < VolumeSectors => n > 0)
  BY <1>1, ImageConstants DEF Least
<1>3. PICK s \in 0 .. VolumeSectors : DOMAIN source = 0 .. s - 1
  BY DEF FileInv, IsPart
<1>4. s \in Nat
  BY <1>3
<1> HIDE DEF n
<1>5. PICK k \in 0 .. n :
        /\ DOMAIN ReadSource(offset, n) = 0 .. k - 1
        /\ \A i \in 0 .. k - 1 : /\ offset + i \in DOMAIN source
                                 /\ ReadSource(offset, n)[i] = source[offset + i]
        /\ k < n => s =< offset + k
  BY <1>1, <1>2, <1>3, <1>4, ReadSourceIs
<1>6. Chunk = ReadSource(offset, n)
  BY DEF Chunk, n
<1>7. k \in Nat /\ offset + k =< VolumeSectors
  BY <1>1, <1>2, <1>5
<1>8. Length(Chunk) = k
  BY <1>5, <1>6, <1>7, LengthIs
<1>9. \A i \in DOMAIN source : source[i] \in Content
  BY DEF FileInv, IsPart
<1>10. ASSUME DOMAIN source = Sectors, offset < VolumeSectors, k = 0 PROVE FALSE
  <2>1. offset \in 0 .. s - 1
    BY <1>1, <1>3, <1>10 DEF Sectors
  <2>2. k < n
    BY <1>2, <1>10
  <2>3. QED
    BY <1>1, <1>4, <1>5, <1>10, <2>1, <2>2
<1>11. DOMAIN source = Sectors /\ offset < VolumeSectors => k > 0
  BY <1>7, <1>10
<1>12. QED
  BY <1>5, <1>6, <1>7, <1>8, <1>9, <1>11

LEMMA ChunkWriteIs ==
  ASSUME FileInv
  PROVE  /\ IsWrite(ChunkWrite) /\ ChunkWrite.at = offset /\ ChunkWrite.len = Length(Chunk)
         /\ \A i \in 0 .. Length(Chunk) - 1 :
              ChunkWrite.data[i] = IF Selective /\ ~OffsetInRegions(offset + i) THEN Chunk[i]
                                   ELSE EncryptSector(Key, offset + i, Chunk[i])
<1>1. PICK k \in Nat :
        /\ DOMAIN Chunk = 0 .. k - 1 /\ Length(Chunk) = k
        /\ offset + k =< VolumeSectors
        /\ \A i \in 0 .. k - 1 : Chunk[i] \in Content
  BY ChunkIs
<1>2. offset \in Nat
  BY DEF FileInv
<1>3. /\ ChunkWrite.at = offset /\ ChunkWrite.len = k
      /\ ChunkWrite.data = Sealed(offset, Chunk)
  BY <1>1 DEF ChunkWrite, WriteAt
<1>4. \A i \in 0 .. k - 1 :
        ChunkWrite.data[i] = IF Selective /\ ~OffsetInRegions(offset + i) THEN Chunk[i]
                             ELSE EncryptSector(Key, offset + i, Chunk[i])
  BY <1>1, <1>3 DEF Sealed
<1>5. \A i \in 0 .. k - 1 : offset + i \in Nat
  BY <1>2
<1>6. \A i \in 0 .. k - 1 : ChunkWrite.data[i] \in Content
  BY <1>1, <1>4, <1>5, KeyIsNat, CipherIsContent
<1>7. QED
  BY <1>1, <1>2, <1>3, <1>4, <1>6 DEF IsWrite

LEMMA PendingIs ==
  ASSUME FileInv, pc \in Writing
  PROVE  IsWrite(Pending)
<1>1. CASE pc = "head"
  BY <1>1, HeadWriteIs DEF Pending
<1>2. CASE pc = "body"
  BY <1>2, ChunkWriteIs DEF Pending
<1>3. CASE pc = "metadata"
  BY <1>3, MetadataWriteIs DEF Pending, FileInv
<1>4. CASE pc = "backup"
  <2>1. saved \in [0 .. SavedSectors - 1 -> Content]
    BY <1>4 DEF FileInv
  <2>2. QED
    BY <1>4, <2>1, BackupWriteIs DEF Pending
<1>5. CASE pc = "fit"
  BY <1>5, Placement DEF Pending, WriteAt, IsWrite
<1>6. QED
  BY <1>1, <1>2, <1>3, <1>4, <1>5 DEF Writing

(* A write, and any part of one, leaves a file of sectors. *)
LEMMA WriteKeepsFile ==
  ASSUME NEW f, IsPart(f), NEW w, IsWrite(w), NEW m \in 0 .. w.len
  PROVE  IsPart(Written(f, w, m))
<1>1. /\ w.at \in Nat /\ w.len \in Nat /\ w.at + w.len =< VolumeSectors
      /\ \A i \in 0 .. w.len - 1 : w.data[i] \in Content
  BY DEF IsWrite
<1>2. m \in Nat /\ w.at + m =< VolumeSectors /\ \A i \in 0 .. m - 1 : i \in 0 .. w.len - 1
  BY <1>1, Placement
<1>3. QED
  BY <1>1, <1>2, WrittenIsPart

LEMMA EmptyIsPart == IsPart(<<>>) /\ DOMAIN (<<>>) = {}
<1>1. 0 \in 0 .. VolumeSectors /\ DOMAIN (<<>>) = 0 .. 0 - 1
  BY Placement
<1>2. QED
  BY <1>1 DEF IsPart

LEMMA WholeIs ==
  /\ DOMAIN Whole = Sectors /\ IsPart(Whole)
  /\ \A i \in Sectors : i \in Nat /\ Whole[i] = Original(i)
<1>1. DOMAIN Whole = Sectors /\ \A i \in Sectors : i \in Nat /\ Whole[i] = Original(i)
  BY DEF Whole, Sectors
<1>2. VolumeSectors \in 0 .. VolumeSectors /\ Sectors = 0 .. VolumeSectors - 1
  BY Placement DEF Sectors
<1>3. QED
  BY <1>1, <1>2, ContentsAreContent DEF IsPart

-----------------------------------------------------------------------------
(* The files of encrypt_volume. *)

LEMMA InitFile == Init => FileInv
<1> SUFFICES ASSUME Init PROVE FileInv
  OBVIOUS
<1>1. source = Whole /\ IsPart(source)
  BY WholeIs DEF Init, EncInit, Whole
<1>2. 0 \in 0 .. VolumeSectors
  BY Placement
<1>3. DOMAIN regions = {}
  BY DEF Init, EncInit
<1>4. QED
  BY <1>1, <1>2, <1>3, EmptyIsPart DEF Init, EncInit, FileInv, Copies

(* The header is saved before the output empties the source. *)
LEMMA OpenSaves ==
  ASSUME FileInv, Open
  PROVE  /\ saved' = SavedHeader /\ saved' \in [0 .. SavedSectors - 1 -> Content]
         /\ IsPart(source') /\ (~request.aliased => source' = Whole)
         /\ \A n \in DOMAIN regions' : regions'[n] \in [start : Nat, end : Nat]
<1>1. pc = "start" /\ source = Whole
  BY DEF Open, FileInv
<1>2. saved' = SavedHeader
  <2>1. /\ VolumeSectors \in Nat /\ DOMAIN source = 0 .. VolumeSectors - 1
        /\ SavedSectors \in Nat /\ SavedSectors =< VolumeSectors /\ 0 \in Nat
    BY <1>1, WholeIs, Placement DEF Sectors
  <2>2. PICK k \in 0 .. SavedSectors :
          /\ DOMAIN ReadSource(0, SavedSectors) = 0 .. k - 1
          /\ \A i \in 0 .. k - 1 : /\ 0 + i \in DOMAIN source
                                   /\ ReadSource(0, SavedSectors)[i] = source[0 + i]
          /\ k < SavedSectors => VolumeSectors =< 0 + k
    BY <2>1, ReadSourceIs
  <2>3. k = SavedSectors
    BY <2>1, <2>2
  <2>4. \A i \in 0 .. SavedSectors - 1 : ReadSource(0, SavedSectors)[i] = Original(i)
    <3> TAKE i \in 0 .. SavedSectors - 1
    <3>1. 0 + i \in DOMAIN source /\ ReadSource(0, SavedSectors)[i] = source[0 + i] /\ 0 + i = i
      BY <2>2, <2>3
    <3>2. QED
      BY <1>1, <3>1, WholeIs
  <2>5. ReadSource(0, SavedSectors) = SavedHeader
    <3>1. ReadSource(0, SavedSectors) =
            [i \in DOMAIN ReadSource(0, SavedSectors) |-> ReadSource(0, SavedSectors)[i]]
      BY DEF ReadSource
    <3>2. QED
      BY <2>2, <2>3, <2>4, <3>1 DEF SavedHeader
  <2>6. QED
    BY <2>5 DEF Open
<1>3. SavedHeader \in [0 .. SavedSectors - 1 -> Content]
  <2>1. \A i \in 0 .. SavedSectors - 1 : i \in Nat
    BY Placement
  <2>2. QED
    BY <2>1, ContentsAreContent DEF SavedHeader
<1>4. IsPart(source') /\ (~request.aliased => source' = Whole)
  <2>1. CASE ~request.aliased
    BY <1>1, <2>1, WholeIs DEF Open
  <2>2. CASE request.aliased
    <3>1. PICK n \in Held : source' = [i \in 0 .. n - 1 |-> source[i]]
      BY <2>2 DEF Open
    <3>2. n \in 0 .. VolumeSectors /\ \A i \in 0 .. n - 1 : i \in Sectors
      BY ImageConstants, Placement DEF Sectors
    <3>3. DOMAIN source' = 0 .. n - 1 /\ \A i \in 0 .. n - 1 : source'[i] \in Content
      BY <1>1, <3>1, <3>2, WholeIs, ContentsAreContent
    <3>4. QED
      BY <2>2, <3>2, <3>3 DEF IsPart
  <2>3. QED
    BY <2>1, <2>2
<1>5. ASSUME NEW n \in DOMAIN regions' PROVE regions'[n] \in [start : Nat, end : Nat]
  <2>1. Selective /\ regions' = UsedRegions
    <3>1. DOMAIN (<<>>) = {}
      OBVIOUS
    <3>2. regions' = IF Selective THEN UsedRegions ELSE <<>>
      BY DEF Open
    <3>3. QED
      BY <1>5, <3>1, <3>2
  <2>2. regions'[n] \in Runs(InUseSectors, VolumeSectors)
    BY <2>1, UsedRegionsSorted
  <2>3. regions'[n] \in [start : 0 .. VolumeSectors, end : 0 .. VolumeSectors]
    BY <2>2 DEF Runs
  <2>4. QED
    BY <2>3, Placement
<1>6. QED
  BY <1>2, <1>3, <1>4, <1>5

LEMMA EncryptKeepsFile ==
  ASSUME FileInv, EncryptStep \/ Interrupt
  PROVE  FileInv'
<1> USE DEF FileInv
<1>1. request' = request
  BY DEF EncryptStep, Refuse, Open, WriteHead, EncryptChunk, EndBody, WriteMetadata,
         WriteBackup, FitSize, Interrupt
<1>2. CASE Refuse
  BY <1>2 DEF Refuse, EncryptionOver, IsPart
<1>3. CASE Open
  <2>1. /\ saved' \in [0 .. SavedSectors - 1 -> Content] /\ IsPart(source')
        /\ \A n \in DOMAIN regions' : regions'[n] \in [start : Nat, end : Nat]
    BY <1>3, OpenSaves
  <2>2. /\ out' = <<>> /\ pc' = "head" /\ UNCHANGED <<request, offset, copy>>
    BY <1>3 DEF Open
  <2>3. QED
    BY <2>1, <2>2, EmptyIsPart DEF Writing, IsPart
<1>4. CASE WriteHead
  <2>1. /\ pc = "head" /\ pc' = "body" /\ UNCHANGED <<request, source, regions, saved, copy>>
        /\ out' = Written(out, HeadWrite, HeadWrite.len) /\ offset' = NumHeaderSectors
    BY <1>4 DEF WriteHead
  <2>2. HeadWrite.len \in 0 .. HeadWrite.len
    BY HeadWriteIs, Placement
  <2>3. IsPart(out')
    BY <2>1, <2>2, HeadWriteIs, WriteKeepsFile
  <2>4. offset' \in 0 .. VolumeSectors
    BY <2>1, Placement
  <2>5. QED
    BY <2>1, <2>3, <2>4 DEF Writing, IsPart
<1>5. CASE EncryptChunk
  <2>1. /\ pc = "body" /\ UNCHANGED <<request, source, pc, regions, saved, copy>>
        /\ out' = Written(out, ChunkWrite, ChunkWrite.len) /\ offset' = offset + Length(Chunk)
    BY <1>5 DEF EncryptChunk, AfterChunk
  <2>2. IsWrite(ChunkWrite) /\ ChunkWrite.len \in 0 .. ChunkWrite.len
    BY ChunkWriteIs DEF IsWrite
  <2>3. IsPart(out')
    BY <2>1, <2>2, WriteKeepsFile
  <2>4. offset' \in 0 .. VolumeSectors
    BY <2>1, ChunkIs
  <2>5. QED
    BY <2>1, <2>3, <2>4 DEF IsPart
<1>6. CASE EndBody
  BY <1>6 DEF EndBody, Writing, IsPart
<1>7. CASE WriteMetadata
  <2>1. /\ pc = "metadata" /\ UNCHANGED <<request, source, regions, saved, offset>>
        /\ out' \in {out, Written(out, MetadataWrite(copy), BlockSectors)}
        /\ \/ copy = 3 /\ pc' = "backup" /\ copy' = copy
           \/ copy # 3 /\ pc' = "metadata" /\ copy' = copy + 1
    BY <1>7 DEF WriteMetadata
  <2>2. /\ IsWrite(MetadataWrite(copy)) /\ MetadataWrite(copy).len = BlockSectors
        /\ BlockSectors \in 0 .. BlockSectors
    BY MetadataWriteIs, Placement
  <2>3. IsPart(out')
    BY <2>1, <2>2, WriteKeepsFile
  <2>4. copy' \in Copies
    BY <2>1 DEF Copies
  <2>5. QED
    BY <2>1, <2>3, <2>4 DEF Writing, IsPart
<1>8. CASE WriteBackup
  <2>1. /\ pc = "backup" /\ pc' = "fit" /\ UNCHANGED <<request, source, regions, saved, offset, copy>>
        /\ out' = Written(out, BackupWrite, SavedSectors)
    BY <1>8 DEF WriteBackup
  <2>2. /\ IsWrite(BackupWrite) /\ BackupWrite.len = SavedSectors
        /\ SavedSectors \in 0 .. SavedSectors
    BY <2>1, BackupWriteIs, Placement
  <2>3. IsPart(out')
    BY <2>1, <2>2, WriteKeepsFile
  <2>4. QED
    BY <2>1, <2>3 DEF Writing, IsPart
<1>9. CASE FitSize
  <2>1. /\ pc = "fit" /\ pc' = "done" /\ UNCHANGED <<request, source, regions, saved, offset, copy>>
        /\ out' = [i \in Sectors |-> IF i \in DOMAIN out THEN out[i] ELSE Zero]
    BY <1>9 DEF FitSize
  <2>2. DOMAIN out' = 0 .. VolumeSectors - 1 /\ VolumeSectors \in 0 .. VolumeSectors
    BY <2>1, Placement DEF Sectors
  <2>3. \A i \in DOMAIN out' : out'[i] \in Content
    BY <2>1, ContentsAreContent DEF IsPart
  <2>4. IsPart(out')
    BY <2>2, <2>3 DEF IsPart
  <2>5. QED
    BY <2>1, <2>4 DEF EncryptionOver, IsPart
<1>10. CASE Interrupt
  <2>1. /\ pc \in Writing /\ pc' = "cut"
        /\ UNCHANGED <<request, source, regions, saved, offset, copy>>
        /\ \E m \in 0 .. Pending.len : out' = Written(out, Pending, m)
    BY <1>10 DEF Interrupt
  <2>2. IsPart(out')
    BY <2>1, PendingIs, WriteKeepsFile
  <2>3. "cut" \in EncryptionOver /\ pc \notin {"start", "refused"}
    BY <2>1 DEF EncryptionOver, Writing
  <2>4. QED
    BY <2>1, <2>2, <2>3 DEF IsPart
<1>11. QED
  BY <1>2, <1>3, <1>4, <1>5, <1>6, <1>7, <1>8, <1>9, <1>10 DEF EncryptStep

-----------------------------------------------------------------------------
(* What is in the image. *)

(* A write on a file as long as the volume. *)
LEMMA WrittenOver ==
  ASSUME NEW f, DOMAIN f = Sectors, NEW w, IsWrite(w), NEW m \in 0 .. w.len
  PROVE  /\ DOMAIN Written(f, w, m) = Sectors
         /\ \A i \in Sectors :
              Written(f, w, m)[i] =
                IF w.at =< i /\ i < w.at + m THEN w.data[i - w.at] ELSE f[i]
<1>1. /\ w.at \in Nat /\ w.len \in Nat /\ w.at + w.len =< VolumeSectors
      /\ m \in Nat /\ w.at + m =< VolumeSectors /\ VolumeSectors \in Nat
      /\ VolumeSectors \in 0 .. VolumeSectors
  BY Placement DEF IsWrite
<1>2. DOMAIN f = 0 .. VolumeSectors - 1
  BY DEF Sectors
<1> DEFINE g == Written(f, w, m)
<1>3. /\ DOMAIN f \subseteq DOMAIN g
      /\ \A i \in DOMAIN g :
           g[i] = IF w.at =< i /\ i < w.at + m THEN w.data[i - w.at]
                  ELSE IF i \in DOMAIN f THEN f[i] ELSE Zero
      /\ \A i \in Nat : w.at =< i /\ i < w.at + m => i \in DOMAIN g
      /\ \E b \in 0 .. VolumeSectors :
           /\ DOMAIN g = 0 .. b - 1 /\ VolumeSectors =< b
           /\ b = VolumeSectors \/ (m > 0 /\ b = w.at + m)
           /\ w.at =< VolumeSectors /\ VolumeSectors =< w.at + m => b = w.at + m
  <2>1. /\ VolumeSectors \in 0 .. VolumeSectors /\ DOMAIN f = 0 .. VolumeSectors - 1
        /\ w.at \in Nat /\ m \in Nat /\ w.at + m =< VolumeSectors
    BY <1>1, <1>2
  <2>2. QED
    BY <2>1, WrittenIs, SMTT(30)
<1> HIDE DEF g
<1>4. DOMAIN g = Sectors
  BY <1>1, <1>3 DEF Sectors
<1>5. QED
  BY <1>3, <1>4 DEF g

(* A structure is written over no other sector than its own.               *)
LEMMA StructureKeepsBody ==
  ASSUME NEW f, BodyThere(f), NEW w, IsWrite(w), NEW m \in 0 .. w.len,
         \A i \in Sectors : w.at =< i /\ i < w.at + w.len => i \in Overwritten
  PROVE  BodyThere(Written(f, w, m))
<1>1. DOMAIN f = Sectors
  BY DEF BodyThere
<1>2. m \in Nat /\ w.at \in Nat /\ w.len \in Nat /\ m =< w.len
  BY DEF IsWrite
<1>3. \A i \in Sectors \ Overwritten : ~ (w.at =< i /\ i < w.at + m)
  BY <1>2 DEF Sectors
<1>4. QED
  BY <1>1, <1>3, WrittenOver DEF BodyThere

(* The places of the structures, and what is not among them.               *)
LEMMA StructuresApart ==
  /\ \A j \in Copies : \A i \in Sectors :
       MetaAt(j) =< i /\ i < MetaAt(j) + BlockSectors => i \in Overwritten
  /\ \A i \in Sectors : BackupAt =< i /\ i < BackupAt + SavedSectors => i \in Overwritten
  /\ \A j, l \in Copies : j # l =>
       MetaAt(j) + BlockSectors =< MetaAt(l) \/ MetaAt(l) + BlockSectors =< MetaAt(j)
  /\ \A j \in Copies : \/ MetaAt(j) + BlockSectors =< BackupAt
                       \/ BackupAt + SavedSectors =< MetaAt(j)
<1>1. /\ MetaAt(1) \in Nat /\ MetaAt(2) \in Nat /\ MetaAt(3) \in Nat
      /\ BackupAt \in Nat /\ BlockSectors \in Nat /\ SavedSectors \in Nat
      /\ NumHeaderSectors \in Nat /\ SavedSectors =< NumHeaderSectors
      /\ MetaAt(1) + BlockSectors =< BackupAt
      /\ BackupAt + NumHeaderSectors =< MetaAt(2)
      /\ MetaAt(2) + BlockSectors =< MetaAt(3)
  BY Placement DEF Copies
<1>2. /\ MetaAt(1) + BlockSectors =< MetaAt(2) /\ MetaAt(1) + BlockSectors =< MetaAt(3)
      /\ BackupAt + SavedSectors =< MetaAt(2) /\ BackupAt + SavedSectors =< MetaAt(3)
  BY <1>1
<1>3. \A j \in Copies : j = 1 \/ j = 2 \/ j = 3
  BY DEF Copies
<1>4. \A j \in Copies : \A i \in Sectors :
        MetaAt(j) =< i /\ i < MetaAt(j) + BlockSectors => i \in Overwritten
  BY DEF Overwritten, MetadataPlaces
<1>5. \A i \in Sectors : BackupAt =< i /\ i < BackupAt + SavedSectors => i \in Overwritten
  <2> TAKE i \in Sectors
  <2> HAVE BackupAt =< i /\ i < BackupAt + SavedSectors
  <2>1. i \in BackupPlaces
    BY <1>1 DEF BackupPlaces, Sectors
  <2>2. QED
    BY <2>1 DEF Overwritten
<1>6. \A j, l \in Copies : j # l =>
        MetaAt(j) + BlockSectors =< MetaAt(l) \/ MetaAt(l) + BlockSectors =< MetaAt(j)
  BY <1>1, <1>2, <1>3
<1>7. \A j \in Copies : \/ MetaAt(j) + BlockSectors =< BackupAt
                        \/ BackupAt + SavedSectors =< MetaAt(j)
  BY <1>1, <1>2, <1>3
<1>8. QED
  BY <1>4, <1>5, <1>6, <1>7

(* A block is not disturbed by a write elsewhere. *)
LEMMA BlockKept ==
  ASSUME NEW f, DOMAIN f = Sectors, NEW j \in Copies, BlockThere(f, j),
         NEW w, IsWrite(w),
         MetaAt(j) + BlockSectors =< w.at \/ w.at + w.len =< MetaAt(j)
  PROVE  BlockThere(Written(f, w, w.len), j)
<1>1. /\ w.at \in Nat /\ w.len \in Nat /\ w.len \in 0 .. w.len
      /\ MetaAt(j) \in Nat /\ BlockSectors \in Nat /\ VolumeSectors \in Nat
      /\ MetaAt(j) + BlockSectors =< VolumeSectors
  BY Placement DEF IsWrite
<1> SUFFICES ASSUME NEW i \in 0 .. BlockSectors - 1
             PROVE  Written(f, w, w.len)[MetaAt(j) + i] = FveBlock(Key)[i]
  BY DEF BlockThere
<1> DEFINE x == MetaAt(j) + i
<1>2. x \in Sectors /\ ~ (w.at =< x /\ x < w.at + w.len)
  BY <1>1 DEF Sectors
<1>3. f[x] = FveBlock(Key)[i]
  BY DEF BlockThere
<1> HIDE DEF x
<1>4. Written(f, w, w.len)[x] = f[x]
  BY <1>1, <1>2, WrittenOver
<1>5. QED
  BY <1>3, <1>4 DEF x

(* What has been written is there. *)
LEMMA WriteThere ==
  ASSUME NEW f, DOMAIN f = Sectors, NEW w, IsWrite(w)
  PROVE  \A i \in 0 .. w.len - 1 : Written(f, w, w.len)[w.at + i] = w.data[i]
<1>1. /\ w.at \in Nat /\ w.len \in Nat /\ w.len \in 0 .. w.len
      /\ VolumeSectors \in Nat /\ w.at + w.len =< VolumeSectors
  BY Placement DEF IsWrite
<1> TAKE i \in 0 .. w.len - 1
<1> DEFINE x == w.at + i
<1>2. x \in Sectors /\ w.at =< x /\ x < w.at + w.len /\ x - w.at = i
  BY <1>1 DEF Sectors
<1> HIDE DEF x
<1>3. Written(f, w, w.len)[x] = w.data[i]
  BY <1>1, <1>2, WrittenOver
<1>4. QED
  BY <1>3 DEF x

LEMMA SealedOneIs ==
  ASSUME NEW i \in Nat
  PROVE  SealedOne(i) \in Content /\ SealedOne(i).base.kind = "data"
<1>1. Original(i) \in Content /\ Original(i).base.kind = "data"
  BY ContentsAreContent
<1>2. /\ EncryptSector(Key, i, Original(i)) \in Content
      /\ EncryptSector(Key, i, Original(i)).base = Original(i).base
  BY <1>1, KeyIsNat, CipherIsContent, SealedKeepsBase
<1>3. QED
  BY <1>1, <1>2 DEF SealedOne

(* A chunk is written as each of its sectors is to be. *)
LEMMA ChunkIsSealed ==
  ASSUME FileInv, DataInv, ~request.aliased, pc = "body"
  PROVE  \E k \in Nat :
           /\ Length(Chunk) = k /\ offset + k =< VolumeSectors
           /\ \A i \in 0 .. k - 1 :
                offset + i \in Sectors /\ ChunkWrite.data[i] = SealedOne(offset + i)
<1>1. source = Whole /\ RegionsFound /\ offset \in Nat
  BY DEF DataInv, FileInv
<1>2. PICK k \in Nat :
        /\ Length(Chunk) = k /\ offset + k =< VolumeSectors
        /\ \A i \in 0 .. k - 1 : offset + i \in DOMAIN source /\ Chunk[i] = source[offset + i]
  BY ChunkIs
<1>3. ASSUME NEW i \in 0 .. k - 1
      PROVE  offset + i \in Sectors /\ ChunkWrite.data[i] = SealedOne(offset + i)
  <2>1. offset + i \in Sectors /\ Chunk[i] = Original(offset + i)
    BY <1>1, <1>2, WholeIs
  <2>2. ChunkWrite.data[i] = IF Selective /\ ~OffsetInRegions(offset + i) THEN Chunk[i]
                             ELSE EncryptSector(Key, offset + i, Chunk[i])
    BY <1>2, ChunkWriteIs
  <2>3. Selective => (OffsetInRegions(offset + i) <=> offset + i \in InUseSectors)
    BY <1>1, <2>1 DEF RegionsFound
  <2>4. QED
    BY <2>1, <2>2, <2>3 DEF SealedOne
<1>4. QED
  BY <1>2, <1>3

(* The loop ends when it has passed the volume. *)
LEMMA BodyOverAtEnd ==
  ASSUME FileInv, source = Whole, BodyOver
  PROVE  offset = VolumeSectors
<1>1. PICK k \in Nat :
        /\ DOMAIN Chunk = 0 .. k - 1
        /\ DOMAIN source = Sectors /\ offset < VolumeSectors => k > 0
  BY ChunkIs
<1>2. offset \in Nat /\ VolumeSectors \in Nat /\ offset =< VolumeSectors
  BY Placement DEF FileInv
<1>3. ASSUME offset < VolumeSectors PROVE FALSE
  <2>1. Chunk = <<>>
    BY <1>2, <1>3 DEF BodyOver
  <2>2. 0 .. k - 1 = {} /\ k > 0
    BY <1>1, <1>3, <2>1, WholeIs
  <2>3. 0 \in 0 .. k - 1
    BY <2>2
  <2>4. QED
    BY <2>2, <2>3
<1>4. QED
  BY <1>2, <1>3

(* What is said of the image is about the same request after a step.       *)
LEMMA SameRequest ==
  ASSUME request' = request
  PROVE  /\ Selective' <=> Selective
         /\ InUseSectors' = InUseSectors
         /\ \A i \in Nat : SealedOne(i)' = SealedOne(i)
         /\ BodyThere(out)' <=> BodyThere(out')
         /\ \A j \in Copies : BlockThere(out, j)' <=> BlockThere(out', j)
         /\ BackupThere(out)' <=> BackupThere(out')
         /\ Keyless(out)' <=> Keyless(out')
         /\ regions' = regions => (RegionsFound' <=> RegionsFound)
         /\ RegionsFound' <=>
              (Selective => \A i \in Sectors : Near(regions', i) <=> i \in InUseSectors)
         /\ SavedHeader' = SavedHeader /\ Whole' = Whole
<1>1. (Selective' <=> Selective) /\ InUseSectors' = InUseSectors
  BY DEF Selective, InUseSectors
<1>2. \A i : SealedOne(i)' = SealedOne(i)
  BY <1>1 DEF SealedOne
<1>3. BodyThere(out)' <=> BodyThere(out')
  BY <1>2 DEF BodyThere
<1>4. /\ \A j \in Copies : BlockThere(out, j)' <=> BlockThere(out', j)
      /\ BackupThere(out)' <=> BackupThere(out')
      /\ Keyless(out)' <=> Keyless(out')
      /\ SavedHeader' = SavedHeader /\ Whole' = Whole
  BY DEF BlockThere, BackupThere, Keyless, SavedHeader, Whole
<1>5. RegionsFound' <=>
        (Selective => \A i \in Sectors : Near(regions', i) <=> i \in InUseSectors)
  BY <1>1, NearIs DEF RegionsFound
<1>6. RegionsFound <=>
        (Selective => \A i \in Sectors : Near(regions, i) <=> i \in InUseSectors)
  BY NearIs DEF RegionsFound
<1>7. QED
  BY <1>1, <1>2, <1>3, <1>4, <1>5, <1>6

(* The header of a new file: no sector of it belongs to a block. *)
LEMMA HeadIsKeyless ==
  ASSUME NEW m \in 0 .. HeadWrite.len
  PROVE  /\ DOMAIN Written(<<>>, HeadWrite, m) = 0 .. m - 1
         /\ Keyless(Written(<<>>, HeadWrite, m))
<1>1. /\ HeadWrite.at = 0 /\ HeadWrite.len = NumHeaderSectors
      /\ \A i \in 0 .. NumHeaderSectors - 1 : HeadWrite.data[i] \in {BitLockerHeader, Zero}
  BY HeadWriteIs
<1>2. /\ m \in Nat /\ m =< NumHeaderSectors /\ NumHeaderSectors \in Nat
      /\ NumHeaderSectors =< VolumeSectors /\ VolumeSectors \in Nat
      /\ 0 + m =< VolumeSectors /\ 0 \in 0 .. VolumeSectors
  BY <1>1, Placement
<1>3. DOMAIN (<<>>) = 0 .. 0 - 1
  OBVIOUS
<1> DEFINE g == Written(<<>>, HeadWrite, m)
<1> DEFINE e == <<>>
<1> DEFINE w == HeadWrite
<1> DEFINE a == 0
<1>4. HeadWrite.at \in Nat /\ HeadWrite.at + m =< VolumeSectors
  BY <1>1, <1>2
<1>5. /\ DOMAIN e = 0 .. a - 1 /\ a \in 0 .. VolumeSectors
      /\ w.at \in Nat /\ w.at + m =< VolumeSectors
  BY <1>2, <1>3, <1>4
<1> HIDE DEF e, w, a
<1>6. /\ DOMAIN e \subseteq DOMAIN Written(e, w, m)
      /\ \A i \in DOMAIN Written(e, w, m) :
           Written(e, w, m)[i] =
             IF w.at =< i /\ i < w.at + m THEN w.data[i - w.at]
             ELSE IF i \in DOMAIN e THEN e[i] ELSE Zero
      /\ \A i \in Nat : w.at =< i /\ i < w.at + m => i \in DOMAIN Written(e, w, m)
      /\ \E b \in 0 .. VolumeSectors :
           /\ DOMAIN Written(e, w, m) = 0 .. b - 1 /\ a =< b
           /\ b = a \/ (m > 0 /\ b = w.at + m)
           /\ w.at =< a /\ a =< w.at + m => b = w.at + m
  <2>1. /\ a \in 0 .. VolumeSectors /\ DOMAIN e = 0 .. a - 1
        /\ w.at \in Nat /\ m \in Nat /\ w.at + m =< VolumeSectors
    BY <1>2, <1>5
  <2>2. QED
    BY <2>1, WrittenIs, SMTT(30)
<1>7. a = 0 /\ w.at = 0 /\ w.data = HeadWrite.data /\ g = Written(e, w, m)
  BY <1>1 DEF w, e, a
<1> HIDE DEF g
<1>8. DOMAIN g = 0 .. m - 1
  BY <1>2, <1>6, <1>7
<1>9. ASSUME NEW i \in DOMAIN g PROVE g[i].base.kind # "fve"
  <2>1. i \in 0 .. NumHeaderSectors - 1 /\ 0 =< i /\ i < 0 + m /\ i - 0 = i
    BY <1>2, <1>8
  <2>2. g[i] \in {BitLockerHeader, Zero}
    BY <1>1, <1>6, <1>7, <2>1
  <2>3. QED
    BY <2>2, ContentsAreContent
<1>10. QED
  BY <1>8, <1>9 DEF Keyless, g

(* The loop's file after the chunk under way, or a part of it. *)
LEMMA ChunkGrows ==
  ASSUME FileInv, DataInv, ~request.aliased, pc = "body", NEW m \in 0 .. ChunkWrite.len
  PROVE  LET g == Written(out, ChunkWrite, m)
         IN  /\ DOMAIN g = 0 .. offset + m - 1 /\ Keyless(g)
             /\ \A i \in NumHeaderSectors .. offset + m - 1 : g[i] = SealedOne(i)
             /\ offset + m =< VolumeSectors
<1>1. PICK k \in Nat :
        /\ Length(Chunk) = k /\ offset + k =< VolumeSectors
        /\ \A i \in 0 .. k - 1 :
             offset + i \in Sectors /\ ChunkWrite.data[i] = SealedOne(offset + i)
  BY ChunkIsSealed
<1>2. ChunkWrite.at = offset /\ ChunkWrite.len = k
  BY <1>1, ChunkWriteIs
<1>3. /\ offset \in Nat /\ VolumeSectors \in Nat /\ m \in Nat /\ m =< k
      /\ offset \in 0 .. VolumeSectors /\ offset + m =< VolumeSectors
      /\ NumHeaderSectors \in Nat
  BY <1>1, <1>2, Placement DEF FileInv
<1>4. /\ DOMAIN out = 0 .. offset - 1 /\ Keyless(out)
      /\ \A i \in NumHeaderSectors .. offset - 1 : out[i] = SealedOne(i)
  BY DEF DataInv
<1> DEFINE g == Written(out, ChunkWrite, m)
<1> DEFINE w == ChunkWrite
<1>5. w.at = offset /\ w.at \in Nat /\ w.at + m =< VolumeSectors /\ w.data = ChunkWrite.data
  BY <1>2, <1>3
<1> HIDE DEF w
<1>6. /\ DOMAIN out \subseteq DOMAIN Written(out, w, m)
      /\ \A i \in DOMAIN Written(out, w, m) :
           Written(out, w, m)[i] =
             IF w.at =< i /\ i < w.at + m THEN w.data[i - w.at]
             ELSE IF i \in DOMAIN out THEN out[i] ELSE Zero
      /\ \A i \in Nat : w.at =< i /\ i < w.at + m => i \in DOMAIN Written(out, w, m)
      /\ \E b \in 0 .. VolumeSectors :
           /\ DOMAIN Written(out, w, m) = 0 .. b - 1 /\ offset =< b
           /\ b = offset \/ (m > 0 /\ b = w.at + m)
           /\ w.at =< offset /\ offset =< w.at + m => b = w.at + m
  <2>1. /\ offset \in 0 .. VolumeSectors /\ DOMAIN out = 0 .. offset - 1 /\ m \in Nat
        /\ w.at \in Nat /\ w.at + m =< VolumeSectors
    BY <1>3, <1>4, <1>5
  <2>2. QED
    BY <2>1, WrittenIs, SMTT(30)
<1>7. g = Written(out, w, m)
  BY DEF w
<1> HIDE DEF g
<1>8. /\ \A i \in DOMAIN g :
           g[i] = IF offset =< i /\ i < offset + m THEN ChunkWrite.data[i - offset]
                  ELSE IF i \in DOMAIN out THEN out[i] ELSE Zero
      /\ \E b \in 0 .. VolumeSectors :
           DOMAIN g = 0 .. b - 1 /\ (offset =< offset + m => b = offset + m)
  BY <1>3, <1>5, <1>6, <1>7
<1>9. DOMAIN g = 0 .. offset + m - 1
  BY <1>3, <1>8
<1>10. ASSUME NEW i \in 0 .. offset + m - 1
      PROVE  IF offset =< i THEN g[i] = SealedOne(i) ELSE i \in 0 .. offset - 1 /\ g[i] = out[i]
  <2>1. CASE offset =< i
    <3>1. i - offset \in 0 .. k - 1 /\ offset + (i - offset) = i /\ i < offset + m
      BY <1>3, <2>1
    <3>2. QED
      BY <1>1, <1>8, <1>9, <2>1, <3>1
  <2>2. CASE ~ (offset =< i)
    <3>1. i \in 0 .. offset - 1
      BY <1>3, <2>2
    <3>2. QED
      BY <1>4, <1>8, <1>9, <2>2, <3>1
  <2>3. QED
    BY <2>1, <2>2
<1>11. Keyless(g)
  <2>1. ASSUME NEW i \in DOMAIN g PROVE g[i].base.kind # "fve"
    <3>1. i \in Nat /\ i \in 0 .. offset + m - 1
      BY <1>9
    <3>2. SealedOne(i).base.kind = "data"
      BY <3>1, SealedOneIs
    <3>3. QED
      BY <1>4, <1>10, <3>1, <3>2 DEF Keyless
  <2>2. QED
    BY <2>1 DEF Keyless
<1>12. ASSUME NEW i \in NumHeaderSectors .. offset + m - 1 PROVE g[i] = SealedOne(i)
  <2>1. i \in 0 .. offset + m - 1 /\ (~(offset =< i) => i \in NumHeaderSectors .. offset - 1)
    BY <1>3
  <2>2. QED
    BY <1>4, <1>10, <2>1
<1>13. QED
  BY <1>3, <1>9, <1>11, <1>12 DEF g

LEMMA InitData == Init => DataInv
<1> SUFFICES ASSUME Init PROVE DataInv
  OBVIOUS
<1>1. pc = "start" /\ source = Whole /\ copy = 1
  BY DEF Init, EncInit, Whole
<1>2. QED
  BY <1>1 DEF DataInv

(* What is written after the loop is a structure in its place. *)
LEMMA StructureWrites ==
  ASSUME FileInv, pc \in {"metadata", "backup"}
  PROVE  /\ IsWrite(Pending) /\ Pending.len \in Nat
         /\ \A i \in Sectors : Pending.at =< i /\ i < Pending.at + Pending.len => i \in Overwritten
         /\ pc = "metadata" => Pending = MetadataWrite(copy)
         /\ pc = "backup" => Pending = BackupWrite
<1>1. IsWrite(Pending)
  BY PendingIs DEF Writing
<1>2. CASE pc = "metadata"
  <2>1. Pending = MetadataWrite(copy) /\ copy \in Copies
    BY <1>2 DEF Pending, FileInv
  <2>2. Pending.at = MetaAt(copy) /\ Pending.len = BlockSectors
    BY <2>1, MetadataWriteIs
  <2>3. QED
    BY <1>1, <1>2, <2>1, <2>2, StructuresApart DEF IsWrite
<1>3. CASE pc = "backup"
  <2>1. Pending = BackupWrite /\ saved \in [0 .. SavedSectors - 1 -> Content]
    BY <1>3 DEF Pending, FileInv
  <2>2. Pending.at = BackupAt /\ Pending.len = SavedSectors
    BY <2>1, BackupWriteIs
  <2>3. QED
    BY <1>1, <1>3, <2>1, <2>2, StructuresApart DEF IsWrite
<1>4. QED
  BY <1>2, <1>3

(* A run that is cut off leaves a file without keys, or all that the loop  *)
(* was to write.                                                           *)
LEMMA CutIsEither ==
  ASSUME FileInv, DataInv, ~request.aliased, Interrupt
  PROVE  BodyThere(out') \/ Keyless(out')
<1>1. pc \in Writing /\ \E m \in 0 .. Pending.len : out' = Written(out, Pending, m)
  BY DEF Interrupt
<1>2. PICK m \in 0 .. Pending.len : out' = Written(out, Pending, m)
  BY <1>1
<1>3. CASE pc = "head"
  <2>1. out = <<>> /\ Pending = HeadWrite
    BY <1>3 DEF FileInv, Pending
  <2>2. QED
    BY <1>2, <2>1, HeadIsKeyless
<1>4. CASE pc = "body"
  <2>1. Pending = ChunkWrite
    BY <1>4 DEF Pending
  <2>2. QED
    BY <1>2, <1>4, <2>1, ChunkGrows
<1>5. CASE pc \in {"metadata", "backup"}
  <2>1. BodyThere(out)
    BY <1>5 DEF DataInv
  <2>2. QED
    BY <1>2, <1>5, <2>1, StructureWrites, StructureKeepsBody
<1>6. CASE pc = "fit"
  <2>1. BodyThere(out) /\ Pending.len = 0 /\ Pending.at = 0 /\ IsWrite(Pending)
    BY <1>6, PendingIs DEF DataInv, Pending, WriteAt, Writing
  <2>2. \A i \in Sectors : ~ (Pending.at =< i /\ i < Pending.at + Pending.len)
    BY <2>1 DEF Sectors
  <2>3. QED
    BY <1>2, <2>1, <2>2, StructureKeepsBody
<1>7. QED
  BY <1>1, <1>3, <1>4, <1>5, <1>6 DEF Writing

LEMMA MetadataKeepsData ==
  ASSUME FileInv, DataInv, ~request.aliased, WriteMetadata
  PROVE  /\ BodyThere(out')
         /\ \A j \in 1 .. copy : BlockThere(out', j)
<1>1. pc = "metadata" /\ copy \in Copies
  BY DEF WriteMetadata, FileInv
<1> DEFINE w == MetadataWrite(copy)
<1>2. MetaAt(copy) < VolumeSectors
  BY <1>1, Placement
<1>3. /\ IsWrite(w) /\ w.at = MetaAt(copy) /\ w.len = BlockSectors /\ w.data = FveBlock(Key)
      /\ w.len \in 0 .. w.len /\ w = Pending
  BY <1>1, MetadataWriteIs, StructureWrites DEF IsWrite
<1>4. out' = Written(out, w, w.len)
  BY <1>2, <1>3 DEF WriteMetadata
<1>5. BodyThere(out) /\ DOMAIN out = Sectors /\ \A j \in 1 .. copy - 1 : BlockThere(out, j)
  BY <1>1 DEF DataInv, BodyThere
<1>6. BodyThere(out')
  <2>1. \A i \in Sectors : w.at =< i /\ i < w.at + w.len => i \in Overwritten
    BY <1>1, <1>3, StructuresApart
  <2> HIDE DEF w
  <2>2. QED
    BY <1>3, <1>4, <1>5, <2>1, StructureKeepsBody
<1> HIDE DEF w
<1>7. ASSUME NEW j \in 1 .. copy - 1 PROVE BlockThere(out', j)
  <2>1. j \in Copies /\ j # copy
    BY <1>1 DEF Copies
  <2>2. MetaAt(j) + BlockSectors =< w.at \/ w.at + w.len =< MetaAt(j)
    BY <1>1, <1>3, <2>1, StructuresApart
  <2>3. BlockThere(out, j)
    BY <1>5
  <2>4. QED
    BY <1>3, <1>4, <1>5, <2>1, <2>2, <2>3, BlockKept
<1>8. BlockThere(out', copy)
  BY <1>3, <1>4, <1>5, WriteThere DEF BlockThere
<1>9. QED
  <2>1. \A j \in 1 .. copy : j \in 1 .. copy - 1 \/ j = copy
    BY <1>1 DEF Copies
  <2>2. QED
    BY <1>6, <1>7, <1>8, <2>1

LEMMA BackupKeepsData ==
  ASSUME FileInv, DataInv, ~request.aliased, WriteBackup
  PROVE  /\ BodyThere(out') /\ BackupThere(out')
         /\ \A j \in Copies : BlockThere(out', j)
<1>1. pc = "backup" /\ saved = SavedHeader /\ saved \in [0 .. SavedSectors - 1 -> Content]
  BY DEF WriteBackup, FileInv, DataInv
<1> DEFINE w == BackupWrite
<1>2. /\ IsWrite(w) /\ w.at = BackupAt /\ w.len = SavedSectors /\ w.len \in 0 .. w.len
      /\ \A i \in 0 .. SavedSectors - 1 : w.data[i] = EncryptSector(Key, BackupAt + i, Original(i))
  BY <1>1, BackupWriteIs DEF IsWrite, SavedHeader
<1>3. out' = Written(out, w, w.len)
  BY <1>2 DEF WriteBackup
<1>4. BodyThere(out) /\ DOMAIN out = Sectors /\ \A j \in Copies : BlockThere(out, j)
  BY <1>1 DEF DataInv, BodyThere
<1>5. BodyThere(out')
  <2>1. \A i \in Sectors : w.at =< i /\ i < w.at + w.len => i \in Overwritten
    BY <1>2, StructuresApart
  <2> HIDE DEF w
  <2>2. QED
    BY <1>2, <1>3, <1>4, <2>1, StructureKeepsBody
<1> HIDE DEF w
<1>6. ASSUME NEW j \in Copies PROVE BlockThere(out', j)
  <2>1. MetaAt(j) + BlockSectors =< w.at \/ w.at + w.len =< MetaAt(j)
    BY <1>2, StructuresApart
  <2>2. BlockThere(out, j)
    BY <1>4
  <2>3. QED
    BY <1>2, <1>3, <1>4, <2>1, <2>2, BlockKept
<1>7. BackupThere(out')
  BY <1>2, <1>3, <1>4, WriteThere DEF BackupThere
<1>8. QED
  BY <1>5, <1>6, <1>7

(* DataInv is about the encryption's own variables. *)
LEMMA EncryptKeepsData ==
  ASSUME FileInv, DataInv, EncryptStep \/ Interrupt
  PROVE  DataInv'
<1>1. request' = request
  BY DEF EncryptStep, Refuse, Open, WriteHead, EncryptChunk, EndBody, WriteMetadata,
         WriteBackup, FitSize, Interrupt
<1>2. CASE request.aliased
  BY <1>1, <1>2 DEF DataInv
<1>3. CASE ~request.aliased
  <2> USE DEF DataInv
  <2>1. /\ BodyThere(out)' <=> BodyThere(out')
        /\ \A j \in Copies : BlockThere(out, j)' <=> BlockThere(out', j)
        /\ BackupThere(out)' <=> BackupThere(out')
        /\ Keyless(out)' <=> Keyless(out')
        /\ regions' = regions => (RegionsFound' <=> RegionsFound)
        /\ SavedHeader' = SavedHeader /\ Whole' = Whole
        /\ \A i \in Nat : SealedOne(i)' = SealedOne(i)
    BY <1>1, SameRequest
  <2>2. CASE Refuse
    <3>1. pc' = "refused" /\ pc = "start" /\ source' = source
      BY <2>2 DEF Refuse
    <3>2. QED
      BY <1>1, <1>3, <2>1, <3>1
  <2>3. CASE Open
    <3>1. saved' = SavedHeader /\ source' = Whole
      BY <1>3, <2>3, OpenSaves
    <3>2. pc = "start" /\ pc' = "head" /\ copy' = copy
          /\ regions' = IF Selective THEN UsedRegions ELSE <<>>
      BY <2>3 DEF Open
    <3>3. Selective => regions' = UsedRegions
      BY <3>2
    <3>4. RegionsFound'
      <4>1. Selective => \A i \in Sectors : Near(regions', i) <=> i \in InUseSectors
        BY <3>3, SearchFinds
      <4>2. QED
        BY <1>1, <4>1, SameRequest
    <3>5. QED
      BY <1>1, <1>3, <2>1, <3>1, <3>2, <3>4
  <2>4. CASE WriteHead
    <3>1. /\ pc = "head" /\ pc' = "body" /\ UNCHANGED <<source, regions, saved, copy>>
          /\ out' = Written(out, HeadWrite, HeadWrite.len) /\ offset' = NumHeaderSectors
      BY <2>4 DEF WriteHead
    <3>2. /\ out = <<>> /\ HeadWrite.len = NumHeaderSectors
          /\ HeadWrite.len \in 0 .. HeadWrite.len
      BY <3>1, HeadWriteIs, Placement DEF FileInv
    <3>3. DOMAIN out' = 0 .. offset' - 1 /\ Keyless(out')
      BY <3>1, <3>2, HeadIsKeyless
    <3>4. NumHeaderSectors =< offset' /\ NumHeaderSectors .. offset' - 1 = {}
      BY <3>1, Placement
    <3>5. (\A i \in NumHeaderSectors .. offset - 1 : out[i] = SealedOne(i))'
      BY <3>4
    <3>6. source' = Whole /\ saved' = SavedHeader /\ RegionsFound' /\ copy' = 1
      BY <1>3, <2>1, <3>1
    <3>7. QED
      BY <1>1, <2>1, <3>1, <3>3, <3>4, <3>5, <3>6
  <2>5. CASE EncryptChunk
    <3>1. /\ pc = "body" /\ UNCHANGED <<source, pc, regions, saved, copy>>
          /\ out' = Written(out, ChunkWrite, ChunkWrite.len) /\ offset' = offset + Length(Chunk)
      BY <2>5 DEF EncryptChunk, AfterChunk
    <3>2. ChunkWrite.len = Length(Chunk) /\ ChunkWrite.len \in 0 .. ChunkWrite.len
          /\ ChunkWrite.len \in Nat
      BY ChunkWriteIs DEF IsWrite
    <3>3. /\ DOMAIN out' = 0 .. offset' - 1 /\ Keyless(out')
          /\ \A i \in NumHeaderSectors .. offset' - 1 : out'[i] = SealedOne(i)
      <4> DEFINE m == ChunkWrite.len
      <4>1. m \in 0 .. ChunkWrite.len /\ offset' = offset + m
        BY <3>1, <3>2
      <4>2. out' = Written(out, ChunkWrite, m)
        BY <3>1
      <4> HIDE DEF m, DataInv
      <4>3. /\ DOMAIN Written(out, ChunkWrite, m) = 0 .. offset + m - 1
            /\ Keyless(Written(out, ChunkWrite, m))
            /\ \A i \in NumHeaderSectors .. offset + m - 1 :
                 Written(out, ChunkWrite, m)[i] = SealedOne(i)
        BY <1>3, <3>1, <4>1, ChunkGrows
      <4>4. offset \in Nat /\ m \in Nat /\ NumHeaderSectors \in Nat
        BY <3>2, Placement DEF FileInv, m
      <4>5. QED
        BY <4>1, <4>2, <4>3, <4>4
    <3>4. NumHeaderSectors =< offset'
      <4>1. NumHeaderSectors =< offset /\ offset \in Nat /\ NumHeaderSectors \in Nat
        BY <1>3, <3>1, Placement DEF FileInv
      <4>2. QED
        BY <3>1, <3>2, <4>1
    <3>5. (\A i \in NumHeaderSectors .. offset - 1 : out[i] = SealedOne(i))'
      <4>1. \A i \in NumHeaderSectors .. offset' - 1 : i \in Nat
        BY Placement
      <4>2. \A i \in NumHeaderSectors .. offset' - 1 : out'[i] = SealedOne(i)'
        BY <2>1, <3>3, <4>1
      <4>3. QED
        BY <4>2
    <3>6. source' = Whole /\ saved' = SavedHeader /\ RegionsFound' /\ copy' = 1
      BY <1>3, <2>1, <3>1
    <3>7. QED
      BY <1>1, <2>1, <3>1, <3>3, <3>4, <3>5, <3>6
  <2>6. CASE EndBody
    <3>1. /\ pc = "body" /\ pc' = "metadata" /\ BodyOver
          /\ UNCHANGED <<source, out, regions, saved, offset, copy>>
      BY <2>6 DEF EndBody
    <3>2. source = Whole /\ copy = 1 /\ DOMAIN out = 0 .. offset - 1
          /\ \A i \in NumHeaderSectors .. offset - 1 : out[i] = SealedOne(i)
      BY <1>3, <3>1
    <3>3. offset = VolumeSectors
      BY <3>1, <3>2, BodyOverAtEnd
    <3>4. BodyThere(out)
      <4>1. \A i \in Sectors \ HeaderSectors : i \in NumHeaderSectors .. VolumeSectors - 1
        BY Placement DEF Sectors, HeaderSectors
      <4>2. QED
        BY <3>2, <3>3, <4>1 DEF BodyThere, Sectors
    <3>5. (\A j \in 1 .. copy - 1 : BlockThere(out, j))'
      BY <3>1, <3>2
    <3>6. QED
      BY <1>1, <1>3, <2>1, <3>1, <3>4, <3>5
  <2>7. CASE WriteMetadata
    <3>1. /\ pc = "metadata" /\ copy \in Copies /\ UNCHANGED <<source, regions, saved, offset>>
          /\ \/ copy = 3 /\ pc' = "backup" /\ copy' = copy
             \/ pc' = "metadata" /\ copy' = copy + 1
      BY <2>7 DEF WriteMetadata, FileInv
    <3>2. BodyThere(out') /\ \A j \in 1 .. copy : BlockThere(out', j)
      BY <1>3, <2>7, MetadataKeepsData
    <3>3. pc' = "backup" => \A j \in Copies : BlockThere(out', j)
      BY <3>1, <3>2 DEF Copies
    <3>4. pc' = "metadata" => \A j \in 1 .. copy' - 1 : j \in Copies /\ BlockThere(out', j)
      BY <3>1, <3>2 DEF Copies
    <3>5. pc' = "metadata" => (\A j \in 1 .. copy - 1 : BlockThere(out, j))'
      BY <2>1, <3>4
    <3>6. pc' = "backup" => (\A j \in Copies : BlockThere(out, j))'
      BY <2>1, <3>3
    <3>7. QED
      BY <1>1, <1>3, <2>1, <3>1, <3>2, <3>5, <3>6
  <2>8. CASE WriteBackup
    <3>1. /\ pc = "backup" /\ pc' = "fit" /\ UNCHANGED <<source, regions, saved, offset, copy>>
      BY <2>8 DEF WriteBackup
    <3>2. BodyThere(out') /\ BackupThere(out') /\ \A j \in Copies : BlockThere(out', j)
      BY <1>3, <2>8, BackupKeepsData
    <3>3. (\A j \in Copies : BlockThere(out, j))'
      BY <2>1, <3>2
    <3>4. QED
      BY <1>1, <1>3, <2>1, <3>1, <3>2, <3>3
  <2>9. CASE FitSize
    <3>1. /\ pc = "fit" /\ pc' = "done" /\ UNCHANGED <<source, regions, saved, offset, copy>>
          /\ out' = [i \in Sectors |-> IF i \in DOMAIN out THEN out[i] ELSE Zero]
      BY <2>9 DEF FitSize
    <3>2. BodyThere(out) /\ BackupThere(out) /\ \A j \in Copies : BlockThere(out, j)
      BY <1>3, <3>1
    <3>3. \A i \in Sectors : out'[i] = out[i] /\ DOMAIN out' = Sectors
      BY <3>1, <3>2 DEF BodyThere
    <3>4. /\ \A j \in Copies : \A i \in 0 .. BlockSectors - 1 : MetaAt(j) + i \in Sectors
          /\ \A i \in 0 .. SavedSectors - 1 : BackupAt + i \in Sectors
          /\ DOMAIN out' = Sectors
      <4>1. \A j \in Copies : \A i \in 0 .. BlockSectors - 1 : MetaAt(j) + i \in Sectors
        BY Placement DEF Sectors
      <4>2. \A i \in 0 .. SavedSectors - 1 : BackupAt + i \in Sectors
        BY Placement DEF Sectors
      <4>3. QED
        BY <3>1, <4>1, <4>2
    <3>5. BodyThere(out')
      BY <3>2, <3>3, <3>4 DEF BodyThere
    <3>6. BackupThere(out')
      BY <3>2, <3>3, <3>4 DEF BackupThere
    <3>7. \A j \in Copies : BlockThere(out', j)
      BY <3>2, <3>3, <3>4 DEF BlockThere
    <3>8. (\A j \in Copies : BlockThere(out, j))'
      BY <2>1, <3>7
    <3>9. QED
      BY <1>1, <1>3, <2>1, <3>1, <3>5, <3>6, <3>8
  <2>10. CASE Interrupt
    <3>1. pc \in Writing /\ pc' = "cut" /\ UNCHANGED <<source, regions, saved>>
      BY <2>10 DEF Interrupt
    <3>2. BodyThere(out') \/ Keyless(out')
      BY <1>3, <2>10, CutIsEither
    <3>3. pc \notin {"start", "refused"}
      BY <3>1 DEF Writing
    <3>4. QED
      BY <1>1, <1>3, <2>1, <3>1, <3>2, <3>3
  <2>11. QED
    BY <2>2, <2>3, <2>4, <2>5, <2>6, <2>7, <2>8, <2>9, <2>10 DEF EncryptStep
<1>4. QED
  BY <1>2, <1>3

-----------------------------------------------------------------------------
(* The decryptor of the model and the one of the proofs are the same.      *)

LEMMA SameLayout ==
  /\ DP!VolumeSize = VolumeSize /\ DP!Copies = Copies
  /\ \A v, s, j : DP!MetadataOffset(v, s, j) = MetadataOffset(v, s, j)
  /\ \A v, s : DP!VolumeHeaderOffset(v, s) = VolumeHeaderOffset(v, s)
  /\ \A v, s : DP!LaidOut(v, s) <=> LaidOut(v, s)
  /\ \A v, s : DP!SectorAligned(v, s) <=> SectorAligned(v, s)
<1>1. DP!VolumeSize = VolumeSize /\ DP!Copies = Copies
  BY DEF DP!VolumeSize, VolumeSize, DP!Copies, Copies
<1>2. \A v, s, j : DP!MetadataOffset(v, s, j) = MetadataOffset(v, s, j)
  BY DEF DP!MetadataOffset, MetadataOffset, DP!IsSmall, IsSmall, DP!SmallSpacing,
         SmallSpacing, DP!Usable, Usable, DP!Align, Align
<1>3. \A v, s : DP!VolumeHeaderOffset(v, s) = VolumeHeaderOffset(v, s)
  BY <1>2 DEF DP!VolumeHeaderOffset, VolumeHeaderOffset, DP!Align, Align
<1>4. \A v, s : DP!LaidOut(v, s) <=> LaidOut(v, s)
  BY <1>2, <1>3 DEF DP!LaidOut, LaidOut, DP!Before, Before, DP!HeaderArea, HeaderArea,
         DP!BlockArea, BlockArea, DP!BackupArea, BackupArea, DP!HeaderSize, HeaderSize
<1>5. \A v, s : DP!SectorAligned(v, s) <=> SectorAligned(v, s)
  BY <1>1, <1>2, <1>3 DEF DP!SectorAligned, SectorAligned
<1>6. QED
  BY <1>1, <1>2, <1>3, <1>4, <1>5

LEMMA SameContents ==
  /\ DP!Content = Content /\ DP!Zero = Zero
  /\ \A i : DP!Original(i) = Original(i)
  /\ \A k, at, c : /\ DP!EncryptSector(k, at, c) = EncryptSector(k, at, c)
                  /\ DP!DecryptSector(k, at, c) = DecryptSector(k, at, c)
<1>1. DP!Content = Content /\ DP!Zero = Zero /\ \A i : DP!Original(i) = Original(i)
  BY DEF DP!Content, Content, DP!Base, Base, DP!Layer, Layer, DP!Zero, Zero, DP!Original,
         Original, DP!Plain, Plain
<1>2. \A k, at, c : /\ DP!EncryptSector(k, at, c) = EncryptSector(k, at, c)
                  /\ DP!DecryptSector(k, at, c) = DecryptSector(k, at, c)
  BY DEF DP!EncryptSector, EncryptSector, DP!DecryptSector, DecryptSector, DP!Tweaked, Tweaked,
         DP!Apply, Apply, DP!Undo, Undo
<1>3. QED
  BY <1>1, <1>2

LEMMA SamePlaces ==
  /\ DP!Sectors = Sectors /\ DP!HeaderSectors = HeaderSectors
  /\ DP!BackupAt = BackupAt
BY SameLayout DEF DP!Sectors, Sectors, DP!HeaderSectors, HeaderSectors, DP!BackupAt, BackupAt

(* The assumptions of Decryptor hold where it is instantiated. *)
LEMMA DecryptorAssumptions ==
  /\ \A j \in {} : DP!IsJob(j) /\ (j.backup => DP!CarriesVolume(j))
  /\ Key \in Nat /\ ChunkSectors \in Nat \ {0}
  /\ VolumeSectors \in Nat \ {0} /\ SectorSize \in Nat \ {0}
  /\ BaseSectorSize \in 1 .. SectorSize /\ BlockSize % SectorSize = 0
  /\ DP!SectorAligned(DP!VolumeSize, SectorSize) /\ DP!LaidOut(DP!VolumeSize, SectorSize)
BY KeyIsNat, ImageConstants, VolumeConstants, SameLayout

LEMMA SameSizes ==
  /\ \A S : D!Cardinality(S) = DP!Cardinality(S) /\ Cardinality(S) = DP!Cardinality(S)
  /\ \A f : D!Size(f) = DP!Size(f)
  /\ \A at, n : D!Read(at, n) = DP!Read(at, n)
  /\ \A f, g : D!Joined(f, g) = DP!Joined(f, g)
  /\ D!TotalSize = DP!TotalSize /\ D!EncryptedSize = DP!EncryptedSize
<1>1. \A S : D!Cardinality(S) = DP!Cardinality(S) /\ Cardinality(S) = DP!Cardinality(S)
  BY DEF D!Cardinality, DP!Cardinality, Cardinality
<1>2. \A f : D!Size(f) = DP!Size(f)
  BY <1>1 DEF D!Size, DP!Size
<1>3. \A at, n : D!Read(at, n) = DP!Read(at, n)
  BY <1>2 DEF D!Read, DP!Read
<1>4. \A f, g : D!Joined(f, g) = DP!Joined(f, g)
  BY <1>2 DEF D!Joined, DP!Joined
<1>5. D!TotalSize = DP!TotalSize /\ D!EncryptedSize = DP!EncryptedSize
  BY <1>2 DEF D!TotalSize, DP!TotalSize, D!EncryptedSize, DP!EncryptedSize
<1>6. QED
  BY <1>1, <1>2, <1>3, <1>4, <1>5

LEMMA SameNames ==
  /\ D!Copies = DP!Copies /\ D!Fields = DP!Fields /\ D!Previous = DP!Previous
  /\ D!Health = DP!Health /\ D!Reading = DP!Reading /\ D!Ended = DP!Ended
  /\ D!Chosen = DP!Chosen /\ D!Given = DP!Given
  /\ \A j : D!HealthOf(j) = DP!HealthOf(j)
  /\ \A h : (D!Parses(h) <=> DP!Parses(h)) /\ D!SetFrom(h) = DP!SetFrom(h)
BY DEF D!Copies, DP!Copies, D!Fields, DP!Fields, D!Previous, DP!Previous, D!Zero, DP!Zero,
       D!Plain, DP!Plain, D!Health, DP!Health, D!Reading, DP!Reading, D!Ended, DP!Ended,
       D!Chosen, DP!Chosen, D!Given, DP!Given, D!HealthOf, DP!HealthOf, D!Parses, DP!Parses,
       D!SetFrom, DP!SetFrom

LEMMA SameCipher ==
  /\ D!BackupAt = DP!BackupAt /\ D!HeaderSectors = DP!HeaderSectors /\ D!Zero = DP!Zero
  /\ \A k, at, f : D!DecryptSectors(k, at, f) = DP!DecryptSectors(k, at, f)
<1>1. D!BackupAt = DP!BackupAt
  BY DEF D!BackupAt, DP!BackupAt, D!VolumeHeaderOffset, DP!VolumeHeaderOffset, D!MetadataOffset,
         DP!MetadataOffset, D!IsSmall, DP!IsSmall, D!SmallSpacing, DP!SmallSpacing, D!Usable,
         DP!Usable, D!Align, DP!Align, D!VolumeSize, DP!VolumeSize
<1>2. D!HeaderSectors = DP!HeaderSectors /\ D!Zero = DP!Zero
  BY DEF D!HeaderSectors, DP!HeaderSectors, D!Zero, DP!Zero, D!Plain, DP!Plain
<1>3. \A k, at, c : D!DecryptSector(k, at, c) = DP!DecryptSector(k, at, c)
  BY DEF D!DecryptSector, DP!DecryptSector, D!Tweaked, DP!Tweaked, D!Apply, DP!Apply,
         D!Undo, DP!Undo
<1>4. \A k, at, f : D!DecryptSectors(k, at, f) = DP!DecryptSectors(k, at, f)
  BY <1>3 DEF D!DecryptSectors, DP!DecryptSectors
<1>5. QED
  BY <1>1, <1>2, <1>4

LEMMA SameScan ==
  /\ D!Image = DP!Image
  /\ \A img : D!DetectOffset(img) = DP!DetectOffset(img)
  /\ \A img, at : D!HeaderReads(img, at) <=> DP!HeaderReads(img, at)
<1>1. D!Image = DP!Image
  BY SameSizes DEF D!Image, DP!Image
<1>2. \A img, at : /\ D!FaceAt(img, at) = DP!FaceAt(img, at)
                   /\ D!Signed(img, at) <=> DP!Signed(img, at)
                   /\ D!HeaderReads(img, at) <=> DP!HeaderReads(img, at)
  BY DEF D!FaceAt, DP!FaceAt, D!Blank, DP!Blank, D!Signed, DP!Signed, D!HeaderReads,
         DP!HeaderReads
<1>3. \A img : D!FindBitLockerPartition(img) = DP!FindBitLockerPartition(img)
  <2> TAKE img
  <2> DEFINE S == {i \in 1 .. Len(img.table) :
                     img.table[i].used /\ D!Signed(img, img.table[i].start)}
  <2> DEFINE T == {i \in 1 .. Len(img.table) :
                     img.table[i].used /\ DP!Signed(img, img.table[i].start)}
  <2>1. S = T
    BY <1>2
  <2>2. /\ D!FindBitLockerPartition(img) = IF S # {} THEN D!Seqs!Min(S) ELSE 0
        /\ DP!FindBitLockerPartition(img) = IF T # {} THEN DP!Seqs!Min(T) ELSE 0
    BY DEF D!FindBitLockerPartition, DP!FindBitLockerPartition, D!Seqs!SelectInSeq,
           DP!Seqs!SelectInSeq
  <2> HIDE DEF S, T
  <2>3. D!Seqs!Min(S) = DP!Seqs!Min(S)
    BY DEF D!Seqs!Min, DP!Seqs!Min
  <2>4. QED
    BY <2>1, <2>2, <2>3
<1>4. \A img : D!DetectOffset(img) = DP!DetectOffset(img)
  BY <1>2, <1>3 DEF D!DetectOffset, DP!DetectOffset
<1>5. QED
  BY <1>1, <1>2, <1>4

(* The operators of a read, chunk by chunk. *)
LEMMA SameChunks ==
  /\ \A c : D!Deciphers(c) <=> DP!Deciphers(c)
  /\ \A o : D!ChunkLength(o) = DP!ChunkLength(o)
  /\ \A o, c : D!Advanced(o, c) = DP!Advanced(o, c)
  /\ \A at, c : /\ D!Whole(at, c) = DP!Whole(at, c)
                /\ D!Decoded(at, c) = DP!Decoded(at, c)
  /\ D!AtEnd <=> DP!AtEnd
<1>1. \A c : D!Deciphers(c) <=> DP!Deciphers(c)
  BY SameNames DEF D!Deciphers, DP!Deciphers
<1>2. \A o : D!ChunkLength(o) = DP!ChunkLength(o)
  BY SameSizes DEF D!ChunkLength, DP!ChunkLength
<1>3. \A o, c : D!Advanced(o, c) = DP!Advanced(o, c)
  BY SameSizes DEF D!Advanced, DP!Advanced
<1>4. \A at, c : /\ D!Whole(at, c) = DP!Whole(at, c)
                 /\ D!Decoded(at, c) = DP!Decoded(at, c)
  BY SameSizes, SameCipher DEF D!Decoded, DP!Decoded, D!Whole, DP!Whole, D!PartialAt,
                               DP!PartialAt
<1>5. D!AtEnd <=> DP!AtEnd
  BY <1>2, SameSizes DEF D!AtEnd, DP!AtEnd
<1>6. QED
  BY <1>1, <1>2, <1>3, <1>4, <1>5

LEMMA SameStep == D!DecryptStep <=> DP!DecryptStep
<1>1. D!CheckCredentials <=> DP!CheckCredentials
  BY SameNames DEF D!CheckCredentials, DP!CheckCredentials
<1>2. D!FindVolume <=> DP!FindVolume
  BY SameScan DEF D!FindVolume, DP!FindVolume
<1>3. D!SkipCopy <=> DP!SkipCopy
  BY SameNames DEF D!SkipCopy, DP!SkipCopy
<1>4. D!NoCopyLeft <=> DP!NoCopyLeft
  BY SameNames DEF D!NoCopyLeft, DP!NoCopyLeft
<1>5. D!TakeCopy <=> DP!TakeCopy
  BY SameNames DEF D!TakeCopy, DP!TakeCopy
<1>6. D!DescribeCopy <=> DP!DescribeCopy
  BY SameNames DEF D!DescribeCopy, DP!DescribeCopy
<1>7. D!Unlock <=> DP!Unlock
  BY SameNames DEF D!Unlock, DP!Unlock, D!UnlockOutcome, DP!UnlockOutcome, D!OpensOutput,
                   DP!OpensOutput
<1>8. D!RestoreHeader <=> DP!RestoreHeader
  BY SameSizes, SameCipher, SameChunks DEF D!RestoreHeader, DP!RestoreHeader
<1>9. D!DecryptChunk <=> DP!DecryptChunk
  BY SameSizes, SameChunks DEF D!DecryptChunk, DP!DecryptChunk
<1>10. D!UnknownMethod <=> DP!UnknownMethod
  BY SameSizes, SameCipher, SameChunks DEF D!UnknownMethod, DP!UnknownMethod
<1>11. D!BodyDone <=> DP!BodyDone
  BY SameSizes, SameChunks DEF D!BodyDone, DP!BodyDone
<1>12. D!CopyTail <=> DP!CopyTail
  BY SameSizes, SameChunks DEF D!CopyTail, DP!CopyTail
<1>13. QED
  BY <1>1, <1>2, <1>3, <1>4, <1>5, <1>6, <1>7, <1>8, <1>9, <1>10, <1>11, <1>12
     DEF D!DecryptStep, DP!DecryptStep

-----------------------------------------------------------------------------
(* The decryption of what the encryption has left. *)

LEMMA SameFinite == \A S : IsFiniteSet(S) => DP!IsFiniteSet(S)
BY DEF IsFiniteSet, DP!IsFiniteSet

(* The call that decrypts the file. *)
LEMMA JobForIs ==
  ASSUME FileInv, NEW h \in [Copies -> DP!Health]
  PROVE  /\ DP!IsJob(JobFor(out, h))
         /\ DP!Size(out) \in 0 .. VolumeSectors /\ DOMAIN out = 0 .. DP!Size(out) - 1
         /\ DOMAIN out = Sectors => DP!HoldsBackup(JobFor(out, h))
<1> DEFINE j == JobFor(out, h)
<1>1. /\ DOMAIN j = {"command", "source", "volume", "faces", "table", "footer", "ragged",
                     "encrypted", "backup", "copies", "protectors", "password",
                     "recovery", "aliased"}
      /\ j.command = "decrypt" /\ j.source = out /\ j.volume = 0
      /\ j.faces = [i \in {0} \cap DOMAIN out |->
                      [signature |-> "fve", mark |-> TRUE, fat32 |-> FALSE]]
      /\ j.table = <<Unused, Unused, Unused, Unused>> /\ j.footer = FALSE
      /\ j.ragged = request.ragged /\ j.encrypted = VolumeSectors /\ j.backup = TRUE
      /\ j.copies = h /\ j.protectors = {"password", "recovery"} /\ j.password = "right"
      /\ j.recovery = "none" /\ j.aliased = FALSE
  BY DEF JobFor
<1> HIDE DEF j
<1>2. PICK n \in 0 .. VolumeSectors : DOMAIN out = 0 .. n - 1
  BY DEF FileInv, IsPart
<1>3. /\ n \in Nat /\ IsFiniteSet(0 .. n - 1) /\ Cardinality(0 .. n - 1) = n
      /\ DP!IsFiniteSet(0 .. n - 1) /\ DP!Cardinality(0 .. n - 1) = n
  <2>1. n \in Nat
    BY <1>2
  <2>2. IsFiniteSet(0 .. n - 1) /\ Cardinality(0 .. n - 1) = n
    BY <2>1, FS_Interval
  <2>3. QED
    BY <2>1, <2>2, SameFinite, SameSizes
<1>4. DP!Size(out) = n
  BY <1>2, <1>3 DEF DP!Size
<1>5. VolumeSectors \in Nat \ {0} /\ NumHeaderSectors \in Nat /\ NumHeaderSectors < VolumeSectors
      /\ BackupAt \in Nat /\ BackupAt + NumHeaderSectors =< VolumeSectors
  BY Placement
<1>6. \A i \in DOMAIN out : out[i] \in DP!Content
  BY SameContents DEF FileInv, IsPart
<1>7. request.ragged \in BOOLEAN
  BY ImageConstants DEF FileInv, IsRequest
<1>8. DP!IsImage([sectors |-> DP!Cardinality(DOMAIN j.source), faces |-> j.faces,
                  table |-> j.table])
  <2> DEFINE img == [sectors |-> DP!Cardinality(DOMAIN j.source), faces |-> j.faces,
                     table |-> j.table]
  <2>1. DOMAIN img = {"sectors", "faces", "table"} /\ img.sectors \in Nat
    BY <1>1, <1>2, <1>3
  <2>2. \A i \in DOMAIN img.faces : img.faces[i] \in DP!Face
    BY <1>1 DEF DP!Face
  <2>3. Unused \in DP!Entry
    BY DEF DP!Entry, Unused
  <2>4. img.table \in Seq(DP!Entry) /\ Len(img.table) = 4
    BY <1>1, <2>3
  <2>5. QED
    BY <2>1, <2>2, <2>4 DEF DP!IsImage
<1>9. DP!IsJob(j)
  <2>1. /\ DP!IsFiniteSet(DOMAIN j.source)
        /\ DOMAIN j.source = 0 .. DP!Cardinality(DOMAIN j.source) - 1
        /\ \A i \in DOMAIN j.source : j.source[i] \in DP!Content
    BY <1>1, <1>2, <1>3, <1>6
  <2>2. /\ j.volume \in Nat /\ j.encrypted \in Nat
        /\ {j.footer, j.ragged, j.backup, j.aliased} \subseteq BOOLEAN
    <3>1. j.volume \in Nat /\ j.encrypted \in Nat
      BY <1>1, <1>5
    <3>2. /\ j.footer \in BOOLEAN /\ j.ragged \in BOOLEAN
          /\ j.backup \in BOOLEAN /\ j.aliased \in BOOLEAN
      BY <1>1, <1>7, Zenon
    <3>3. QED
      BY <3>1, <3>2, Zenon
  <2>3. j.copies \in [DP!Copies -> DP!Health]
    BY <1>1, SameLayout
  <2>4. /\ j.protectors \subseteq {"password", "recovery"}
        /\ j.password \in DP!Credential /\ j.recovery \in DP!Credential
    BY <1>1 DEF DP!Credential
  <2>5. QED
    BY <1>1, <1>8, <2>1, <2>2, <2>3, <2>4 DEF DP!IsJob
<1>10. ASSUME DOMAIN out = Sectors PROVE DP!HoldsBackup(j)
  <2>1. DP!EncryptedPart(j) = VolumeSectors
    BY <1>1, <1>5 DEF DP!EncryptedPart
  <2>2. \A i \in HeaderSectors : 0 + (BackupAt + i) \in Sectors
    BY <1>5 DEF Sectors, HeaderSectors
  <2>3. QED
    BY <1>1, <1>5, <1>10, <2>1, <2>2, SamePlaces DEF DP!HoldsBackup
<1>11. QED
  BY <1>2, <1>4, <1>9, <1>10 DEF j

(* Where the file is signed, a search finds the start of it. *)
LEMMA FoundAtStart ==
  ASSUME FileInv, NEW h \in [Copies -> DP!Health], job = JobFor(out, h), image = out
  PROVE  /\ DP!DetectOffset(DP!Image) = 0
         /\ DOMAIN out = Sectors => DP!HeaderReads(DP!Image, 0)
<1>1. /\ job.faces = [i \in {0} \cap DOMAIN out |->
                        [signature |-> "fve", mark |-> TRUE, fat32 |-> FALSE]]
      /\ job.table = <<Unused, Unused, Unused, Unused>>
      /\ job.ragged = request.ragged
  BY DEF JobFor
<1>2. /\ DP!Size(out) \in 0 .. VolumeSectors /\ DOMAIN out = 0 .. DP!Size(out) - 1
  BY JobForIs
<1> DEFINE n == DP!Size(out)
<1>3. /\ DP!Image.sectors = n - (IF request.ragged THEN 1 ELSE 0)
      /\ DP!Image.faces = job.faces /\ DP!Image.table = job.table
  BY <1>1 DEF DP!Image
<1>4. Len(DP!Image.table) = 4 /\ Len(DP!Image.table) \in Nat
      /\ \A k \in 1 .. 4 : DP!Image.table[k].start = 0
  BY <1>1, <1>3 DEF Unused
<1>5. DP!DetectOffset(DP!Image) = 0
  <2>1. DP!DetectOffset(DP!Image) = 0
          \/ \E k \in 1 .. Len(DP!Image.table) : DP!DetectOffset(DP!Image) = DP!Image.table[k].start
    BY <1>4, DecryptorAssumptions, LayoutConstants, Fat32Constants, DP!DetectOffsetIs
  <2>2. QED
    BY <1>4, <2>1
<1>6. ASSUME DOMAIN out = Sectors PROVE DP!HeaderReads(DP!Image, 0)
  <2>1. VolumeSectors \in Nat /\ 1 < VolumeSectors
    BY Placement
  <2>2. n \in Nat
    BY <1>2, <2>1
  <2> HIDE DEF n
  <2>3. 0 .. n - 1 = 0 .. VolumeSectors - 1
    BY <1>2, <1>6 DEF Sectors, n
  <2>4. VolumeSectors - 1 \in 0 .. n - 1 /\ 0 \in 0 .. n - 1
    <3> DEFINE S == 0 .. VolumeSectors - 1
    <3> DEFINE T == 0 .. n - 1
    <3>1. VolumeSectors - 1 \in S /\ 0 \in S
      BY <2>1
    <3>2. S = T
      BY <2>3
    <3> HIDE DEF S, T
    <3>3. VolumeSectors - 1 \in T /\ 0 \in T
      BY <3>1, <3>2
    <3>4. QED
      BY <3>3 DEF T
  <2>5. 0 < DP!Image.sectors
    BY <1>3, <2>1, <2>2, <2>4
  <2>6. 0 \in DOMAIN out
    BY <1>2, <2>4 DEF n
  <2>7. DP!FaceAt(DP!Image, 0) = [signature |-> "fve", mark |-> TRUE, fat32 |-> FALSE]
    BY <1>1, <1>3, <2>6 DEF DP!FaceAt
  <2>8. QED
    BY <2>5, <2>7 DEF DP!HeaderReads
<1>7. QED
  BY <1>5, <1>6

(* What read_metadata makes of a block that is there, and of a file that   *)
(* has none.                                                               *)
LEMMA HealthIs ==
  ASSUME NEW f, NEW j \in Copies
  PROVE  /\ DOMAIN f = Sectors /\ BlockThere(f, j) => BlockHealth(f, j) = {"good"}
         /\ Keyless(f) => BlockHealth(f, j) = {"unreadable"}
<1> DEFINE Whole3 == \A i \in 0 .. BlockSectors - 1 :
                       MetaAt(j) + i \in DOMAIN f /\ f[MetaAt(j) + i] = FveBlock(Key)[i]
<1> DEFINE Begun == MetaAt(j) \in DOMAIN f /\ f[MetaAt(j)] = FveBlock(Key)[0]
<1>1. BlockHealth(f, j) = CASE Whole3 -> {"good"}
                            [] ~Begun -> {"unreadable"}
                            [] OTHER -> {"good", "unreadable", "no_vmk", "no_fvek", "bad_key"}
  BY DEF BlockHealth
<1>2. /\ MetaAt(j) \in Nat /\ BlockSectors \in Nat \ {0} /\ VolumeSectors \in Nat
      /\ MetaAt(j) + BlockSectors =< VolumeSectors
      /\ 0 \in 0 .. BlockSectors - 1 /\ MetaAt(j) + 0 = MetaAt(j)
  BY Placement
<1>3. Whole3 => Begun
  BY <1>2
<1>4. ASSUME DOMAIN f = Sectors, BlockThere(f, j) PROVE Whole3
  <2>1. \A i \in 0 .. BlockSectors - 1 : MetaAt(j) + i \in Sectors
    BY <1>2 DEF Sectors
  <2>2. QED
    BY <1>4, <2>1 DEF BlockThere
<1>5. ASSUME Keyless(f) PROVE ~Begun
  <2>1. FveBlock(Key)[0].base.kind = "fve"
    BY <1>2, ContentsAreContent
  <2>2. QED
    BY <1>5, <2>1 DEF Keyless
<1> HIDE DEF Whole3, Begun
<1>6. QED
  BY <1>1, <1>3, <1>4, <1>5

(* What a step of the decryption leaves alone, its output being a file of  *)
(* its own.                                                                *)
LEMMA DecryptLeaves ==
  ASSUME DP!DecryptStep, job.aliased = FALSE
  PROVE  UNCHANGED <<job, image, lost>>
<1>1. CASE DP!Unlock
  <2>1. UNCHANGED <<job, lost>> /\ (image' = image \/ job.aliased)
    BY <1>1 DEF DP!Unlock
  <2>2. QED
    BY <2>1
<1>2. CASE ~DP!Unlock
  BY <1>2 DEF DP!DecryptStep, DP!CheckCredentials, DP!FindVolume, DP!SkipCopy, DP!NoCopyLeft,
     DP!TakeCopy, DP!DescribeCopy, DP!RestoreHeader, DP!DecryptChunk, DP!UnknownMethod,
     DP!BodyDone, DP!CopyTail
<1>3. QED
  BY <1>1, <1>2

(* What the job says where it matters. *)
LEMMA JobSays ==
  ASSUME NEW h \in [Copies -> DP!Health], job = JobFor(out, h), partition = 0
  PROVE  /\ job.command = "decrypt" /\ job.aliased = FALSE /\ job.volume = 0
         /\ job.source = out /\ job.backup = TRUE
         /\ DP!Given = "right" /\ DP!Chosen \in job.protectors
         /\ \A j : DP!HealthOf(j) = h[j]
<1>1. /\ job.command = "decrypt" /\ job.aliased = FALSE /\ job.volume = 0
      /\ job.source = out /\ job.backup = TRUE /\ job.copies = h
      /\ job.protectors = {"password", "recovery"} /\ job.password = "right"
  BY DEF JobFor
<1>2. DP!Given = "right" /\ DP!Chosen \in job.protectors
  BY <1>1 DEF DP!Given, DP!Chosen
<1>3. \A j : DP!HealthOf(j) = h[j]
  BY <1>1 DEF DP!HealthOf
<1>4. QED
  BY <1>1, <1>2, <1>3

(* A finished image is decrypted without an error, by its first block.     *)
LEMMA StaysStraight ==
  ASSUME FileInv, NEW h \in [Copies -> DP!Health], job = JobFor(out, h), image = out,
         partition = 0, DOMAIN out = Sectors, \A j \in Copies : h[j] = "good",
         phase \in Straight, tried = 1, DP!DecryptStep
  PROVE  phase' \in Straight /\ tried' = 1
<1>1. /\ job.command = "decrypt" /\ DP!Given = "right" /\ DP!Chosen \in job.protectors
      /\ DP!HealthOf(tried) = "good" /\ tried \in DP!Copies
  <2>1. /\ job.command = "decrypt" /\ DP!Given = "right" /\ DP!Chosen \in job.protectors
        /\ DP!HealthOf(tried) = h[tried]
    BY JobSays
  <2>2. tried \in Copies
    BY DEF Copies
  <2>3. QED
    BY <2>1, <2>2, SameLayout
<1> USE DEF Straight
<1>2. CASE DP!CheckCredentials
  BY <1>1, <1>2 DEF DP!CheckCredentials
<1>3. CASE DP!FindVolume
  BY <1>3, FoundAtStart DEF DP!FindVolume
<1>4. CASE DP!SkipCopy \/ DP!NoCopyLeft \/ DP!DescribeCopy
  BY <1>1, <1>4 DEF DP!SkipCopy, DP!NoCopyLeft, DP!DescribeCopy, DP!Parses
<1>5. CASE DP!TakeCopy
  BY <1>5 DEF DP!TakeCopy
<1>6. CASE DP!Unlock
  BY <1>1, <1>6 DEF DP!Unlock, DP!UnlockOutcome
<1>7. CASE DP!RestoreHeader
  BY <1>7 DEF DP!RestoreHeader
<1>8. CASE DP!DecryptChunk
  BY <1>8 DEF DP!DecryptChunk
<1>9. CASE DP!UnknownMethod
  BY <1>1, <1>9 DEF DP!UnknownMethod, DP!Deciphers
<1>10. CASE DP!BodyDone
  BY <1>10 DEF DP!BodyDone
<1>11. CASE DP!CopyTail
  BY <1>11 DEF DP!CopyTail
<1>12. QED
  BY <1>2, <1>3, <1>4, <1>5, <1>6, <1>7, <1>8, <1>9, <1>10, <1>11 DEF DP!DecryptStep

(* A file without keys is not opened. *)
LEMMA StaysLocked ==
  ASSUME NEW h \in [Copies -> DP!Health], job = JobFor(out, h), partition = 0,
         \A j \in Copies : h[j] = "unreadable", phase \in Locked, DP!DecryptStep
  PROVE  phase' \in Locked
<1>1. /\ job.command = "decrypt" /\ DP!Given = "right" /\ DP!Copies = Copies
      /\ \A j \in Copies : DP!HealthOf(j) = "unreadable"
  BY JobSays, SameLayout
<1> USE DEF Locked
<1>2. CASE DP!CheckCredentials
  BY <1>1, <1>2 DEF DP!CheckCredentials
<1>3. CASE DP!FindVolume
  BY <1>3 DEF DP!FindVolume
<1>4. CASE DP!SkipCopy \/ DP!NoCopyLeft
  BY <1>1, <1>4 DEF DP!SkipCopy, DP!NoCopyLeft
<1>5. CASE DP!TakeCopy \/ DP!DescribeCopy
  BY <1>1, <1>5 DEF DP!TakeCopy, DP!DescribeCopy, DP!Parses
<1>6. CASE DP!Unlock \/ DP!RestoreHeader \/ DP!DecryptChunk
  BY <1>6 DEF DP!Unlock, DP!RestoreHeader, DP!DecryptChunk
<1>7. CASE DP!UnknownMethod \/ DP!BodyDone \/ DP!CopyTail
  BY <1>7 DEF DP!UnknownMethod, DP!BodyDone, DP!CopyTail
<1>8. QED
  BY <1>2, <1>3, <1>4, <1>5, <1>6, <1>7 DEF DP!DecryptStep

(* The invariant of the second command. *)

LEMMA InitRead == Init => ReadInv
<1> SUFFICES ASSUME Init PROVE ReadInv
  OBVIOUS
<1>1. D!Fields = DP!Fields
  BY SameNames
<1>2. info \in [DP!Fields -> {0} \cup Copies]
  BY <1>1 DEF Init
<1>3. QED
  BY <1>2 DEF Init, ReadInv

(* The encryption is over before the decryption begins. *)
LEMMA EncryptLeavesRead ==
  ASSUME ReadInv, (EncryptStep \/ Interrupt) /\ UNCHANGED decVars
  PROVE  ReadInv'
<1>1. pc \notin {"done", "cut"}
  BY DEF EncryptStep, Refuse, Open, WriteHead, EncryptChunk, EndBody, WriteMetadata,
         WriteBackup, FitSize, Interrupt, Writing
<1>2. phase = "idle"
  BY <1>1 DEF ReadInv
<1>3. QED
  BY <1>2 DEF ReadInv, decVars

LEMMA ReadStarts ==
  ASSUME FileInv, DataInv, ReadInv, StartDecryption
  PROVE  ReadInv'
<1>1. /\ phase = "idle" /\ pc \in {"done", "cut"} /\ phase' = "start" /\ image' = out
      /\ plain' = D!Previous
      /\ UNCHANGED <<request, source, out, pc, regions, saved, offset, copy,
                     partition, tried, position, lost, info>>
  BY DEF StartDecryption
<1>2. PICK h \in [Copies -> D!Health] :
        (\A j \in Copies : h[j] \in BlockHealth(out, j)) /\ job' = JobFor(out, h)
  BY DEF StartDecryption
<1>3. h \in [Copies -> DP!Health]
  BY SameNames
<1>4. partition' = 0 /\ tried' = 1 /\ position' = 0 /\ lost' = {}
      /\ info' \in [DP!Fields -> {0} \cup Copies]
  BY <1>1 DEF ReadInv
<1>5. /\ DP!IsJob(JobFor(out, h))
      /\ DOMAIN out = Sectors => DP!HoldsBackup(JobFor(out, h))
      /\ JobFor(out, h).source = out
  BY <1>3, JobForIs DEF JobFor
<1>6. plain' = DP!Previous /\ DP!Previous = [i \in {0} |-> Zero]
  BY <1>1, SameNames, SameContents DEF DP!Previous
<1>7. DP!LoopInv'
  BY <1>1, <1>4 DEF DP!LoopInv
<1>8. DP!TypeInv'
  <2>1. DP!IsFile(plain')
    <3>1. DOMAIN plain' = 0 .. 1 - 1 /\ 1 \in Nat
      BY <1>6
    <3>2. QED
      BY <3>1 DEF DP!IsFile
  <2>2. /\ DOMAIN plain' = 0 .. DP!Size(plain') - 1
        /\ \A i \in DOMAIN plain' : plain'[i] \in DP!Content
    <3>1. DOMAIN plain' = {0} /\ {0} = 0 .. 1 - 1
      BY <1>6
    <3>2. Cardinality({0}) = 1
      BY FS_Singleton
    <3>3. DP!Size(plain') = 1
      BY <3>1, <3>2, SameSizes DEF DP!Size
    <3>4. \A i \in DOMAIN plain' : plain'[i] \in DP!Content
      BY <1>6, SameContents, ContentsAreContent
    <3>5. QED
      BY <3>1, <3>3, <3>4
  <2>3. DP!TypeOK'
    <3>1. DP!IsJob(job') /\ image' \in {job'.source, <<>>}
      BY <1>1, <1>2, <1>5
    <3>2. /\ phase' \in {"start", "unlock"} \cup DP!Reading \cup DP!Ended
          /\ partition' \in {0, job'.volume} \cup {job'.table[n].start : n \in 1 .. 4}
          /\ tried' \in 1 .. 4 /\ lost' \subseteq DP!Copies
          /\ position' \in {0, NumHeaderSectors} \cup 0 .. DP!Size(job'.source) - job'.volume
      BY <1>1, <1>4
    <3>3. info' \in [DP!Fields -> {0} \cup DP!Copies]
      BY <1>4, SameLayout
    <3>4. QED
      BY <2>2, <3>1, <3>2, <3>3 DEF DP!TypeOK, DP!IsJob
  <2>4. QED
    BY <1>1, <2>1, <2>3 DEF DP!TypeInv, DP!IsFile
<1>9. DOMAIN out = Sectors => DP!CopyInv'
  <2>1. DOMAIN out = Sectors => DP!SoundJob'
    BY <1>2, <1>5 DEF DP!SoundJob, DP!IsJob, DP!HoldsBackup, DP!EncryptedPart
  <2>2. image' = job'.source
    BY <1>1, <1>2, <1>5
  <2>3. QED
    BY <1>1, <2>1, <2>2 DEF DP!CopyInv, DP!Opened
<1>10. \A j \in Copies : BlockHealth(out, j)' = BlockHealth(out, j)
  BY <1>1 DEF BlockHealth
<1>11. JobFor(out, h)' = JobFor(out, h)
  BY <1>1 DEF JobFor
<1>12. (\E g \in [Copies -> DP!Health] :
          /\ \A j \in Copies : g[j] \in BlockHealth(out, j)
          /\ job = JobFor(out, g))'
  BY <1>2, <1>3, <1>10, <1>11
<1>13. QED
  BY <1>1, <1>4, <1>7, <1>8, <1>9, <1>12 DEF ReadInv, Locked, Straight

(* A step of the decryption, or none. *)
LEMMA ReadGoesOn ==
  ASSUME FileInv, DataInv, ReadInv,
         phase # "idle", DP!DecryptStep \/ UNCHANGED decVars, UNCHANGED encVars
  PROVE  ReadInv'
<1>1. UNCHANGED <<request, source, out, pc, regions, saved, offset, copy>>
  BY DEF encVars
<1>2. PICK h \in [Copies -> DP!Health] :
        (\A j \in Copies : h[j] \in BlockHealth(out, j)) /\ job = JobFor(out, h)
  BY DEF ReadInv
<1>3. /\ pc \in {"done", "cut"} /\ image = out /\ lost = {}
      /\ DP!TypeInv /\ DP!LoopInv
  BY DEF ReadInv
<1>4. [DP!Next]_DP!vars
  BY DEF DP!Next, DP!vars, decVars
<1>5. DP!LoopInv'
  BY <1>3, <1>4, DecryptorAssumptions, LayoutConstants, Fat32Constants, DP!LoopInvInductive
<1>6. DP!TypeInv'
  BY <1>3, <1>4, <1>5, DecryptorAssumptions, LayoutConstants, Fat32Constants, DP!NextIsTyped
<1>7. partition = 0
  <2>1. job.volume = 0 /\ job.table = <<Unused, Unused, Unused, Unused>>
    BY <1>2 DEF JobFor
  <2>2. partition \in {0, job.volume} \cup {job.table[n].start : n \in 1 .. 4}
    BY <1>3 DEF DP!TypeInv, DP!TypeOK
  <2>3. QED
    BY <2>1, <2>2 DEF Unused
<1>8. UNCHANGED <<job, image, lost>>
  <2>1. job.aliased = FALSE
    BY <1>2, <1>7, JobSays
  <2>2. QED
    BY <2>1, DecryptLeaves DEF decVars
<1>9. phase' # "idle"
  BY <1>5 DEF DP!LoopInv, DP!Reading, DP!Ended
<1>10. info' \in [DP!Fields -> {0} \cup Copies]
  BY <1>6, SameLayout DEF DP!TypeInv, DP!TypeOK
<1>11. /\ \A j \in Copies : BlockHealth(out, j)' = BlockHealth(out, j)
       /\ JobFor(out, h)' = JobFor(out, h)
  BY <1>1 DEF BlockHealth, JobFor
<1>12. (\E g \in [Copies -> DP!Health] :
          /\ \A j \in Copies : g[j] \in BlockHealth(out, j)
          /\ job = JobFor(out, g))'
  BY <1>2, <1>8, <1>11
<1>13. ASSUME ~request.aliased
       PROVE  /\ DOMAIN out = Sectors => DP!CopyInv'
              /\ Keyless(out) => phase' \in Locked
              /\ pc = "done" => phase' \in Straight /\ tried' = 1
  <2>1. /\ DOMAIN out = Sectors => DP!CopyInv
        /\ Keyless(out) => phase \in Locked
        /\ pc = "done" => phase \in Straight /\ tried = 1
    BY <1>13 DEF ReadInv
  <2>2. ASSUME DOMAIN out = Sectors PROVE DP!CopyInv'
    <3>1. DP!CopyInv
      BY <2>1, <2>2
    <3>2. QED
      BY <3>1, <1>4, DecryptorAssumptions, LayoutConstants, Fat32Constants, DP!NextCopies
  <2>3. ASSUME Keyless(out) PROVE phase' \in Locked
    <3>1. \A j \in Copies : h[j] = "unreadable"
      BY <1>2, <2>3, HealthIs
    <3>2. CASE DP!DecryptStep
      BY <1>2, <1>7, <2>1, <2>3, <3>1, <3>2, StaysLocked
    <3>3. QED
      BY <2>1, <2>3, <3>2 DEF decVars
  <2>4. ASSUME pc = "done" PROVE phase' \in Straight /\ tried' = 1
    <3>1. BodyThere(out) /\ \A j \in Copies : BlockThere(out, j)
      BY <1>13, <2>4 DEF DataInv
    <3>2. DOMAIN out = Sectors
      BY <3>1 DEF BodyThere
    <3>3. \A j \in Copies : h[j] = "good"
      BY <1>2, <3>1, <3>2, HealthIs
    <3>4. CASE DP!DecryptStep
      BY <1>2, <1>3, <1>7, <2>1, <2>4, <3>2, <3>3, <3>4, StaysStraight
    <3>5. QED
      BY <2>1, <2>4, <3>4 DEF decVars
  <2>5. QED
    BY <2>2, <2>3, <2>4
<1>14. Keyless(out)' <=> Keyless(out)
  BY <1>1 DEF Keyless
<1>15. QED
  BY <1>1, <1>3, <1>5, <1>6, <1>8, <1>9, <1>10, <1>12, <1>13, <1>14 DEF ReadInv

(* The whole invariant. *)
LEMMA ImageInvInductive ==
  /\ Init => ImageInv
  /\ ImageInv /\ [Next]_vars => ImageInv'
<1>1. Init => ImageInv
  BY InitFile, InitData, InitRead DEF ImageInv
<1>2. ASSUME ImageInv, [Next]_vars PROVE ImageInv'
  <2> USE DEF ImageInv
  <2>1. CASE Encrypt \/ CutOff
    <3>1. (EncryptStep \/ Interrupt) /\ UNCHANGED decVars
      BY <2>1 DEF Encrypt, CutOff
    <3>2. QED
      BY <1>2, <3>1, EncryptKeepsFile, EncryptKeepsData, EncryptLeavesRead
  <2>2. ASSUME UNCHANGED encVars PROVE FileInv' /\ DataInv'
    <3>1. UNCHANGED <<request, source, out, pc, regions, saved, offset, copy>>
      BY <2>2 DEF encVars
    <3>2. FileInv'
      BY <1>2, <3>1 DEF FileInv, IsPart, Whole
    <3>3. /\ \A i \in Nat : SealedOne(i)' = SealedOne(i)
          /\ BodyThere(out)' <=> BodyThere(out)
          /\ \A j \in Copies : BlockThere(out, j)' <=> BlockThere(out, j)
          /\ BackupThere(out)' <=> BackupThere(out)
          /\ Keyless(out)' <=> Keyless(out)
          /\ RegionsFound' <=> RegionsFound
          /\ SavedHeader' = SavedHeader /\ Whole' = Whole
      BY <3>1, SameRequest
    <3>4. (\A i \in NumHeaderSectors .. offset - 1 : out[i] = SealedOne(i))'
            <=> (\A i \in NumHeaderSectors .. offset - 1 : out[i] = SealedOne(i))
      BY <3>1, <3>3, Placement
    <3>5. (\A j \in 1 .. copy - 1 : BlockThere(out, j))'
            <=> (\A j \in 1 .. copy - 1 : BlockThere(out, j))
      <4>1. \A j \in 1 .. copy - 1 : j \in Copies
        BY <1>2 DEF FileInv, Copies
      <4>2. QED
        BY <3>1, <3>3, <4>1
    <3>6. (\A j \in Copies : BlockThere(out, j))' <=> (\A j \in Copies : BlockThere(out, j))
      BY <3>3
    <3>7. DataInv'
      BY <1>2, <3>1, <3>3, <3>4, <3>5, <3>6 DEF DataInv
    <3>8. QED
      BY <3>2, <3>7
  <2>3. CASE StartDecryption
    <3>1. UNCHANGED encVars
      BY <2>3 DEF StartDecryption, encVars
    <3>2. QED
      BY <1>2, <2>2, <2>3, <3>1, ReadStarts
  <2>4. CASE Decrypt
    <3>1. UNCHANGED encVars /\ phase # "idle" /\ DP!DecryptStep
      BY <2>4, SameStep DEF Decrypt
    <3>2. QED
      BY <1>2, <2>2, <3>1, ReadGoesOn
  <2>5. CASE UNCHANGED vars
    <3>1. UNCHANGED encVars /\ UNCHANGED decVars
      BY <2>5 DEF vars, encVars, decVars
    <3>2. CASE phase # "idle"
      BY <1>2, <2>2, <3>1, <3>2, ReadGoesOn
    <3>3. CASE phase = "idle"
      BY <1>2, <2>2, <3>1, <3>3 DEF ReadInv, decVars
    <3>4. QED
      BY <3>2, <3>3
  <2>6. QED
    BY <1>2, <2>1, <2>3, <2>4, <2>5 DEF Next
<1>3. QED
  BY <1>1, <1>2

-----------------------------------------------------------------------------
(* The types of both commands: the source and the output of the encryption *)
(* stay inside the volume whatever the chunk size and wherever a write is  *)
(* cut off, and what the decryption writes are sectors.                    *)
THEOREM ImageTypes == Spec => []TypeOK
<1>1. ImageInv => TypeOK
  <2> SUFFICES ASSUME ImageInv PROVE TypeOK
    OBVIOUS
  <2> USE DEF ImageInv
  <2>1. EncTypeOK
    <3>1. IsRequest(request)
      BY ImageConstants DEF FileInv
    <3>2. ASSUME NEW f, IsPart(f) PROVE DOMAIN f \subseteq Sectors
      <4>1. PICK n \in 0 .. VolumeSectors : DOMAIN f = 0 .. n - 1
        BY <3>2 DEF IsPart
      <4>2. QED
        BY <4>1, Placement DEF Sectors
    <3>3. QED
      BY <3>1, <3>2 DEF EncTypeOK, FileInv, IsPart
  <2>2. CASE phase = "idle"
    <3>1. plain = <<>> /\ tried = 1 /\ position = 0 /\ DOMAIN (<<>>) = {}
      BY <2>2 DEF ReadInv
    <3>2. QED
      BY <2>1, <2>2, <3>1, Placement DEF TypeOK
  <2>3. CASE phase # "idle"
    <3>1. PICK h \in [Copies -> DP!Health] : job = JobFor(out, h)
      BY <2>3 DEF ReadInv
    <3>2. DP!TypeOK
      BY <2>3 DEF ReadInv, DP!TypeInv
    <3>3. job.source = out /\ job.volume = 0
      BY <3>1 DEF JobFor
    <3>4. DP!Size(out) \in 0 .. VolumeSectors /\ VolumeSectors \in Nat
          /\ NumHeaderSectors \in 0 .. VolumeSectors
      BY JobForIs, <3>1, Placement
    <3>5. position \in 0 .. VolumeSectors
      <4>1. position \in {0, NumHeaderSectors} \cup 0 .. DP!Size(out) - 0
        BY <3>2, <3>3 DEF DP!TypeOK
      <4>2. QED
        BY <3>4, <4>1
    <3>6. \A i \in DOMAIN plain : plain[i] \in Content
      BY <3>2, SameContents DEF DP!TypeOK
    <3>7. phase \in {"start", "unlock"} \cup D!Reading \cup D!Ended /\ tried \in 1 .. 4
      BY <3>2, SameNames DEF DP!TypeOK
    <3>8. QED
      BY <2>1, <3>5, <3>6, <3>7 DEF TypeOK
  <2>4. QED
    BY <2>2, <2>3
<1>2. QED
  BY <1>1, ImageInvInductive, PTL DEF Spec

(* What a decryption that is done has made of a sector. *)
LEMMA GivesBack ==
  ASSUME ImageInv, phase = "done", ~request.aliased, BodyThere(out), NEW i \in Kept,
         i \in HeaderSectors => BackupThere(out) /\ SavedSectors = NumHeaderSectors
  PROVE  i \in DOMAIN plain /\ plain[i] = Original(i)
<1>1. /\ image = out /\ DP!TypeInv /\ (DOMAIN out = Sectors => DP!CopyInv)
      /\ \E h \in [Copies -> DP!Health] : job = JobFor(out, h)
  BY DEF ImageInv, ReadInv
<1>2. DOMAIN out = Sectors /\ DP!CopyInv
  BY <1>1 DEF BodyThere
<1>3. PICK h \in [Copies -> DP!Health] : job = JobFor(out, h)
  BY <1>1
<1>4. /\ job.source = out /\ job.backup = TRUE /\ job.volume = 0 /\ job.footer = FALSE
      /\ job.encrypted = VolumeSectors /\ job.ragged = request.ragged
  BY <1>3 DEF JobFor
<1>5. VolumeSectors \in Nat \ {0} /\ NumHeaderSectors \in Nat /\ BackupAt \in Nat
      /\ BackupAt + NumHeaderSectors =< VolumeSectors
  BY Placement
<1>6. DP!Size(out) = VolumeSectors
  <2>1. Cardinality(0 .. VolumeSectors - 1) = VolumeSectors
    BY <1>5, FS_Interval
  <2>2. QED
    BY <1>2, <2>1, SameSizes DEF DP!Size, Sectors
<1>7. /\ position \in Nat /\ DOMAIN plain = 0 .. position - 1 /\ DP!TotalSize =< position
      /\ DP!Right(plain) /\ partition = 0
  BY <1>1, <1>2, <1>4 DEF DP!CopyInv, DP!Opened
<1>8. DP!TotalSize = VolumeSectors
  BY <1>4, <1>5, <1>6, <1>7 DEF DP!TotalSize
<1>9. i \in Sectors /\ i \in Nat /\ i \notin Overwritten /\ i < VolumeSectors
      /\ ~(request.ragged /\ i = VolumeSectors - 1)
      /\ (Selective => i \in HeaderSectors \cup InUseSectors)
  <2>1. HeaderSectors \subseteq Sectors
    BY Placement DEF HeaderSectors, Sectors
  <2>2. i \in Live /\ i \notin Overwritten /\ ~(request.ragged /\ i = VolumeSectors - 1)
    BY DEF Kept
  <2>3. i \in Sectors /\ (Selective => i \in HeaderSectors \cup InUseSectors)
    BY <2>1, <2>2, CoveredInVolume DEF Live, InUseSectors
  <2>4. i \in Nat /\ i < VolumeSectors
    BY <1>5, <2>3 DEF Sectors
  <2>5. QED
    BY <2>2, <2>3, <2>4
<1>10. i \in DOMAIN plain /\ plain[i] = DP!Yielded(i)
  <2>1. i \in 0 .. position - 1
    BY <1>5, <1>7, <1>8, <1>9
  <2>2. QED
    BY <1>7, <2>1 DEF DP!Right
<1>11. DP!Enciphered(i)
  <2>1. DP!EncryptedPart(job) = VolumeSectors
    BY <1>4, <1>5 DEF DP!EncryptedPart
  <2>2. ~DP!IsPartial(job, i)
    BY <1>4, <1>6, <1>9 DEF DP!IsPartial, DP!Size
  <2>3. QED
    BY <1>9, <2>1, <2>2 DEF DP!Enciphered
<1>12. CASE i \in HeaderSectors
  <2>1. BackupThere(out) /\ i \in 0 .. SavedSectors - 1
    BY <1>12 DEF HeaderSectors
  <2>2. out[BackupAt + i] = EncryptSector(Key, BackupAt + i, Original(i))
    BY <2>1 DEF BackupThere
  <2>3. BackupAt + i \in Nat /\ 0 + (BackupAt + i) = BackupAt + i
    BY <1>5, <1>9
  <2>4. DP!PlaceOf(i) = BackupAt + i
    BY <1>12, SamePlaces DEF DP!PlaceOf
  <2>5. DP!Yielded(i) = DecryptSector(Key, BackupAt + i, out[BackupAt + i])
    BY <1>4, <1>11, <2>3, <2>4, SameContents DEF DP!Yielded
  <2>6. QED
    BY <1>9, <1>10, <2>2, <2>3, <2>5, OpensOriginal
<1>13. CASE i \notin HeaderSectors
  <2>1. out[i] = SealedOne(i)
    BY <1>9, <1>13 DEF BodyThere
  <2>2. out[i] = EncryptSector(Key, i, Original(i))
    BY <1>9, <1>13, <2>1 DEF SealedOne
  <2>3. DP!PlaceOf(i) = i /\ 0 + i = i
    BY <1>9, <1>13, SamePlaces DEF DP!PlaceOf
  <2>4. DP!Yielded(i) = DecryptSector(Key, i, out[i])
    BY <1>4, <1>11, <2>3, SameContents DEF DP!Yielded
  <2>5. QED
    BY <1>9, <1>10, <2>2, <2>4, OpensOriginal
<1>14. QED
  BY <1>12, <1>13

(* encrypt_volume and then decrypt_volume give every sector back that was  *)
(* in use and no structure was written over: the chunks and the regions    *)
(* are sealed under the places that the decryptor opens them at, and the   *)
(* backup is of the whole header when the sectors have 512 bytes.          *)
THEOREM ImageComesBack ==
  ASSUME SectorSize = BaseSectorSize
  PROVE  Spec => []RoundTrip
<1>1. ImageInv => RoundTrip
  <2> SUFFICES ASSUME ImageInv, pc = "done", phase \in D!Ended, ~request.aliased
               PROVE  phase = "done" /\ \A i \in Kept : i \in DOMAIN plain /\ plain[i] = Original(i)
    BY DEF RoundTrip
  <2>1. phase # "idle"
    BY DEF D!Ended
  <2>2. phase \in Straight
    BY <2>1 DEF ImageInv, ReadInv
  <2>3. phase = "done"
    BY <2>2 DEF Straight, D!Ended
  <2>4. BodyThere(out) /\ BackupThere(out)
    BY DEF ImageInv, DataInv
  <2>5. SavedSectors = NumHeaderSectors
    BY Placement
  <2>6. QED
    BY <2>3, <2>4, <2>5, GivesBack
<1>2. QED
  BY <1>1, ImageInvInductive, PTL DEF Spec

(* The structures come after the sectors: a file that encrypt_volume has   *)
(* left unfinished either does not open or has all its data.               *)
THEOREM CutImageOpensWhole == Spec => []CutImageKeepsData
<1>1. ImageInv => CutImageKeepsData
  <2> SUFFICES ASSUME ImageInv, pc = "cut", phase = "done", ~request.aliased,
                      NEW i \in Kept \ HeaderSectors
               PROVE  i \in DOMAIN plain /\ plain[i] = Original(i)
    BY DEF CutImageKeepsData
  <2>1. ~Keyless(out)
    BY DEF ImageInv, ReadInv, Locked
  <2>2. BodyThere(out)
    BY <2>1 DEF ImageInv, DataInv
  <2>3. QED
    BY <2>2, GivesBack
<1>2. QED
  BY <1>1, ImageInvInductive, PTL DEF Spec
=============================================================================
