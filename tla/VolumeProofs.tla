---------------------------- MODULE VolumeProofs ----------------------------
(***************************************************************************)
(* What the operators do from which the models of a volume are built: the  *)
(* layout that _calculate_layout returns, for every size of the volume and *)
(* of the sector; the sector cipher, sealing and opening again; and the    *)
(* maximal runs of a set of sectors, which the encryptor visits one after  *)
(* the other.                                                              *)
(***************************************************************************)
EXTENDS Layout, SectorCipher, Fat32, WellFoundedInduction, TLAPS

(* Multiplying by a positive number keeps and reflects the order. *)
LEMMA ProductOrder ==
  ASSUME NEW a \in Nat, NEW b \in Nat, NEW s \in Nat \ {0}
  PROVE  /\ a =< b => a * s =< b * s
         /\ a * s =< b * s => a =< b
<1>1. ASSUME a =< b PROVE a * s =< b * s
  BY <1>1
<1>2. ASSUME ~(a =< b) PROVE ~(a * s =< b * s)
  <2>1. b + 1 =< a
    BY <1>2
  <2>2. (b + 1) * s =< a * s
    BY <2>1
  <2>3. (b + 1) * s = b * s + s
    OBVIOUS
  <2>4. QED
    BY <2>2, <2>3
<1>3. QED
  BY <1>1, <1>2

(* _align rounds up to the next multiple, by less than the alignment. *)
THEOREM AlignBounds ==
  ASSUME NEW x \in Nat, NEW a \in Nat \ {0}
  PROVE  /\ Align(x, a) \in Nat
         /\ x =< Align(x, a)
         /\ Align(x, a) < x + a
         /\ Align(x, a) % a = 0
<1> DEFINE q == (x + a - 1) \div a
<1> DEFINE r == (x + a - 1) % a
<1>1. /\ q \in Nat
      /\ r \in 0 .. a - 1
      /\ x + a - 1 = q * a + r
  <2>1. x + a - 1 \in Nat
    OBVIOUS
  <2>2. QED
    BY <2>1
<1>2. Align(x, a) = q * a
  BY DEF Align
<1>3. (q * a) % a = 0
  BY <1>1
<1> HIDE DEF q, r
<1>4. q * a \in Nat
  BY <1>1
<1>5. QED
  BY <1>1, <1>2, <1>3, <1>4

LEMMA UsableIsNat ==
  ASSUME NEW v \in Nat
  PROVE  /\ Usable(v) \in Nat
         /\ Usable(v) =< v
         /\ Usable(v) =< MaxUsable
         /\ SmallSpacing(v) \in Nat
         /\ 4 * SmallSpacing(v) =< Usable(v)
<1>1. v \div 2 \in Nat /\ v \div 2 =< v
  OBVIOUS
<1>2. Usable(v) \in Nat /\ Usable(v) =< v /\ Usable(v) =< MaxUsable
  BY <1>1, LayoutConstants DEF Usable
<1>3. SmallSpacing(v) \in Nat /\ 4 * SmallSpacing(v) =< Usable(v)
  BY <1>2 DEF SmallSpacing
<1>4. QED
  BY <1>2, <1>3

LEMMA OffsetsAreNat ==
  ASSUME NEW v \in Nat, NEW s \in Nat \ {0}
  PROVE  /\ \A j \in Copies : MetadataOffset(v, s, j) \in Nat
         /\ VolumeHeaderOffset(v, s) \in Nat
         /\ HeaderSize(s) \in Nat
<1>1. \A j \in Copies : MetadataOffset(v, s, j) \in Nat
  <2> TAKE j \in Copies
  <2>1. CASE IsSmall(v)
    <3>1. SmallSpacing(v) * j \in Nat
      BY UsableIsNat DEF Copies
    <3>2. Align(SmallSpacing(v) * j, s) \in Nat
      BY <3>1, AlignBounds
    <3>3. QED
      BY <2>1, <3>2 DEF MetadataOffset
  <2>2. CASE ~IsSmall(v)
    BY <2>2, LayoutConstants DEF MetadataOffset, Copies
  <2>3. QED
    BY <2>1, <2>2
<1>2. VolumeHeaderOffset(v, s) \in Nat
  <2>1. MetadataOffset(v, s, 1) + BlockSize \in Nat
    BY <1>1, LayoutConstants DEF Copies
  <2>2. QED
    BY <2>1, AlignBounds DEF VolumeHeaderOffset
<1>3. HeaderSize(s) \in Nat
  BY LayoutConstants DEF HeaderSize
<1>4. QED
  BY <1>1, <1>2, <1>3

(* On every volume large enough for it, the layout puts the header, the    *)
(* first block, the backup of the header and the other two blocks one      *)
(* after the other, and the last of them ends inside the volume.           *)
THEOREM LayoutIsSound ==
  ASSUME NEW v \in Nat, NEW s \in Nat \ {0}, LayoutFits(v, s)
  PROVE  LaidOut(v, s)
<1> DEFINE m(j) == MetadataOffset(v, s, j)
<1> DEFINE b == VolumeHeaderOffset(v, s)
<1> DEFINE h == HeaderSize(s)
<1>1. /\ m(1) \in Nat /\ m(2) \in Nat /\ m(3) \in Nat
      /\ b \in Nat /\ h \in Nat
      /\ BlockSize \in Nat
  BY OffsetsAreNat, LayoutConstants DEF Copies
<1>2. m(1) + BlockSize =< b /\ b < m(1) + BlockSize + s
  <2>1. b = Align(m(1) + BlockSize, s)
    BY DEF VolumeHeaderOffset
  <2> HIDE DEF m, b, h
  <2>2. m(1) + BlockSize \in Nat
    BY <1>1
  <2>3. QED
    BY <2>1, <2>2, AlignBounds
<1>3. /\ h =< m(1)
      /\ m(1) + BlockSize + h + s =< m(2)
      /\ m(2) + BlockSize =< m(3)
      /\ m(3) + BlockSize =< v
  <2>1. CASE IsSmall(v)
    <3> DEFINE sp == SmallSpacing(v)
    <3>1. sp \in Nat /\ 4 * sp =< v
      BY UsableIsNat
    <3>2. sp >= BlockSize + h + 2 * s
      BY <2>1 DEF LayoutFits
    <3>3. /\ sp * 1 \in Nat /\ sp * 2 \in Nat /\ sp * 3 \in Nat
          /\ sp * 1 = sp /\ sp * 2 = sp + sp /\ sp * 3 = sp + sp + sp
      BY <3>1
    <3>4. /\ m(1) = Align(sp * 1, s)
          /\ m(2) = Align(sp * 2, s)
          /\ m(3) = Align(sp * 3, s)
      BY <2>1 DEF MetadataOffset
    <3>5. /\ sp =< m(1) /\ m(1) < sp + s
          /\ sp + sp =< m(2) /\ m(2) < sp + sp + s
          /\ sp + sp + sp =< m(3) /\ m(3) < sp + sp + sp + s
      BY <3>3, <3>4, AlignBounds
    <3> HIDE DEF sp, m, b, h
    <3>6. QED
      BY <1>1, <3>1, <3>2, <3>5
  <2>2. CASE ~IsSmall(v)
    <3>1. /\ m(1) = MetadataStart
          /\ m(2) = MetadataStart + Spacing
          /\ m(3) = MetadataStart + 2 * Spacing
      BY <2>2, LayoutConstants DEF MetadataOffset
    <3>2. MetadataStart >= h /\ Spacing >= BlockSize + h + s
      BY <2>2 DEF LayoutFits
    <3>3. MetadataStart + 2 * Spacing + BlockSize =< v
      BY <2>2, LayoutConstants DEF IsSmall
    <3> HIDE DEF m, b, h
    <3>4. QED
      BY <1>1, <3>1, <3>2, <3>3, LayoutConstants
  <2>3. QED
    BY <2>1, <2>2
<1>4. LaidOut(v, s)
  <2> HIDE DEF m, b, h
  <2>1. /\ h =< m(1) /\ m(1) + BlockSize =< b /\ b + h =< m(2)
        /\ m(2) + BlockSize =< m(3) /\ m(3) + BlockSize =< v
    BY <1>1, <1>2, <1>3
  <2>2. QED
    BY <2>1 DEF LaidOut, Before, HeaderArea, BlockArea, BackupArea, m, b, h
<1>5. QED
  BY <1>4

-----------------------------------------------------------------------------
(* The layout in sectors: a place in bytes that is a whole number of them. *)
SectorOf(x, s) == x \div s

(* Header, first block, backup, second and third block, in this order, on  *)
(* a volume of n sectors of s bytes.                                       *)
PlacedInSectors(n, s) ==
  LET at(j) == SectorOf(MetadataOffset(n * s, s, j), s)
      backup == SectorOf(VolumeHeaderOffset(n * s, s), s)
      length == SectorOf(BlockSize, s)
  IN  /\ \A j \in Copies : at(j) \in Nat
      /\ backup \in Nat
      /\ length \in Nat \ {0}
      /\ NumHeaderSectors =< at(1)
      /\ at(1) + length =< backup
      /\ backup + NumHeaderSectors =< at(2)
      /\ at(2) + length =< at(3)
      /\ at(3) + length =< n

LEMMA WholeSectors ==
  ASSUME NEW s \in Nat \ {0}, NEW x \in Nat, x % s = 0
  PROVE  SectorOf(x, s) \in Nat /\ x = SectorOf(x, s) * s
BY DEF SectorOf

LEMMA LayoutInSectors ==
  ASSUME NEW n \in Nat \ {0}, NEW s \in Nat \ {0}, BlockSize % s = 0,
         SectorAligned(n * s, s), LaidOut(n * s, s)
  PROVE  PlacedInSectors(n, s)
<1> DEFINE v == n * s
<1> DEFINE m(j) == MetadataOffset(v, s, j)
<1> DEFINE b == VolumeHeaderOffset(v, s)
<1> DEFINE at(j) == SectorOf(m(j), s)
<1> DEFINE backup == SectorOf(b, s)
<1> DEFINE length == SectorOf(BlockSize, s)
<1>1. /\ v \in Nat /\ NumHeaderSectors \in Nat \ {0} /\ BlockSize \in Nat \ {0}
      /\ v = n * s
  BY LayoutConstants
<1>2. /\ m(1) \in Nat /\ m(2) \in Nat /\ m(3) \in Nat /\ b \in Nat
  BY <1>1, OffsetsAreNat DEF Copies
<1>3. /\ m(1) % s = 0 /\ m(2) % s = 0 /\ m(3) % s = 0 /\ b % s = 0
  BY DEF SectorAligned, Copies
<1>4. /\ NumHeaderSectors * s =< m(1) /\ m(1) + BlockSize =< b
      /\ b + NumHeaderSectors * s =< m(2)
      /\ m(2) + BlockSize =< m(3) /\ m(3) + BlockSize =< v
  BY DEF LaidOut, Before, HeaderArea, BlockArea, BackupArea, HeaderSize
<1> HIDE DEF m, b, v
<1>5. /\ at(1) \in Nat /\ m(1) = at(1) * s
      /\ at(2) \in Nat /\ m(2) = at(2) * s
      /\ at(3) \in Nat /\ m(3) = at(3) * s
      /\ backup \in Nat /\ b = backup * s
      /\ length \in Nat /\ BlockSize = length * s
  BY <1>1, <1>2, <1>3, WholeSectors
<1> HIDE DEF at, backup, length
<1>6. NumHeaderSectors =< at(1)
  BY <1>1, <1>4, <1>5, ProductOrder
<1>7. at(1) + length =< backup
  <2>1. (at(1) + length) * s = m(1) + BlockSize
    BY <1>1, <1>5
  <2>2. QED
    BY <1>1, <1>4, <1>5, <2>1, ProductOrder
<1>8. backup + NumHeaderSectors =< at(2)
  <2>1. (backup + NumHeaderSectors) * s = b + NumHeaderSectors * s
    BY <1>1, <1>5
  <2>2. QED
    BY <1>1, <1>4, <1>5, <2>1, ProductOrder
<1>9. at(2) + length =< at(3)
  <2>1. (at(2) + length) * s = m(2) + BlockSize
    BY <1>1, <1>5
  <2>2. QED
    BY <1>1, <1>4, <1>5, <2>1, ProductOrder
<1>10. at(3) + length =< n
  <2>1. (at(3) + length) * s = m(3) + BlockSize
    BY <1>1, <1>5
  <2>2. QED
    BY <1>1, <1>4, <1>5, <2>1, ProductOrder
<1>11. length # 0
  BY <1>1, <1>5
<1>12. \A j \in Copies : at(j) \in Nat
  BY <1>5 DEF Copies
<1>13. QED
  BY <1>5, <1>6, <1>7, <1>8, <1>9, <1>10, <1>11, <1>12
     DEF PlacedInSectors, at, backup, length, m, b, v

(* What is saved of the header is no more than the header.                 *)
LEMMA SavedInSectors ==
  ASSUME NEW s \in Nat \ {0}, NEW t \in 1 .. s
  PROVE  /\ (NumHeaderSectors * t) \div s \in 0 .. NumHeaderSectors
         /\ t = s => (NumHeaderSectors * t) \div s = NumHeaderSectors
<1> DEFINE p == NumHeaderSectors * t
<1>1. /\ NumHeaderSectors \in Nat /\ p \in Nat /\ p =< NumHeaderSectors * s
      /\ NumHeaderSectors * s \in Nat
  BY LayoutConstants
<1>2. t = s => p = NumHeaderSectors * s
  OBVIOUS
<1> HIDE DEF p
<1>3. p \div s \in Nat /\ (p \div s) * s =< p /\ p < (p \div s + 1) * s
  BY <1>1
<1>4. p \div s =< NumHeaderSectors
  <2>1. (p \div s) * s \in Nat /\ (p \div s) * s =< NumHeaderSectors * s
    BY <1>1, <1>3
  <2>2. QED
    BY <1>1, <1>3, <2>1, ProductOrder
<1>5. ASSUME t = s PROVE p \div s = NumHeaderSectors
  <2>1. NumHeaderSectors * s < (p \div s + 1) * s
    BY <1>1, <1>2, <1>3, <1>5
  <2>2. ~ (p \div s + 1 =< NumHeaderSectors)
    BY <1>1, <1>3, <2>1, ProductOrder
  <2>3. QED
    BY <1>1, <1>3, <1>4, <2>2
<1>6. QED
  BY <1>3, <1>1, <1>4, <1>5 DEF p

-----------------------------------------------------------------------------
LEMMA PlainIsContent ==
  ASSUME NEW b \in Base
  PROVE  Plain(b) \in Content
BY DEF Plain, Content

LEMMA ApplyIsContent ==
  ASSUME NEW l \in Layer, NEW c \in Content
  PROVE  Apply(l, c) \in Content
<1>1. /\ c = [base |-> c.base, layers |-> c.layers]
      /\ c.base \in Base
      /\ c.layers \in Seq(Layer)
  BY DEF Content
<1>2. CASE c.layers # <<>> /\ Head(c.layers) = Undo(l)
  <2>1. Tail(c.layers) \in Seq(Layer)
    BY <1>1, <1>2
  <2>2. Apply(l, c) = [base |-> c.base, layers |-> Tail(c.layers)]
    BY <1>1, <1>2 DEF Apply
  <2>3. QED
    BY <1>1, <2>1, <2>2 DEF Content
<1>3. CASE ~ (c.layers # <<>> /\ Head(c.layers) = Undo(l))
  <2>1. <<l>> \o c.layers \in Seq(Layer)
    BY <1>1
  <2>2. Apply(l, c) = [base |-> c.base, layers |-> <<l>> \o c.layers]
    BY <1>1, <1>3 DEF Apply
  <2>3. QED
    BY <1>1, <2>1, <2>2 DEF Content
<1>4. QED
  BY <1>2, <1>3

LEMMA CipherIsContent ==
  ASSUME NEW k \in Nat, NEW at \in Nat, NEW c \in Content
  PROVE  /\ EncryptSector(k, at, c) \in Content
         /\ DecryptSector(k, at, c) \in Content
<1>1. Tweaked("enc", k, at) \in Layer /\ Tweaked("dec", k, at) \in Layer
  BY DEF Tweaked, Layer
<1>2. QED
  BY <1>1, ApplyIsContent DEF EncryptSector, DecryptSector

(* decrypt_sector_xts and decrypt_sector_cbc undo their counterparts: the  *)
(* two sides agree on the tweak of a place.                                *)
THEOREM DecryptUndoesEncrypt ==
  ASSUME NEW k \in Nat, NEW at \in Nat, NEW b \in Base
  PROVE  DecryptSector(k, at, EncryptSector(k, at, Plain(b))) = Plain(b)
<1> DEFINE e == Tweaked("enc", k, at)
<1> DEFINE d == Tweaked("dec", k, at)
<1>1. e \in Layer /\ d \in Layer /\ Undo(d) = e
  BY DEF Tweaked, Layer, Undo
<1>2. EncryptSector(k, at, Plain(b)) = [base |-> b, layers |-> <<e>>]
  <2>1. Plain(b).layers = <<>>
    BY DEF Plain
  <2>2. EncryptSector(k, at, Plain(b)) = [Plain(b) EXCEPT !.layers = <<e>> \o @]
    BY <2>1 DEF EncryptSector, Apply
  <2>3. <<e>> \o <<>> = <<e>>
    BY <1>1
  <2>4. QED
    BY <2>2, <2>3 DEF Plain
<1> HIDE DEF e, d
<1>3. /\ <<e>> # <<>>
      /\ Head(<<e>>) = e
      /\ Tail(<<e>>) = <<>>
  BY <1>1
<1>4. Apply(d, [base |-> b, layers |-> <<e>>]) = [base |-> b, layers |-> <<>>]
  BY <1>1, <1>3 DEF Apply
<1>5. QED
  BY <1>2, <1>4 DEF DecryptSector, Plain, d

(* Sealing changes a sector: what is sealed cannot be taken for plain.     *)
LEMMA SealedIsNotPlain ==
  ASSUME NEW k \in Nat, NEW at \in Nat, NEW b \in Base, NEW c \in Base
  PROVE  EncryptSector(k, at, Plain(b)) # Plain(c)
<1> DEFINE e == Tweaked("enc", k, at)
<1>1. e \in Layer
  BY DEF Tweaked, Layer
<1>2. EncryptSector(k, at, Plain(b)) = [Plain(b) EXCEPT !.layers = <<e>> \o @]
  BY DEF EncryptSector, Apply, Plain
<1>3. <<e>> \o <<>> # <<>>
  BY <1>1
<1>4. QED
  BY <1>2, <1>3 DEF Plain

-----------------------------------------------------------------------------
(* A set of natural numbers that is not empty has a least element. *)
LEMMA LeastOfNat ==
  ASSUME NEW T, T \subseteq Nat, T # {}
  PROVE  \E x \in T : \A y \in T : x =< y
<1>1. PICK x \in T : \A y \in T : ~ (<<y, x>> \in OpToRel(<, Nat))
  BY NatLessThanWellFounded, WFMin
<1>2. \A y \in T : ~ (y < x)
  BY <1>1 DEF OpToRel
<1>3. QED
  BY <1>2

LEMMA RunPlaces ==
  ASSUME NEW S, NEW v \in Nat, NEW r \in Runs(S, v)
  PROVE  /\ r.start \in 0 .. v
         /\ r.end \in 0 .. v
         /\ r = [start |-> r.start, end |-> r.end]
         /\ r.start < r.end
         /\ \A i : i \in Places(r) <=> (i \in Nat /\ r.start =< i /\ i < r.end)
         /\ Places(r) \subseteq S
<1>1. /\ r \in [start : 0 .. v, end : 0 .. v]
      /\ IsRun(S, r)
  BY DEF Runs
<1>2. \A i : i \in Places(r) <=> (i \in Nat /\ r.start =< i /\ i < r.end)
  BY <1>1 DEF Places
<1>3. Places(r) \subseteq S
  BY <1>1, <1>2 DEF IsRun
<1>4. QED
  BY <1>1, <1>2, <1>3 DEF IsRun

(* No sector in use is missed: each lies in a run. *)
THEOREM RunsCover ==
  ASSUME NEW v \in Nat, NEW S, S \subseteq 0 .. v - 1
  PROVE  UNION {Places(r) : r \in Runs(S, v)} = S
<1>1. ASSUME NEW i \in S
      PROVE  \E r \in Runs(S, v) : i \in Places(r)
  <2>1. i \in 0 .. v - 1
    BY <1>1
  <2> DEFINE A == {x \in Nat : x =< i /\ \A y \in x .. i : y \in S}
  <2>2. i \in A
    <3>1. \A y \in i .. i : y = i
      BY <2>1
    <3>2. QED
      BY <1>1, <2>1, <3>1
  <2>3. PICK a \in A : \A x \in A : a =< x
    BY <2>2, LeastOfNat
  <2> DEFINE E == {x \in Nat : i < x /\ x \notin S}
  <2>4. v \in E
    BY <2>1
  <2>5. PICK e \in E : \A x \in E : e =< x
    BY <2>4, LeastOfNat
  <2>6. /\ a \in Nat /\ e \in Nat /\ a =< i /\ i < e /\ e =< v
        /\ e \notin S
    BY <2>3, <2>4, <2>5
  <2>7. \A y \in a .. e - 1 : y \in S
    <3>1. SUFFICES ASSUME NEW y \in a .. e - 1 PROVE y \in S
      OBVIOUS
    <3>2. CASE y =< i
      BY <2>3, <2>6, <3>2
    <3>3. CASE i < y
      <4>1. y \in Nat /\ ~ (e =< y)
        BY <2>6
      <4>2. y \notin E
        BY <2>5, <4>1
      <4>3. QED
        BY <3>3, <4>1, <4>2
    <3>4. QED
      BY <2>1, <2>6, <3>2, <3>3
  <2>8. a > 0 => a - 1 \notin S
    <3>1. SUFFICES ASSUME a > 0, a - 1 \in S PROVE FALSE
      OBVIOUS
    <3>2. a - 1 \in Nat /\ a - 1 =< i
      BY <2>1, <2>6, <3>1
    <3>3. \A y \in a - 1 .. i : y \in S
      <4>1. \A y \in a - 1 .. i : y = a - 1 \/ y \in a .. i
        BY <2>1, <2>6
      <4>2. QED
        BY <2>3, <3>1, <4>1
    <3>4. a - 1 \in A
      BY <3>2, <3>3
    <3>5. QED
      BY <2>3, <2>6, <3>4
  <2> DEFINE r == [start |-> a, end |-> e]
  <2>9. r \in Runs(S, v)
    <3>1. r \in [start : 0 .. v, end : 0 .. v]
      BY <2>1, <2>6
    <3>2. IsRun(S, r)
      BY <2>6, <2>7, <2>8 DEF IsRun
    <3>3. QED
      BY <3>1, <3>2 DEF Runs
  <2>10. i \in Places(r)
    BY <2>1, <2>6 DEF Places
  <2>11. QED
    BY <2>9, <2>10
<1>2. ASSUME NEW r \in Runs(S, v) PROVE Places(r) \subseteq S
  BY RunPlaces
<1>3. QED
  BY <1>1, <1>2

(* No sector is visited twice: two runs that share a sector are one. *)
THEOREM RunsApart ==
  ASSUME NEW v \in Nat, NEW S,
         NEW r \in Runs(S, v), NEW q \in Runs(S, v),
         NEW i \in Places(r), i \in Places(q)
  PROVE  r = q
<1>1. /\ r.start \in 0 .. v /\ r.end \in 0 .. v /\ q.start \in 0 .. v /\ q.end \in 0 .. v
      /\ r.start =< i /\ i < r.end /\ q.start =< i /\ i < q.end /\ i \in Nat
      /\ r = [start |-> r.start, end |-> r.end]
      /\ q = [start |-> q.start, end |-> q.end]
  BY RunPlaces
<1>2. /\ \A x \in r.start .. r.end - 1 : x \in S
      /\ \A x \in q.start .. q.end - 1 : x \in S
      /\ r.end \notin S /\ q.end \notin S
      /\ r.start > 0 => r.start - 1 \notin S
      /\ q.start > 0 => q.start - 1 \notin S
  BY DEF Runs, IsRun
<1>3. r.end = q.end
  <2>1. ~ (r.end < q.end)
    BY <1>1, <1>2
  <2>2. ~ (q.end < r.end)
    BY <1>1, <1>2
  <2>3. QED
    BY <1>1, <2>1, <2>2
<1>4. r.start = q.start
  <2>1. ~ (r.start < q.start)
    <3>1. SUFFICES ASSUME r.start < q.start PROVE FALSE
      OBVIOUS
    <3>2. q.start - 1 \in r.start .. r.end - 1
      BY <1>1, <3>1
    <3>3. QED
      BY <1>1, <1>2, <3>1, <3>2
  <2>2. ~ (q.start < r.start)
    <3>1. SUFFICES ASSUME q.start < r.start PROVE FALSE
      OBVIOUS
    <3>2. r.start - 1 \in q.start .. q.end - 1
      BY <1>1, <3>1
    <3>3. QED
      BY <1>1, <1>2, <3>1, <3>2
  <2>3. QED
    BY <1>1, <2>1, <2>2
<1>5. QED
  BY <1>1, <1>3, <1>4
=============================================================================
