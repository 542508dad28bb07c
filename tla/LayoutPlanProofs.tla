-------------------------- MODULE LayoutPlanProofs --------------------------
(***************************************************************************)
(* Every layout that _calculate_layout returns keeps the structures apart. *)
(***************************************************************************)
EXTENDS LayoutPlan, VolumeProofs

(* What a call has returned is the layout of its arguments. *)
LayoutInv ==
  /\ volume \in Nat
  /\ sector \in Nat \ {0}
  /\ layout # None =>
       layout = [header_size |-> HeaderSize(sector),
                 metadata_offsets |-> [j \in Copies |-> MetadataOffset(volume, sector, j)],
                 volume_header_offset |-> VolumeHeaderOffset(volume, sector)]

(* A call of _calculate_layout returns what its arguments determine. *)
LEMMA LayoutReturned ==
  ASSUME VolumeSizes \subseteq Nat, SectorSizes \subseteq Nat \ {0}
  PROVE  Spec => []LayoutInv
<1>1. Init => LayoutInv
  BY DEF Init, LayoutInv
<1>2. LayoutInv /\ [Next]_vars => LayoutInv'
  BY DEF LayoutInv, Next, CalculateLayout, vars
<1>3. QED
  BY <1>1, <1>2, PTL DEF Spec

(* The structures of a layout that was returned are pairwise disjoint and  *)
(* inside the volume, on every volume that is large enough: no write of    *)
(* the encryptor destroys another one's structure.                         *)
THEOREM LayoutStructuresDisjoint ==
  ASSUME VolumeSizes \subseteq Nat, SectorSizes \subseteq Nat \ {0}
  PROVE  Spec => []StructuresDisjoint
<1>1. LayoutInv => StructuresDisjoint
  <2> SUFFICES ASSUME LayoutInv, layout # None, LayoutFits(volume, sector)
               PROVE  StructuresDisjoint
    BY DEF StructuresDisjoint
  <2> DEFINE v == volume
  <2> DEFINE s == sector
  <2> DEFINE m(j) == MetadataOffset(v, s, j)
  <2> DEFINE b == VolumeHeaderOffset(v, s)
  <2> DEFINE h == HeaderSize(s)
  <2>1. /\ m(1) \in Nat /\ m(2) \in Nat /\ m(3) \in Nat /\ b \in Nat /\ h \in Nat
    BY OffsetsAreNat DEF Copies, LayoutInv
  <2>2. LaidOut(v, s)
    BY LayoutIsSound DEF LayoutInv
  <2>3. /\ h =< m(1) /\ m(1) + BlockSize =< b /\ b + h =< m(2)
        /\ m(2) + BlockSize =< m(3) /\ m(3) + BlockSize =< v
    BY <2>2 DEF LaidOut, Before, HeaderArea, BlockArea, BackupArea
  <2>4. /\ \A j \in Copies : Block(j) = [start |-> m(j), end |-> m(j) + BlockSize]
        /\ Backup = [start |-> b, end |-> b + h]
        /\ Header = [start |-> 0, end |-> h]
    BY DEF LayoutInv, Block, Backup, Header
  <2> HIDE DEF m, b, h, v, s
  <2>5. /\ Block(1) = [start |-> m(1), end |-> m(1) + BlockSize]
        /\ Block(2) = [start |-> m(2), end |-> m(2) + BlockSize]
        /\ Block(3) = [start |-> m(3), end |-> m(3) + BlockSize]
    BY <2>4 DEF Copies
  <2>6. \A j \in Copies : /\ Disjoint(Block(j), Header)
                          /\ Disjoint(Block(j), Backup)
                          /\ Block(j).end =< v
    <3>1. Copies = {1, 2, 3}
      BY DEF Copies
    <3>2. v \in Nat
      BY DEF v, LayoutInv
    <3>3. QED
      BY <2>1, <2>3, <2>4, <2>5, <3>1, <3>2, LayoutConstants DEF Disjoint, Before
  <2>7. \A j, k \in Copies : j # k => Disjoint(Block(j), Block(k))
    <3>1. Copies = {1, 2, 3}
      BY DEF Copies
    <3>2. QED
      BY <2>1, <2>3, <2>5, <3>1, LayoutConstants DEF Disjoint, Before
  <2>8. Disjoint(Backup, Header) /\ Backup.end =< v
    <3>1. v \in Nat
      BY DEF v, LayoutInv
    <3>2. QED
      BY <2>1, <2>3, <2>4, <3>1, LayoutConstants DEF Disjoint, Before
  <2>9. QED
    BY <2>6, <2>7, <2>8 DEF StructuresDisjoint, v
<1>2. Spec => []LayoutInv
  BY LayoutReturned
<1>3. QED
  BY <1>1, <1>2, PTL

-----------------------------------------------------------------------------
(* A multiple of a sector, once or twice away from another one. *)
LEMMA SumOfMultiples ==
  ASSUME NEW s \in Nat \ {0}, NEW a \in Nat, NEW b \in Nat, a % s = 0, b % s = 0
  PROVE  (a + b) % s = 0
<1>1. a \div s \in Nat /\ b \div s \in Nat
  BY Z3
<1>2. a = (a \div s) * s /\ b = (b \div s) * s
  BY Z3
<1>3. \A p \in Nat, q \in Nat : (p * s + q * s) % s = 0
  <2> TAKE p \in Nat, q \in Nat
  <2>1. p * s + q * s = (p + q) * s
    BY Z3
  <2>2. ((p + q) * s) % s = 0
    BY Z3
  <2>3. QED
    BY <2>1, <2>2
<1>4. QED
  BY <1>1, <1>2, <1>3

(* The fixed places of a large volume, in whole sectors. *)
LEMMA WindowsLayoutAligned ==
  ASSUME NEW s \in Nat \ {0}, MetadataStart % s = 0, Spacing % s = 0, NEW j \in Copies
  PROVE  (MetadataStart + (j - 1) * Spacing) % s = 0
<1>1. /\ MetadataStart \in Nat /\ Spacing \in Nat
      /\ Spacing + Spacing \in Nat /\ (Spacing + Spacing) % s = 0
  <2>1. MetadataStart \in Nat /\ Spacing \in Nat
    BY LayoutConstants
  <2>2. (Spacing + Spacing) % s = 0
    BY <2>1, SumOfMultiples
  <2>3. QED
    BY <2>1, <2>2
<1>2. CASE j = 1
  <2>1. MetadataStart + (j - 1) * Spacing = MetadataStart
    BY <1>1, <1>2
  <2>2. QED
    BY <2>1
<1>3. CASE j = 2
  <2>1. MetadataStart + (j - 1) * Spacing = MetadataStart + Spacing
    BY <1>1, <1>3
  <2>2. QED
    BY <1>1, <2>1, SumOfMultiples
<1>4. CASE j = 3
  <2>1. MetadataStart + (j - 1) * Spacing = MetadataStart + (Spacing + Spacing)
    BY <1>1, <1>4
  <2>2. QED
    BY <1>1, <2>1, SumOfMultiples
<1>5. QED
  BY <1>2, <1>3, <1>4 DEF Copies

(* Every structure of a returned layout starts on a sector, on volumes of  *)
(* any size, as long as 36 MB and 1 GB are whole sectors.                  *)
THEOREM LayoutSectorAligned ==
  ASSUME VolumeSizes \subseteq Nat, SectorSizes \subseteq Nat \ {0},
         \A s \in SectorSizes : MetadataStart % s = 0 /\ Spacing % s = 0
  PROVE  Spec => []StructuresSectorAligned
<1> DEFINE Inv == LayoutInv /\ sector \in SectorSizes
<1>1. Init => Inv
  BY DEF Init, LayoutInv
<1>2. Inv /\ [Next]_vars => Inv'
  BY DEF LayoutInv, Next, CalculateLayout, vars
<1>3. Inv => StructuresSectorAligned
  <2> SUFFICES ASSUME Inv, layout # None
               PROVE  /\ \A j \in Copies : layout.metadata_offsets[j] % sector = 0
                      /\ layout.volume_header_offset % sector = 0
    BY DEF StructuresSectorAligned
  <2>1. volume \in Nat /\ sector \in Nat \ {0}
    BY DEF LayoutInv
  <2>2. \A j \in Copies : MetadataOffset(volume, sector, j) % sector = 0
    <3> TAKE j \in Copies
    <3>1. CASE IsSmall(volume)
      <4>1. SmallSpacing(volume) * j \in Nat
        BY <2>1, UsableIsNat DEF Copies
      <4>2. QED
        BY <2>1, <3>1, <4>1, AlignBounds DEF MetadataOffset
    <3>2. CASE ~IsSmall(volume)
      <4>1. MetadataStart % sector = 0 /\ Spacing % sector = 0
        OBVIOUS
      <4>2. QED
        BY <2>1, <3>2, <4>1, WindowsLayoutAligned DEF MetadataOffset
    <3>3. QED
      BY <3>1, <3>2
  <2>3. VolumeHeaderOffset(volume, sector) % sector = 0
    <3>1. MetadataOffset(volume, sector, 1) + BlockSize \in Nat
      <4>1. MetadataOffset(volume, sector, 1) \in Nat
        <5>1. \A j \in Copies : MetadataOffset(volume, sector, j) \in Nat
          BY <2>1, OffsetsAreNat
        <5>2. QED
          BY <5>1 DEF Copies
      <4>2. QED
        BY <4>1, LayoutConstants
    <3>2. QED
      BY <2>1, <3>1, AlignBounds DEF VolumeHeaderOffset
  <2>4. QED
    BY <2>2, <2>3 DEF LayoutInv
<1>4. QED
  BY <1>1, <1>2, <1>3, PTL DEF Spec

-----------------------------------------------------------------------------
(* No structure reaches past 4 GB, however large the volume: the structures *)
(* of a large one end there, those of a small one before.                   *)
THEOREM LayoutWithin32Bits ==
  ASSUME VolumeSizes \subseteq Nat, SectorSizes \subseteq Nat \ {0},
         \A s \in SectorSizes :
           MetadataStart + 2 * Spacing + 2 * BlockSize + HeaderSize(s) + 2 * s =< MaxUsable
  PROVE  Spec => []OffsetsWithin32Bits
<1> DEFINE Inv == LayoutInv /\ sector \in SectorSizes
<1>1. Init => Inv
  BY DEF Init, LayoutInv
<1>2. Inv /\ [Next]_vars => Inv'
  BY DEF LayoutInv, Next, CalculateLayout, vars
<1>3. Inv => OffsetsWithin32Bits
  <2> SUFFICES ASSUME Inv, layout # None
               PROVE  OffsetsWithin32Bits
    BY DEF OffsetsWithin32Bits
  <2> DEFINE v == volume
  <2> DEFINE s == sector
  <2> DEFINE m(j) == MetadataOffset(v, s, j)
  <2> DEFINE b == VolumeHeaderOffset(v, s)
  <2> DEFINE h == HeaderSize(s)
  <2>1. /\ v \in Nat /\ s \in Nat \ {0} /\ h \in Nat
        /\ m(1) \in Nat /\ m(2) \in Nat /\ m(3) \in Nat
        /\ BlockSize \in Nat /\ MetadataStart \in Nat /\ Spacing \in Nat /\ MaxUsable \in Nat
    BY OffsetsAreNat, LayoutConstants DEF Copies, LayoutInv
  <2>2. MetadataStart + 2 * Spacing + 2 * BlockSize + h + 2 * s =< MaxUsable
    OBVIOUS
  <2>3. /\ m(1) =< MetadataStart + 2 * Spacing + BlockSize + s
        /\ m(2) =< MetadataStart + 2 * Spacing + BlockSize + s
        /\ m(3) =< MetadataStart + 2 * Spacing + BlockSize + s
    <3>1. CASE IsSmall(v)
      <4> DEFINE x == SmallSpacing(v)
      <4>1. x \in Nat /\ 4 * x =< v
        BY <2>1, UsableIsNat
      <4>2. v < MetadataStart + 2 * Spacing + BlockSize
        BY <2>1, <3>1 DEF IsSmall
      <4>3. m(1) = Align(x * 1, s) /\ m(2) = Align(x * 2, s) /\ m(3) = Align(x * 3, s)
        BY <3>1 DEF MetadataOffset
      <4> HIDE DEF x, m, v, s
      <4>4. m(1) < x * 1 + s /\ m(2) < x * 2 + s /\ m(3) < x * 3 + s
        BY <2>1, <4>1, <4>3, AlignBounds
      <4>5. QED
        BY <2>1, <4>1, <4>2, <4>4
    <3>2. CASE ~IsSmall(v)
      <4>1. /\ m(1) = MetadataStart
            /\ m(2) = MetadataStart + Spacing
            /\ m(3) = MetadataStart + 2 * Spacing
        BY <2>1, <3>2 DEF MetadataOffset
      <4> HIDE DEF m, v, s
      <4>2. QED
        BY <2>1, <4>1
    <3>3. QED
      BY <3>1, <3>2
  <2>4. b < m(1) + BlockSize + s
    BY <2>1, AlignBounds DEF VolumeHeaderOffset
  <2>5. /\ \A j \in Copies : Block(j) = [start |-> m(j), end |-> m(j) + BlockSize]
        /\ Backup = [start |-> b, end |-> b + h]
    BY DEF LayoutInv, Block, Backup
  <2>6. b \in Nat
    BY <2>1, OffsetsAreNat
  <2> HIDE DEF m, b, h, v, s
  <2>7. \A j \in Copies : m(j) + BlockSize =< MaxUsable
    BY <2>1, <2>2, <2>3 DEF Copies
  <2>8. b + h =< MaxUsable
    BY <2>1, <2>2, <2>3, <2>4, <2>6
  <2>9. QED
    BY <2>5, <2>7, <2>8 DEF OffsetsWithin32Bits
<1>4. QED
  BY <1>1, <1>2, <1>3, PTL DEF Spec
=============================================================================
