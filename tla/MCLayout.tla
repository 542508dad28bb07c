------------------------------ MODULE MCLayout ------------------------------
(* The layout with the code's own constants, in units of 64 bytes: a       *)
(* sector of 512 bytes is 8 units, and V // 2 // 4 of a whole number of    *)
(* sectors is a whole number of units, so nothing is rounded away.         *)
EXTENDS LayoutPlan, Integers

MB == 16384
GB == 1024 * MB

Sectors512 == 8

(* 32 MB (the smallest FAT32 volume) to 100 GB; the sizes around the       *)
(* switch to the Windows layout at 36 MB + 2 GB + 64 KB, sector by sector. *)
Sizes ==
  {n * MB : n \in {32, 33, 35, 36, 37, 40, 64, 100, 512, 1000}}
    \cup {32 * MB + k * Sectors512 : k \in 0 .. 40}
    \cup {36 * MB + 2 * GB + 1024 + k * Sectors512 : k \in -16 .. 16}
    \cup {n * GB : n \in {1, 2, 3, 4, 8, 16, 32, 64, 100}}
    \cup {4 * GB + k * Sectors512 : k \in -2 .. 2}

BpbSectorSizes == {8, 16, 32, 64}
=============================================================================
