----------------------------- MODULE MCInPlace -----------------------------
(* A device of 20 sectors: a header of 2, FATs at 2 and 3, data from 4 in  *)
(* clusters of 2, metadata blocks of 2 sectors at 6, 12 and 18 and the     *)
(* backup of the header at 8.  A FAT has 10 entries, 8 of them clusters.   *)
EXTENDS InPlaceInvariant

Boot == [reserved |-> 2, fats |-> 2, fatSize |-> 1, cluster |-> 2]

(* Nothing but the root directory; a gap and two neighbours; the clusters  *)
(* under the structures too; everything.                                   *)
InUseSets == {{2}, {2, 5, 6, 9}, {2, 3, 4, 6}, 2 .. 9}

Readings == {{}, {2, 4, 5, 9}, 2 .. 9}
=============================================================================
