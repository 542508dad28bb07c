--------------------------- MODULE MCFat32Regions ---------------------------
(* A volume of 13 sectors: one geometry whose FAT limits the scan, one     *)
(* whose last cluster does not fit, one whose FAT describes more clusters  *)
(* than the volume has, as every formatted volume's does.                  *)
EXTENDS Fat32Regions

Boots ==
  {[reserved |-> 1, fats |-> 2, fatSize |-> 1, cluster |-> 2],
   [reserved |-> 2, fats |-> 1, fatSize |-> 1, cluster |-> 3],
   [reserved |-> 2, fats |-> 2, fatSize |-> 2, cluster |-> 2],
   [reserved |-> 1, fats |-> 1, fatSize |-> 2, cluster |-> 2]}

(* Free, in use, free with reserved bits set, in use with reserved bits:   *)
(* a range of 4 stands for the 28 bits.                                    *)
EntryValues == {0, 3, 4, 5}
=============================================================================
