------------------------------ MODULE MCImage ------------------------------
(* The volume and the FAT of MCInPlace, as a file.                         *)
EXTENDS ImageRoundTrip

Boot == [reserved |-> 2, fats |-> 2, fatSize |-> 1, cluster |-> 2]

Request(fs, full, allocated, ragged, aliased) ==
  [fs |-> fs, full |-> full, allocated |-> allocated, ragged |-> ragged,
   aliased |-> aliased]

InUseSets == {{2}, {2, 5, 6, 9}, {2, 3, 4, 6}, 2 .. 9}

AllRequests ==
  {Request("FAT32", f, a, r, FALSE) : f \in BOOLEAN, a \in InUseSets, r \in BOOLEAN}
    \cup {Request("NTFS", f, {}, FALSE, FALSE) : f \in BOOLEAN}
    \cup {Request("other", TRUE, {}, FALSE, FALSE), Request("NTFS", TRUE, {}, FALSE, TRUE)}

(* Nothing, the header and part of a chunk, more than one chunk. *)
Buffered == {0, 4, 7}
=============================================================================
