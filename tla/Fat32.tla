-------------------------------- MODULE Fat32 --------------------------------
(***************************************************************************)
(* What the encryptor knows of a FAT32 file system: the geometry of the    *)
(* BIOS parameter block, the region each cluster takes, and the set of     *)
(* places a used-space-only encryption has to visit.  Everything is        *)
(* counted in sectors.                                                     *)
(***************************************************************************)
EXTENDS Naturals

CONSTANTS
  EntriesPerSector,   \* FAT entries in one sector: 4 bytes each
  EntryRange          \* the low 28 bits of an entry count: 2^28

ASSUME Fat32Constants ==
  /\ EntriesPerSector \in Nat \ {0}
  /\ EntryRange \in Nat \ {0}

(* The BPB fields: reserved sectors, number of FATs, sectors per FAT and   *)
(* sectors per cluster.                                                    *)
Geometry == [reserved : Nat, fats : Nat, fatSize : Nat, cluster : Nat \ {0}]

Least(a, b) == IF a < b THEN a ELSE b

FatStart(g) == g.reserved
DataStart(g) == g.reserved + g.fats * g.fatSize

(* One more than the last cluster the scan looks at: neither past the FAT  *)
(* that was read nor past the volume.                                      *)
MaxCluster(g, v) ==
  Least(g.fatSize * EntriesPerSector, (v - DataStart(g)) \div g.cluster + 2)

(* The upper four bits of an entry are reserved and do not count. *)
InUse(entry) == entry % EntryRange # 0

ClusterStart(g, c) == DataStart(g) + (c - 2) * g.cluster

ClusterRegion(g, v, c) ==
  [start |-> ClusterStart(g, c),
   end   |-> Least(ClusterStart(g, c) + g.cluster, v)]

(* Boot sectors, FATs and the first cluster of the root directory. *)
SystemRegion(g) == [start |-> 0, end |-> DataStart(g) + g.cluster]

-----------------------------------------------------------------------------
(* Sets of places, and the regions they fall into. *)
Places(r) == {i \in 0 .. r.end : r.start =< i /\ i < r.end}

(* What has to be encrypted when the clusters of "allocated" are in use. *)
Covered(g, v, allocated) ==
  Places(SystemRegion(g))
    \cup UNION {Places(ClusterRegion(g, v, c)) :
                  c \in allocated \cap (2 .. MaxCluster(g, v) - 1)}

(* A maximal run of S: an interval of S that S extends at neither end. *)
IsRun(S, r) ==
  /\ r.start < r.end
  /\ \A i \in r.start .. r.end - 1 : i \in S
  /\ r.end \notin S
  /\ r.start > 0 => r.start - 1 \notin S

Runs(S, v) == {r \in [start : 0 .. v, end : 0 .. v] : IsRun(S, r)}
=============================================================================
