---------------------------- MODULE Fat32Regions ----------------------------
(***************************************************************************)
(* _get_used_regions_fat32: the scan of the first FAT, one cluster at a    *)
(* time, then the sort of the regions found and the merge of those that    *)
(* overlap or touch.                                                       *)
(***************************************************************************)
EXTENDS Fat32, Sequences, SequencesExt

CONSTANTS
  Geometries,   \* the BPBs to try
  Volume,       \* the size of the volume, in sectors
  Entries       \* the values a FAT entry may have

ASSUME RegionsAssumption ==
  /\ Geometries \subseteq Geometry
  /\ Entries \subseteq Nat
  /\ Volume \in Nat
  /\ \A g \in Geometries : SystemRegion(g).end =< Volume

VARIABLES
  geometry,     \* the fields of sector 0
  fat,          \* fat_data: the entry of every cluster of the volume
  pc,           \* "scan", "sort", "merge" or "done"
  cluster_idx,  \* the next cluster to look at
  regions,      \* the regions found
  merged        \* the merged ones, which are returned

vars == <<geometry, fat, pc, cluster_idx, regions, merged>>

Clusters(g) == 2 .. MaxCluster(g, Volume) - 1

Init ==
  /\ geometry \in Geometries
  /\ fat \in [Clusters(geometry) -> Entries]
  /\ pc = "scan"
  /\ cluster_idx = 2
  /\ regions = <<SystemRegion(geometry)>>
  /\ merged = <<>>

ScanCluster ==
  /\ pc = "scan"
  /\ cluster_idx < MaxCluster(geometry, Volume)
  /\ regions' = IF /\ InUse(fat[cluster_idx])
                   /\ ClusterStart(geometry, cluster_idx) < Volume
                THEN Append(regions, ClusterRegion(geometry, Volume, cluster_idx))
                ELSE regions
  /\ cluster_idx' = cluster_idx + 1
  /\ UNCHANGED <<geometry, fat, pc, merged>>

EndOfScan ==
  /\ pc = "scan"
  /\ cluster_idx >= MaxCluster(geometry, Volume)
  /\ pc' = "sort"
  /\ UNCHANGED <<geometry, fat, cluster_idx, regions, merged>>

(* Python's order on pairs: by start, then by end. *)
Precedes(a, b) ==
  \/ a.start < b.start
  \/ a.start = b.start /\ a.end < b.end

(* regions.sort(): the regions in another sequence, none before one that   *)
(* precedes it.                                                            *)
Rearranged(s) ==
  {[i \in DOMAIN s |-> s[p[i]]] : p \in Bijection(DOMAIN s, DOMAIN s)}

InOrder(s) == \A i, j \in DOMAIN s : i < j => ~Precedes(s[j], s[i])

Sorted(s) == CHOOSE t \in Rearranged(s) : InOrder(t)

(* Seeded fault: the merge starts one region too late.                     *)
SortPastSecond ==
  /\ pc = "sort"
  /\ LET sorted == Sorted(regions)
     IN  /\ merged' = <<Head(sorted)>>
         /\ regions' = SubSeq(sorted, 3, Len(sorted))
  /\ pc' = "merge"
  /\ UNCHANGED <<geometry, fat, cluster_idx>>

SortRegions ==
  /\ pc = "sort"
  /\ LET sorted == Sorted(regions)
     IN  /\ merged' = <<Head(sorted)>>
         /\ regions' = Tail(sorted)
  /\ pc' = "merge"
  /\ UNCHANGED <<geometry, fat, cluster_idx>>

(* Seeded fault: regions that touch are not merged.                        *)
JoinsInside(last, r) == r.start < last.end

(* A region that starts inside the last merged one, or right after it. *)
Joins(last, r) == r.start =< last.end

(* Seeded fault: the end of the merged region is added up.                 *)
ExtendedBySum(last, r) == [last EXCEPT !.end = @ + r.end]

Extended(last, r) == [last EXCEPT !.end = IF @ < r.end THEN r.end ELSE @]

MergeRegion ==
  /\ pc = "merge"
  /\ regions # <<>>
  /\ merged' = IF Joins(Last(merged), Head(regions))
               THEN Append(Front(merged), Extended(Last(merged), Head(regions)))
               ELSE Append(merged, Head(regions))
  /\ regions' = Tail(regions)
  /\ UNCHANGED <<geometry, fat, pc, cluster_idx>>

Return ==
  /\ pc = "merge"
  /\ regions = <<>>
  /\ pc' = "done"
  /\ UNCHANGED <<geometry, fat, cluster_idx, regions, merged>>

Next == ScanCluster \/ EndOfScan \/ SortRegions \/ MergeRegion \/ Return

Spec == Init /\ [][Next]_vars

-----------------------------------------------------------------------------
Allocated == {c \in DOMAIN fat : InUse(fat[c])}

Region == [start : 0 .. Volume, end : 0 .. Volume]

TypeOK ==
  /\ geometry \in Geometries
  /\ fat \in [Clusters(geometry) -> Entries]
  /\ pc \in {"scan", "sort", "merge", "done"}
  /\ cluster_idx \in {2} \cup 2 .. MaxCluster(geometry, Volume)
  /\ regions \in Seq(Region)
  /\ merged \in Seq(Region)

(* The regions returned are, in order, exactly the maximal runs of the     *)
(* sectors in use: nothing in use is left out, nothing free is visited,    *)
(* no sector is visited twice (it would be encrypted twice), and the FAT   *)
(* entry of a cluster counts only in its low 28 bits.                      *)
ReturnsTheRuns ==
  pc = "done" =>
    /\ Range(merged) = Runs(Covered(geometry, Volume, Allocated), Volume)
    /\ \A i, j \in DOMAIN merged : i < j => merged[i].end < merged[j].start

(* No sector is forgotten on the way: at every step of the merge, what is  *)
(* merged and what is still to merge cover the sectors in use, and the     *)
(* merged regions are apart from each other.                               *)
MergeLosesNothing ==
  pc \in {"merge", "done"} =>
    /\ UNION {Places(r) : r \in Range(merged) \cup Range(regions)}
         = Covered(geometry, Volume, Allocated)
    /\ \A i, j \in DOMAIN merged : i < j => merged[i].end < merged[j].start
=============================================================================
