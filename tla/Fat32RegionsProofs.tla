------------------------- MODULE Fat32RegionsProofs -------------------------
(***************************************************************************)
(* What _get_used_regions_fat32 returns: for every geometry, every FAT and *)
(* every size of the volume, in order, the maximal runs of the sectors in  *)
(* use.                                                                    *)
(***************************************************************************)
EXTENDS Fat32Regions, VolumeProofs

(* The regions of a list that the scan or the merge works on.              *)
Solid(s) == \A i \in DOMAIN s : s[i].start < s[i].end

(* In order, and with a sector between one and the next. *)
Apart(s) == \A i, j \in DOMAIN s : i < j => s[i].end < s[j].start

(* A sector lies in one of the regions of a list. *)
Reached(s, x) == \E i \in DOMAIN s : s[i].start =< x /\ x < s[i].end

(* What the scan has to have found before it looks at cluster n.           *)
Due(g, f, n, x) ==
  \/ x < SystemRegion(g).end
  \/ \E c \in 2 .. n - 1 : /\ c \in DOMAIN f /\ InUse(f[c])
                           /\ ClusterStart(g, c) =< x
                           /\ x < ClusterRegion(g, Volume, c).end

-----------------------------------------------------------------------------
LEMMA RegionIs ==
  ASSUME NEW r \in Region
  PROVE  /\ r.start \in Nat /\ r.end \in Nat /\ r.start =< Volume /\ r.end =< Volume
         /\ r = [start |-> r.start, end |-> r.end]
BY RegionsAssumption DEF Region

LEMMA ListIs ==
  ASSUME NEW s \in Seq(Region)
  PROVE  /\ Len(s) \in Nat /\ DOMAIN s = 1 .. Len(s)
         /\ \A i \in DOMAIN s : /\ i \in Nat /\ s[i] \in Region
                               /\ s[i].start \in Nat /\ s[i].end \in Nat
<1>1. \A i \in DOMAIN s : s[i] \in Region
  OBVIOUS
<1>2. QED
  BY <1>1, RegionIs

LEMMA AppendIs ==
  ASSUME NEW s \in Seq(Region), NEW r \in Region
  PROVE  /\ Append(s, r) \in Seq(Region) /\ Append(s, r) # <<>>
         /\ Len(Append(s, r)) = Len(s) + 1
         /\ \A i \in DOMAIN s : i \in DOMAIN Append(s, r) /\ Append(s, r)[i] = s[i]
         /\ Len(s) + 1 \in DOMAIN Append(s, r) /\ Append(s, r)[Len(s) + 1] = r
         /\ \A i \in DOMAIN Append(s, r) : i \in DOMAIN s \/ i = Len(s) + 1
OBVIOUS

LEMMA TailIs ==
  ASSUME NEW s \in Seq(Region), s # <<>>
  PROVE  /\ Tail(s) \in Seq(Region) /\ Head(s) \in Region /\ Head(s) = s[1] /\ 1 \in DOMAIN s
         /\ \A i \in DOMAIN Tail(s) : i + 1 \in DOMAIN s /\ Tail(s)[i] = s[i + 1]
         /\ \A i \in DOMAIN s : i = 1 \/ (i - 1 \in DOMAIN Tail(s) /\ s[i] = Tail(s)[i - 1])
<1>1. Len(s) \in Nat \ {0} /\ DOMAIN s = 1 .. Len(s)
  OBVIOUS
<1>2. Tail(s) \in Seq(Region) /\ Len(Tail(s)) = Len(s) - 1
  OBVIOUS
<1>3. \A i \in 1 .. Len(s) - 1 : Tail(s)[i] = s[i + 1]
  OBVIOUS
<1>4. Head(s) = s[1] /\ s[1] \in Region
  BY <1>1
<1>5. DOMAIN Tail(s) = 1 .. Len(s) - 1
  BY <1>1, <1>2
<1>6. QED
  BY <1>1, <1>2, <1>3, <1>4, <1>5

LEMMA LastReplaced ==
  ASSUME NEW s \in Seq(Region), s # <<>>, NEW r \in Region
  PROVE  LET t == Append(Front(s), r)
         IN  /\ t \in Seq(Region) /\ Len(t) = Len(s) /\ DOMAIN t = DOMAIN s
             /\ t[Len(s)] = r
             /\ \A i \in DOMAIN s : i # Len(s) => t[i] = s[i]
<1>1. Len(s) \in Nat \ {0} /\ DOMAIN s = 1 .. Len(s)
  OBVIOUS
<1>2. /\ Front(s) \in Seq(Region) /\ Len(Front(s)) = Len(s) - 1
      /\ \A i \in 1 .. Len(s) - 1 : Front(s)[i] = s[i]
  BY <1>1 DEF Front
<1> DEFINE f == Front(s)
<1> DEFINE t == Append(f, r)
<1>3. /\ f \in Seq(Region) /\ Len(f) + 1 = Len(s) /\ DOMAIN f = 1 .. Len(s) - 1
      /\ \A i \in 1 .. Len(s) - 1 : f[i] = s[i]
  <2>1. f \in Seq(Region) /\ Len(f) = Len(s) - 1
    BY <1>2
  <2>2. DOMAIN f = 1 .. Len(f)
    BY <2>1
  <2>3. QED
    BY <1>1, <1>2, <2>1, <2>2
<1> HIDE DEF f
<1>4. /\ t \in Seq(Region) /\ Len(t) = Len(s) /\ t[Len(s)] = r
      /\ \A i \in 1 .. Len(s) - 1 : t[i] = f[i]
  BY <1>3, AppendIs
<1>5. DOMAIN t = 1 .. Len(s)
  BY <1>4
<1>6. \A i \in DOMAIN s : i # Len(s) => i \in 1 .. Len(s) - 1
  BY <1>1
<1> HIDE DEF t
<1>7. /\ t \in Seq(Region) /\ Len(t) = Len(s) /\ DOMAIN t = DOMAIN s /\ t[Len(s)] = r
      /\ \A i \in DOMAIN s : i # Len(s) => t[i] = s[i]
  BY <1>1, <1>3, <1>4, <1>5, <1>6
<1>8. QED
  BY <1>7 DEF t, f

LEMMA InPlaces ==
  ASSUME NEW r \in Region
  PROVE  \A x : x \in Places(r) <=> (x \in Nat /\ r.start =< x /\ x < r.end)
BY RegionsAssumption DEF Places, Region

(* Seen as a set, a list of regions reaches the union of their places.     *)
LEMMA ReachedIsUnion ==
  ASSUME NEW s \in Seq(Region)
  PROVE  \A x : x \in UNION {Places(r) : r \in Range(s)} <=> (x \in Nat /\ Reached(s, x))
<1>1. \A r \in Range(s) : r \in Region
  BY DEF Range
<1>2. ASSUME NEW x, x \in UNION {Places(r) : r \in Range(s)}
      PROVE  x \in Nat /\ Reached(s, x)
  <2>1. PICK r \in Range(s) : x \in Places(r)
    BY <1>2
  <2>2. PICK i \in DOMAIN s : r = s[i]
    BY <2>1 DEF Range
  <2>3. QED
    BY <1>1, <2>1, <2>2, InPlaces DEF Reached
<1>3. ASSUME NEW x \in Nat, Reached(s, x)
      PROVE  x \in UNION {Places(r) : r \in Range(s)}
  <2>1. PICK i \in DOMAIN s : s[i].start =< x /\ x < s[i].end
    BY <1>3 DEF Reached
  <2>2. s[i] \in Range(s) /\ s[i] \in Region
    BY DEF Range
  <2>3. x \in Places(s[i])
    BY <2>1, <2>2, InPlaces
  <2>4. QED
    BY <2>2, <2>3
<1>4. QED
  BY <1>2, <1>3

(* Regions that are apart are the maximal runs of what they reach. *)
LEMMA ApartMeansRuns ==
  ASSUME NEW s \in Seq(Region), Solid(s), Apart(s), NEW S,
         S = UNION {Places(r) : r \in Range(s)}
  PROVE  Range(s) = Runs(S, Volume)
<1>1. \A x : x \in S <=> (x \in Nat /\ Reached(s, x))
  BY ReachedIsUnion
<1>2. \A i \in DOMAIN s : s[i] \in Region
  OBVIOUS
<1>3. DOMAIN s \subseteq Nat /\ Volume \in Nat
  BY RegionsAssumption
<1>4. ASSUME NEW i \in DOMAIN s PROVE s[i] \in Runs(S, Volume)
  <2> DEFINE r == s[i]
  <2>1. /\ r \in Region /\ r.start \in Nat /\ r.end \in Nat /\ r.start < r.end
        /\ \A j \in DOMAIN s : s[j].start \in Nat /\ s[j].end \in Nat /\ s[j].start < s[j].end
    BY <1>2, <1>3 DEF Solid, Region
  <2>2. ASSUME NEW x \in r.start .. r.end - 1 PROVE x \in S
    <3>1. x \in Nat /\ s[i].start =< x /\ x < s[i].end
      BY <2>1
    <3>2. QED
      BY <1>1, <3>1 DEF Reached
  <2>3. r.end \notin S
    <3> SUFFICES ASSUME NEW j \in DOMAIN s, s[j].start =< r.end, r.end < s[j].end
                 PROVE  FALSE
      BY <1>1 DEF Reached
    <3>1. CASE j = i
      BY <2>1, <3>1
    <3>2. CASE i < j
      BY <2>1, <3>2 DEF Apart
    <3>3. CASE j < i
      BY <2>1, <3>3 DEF Apart
    <3>4. QED
      BY <1>3, <3>1, <3>2, <3>3
  <2>4. r.start > 0 => r.start - 1 \notin S
    <3> SUFFICES ASSUME r.start > 0, NEW j \in DOMAIN s,
                        s[j].start =< r.start - 1, r.start - 1 < s[j].end
                 PROVE  FALSE
      BY <1>1 DEF Reached
    <3>1. CASE j = i
      BY <2>1, <3>1
    <3>2. CASE i < j
      BY <2>1, <3>2 DEF Apart
    <3>3. CASE j < i
      BY <2>1, <3>3 DEF Apart
    <3>4. QED
      BY <1>3, <3>1, <3>2, <3>3
  <2>5. IsRun(S, r)
    BY <2>1, <2>2, <2>3, <2>4 DEF IsRun
  <2>6. QED
    BY <2>1, <2>5 DEF Runs, Region
<1>5. ASSUME NEW r \in Runs(S, Volume) PROVE r \in Range(s)
  <2>1. r.start \in Nat /\ r.start \in Places(r) /\ r.start \in S
    BY <1>3, RunPlaces
  <2>2. PICK i \in DOMAIN s : s[i].start =< r.start /\ r.start < s[i].end
    BY <1>1, <2>1 DEF Reached
  <2>3. s[i] \in Runs(S, Volume) /\ r.start \in Places(s[i])
    BY <1>2, <1>4, <2>1, <2>2, InPlaces
  <2>4. r = s[i]
    BY <1>3, <2>1, <2>3, RunsApart
  <2>5. QED
    BY <2>4 DEF Range
<1>6. QED
  BY <1>4, <1>5 DEF Range

-----------------------------------------------------------------------------
(* The clusters lie one after the other behind the FATs, and the last one  *)
(* is cut at the end of the volume.                                        *)
LEMMA SystemRegionIs ==
  ASSUME NEW g \in Geometries
  PROVE  /\ SystemRegion(g) \in Region
         /\ SystemRegion(g).start = 0 /\ 0 < SystemRegion(g).end
         /\ DataStart(g) \in Nat /\ g.cluster \in Nat \ {0}
         /\ SystemRegion(g).end = DataStart(g) + g.cluster
<1>1. g \in Geometry /\ Volume \in Nat /\ SystemRegion(g).end =< Volume
  BY RegionsAssumption
<1>2. DataStart(g) \in Nat /\ g.cluster \in Nat \ {0}
  BY <1>1 DEF DataStart, Geometry
<1>3. SystemRegion(g).start = 0 /\ SystemRegion(g).end = DataStart(g) + g.cluster
  BY DEF SystemRegion
<1>4. QED
  BY <1>1, <1>2, <1>3 DEF Region, SystemRegion

LEMMA ClusterIs ==
  ASSUME NEW g \in Geometries, NEW c \in Nat, c >= 2
  PROVE  /\ ClusterStart(g, c) \in Nat
         /\ DataStart(g) =< ClusterStart(g, c)
         /\ c = 2 => ClusterStart(g, c) = DataStart(g)
         /\ c > 2 => DataStart(g) < ClusterStart(g, c)
         /\ ClusterStart(g, c + 1) = ClusterStart(g, c) + g.cluster
         /\ ClusterRegion(g, Volume, c).start = ClusterStart(g, c)
         /\ ClusterRegion(g, Volume, c).end =
              Least(ClusterStart(g, c) + g.cluster, Volume)
         /\ ClusterStart(g, c) < Volume =>
              /\ ClusterRegion(g, Volume, c) \in Region
              /\ ClusterStart(g, c) < ClusterRegion(g, Volume, c).end
<1>1. DataStart(g) \in Nat /\ g.cluster \in Nat \ {0} /\ Volume \in Nat
  BY SystemRegionIs, RegionsAssumption
<1>2. PICK k \in Nat : k = c - 2
  OBVIOUS
<1>3. k * g.cluster \in Nat /\ (k = 0 => k * g.cluster = 0) /\ (k > 0 => k * g.cluster > 0)
  BY <1>1
<1>4. (k + 1) * g.cluster = k * g.cluster + g.cluster
  BY <1>1
<1>5. ClusterStart(g, c) = DataStart(g) + k * g.cluster
  BY <1>2 DEF ClusterStart
<1>6. ClusterStart(g, c + 1) = DataStart(g) + (k + 1) * g.cluster
  <2>1. (c + 1) - 2 = k + 1
    BY <1>2
  <2>2. QED
    BY <2>1 DEF ClusterStart
<1> DEFINE product == k * g.cluster
<1> HIDE DEF product
<1>7. /\ ClusterStart(g, c) \in Nat
      /\ DataStart(g) =< ClusterStart(g, c)
      /\ c = 2 => ClusterStart(g, c) = DataStart(g)
      /\ c > 2 => DataStart(g) < ClusterStart(g, c)
      /\ ClusterStart(g, c + 1) = ClusterStart(g, c) + g.cluster
  <2>1. product \in Nat /\ (k = 0 => product = 0) /\ (k > 0 => product > 0)
    BY <1>3 DEF product
  <2>2. /\ ClusterStart(g, c) = DataStart(g) + product
        /\ ClusterStart(g, c + 1) = DataStart(g) + (product + g.cluster)
    BY <1>4, <1>5, <1>6 DEF product
  <2>3. QED
    BY <1>1, <1>2, <2>1, <2>2
<1>8. /\ ClusterRegion(g, Volume, c).start = ClusterStart(g, c)
      /\ ClusterRegion(g, Volume, c).end = Least(ClusterStart(g, c) + g.cluster, Volume)
      /\ ClusterRegion(g, Volume, c) =
           [start |-> ClusterStart(g, c), end |-> Least(ClusterStart(g, c) + g.cluster, Volume)]
  BY DEF ClusterRegion
<1>9. ASSUME ClusterStart(g, c) < Volume
      PROVE  /\ ClusterRegion(g, Volume, c) \in Region
             /\ ClusterStart(g, c) < ClusterRegion(g, Volume, c).end
  <2>1. /\ Least(ClusterStart(g, c) + g.cluster, Volume) \in 0 .. Volume
        /\ ClusterStart(g, c) < Least(ClusterStart(g, c) + g.cluster, Volume)
        /\ ClusterStart(g, c) \in 0 .. Volume
    BY <1>1, <1>7, <1>9 DEF Least
  <2>2. QED
    BY <1>8, <2>1 DEF Region
<1>10. QED
  BY <1>7, <1>8, <1>9

LEMMA MaxClusterIsInt ==
  ASSUME NEW g \in Geometries
  PROVE  MaxCluster(g, Volume) \in Int
<1>1. /\ DataStart(g) \in Nat /\ g.cluster \in Nat \ {0} /\ Volume \in Nat
      /\ g.fatSize \in Nat /\ EntriesPerSector \in Nat
  BY SystemRegionIs, RegionsAssumption, Fat32Constants DEF Geometry
<1>2. g.fatSize * EntriesPerSector \in Nat
  BY <1>1
<1>3. (Volume - DataStart(g)) \div g.cluster \in Int
  BY <1>1
<1>4. QED
  BY <1>2, <1>3 DEF MaxCluster, Least

(* What the scan owes at its end is what the operator Covered names.       *)
LEMMA CoveredIsDue ==
  ASSUME TypeOK
  PROVE  \A x : x \in Covered(geometry, Volume, Allocated) <=>
                  x \in Nat /\ Due(geometry, fat, MaxCluster(geometry, Volume), x)
<1> DEFINE n == MaxCluster(geometry, Volume)
<1>1. /\ geometry \in Geometries /\ Volume \in Nat /\ n \in Int
      /\ DOMAIN fat = 2 .. n - 1
  BY RegionsAssumption, MaxClusterIsInt DEF TypeOK, Clusters
<1> HIDE DEF n
<1>2. \A x : x \in Places(SystemRegion(geometry)) <=>
               x \in Nat /\ x < SystemRegion(geometry).end
  BY <1>1, SystemRegionIs, InPlaces
<1>3. ASSUME NEW c \in 2 .. n - 1
      PROVE  \A x : x \in Places(ClusterRegion(geometry, Volume, c)) <=>
                      /\ x \in Nat /\ ClusterStart(geometry, c) =< x
                      /\ x < ClusterRegion(geometry, Volume, c).end
  <2>1. c \in Nat /\ c >= 2
    BY <1>1
  <2>2. /\ ClusterRegion(geometry, Volume, c).start = ClusterStart(geometry, c)
        /\ ClusterRegion(geometry, Volume, c).end \in Nat
    <3>1. ClusterStart(geometry, c) \in Nat /\ geometry.cluster \in Nat
      BY <1>1, <2>1, ClusterIs, SystemRegionIs
    <3>2. /\ ClusterRegion(geometry, Volume, c).start = ClusterStart(geometry, c)
          /\ ClusterRegion(geometry, Volume, c).end =
               Least(ClusterStart(geometry, c) + geometry.cluster, Volume)
      BY <1>1, <2>1, ClusterIs
    <3>3. QED
      BY <1>1, <3>1, <3>2 DEF Least
  <2>3. QED
    BY <2>2 DEF Places
<1>4. \A x : x \in Covered(geometry, Volume, Allocated) <=>
               \/ x \in Places(SystemRegion(geometry))
               \/ \E c \in Allocated \cap (2 .. n - 1) :
                    x \in Places(ClusterRegion(geometry, Volume, c))
  BY DEF Covered, n
<1>5. \A c : c \in Allocated <=> c \in DOMAIN fat /\ InUse(fat[c])
  BY DEF Allocated
<1>6. QED
  BY <1>2, <1>3, <1>4, <1>5 DEF Due, n

-----------------------------------------------------------------------------
(* While the FAT is scanned the regions found are in order already: the    *)
(* system region starts at 0, and every cluster lies behind the ones       *)
(* before it.                                                              *)
FoundInv ==
  pc \in {"scan", "sort"} =>
    /\ regions # <<>> /\ Solid(regions) /\ InOrder(regions)
    /\ cluster_idx = 2 => regions = <<SystemRegion(geometry)>>
    /\ cluster_idx > 2 =>
         \A i \in DOMAIN regions : regions[i].start < ClusterStart(geometry, cluster_idx)
    /\ \A x \in Nat : Reached(regions, x) <=> Due(geometry, fat, cluster_idx, x)
    /\ pc = "sort" => cluster_idx >= MaxCluster(geometry, Volume)

(* While regions are merged, what is merged is apart, what is still to     *)
(* merge begins behind it or in its last region, and nothing is lost.      *)
MergeInv ==
  pc \in {"merge", "done"} =>
    /\ merged # <<>> /\ Solid(merged) /\ Apart(merged)
    /\ Solid(regions)
    /\ \A i, j \in DOMAIN regions : i < j => regions[i].start =< regions[j].start
    /\ \A i \in DOMAIN regions : Last(merged).start =< regions[i].start
    /\ \A x \in Nat : Reached(merged, x) \/ Reached(regions, x) <=>
                        Due(geometry, fat, MaxCluster(geometry, Volume), x)
    /\ pc = "done" => regions = <<>>

RegionsInv == TypeOK /\ FoundInv /\ MergeInv

-----------------------------------------------------------------------------
LEMMA InitRegions == Init => RegionsInv
<1> SUFFICES ASSUME Init PROVE RegionsInv
  OBVIOUS
<1>1. /\ geometry \in Geometries /\ SystemRegion(geometry) \in Region
      /\ SystemRegion(geometry).start = 0 /\ 0 < SystemRegion(geometry).end
  BY SystemRegionIs DEF Init
<1>2. /\ regions = <<SystemRegion(geometry)>> /\ regions \in Seq(Region)
      /\ DOMAIN regions = {1} /\ regions[1] = SystemRegion(geometry) /\ regions # <<>>
  BY <1>1 DEF Init
<1>3. TypeOK
  BY <1>1, <1>2 DEF Init, TypeOK
<1>4. \A x \in Nat : Reached(regions, x) <=> Due(geometry, fat, cluster_idx, x)
  <2>1. \A x \in Nat : Reached(regions, x) <=> x < SystemRegion(geometry).end
    BY <1>1, <1>2 DEF Reached
  <2>2. 2 .. cluster_idx - 1 = {}
    BY DEF Init
  <2>3. QED
    BY <2>1, <2>2 DEF Due
<1>5. FoundInv
  BY <1>1, <1>2, <1>4 DEF Init, FoundInv, Solid, InOrder
<1>6. QED
  BY <1>3, <1>5 DEF Init, RegionsInv, MergeInv

(* A cluster in use is found, in its place in the order. *)
LEMMA ScanKeeps ==
  ASSUME RegionsInv, ScanCluster
  PROVE  RegionsInv'
<1> DEFINE c == cluster_idx
<1> DEFINE r == ClusterRegion(geometry, Volume, c)
<1> DEFINE found == InUse(fat[c]) /\ ClusterStart(geometry, c) < Volume
<1>1. /\ pc = "scan" /\ UNCHANGED <<geometry, fat, pc, merged>> /\ c < MaxCluster(geometry, Volume)
      /\ cluster_idx' = c + 1
      /\ regions' = IF found THEN Append(regions, r) ELSE regions
  BY DEF ScanCluster
<1>2. /\ geometry \in Geometries /\ regions \in Seq(Region) /\ merged \in Seq(Region)
      /\ fat \in [Clusters(geometry) -> Entries] /\ MaxCluster(geometry, Volume) \in Int
      /\ Volume \in Nat
  BY MaxClusterIsInt, RegionsAssumption DEF RegionsInv, TypeOK
<1>3. c \in Nat /\ c >= 2 /\ c \in DOMAIN fat
  BY <1>1, <1>2 DEF RegionsInv, TypeOK, Clusters
<1>4. /\ regions # <<>> /\ Solid(regions) /\ InOrder(regions)
      /\ c = 2 => regions = <<SystemRegion(geometry)>>
      /\ c > 2 => \A i \in DOMAIN regions : regions[i].start < ClusterStart(geometry, c)
      /\ \A x \in Nat : Reached(regions, x) <=> Due(geometry, fat, c, x)
  BY <1>1 DEF RegionsInv, FoundInv
<1>5. /\ r.start = ClusterStart(geometry, c)
      /\ r.end = Least(ClusterStart(geometry, c) + geometry.cluster, Volume)
      /\ found => r \in Region /\ r.start < r.end
      /\ ClusterStart(geometry, c) \in Nat /\ DataStart(geometry) =< ClusterStart(geometry, c)
      /\ c = 2 => ClusterStart(geometry, c) = DataStart(geometry)
      /\ ClusterStart(geometry, c + 1) = ClusterStart(geometry, c) + geometry.cluster
      /\ geometry.cluster \in Nat \ {0} /\ DataStart(geometry) \in Nat
  BY <1>2, <1>3, ClusterIs, SystemRegionIs
<1>6. /\ SystemRegion(geometry).start = 0
      /\ SystemRegion(geometry).end = DataStart(geometry) + geometry.cluster
      /\ SystemRegion(geometry).end =< Volume
  BY <1>2, SystemRegionIs, RegionsAssumption
<1> HIDE DEF r, found, c
<1>7. /\ regions' \in Seq(Region) /\ regions' # <<>>
      /\ \A i \in DOMAIN regions : i \in DOMAIN regions' /\ regions'[i] = regions[i]
      /\ found => /\ Len(regions) + 1 \in DOMAIN regions' /\ regions'[Len(regions) + 1] = r
                  /\ \A i \in DOMAIN regions' : i \in DOMAIN regions \/ i = Len(regions) + 1
      /\ ~found => regions' = regions
  <2>1. CASE found
    <3>1. regions' = Append(regions, r) /\ r \in Region
      BY <1>1, <1>5, <2>1
    <3>2. QED
      BY <1>2, <2>1, <3>1, AppendIs
  <2>2. CASE ~found
    BY <1>1, <1>2, <1>4, <2>2
  <2>3. QED
    BY <2>1, <2>2
<1>8. TypeOK'
  <2>1. cluster_idx' \in {2} \cup 2 .. MaxCluster(geometry, Volume)
    BY <1>1, <1>2, <1>3
  <2>2. QED
    BY <1>1, <1>2, <1>7, <2>1 DEF RegionsInv, TypeOK
<1>9. \A i \in DOMAIN regions : regions[i].start < ClusterStart(geometry, c + 1)
  <2>1. CASE c = 2
    <3>1. \A i \in DOMAIN regions : regions[i] = SystemRegion(geometry)
      BY <1>4, <2>1
    <3>2. QED
      BY <1>5, <1>6, <3>1
  <2>2. CASE c > 2
    <3>1. \A i \in DOMAIN regions :
             regions[i].start \in Nat /\ regions[i].start < ClusterStart(geometry, c)
      BY <1>2, <1>4, <2>2, ListIs
    <3>2. QED
      BY <1>5, <3>1
  <2>3. QED
    BY <1>3, <2>1, <2>2
<1>10. \A i \in DOMAIN regions' : regions'[i].start < ClusterStart(geometry, c + 1)
  BY <1>5, <1>7, <1>9 DEF found
<1>11. Solid(regions')
  BY <1>4, <1>5, <1>7 DEF Solid
<1>12. found => \A i \in DOMAIN regions : ~Precedes(r, regions[i])
  <2> SUFFICES ASSUME found, NEW i \in DOMAIN regions
               PROVE  ~Precedes(r, regions[i])
    OBVIOUS
  <2>1. CASE c = 2
    <3>1. regions[i] = SystemRegion(geometry)
      BY <1>4, <2>1
    <3>2. r.start = DataStart(geometry)
      BY <1>5, <2>1
    <3>3. r.start = 0 => r.end = SystemRegion(geometry).end
      BY <1>2, <1>5, <1>6, <3>2 DEF Least
    <3>4. QED
      BY <1>5, <1>6, <3>1, <3>2, <3>3 DEF Precedes
  <2>2. CASE c > 2
    <3>1. regions[i].start \in Nat /\ regions[i].start < r.start /\ r.start \in Nat
      BY <1>2, <1>4, <1>5, <2>2, ListIs
    <3>2. QED
      BY <3>1 DEF Precedes
  <2>3. QED
    BY <1>3, <2>1, <2>2
<1>13. InOrder(regions')
  <2>1. CASE ~found
    BY <1>4, <1>7, <2>1
  <2>2. CASE found
    <3> SUFFICES ASSUME NEW i \in DOMAIN regions', NEW j \in DOMAIN regions', i < j
                 PROVE  ~Precedes(regions'[j], regions'[i])
      BY DEF InOrder
    <3>1. i \in DOMAIN regions
      <4>1. DOMAIN regions = 1 .. Len(regions) /\ Len(regions) \in Nat
        BY <1>2
      <4>2. QED
        BY <1>7, <2>2, <4>1
    <3>2. CASE j \in DOMAIN regions
      BY <1>4, <1>7, <3>1, <3>2 DEF InOrder
    <3>3. CASE j = Len(regions) + 1
      BY <1>7, <1>12, <2>2, <3>1, <3>3
    <3>4. QED
      BY <1>7, <2>2, <3>2, <3>3
  <2>3. QED
    BY <2>1, <2>2
<1>14. ASSUME NEW x \in Nat
       PROVE  Reached(regions', x) <=> Due(geometry, fat, c + 1, x)
  <2>1. Reached(regions', x) <=> Reached(regions, x) \/ (found /\ r.start =< x /\ x < r.end)
    BY <1>7 DEF Reached
  <2>2. 2 .. (c + 1) - 1 = (2 .. c - 1) \cup {c}
    BY <1>3
  <2>3. Due(geometry, fat, c + 1, x) <=>
          \/ Due(geometry, fat, c, x)
          \/ /\ c \in DOMAIN fat /\ InUse(fat[c])
             /\ ClusterStart(geometry, c) =< x /\ x < r.end
    BY <2>2 DEF Due, r
  <2>4. x < r.end /\ ClusterStart(geometry, c) =< x => ClusterStart(geometry, c) < Volume
    BY <1>2, <1>5 DEF Least
  <2>5. QED
    BY <1>3, <1>4, <1>5, <2>1, <2>3, <2>4 DEF found
<1>15. FoundInv'
  <2>1. cluster_idx' = c + 1 /\ c + 1 # 2 /\ pc' = "scan"
    BY <1>1, <1>3
  <2>2. QED
    BY <1>1, <1>7, <1>10, <1>11, <1>13, <1>14, <2>1 DEF FoundInv
<1>16. MergeInv'
  BY <1>1 DEF MergeInv
<1>17. QED
  BY <1>8, <1>15, <1>16 DEF RegionsInv

LEMMA EndOfScanKeeps ==
  ASSUME RegionsInv, EndOfScan
  PROVE  RegionsInv'
<1>1. /\ pc = "scan" /\ pc' = "sort" /\ cluster_idx >= MaxCluster(geometry, Volume)
      /\ UNCHANGED <<geometry, fat, cluster_idx, regions, merged>>
  BY DEF EndOfScan
<1>2. TypeOK'
  BY <1>1 DEF RegionsInv, TypeOK
<1>3. FoundInv'
  BY <1>1 DEF RegionsInv, FoundInv
<1>4. QED
  BY <1>1, <1>2, <1>3 DEF RegionsInv, MergeInv

-----------------------------------------------------------------------------
(* Sorting what is in order already gives a list in order with the same    *)
(* regions: the list itself is one of those the sort may choose.           *)
LEMMA SortedIs ==
  ASSUME NEW s \in Seq(Region), InOrder(s)
  PROVE  /\ Sorted(s) \in Seq(Region) /\ DOMAIN Sorted(s) = DOMAIN s
         /\ InOrder(Sorted(s))
         /\ \A i \in DOMAIN s : \E j \in DOMAIN s : Sorted(s)[i] = s[j]
         /\ \A j \in DOMAIN s : \E i \in DOMAIN s : Sorted(s)[i] = s[j]
<1> DEFINE same == [i \in DOMAIN s |-> i]
<1>1. same \in Bijection(DOMAIN s, DOMAIN s)
  BY DEF Bijection, Injection, Surjection, IsInjective
<1>2. s = [i \in DOMAIN s |-> s[same[i]]]
  OBVIOUS
<1>3. s \in Rearranged(s)
  BY <1>1, <1>2 DEF Rearranged
<1>4. Sorted(s) \in Rearranged(s) /\ InOrder(Sorted(s))
  BY <1>3 DEF Sorted
<1>5. PICK p \in Bijection(DOMAIN s, DOMAIN s) : Sorted(s) = [i \in DOMAIN s |-> s[p[i]]]
  BY <1>4 DEF Rearranged
<1>6. /\ \A i \in DOMAIN s : p[i] \in DOMAIN s
      /\ \A j \in DOMAIN s : \E i \in DOMAIN s : p[i] = j
  BY <1>5 DEF Bijection, Injection, Surjection
<1>7. Sorted(s) \in Seq(Region)
  <2>1. Len(s) \in Nat /\ DOMAIN s = 1 .. Len(s)
    OBVIOUS
  <2>2. Sorted(s) \in [1 .. Len(s) -> Region]
    BY <1>5, <1>6, <2>1
  <2>3. QED
    BY <2>1, <2>2
<1>8. DOMAIN Sorted(s) = DOMAIN s /\ \A i \in DOMAIN s : Sorted(s)[i] = s[p[i]]
  BY <1>5
<1>9. /\ \A i \in DOMAIN s : \E j \in DOMAIN s : Sorted(s)[i] = s[j]
      /\ \A j \in DOMAIN s : \E i \in DOMAIN s : Sorted(s)[i] = s[j]
  BY <1>6, <1>8
<1>10. QED
  BY <1>4, <1>7, <1>8, <1>9

LEMMA SortKeeps ==
  ASSUME RegionsInv, SortRegions
  PROVE  RegionsInv'
<1> DEFINE t == Sorted(regions)
<1>1. /\ pc = "sort" /\ pc' = "merge" /\ UNCHANGED <<geometry, fat, cluster_idx>>
      /\ merged' = <<Head(t)>> /\ regions' = Tail(t)
  BY DEF SortRegions
<1>2. /\ regions \in Seq(Region) /\ regions # <<>> /\ Solid(regions) /\ InOrder(regions)
      /\ \A x \in Nat : Reached(regions, x) <=> Due(geometry, fat, cluster_idx, x)
      /\ cluster_idx >= MaxCluster(geometry, Volume)
      /\ geometry \in Geometries /\ MaxCluster(geometry, Volume) \in Int
      /\ cluster_idx \in Int
      /\ cluster_idx = 2 \/ cluster_idx =< MaxCluster(geometry, Volume)
  BY <1>1, MaxClusterIsInt DEF RegionsInv, TypeOK, FoundInv
<1>3. /\ t \in Seq(Region) /\ DOMAIN t = DOMAIN regions /\ InOrder(t)
      /\ \A i \in DOMAIN regions : \E j \in DOMAIN regions : t[i] = regions[j]
      /\ \A j \in DOMAIN regions : \E i \in DOMAIN regions : t[i] = regions[j]
  BY <1>2, SortedIs
<1> HIDE DEF t
<1>4. t # <<>>
  <2>1. 1 \in DOMAIN t
    BY <1>2, <1>3
  <2>2. QED
    BY <2>1
<1>5. /\ Tail(t) \in Seq(Region) /\ Head(t) \in Region /\ Head(t) = t[1] /\ 1 \in DOMAIN t
      /\ \A i \in DOMAIN Tail(t) : i + 1 \in DOMAIN t /\ Tail(t)[i] = t[i + 1]
      /\ \A i \in DOMAIN t : i = 1 \/ (i - 1 \in DOMAIN Tail(t) /\ t[i] = Tail(t)[i - 1])
  BY <1>3, <1>4, TailIs
<1>6. /\ merged' \in Seq(Region) /\ merged' # <<>> /\ DOMAIN merged' = {1}
      /\ merged'[1] = t[1] /\ Last(merged') = t[1]
  BY <1>1, <1>5 DEF Last
<1>7. TypeOK'
  BY <1>1, <1>5, <1>6 DEF RegionsInv, TypeOK
<1>8. /\ \A i \in DOMAIN t : t[i].start < t[i].end /\ t[i].start \in Nat /\ i \in Nat
      /\ \A i, j \in DOMAIN t : i < j => t[i].start =< t[j].start
  <2>1. \A i \in DOMAIN t : t[i].start < t[i].end /\ t[i].start \in Nat /\ i \in Nat
    BY <1>2, <1>3, ListIs DEF Solid
  <2>2. ASSUME NEW i \in DOMAIN t, NEW j \in DOMAIN t, i < j
        PROVE  t[i].start =< t[j].start
    <3>1. ~Precedes(t[j], t[i])
      BY <1>3, <2>2 DEF InOrder
    <3>2. ~(t[j].start < t[i].start)
      BY <3>1 DEF Precedes
    <3>3. QED
      BY <2>1, <3>2
  <2>3. QED
    BY <2>1, <2>2
<1>9. /\ Solid(merged') /\ Apart(merged') /\ Solid(regions')
      /\ \A i, j \in DOMAIN regions' : i < j => regions'[i].start =< regions'[j].start
      /\ \A i \in DOMAIN regions' : Last(merged').start =< regions'[i].start
  <2>1. Solid(merged') /\ Apart(merged')
    BY <1>5, <1>6, <1>8 DEF Solid, Apart
  <2>2. Solid(regions')
    BY <1>1, <1>5, <1>8 DEF Solid
  <2>3. \A i \in DOMAIN Tail(t) : i \in Nat /\ 1 < i + 1
    BY <1>5, ListIs
  <2>4. \A i, j \in DOMAIN regions' : i < j => regions'[i].start =< regions'[j].start
    <3>1. \A i, j \in DOMAIN Tail(t) : i < j => i + 1 < j + 1
      BY <2>3
    <3>2. QED
      BY <1>1, <1>5, <1>8, <3>1
  <2>5. \A i \in DOMAIN regions' : Last(merged').start =< regions'[i].start
    BY <1>1, <1>5, <1>6, <1>8, <2>3
  <2>6. QED
    BY <2>1, <2>2, <2>4, <2>5
<1>10. ASSUME NEW x \in Nat
       PROVE  Reached(merged', x) \/ Reached(regions', x) <=>
                Due(geometry, fat, MaxCluster(geometry, Volume), x)
  <2>1. Reached(merged', x) \/ Reached(regions', x) <=> Reached(t, x)
    BY <1>1, <1>5, <1>6 DEF Reached
  <2>2. Reached(t, x) <=> Reached(regions, x)
    BY <1>3 DEF Reached
  <2>3. 2 .. cluster_idx - 1 = 2 .. MaxCluster(geometry, Volume) - 1
    BY <1>2
  <2>4. QED
    BY <1>2, <2>1, <2>2, <2>3 DEF Due
<1>11. MergeInv'
  BY <1>1, <1>6, <1>9, <1>10 DEF MergeInv
<1>12. QED
  BY <1>1, <1>7, <1>11 DEF RegionsInv, FoundInv

-----------------------------------------------------------------------------
(* A region that starts behind the last merged one is appended; any other  *)
(* is taken up by it.                                                      *)
LEMMA MergeKeeps ==
  ASSUME RegionsInv, MergeRegion
  PROVE  RegionsInv'
<1> DEFINE last == Last(merged)
<1> DEFINE r == Head(regions)
<1> DEFINE n == Len(merged)
<1>1. /\ pc = "merge" /\ regions # <<>> /\ UNCHANGED <<geometry, fat, pc, cluster_idx>>
      /\ merged' = IF Joins(last, r) THEN Append(Front(merged), Extended(last, r))
                                     ELSE Append(merged, r)
      /\ regions' = Tail(regions)
  BY DEF MergeRegion
<1>2. /\ regions \in Seq(Region) /\ merged \in Seq(Region)
      /\ merged # <<>> /\ Solid(merged) /\ Apart(merged) /\ Solid(regions)
      /\ \A i, j \in DOMAIN regions : i < j => regions[i].start =< regions[j].start
      /\ \A i \in DOMAIN regions : last.start =< regions[i].start
      /\ \A x \in Nat : Reached(merged, x) \/ Reached(regions, x) <=>
                          Due(geometry, fat, MaxCluster(geometry, Volume), x)
  BY <1>1 DEF RegionsInv, TypeOK, MergeInv
<1>3. /\ Tail(regions) \in Seq(Region) /\ r \in Region /\ r = regions[1] /\ 1 \in DOMAIN regions
      /\ \A i \in DOMAIN Tail(regions) : i + 1 \in DOMAIN regions /\ Tail(regions)[i] = regions[i + 1]
      /\ \A i \in DOMAIN regions :
           i = 1 \/ (i - 1 \in DOMAIN Tail(regions) /\ regions[i] = Tail(regions)[i - 1])
  BY <1>1, <1>2, TailIs
<1>4. n \in DOMAIN merged /\ n \in Nat /\ DOMAIN merged = 1 .. n /\ last = merged[n] /\ last \in Region
  <2>1. n \in Nat \ {0} /\ DOMAIN merged = 1 .. n
    BY <1>2
  <2>2. QED
    BY <1>2, <2>1, ListIs DEF Last
<1>5. /\ last.start \in Nat /\ last.end \in Nat /\ r.start \in Nat /\ r.end \in Nat
      /\ last.start < last.end /\ r.start < r.end /\ last.start =< r.start
  BY <1>2, <1>3, <1>4, RegionIs DEF Solid
<1>6. \A i \in DOMAIN merged : merged[i].start \in Nat /\ merged[i].end \in Nat /\ i \in Nat
  BY <1>2, ListIs
<1> HIDE DEF last, r, n
(* Whatever becomes of the merged list, the rest of the regions is left.   *)
<1>7. /\ Solid(regions')
      /\ \A i, j \in DOMAIN regions' : i < j => regions'[i].start =< regions'[j].start
      /\ \A i \in DOMAIN regions' : r.start =< regions'[i].start
  <2>1. \A i \in DOMAIN Tail(regions) : i \in Nat /\ 1 < i + 1
    BY <1>3, ListIs
  <2>2. \A i, j \in DOMAIN Tail(regions) : i < j => i + 1 < j + 1
    BY <2>1
  <2>3. QED
    BY <1>1, <1>2, <1>3, <2>1, <2>2 DEF Solid
<1>8. \A x \in Nat : Reached(regions, x) <=> (r.start =< x /\ x < r.end) \/ Reached(regions', x)
  BY <1>1, <1>3 DEF Reached
<1>9. CASE Joins(last, r)
  <2> DEFINE e == Extended(last, r)
  <2>1. /\ e.start = last.start /\ e \in Region
        /\ e.end = IF last.end < r.end THEN r.end ELSE last.end
    BY <1>3, <1>4 DEF Extended, Region
  <2>2. r.start =< last.end
    BY <1>9 DEF Joins
  <2>3. /\ merged' \in Seq(Region) /\ DOMAIN merged' = DOMAIN merged /\ Len(merged') = n
        /\ merged'[n] = e
        /\ \A i \in DOMAIN merged : i # n => merged'[i] = merged[i]
    <3>1. merged' = Append(Front(merged), e)
      BY <1>1, <1>9
    <3> HIDE DEF e
    <3>2. QED
      BY <1>2, <2>1, <3>1, LastReplaced DEF n
  <2> HIDE DEF e
  <2>4. Last(merged') = e /\ merged' # <<>>
    BY <1>4, <2>3 DEF Last
  <2>5. e.start \in Nat /\ e.end \in Nat /\ e.start < e.end
    BY <1>5, <2>1
  <2>6. Solid(merged')
    BY <1>2, <2>3, <2>5 DEF Solid
  <2>7. Apart(merged')
    <3> SUFFICES ASSUME NEW i \in DOMAIN merged, NEW j \in DOMAIN merged, i < j
                 PROVE  merged'[i].end < merged'[j].start
      BY <2>3 DEF Apart
    <3>1. i # n /\ merged'[i] = merged[i]
      BY <1>4, <2>3
    <3>2. merged'[j].start = merged[j].start
      BY <1>4, <2>1, <2>3
    <3>3. QED
      BY <1>2, <3>1, <3>2 DEF Apart
  <2>8. \A x \in Nat : Reached(merged', x) <=>
                         Reached(merged, x) \/ (r.start =< x /\ x < r.end)
    <3>1. ASSUME NEW x \in Nat
          PROVE  (e.start =< x /\ x < e.end) <=>
                   (last.start =< x /\ x < last.end) \/ (r.start =< x /\ x < r.end)
      BY <1>5, <2>1, <2>2
    <3>2. QED
      BY <1>4, <2>3, <3>1 DEF Reached
  <2>9. \A i \in DOMAIN regions' : Last(merged').start =< regions'[i].start
    <3>1. \A i \in DOMAIN regions' : regions'[i].start \in Nat
      BY <1>1, <1>3, ListIs
    <3>2. QED
      BY <1>5, <1>7, <2>1, <2>4, <3>1
  <2>10. MergeInv'
    <3>1. \A x \in Nat : Reached(merged', x) \/ Reached(regions', x) <=>
                           Due(geometry, fat, MaxCluster(geometry, Volume), x)
      BY <1>2, <1>8, <2>8
    <3>2. QED
      BY <1>1, <1>7, <2>4, <2>6, <2>7, <2>9, <3>1 DEF MergeInv
  <2>11. TypeOK'
    BY <1>1, <1>3, <2>3 DEF RegionsInv, TypeOK
  <2>12. QED
    BY <1>1, <2>10, <2>11 DEF RegionsInv, FoundInv
<1>10. CASE ~Joins(last, r)
  <2>1. last.end < r.start
    BY <1>5, <1>10 DEF Joins
  <2>2. /\ merged' \in Seq(Region) /\ merged' # <<>> /\ Len(merged') = n + 1
        /\ \A i \in DOMAIN merged : i \in DOMAIN merged' /\ merged'[i] = merged[i]
        /\ n + 1 \in DOMAIN merged' /\ merged'[n + 1] = r
        /\ \A i \in DOMAIN merged' : i \in DOMAIN merged \/ i = n + 1
    <3>1. merged' = Append(merged, r)
      BY <1>1, <1>10
    <3>2. QED
      BY <1>2, <1>3, <3>1, AppendIs DEF n
  <2>3. Last(merged') = r
    BY <2>2 DEF Last
  <2>4. Solid(merged')
    BY <1>2, <1>5, <2>2 DEF Solid
  <2>5. Apart(merged')
    <3> SUFFICES ASSUME NEW i \in DOMAIN merged', NEW j \in DOMAIN merged', i < j
                 PROVE  merged'[i].end < merged'[j].start
      BY DEF Apart
    <3>1. i \in DOMAIN merged
      BY <1>4, <2>2
    <3>2. CASE j \in DOMAIN merged
      BY <1>2, <2>2, <3>1, <3>2 DEF Apart
    <3>3. CASE j = n + 1
      <4>1. CASE i = n
        BY <1>4, <2>1, <2>2, <3>3, <4>1
      <4>2. CASE i # n
        <5>1. i < n
          BY <1>4, <3>1, <4>2
        <5>2. merged[i].end < last.start
          BY <1>2, <1>4, <3>1, <5>1 DEF Apart
        <5>3. QED
          BY <1>5, <1>6, <2>2, <3>1, <3>3, <5>2
      <4>3. QED
        BY <4>1, <4>2
    <3>4. QED
      BY <2>2, <3>2, <3>3
  <2>6. \A x \in Nat : Reached(merged', x) <=>
                         Reached(merged, x) \/ (r.start =< x /\ x < r.end)
    BY <2>2 DEF Reached
  <2>7. MergeInv'
    <3>1. \A x \in Nat : Reached(merged', x) \/ Reached(regions', x) <=>
                           Due(geometry, fat, MaxCluster(geometry, Volume), x)
      BY <1>2, <1>8, <2>6
    <3>2. QED
      BY <1>1, <1>7, <2>2, <2>3, <2>4, <2>5, <3>1 DEF MergeInv
  <2>8. TypeOK'
    BY <1>1, <1>3, <2>2 DEF RegionsInv, TypeOK
  <2>9. QED
    BY <1>1, <2>7, <2>8 DEF RegionsInv, FoundInv
<1>11. QED
  BY <1>9, <1>10

LEMMA ReturnKeeps ==
  ASSUME RegionsInv, Return
  PROVE  RegionsInv'
<1>1. /\ pc = "merge" /\ pc' = "done" /\ regions = <<>>
      /\ UNCHANGED <<geometry, fat, cluster_idx, regions, merged>>
  BY DEF Return
<1>2. TypeOK'
  BY <1>1 DEF RegionsInv, TypeOK
<1>3. MergeInv'
  BY <1>1 DEF RegionsInv, MergeInv
<1>4. QED
  BY <1>1, <1>2, <1>3 DEF RegionsInv, FoundInv

LEMMA RegionsInvInductive == Spec => []RegionsInv
<1>1. RegionsInv /\ [Next]_vars => RegionsInv'
  <2> SUFFICES ASSUME RegionsInv, [Next]_vars PROVE RegionsInv'
    OBVIOUS
  <2>1. CASE UNCHANGED vars
    BY <2>1 DEF vars, RegionsInv, TypeOK, FoundInv, MergeInv
  <2>2. QED
    BY <2>1, ScanKeeps, EndOfScanKeeps, SortKeeps, MergeKeeps, ReturnKeeps DEF Next
<1>2. QED
  BY <1>1, InitRegions, PTL DEF Spec

-----------------------------------------------------------------------------
(* Type correctness: no region reaches past the end of the volume. *)
THEOREM RegionsTypes == Spec => []TypeOK
<1>1. RegionsInv => TypeOK
  BY DEF RegionsInv
<1>2. QED
  BY <1>1, RegionsInvInductive, PTL

(* At every step of the merge nothing in use is lost, and the merged       *)
(* regions are apart: "start <= merged[-1][1]" is enough, because the list *)
(* is in order.                                                            *)
THEOREM NothingLost == Spec => []MergeLosesNothing
<1>1. RegionsInv => MergeLosesNothing
  <2> SUFFICES ASSUME RegionsInv, pc \in {"merge", "done"} PROVE MergeLosesNothing
    BY DEF MergeLosesNothing
  <2>1. /\ TypeOK /\ merged \in Seq(Region) /\ regions \in Seq(Region) /\ Apart(merged)
        /\ \A x \in Nat : Reached(merged, x) \/ Reached(regions, x) <=>
                            Due(geometry, fat, MaxCluster(geometry, Volume), x)
    BY DEF RegionsInv, TypeOK, MergeInv
  <2>2. \A x : x \in UNION {Places(r) : r \in Range(merged) \cup Range(regions)} <=>
                 \/ x \in UNION {Places(r) : r \in Range(merged)}
                 \/ x \in UNION {Places(r) : r \in Range(regions)}
    OBVIOUS
  <2>3. /\ \A x : x \in UNION {Places(r) : r \in Range(merged)} <=> x \in Nat /\ Reached(merged, x)
        /\ \A x : x \in UNION {Places(r) : r \in Range(regions)} <=> x \in Nat /\ Reached(regions, x)
    BY <2>1, ReachedIsUnion
  <2>4. \A x : x \in Covered(geometry, Volume, Allocated) <=>
                 x \in Nat /\ Due(geometry, fat, MaxCluster(geometry, Volume), x)
    BY <2>1, CoveredIsDue
  <2>5. \A x : x \in UNION {Places(r) : r \in Range(merged) \cup Range(regions)} <=>
                 x \in Covered(geometry, Volume, Allocated)
    BY <2>1, <2>2, <2>3, <2>4
  <2>6. UNION {Places(r) : r \in Range(merged) \cup Range(regions)}
          = Covered(geometry, Volume, Allocated)
    BY <2>5
  <2>7. QED
    BY <2>1, <2>6 DEF MergeLosesNothing, Apart
<1>2. QED
  BY <1>1, RegionsInvInductive, PTL

(* What is returned are, in order, exactly the maximal runs of the sectors *)
(* in use: an encryption of the used space visits every sector in use and  *)
(* none twice.                                                             *)
THEOREM RunsAreReturned == Spec => []ReturnsTheRuns
<1>1. RegionsInv /\ MergeLosesNothing => ReturnsTheRuns
  <2> SUFFICES ASSUME RegionsInv, MergeLosesNothing, pc = "done" PROVE ReturnsTheRuns
    BY DEF ReturnsTheRuns
  <2>1. merged \in Seq(Region) /\ Solid(merged) /\ Apart(merged) /\ regions = <<>>
    BY DEF RegionsInv, TypeOK, MergeInv
  <2>2. Range(regions) = {}
    BY <2>1 DEF Range
  <2>3. Range(merged) \cup Range(regions) = Range(merged)
    BY <2>2
  <2>4. UNION {Places(r) : r \in Range(merged)} = Covered(geometry, Volume, Allocated)
    BY <2>3 DEF MergeLosesNothing
  <2>5. Range(merged) = Runs(Covered(geometry, Volume, Allocated), Volume)
    BY <2>1, <2>4, ApartMeansRuns
  <2>6. QED
    BY <2>1, <2>5 DEF ReturnsTheRuns, Apart
<1>2. QED
  BY <1>1, NothingLost, RegionsInvInductive, PTL
=============================================================================
