----------------------------- MODULE LayoutPlan -----------------------------
(***************************************************************************)
(* _calculate_layout as a step: a volume of some size and sector size is   *)
(* given, and the layout of its structures is returned.                    *)
(***************************************************************************)
EXTENDS Layout

CONSTANTS
  VolumeSizes,    \* the volume sizes a caller may pass
  SectorSizes     \* the sector sizes a BPB may state

VARIABLES volume, sector, layout

vars == <<volume, sector, layout>>

None == [header_size |-> 0, metadata_offsets |-> <<0, 0, 0>>,
         volume_header_offset |-> 0]

Init ==
  /\ volume \in VolumeSizes
  /\ sector \in SectorSizes
  /\ layout = None

CalculateLayout ==
  /\ layout = None
  /\ layout' = [header_size |-> HeaderSize(sector),
                metadata_offsets |-> [j \in Copies |-> MetadataOffset(volume, sector, j)],
                volume_header_offset |-> VolumeHeaderOffset(volume, sector)]
  /\ UNCHANGED <<volume, sector>>

Next == CalculateLayout

Spec == Init /\ [][Next]_vars

-----------------------------------------------------------------------------
(* The areas of a returned layout. *)
Block(j) == [start |-> layout.metadata_offsets[j],
             end   |-> layout.metadata_offsets[j] + BlockSize]
Backup == [start |-> layout.volume_header_offset,
           end   |-> layout.volume_header_offset + layout.header_size]
Header == [start |-> 0, end |-> layout.header_size]

Disjoint(a, b) == Before(a, b) \/ Before(b, a)

(* Writing one structure never destroys another: header, three blocks and  *)
(* the header's backup are pairwise disjoint and inside the volume, on     *)
(* every volume the layout is meant for (encryptor.py:79 "Ensure metadata  *)
(* fits within the volume").                                               *)
StructuresDisjoint ==
  layout # None /\ LayoutFits(volume, sector) =>
    /\ \A j \in Copies : /\ Disjoint(Block(j), Header)
                         /\ Disjoint(Block(j), Backup)
                         /\ Block(j).end =< volume
    /\ \A j, k \in Copies : j # k => Disjoint(Block(j), Block(k))
    /\ Disjoint(Backup, Header)
    /\ Backup.end =< volume

(* Every structure starts on a sector: the cipher numbers sectors by       *)
(* offset \div sector_size, so a backup sealed off a boundary would share  *)
(* its tweak with a neighbour and the device would refuse the write.       *)
StructuresSectorAligned ==
  layout # None =>
    /\ \A j \in Copies : layout.metadata_offsets[j] % sector = 0
    /\ layout.volume_header_offset % sector = 0

(* "All offsets stay within 32-bit range for USB compatibility"            *)
(* (encryptor.py:66): no structure reaches past the 4 GB mark, however     *)
(* large the volume.                                                       *)
OffsetsWithin32Bits ==
  layout # None =>
    /\ \A j \in Copies : Block(j).end =< MaxUsable
    /\ Backup.end =< MaxUsable
=============================================================================
