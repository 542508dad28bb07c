-------------------------- MODULE MetadataEntries --------------------------
(***************************************************************************)
(* The entries of an FVE metadata block, as builder.py lays them out and   *)
(* metadata.py reads them.  A stretch of metadata is a sequence of items,  *)
(* each of so many bytes: a field, or an entry with a header of 8 bytes    *)
(* and items inside.  A reader knows no items: it goes by byte offsets and *)
(* takes what stands there for the header of an entry.                     *)
(***************************************************************************)
EXTENDS Naturals, Sequences

EntryHeaderSize == 8

(* MetadataEntryType and MetadataValueType. *)
VMK == 2
FVEK == 3
DESCRIPTION == 7
VOLUME_HEADER_BLOCK == 15

UNICODE_STRING == 2
STRETCH_KEY == 3
AES_CCM_ENCRYPTED_KEY == 5
VOLUME_MASTER_KEY == 8
OFFSET_AND_SIZE == 15
TIMESTAMPS == 21

(* The least of a set of numbers of items; 0 stands for none.              *)
First(S) == IF S = {} THEN 0 ELSE CHOOSE n \in S : \A m \in S : n =< m

(* Where each item ends; that of 0 is where the first one begins.          *)
EndsOf(items) ==
  LET ends[n \in 0 .. Len(items)] == IF n = 0 THEN 0 ELSE ends[n - 1] + items[n].bytes
  IN  ends

Width(items) == EndsOf(items)[Len(items)]

(* The bytes of a field are no header: size 0 ends the reading.            *)
NoHeader == [size |-> 0, type |-> 0, value |-> 0]

Field(b, f) == [bytes |-> b, header |-> NoHeader, content |-> <<>>, field |-> f]

Opaque(b) == Field(b, [tag |-> "opaque"])

(* Seeded fault: the size leaves out the header.                           *)
SizeWithoutHeader(type, value, content) ==
  [bytes |-> EntryHeaderSize + Width(content),
   header |-> [size |-> Width(content), type |-> type, value |-> value],
   content |-> content, field |-> [tag |-> "entry"]]

(* _build_entry. *)
BuildEntry(type, value, content) ==
  [bytes |-> EntryHeaderSize + Width(content),
   header |-> [size |-> EntryHeaderSize + Width(content), type |-> type, value |-> value],
   content |-> content, field |-> [tag |-> "entry"]]

-----------------------------------------------------------------------------
(* nonce_time, by the three of its four 16-bit words that a reader takes   *)
(* for a size, a type and a value when it looks for a header there.        *)
TimeField(t) ==
  [bytes |-> 8, header |-> [size |-> t.low, type |-> 0, value |-> t.high],
   content |-> <<>>, field |-> [tag |-> "time", time |-> t]]

(* A wrapped key is written with the counter of its nonce. *)
CcmPayload(t, key) ==
  <<TimeField(t), Field(4, [tag |-> "counter", n |-> key.counter]),
    Field(key.blob.bytes, key.blob)>>

BuildCcm(type, t, key) ==
  BuildEntry(type, AES_CCM_ENCRYPTED_KEY, CcmPayload(t, key))

BuildStretchKey(salt, nested) ==
  BuildEntry(0, STRETCH_KEY, <<Opaque(4), Field(16, [tag |-> "salt", n |-> salt])>> \o nested)

(* The first 28 bytes of a VMK entry: key_id, mod_time and protection. *)
VmkHeader(protection) == Field(28, [tag |-> "protection", of |-> protection])

(* build_vmk_entry. *)
BuildPasswordVmk(salt, t, nested, standalone) ==
  BuildEntry(VMK, VOLUME_MASTER_KEY,
    <<VmkHeader("password"),
      BuildStretchKey(salt, <<BuildCcm(0, t, nested)>>),
      BuildCcm(0, t, standalone)>>)

(* Seeded fault: the standalone copy of the key comes first.               *)
BuildStandaloneFirst(salt, t, short, nested, standalone) ==
  BuildEntry(VMK, VOLUME_MASTER_KEY,
    <<VmkHeader("recovery"),
      BuildCcm(0, t, standalone),
      BuildStretchKey(salt, <<BuildCcm(18, t, short),
                              BuildCcm(19, t, nested)>>),
      BuildEntry(0, TIMESTAMPS, <<Opaque(20)>>)>>)

(* build_recovery_vmk_entry: the first key in the stretch key is not the   *)
(* VMK but the short key.                                                  *)
BuildRecoveryVmk(salt, t, short, nested, standalone) ==
  BuildEntry(VMK, VOLUME_MASTER_KEY,
    <<VmkHeader("recovery"),
      BuildStretchKey(salt, <<BuildCcm(18, t, short),
                              BuildCcm(19, t, nested)>>),
      BuildCcm(0, t, standalone),
      BuildEntry(0, TIMESTAMPS, <<Opaque(20)>>)>>)

BuildFvek(t, key) == BuildEntry(FVEK, AES_CCM_ENCRYPTED_KEY, CcmPayload(t, key))

BuildDescription(b) == BuildEntry(DESCRIPTION, UNICODE_STRING, <<Opaque(b)>>)

(* offset and size; extra: the 76 bytes on the file system, unless its     *)
(* boot sector states no sector size.                                      *)
BuildVolumeHeaderBlock(extra) ==
  BuildEntry(VOLUME_HEADER_BLOCK, OFFSET_AND_SIZE,
             IF extra THEN <<Opaque(16), Opaque(76)>> ELSE <<Opaque(16)>>)

-----------------------------------------------------------------------------
(* The number of the item that starts at byte o; 0: none does. *)
ItemAt(items, o) ==
  LET ends == EndsOf(items) IN First({n \in DOMAIN items : ends[n - 1] = o})

HeaderAt(items, o) ==
  LET n == ItemAt(items, o) IN IF n = 0 THEN NoHeader ELSE items[n].header

(* What is read where a header was taken to be: the items of an entry; of  *)
(* a field only that there are so many bytes more.                         *)
RawData(items, o) ==
  LET n == ItemAt(items, o)
  IN  IF items[n].field.tag = "entry"
      THEN items[n].content
      ELSE <<Opaque(items[n].header.size - EntryHeaderSize)>>

EntryAt(items, o) ==
  [type |-> HeaderAt(items, o).type, value |-> HeaderAt(items, o).value,
   raw |-> RawData(items, o)]

(* _parse_entries on the first n bytes of items: it stops, without an      *)
(* error, at the first header that is short, too small or reaches past the *)
(* end.                                                                    *)
ParseEntries(items, n) ==
  LET from[o \in 0 .. n] ==
        LET size == HeaderAt(items, o).size
        IN  IF o + EntryHeaderSize > n \/ size < EntryHeaderSize \/ o + size > n
            THEN <<>>
            ELSE <<EntryAt(items, o)>> \o from[o + size]
  IN  from[0]

Parsed(items) == ParseEntries(items, Width(items))

(* What remains after the first b bytes, which are whole items.            *)
Dropped(items, b) ==
  LET n == ItemAt(items, b) IN IF n = 0 THEN <<>> ELSE SubSeq(items, n, Len(items))

-----------------------------------------------------------------------------
(* _parse_aes_ccm: time, counter and blob, wherever they come from.        *)
IsCcm(raw) == Len(raw) = 3 /\ raw[1].field.tag = "time"

NoCcm == [time |-> [low |-> 0, high |-> 0], counter |-> 0, blob |-> [tag |-> "garbage"]]

ReadCcm(raw) ==
  IF IsCcm(raw)
  THEN [time |-> raw[1].field.time, counter |-> raw[2].field.n, blob |-> raw[3].field]
  ELSE NoCcm

IsCcmEntry(e) == e.value = AES_CCM_ENCRYPTED_KEY

FirstCcm(entries) == First({n \in DOMAIN entries : IsCcmEntry(entries[n])})

(* One entry inside a VMK entry: a stretch key gives the salt and its      *)
(* first key, a key on its own takes the place of what was found before.   *)
ReadVmkPart(vmk, sub) ==
  CASE sub.value = STRETCH_KEY ->
         LET keys == Parsed(Dropped(sub.raw, 20))
             n == FirstCcm(keys)
         IN  [vmk EXCEPT !.salt = sub.raw[2].field.n,
                         !.ccm = IF n = 0 THEN @ ELSE ReadCcm(keys[n].raw)]
    [] IsCcmEntry(sub) -> [vmk EXCEPT !.ccm = ReadCcm(sub.raw)]
    [] OTHER -> vmk

ReadVmk(e) ==
  LET parts == Parsed(Dropped(e.raw, 28))
      read[n \in 0 .. Len(parts)] ==
        IF n = 0
        THEN [protection |-> e.raw[1].field.of, salt |-> 0, ccm |-> NoCcm]
        ELSE ReadVmkPart(read[n - 1], parts[n])
  IN  read[Len(parts)]

(* extract_vmk_entries: what each entry for the VMK says, by its number.   *)
IsVmkEntry(e) == e.type = VMK /\ e.value = VOLUME_MASTER_KEY /\ Width(e.raw) >= 28

ExtractVmks(entries) ==
  [n \in {m \in DOMAIN entries : IsVmkEntry(entries[m])} |-> ReadVmk(entries[n])]

(* extract_fvek_entry: the payload is looked at for entries first, and     *)
(* only when none of them is a key is it the key itself.                   *)
ExtractFvek(entries) ==
  LET n == First({m \in DOMAIN entries : entries[m].type = FVEK})
      inside == Parsed(entries[n].raw)
      k == FirstCcm(inside)
  IN  CASE n = 0           -> NoCcm
        [] n # 0 /\ k # 0 -> ReadCcm(inside[k].raw)
        [] n # 0 /\ k = 0 -> ReadCcm(entries[n].raw)
=============================================================================
