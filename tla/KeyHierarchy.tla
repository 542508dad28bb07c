---------------------------- MODULE KeyHierarchy ----------------------------
(***************************************************************************)
(* The keys of a volume: how an encryption makes, wraps and stores them,   *)
(* and how a decryption gets from a credential to the volume key.  AES-CCM *)
(* is symbolic: a blob opens under the key and the nonce it was made with  *)
(* and under no other.  Writer and reader meet in the stored block alone.  *)
(***************************************************************************)
EXTENDS MetadataEntries, RecoveryKey

CONSTANTS
  Methods,        \* the encryption methods a user may ask for
  Times,          \* what _filetime_now may return, by two of its words
  RecoveryKeys,   \* what generate_recovery_key may draw
  MaxRuns         \* bound: how many encryptions follow each other

ASSUME KeyConstants ==
  /\ Methods \subseteq {"AES_XTS_128", "AES_XTS_256", "AES_CBC_128", "AES_CBC_256"}
  /\ Times \subseteq [low : 0 .. MaxWord, high : 0 .. MaxWord]
  /\ RecoveryKeys \subseteq [1 .. 8 -> 0 .. MaxWord]
  /\ Methods # {} /\ Times # {} /\ RecoveryKeys # {}
  /\ MaxRuns \in Nat

VARIABLES
  pc,         \* "idle", "wrap", "validate", "stored"
  run,        \* which encryption this is: its random keys and salts
  method,     \* encryption_method
  time,       \* nonce_time, one for the whole run
  recovery,   \* the short values of the recovery key
  blobs,      \* the wrapped keys so far, in the order of the code
  uses,       \* every use of AES-CCM so far, in any run
  block       \* the block last stored

vars == <<pc, run, method, time, recovery, blobs, uses, block>>

NoBlock == [tag |-> "none"]

Init ==
  /\ pc = "idle" /\ run = 0
  /\ method = (CHOOSE m \in Methods : TRUE)
  /\ time = (CHOOSE t \in Times : TRUE)
  /\ recovery = (CHOOSE key \in RecoveryKeys : TRUE)
  /\ blobs = <<>> /\ uses = <<>> /\ block = NoBlock

-----------------------------------------------------------------------------
Smaller(a, b) == IF a < b THEN a ELSE b

(* The keys.  "from" is what a stretched key is made from. *)
Made(kind, from, salt, bytes) ==
  [tag |-> "key", kind |-> kind, from |-> from, salt |-> salt, bytes |-> bytes]

StretchedPassword(password, salt) == Made("password", <<password>>, salt, 32)
StretchedRecovery(typed, salt) == Made("recovery", ShortKey(typed), salt, 32)

(* os.urandom: values of their own in each run. *)
PasswordSalt == 2 * run
RecoverySalt == 2 * run + 1
Vmk == Made("vmk", <<run>>, 0, 32)

FvekLength(m) ==
  CASE m = "AES_CBC_128"                     -> 16
    [] m \in {"AES_CBC_256", "AES_XTS_128"}   -> 32
    [] m = "AES_XTS_256"                     -> 64

Fvek == Made("fvek", <<run>>, 0, FvekLength(method))

(* _get_keys: from and up to which byte of the volume key the cipher's and *)
(* the diffuser's keys are taken.                                          *)
Slice(key, from, to) == [key |-> key, from |-> from, to |-> Smaller(to, key.bytes)]

NoSlice == [key |-> "none", from |-> 0, to |-> 0]

GetKeys(key, m) ==
  CASE m = "AES_CBC_128"          -> <<Slice(key, 0, 16), NoSlice>>
    [] m = "AES_CBC_256"          -> <<Slice(key, 0, 32), NoSlice>>
    [] m = "AES_CBC_128_DIFFUSER" -> <<Slice(key, 0, 16), Slice(key, 32, 48)>>
    [] m = "AES_CBC_256_DIFFUSER" -> <<Slice(key, 0, 32), Slice(key, 32, 64)>>
    [] m \in {"AES_XTS_128", "AES_XTS_256"} -> <<Slice(key, 0, key.bytes), NoSlice>>

(* What AES takes: XTS has two keys of the stated length. *)
KeyLengthFits(m, keys) ==
  LET n == keys[1].to - keys[1].from
  IN  CASE m = "AES_CBC_128" -> n = 16
        [] m \in {"AES_CBC_256", "AES_XTS_128"} -> n = 32
        [] m = "AES_XTS_256" -> n = 64

(* Seeded fault: the key is wrapped without its container.                 *)
WrappedBare(under, t, counter, key) ==
  [tag |-> "blob", under |-> under, time |-> t, counter |-> counter, key |-> key,
   bytes |-> 16 + key.bytes]

(* wrap_key: the tag of 16 bytes, a container header of 12 and the key. *)
Wrapped(under, t, counter, key) ==
  [tag |-> "blob", under |-> under, time |-> t, counter |-> counter, key |-> key,
   bytes |-> 16 + 12 + key.bytes]

NoKey == Made("none", <<>>, 0, 0)

(* unwrap_key, with the nonce that stands before the blob: any other key   *)
(* or nonce is an InvalidTag.                                              *)
Unwrapped(ccm, under) ==
  IF /\ ccm.blob.tag = "blob" /\ ccm.blob.under = under
     /\ ccm.blob.time = ccm.time /\ ccm.blob.counter = ccm.counter
  THEN ccm.blob.key
  ELSE NoKey

-----------------------------------------------------------------------------
Short == Made("short", recovery, 0, 16)
ByPassword == StretchedPassword("right", PasswordSalt)
ByRecovery == StretchedRecovery(Shown(recovery), RecoverySalt)

(* Seeded fault: the password's second copy has the number of its first.   *)
CountersRepeated == <<2, 2, 4, 5, 6, 8>>

Counters == <<2, 3, 4, 5, 6, 8>>

(* The wraps of a run: under which key, and what. *)
Wraps ==
  <<[under |-> ByPassword, key |-> Vmk], [under |-> ByPassword, key |-> Vmk],
    [under |-> ByRecovery, key |-> Short], [under |-> ByRecovery, key |-> Vmk],
    [under |-> ByRecovery, key |-> Vmk], [under |-> Vmk, key |-> Fvek]>>

(* The block ends with a hash under the VMK that takes counter 9; the next *)
(* free one that is stored is 10.                                          *)
ValidationCounter == 9
NextNonce == 10

Use(under, t, counter) == [under |-> under, time |-> t, counter |-> counter]

(* An encryption starts: new keys, salts and time stamp.  The clock may    *)
(* have been set back: the time of an earlier run may return.              *)
Generate ==
  /\ pc \in {"idle", "stored"}
  /\ run < MaxRuns
  /\ run' = run + 1
  /\ method' \in Methods /\ time' \in Times /\ recovery' \in RecoveryKeys
  /\ blobs' = <<>>
  /\ pc' = "wrap"
  /\ UNCHANGED <<uses, block>>

WrapNext ==
  /\ pc = "wrap"
  /\ Len(blobs) < Len(Wraps)
  /\ LET n == Len(blobs) + 1
     IN  /\ blobs' = Append(blobs, Wrapped(Wraps[n].under, time, Counters[n], Wraps[n].key))
         /\ uses' = Append(uses, Use(Wraps[n].under, time, Counters[n]))
  /\ UNCHANGED <<pc, run, method, time, recovery, block>>

(* The entries, in the order in which they are joined. *)
Key(n) == [counter |-> Counters[n], blob |-> blobs[n]]

EntriesBuilt ==
  <<BuildDescription(56),
    BuildPasswordVmk(PasswordSalt, time, Key(1), Key(2)),
    BuildRecoveryVmk(RecoverySalt, time, Key(3), Key(4), Key(5)),
    BuildFvek(time, Key(6)),
    BuildVolumeHeaderBlock(TRUE)>>

(* metadata_size: its header and all entries. *)
MetadataSize(items) == 48 + Width(items)

(* build_metadata_header, build_fve_metadata_block: the method in both     *)
(* halves of a field of 32 bits, zeros up to a multiple of 16 bytes.       *)
BuildBlock ==
  /\ pc = "wrap"
  /\ Len(blobs) = Len(Wraps)
  /\ LET size == MetadataSize(EntriesBuilt)
     IN  block' = [tag |-> "block", size |-> size, next |-> NextNonce,
                   method |-> [high |-> method, low |-> method],
                   items |-> Append(EntriesBuilt, Opaque((16 - ((64 + size) % 16)) % 16))]
  /\ pc' = "validate"
  /\ UNCHANGED <<run, method, time, recovery, blobs, uses>>

(* _build_validation_block: after the entries, under the VMK. *)
Validate ==
  /\ pc = "validate"
  /\ uses' = Append(uses, Use(Vmk, time, ValidationCounter))
  /\ block' = [block EXCEPT !.items = Append(@, Opaque(88))]
  /\ pc' = "stored"
  /\ UNCHANGED <<run, method, time, recovery, blobs>>

Next == Generate \/ WrapNext \/ BuildBlock \/ Validate

Spec == Init /\ [][Next]_vars

-----------------------------------------------------------------------------
(* The reader. *)

(* parse_metadata_block: the entries end where metadata_size says. *)
EntriesOf(b) == ParseEntries(b.items, Smaller(Width(b.items), b.size - 48))

(* What is extracted from the entries, the low half of the method with it. *)
Extracted(b, entries) ==
  [vmks |-> ExtractVmks(entries), fvek |-> ExtractFvek(entries), method |-> b.method.low]

VmkFor(x, protector) ==
  LET n == First({m \in DOMAIN x.vmks : x.vmks[m].protection = protector})
  IN  IF n = 0 THEN [protection |-> "none", salt |-> 0, ccm |-> NoCcm] ELSE x.vmks[n]

(* decrypt_volume: from the stretched credential to the VMK, from there to *)
(* the volume key.                                                         *)
OpenedBy(x, protector, stretched) ==
  LET vmk == Unwrapped(VmkFor(x, protector).ccm, stretched)
  IN  [key |-> Unwrapped(x.fvek, vmk), method |-> x.method]

OpenWithPassword(x, password) ==
  OpenedBy(x, "password", StretchedPassword(password, VmkFor(x, "password").salt))

OpenWithRecovery(x, typed) ==
  IF Accepted(typed)
  THEN OpenedBy(x, "recovery", StretchedRecovery(typed, VmkFor(x, "recovery").salt))
  ELSE [key |-> NoKey, method |-> x.method]

-----------------------------------------------------------------------------
TypeOK ==
  /\ pc \in {"idle", "wrap", "validate", "stored"}
  /\ run \in 0 .. MaxRuns
  /\ method \in Methods /\ time \in Times /\ recovery \in RecoveryKeys
  /\ Len(blobs) =< Len(Wraps)
  /\ \A n \in DOMAIN blobs : blobs[n].tag = "blob" /\ blobs[n].bytes \in {44, 60, 92}
  /\ block.tag \in {"none", "block"}
  /\ block.tag = "block" => block.size =< 65536 - 64 - 88 - 16

(* No two uses of AES-CCM share key and nonce, although one time stamp     *)
(* serves a whole run and may come back in a later one; and the counter    *)
(* the volume states as its next has not been used in it.                  *)
NonceUsedOnce ==
  /\ \A i, j \in DOMAIN uses : i # j => uses[i] # uses[j]
  /\ block.tag = "block" => \A i \in DOMAIN uses : uses[i].counter < block.next

(* The reader, which goes by sizes and offsets, finds in a block the five  *)
(* entries that were put in, and in those for the VMK the keys inside the  *)
(* stretch key and the one after it.                                       *)
Stated(e) == [type |-> e.header.type, value |-> e.header.value, raw |-> e.content]
AllStated(items) == [n \in DOMAIN items |-> Stated(items[n])]

ParsesWhatWasBuilt ==
  pc = "stored" =>
    /\ EntriesOf(block) = AllStated(EntriesBuilt)
    /\ \A n \in {2, 3} :
         LET parts == Tail(EntriesBuilt[n].content)
             stretch == First({m \in DOMAIN parts : parts[m].header.value = STRETCH_KEY})
         IN  /\ Parsed(Dropped(EntriesBuilt[n].content, 28)) = AllStated(parts)
             /\ LET keys == Tail(Tail(parts[stretch].content))
                IN  Parsed(Dropped(parts[stretch].content, 20)) = AllStated(keys)

(* Seen as a header, the time stamp of the FVEK's nonce is an entry with a *)
(* key: its lowest word a size that fits, its third a 5.                   *)
TimeReadsAsKey ==
  time.high = AES_CCM_ENCRYPTED_KEY /\ time.low \in 8 .. 8 + 4 + 16 + 12 + Fvek.bytes

(* The password and the recovery key each lead from the stored block to    *)
(* the volume key and the method of the run that stored it, with keys of   *)
(* the length the cipher takes.  There is one exception, a matter of the   *)
(* clock: a time stamp that reads as a key (metadata.py:242).              *)
EitherProtectorOpens ==
  pc = "stored" =>
    \A entries \in {EntriesOf(block)} : \A x \in {Extracted(block, entries)} :
    \A opened \in {OpenWithPassword(x, "right"), OpenWithRecovery(x, Shown(recovery))} :
      /\ opened.key = Fvek <=> ~TimeReadsAsKey
      /\ opened.method = method
      /\ KeyLengthFits(method, GetKeys(Fvek, opened.method))

(* A recovery key is taken as it was shown.  With one digit wrong, or two  *)
(* neighbours exchanged, it is refused before any key is stretched, at     *)
(* whichever of the 48 digits.                                             *)
RecoveryTypoRefused ==
  pc = "stored" =>
    LET shown == Shown(recovery)
    IN  /\ Accepted(shown) /\ ShortKey(shown) = recovery
        /\ \A g \in 1 .. 8 : \A value \in Mistypings(shown[g]) \ {shown[g]} :
             ~Accepted([shown EXCEPT ![g] = value])
=============================================================================
