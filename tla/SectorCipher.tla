---------------------------- MODULE SectorCipher ----------------------------
(***************************************************************************)
(* The per-sector cipher of crypto.py, symbolically.                       *)
(*                                                                         *)
(* The content of a sector is a base value under layers of cipher          *)
(* operations, each made with a volume key (FVEK) and a tweak: the place   *)
(* of the sector on the volume, from which AES-XTS takes its sector number *)
(* and AES-CBC its initialisation vector.  An operation undoes the         *)
(* topmost layer when that is its inverse under the same key and tweak,    *)
(* and otherwise adds a layer: a sector comes back only when every         *)
(* operation on it is undone with the key and the place it was made with.  *)
(***************************************************************************)
EXTENDS Naturals, Sequences

(* What a sector holds beneath its layers: "at" tells the sectors of one   *)
(* kind apart, "key" the encryption run that wrote it (0: none did).       *)
Base == [kind : {"data", "zero", "boot", "fve"}, at : Nat, key : Nat]

Layer == [op : {"enc", "dec"}, key : Nat, at : Nat]

Content == [base : Base, layers : Seq(Layer)]

Plain(b) == [base |-> b, layers |-> <<>>]

(* The operation that undoes op, made with the same key at the same place. *)
Undo(l) == [l EXCEPT !.op = IF @ = "enc" THEN "dec" ELSE "enc"]

Tweaked(op, k, at) == [op |-> op, key |-> k, at |-> at]

Apply(l, c) ==
  IF c.layers # <<>> /\ Head(c.layers) = Undo(l)
  THEN [c EXCEPT !.layers = Tail(@)]
  ELSE [c EXCEPT !.layers = <<l>> \o @]

EncryptSector(k, at, c) == Apply(Tweaked("enc", k, at), c)
DecryptSector(k, at, c) == Apply(Tweaked("dec", k, at), c)

(* encrypt_sectors and decrypt_sectors: consecutive sectors, numbered from *)
(* 0, each under the tweak of its own place, start_offset + its number.    *)
EncryptSectors(k, start, data) ==
  [i \in DOMAIN data |-> EncryptSector(k, start + i, data[i])]
DecryptSectors(k, start, data) ==
  [i \in DOMAIN data |-> DecryptSector(k, start + i, data[i])]
=============================================================================
