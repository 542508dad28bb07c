---------------------------- MODULE RecoveryKey ----------------------------
(***************************************************************************)
(* The arithmetic of the recovery key: eight numbers of 16 bits, each      *)
(* shown as six digits, eleven times its value.                            *)
(***************************************************************************)
EXTENDS Integers, Sequences

MaxWord == 65535

(* The places of the six digits of a group. *)
Powers == {1, 10, 100, 1000, 10000, 100000}

(* generate_recovery_key. *)
ShownGroup(short) == short * 11
Shown(key) == [g \in DOMAIN key |-> ShownGroup(key[g])]

(* Seeded fault: the remainder is not looked at.                           *)
GroupInRange(value) == value \div 11 =< MaxWord

(* derive_key_from_recovery: a group that is no multiple of 11, or too     *)
(* large, is refused.                                                      *)
GroupAccepted(value) == value % 11 = 0 /\ value \div 11 =< MaxWord

Accepted(typed) == Len(typed) = 8 /\ \A g \in DOMAIN typed : GroupAccepted(typed[g])

(* The 16 bytes that are hashed and stretched; recovery_password_to_       *)
(* short_key makes the same of it without looking at remainders.           *)
ShortKey(typed) == [g \in DOMAIN typed |-> typed[g] \div 11]

-----------------------------------------------------------------------------
Digit(value, p) == (value \div p) % 10

(* A group with another digit at place p, and with the digits at p and at  *)
(* the place above it exchanged.                                           *)
WithDigit(value, p, d) == value + (d - Digit(value, p)) * p

Exchanged(value, p) ==
  value + (Digit(value, 10 * p) - Digit(value, p)) * p
        + (Digit(value, p) - Digit(value, 10 * p)) * (10 * p)

Mistypings(value) ==
  {WithDigit(value, p, d) : p \in Powers, d \in 0 .. 9}
    \cup {Exchanged(value, p) : p \in Powers \ {100000}}
=============================================================================
