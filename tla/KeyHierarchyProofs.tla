------------------------- MODULE KeyHierarchyProofs -------------------------
(***************************************************************************)
(* The recovery key refuses every slip of the pen; AES-CCM is never used   *)
(* twice with one key and nonce; what is built is what is parsed; password *)
(* and recovery key open what was stored: for every key, every clock and   *)
(* any number of encryptions.                                              *)
(***************************************************************************)
EXTENDS KeyHierarchy, WellFoundedInduction, TLAPS

-----------------------------------------------------------------------------
(* The arithmetic of a group: 11 divides none of the powers of ten.        *)

LEMMA Remainder ==
  ASSUME NEW v \in Nat, v % 11 = 0
  PROVE  v = 11 * (v \div 11)
BY Z3

(* A multiple of 11 changed by less than eleven times a place is none any  *)
(* more: 10^k leaves 1 or 10.                                              *)
LEMMA ShiftedIsRefused ==
  ASSUME NEW q \in Nat, NEW e \in Int, -9 =< e, e =< 9, e # 0, NEW p \in Powers
  PROVE  (11 * q + e * p) % 11 # 0
<1>1. p \in {1, 10, 100, 1000, 10000, 100000}
  BY DEF Powers
<1>2. CASE p = 1
  BY <1>2, Z3
<1>3. CASE p = 10
  BY <1>3, Z3
<1>4. CASE p = 100
  BY <1>4, Z3
<1>5. CASE p = 1000
  BY <1>5, Z3
<1>6. CASE p = 10000
  BY <1>6, Z3
<1>7. CASE p = 100000
  BY <1>7, Z3
<1>8. QED
  BY <1>1, <1>2, <1>3, <1>4, <1>5, <1>6, <1>7

(* Neighbours exchanged: the places differ by nine times the lower one. *)
LEMMA ExchangedIsRefused ==
  ASSUME NEW q \in Nat, NEW e \in Int, -9 =< e, e =< 9, e # 0, NEW p \in Powers
  PROVE  (11 * q + (9 * e) * p) % 11 # 0
<1>1. p \in {1, 10, 100, 1000, 10000, 100000}
  BY DEF Powers
<1>2. CASE p = 1
  BY <1>2, Z3
<1>3. CASE p = 10
  BY <1>3, Z3
<1>4. CASE p = 100
  BY <1>4, Z3
<1>5. CASE p = 1000
  BY <1>5, Z3
<1>6. CASE p = 10000
  BY <1>6, Z3
<1>7. CASE p = 100000
  BY <1>7, Z3
<1>8. QED
  BY <1>1, <1>2, <1>3, <1>4, <1>5, <1>6, <1>7

LEMMA WordIsNat == MaxWord \in Nat
BY DEF MaxWord

LEMMA DigitIsDigit ==
  ASSUME NEW v \in Nat, NEW p \in {1, 10, 100, 1000, 10000, 100000, 1000000}
  PROVE  Digit(v, p) \in 0 .. 9
<1>1. v \div p \in Nat
  BY Z3
<1>2. QED
  BY <1>1, Z3 DEF Digit

(* A group with a wrong digit, or with two neighbours exchanged, is no     *)
(* multiple of 11.                                                         *)
LEMMA MistypedGroupRefused ==
  ASSUME NEW short \in 0 .. MaxWord,
         NEW value \in Mistypings(ShownGroup(short)) \ {ShownGroup(short)}
  PROVE  ~GroupAccepted(value)
<1> DEFINE v == ShownGroup(short)
<1>1. short \in Nat /\ v \in Nat /\ v = 11 * short
  <2>1. short \in Nat
    BY DEF MaxWord
  <2>2. v = short * 11
    BY DEF ShownGroup
  <2> HIDE DEF v
  <2>3. QED
    BY <2>1, <2>2
<1>2. CASE \E p \in Powers, d \in 0 .. 9 : value = WithDigit(v, p, d)
  <2>1. PICK p \in Powers, d \in 0 .. 9 : value = WithDigit(v, p, d)
    BY <1>2
  <2>2. Digit(v, p) \in 0 .. 9
    BY <1>1, DigitIsDigit DEF Powers
  <2>3. p \in Nat
    BY DEF Powers
  <2> DEFINE e == d - Digit(v, p)
  <2>4. value = v + e * p
    BY <2>1 DEF WithDigit
  <2>5. e \in Int /\ -9 =< e /\ e =< 9
    BY <2>2
  <2> HIDE DEF e
  <2>6. e # 0
    BY <1>1, <2>3, <2>4 DEF v
  <2>7. (11 * short + e * p) % 11 # 0
    BY <1>1, <2>5, <2>6, ShiftedIsRefused
  <2>8. QED
    BY <1>1, <2>4, <2>7 DEF GroupAccepted
<1>3. CASE \E p \in Powers \ {100000} : value = Exchanged(v, p)
  <2>1. PICK p \in Powers \ {100000} : value = Exchanged(v, p)
    BY <1>3
  <2>2. Digit(v, p) \in 0 .. 9 /\ Digit(v, 10 * p) \in 0 .. 9
    <3>1. p \in {1, 10, 100, 1000, 10000}
      BY DEF Powers
    <3>2. 10 * p \in {10, 100, 1000, 10000, 100000}
      BY <3>1
    <3>3. QED
      BY <1>1, <3>1, <3>2, DigitIsDigit
  <2>3. p \in Nat
    BY DEF Powers
  <2> DEFINE a == Digit(v, p)
  <2> DEFINE b == Digit(v, 10 * p)
  <2> DEFINE e == a - b
  <2>4. value = v + (9 * e) * p
    <3>1. value = v + (b - a) * p + (a - b) * (10 * p)
      BY <2>1 DEF Exchanged
    <3>2. a \in Int /\ b \in Int
      BY <2>2
    <3> HIDE DEF a, b, v
    <3>3. (b - a) * p + (a - b) * (10 * p) = (9 * (a - b)) * p
      BY <2>3, <3>2, Z3
    <3>4. (b - a) * p \in Int /\ (a - b) * (10 * p) \in Int
      BY <2>3, <3>2, Z3
    <3>5. QED
      BY <1>1, <3>1, <3>3, <3>4, Z3
  <2>5. e \in Int /\ -9 =< e /\ e =< 9
    BY <2>2
  <2> HIDE DEF e
  <2>6. e # 0
    BY <1>1, <2>3, <2>4 DEF v
  <2>7. (11 * short + (9 * e) * p) % 11 # 0
    BY <1>1, <2>5, <2>6, ExchangedIsRefused
  <2>8. QED
    BY <1>1, <2>4, <2>7 DEF GroupAccepted
<1>4. QED
  BY <1>2, <1>3 DEF Mistypings

(* A key as it is shown is accepted, and gives its own 16 bytes. *)
LEMMA ShownIsAccepted ==
  ASSUME NEW key \in [1 .. 8 -> 0 .. MaxWord]
  PROVE  Accepted(Shown(key)) /\ ShortKey(Shown(key)) = key
<1>1. \A g \in 1 .. 8 : /\ Shown(key)[g] = ShownGroup(key[g])
                        /\ ShownGroup(key[g]) % 11 = 0
                        /\ ShownGroup(key[g]) \div 11 = key[g]
                        /\ key[g] =< MaxWord
                        /\ ShownGroup(key[g]) \in Nat
  <2> SUFFICES ASSUME NEW g \in 1 .. 8
               PROVE  /\ Shown(key)[g] = ShownGroup(key[g])
                      /\ ShownGroup(key[g]) % 11 = 0
                      /\ ShownGroup(key[g]) \div 11 = key[g]
                      /\ key[g] =< MaxWord
                      /\ ShownGroup(key[g]) \in Nat
    OBVIOUS
  <2>1. key[g] \in Nat /\ key[g] =< MaxWord
    BY WordIsNat
  <2>2. (key[g] * 11) % 11 = 0 /\ (key[g] * 11) \div 11 = key[g]
    BY <2>1, Z3
  <2>3. QED
    BY <2>1, <2>2 DEF Shown, ShownGroup
<1>2. DOMAIN Shown(key) = 1 .. 8
  BY DEF Shown
<1>3. Len(Shown(key)) = 8
  <2>1. Shown(key) = [g \in 1 .. 8 |-> ShownGroup(key[g])]
    BY DEF Shown
  <2>2. Shown(key) \in [1 .. 8 -> Nat]
    BY <1>1, <2>1
  <2>3. QED
    BY <1>2, <2>2
<1>4. Accepted(Shown(key))
  BY <1>1, <1>2, <1>3 DEF Accepted, GroupAccepted
<1>5. ShortKey(Shown(key)) = key
  BY <1>1, <1>2 DEF ShortKey
<1>6. QED
  BY <1>4, <1>5

(* What an encryption that has begun has drawn. *)
RecoveryDrawn ==
  /\ pc \in {"idle", "wrap", "validate", "stored"}
  /\ pc # "idle" => recovery \in RecoveryKeys

(* derive_key_from_recovery refuses a recovery key with one digit wrong or *)
(* two neighbours exchanged, and takes it as it was shown: for every key   *)
(* that generate_recovery_key may draw.                                    *)
THEOREM TyposAreRefused == Spec => []RecoveryTypoRefused
<1>1. Init => RecoveryDrawn
  BY DEF Init, RecoveryDrawn
<1>2. RecoveryDrawn /\ [Next]_vars => RecoveryDrawn'
  <2> SUFFICES ASSUME RecoveryDrawn, [Next]_vars
               PROVE  RecoveryDrawn'
    OBVIOUS
  <2>1. ASSUME Generate PROVE RecoveryDrawn'
    BY <2>1 DEF Generate, RecoveryDrawn
  (* Only Generate draws; the rest of the run keeps what it has drawn. *)
  <2>2. ASSUME WrapNext \/ BuildBlock \/ Validate
        PROVE  /\ pc # "idle" /\ pc' \in {"wrap", "validate", "stored"}
               /\ recovery' = recovery
    BY <2>2 DEF WrapNext, BuildBlock, Validate, RecoveryDrawn
  <2>3. WrapNext \/ BuildBlock \/ Validate => RecoveryDrawn'
    BY <2>2 DEF RecoveryDrawn
  <2>4. vars' = vars => RecoveryDrawn'
    BY DEF vars, RecoveryDrawn
  <2>5. QED
    BY <2>1, <2>3, <2>4 DEF Next
<1>3. RecoveryDrawn => RecoveryTypoRefused
  <2> SUFFICES ASSUME RecoveryDrawn, pc = "stored"
               PROVE  LET shown == Shown(recovery)
                      IN  /\ Accepted(shown) /\ ShortKey(shown) = recovery
                          /\ \A g \in 1 .. 8 :
                               \A value \in Mistypings(shown[g]) \ {shown[g]} :
                                 ~Accepted([shown EXCEPT ![g] = value])
    BY DEF RecoveryTypoRefused
  <2>1. recovery \in [1 .. 8 -> 0 .. MaxWord]
    BY KeyConstants DEF RecoveryDrawn
  <2>2. ASSUME NEW g \in 1 .. 8,
               NEW value \in Mistypings(Shown(recovery)[g]) \ {Shown(recovery)[g]}
        PROVE  ~Accepted([Shown(recovery) EXCEPT ![g] = value])
    <3>1. g \in DOMAIN Shown(recovery) /\ Shown(recovery)[g] = ShownGroup(recovery[g])
      BY <2>1 DEF Shown
    <3>2. recovery[g] \in 0 .. MaxWord
      BY <2>1
    <3>3. ~GroupAccepted(value)
      BY <2>2, <3>1, <3>2, MistypedGroupRefused
    <3>4. /\ g \in DOMAIN [Shown(recovery) EXCEPT ![g] = value]
          /\ [Shown(recovery) EXCEPT ![g] = value][g] = value
      BY <3>1
    <3>5. QED
      BY <3>3, <3>4 DEF Accepted
  <2>3. QED
    BY <2>1, <2>2, ShownIsAccepted
<1>4. QED
  BY <1>1, <1>2, <1>3, PTL DEF Spec

-----------------------------------------------------------------------------
(* Sequences whose elements are of any kind. *)
IsSequence(s) == s \in Seq({s[i] : i \in DOMAIN s})

LEMMA Appended ==
  ASSUME NEW s, IsSequence(s), NEW x
  PROVE  /\ IsSequence(Append(s, x))
         /\ Len(s) \in Nat
         /\ DOMAIN s = 1 .. Len(s)
         /\ Len(Append(s, x)) = Len(s) + 1
         /\ DOMAIN Append(s, x) = 1 .. Len(s) + 1
         /\ \A i \in 1 .. Len(s) : Append(s, x)[i] = s[i]
         /\ Append(s, x)[Len(s) + 1] = x
<1> DEFINE S == {s[i] : i \in DOMAIN s}
<1> DEFINE T == S \cup {x}
<1> DEFINE t == Append(s, x)
<1>1. s \in Seq(S)
  BY DEF IsSequence
<1> HIDE DEF S
<1>2. s \in Seq(T) /\ x \in T
  BY <1>1
<1> HIDE DEF T
<1>3. /\ t \in Seq(T)
      /\ Len(s) \in Nat /\ DOMAIN s = 1 .. Len(s)
      /\ Len(t) = Len(s) + 1 /\ DOMAIN t = 1 .. Len(s) + 1
      /\ \A i \in 1 .. Len(s) : t[i] = s[i]
      /\ t[Len(s) + 1] = x
  BY <1>2
<1> HIDE DEF t
<1>4. t \in Seq({t[i] : i \in DOMAIN t})
  <2>1. t = [i \in 1 .. Len(t) |-> t[i]]
    BY <1>3
  <2>2. t \in [1 .. Len(t) -> {t[i] : i \in DOMAIN t}]
    BY <1>3, <2>1
  <2>3. QED
    BY <1>3, <2>2
<1>5. QED
  BY <1>3, <1>4 DEF IsSequence, t

-----------------------------------------------------------------------------
(* Uses of AES-CCM by the encryption they belong to and their counter.  A  *)
(* password's salt of run r is 2r, a recovery key's 2r+1, a VMK holds r.   *)
RunOf(key) == IF key.kind = "vmk" THEN key.from[1] ELSE key.salt \div 2

Rank(use) == 10 * RunOf(use.under) + use.counter

(* The counter the encryption under way takes next. *)
CounterAt(phase, n) ==
  IF phase = "wrap" /\ n < 6
  THEN Counters[n + 1]
  ELSE IF phase \in {"wrap", "validate"} THEN ValidationCounter ELSE NextNonce

NextCounter == CounterAt(pc, Len(blobs))

(* The uses so far stand in the order of their ranks, and the next one     *)
(* comes after them all: none returns, whatever the clock shows.           *)
NonceInv ==
  /\ pc \in {"idle", "wrap", "validate", "stored"}
  /\ run \in Nat
  /\ IsSequence(blobs) /\ Len(blobs) \in 0 .. 6
  /\ IsSequence(uses)
  /\ \A i \in DOMAIN uses :
       /\ Rank(uses[i]) \in Nat
       /\ uses[i].counter \in 2 .. 9
       /\ Rank(uses[i]) < 10 * run + NextCounter
  /\ \A i, j \in DOMAIN uses : i < j => Rank(uses[i]) < Rank(uses[j])
  /\ block.tag = "block" => block.next = NextNonce

LEMMA RanksOfUses ==
  ASSUME NEW t, NEW c \in Nat, run \in Nat
  PROVE  /\ Rank(Use(ByPassword, t, c)) = 10 * run + c
         /\ Rank(Use(ByRecovery, t, c)) = 10 * run + c
         /\ Rank(Use(Vmk, t, c)) = 10 * run + c
<1>1. RunOf(ByPassword) = run
  BY DEF RunOf, ByPassword, StretchedPassword, Made, PasswordSalt
<1>2. RunOf(ByRecovery) = run
  BY DEF RunOf, ByRecovery, StretchedRecovery, Made, RecoverySalt
<1>3. RunOf(Vmk) = run
  BY DEF RunOf, Vmk, Made
<1>4. QED
  BY <1>1, <1>2, <1>3 DEF Rank, Use

LEMMA NextCounterIsNat ==
  ASSUME NonceInv
  PROVE  NextCounter \in Nat
<1>1. ASSUME NEW phase \in {"idle", "wrap", "validate", "stored"}, NEW n \in 0 .. 6
      PROVE  CounterAt(phase, n) \in Nat
  <2>1. n = 6 \/ n + 1 \in 1 .. 6
    OBVIOUS
  <2>2. QED
    BY <2>1 DEF CounterAt, Counters, ValidationCounter, NextNonce
<1>2. QED
  BY <1>1 DEF NonceInv, NextCounter

(* One more use, of the encryption under way and under its next counter. *)
LEMMA OneMoreUse ==
  ASSUME NonceInv, NEW u, Rank(u) = 10 * run + NextCounter,
         u.counter \in 2 .. 9, NEW n \in Nat, NextCounter < n
  PROVE  LET after == Append(uses, u)
         IN  /\ IsSequence(after)
             /\ \A i \in DOMAIN after :
                  /\ Rank(after[i]) \in Nat
                  /\ after[i].counter \in 2 .. 9
                  /\ Rank(after[i]) < 10 * run + n
             /\ \A i, j \in DOMAIN after : i < j => Rank(after[i]) < Rank(after[j])
<1> DEFINE after == Append(uses, u)
<1> DEFINE len == Len(uses)
<1>1. /\ IsSequence(after) /\ len \in Nat
      /\ DOMAIN uses = 1 .. len /\ DOMAIN after = 1 .. len + 1
      /\ \A i \in 1 .. len : after[i] = uses[i]
      /\ after[len + 1] = u
  BY Appended DEF NonceInv
<1>2. run \in Nat /\ NextCounter \in Nat
  BY NextCounterIsNat DEF NonceInv
<1>3. \A i \in 1 .. len : /\ Rank(uses[i]) \in Nat
                          /\ uses[i].counter \in 2 .. 9
                          /\ Rank(uses[i]) < 10 * run + NextCounter
  BY <1>1 DEF NonceInv
<1>4. \A i, j \in 1 .. len : i < j => Rank(uses[i]) < Rank(uses[j])
  BY <1>1 DEF NonceInv
<1> HIDE DEF after, len
<1>5. \A i \in 1 .. len + 1 : i \in 1 .. len \/ i = len + 1
  BY <1>1
<1>6. \A i \in DOMAIN after : /\ Rank(after[i]) \in Nat
                              /\ after[i].counter \in 2 .. 9
                              /\ Rank(after[i]) < 10 * run + n
  <2> SUFFICES ASSUME NEW i \in DOMAIN after
               PROVE  /\ Rank(after[i]) \in Nat
                      /\ after[i].counter \in 2 .. 9
                      /\ Rank(after[i]) < 10 * run + n
    OBVIOUS
  <2>1. CASE i \in 1 .. len
    <3>1. /\ Rank(after[i]) \in Nat /\ after[i].counter \in 2 .. 9
          /\ Rank(after[i]) < 10 * run + NextCounter
      BY <1>1, <1>3, <2>1
    <3>2. 10 * run + NextCounter < 10 * run + n
      BY <1>2
    <3> DEFINE r == Rank(after[i])
    <3> HIDE DEF r
    <3>3. r \in Nat /\ r < 10 * run + NextCounter
      BY <3>1 DEF r
    <3>4. r < 10 * run + n
      BY <1>2, <3>2, <3>3
    <3>5. QED
      BY <3>1, <3>4 DEF r
  <2>2. CASE i = len + 1
    <3>1. after[i] = u
      BY <1>1, <2>2
    <3>2. Rank(u) \in Nat /\ Rank(u) < 10 * run + n
      BY <1>2
    <3>3. QED
      BY <3>1, <3>2
  <2>3. QED
    BY <1>1, <1>5, <2>1, <2>2
<1>7. \A i, j \in DOMAIN after : i < j => Rank(after[i]) < Rank(after[j])
  <2> SUFFICES ASSUME NEW i \in DOMAIN after, NEW j \in DOMAIN after, i < j
               PROVE  Rank(after[i]) < Rank(after[j])
    OBVIOUS
  <2>1. i \in 1 .. len
    BY <1>1
  <2>2. CASE j \in 1 .. len
    BY <1>1, <1>4, <2>1, <2>2
  <2>3. CASE j = len + 1
    BY <1>1, <1>2, <1>3, <2>1, <2>3
  <2>4. QED
    BY <1>1, <1>5, <2>2, <2>3
<1>8. QED
  BY <1>1, <1>6, <1>7 DEF after

LEMMA NonceInvInductive == NonceInv /\ [Next]_vars => NonceInv'
<1> SUFFICES ASSUME NonceInv, [Next]_vars
             PROVE  NonceInv'
  OBVIOUS
<1>1. CASE Generate
  <2>1. IsSequence(<<>>) /\ Len(<<>>) = 0
    BY DEF IsSequence
  <2>2. NextCounter' = 2 /\ NextCounter = 10
    BY <1>1, <2>1 DEF Generate, NextCounter, CounterAt, NextNonce, Counters
  <2>3. \A i \in DOMAIN uses : Rank(uses[i]) < 10 * run' + 2
    BY <1>1, <2>2 DEF Generate, NonceInv
  <2>4. QED
    BY <1>1, <2>1, <2>2, <2>3 DEF Generate, NonceInv
<1>2. CASE WrapNext
  <2> DEFINE n == Len(blobs) + 1
  <2>1. Len(Wraps) = 6
    BY DEF Wraps
  <2>2. n \in 1 .. 6 /\ IsSequence(blobs') /\ Len(blobs') = n
    BY <1>2, <2>1, Appended DEF WrapNext, NonceInv
  <2>3. NextCounter = Counters[n] /\ Counters[n] \in 2 .. 8
    BY <1>2, <2>1, <2>2 DEF WrapNext, NextCounter, CounterAt, Counters
  <2>4. NextCounter' \in Nat /\ NextCounter < NextCounter'
    BY <1>2, <2>1, <2>2, <2>3 DEF WrapNext, NextCounter, CounterAt, Counters, ValidationCounter
  <2>5. Wraps[n].under \in {ByPassword, ByRecovery, Vmk}
    BY <2>2 DEF Wraps
  <2>6. Rank(Use(Wraps[n].under, time, Counters[n])) = 10 * run + NextCounter
    BY <2>3, <2>5, RanksOfUses DEF NonceInv
  <2>7. Use(Wraps[n].under, time, Counters[n]).counter \in 2 .. 9
    BY <2>3 DEF Use
  <2>8. uses' = Append(uses, Use(Wraps[n].under, time, Counters[n]))
    BY <1>2 DEF WrapNext
  <2> HIDE DEF n
  <2>9. QED
    BY <1>2, <2>2, <2>4, <2>6, <2>7, <2>8, OneMoreUse DEF WrapNext, NonceInv
<1>3. CASE BuildBlock
  <2>1. NextCounter' = 9 /\ NextCounter = 9
    BY <1>3 DEF BuildBlock, NextCounter, CounterAt, ValidationCounter, Wraps
  <2>2. block'.next = NextNonce
    BY <1>3 DEF BuildBlock
  <2>3. QED
    BY <1>3, <2>1, <2>2 DEF BuildBlock, NonceInv
<1>4. CASE Validate
  <2>1. NextCounter' = 10 /\ NextCounter = 9
    BY <1>4 DEF Validate, NextCounter, CounterAt, ValidationCounter, NextNonce
  <2>2. Rank(Use(Vmk, time, ValidationCounter)) = 10 * run + NextCounter
    BY <2>1, RanksOfUses DEF NonceInv, ValidationCounter
  <2>3. Use(Vmk, time, ValidationCounter).counter \in 2 .. 9
    BY DEF Use, ValidationCounter
  <2>4. block'.tag = block.tag /\ block'.next = block.next
    BY <1>4 DEF Validate
  <2>5. QED
    <3>1. /\ uses' = Append(uses, Use(Vmk, time, ValidationCounter))
          /\ pc' = "stored" /\ run' = run /\ blobs' = blobs
      BY <1>4 DEF Validate
    <3>2. /\ IsSequence(uses')
          /\ \A i \in DOMAIN uses' : /\ Rank(uses'[i]) \in Nat
                                     /\ uses'[i].counter \in 2 .. 9
                                     /\ Rank(uses'[i]) < 10 * run + 10
          /\ \A i, j \in DOMAIN uses' : i < j => Rank(uses'[i]) < Rank(uses'[j])
      BY <2>1, <2>2, <2>3, <3>1, OneMoreUse
    <3>3. QED
      BY <2>1, <2>4, <3>1, <3>2 DEF NonceInv
<1>5. CASE UNCHANGED vars
  BY <1>5 DEF vars, NonceInv, NextCounter, CounterAt
<1>6. QED
  BY <1>1, <1>2, <1>3, <1>4, <1>5 DEF Next

(* No key meets a nonce twice, over any number of encryptions and however  *)
(* the clock is set: the keys are new in each run, and inside a run the    *)
(* counters of encryptor.py differ although the time stamp is one.         *)
THEOREM NoNonceTwice == Spec => []NonceUsedOnce
<1>1. Init => NonceInv
  <2>1. IsSequence(<<>>) /\ Len(<<>>) = 0
    BY DEF IsSequence
  <2>2. QED
    BY <2>1 DEF Init, NonceInv, NoBlock
<1>2. NonceInv => NonceUsedOnce
  <2> SUFFICES ASSUME NonceInv
               PROVE  NonceUsedOnce
    OBVIOUS
  <2>1. \A i, j \in DOMAIN uses : i # j => uses[i] # uses[j]
    <3>1. DOMAIN uses \subseteq Nat
      BY DEF NonceInv, IsSequence
    <3>2. QED
      BY <3>1 DEF NonceInv
  <2>2. block.tag = "block" => \A i \in DOMAIN uses : uses[i].counter < block.next
    BY DEF NonceInv, NextNonce
  <2>3. QED
    BY <2>1, <2>2 DEF NonceUsedOnce
<1>3. QED
  BY <1>1, <1>2, NonceInvInductive, PTL DEF Spec

-----------------------------------------------------------------------------
(* Recursion over metadata.  A recursive function is a CHOOSE: that there  *)
(* is one follows from the least place at which there would be none.       *)

LEMMA LeastOfNat ==
  ASSUME NEW T, T \subseteq Nat, T # {}
  PROVE  \E x \in T : \A y \in T : x =< y
<1>1. PICK x \in T : \A y \in T : ~ (<<y, x>> \in OpToRel(<, Nat))
  BY NatLessThanWellFounded, WFMin
<1>2. \A y \in T : ~ (y < x)
  BY <1>1 DEF OpToRel
<1>3. QED
  BY <1>2

LEMMA FirstIs ==
  ASSUME NEW S, S \subseteq Nat
  PROVE  /\ S = {} => First(S) = 0
         /\ S # {} => First(S) \in S /\ \A m \in S : First(S) =< m
BY LeastOfNat DEF First

LEMMA FirstIsLeast ==
  ASSUME NEW S, S \subseteq Nat, NEW n \in S, \A m \in S : n =< m
  PROVE  First(S) = n
<1>1. First(S) \in S /\ First(S) =< n /\ n =< First(S)
  BY FirstIs
<1>2. First(S) \in Nat /\ n \in Nat
  BY <1>1
<1>3. QED
  BY <1>1, <1>2

(* Items of metadata: each has so many bytes and begins with what may be   *)
(* taken for a header.                                                     *)
IsItem(item) == item.bytes \in Nat /\ item.header.size \in Nat

IsItems(items) == IsSequence(items) /\ \A n \in DOMAIN items : IsItem(items[n])

LEMMA ItemsAre ==
  ASSUME NEW items, IsItems(items)
  PROVE  /\ Len(items) \in Nat /\ DOMAIN items = 1 .. Len(items)
         /\ \A n \in 1 .. Len(items) : items[n].bytes \in Nat /\ items[n].header.size \in Nat
<1>1. Len(items) \in Nat /\ DOMAIN items = 1 .. Len(items)
  BY Appended DEF IsItems
<1>2. QED
  BY <1>1 DEF IsItems, IsItem

(* Sums over a sequence of numbers. *)
IsSum(f, b, n) == f = [i \in 0 .. n |-> IF i = 0 THEN 0 ELSE f[i - 1] + b[i].bytes]

LEMMA SumExists ==
  ASSUME NEW L \in Nat, NEW b
  PROVE  \E f : IsSum(f, b, L)
<1> DEFINE T == {n \in Nat : ~\E f : IsSum(f, b, n)}
<1>1. SUFFICES ASSUME T # {} PROVE FALSE
  BY <1>1
<1>2. PICK n \in T : \A m \in T : n =< m
  BY <1>1, LeastOfNat
<1>3. CASE n = 0
  <2>1. IsSum([i \in 0 .. 0 |-> 0], b, 0)
    BY DEF IsSum
  <2>2. QED
    BY <1>2, <1>3, <2>1
<1>4. CASE n # 0
  <2>1. n \in Nat /\ n - 1 \in Nat /\ ~ (n =< n - 1)
    BY <1>2, <1>4
  <2>2. n - 1 \notin T
    BY <1>2, <2>1
  <2>3. PICK f : IsSum(f, b, n - 1)
    BY <2>1, <2>2
  <2> DEFINE g == [i \in 0 .. n |-> IF i = n THEN f[n - 1] + b[n].bytes ELSE f[i]]
  <2>4. IsSum(g, b, n)
    <3>1. \A i \in 0 .. n : g[i] = IF i = 0 THEN 0 ELSE g[i - 1] + b[i].bytes
      <4> SUFFICES ASSUME NEW i \in 0 .. n
                   PROVE  g[i] = IF i = 0 THEN 0 ELSE g[i - 1] + b[i].bytes
        OBVIOUS
      <4>1. CASE i = n
        <5>1. g[n] = f[n - 1] + b[n].bytes /\ g[n - 1] = f[n - 1]
          BY <2>1
        <5>2. QED
          BY <1>4, <4>1, <5>1
      <4>2. CASE i # n /\ i # 0
        <5>1. i \in 0 .. n - 1 /\ i - 1 \in 0 .. n /\ i - 1 # n /\ i \in 0 .. n
          BY <2>1, <4>2
        <5>2. g[i] = f[i] /\ g[i - 1] = f[i - 1]
          BY <4>2, <5>1
        <5>3. f[i] = f[i - 1] + b[i].bytes
          BY <2>3, <4>2, <5>1 DEF IsSum
        <5>4. QED
          BY <4>2, <5>2, <5>3
      <4>3. CASE i # n /\ i = 0
        <5>1. 0 \in 0 .. n - 1 /\ 0 \in 0 .. n
          BY <2>1
        <5>2. g[0] = f[0] /\ f[0] = 0
          BY <2>3, <4>3, <5>1 DEF IsSum
        <5>3. QED
          BY <4>3, <5>2
      <4>4. QED
        BY <4>1, <4>2, <4>3
    <3> HIDE DEF g
    <3>2. DOMAIN g = 0 .. n /\ g = [i \in 0 .. n |-> g[i]]
      BY DEF g
    <3>3. QED
      BY <3>1, <3>2 DEF IsSum
  <2>5. QED
    BY <1>2, <2>4
<1>5. QED
  BY <1>3, <1>4

LEMMA EndsAre ==
  ASSUME NEW items, IsItems(items)
  PROVE  LET e == EndsOf(items)
         IN  /\ e[0] = 0
             /\ \A n \in 0 .. Len(items) : e[n] \in Nat
             /\ \A n \in 1 .. Len(items) : e[n] = e[n - 1] + items[n].bytes
<1> DEFINE L == Len(items)
<1> DEFINE e == EndsOf(items)
<1>1. L \in Nat /\ \A n \in 1 .. L : items[n].bytes \in Nat
  BY ItemsAre
<1> HIDE DEF L
<1>2. \E f : IsSum(f, items, L)
  BY <1>1, SumExists
<1>3. IsSum(e, items, L)
  <2>1. e = CHOOSE f : IsSum(f, items, L)
    BY DEF EndsOf, IsSum, L
  <2>2. QED
    BY <1>2, <2>1
<1> HIDE DEF e
<1>4. e[0] = 0
  BY <1>1, <1>3 DEF IsSum
<1>5. ASSUME NEW n \in 1 .. L PROVE e[n] = e[n - 1] + items[n].bytes
  <2>1. n \in 0 .. L /\ n # 0
    BY <1>1
  <2>2. QED
    BY <1>3, <2>1 DEF IsSum
<1>6. \A n \in 0 .. L : e[n] \in Nat
  <2> DEFINE T == {n \in 0 .. L : e[n] \notin Nat}
  <2>1. SUFFICES ASSUME T # {} PROVE FALSE
    BY <2>1
  <2>2. PICK n \in T : \A m \in T : n =< m
    <3>1. T \subseteq Nat
      BY <1>1
    <3> HIDE DEF T
    <3>2. QED
      BY <2>1, <3>1, LeastOfNat
  <2>3. n # 0
    BY <1>4, <2>2
  <2>4. n - 1 \in 0 .. L /\ ~ (n =< n - 1) /\ n \in 1 .. L
    BY <1>1, <2>2, <2>3
  <2>5. e[n - 1] \in Nat
    BY <2>2, <2>4
  <2>6. QED
    BY <1>1, <1>5, <2>2, <2>4, <2>5
<1>7. QED
  BY <1>4, <1>5, <1>6 DEF e, L

(* Where an item ends depends on those up to it alone. *)
LEMMA SameEnds ==
  ASSUME NEW items, IsItems(items), NEW others, IsItems(others), NEW k \in Nat,
         k =< Len(items), k =< Len(others),
         \A n \in 1 .. k : items[n].bytes = others[n].bytes
  PROVE  \A n \in 0 .. k : EndsOf(items)[n] = EndsOf(others)[n]
<1> DEFINE e == EndsOf(items)
<1> DEFINE f == EndsOf(others)
<1> DEFINE L == Len(items)
<1> DEFINE M == Len(others)
<1>1. L \in Nat /\ M \in Nat /\ k =< L /\ k =< M
  BY ItemsAre
<1>2. /\ e[0] = 0 /\ f[0] = 0
      /\ \A n \in 1 .. L : e[n] = e[n - 1] + items[n].bytes
      /\ \A n \in 1 .. M : f[n] = f[n - 1] + others[n].bytes
  BY EndsAre
<1> HIDE DEF e, f, L, M
<1> DEFINE T == {n \in 0 .. k : e[n] # f[n]}
<1>3. T = {}
  <2>1. SUFFICES ASSUME T # {} PROVE FALSE
    BY <2>1
  <2>2. PICK n \in T : \A m \in T : n =< m
    <3>1. T \subseteq Nat
      OBVIOUS
    <3> HIDE DEF T
    <3>2. QED
      BY <2>1, <3>1, LeastOfNat
  <2>3. n # 0
    BY <1>2, <2>2
  <2>4. /\ n - 1 \in 0 .. k /\ ~ (n =< n - 1)
        /\ n \in 1 .. k /\ n \in 1 .. L /\ n \in 1 .. M
    BY <1>1, <2>2, <2>3
  <2>5. e[n - 1] = f[n - 1]
    BY <2>2, <2>4
  <2>6. QED
    BY <1>2, <2>2, <2>4, <2>5
<1>4. QED
  BY <1>3 DEF e, f

(* Up to an item before which there are no empty ones, ends are apart. *)
LEMMA EndsGrow ==
  ASSUME NEW items, IsItems(items), NEW k \in 0 .. Len(items),
         \A n \in 1 .. k : items[n].bytes > 0
  PROVE  \A i, j \in 0 .. k : i < j => EndsOf(items)[i] < EndsOf(items)[j]
<1> DEFINE e == EndsOf(items)
<1> DEFINE L == Len(items)
<1>1. L \in Nat /\ k \in 0 .. L
  BY ItemsAre
<1>2. /\ \A n \in 0 .. L : e[n] \in Nat
      /\ \A n \in 1 .. L : e[n] = e[n - 1] + items[n].bytes /\ items[n].bytes \in Nat
  BY EndsAre, ItemsAre
<1> HIDE DEF e, L
<1> DEFINE T == {j \in 0 .. k : \E i \in 0 .. k : i < j /\ ~ (e[i] < e[j])}
<1>3. T = {}
  <2>1. SUFFICES ASSUME T # {} PROVE FALSE
    BY <2>1
  <2>2. PICK j \in T : \A m \in T : j =< m
    <3>1. T \subseteq Nat
      BY <1>1
    <3> HIDE DEF T
    <3>2. QED
      BY <2>1, <3>1, LeastOfNat
  <2>3. PICK i \in 0 .. k : i < j /\ ~ (e[i] < e[j])
    BY <2>2
  <2>4. /\ j \in 1 .. k /\ j \in 1 .. L /\ j \in 0 .. L /\ i \in 0 .. L
        /\ j - 1 \in 0 .. k /\ j - 1 \in 0 .. L /\ ~ (j =< j - 1)
    BY <1>1, <2>2, <2>3
  <2>5. e[j] > e[j - 1] /\ e[j] \in Nat /\ e[j - 1] \in Nat /\ e[i] \in Nat
    BY <1>2, <2>4
  <2>6. i # j - 1
    BY <2>3, <2>5
  <2>7. i < j - 1
    BY <2>3, <2>4, <2>6
  <2>8. e[i] < e[j - 1]
    BY <2>2, <2>4, <2>7
  <2>9. QED
    BY <2>3, <2>5, <2>8
<1>4. QED
  BY <1>3 DEF e

LEMMA ItemAtEnd ==
  ASSUME NEW items, IsItems(items), NEW k \in 1 .. Len(items),
         \A n \in 1 .. k - 1 : items[n].bytes > 0
  PROVE  ItemAt(items, EndsOf(items)[k - 1]) = k
<1> DEFINE e == EndsOf(items)
<1> DEFINE L == Len(items)
<1>1. L \in Nat /\ DOMAIN items = 1 .. L /\ k \in 1 .. L /\ k - 1 \in 0 .. L
  BY ItemsAre
<1>2. \A i, j \in 0 .. k - 1 : i < j => e[i] < e[j]
  BY <1>1, EndsGrow
<1>3. \A n \in 0 .. L : e[n] \in Nat
  BY EndsAre
<1> HIDE DEF e, L
<1> DEFINE S == {n \in 1 .. L : e[n - 1] = e[k - 1]}
<1>4. ItemAt(items, e[k - 1]) = First(S)
  BY <1>1 DEF ItemAt, e
<1>5. k \in S /\ S \subseteq Nat
  BY <1>1
<1>6. ASSUME NEW n \in S PROVE k =< n
  <2>1. SUFFICES ASSUME n < k PROVE FALSE
    BY <1>1, <2>1
  <2>2. n - 1 \in 0 .. k - 1 /\ k - 1 \in 0 .. k - 1 /\ n - 1 < k - 1 /\ e[n - 1] = e[k - 1]
    BY <1>1, <2>1
  <2>3. e[k - 1] < e[k - 1] /\ e[k - 1] \in Nat
    BY <1>1, <1>2, <1>3, <2>2
  <2>4. QED
    BY <2>3
<1> HIDE DEF S
<1>7. First(S) = k
  BY <1>5, <1>6, FirstIsLeast
<1>8. QED
  BY <1>4, <1>7 DEF e

(* What stands at a place, if anything. *)
LEMMA ItemAtIs ==
  ASSUME NEW items, IsItems(items), NEW o
  PROVE  \/ ItemAt(items, o) = 0 /\ HeaderAt(items, o) = NoHeader
         \/ /\ ItemAt(items, o) \in 1 .. Len(items)
            /\ EndsOf(items)[ItemAt(items, o) - 1] = o
            /\ HeaderAt(items, o) = items[ItemAt(items, o)].header
<1> DEFINE e == EndsOf(items)
<1> DEFINE S == {n \in DOMAIN items : e[n - 1] = o}
<1>1. Len(items) \in Nat /\ DOMAIN items = 1 .. Len(items)
  BY ItemsAre
<1>2. ItemAt(items, o) = First(S)
  BY DEF ItemAt
<1>3. S \subseteq 1 .. Len(items) /\ S \subseteq Nat
  BY <1>1
<1>4. \A n \in S : e[n - 1] = o
  OBVIOUS
<1> HIDE DEF S, e
<1>5. CASE S = {}
  BY <1>2, <1>3, <1>5, FirstIs DEF HeaderAt
<1>6. CASE S # {}
  <2>1. PICK n \in S : n = First(S)
    BY <1>3, <1>6, FirstIs
  <2>2. n \in 1 .. Len(items) /\ n # 0 /\ e[n - 1] = o
    BY <1>1, <1>3, <1>4
  <2>3. QED
    BY <1>2, <2>1, <2>2 DEF HeaderAt, e
<1>7. QED
  BY <1>5, <1>6

LEMMA SizesAreNat ==
  ASSUME NEW items, IsItems(items), NEW o
  PROVE  HeaderAt(items, o).size \in Nat
<1>1. NoHeader.size = 0
  BY DEF NoHeader
<1>2. \A n \in 1 .. Len(items) : items[n].header.size \in Nat
  BY ItemsAre
<1>3. QED
  BY <1>1, <1>2, ItemAtIs

-----------------------------------------------------------------------------
(* Reading from one place on to the next. *)

IsChain(f, a, n, S, next, head) ==
  f = [o \in a .. n |-> IF o \in S THEN <<>> ELSE <<head[o]>> \o f[next[o]]]

LEMMA ChainExists ==
  ASSUME NEW n \in Nat, NEW S, NEW next, NEW head, n \in S,
         \A o \in 0 .. n : o \notin S => next[o] \in o + 1 .. n
  PROVE  \E f : IsChain(f, 0, n, S, next, head)
<1> DEFINE T == {k \in 0 .. n : ~\E f : IsChain(f, n - k, n, S, next, head)}
<1>1. SUFFICES T = {}
  <2>1. n \in 0 .. n /\ n - n = 0
    OBVIOUS
  <2>2. n \notin T
    BY <1>1
  <2>3. QED
    BY <2>1, <2>2
<1>2. SUFFICES ASSUME T # {} PROVE FALSE
  BY <1>2
<1>3. PICK k \in T : \A m \in T : k =< m
  <2>1. T \subseteq Nat
    OBVIOUS
  <2> HIDE DEF T
  <2>2. QED
    BY <1>2, <2>1, LeastOfNat
<1>4. CASE k = 0
  <2> DEFINE g == [o \in n .. n |-> <<>>]
  <2>1. g = [o \in n .. n |-> IF o \in S THEN <<>> ELSE <<head[o]>> \o g[next[o]]]
    OBVIOUS
  <2>2. IsChain(g, n - k, n, S, next, head)
    BY <1>4, <2>1 DEF IsChain
  <2>3. QED
    BY <1>3, <2>2
<1>5. CASE k # 0
  <2>1. k \in 0 .. n /\ k - 1 \in 0 .. n /\ ~ (k =< k - 1) /\ n - (k - 1) = n - k + 1
    BY <1>3, <1>5
  <2> DEFINE a == n - k
  <2>2. a \in 0 .. n /\ a + 1 \in 0 .. n
    BY <2>1
  <2>3. PICK f : IsChain(f, a + 1, n, S, next, head)
    BY <1>3, <2>1
  <2> HIDE DEF a
  <2> DEFINE first == IF a \in S THEN <<>> ELSE <<head[a]>> \o f[next[a]]
  <2> DEFINE g == [o \in a .. n |-> IF o = a THEN first ELSE f[o]]
  <2>4. \A o \in a + 1 .. n : g[o] = f[o]
    BY <2>2
  <2>5. g[a] = first
    BY <2>2
  <2> HIDE DEF g
  <2>6. ASSUME NEW o \in a .. n
        PROVE  g[o] = IF o \in S THEN <<>> ELSE <<head[o]>> \o g[next[o]]
    <3>1. o \in 0 .. n /\ (o \notin S => next[o] \in a + 1 .. n)
      BY <2>2
    <3>2. CASE o = a
      BY <2>4, <2>5, <3>1, <3>2
    <3>3. CASE o # a
      <4>1. o \in a + 1 .. n
        BY <2>2, <3>3
      <4>2. f[o] = IF o \in S THEN <<>> ELSE <<head[o]>> \o f[next[o]]
        BY <2>3, <4>1 DEF IsChain
      <4>3. QED
        BY <2>4, <3>1, <4>1, <4>2
    <3>4. QED
      BY <3>2, <3>3
  <2>7. g = [o \in a .. n |-> IF o \in S THEN <<>> ELSE <<head[o]>> \o g[next[o]]]
    <3>1. g = [o \in a .. n |-> g[o]]
      BY DEF g
    <3>2. QED
      BY <2>6, <3>1
  <2>8. IsChain(g, n - k, n, S, next, head)
    BY <2>7 DEF IsChain, a
  <2>9. QED
    BY <1>3, <2>8
<1>6. QED
  BY <1>4, <1>5

(* Where _parse_entries stops. *)
StopsAt(items, n, o) ==
  LET size == HeaderAt(items, o).size
  IN  o + EntryHeaderSize > n \/ size < EntryHeaderSize \/ o + size > n

(* What it reads, from each place on. *)
IsReading(f, items, n) ==
  \A o \in 0 .. n :
    f[o] = IF StopsAt(items, n, o) THEN <<>>
           ELSE <<EntryAt(items, o)>> \o f[o + HeaderAt(items, o).size]

LEMMA ParseIs ==
  ASSUME NEW items, IsItems(items), NEW n \in Nat
  PROVE  \E f : IsReading(f, items, n) /\ ParseEntries(items, n) = f[0]
<1> DEFINE S == {o \in 0 .. n : StopsAt(items, n, o)}
<1> DEFINE next == [o \in 0 .. n |-> o + HeaderAt(items, o).size]
<1> DEFINE head == [o \in 0 .. n |-> EntryAt(items, o)]
<1> DEFINE Good(f) ==
      f = [o \in 0 .. n |->
             IF StopsAt(items, n, o) THEN <<>>
             ELSE <<EntryAt(items, o)>> \o f[o + HeaderAt(items, o).size]]
<1>1. n \in S
  BY DEF StopsAt, EntryHeaderSize
<1>2. \A o \in 0 .. n : o \notin S => next[o] \in o + 1 .. n
  <2>1. \A o \in 0 .. n : HeaderAt(items, o).size \in Nat
    BY SizesAreNat
  <2>2. QED
    BY <2>1 DEF StopsAt, EntryHeaderSize
<1>3. \A f : IsChain(f, 0, n, S, next, head) => Good(f)
  BY DEF IsChain
<1> HIDE DEF S, next, head
<1>4. \E f : Good(f)
  BY <1>1, <1>2, <1>3, ChainExists
<1>5. ParseEntries(items, n) = (CHOOSE f : Good(f))[0]
  BY DEF ParseEntries, StopsAt
<1>6. \A f : Good(f) => IsReading(f, items, n)
  BY DEF IsReading
<1> HIDE DEF Good
<1>7. QED
  BY <1>4, <1>5, <1>6

(* An entry as _build_entry makes it. *)
IsEntry(item) ==
  /\ item.bytes \in Nat /\ item.bytes >= EntryHeaderSize
  /\ item.header.size = item.bytes
  /\ item.field.tag = "entry"

LEMMA Prepended ==
  ASSUME NEW x, NEW t, IsSequence(t)
  PROVE  <<x>> \o t = [i \in 1 .. Len(t) + 1 |-> IF i = 1 THEN x ELSE t[i - 1]]
<1> DEFINE T == {t[i] : i \in DOMAIN t} \cup {x}
<1>1. t \in Seq(T) /\ x \in T
  <2>1. {t[i] : i \in DOMAIN t} \subseteq T
    OBVIOUS
  <2>2. QED
    BY <2>1 DEF IsSequence
<1> HIDE DEF T
<1>2. QED
  BY <1>1

LEMMA ListIsSequence ==
  ASSUME NEW n \in Nat, NEW g
  PROVE  LET s == [i \in 1 .. n |-> g[i]] IN IsSequence(s) /\ Len(s) = n
<1> DEFINE s == [i \in 1 .. n |-> g[i]]
<1> DEFINE S == {s[i] : i \in 1 .. n}
<1>1. s \in [1 .. n -> S] /\ DOMAIN s = 1 .. n
  OBVIOUS
<1>2. S = {s[i] : i \in DOMAIN s}
  BY <1>1
<1> HIDE DEF S, s
<1>3. s \in Seq(S) /\ Len(s) = n
  BY <1>1
<1>4. QED
  BY <1>2, <1>3 DEF IsSequence, s

(* Entries that were built one after the other are read one after the      *)
(* other, whatever stands inside and behind them.                          *)
LEMMA EntriesAreRead ==
  ASSUME NEW items, IsItems(items), NEW m \in 0 .. Len(items),
         \A n \in 1 .. m : IsEntry(items[n])
  PROVE  ParseEntries(items, EndsOf(items)[m]) = [n \in 1 .. m |-> Stated(items[n])]
<1> DEFINE e == EndsOf(items)
<1> DEFINE L == Len(items)
<1> DEFINE G(k) == [j \in 1 .. m - k |-> Stated(items[k + j])]
<1>1. L \in Nat /\ m \in 0 .. L /\ m \in Nat
  BY ItemsAre
<1>2. /\ e[0] = 0 /\ \A n \in 0 .. L : e[n] \in Nat
      /\ \A n \in 1 .. L : e[n] = e[n - 1] + items[n].bytes
  BY EndsAre
<1>3. \A i, j \in 0 .. m : i < j => e[i] < e[j]
  BY EndsGrow DEF IsEntry, EntryHeaderSize
<1>4. \A n \in 1 .. m : ItemAt(items, e[n - 1]) = n
  <2> SUFFICES ASSUME NEW n \in 1 .. m PROVE ItemAt(items, e[n - 1]) = n
    OBVIOUS
  <2>1. n \in 1 .. L /\ \A i \in 1 .. n - 1 : i \in 1 .. m
    BY <1>1
  <2>2. \A i \in 1 .. n - 1 : items[i].bytes > 0
    BY <2>1 DEF IsEntry, EntryHeaderSize
  <2>3. QED
    BY <2>1, <2>2, ItemAtEnd
<1>5. PICK f : IsReading(f, items, e[m]) /\ ParseEntries(items, e[m]) = f[0]
  BY <1>1, <1>2, ParseIs
<1>6. ASSUME NEW k \in 1 .. m
      PROVE  f[e[k - 1]] = <<Stated(items[k])>> \o f[e[k]]
  <2>1. k \in 1 .. L /\ k - 1 \in 0 .. L /\ k \in 0 .. L /\ m \in 0 .. L
    BY <1>1
  <2>2. ItemAt(items, e[k - 1]) = k /\ k # 0
    BY <1>4, <2>1
  <2>3. HeaderAt(items, e[k - 1]) = items[k].header
    BY <2>2 DEF HeaderAt
  <2>4. EntryAt(items, e[k - 1]) = Stated(items[k])
    BY <2>2, <2>3 DEF EntryAt, RawData, Stated, IsEntry
  <2>5. /\ e[k] = e[k - 1] + items[k].bytes /\ e[k] =< e[m]
        /\ e[k] \in Nat /\ e[k - 1] \in Nat /\ e[m] \in Nat
        /\ items[k].bytes \in Nat /\ items[k].bytes >= 8 /\ items[k].header.size = items[k].bytes
    <3>1. k = m \/ k < m
      BY <1>1
    <3>2. k = m \/ e[k] < e[m]
      BY <1>1, <1>3, <3>1
    <3>3. QED
      BY <1>2, <2>1, <3>2 DEF IsEntry, EntryHeaderSize
  <2>6. ~StopsAt(items, e[m], e[k - 1]) /\ e[k - 1] \in 0 .. e[m]
    BY <2>3, <2>5 DEF StopsAt, EntryHeaderSize
  <2>7. QED
    BY <1>5, <2>3, <2>4, <2>5, <2>6 DEF IsReading
<1>7. f[e[m]] = <<>>
  <2>1. e[m] \in Nat
    BY <1>1, <1>2
  <2>2. StopsAt(items, e[m], e[m]) /\ e[m] \in 0 .. e[m]
    BY <2>1 DEF StopsAt, EntryHeaderSize
  <2>3. QED
    BY <1>5, <2>2 DEF IsReading
<1> HIDE DEF e, L
<1> DEFINE T == {i \in 0 .. m : f[e[m - i]] # G(m - i)}
<1>8. T = {}
  <2>1. SUFFICES ASSUME T # {} PROVE FALSE
    BY <2>1
  <2>2. PICK i \in T : \A j \in T : i =< j
    <3>1. T \subseteq Nat
      BY <1>1
    <3> HIDE DEF T
    <3>2. QED
      BY <2>1, <3>1, LeastOfNat
  <2>3. i # 0
    <3>1. G(m - 0) = <<>>
      BY <1>1
    <3>2. QED
      BY <1>1, <1>7, <2>2, <3>1
  <2> DEFINE k == m - i + 1
  <2>4. /\ k \in 1 .. m /\ k - 1 = m - i /\ m - (i - 1) = k /\ m - k \in Nat
        /\ i - 1 \in 0 .. m /\ ~ (i =< i - 1)
    BY <1>1, <2>2, <2>3
  <2>5. f[e[k]] = G(k)
    BY <2>2, <2>4
  <2> HIDE DEF k
  <2>6. f[e[k - 1]] = <<Stated(items[k])>> \o G(k)
    BY <1>6, <2>4, <2>5
  <2>7. IsSequence(G(k)) /\ Len(G(k)) = m - k
    <3> DEFINE g == [j \in 1 .. m - k |-> Stated(items[k + j])]
    <3>1. G(k) = [j \in 1 .. m - k |-> g[j]]
      OBVIOUS
    <3> HIDE DEF g
    <3>2. QED
      BY <2>4, <3>1, ListIsSequence
  <2>8. <<Stated(items[k])>> \o G(k)
          = [j \in 1 .. m - k + 1 |-> IF j = 1 THEN Stated(items[k]) ELSE G(k)[j - 1]]
    <3> DEFINE x == Stated(items[k])
    <3> DEFINE t == G(k)
    <3>1. IsSequence(t) /\ Len(t) = m - k
      BY <2>7
    <3> HIDE DEF x, t
    <3>2. <<x>> \o t = [j \in 1 .. m - k + 1 |-> IF j = 1 THEN x ELSE t[j - 1]]
      BY <3>1, Prepended
    <3>3. QED
      BY <3>2 DEF x, t
  <2>9. G(k - 1) = [j \in 1 .. m - k + 1 |-> IF j = 1 THEN Stated(items[k]) ELSE G(k)[j - 1]]
    <3>1. m - (k - 1) = m - k + 1 /\ m - k \in Nat /\ k \in Nat
      BY <1>1, <2>4
    <3>2. \A j \in 1 .. m - k + 1 : j = 1 \/ (j - 1 \in 1 .. m - k /\ k + (j - 1) = k - 1 + j)
      BY <3>1
    <3>3. k - 1 + 1 = k
      BY <3>1
    <3>4. QED
      BY <3>1, <3>2, <3>3
  <2>10. QED
    BY <2>2, <2>4, <2>6, <2>8, <2>9
<1>9. G(0) = [n \in 1 .. m |-> Stated(items[n])]
  BY <1>1
<1> HIDE DEF G
<1>10. f[e[0]] = G(0)
  <2>1. m \in 0 .. m /\ m - m = 0
    BY <1>1
  <2>2. \A i \in 0 .. m : f[e[m - i]] = G(m - i)
    BY <1>8
  <2>3. f[e[m - m]] = G(m - m)
    BY <2>1, <2>2
  <2>4. QED
    BY <2>1, <2>3
<1>11. QED
  BY <1>2, <1>5, <1>9, <1>10 DEF e

-----------------------------------------------------------------------------
(* Metadata put together. *)

LEMMA Joined ==
  ASSUME NEW u, IsSequence(u), NEW v, IsSequence(v)
  PROVE  /\ IsSequence(u \o v) /\ Len(u) \in Nat /\ Len(v) \in Nat
         /\ Len(u \o v) = Len(u) + Len(v)
         /\ DOMAIN u = 1 .. Len(u) /\ DOMAIN v = 1 .. Len(v)
         /\ DOMAIN (u \o v) = 1 .. Len(u) + Len(v)
         /\ \A i \in 1 .. Len(u) : (u \o v)[i] = u[i]
         /\ \A i \in 1 .. Len(v) : (u \o v)[Len(u) + i] = v[i]
<1> DEFINE S == {u[i] : i \in DOMAIN u}
<1> DEFINE T == {v[i] : i \in DOMAIN v}
<1> DEFINE W == S \cup T
<1> DEFINE w == u \o v
<1>1. u \in Seq(S) /\ v \in Seq(T)
  BY DEF IsSequence
<1> HIDE DEF S, T
<1>2. u \in Seq(W) /\ v \in Seq(W)
  BY <1>1
<1> HIDE DEF W
<1>3. /\ w \in Seq(W) /\ Len(u) \in Nat /\ Len(v) \in Nat
      /\ Len(w) = Len(u) + Len(v)
      /\ DOMAIN u = 1 .. Len(u) /\ DOMAIN v = 1 .. Len(v) /\ DOMAIN w = 1 .. Len(u) + Len(v)
      /\ \A i \in 1 .. Len(u) : w[i] = u[i]
      /\ \A i \in 1 .. Len(v) : w[Len(u) + i] = v[i]
  BY <1>2
<1> HIDE DEF w
<1>4. IsSequence(w)
  <2> DEFINE n == Len(u) + Len(v)
  <2>1. n \in Nat /\ w = [i \in 1 .. n |-> w[i]]
    BY <1>3
  <2> HIDE DEF n
  <2>2. QED
    BY <2>1, ListIsSequence
<1>5. QED
  BY <1>3, <1>4 DEF w

LEMMA SameSequence ==
  ASSUME NEW u, IsSequence(u), NEW v, IsSequence(v), Len(u) = Len(v),
         \A i \in 1 .. Len(u) : u[i] = v[i]
  PROVE  u = v
<1>1. /\ u \in Seq({u[i] : i \in DOMAIN u}) /\ v \in Seq({v[i] : i \in DOMAIN v})
  BY DEF IsSequence
<1>2. u = [i \in 1 .. Len(u) |-> u[i]] /\ v = [i \in 1 .. Len(v) |-> v[i]]
  BY <1>1
<1>3. QED
  BY <1>2

LEMMA JoinedItems ==
  ASSUME NEW u, IsItems(u), NEW v, IsItems(v)
  PROVE  IsItems(u \o v)
<1> DEFINE L == Len(u)
<1> DEFINE M == Len(v)
<1> DEFINE w == u \o v
<1>1. /\ IsSequence(w) /\ L \in Nat /\ M \in Nat /\ DOMAIN w = 1 .. L + M
      /\ DOMAIN u = 1 .. L /\ DOMAIN v = 1 .. M
      /\ \A i \in 1 .. L : w[i] = u[i]
      /\ \A i \in 1 .. M : w[L + i] = v[i]
  BY Joined DEF IsItems
<1> HIDE DEF L, M, w
<1>2. \A i \in 1 .. L + M : i \in 1 .. L \/ (i - L \in 1 .. M /\ L + (i - L) = i)
  BY <1>1
<1>3. \A i \in 1 .. L + M : IsItem(w[i])
  BY <1>1, <1>2 DEF IsItems
<1>4. QED
  BY <1>1, <1>3 DEF IsItems, w

(* The second part begins where the first one ends. *)
LEMMA EndsOfJoined ==
  ASSUME NEW u, IsItems(u), NEW v, IsItems(v)
  PROVE  /\ Width(u) \in Nat
         /\ \A k \in 0 .. Len(u) : EndsOf(u \o v)[k] = EndsOf(u)[k]
         /\ \A k \in 0 .. Len(v) : EndsOf(u \o v)[Len(u) + k] = Width(u) + EndsOf(v)[k]
<1> DEFINE L == Len(u)
<1> DEFINE M == Len(v)
<1> DEFINE w == u \o v
<1> DEFINE e == EndsOf(w)
<1> DEFINE f == EndsOf(v)
<1>1. /\ L \in Nat /\ M \in Nat /\ Len(w) = L + M
      /\ \A i \in 1 .. L : w[i] = u[i]
      /\ \A i \in 1 .. M : w[L + i] = v[i]
  BY Joined DEF IsItems
<1>2. IsItems(w)
  BY JoinedItems
<1>3. \A k \in 0 .. L : e[k] = EndsOf(u)[k]
  <2> HIDE DEF w
  <2>1. L =< L /\ L =< Len(w) /\ \A n \in 1 .. L : w[n].bytes = u[n].bytes
    BY <1>1
  <2>2. QED
    BY <1>1, <1>2, <2>1, SameEnds
<1>4. Width(u) \in Nat /\ e[L] = Width(u)
  <2>1. L \in 0 .. L
    BY <1>1
  <2>2. QED
    BY <1>3, <2>1, EndsAre DEF Width
<1>5. /\ \A n \in 1 .. L + M : e[n] = e[n - 1] + w[n].bytes
      /\ f[0] = 0 /\ \A n \in 0 .. M : f[n] \in Nat
      /\ \A n \in 1 .. M : f[n] = f[n - 1] + v[n].bytes /\ v[n].bytes \in Nat
  BY <1>1, <1>2, EndsAre, ItemsAre
<1> HIDE DEF L, M, w, e, f
<1> DEFINE W == Width(u)
<1> DEFINE T == {k \in 0 .. M : e[L + k] # W + f[k]}
<1> HIDE DEF W
<1>6. T = {}
  <2>1. SUFFICES ASSUME T # {} PROVE FALSE
    BY <2>1
  <2>2. PICK k \in T : \A m \in T : k =< m
    <3>1. T \subseteq Nat
      BY <1>1
    <3> HIDE DEF T
    <3>2. QED
      BY <2>1, <3>1, LeastOfNat
  <2>3. k # 0
    <3>1. e[L + 0] = W + f[0]
      BY <1>1, <1>4, <1>5 DEF W
    <3>2. QED
      BY <2>2, <3>1
  <2>4. /\ k \in 1 .. M /\ k - 1 \in 0 .. M /\ ~ (k =< k - 1)
        /\ L + k \in 1 .. L + M /\ L + k - 1 = L + (k - 1)
    BY <1>1, <2>2, <2>3
  <2>5. e[L + (k - 1)] = W + f[k - 1]
    BY <2>2, <2>4
  <2>6. e[L + k] = e[L + (k - 1)] + w[L + k].bytes /\ w[L + k] = v[k]
    BY <1>1, <1>5, <2>4
  <2>7. f[k] = f[k - 1] + v[k].bytes /\ v[k].bytes \in Nat /\ f[k - 1] \in Nat /\ W \in Nat
    BY <1>4, <1>5, <2>4 DEF W
  <2>8. e[L + k] = W + f[k]
    BY <2>5, <2>6, <2>7
  <2>9. QED
    BY <2>2, <2>8
<1>7. QED
  BY <1>3, <1>4, <1>6 DEF L, M, w, e, f, W

LEMMA WidthOfJoined ==
  ASSUME NEW u, IsItems(u), NEW v, IsItems(v)
  PROVE  Width(u \o v) = Width(u) + Width(v)
<1>1. Len(v) \in 0 .. Len(v) /\ Len(u \o v) = Len(u) + Len(v)
  BY Joined DEF IsItems
<1>2. EndsOf(u \o v)[Len(u) + Len(v)] = Width(u) + EndsOf(v)[Len(v)]
  BY <1>1, EndsOfJoined
<1>3. QED
  BY <1>1, <1>2 DEF Width

(* What is left behind the first part is the second one. *)
LEMMA DroppedIsRest ==
  ASSUME NEW u, IsItems(u), NEW v, IsItems(v), Len(v) > 0,
         \A n \in 1 .. Len(u) : u[n].bytes > 0
  PROVE  Dropped(u \o v, Width(u)) = v
<1> DEFINE L == Len(u)
<1> DEFINE M == Len(v)
<1> DEFINE w == u \o v
<1>1. /\ L \in Nat /\ M \in Nat /\ Len(w) = L + M /\ IsSequence(w) /\ IsSequence(v)
      /\ DOMAIN w = 1 .. L + M /\ DOMAIN v = 1 .. M
      /\ \A i \in 1 .. L : w[i] = u[i]
      /\ \A i \in 1 .. M : w[L + i] = v[i]
  BY Joined DEF IsItems
<1>2. IsItems(w)
  BY JoinedItems
<1>3. EndsOf(w)[L] = Width(u)
  <2>1. 0 \in 0 .. M /\ L + 0 = L /\ EndsOf(v)[0] = 0
    BY <1>1, EndsAre
  <2>2. EndsOf(w)[L + 0] = Width(u) + EndsOf(v)[0] /\ Width(u) \in Nat
    BY <2>1, EndsOfJoined
  <2>3. QED
    BY <2>1, <2>2
<1>4. M > 0 /\ \A n \in 1 .. L : w[n].bytes > 0
  BY <1>1
<1> HIDE DEF L, M, w
<1> DEFINE k == L + 1
<1>5. k \in 1 .. Len(w) /\ k - 1 = L
  BY <1>1, <1>4
<1>6. ItemAt(w, Width(u)) = k /\ k # 0
  <2> HIDE DEF k
  <2>1. \A n \in 1 .. k - 1 : w[n].bytes > 0
    BY <1>4, <1>5
  <2>2. ItemAt(w, EndsOf(w)[k - 1]) = k
    BY <1>2, <1>5, <2>1, ItemAtEnd
  <2>3. QED
    BY <1>1, <1>3, <1>5, <2>2
<1>7. Dropped(w, Width(u)) = SubSeq(w, L + 1, L + M)
  BY <1>1, <1>6 DEF Dropped
<1>8. SubSeq(w, L + 1, L + M) = [i \in 1 .. M |-> w[L + i]]
  <2> DEFINE S == {w[i] : i \in DOMAIN w}
  <2>1. w \in Seq(S)
    BY <1>1 DEF IsSequence
  <2> HIDE DEF S
  <2>2. L + M - (L + 1) + 1 = M /\ \A i \in 1 .. M : i + (L + 1) - 1 = L + i
    BY <1>1
  <2>3. QED
    BY <1>1, <2>1, <2>2
<1>9. v = [i \in 1 .. M |-> v[i]]
  <2> DEFINE S == {v[i] : i \in DOMAIN v}
  <2>1. v \in Seq(S)
    BY <1>1 DEF IsSequence
  <2> HIDE DEF S
  <2>2. QED
    BY <1>1, <2>1
<1>10. QED
  BY <1>1, <1>7, <1>8, <1>9 DEF w

(* _parse_entries on nothing but entries. *)
LEMMA ParsedIsStated ==
  ASSUME NEW items, IsItems(items), \A n \in 1 .. Len(items) : IsEntry(items[n])
  PROVE  /\ Parsed(items) = AllStated(items)
         /\ DOMAIN AllStated(items) = 1 .. Len(items)
         /\ IsSequence(AllStated(items)) /\ Len(AllStated(items)) = Len(items)
         /\ \A n \in 1 .. Len(items) : AllStated(items)[n] = Stated(items[n])
<1> DEFINE L == Len(items)
<1>1. L \in Nat /\ DOMAIN items = 1 .. L /\ L \in 0 .. L
  BY ItemsAre
<1>2. AllStated(items) = [n \in 1 .. L |-> Stated(items[n])]
  BY <1>1 DEF AllStated
<1>3. Parsed(items) = [n \in 1 .. L |-> Stated(items[n])]
  BY <1>1, EntriesAreRead DEF Parsed, Width
<1>4. IsSequence(AllStated(items)) /\ Len(AllStated(items)) = L
  <2> DEFINE g == [n \in 1 .. L |-> Stated(items[n])]
  <2>1. AllStated(items) = [n \in 1 .. L |-> g[n]]
    BY <1>2
  <2> HIDE DEF g
  <2>2. QED
    BY <1>1, <2>1, ListIsSequence
<1>5. QED
  BY <1>1, <1>2, <1>3, <1>4

-----------------------------------------------------------------------------
(* What builder.py builds. *)

LEMMA TuplesAre ==
  /\ \A a : IsSequence(<<a>>) /\ Len(<<a>>) = 1 /\ <<a>>[1] = a
  /\ \A a, b : /\ IsSequence(<<a, b>>) /\ Len(<<a, b>>) = 2
               /\ <<a, b>>[1] = a /\ <<a, b>>[2] = b
  /\ \A a, b, c :
       /\ IsSequence(<<a, b, c>>) /\ Len(<<a, b, c>>) = 3
       /\ <<a, b, c>>[1] = a /\ <<a, b, c>>[2] = b /\ <<a, b, c>>[3] = c
  /\ \A a, b, c, d :
       /\ IsSequence(<<a, b, c, d>>) /\ Len(<<a, b, c, d>>) = 4
       /\ <<a, b, c, d>>[1] = a /\ <<a, b, c, d>>[2] = b
       /\ <<a, b, c, d>>[3] = c /\ <<a, b, c, d>>[4] = d
  /\ \A a, b, c, d, e :
       /\ IsSequence(<<a, b, c, d, e>>) /\ Len(<<a, b, c, d, e>>) = 5
       /\ <<a, b, c, d, e>>[1] = a /\ <<a, b, c, d, e>>[2] = b
       /\ <<a, b, c, d, e>>[3] = c /\ <<a, b, c, d, e>>[4] = d
       /\ <<a, b, c, d, e>>[5] = e
<1>1. ASSUME NEW a PROVE IsSequence(<<a>>) /\ Len(<<a>>) = 1 /\ <<a>>[1] = a
  <2> DEFINE s == <<a>>
  <2>1. s = [i \in 1 .. 1 |-> s[i]] /\ Len(s) = 1 /\ s[1] = a
    OBVIOUS
  <2> HIDE DEF s
  <2>2. IsSequence(s)
    BY <2>1, ListIsSequence
  <2>3. QED
    BY <2>1, <2>2 DEF s
<1>2. ASSUME NEW a, NEW b
      PROVE  /\ IsSequence(<<a, b>>) /\ Len(<<a, b>>) = 2
             /\ <<a, b>>[1] = a /\ <<a, b>>[2] = b
  <2> DEFINE s == <<a, b>>
  <2>1. s = [i \in 1 .. 2 |-> s[i]] /\ Len(s) = 2 /\ s[1] = a /\ s[2] = b
    OBVIOUS
  <2> HIDE DEF s
  <2>2. IsSequence(s)
    BY <2>1, ListIsSequence
  <2>3. QED
    BY <2>1, <2>2 DEF s
<1>3. ASSUME NEW a, NEW b, NEW c
      PROVE  /\ IsSequence(<<a, b, c>>) /\ Len(<<a, b, c>>) = 3
             /\ <<a, b, c>>[1] = a /\ <<a, b, c>>[2] = b /\ <<a, b, c>>[3] = c
  <2> DEFINE s == <<a, b, c>>
  <2>1. s = [i \in 1 .. 3 |-> s[i]] /\ Len(s) = 3 /\ s[1] = a /\ s[2] = b /\ s[3] = c
    OBVIOUS
  <2> HIDE DEF s
  <2>2. IsSequence(s)
    BY <2>1, ListIsSequence
  <2>3. QED
    BY <2>1, <2>2 DEF s
<1>4. ASSUME NEW a, NEW b, NEW c, NEW d
      PROVE  /\ IsSequence(<<a, b, c, d>>) /\ Len(<<a, b, c, d>>) = 4
             /\ <<a, b, c, d>>[1] = a /\ <<a, b, c, d>>[2] = b
             /\ <<a, b, c, d>>[3] = c /\ <<a, b, c, d>>[4] = d
  <2> DEFINE s == <<a, b, c, d>>
  <2>1. /\ s = [i \in 1 .. 4 |-> s[i]] /\ Len(s) = 4
        /\ s[1] = a /\ s[2] = b /\ s[3] = c /\ s[4] = d
    OBVIOUS
  <2> HIDE DEF s
  <2>2. IsSequence(s)
    BY <2>1, ListIsSequence
  <2>3. QED
    BY <2>1, <2>2 DEF s
<1>5. ASSUME NEW a, NEW b, NEW c, NEW d, NEW e
      PROVE  /\ IsSequence(<<a, b, c, d, e>>) /\ Len(<<a, b, c, d, e>>) = 5
             /\ <<a, b, c, d, e>>[1] = a /\ <<a, b, c, d, e>>[2] = b
             /\ <<a, b, c, d, e>>[3] = c /\ <<a, b, c, d, e>>[4] = d
             /\ <<a, b, c, d, e>>[5] = e
  <2> DEFINE s == <<a, b, c, d, e>>
  <2>1. /\ s = [i \in 1 .. 5 |-> s[i]] /\ Len(s) = 5
        /\ s[1] = a /\ s[2] = b /\ s[3] = c /\ s[4] = d /\ s[5] = e
    OBVIOUS
  <2> HIDE DEF s
  <2>2. IsSequence(s)
    BY <2>1, ListIsSequence
  <2>3. QED
    BY <2>1, <2>2 DEF s
<1>6. QED
  BY <1>1, <1>2, <1>3, <1>4, <1>5, Zenon

(* The width of a few items. *)
LEMMA FewItems ==
  ASSUME NEW s, IsSequence(s), Len(s) \in 1 .. 5, \A n \in 1 .. Len(s) : IsItem(s[n])
  PROVE  /\ IsItems(s)
         /\ Len(s) = 1 => Width(s) = s[1].bytes
         /\ Len(s) = 2 => Width(s) = s[1].bytes + s[2].bytes
         /\ Len(s) = 3 => Width(s) = s[1].bytes + s[2].bytes + s[3].bytes
         /\ Len(s) = 4 => Width(s) = s[1].bytes + s[2].bytes + s[3].bytes + s[4].bytes
         /\ Len(s) = 5 => Width(s) = s[1].bytes + s[2].bytes + s[3].bytes
                                      + s[4].bytes + s[5].bytes
<1>1. IsItems(s)
  BY Appended DEF IsItems
<1> DEFINE e == EndsOf(s)
<1> DEFINE L == Len(s)
<1>2. e[0] = 0 /\ \A n \in 1 .. L : e[n] = e[n - 1] + s[n].bytes /\ s[n].bytes \in Nat
  BY <1>1, EndsAre, ItemsAre
<1>3. Width(s) = e[L] /\ L \in 1 .. 5
  BY DEF Width
<1> HIDE DEF e, L
<1>4. e[1] = s[1].bytes /\ s[1].bytes \in Nat
  <2>1. 1 \in 1 .. L /\ 1 - 1 = 0
    BY <1>3
  <2>2. e[1] = e[1 - 1] + s[1].bytes /\ s[1].bytes \in Nat
    BY <1>2, <2>1
  <2>3. QED
    BY <1>2, <2>1, <2>2
<1>5. ASSUME L >= 2 PROVE e[2] = e[1] + s[2].bytes /\ s[2].bytes \in Nat
  <2>1. 2 \in 1 .. L /\ 2 - 1 = 1
    BY <1>3, <1>5
  <2>2. e[2] = e[2 - 1] + s[2].bytes /\ s[2].bytes \in Nat
    BY <1>2, <2>1
  <2>3. QED
    BY <2>1, <2>2
<1>6. ASSUME L >= 3 PROVE e[3] = e[2] + s[3].bytes /\ s[3].bytes \in Nat
  <2>1. 3 \in 1 .. L /\ 3 - 1 = 2
    BY <1>3, <1>6
  <2>2. e[3] = e[3 - 1] + s[3].bytes /\ s[3].bytes \in Nat
    BY <1>2, <2>1
  <2>3. QED
    BY <2>1, <2>2
<1>7. ASSUME L >= 4 PROVE e[4] = e[3] + s[4].bytes /\ s[4].bytes \in Nat
  <2>1. 4 \in 1 .. L /\ 4 - 1 = 3
    BY <1>3, <1>7
  <2>2. e[4] = e[4 - 1] + s[4].bytes /\ s[4].bytes \in Nat
    BY <1>2, <2>1
  <2>3. QED
    BY <2>1, <2>2
<1>8. ASSUME L >= 5 PROVE e[5] = e[4] + s[5].bytes /\ s[5].bytes \in Nat
  <2>1. 5 \in 1 .. L /\ 5 - 1 = 4
    BY <1>3, <1>8
  <2>2. e[5] = e[5 - 1] + s[5].bytes /\ s[5].bytes \in Nat
    BY <1>2, <2>1
  <2>3. QED
    BY <2>1, <2>2
<1>9. CASE L = 1
  BY <1>1, <1>3, <1>4, <1>9 DEF L
<1>10. CASE L = 2
  <2>1. e[2] = s[1].bytes + s[2].bytes
    BY <1>4, <1>5, <1>10
  <2>2. QED
    BY <1>1, <1>3, <1>10, <2>1 DEF L
<1>11. CASE L = 3
  <2>1. e[3] = s[1].bytes + s[2].bytes + s[3].bytes
    BY <1>4, <1>5, <1>6, <1>11
  <2>2. QED
    BY <1>1, <1>3, <1>11, <2>1 DEF L
<1>12. CASE L = 4
  <2>1. e[4] = s[1].bytes + s[2].bytes + s[3].bytes + s[4].bytes
    BY <1>4, <1>5, <1>6, <1>7, <1>12
  <2>2. QED
    BY <1>1, <1>3, <1>12, <2>1 DEF L
<1>13. CASE L = 5
  <2>1. e[5] = s[1].bytes + s[2].bytes + s[3].bytes + s[4].bytes + s[5].bytes
    BY <1>4, <1>5, <1>6, <1>7, <1>8, <1>13
  <2>2. QED
    BY <1>1, <1>3, <1>13, <2>1 DEF L
<1>14. L \in {1, 2, 3, 4, 5}
  BY <1>3
<1>15. QED
  BY <1>9, <1>10, <1>11, <1>12, <1>13, <1>14

LEMMA FieldIsItem ==
  ASSUME NEW b \in Nat, NEW f
  PROVE  /\ IsItem(Field(b, f)) /\ Field(b, f).bytes = b
         /\ Field(b, f).field = f /\ Field(b, f).header = NoHeader
BY DEF Field, IsItem, NoHeader

LEMMA OpaqueIsItem ==
  ASSUME NEW b \in Nat
  PROVE  IsItem(Opaque(b)) /\ Opaque(b).bytes = b
BY FieldIsItem DEF Opaque

LEMMA EntryIsBuilt ==
  ASSUME NEW type, NEW value, NEW content, IsItems(content)
  PROVE  LET b == BuildEntry(type, value, content)
         IN  /\ IsEntry(b) /\ IsItem(b)
             /\ b.bytes = 8 + Width(content) /\ b.content = content
             /\ b.header.type = type /\ b.header.value = value
             /\ Stated(b) = [type |-> type, value |-> value, raw |-> content]
<1>1. Width(content) \in Nat
  <2>1. Len(content) \in 0 .. Len(content)
    BY ItemsAre
  <2>2. QED
    BY <2>1, EndsAre DEF Width
<1>2. QED
  BY <1>1 DEF BuildEntry, IsEntry, IsItem, Stated, EntryHeaderSize

(* A time stamp and a wrapped key. *)
IsStamp(t) == t.low \in Nat
IsKey(key) == key.blob.bytes \in Nat

LEMMA PayloadIs ==
  ASSUME NEW t, IsStamp(t), NEW key, IsKey(key)
  PROVE  /\ IsItems(CcmPayload(t, key)) /\ Len(CcmPayload(t, key)) = 3
         /\ Width(CcmPayload(t, key)) = 12 + key.blob.bytes
         /\ ReadCcm(CcmPayload(t, key))
              = [time |-> t, counter |-> key.counter, blob |-> key.blob]
<1> DEFINE a == TimeField(t)
<1> DEFINE b == Field(4, [tag |-> "counter", n |-> key.counter])
<1> DEFINE c == Field(key.blob.bytes, key.blob)
<1>1. /\ IsItem(a) /\ a.bytes = 8 /\ a.field.tag = "time" /\ a.field.time = t
      /\ IsItem(b) /\ b.bytes = 4 /\ b.field.n = key.counter
      /\ IsItem(c) /\ c.bytes = key.blob.bytes /\ c.field = key.blob
      /\ key.blob.bytes \in Nat
  BY FieldIsItem DEF TimeField, IsItem, IsStamp, IsKey
<1> DEFINE p == CcmPayload(t, key)
<1>2. IsSequence(p) /\ Len(p) = 3 /\ p[1] = a /\ p[2] = b /\ p[3] = c
  BY TuplesAre, Zenon DEF CcmPayload
<1> HIDE DEF a, b, c, p
<1>3. \A n \in 1 .. 3 : n = 1 \/ n = 2 \/ n = 3
  OBVIOUS
<1>4. IsItems(p) /\ Width(p) = p[1].bytes + p[2].bytes + p[3].bytes
  <2>1. Len(p) \in 1 .. 5 /\ Len(p) = 3 /\ \A n \in 1 .. Len(p) : IsItem(p[n])
    BY <1>1, <1>2, <1>3
  <2>2. QED
    BY <1>2, <2>1, FewItems
<1>5. Width(p) = 12 + key.blob.bytes
  BY <1>1, <1>2, <1>4
<1>6. ReadCcm(p) = [time |-> t, counter |-> key.counter, blob |-> key.blob]
  BY <1>1, <1>2 DEF ReadCcm, IsCcm
<1>7. QED
  BY <1>2, <1>4, <1>5, <1>6 DEF p

LEMMA CcmIsBuilt ==
  ASSUME NEW type, NEW t, IsStamp(t), NEW key, IsKey(key)
  PROVE  LET b == BuildCcm(type, t, key)
         IN  /\ IsEntry(b) /\ IsItem(b)
             /\ b.bytes = 20 + key.blob.bytes /\ b.content = CcmPayload(t, key)
             /\ b.header.value = AES_CCM_ENCRYPTED_KEY
             /\ Stated(b) = [type |-> type, value |-> AES_CCM_ENCRYPTED_KEY,
                             raw |-> CcmPayload(t, key)]
<1>1. IsItems(CcmPayload(t, key)) /\ Width(CcmPayload(t, key)) = 12 + key.blob.bytes
  BY PayloadIs
<1>2. key.blob.bytes \in Nat
  BY DEF IsKey
<1>3. QED
  BY <1>1, <1>2, EntryIsBuilt DEF BuildCcm

LEMMA TailIs ==
  ASSUME NEW s, IsSequence(s), Len(s) > 0
  PROVE  /\ IsSequence(Tail(s)) /\ Len(Tail(s)) = Len(s) - 1
         /\ \A i \in 1 .. Len(s) - 1 : Tail(s)[i] = s[i + 1]
<1> DEFINE S == {s[i] : i \in DOMAIN s}
<1> DEFINE t == Tail(s)
<1>1. s \in Seq(S)
  BY DEF IsSequence
<1> HIDE DEF S
<1>2. /\ t \in Seq(S) /\ Len(s) \in Nat /\ Len(t) = Len(s) - 1
      /\ \A i \in 1 .. Len(s) - 1 : t[i] = s[i + 1]
  <2>1. s # <<>>
    BY <1>1
  <2>2. QED
    BY <1>1, <2>1
<1> HIDE DEF t
<1>3. Len(t) \in Nat /\ t = [i \in 1 .. Len(t) |-> t[i]]
  BY <1>2
<1>4. IsSequence(t)
  BY <1>3, ListIsSequence
<1>5. QED
  BY <1>2, <1>4 DEF t

LEMMA TailOfTail ==
  ASSUME NEW s, IsSequence(s), NEW t, IsSequence(t), Len(s) = 2 + Len(t),
         \A i \in 1 .. Len(t) : s[2 + i] = t[i]
  PROVE  Tail(Tail(s)) = t
<1>1. Len(t) \in Nat
  BY Appended
<1> DEFINE u == Tail(s)
<1>2. /\ IsSequence(u) /\ Len(u) = Len(s) - 1
      /\ \A i \in 1 .. Len(s) - 1 : u[i] = s[i + 1]
  BY <1>1, TailIs
<1> HIDE DEF u
<1> DEFINE v == Tail(u)
<1>3. /\ IsSequence(v) /\ Len(v) = Len(u) - 1
      /\ \A i \in 1 .. Len(u) - 1 : v[i] = u[i + 1]
  BY <1>1, <1>2, TailIs
<1> HIDE DEF v
<1>4. \A i \in 1 .. Len(t) : v[i] = t[i]
  <2> SUFFICES ASSUME NEW i \in 1 .. Len(t) PROVE v[i] = t[i]
    OBVIOUS
  <2>1. i \in 1 .. Len(u) - 1 /\ i + 1 \in 1 .. Len(s) - 1 /\ i + 1 + 1 = 2 + i
    BY <1>1, <1>2
  <2>2. v[i] = u[i + 1] /\ u[i + 1] = s[i + 1 + 1] /\ s[2 + i] = t[i]
    BY <1>2, <1>3, <2>1
  <2>3. QED
    BY <2>1, <2>2
<1>5. Len(v) = Len(t)
  BY <1>1, <1>2, <1>3
<1>6. v = t
  BY <1>3, <1>4, <1>5, SameSequence
<1>7. QED
  BY <1>6 DEF u, v

LEMMA BehindTwo ==
  ASSUME NEW u, IsItems(u), NEW v, IsItems(v)
  PROVE  Len(u) = 2 =>
         /\ IsSequence(u \o v) /\ Len(v) \in Nat /\ Len(u \o v) = 2 + Len(v)
         /\ \A i \in 1 .. 2 : (u \o v)[i] = u[i]
         /\ \A i \in 1 .. Len(v) : (u \o v)[2 + i] = v[i]
         /\ DOMAIN (u \o v) = 1 .. 2 + Len(v)
         /\ DOMAIN v = 1 .. Len(v) /\ IsSequence(v)
<1> DEFINE w == u \o v
<1>1. IsSequence(u) /\ IsSequence(v)
  BY DEF IsItems
<1>2. /\ IsSequence(w) /\ Len(u) \in Nat /\ Len(v) \in Nat
      /\ Len(w) = Len(u) + Len(v)
      /\ DOMAIN u = 1 .. Len(u) /\ DOMAIN v = 1 .. Len(v)
      /\ DOMAIN w = 1 .. Len(u) + Len(v)
      /\ \A i \in 1 .. Len(u) : w[i] = u[i]
      /\ \A i \in 1 .. Len(v) : w[Len(u) + i] = v[i]
  BY <1>1, Joined
<1> HIDE DEF w
<1>3. SUFFICES ASSUME Len(u) = 2
               PROVE  /\ IsSequence(w) /\ Len(v) \in Nat /\ Len(w) = 2 + Len(v)
                      /\ \A i \in 1 .. 2 : w[i] = u[i]
                      /\ \A i \in 1 .. Len(v) : w[2 + i] = v[i]
                      /\ DOMAIN w = 1 .. 2 + Len(v)
                      /\ DOMAIN v = 1 .. Len(v) /\ IsSequence(v)
  BY DEF w
<1>4. QED
  BY <1>1, <1>2, <1>3

(* A stretch key with the entries inside it. *)
LEMMA StretchIsBuilt ==
  ASSUME NEW salt, NEW nested, IsItems(nested), Len(nested) > 0,
         \A n \in 1 .. Len(nested) : IsEntry(nested[n])
  PROVE  LET b == BuildStretchKey(salt, nested)
         IN  /\ IsEntry(b) /\ IsItem(b) /\ b.bytes = 28 + Width(nested)
             /\ b.header.value = STRETCH_KEY
             /\ Stated(b) = [type |-> 0, value |-> STRETCH_KEY, raw |-> b.content]
             /\ b.content[2].field.n = salt
             /\ Parsed(Dropped(b.content, 20)) = AllStated(nested)
             /\ Tail(Tail(b.content)) = nested
<1> DEFINE h == Opaque(4)
<1> DEFINE s == Field(16, [tag |-> "salt", n |-> salt])
<1> DEFINE u == <<h, s>>
<1> DEFINE content == u \o nested
<1>1. /\ IsItem(h) /\ h.bytes = 4 /\ IsItem(s) /\ s.bytes = 16 /\ s.field.n = salt
  BY FieldIsItem, OpaqueIsItem
<1>2. BuildStretchKey(salt, nested) = BuildEntry(0, STRETCH_KEY, content)
  BY DEF BuildStretchKey
<1> HIDE DEF h, s
<1>3. IsItems(u) /\ IsSequence(u) /\ Len(u) = 2 /\ Width(u) = 20 /\ u[1] = h /\ u[2] = s
  <2>1. IsSequence(u) /\ Len(u) = 2 /\ u[1] = h /\ u[2] = s
    BY TuplesAre, Zenon
  <2> HIDE DEF u
  <2>2. \A n \in 1 .. 2 : n = 1 \/ n = 2
    OBVIOUS
  <2>3. IsItems(u) /\ Width(u) = u[1].bytes + u[2].bytes
    BY <1>1, <2>1, <2>2, FewItems
  <2>4. QED
    BY <1>1, <2>1, <2>3
<1> HIDE DEF u
<1>4. IsItems(content) /\ Width(content) = 20 + Width(nested) /\ Width(nested) \in Nat
  BY <1>3, JoinedItems, WidthOfJoined, EndsOfJoined
<1>5. /\ IsSequence(content) /\ Len(nested) \in Nat /\ Len(content) = 2 + Len(nested)
      /\ \A i \in 1 .. 2 : content[i] = u[i]
      /\ \A i \in 1 .. Len(nested) : content[2 + i] = nested[i]
      /\ DOMAIN content = 1 .. 2 + Len(nested)
      /\ DOMAIN nested = 1 .. Len(nested) /\ IsSequence(nested)
  BY <1>3, BehindTwo
<1>6. Dropped(content, 20) = nested
  <2>1. \A n \in 1 .. Len(u) : u[n].bytes > 0
    BY <1>1, <1>3
  <2>2. QED
    BY <1>3, <2>1, DroppedIsRest
<1>7. Parsed(nested) = AllStated(nested)
  BY ParsedIsStated
<1> HIDE DEF content
<1>8. Tail(Tail(content)) = nested
  BY <1>5, TailOfTail
<1>9. content[2].field.n = salt
  BY <1>1, <1>3, <1>5
<1> DEFINE b == BuildEntry(0, STRETCH_KEY, content)
<1>10. /\ IsEntry(b) /\ IsItem(b) /\ b.bytes = 8 + Width(content) /\ b.content = content
       /\ b.header.value = STRETCH_KEY
       /\ Stated(b) = [type |-> 0, value |-> STRETCH_KEY, raw |-> content]
  BY <1>4, EntryIsBuilt
<1> HIDE DEF b
<1>11. b.bytes = 28 + Width(nested)
  BY <1>4, <1>10
<1>12. /\ Parsed(Dropped(b.content, 20)) = AllStated(nested)
       /\ Tail(Tail(b.content)) = nested /\ b.content[2].field.n = salt
       /\ Stated(b) = [type |-> 0, value |-> STRETCH_KEY, raw |-> b.content]
  BY <1>6, <1>7, <1>8, <1>9, <1>10
<1>13. BuildStretchKey(salt, nested) = b
  BY <1>2 DEF b
<1>14. QED
  BY <1>10, <1>11, <1>12, <1>13

(* The items behind the first one, and what a reader drops to get there. *)
LEMMA BehindTheFirst ==
  ASSUME NEW c, IsItems(c), Len(c) \in 2 .. 5, c[1].bytes > 0
  PROVE  LET parts == Tail(c)
         IN  /\ IsItems(parts) /\ Len(parts) = Len(c) - 1
             /\ DOMAIN parts = 1 .. Len(c) - 1
             /\ \A n \in 1 .. Len(c) - 1 : parts[n] = c[n + 1]
             /\ Dropped(c, c[1].bytes) = parts
<1> DEFINE parts == Tail(c)
<1> DEFINE L == Len(c)
<1>1. IsSequence(c) /\ L \in 2 .. 5 /\ L > 0 /\ L \in Nat /\ DOMAIN c = 1 .. L
  BY ItemsAre DEF IsItems
<1>2. /\ IsSequence(parts) /\ Len(parts) = L - 1
      /\ \A i \in 1 .. L - 1 : parts[i] = c[i + 1]
  BY <1>1, TailIs
<1>3. DOMAIN parts = 1 .. Len(parts)
  <2> HIDE DEF parts
  <2>1. QED
    BY <1>2, Appended
<1>4. \A n \in 1 .. L : IsItem(c[n])
  BY <1>1 DEF IsItems
<1>5. Dropped(c, c[1].bytes) = SubSeq(c, 2, L)
  <2>1. 2 \in 1 .. L /\ 1 \in 1 .. L /\ 2 - 1 = 1 /\ 1 - 1 = 0
    BY <1>1
  <2>2. \A n \in 1 .. 2 - 1 : c[n].bytes > 0
    OBVIOUS
  <2>3. ItemAt(c, EndsOf(c)[2 - 1]) = 2
    BY <2>1, <2>2, ItemAtEnd
  <2>4. EndsOf(c)[0] = 0 /\ EndsOf(c)[1] = EndsOf(c)[1 - 1] + c[1].bytes /\ c[1].bytes \in Nat
    BY <1>4, <2>1, EndsAre DEF IsItem
  <2>5. EndsOf(c)[1] = c[1].bytes
    BY <2>1, <2>4
  <2>6. ItemAt(c, c[1].bytes) = 2
    BY <2>1, <2>3, <2>5
  <2>7. QED
    BY <2>6 DEF Dropped
<1>6. SubSeq(c, 2, L) = [i \in 1 .. L - 1 |-> c[i + 1]]
  <2> DEFINE S == {c[i] : i \in DOMAIN c}
  <2>1. c \in Seq(S)
    BY <1>1 DEF IsSequence
  <2> HIDE DEF S, L
  <2>2. L - 2 + 1 = L - 1 /\ \A i \in 1 .. L - 1 : i + 2 - 1 = i + 1
    BY <1>1
  <2>3. QED
    BY <1>1, <2>1, <2>2
<1> HIDE DEF parts, L
<1>7. parts = [i \in 1 .. L - 1 |-> parts[i]]
  <2> DEFINE S == {parts[i] : i \in DOMAIN parts}
  <2>1. parts \in Seq(S)
    BY <1>2 DEF IsSequence
  <2> HIDE DEF S
  <2>2. QED
    BY <1>2, <2>1
<1>8. Dropped(c, c[1].bytes) = parts
  BY <1>2, <1>5, <1>6, <1>7
<1>9. \A n \in 1 .. L - 1 : IsItem(parts[n])
  BY <1>1, <1>2, <1>4
<1>10. IsItems(parts)
  BY <1>2, <1>3, <1>9 DEF IsItems
<1>11. QED
  BY <1>2, <1>3, <1>8, <1>10 DEF parts, L

(* Entries with nothing but bytes inside. *)
LEMMA OpaqueIsBuilt ==
  ASSUME NEW type, NEW value, NEW b \in Nat
  PROVE  LET e == BuildEntry(type, value, <<Opaque(b)>>)
         IN  /\ IsEntry(e) /\ IsItem(e) /\ e.bytes = 8 + b
             /\ e.header.type = type /\ e.header.value = value
             /\ Stated(e).type = type /\ Stated(e).value = value
<1> DEFINE o == Opaque(b)
<1> DEFINE s == <<o>>
<1>1. IsItem(o) /\ o.bytes = b
  BY OpaqueIsItem
<1> HIDE DEF o
<1>2. IsSequence(s) /\ Len(s) = 1 /\ s[1] = o
  BY TuplesAre, Zenon
<1> HIDE DEF s
<1>3. IsItems(s) /\ Width(s) = b
  <2>1. \A n \in 1 .. 1 : n = 1
    OBVIOUS
  <2>2. IsItems(s) /\ Width(s) = s[1].bytes
    BY <1>1, <1>2, <2>1, FewItems
  <2>3. QED
    BY <1>1, <1>2, <2>2
<1>4. LET e == BuildEntry(type, value, s)
      IN  /\ IsEntry(e) /\ IsItem(e) /\ e.bytes = 8 + b
          /\ e.header.type = type /\ e.header.value = value
          /\ Stated(e).type = type /\ Stated(e).value = value
  BY <1>3, EntryIsBuilt
<1>5. QED
  BY <1>4 DEF s, o

LEMMA VolumeHeaderIsBuilt ==
  LET e == BuildVolumeHeaderBlock(TRUE)
  IN  /\ IsEntry(e) /\ IsItem(e) /\ e.bytes = 100
      /\ Stated(e).type = VOLUME_HEADER_BLOCK
<1> DEFINE a == Opaque(16)
<1> DEFINE b == Opaque(76)
<1> DEFINE s == <<a, b>>
<1>1. IsItem(a) /\ a.bytes = 16 /\ IsItem(b) /\ b.bytes = 76
  BY OpaqueIsItem
<1>2. BuildVolumeHeaderBlock(TRUE) = BuildEntry(VOLUME_HEADER_BLOCK, OFFSET_AND_SIZE, s)
  BY DEF BuildVolumeHeaderBlock
<1> HIDE DEF a, b
<1>3. IsSequence(s) /\ Len(s) = 2 /\ s[1] = a /\ s[2] = b
  BY TuplesAre, Zenon
<1> HIDE DEF s
<1>4. IsItems(s) /\ Width(s) = 92
  <2>1. \A n \in 1 .. 2 : n = 1 \/ n = 2
    OBVIOUS
  <2>2. IsItems(s) /\ Width(s) = s[1].bytes + s[2].bytes
    BY <1>1, <1>3, <2>1, FewItems
  <2>3. QED
    BY <1>1, <1>3, <2>2
<1>5. LET e == BuildEntry(VOLUME_HEADER_BLOCK, OFFSET_AND_SIZE, s)
      IN  /\ IsEntry(e) /\ IsItem(e) /\ e.bytes = 100
          /\ Stated(e).type = VOLUME_HEADER_BLOCK
  BY <1>4, EntryIsBuilt
<1>6. QED
  BY <1>2, <1>5

-----------------------------------------------------------------------------
(* The entries for the VMK: what a reader relies on in them. *)

IsStretch(b, salt) ==
  /\ Stated(b) = [type |-> 0, value |-> STRETCH_KEY, raw |-> b.content]
  /\ b.header.value = STRETCH_KEY
  /\ b.content[2].field.n = salt
  /\ Parsed(Dropped(b.content, 20)) = AllStated(Tail(Tail(b.content)))

IsStandalone(b, t, key) ==
  /\ Stated(b).value = AES_CCM_ENCRYPTED_KEY
  /\ Stated(b).raw = CcmPayload(t, key)
  /\ b.header.value = AES_CCM_ENCRYPTED_KEY

(* The parts behind the header of 28 bytes. *)
ArePartsOf(parts, salt, t, key) ==
  /\ IsItems(parts) /\ Len(parts) \in 2 .. 3 /\ DOMAIN parts = 1 .. Len(parts)
  /\ Parsed(parts) = AllStated(parts)
  /\ \A n \in 1 .. Len(parts) : AllStated(parts)[n] = Stated(parts[n])
  /\ IsSequence(AllStated(parts)) /\ Len(AllStated(parts)) = Len(parts)
  /\ IsStretch(parts[1], salt) /\ IsStandalone(parts[2], t, key)
  /\ Len(parts) = 3 => Stated(parts[3]).value = TIMESTAMPS

IsVmk(b, protection, salt, t, key) ==
  /\ IsEntry(b) /\ IsItem(b)
  /\ Stated(b) = [type |-> VMK, value |-> VOLUME_MASTER_KEY, raw |-> b.content]
  /\ Width(b.content) >= 28 /\ b.content[1].field.of = protection
  /\ Dropped(b.content, 28) = Tail(b.content)
  /\ ArePartsOf(Tail(b.content), salt, t, key)

LEMMA VmkIsBuilt ==
  ASSUME NEW c, IsItems(c), Len(c) \in 3 .. 4, NEW protection, NEW salt, NEW t, NEW key,
         c[1].bytes = 28, c[1].field.of = protection, Width(c) \in Nat, Width(c) >= 28,
         \A n \in 2 .. Len(c) : IsEntry(c[n]),
         IsStretch(c[2], salt), IsStandalone(c[3], t, key),
         Len(c) = 4 => Stated(c[4]).value = TIMESTAMPS
  PROVE  LET b == BuildEntry(VMK, VOLUME_MASTER_KEY, c)
         IN  IsVmk(b, protection, salt, t, key) /\ b.bytes = 8 + Width(c) /\ b.content = c
<1> DEFINE b == BuildEntry(VMK, VOLUME_MASTER_KEY, c)
<1> DEFINE parts == Tail(c)
<1>1. /\ IsEntry(b) /\ IsItem(b) /\ b.bytes = 8 + Width(c) /\ b.content = c
      /\ Stated(b) = [type |-> VMK, value |-> VOLUME_MASTER_KEY, raw |-> c]
  BY EntryIsBuilt
<1>2. Len(c) \in 2 .. 5 /\ c[1].bytes > 0 /\ Len(c) \in 3 .. 4
  OBVIOUS
<1>3. /\ IsItems(parts) /\ Len(parts) = Len(c) - 1
      /\ DOMAIN parts = 1 .. Len(c) - 1
      /\ \A n \in 1 .. Len(c) - 1 : parts[n] = c[n + 1]
      /\ Dropped(c, c[1].bytes) = parts
  BY <1>2, BehindTheFirst
<1> HIDE DEF parts, b
<1>4. Len(parts) \in 2 .. 3 /\ DOMAIN parts = 1 .. Len(parts)
  BY <1>2, <1>3
<1>5. /\ parts[1] = c[2] /\ parts[2] = c[3]
      /\ Len(parts) = 3 => parts[3] = c[4] /\ Len(c) = 4
  <2>1. 1 \in 1 .. Len(c) - 1 /\ 2 \in 1 .. Len(c) - 1
    BY <1>2
  <2>2. Len(parts) = 3 => 3 \in 1 .. Len(c) - 1 /\ Len(c) = 4
    <3> DEFINE K == Len(parts)
    <3> DEFINE L == Len(c)
    <3>1. K = L - 1 /\ L \in 3 .. 4
      BY <1>2, <1>3
    <3> HIDE DEF K, L
    <3>2. K = 3 => 3 \in 1 .. L - 1 /\ L = 4
      BY <3>1
    <3>3. QED
      BY <3>2 DEF K, L
  <2>3. 1 + 1 = 2 /\ 2 + 1 = 3 /\ 3 + 1 = 4
    OBVIOUS
  <2>4. QED
    BY <1>3, <2>1, <2>2, <2>3
<1>6. \A n \in 1 .. Len(parts) : IsEntry(parts[n])
  <2> SUFFICES ASSUME NEW n \in 1 .. Len(parts) PROVE IsEntry(parts[n])
    OBVIOUS
  <2>1. n \in 1 .. Len(c) - 1 /\ n + 1 \in 2 .. Len(c)
    BY <1>2, <1>3
  <2>2. QED
    BY <1>3, <2>1
<1>7. /\ Parsed(parts) = AllStated(parts)
      /\ IsSequence(AllStated(parts)) /\ Len(AllStated(parts)) = Len(parts)
      /\ \A n \in 1 .. Len(parts) : AllStated(parts)[n] = Stated(parts[n])
  BY <1>3, <1>6, ParsedIsStated
<1>8. ArePartsOf(parts, salt, t, key)
  BY <1>3, <1>4, <1>5, <1>7 DEF ArePartsOf
<1>9. IsVmk(b, protection, salt, t, key)
  BY <1>1, <1>3, <1>8 DEF IsVmk, parts
<1>10. QED
  BY <1>1, <1>9 DEF b

LEMMA StretchIsOne ==
  ASSUME NEW salt, NEW nested, IsItems(nested), Len(nested) > 0,
         \A n \in 1 .. Len(nested) : IsEntry(nested[n])
  PROVE  LET b == BuildStretchKey(salt, nested)
         IN  IsEntry(b) /\ IsItem(b) /\ b.bytes = 28 + Width(nested) /\ IsStretch(b, salt)
<1> DEFINE b == BuildStretchKey(salt, nested)
<1>1. /\ IsEntry(b) /\ IsItem(b) /\ b.bytes = 28 + Width(nested)
      /\ b.header.value = STRETCH_KEY
      /\ Stated(b) = [type |-> 0, value |-> STRETCH_KEY, raw |-> b.content]
      /\ b.content[2].field.n = salt
      /\ Parsed(Dropped(b.content, 20)) = AllStated(nested)
      /\ Tail(Tail(b.content)) = nested
  BY StretchIsBuilt
<1> HIDE DEF b
<1>2. IsStretch(b, salt)
  BY <1>1 DEF IsStretch
<1>3. QED
  BY <1>1, <1>2 DEF b

LEMMA CcmIsOne ==
  ASSUME NEW t, IsStamp(t), NEW key, IsKey(key)
  PROVE  LET b == BuildCcm(0, t, key)
         IN  /\ IsEntry(b) /\ IsItem(b) /\ b.bytes = 20 + key.blob.bytes
             /\ IsStandalone(b, t, key)
BY CcmIsBuilt DEF IsStandalone

LEMMA HeaderIsBuilt ==
  ASSUME NEW protection
  PROVE  LET h == VmkHeader(protection)
         IN  IsItem(h) /\ h.bytes = 28 /\ h.field.of = protection
BY FieldIsItem DEF VmkHeader

LEMMA PasswordVmkIsBuilt ==
  ASSUME NEW salt, NEW t, IsStamp(t), NEW nested, IsKey(nested),
         NEW standalone, IsKey(standalone)
  PROVE  LET b == BuildPasswordVmk(salt, t, nested, standalone)
         IN  /\ IsVmk(b, "password", salt, t, standalone)
             /\ b.bytes = 104 + nested.blob.bytes + standalone.blob.bytes
             /\ Len(b.content) = 3
<1> DEFINE k == BuildCcm(0, t, nested)
<1> DEFINE in == <<k>>
<1> DEFINE h == VmkHeader("password")
<1> DEFINE s == BuildStretchKey(salt, in)
<1> DEFINE a == BuildCcm(0, t, standalone)
<1> DEFINE c == <<h, s, a>>
<1>1. IsEntry(k) /\ IsItem(k) /\ k.bytes = 20 + nested.blob.bytes /\ nested.blob.bytes \in Nat
  BY CcmIsOne DEF IsKey
<1>2. /\ IsEntry(a) /\ IsItem(a) /\ a.bytes = 20 + standalone.blob.bytes
      /\ IsStandalone(a, t, standalone) /\ standalone.blob.bytes \in Nat
  BY CcmIsOne DEF IsKey
<1>3. IsItem(h) /\ h.bytes = 28 /\ h.field.of = "password"
  BY HeaderIsBuilt
<1> HIDE DEF k, a, h
<1>4. IsSequence(in) /\ Len(in) = 1 /\ in[1] = k
  BY TuplesAre, Zenon
<1> HIDE DEF in
<1>5. IsItems(in) /\ Width(in) = k.bytes /\ Len(in) > 0 /\ \A n \in 1 .. Len(in) : IsEntry(in[n])
  <2>1. \A n \in 1 .. 1 : n = 1
    OBVIOUS
  <2>2. IsItems(in) /\ Width(in) = in[1].bytes
    BY <1>1, <1>4, <2>1, FewItems
  <2>3. QED
    BY <1>1, <1>4, <2>1, <2>2
<1>6. IsEntry(s) /\ IsItem(s) /\ s.bytes = 28 + Width(in) /\ IsStretch(s, salt)
  BY <1>5, StretchIsOne
<1>7. BuildPasswordVmk(salt, t, nested, standalone) = BuildEntry(VMK, VOLUME_MASTER_KEY, c)
  BY DEF BuildPasswordVmk, k, in, h, a
<1> HIDE DEF s
<1>8. IsSequence(c) /\ Len(c) = 3 /\ c[1] = h /\ c[2] = s /\ c[3] = a
  BY TuplesAre, Zenon
<1> HIDE DEF c
<1>9. /\ IsItems(c) /\ Width(c) = c[1].bytes + c[2].bytes + c[3].bytes
      /\ \A n \in 2 .. Len(c) : IsEntry(c[n])
  <2>1. \A n \in 1 .. 3 : n = 1 \/ n = 2 \/ n = 3
    OBVIOUS
  <2>2. IsItems(c) /\ Width(c) = c[1].bytes + c[2].bytes + c[3].bytes
    BY <1>2, <1>3, <1>6, <1>8, <2>1, FewItems
  <2>3. \A n \in 2 .. 3 : n = 2 \/ n = 3
    OBVIOUS
  <2>4. QED
    BY <1>2, <1>6, <1>8, <2>2, <2>3
<1>10. Width(c) = 96 + nested.blob.bytes + standalone.blob.bytes
  <2>1. /\ c[1].bytes = 28 /\ c[2].bytes = 28 + (20 + nested.blob.bytes)
        /\ c[3].bytes = 20 + standalone.blob.bytes
    BY <1>1, <1>2, <1>3, <1>5, <1>6, <1>8
  <2>2. Width(c) = 28 + (28 + (20 + nested.blob.bytes)) + (20 + standalone.blob.bytes)
    BY <1>9, <2>1
  <2>3. QED
    BY <1>1, <1>2, <2>2
<1>11. Width(c) \in Nat /\ Width(c) >= 28
  BY <1>1, <1>2, <1>10
<1>12. /\ Len(c) \in 3 .. 4 /\ c[1].bytes = 28 /\ c[1].field.of = "password"
       /\ IsStretch(c[2], salt) /\ IsStandalone(c[3], t, standalone) /\ Len(c) # 4
  BY <1>2, <1>3, <1>6, <1>8
<1>13. LET b == BuildEntry(VMK, VOLUME_MASTER_KEY, c)
       IN  /\ IsVmk(b, "password", salt, t, standalone)
           /\ b.bytes = 8 + Width(c) /\ b.content = c
  BY <1>9, <1>11, <1>12, VmkIsBuilt
<1>14. QED
  BY <1>1, <1>2, <1>7, <1>8, <1>10, <1>13

LEMMA RecoveryVmkIsBuilt ==
  ASSUME NEW salt, NEW t, IsStamp(t), NEW short, IsKey(short), NEW nested, IsKey(nested),
         NEW standalone, IsKey(standalone)
  PROVE  LET b == BuildRecoveryVmk(salt, t, short, nested, standalone)
         IN  /\ IsVmk(b, "recovery", salt, t, standalone)
             /\ b.bytes = 152 + short.blob.bytes + nested.blob.bytes + standalone.blob.bytes
             /\ Len(b.content) = 4
<1> DEFINE k == BuildCcm(18, t, short)
<1> DEFINE l == BuildCcm(19, t, nested)
<1> DEFINE in == <<k, l>>
<1> DEFINE h == VmkHeader("recovery")
<1> DEFINE s == BuildStretchKey(salt, in)
<1> DEFINE a == BuildCcm(0, t, standalone)
<1> DEFINE m == BuildEntry(0, TIMESTAMPS, <<Opaque(20)>>)
<1> DEFINE c == <<h, s, a, m>>
<1>1. /\ IsEntry(k) /\ IsItem(k) /\ k.bytes = 20 + short.blob.bytes /\ short.blob.bytes \in Nat
      /\ IsEntry(l) /\ IsItem(l) /\ l.bytes = 20 + nested.blob.bytes /\ nested.blob.bytes \in Nat
  BY CcmIsBuilt DEF IsKey
<1>2. /\ IsEntry(a) /\ IsItem(a) /\ a.bytes = 20 + standalone.blob.bytes
      /\ IsStandalone(a, t, standalone) /\ standalone.blob.bytes \in Nat
  BY CcmIsOne DEF IsKey
<1>3. IsItem(h) /\ h.bytes = 28 /\ h.field.of = "recovery"
  BY HeaderIsBuilt
<1>4. IsEntry(m) /\ IsItem(m) /\ m.bytes = 28 /\ Stated(m).value = TIMESTAMPS
  BY OpaqueIsBuilt
<1> HIDE DEF k, l, a, h, m
<1>5. IsSequence(in) /\ Len(in) = 2 /\ in[1] = k /\ in[2] = l
  BY TuplesAre, Zenon
<1> HIDE DEF in
<1>6. /\ IsItems(in) /\ Width(in) = k.bytes + l.bytes /\ Len(in) > 0
      /\ \A n \in 1 .. Len(in) : IsEntry(in[n])
  <2>1. \A n \in 1 .. 2 : n = 1 \/ n = 2
    OBVIOUS
  <2>2. IsItems(in) /\ Width(in) = in[1].bytes + in[2].bytes
    BY <1>1, <1>5, <2>1, FewItems
  <2>3. QED
    BY <1>1, <1>5, <2>1, <2>2
<1>7. IsEntry(s) /\ IsItem(s) /\ s.bytes = 28 + Width(in) /\ IsStretch(s, salt)
  BY <1>6, StretchIsOne
<1>8. BuildRecoveryVmk(salt, t, short, nested, standalone)
        = BuildEntry(VMK, VOLUME_MASTER_KEY, c)
  BY DEF BuildRecoveryVmk, k, l, in, h, a, m
<1> HIDE DEF s
<1>9. IsSequence(c) /\ Len(c) = 4 /\ c[1] = h /\ c[2] = s /\ c[3] = a /\ c[4] = m
  BY TuplesAre, Zenon
<1> HIDE DEF c
<1>10. /\ IsItems(c) /\ Width(c) = c[1].bytes + c[2].bytes + c[3].bytes + c[4].bytes
       /\ \A n \in 2 .. Len(c) : IsEntry(c[n])
  <2>1. \A n \in 1 .. 4 : n = 1 \/ n = 2 \/ n = 3 \/ n = 4
    OBVIOUS
  <2>2. IsItems(c) /\ Width(c) = c[1].bytes + c[2].bytes + c[3].bytes + c[4].bytes
    BY <1>2, <1>3, <1>4, <1>7, <1>9, <2>1, FewItems
  <2>3. \A n \in 2 .. 4 : n = 2 \/ n = 3 \/ n = 4
    OBVIOUS
  <2>4. QED
    BY <1>2, <1>4, <1>7, <1>9, <2>2, <2>3
<1>11. Width(c) = 144 + short.blob.bytes + nested.blob.bytes + standalone.blob.bytes
  <2>1. /\ c[1].bytes = 28
        /\ c[2].bytes = 28 + ((20 + short.blob.bytes) + (20 + nested.blob.bytes))
        /\ c[3].bytes = 20 + standalone.blob.bytes /\ c[4].bytes = 28
    BY <1>1, <1>2, <1>3, <1>4, <1>6, <1>7, <1>9
  <2>2. Width(c) = 28 + (28 + ((20 + short.blob.bytes) + (20 + nested.blob.bytes)))
                      + (20 + standalone.blob.bytes) + 28
    BY <1>10, <2>1
  <2>3. QED
    BY <1>1, <1>2, <2>2
<1>12. Width(c) \in Nat /\ Width(c) >= 28
  BY <1>1, <1>2, <1>11
<1>13. /\ Len(c) \in 3 .. 4 /\ c[1].bytes = 28 /\ c[1].field.of = "recovery"
       /\ IsStretch(c[2], salt) /\ IsStandalone(c[3], t, standalone)
       /\ Stated(c[4]).value = TIMESTAMPS
  BY <1>2, <1>3, <1>4, <1>7, <1>9
<1>14. LET b == BuildEntry(VMK, VOLUME_MASTER_KEY, c)
       IN  /\ IsVmk(b, "recovery", salt, t, standalone)
           /\ b.bytes = 8 + Width(c) /\ b.content = c
  BY <1>10, <1>12, <1>13, VmkIsBuilt
<1>15. QED
  BY <1>1, <1>2, <1>8, <1>9, <1>11, <1>14

LEMMA FvekIsBuilt ==
  ASSUME NEW t, IsStamp(t), NEW key, IsKey(key)
  PROVE  LET b == BuildFvek(t, key)
         IN  /\ IsEntry(b) /\ IsItem(b) /\ b.bytes = 20 + key.blob.bytes
             /\ Stated(b) = [type |-> FVEK, value |-> AES_CCM_ENCRYPTED_KEY,
                             raw |-> CcmPayload(t, key)]
<1>1. BuildFvek(t, key) = BuildCcm(FVEK, t, key)
  BY DEF BuildFvek, BuildCcm
<1>2. QED
  BY <1>1, CcmIsBuilt

-----------------------------------------------------------------------------
(* What a reader makes of the parts of an entry for the VMK, one after the *)
(* other.                                                                  *)

IsTurn(f, first, parts, n) ==
  f = [i \in 0 .. n |-> IF i = 0 THEN first ELSE ReadVmkPart(f[i - 1], parts[i])]

LEMMA TurnsExist ==
  ASSUME NEW first, NEW parts, NEW n \in {2, 3}
  PROVE  \E f : IsTurn(f, first, parts, n)
<1> DEFINE a == ReadVmkPart(first, parts[1])
<1> DEFINE b == ReadVmkPart(a, parts[2])
<1> DEFINE c == ReadVmkPart(b, parts[3])
<1>1. ReadVmkPart(first, parts[1]) = a /\ ReadVmkPart(a, parts[2]) = b /\ ReadVmkPart(b, parts[3]) = c
  OBVIOUS
<1> HIDE DEF a, b, c
<1> DEFINE f == [i \in 0 .. n |-> IF i = 0 THEN first
                                  ELSE IF i = 1 THEN a ELSE IF i = 2 THEN b ELSE c]
<1>2. f[0] = first /\ f[1] = a /\ f[2] = b /\ (n = 3 => f[3] = c)
  OBVIOUS
<1>3. f = [i \in 0 .. n |-> f[i]]
  OBVIOUS
<1> HIDE DEF f
<1>4. \A i \in 0 .. n : i = 0 \/ i = 1 \/ i = 2 \/ (i = 3 /\ n = 3)
  OBVIOUS
<1>5. ASSUME NEW i \in 0 .. n
      PROVE  f[i] = IF i = 0 THEN first ELSE ReadVmkPart(f[i - 1], parts[i])
  <2>1. 1 - 1 = 0 /\ 2 - 1 = 1 /\ 3 - 1 = 2
    OBVIOUS
  <2>2. QED
    BY <1>1, <1>2, <1>4, <2>1
<1>6. IsTurn(f, first, parts, n)
  BY <1>3, <1>5 DEF IsTurn
<1>7. QED
  BY <1>6

LEMMA StretchIsRead ==
  ASSUME NEW vmk, NEW p, NEW s, NEW c, vmk = [protection |-> p, salt |-> s, ccm |-> c],
         NEW sub, sub.value = STRETCH_KEY
  PROVE  \E d : ReadVmkPart(vmk, sub)
                  = [protection |-> p, salt |-> sub.raw[2].field.n, ccm |-> d]
<1> DEFINE keys == Parsed(Dropped(sub.raw, 20))
<1> DEFINE n == FirstCcm(keys)
<1> DEFINE d == IF n = 0 THEN vmk.ccm ELSE ReadCcm(keys[n].raw)
<1>1. ~IsCcmEntry(sub)
  BY DEF STRETCH_KEY, AES_CCM_ENCRYPTED_KEY, IsCcmEntry
<1>2. ReadVmkPart(vmk, sub) = [vmk EXCEPT !.salt = sub.raw[2].field.n, !.ccm = d]
  BY <1>1 DEF ReadVmkPart
<1> HIDE DEF d
<1>3. ReadVmkPart(vmk, sub) = [protection |-> p, salt |-> sub.raw[2].field.n, ccm |-> d]
  BY <1>2
<1>4. QED
  BY <1>3

LEMMA KeyIsRead ==
  ASSUME NEW vmk, NEW p, NEW s, NEW c, vmk = [protection |-> p, salt |-> s, ccm |-> c],
         NEW sub, sub.value = AES_CCM_ENCRYPTED_KEY
  PROVE  ReadVmkPart(vmk, sub) = [protection |-> p, salt |-> s, ccm |-> ReadCcm(sub.raw)]
<1>1. sub.value # STRETCH_KEY /\ IsCcmEntry(sub)
  BY DEF STRETCH_KEY, AES_CCM_ENCRYPTED_KEY, IsCcmEntry
<1>2. ReadVmkPart(vmk, sub) = [vmk EXCEPT !.ccm = ReadCcm(sub.raw)]
  BY <1>1 DEF ReadVmkPart
<1>3. QED
  BY <1>2

LEMMA OthersAreLeft ==
  ASSUME NEW vmk, NEW sub, sub.value = TIMESTAMPS
  PROVE  ReadVmkPart(vmk, sub) = vmk
<1>1. sub.value # STRETCH_KEY /\ ~IsCcmEntry(sub)
  BY DEF STRETCH_KEY, AES_CCM_ENCRYPTED_KEY, TIMESTAMPS, IsCcmEntry
<1>2. QED
  BY <1>1 DEF ReadVmkPart

(* What extract_vmk_entries says of an entry: the salt of its stretch key  *)
(* and the key that stands on its own.                                     *)
LEMMA VmkIsRead ==
  ASSUME NEW b, NEW protection, NEW salt, NEW t, IsStamp(t), NEW key, IsKey(key),
         IsVmk(b, protection, salt, t, key)
  PROVE  ReadVmk(Stated(b))
           = [protection |-> protection, salt |-> salt,
              ccm |-> [time |-> t, counter |-> key.counter, blob |-> key.blob]]
<1> DEFINE raw == b.content
<1> DEFINE parts == Tail(raw)
<1> DEFINE q == AllStated(parts)
<1> DEFINE n == Len(parts)
<1> DEFINE first == [protection |-> protection, salt |-> 0, ccm |-> NoCcm]
<1>1. Stated(b).raw = raw /\ Dropped(raw, 28) = parts /\ raw[1].field.of = protection
  BY DEF IsVmk
<1>2. ArePartsOf(parts, salt, t, key)
  BY DEF IsVmk
<1> HIDE DEF raw, parts
<1>3. Parsed(Dropped(Stated(b).raw, 28)) = q /\ Len(q) = n /\ n \in {2, 3}
  <2>1. Parsed(parts) = q /\ Len(q) = n /\ n \in 2 .. 3
    BY <1>2 DEF ArePartsOf
  <2> HIDE DEF q, n
  <2>2. n \in {2, 3}
    BY <2>1
  <2>3. QED
    BY <1>1, <2>1, <2>2
<1>4. /\ q[1] = Stated(parts[1]) /\ q[2] = Stated(parts[2])
      /\ n = 3 => q[3] = Stated(parts[3]) /\ Stated(parts[3]).value = TIMESTAMPS
  <2> HIDE DEF n
  <2>1. 1 \in 1 .. n /\ 2 \in 1 .. n /\ (n = 3 => 3 \in 1 .. n)
    BY <1>3
  <2>2. \A i \in 1 .. n : q[i] = Stated(parts[i])
    BY <1>2 DEF ArePartsOf, n
  <2>3. n = 3 => Stated(parts[3]).value = TIMESTAMPS
    BY <1>2 DEF ArePartsOf, n
  <2>4. QED
    BY <2>1, <2>2, <2>3
<1>5. q[1].value = STRETCH_KEY /\ q[1].raw[2].field.n = salt
  BY <1>2, <1>4 DEF ArePartsOf, IsStretch
<1>6. q[2].value = AES_CCM_ENCRYPTED_KEY /\ q[2].raw = CcmPayload(t, key)
  BY <1>2, <1>4 DEF ArePartsOf, IsStandalone
<1> HIDE DEF q, n
<1>7. PICK f : IsTurn(f, first, q, n) /\ ReadVmk(Stated(b)) = f[n]
  <2>1. \E f : IsTurn(f, first, q, n)
    BY <1>3, TurnsExist
  <2>2. ReadVmk(Stated(b)) = (CHOOSE f : IsTurn(f, first, q, n))[n]
    BY <1>1, <1>3 DEF ReadVmk, IsTurn
  <2>3. QED
    BY <2>1, <2>2
<1>8. /\ f[0] = first /\ f[1] = ReadVmkPart(f[0], q[1]) /\ f[2] = ReadVmkPart(f[1], q[2])
      /\ n = 3 => f[3] = ReadVmkPart(f[2], q[3])
  <2>1. 0 \in 0 .. n /\ 1 \in 0 .. n /\ 2 \in 0 .. n /\ (n = 3 => 3 \in 0 .. n)
    BY <1>3
  <2>2. 1 - 1 = 0 /\ 2 - 1 = 1 /\ 3 - 1 = 2
    OBVIOUS
  <2>3. \A i \in 0 .. n : f[i] = IF i = 0 THEN first ELSE ReadVmkPart(f[i - 1], q[i])
    BY <1>7 DEF IsTurn
  <2>4. QED
    BY <2>1, <2>2, <2>3
<1>9. PICK d : f[1] = [protection |-> protection, salt |-> salt, ccm |-> d]
  <2>1. f[0] = [protection |-> protection, salt |-> 0, ccm |-> NoCcm]
    BY <1>8
  <2>2. q[1].value = STRETCH_KEY
    BY <1>5
  <2> DEFINE v == f[0]
  <2> DEFINE sub == q[1]
  <2>3. /\ v = [protection |-> protection, salt |-> 0, ccm |-> NoCcm]
        /\ sub.value = STRETCH_KEY
    BY <2>1, <2>2
  <2> HIDE DEF v, sub
  <2>4. PICK d : ReadVmkPart(v, sub)
                   = [protection |-> protection, salt |-> sub.raw[2].field.n, ccm |-> d]
    BY <2>3, StretchIsRead
  <2>5. QED
    BY <1>5, <1>8, <2>4 DEF v, sub
<1> DEFINE read == [protection |-> protection, salt |-> salt, ccm |-> ReadCcm(q[2].raw)]
<1>10. f[2] = read
  BY <1>6, <1>8, <1>9, KeyIsRead
<1>11. f[n] = read
  <2>1. CASE n = 2
    BY <1>10, <2>1
  <2>2. CASE n = 3
    BY <1>4, <1>8, <1>10, <2>2, OthersAreLeft
  <2>3. QED
    BY <1>3, <2>1, <2>2
<1>12. ReadCcm(q[2].raw) = [time |-> t, counter |-> key.counter, blob |-> key.blob]
  BY <1>6, PayloadIs
<1>13. QED
  BY <1>7, <1>11, <1>12

(* The payload of the FVEK's entry, taken for entries: its time stamp is   *)
(* the only header in it.                                                  *)
LEMMA PayloadItems ==
  ASSUME NEW t, NEW key, IsKey(key)
  PROVE  /\ CcmPayload(t, key)[1].header = [size |-> t.low, type |-> 0, value |-> t.high]
         /\ CcmPayload(t, key)[1].field.tag = "time"
         /\ CcmPayload(t, key)[2].header = NoHeader
         /\ CcmPayload(t, key)[3].header = NoHeader
<1> DEFINE a == TimeField(t)
<1> DEFINE b == Field(4, [tag |-> "counter", n |-> key.counter])
<1> DEFINE c == Field(key.blob.bytes, key.blob)
<1>1. /\ a.header = [size |-> t.low, type |-> 0, value |-> t.high]
      /\ a.field.tag = "time" /\ b.header = NoHeader /\ c.header = NoHeader
  BY FieldIsItem DEF TimeField, IsKey
<1> DEFINE p == CcmPayload(t, key)
<1>2. IsSequence(p) /\ Len(p) = 3 /\ p[1] = a /\ p[2] = b /\ p[3] = c
  BY TuplesAre, Zenon DEF CcmPayload
<1> HIDE DEF a, b, c, p
<1>3. /\ p[1].header = [size |-> t.low, type |-> 0, value |-> t.high]
      /\ p[1].field.tag = "time" /\ p[2].header = NoHeader /\ p[3].header = NoHeader
  BY <1>1, <1>2
<1>4. QED
  BY <1>3 DEF p

LEMMA OneIsPrepended ==
  ASSUME NEW x, NEW s, s = <<>>
  PROVE  DOMAIN (<<x>> \o s) = {1} /\ (<<x>> \o s)[1] = x
<1>1. IsSequence(s) /\ Len(s) = 0
  BY DEF IsSequence
<1>2. <<x>> \o s = [i \in 1 .. Len(s) + 1 |-> IF i = 1 THEN x ELSE s[i - 1]]
  BY <1>1, Prepended
<1>3. 1 .. Len(s) + 1 = {1}
  BY <1>1
<1> DEFINE w == <<x>> \o s
<1>4. w = [i \in {1} |-> IF i = 1 THEN x ELSE s[i - 1]]
  BY <1>2, <1>3
<1> HIDE DEF w
<1>5. DOMAIN w = {1} /\ w[1] = x
  BY <1>4
<1>6. QED
  BY <1>5 DEF w

ReadsAsKey(t, n) == t.high = AES_CCM_ENCRYPTED_KEY /\ t.low \in 8 .. n

LEMMA PayloadIsParsed ==
  ASSUME NEW t, IsStamp(t), NEW key, IsKey(key)
  PROVE  LET inside == Parsed(CcmPayload(t, key))
             reads == ReadsAsKey(t, 12 + key.blob.bytes)
         IN  /\ reads => FirstCcm(inside) = 1 /\ ReadCcm(inside[1].raw) = NoCcm
             /\ ~reads => FirstCcm(inside) = 0
<1> DEFINE p == CcmPayload(t, key)
<1> DEFINE w == 12 + key.blob.bytes
<1> DEFINE inside == Parsed(p)
<1>1. IsItems(p) /\ Len(p) = 3 /\ Width(p) = w
  BY PayloadIs
<1>2. /\ p[1].header = [size |-> t.low, type |-> 0, value |-> t.high]
      /\ p[1].field.tag = "time" /\ p[2].header = NoHeader /\ p[3].header = NoHeader
  BY PayloadItems
<1>3. w \in Nat /\ w >= 12 /\ t.low \in Nat
  BY DEF IsKey, IsStamp
<1> HIDE DEF p, w
<1>4. PICK f : IsReading(f, p, w) /\ inside = f[0]
  <2>1. PICK f : IsReading(f, p, w) /\ ParseEntries(p, w) = f[0]
    BY <1>1, <1>3, ParseIs
  <2>2. QED
    BY <1>1, <2>1 DEF Parsed
<1> HIDE DEF inside
<1>5. ItemAt(p, 0) = 1 /\ HeaderAt(p, 0) = p[1].header
  <2>1. 1 \in 1 .. Len(p) /\ 1 - 1 = 0 /\ \A n \in 1 .. 1 - 1 : p[n].bytes > 0
    BY <1>1
  <2>2. ItemAt(p, EndsOf(p)[1 - 1]) = 1
    BY <1>1, <2>1, ItemAtEnd
  <2>3. EndsOf(p)[0] = 0
    BY <1>1, EndsAre
  <2>4. ItemAt(p, 0) = 1
    BY <2>1, <2>2, <2>3
  <2>5. QED
    BY <2>4 DEF HeaderAt
<1>6. ASSUME NEW o \in Nat, o # 0 PROVE HeaderAt(p, o) = NoHeader
  <2>1. CASE ItemAt(p, o) = 0
    BY <2>1 DEF HeaderAt
  <2>2. CASE ItemAt(p, o) # 0
    <3> DEFINE n == ItemAt(p, o)
    <3>1. n \in 1 .. Len(p) /\ EndsOf(p)[n - 1] = o /\ HeaderAt(p, o) = p[n].header
      BY <1>1, <2>2, ItemAtIs
    <3> HIDE DEF n
    <3>2. n # 1
      <4>1. EndsOf(p)[0] = 0 /\ 1 - 1 = 0
        BY <1>1, EndsAre
      <4>2. QED
        BY <1>6, <3>1, <4>1
    <3>3. n = 2 \/ n = 3
      BY <1>1, <3>1, <3>2
    <3>4. QED
      BY <1>2, <3>1, <3>3
  <2>3. QED
    BY <2>1, <2>2
<1>7. CASE t.low \notin 8 .. w
  <2>1. HeaderAt(p, 0).size = t.low
    BY <1>2, <1>5
  <2>2. StopsAt(p, w, 0) /\ 0 \in 0 .. w
    BY <1>3, <1>7, <2>1 DEF StopsAt, EntryHeaderSize
  <2>3. inside = <<>>
    BY <1>4, <2>2 DEF IsReading
  <2>4. FirstCcm(inside) = 0
    <3>1. DOMAIN inside = {}
      BY <2>3
    <3>2. {n \in DOMAIN inside : IsCcmEntry(inside[n])} = {}
      BY <3>1
    <3>3. QED
      BY <3>2 DEF FirstCcm, First
  <2>5. ~ReadsAsKey(t, w)
    BY <1>7 DEF ReadsAsKey
  <2>6. QED
    BY <2>4, <2>5 DEF inside, p, w
<1>8. CASE t.low \in 8 .. w
  <2> DEFINE x == EntryAt(p, 0)
  <2>1. HeaderAt(p, 0).size = t.low /\ HeaderAt(p, 0).value = t.high
    BY <1>2, <1>5
  <2>2. ~StopsAt(p, w, 0) /\ 0 \in 0 .. w /\ 0 + t.low = t.low /\ t.low \in 0 .. w /\ t.low # 0
    BY <1>3, <1>8, <2>1 DEF StopsAt, EntryHeaderSize
  <2>3. f[t.low] = <<>>
    <3>1. HeaderAt(p, t.low).size = 0
      BY <1>3, <1>6, <2>2 DEF NoHeader
    <3>2. StopsAt(p, w, t.low)
      BY <3>1 DEF StopsAt, EntryHeaderSize
    <3>3. QED
      BY <1>4, <2>2, <3>2 DEF IsReading
  <2>4. x.value = t.high /\ x.raw = <<Opaque(t.low - 8)>>
    BY <1>2, <1>5, <2>1 DEF EntryAt, RawData, EntryHeaderSize
  <2> HIDE DEF x
  <2>5. inside = <<x>> \o f[t.low]
    BY <1>4, <2>1, <2>2 DEF IsReading, x
  <2>6. DOMAIN inside = {1} /\ inside[1] = x
    BY <2>3, <2>5, OneIsPrepended
  <2>7. ReadCcm(x.raw) = NoCcm
    <3> DEFINE y == Opaque(t.low - 8)
    <3> DEFINE s == <<y>>
    <3>1. x.raw = s
      BY <2>4
    <3> HIDE DEF y
    <3>2. Len(s) = 1
      BY TuplesAre, Zenon
    <3> HIDE DEF s
    <3>3. QED
      BY <3>1, <3>2 DEF ReadCcm, IsCcm
  <2> DEFINE S == {n \in DOMAIN inside : IsCcmEntry(inside[n])}
  <2>8. FirstCcm(inside) = First(S)
    BY DEF FirstCcm
  <2>9. CASE t.high = AES_CCM_ENCRYPTED_KEY
    <3>1. S = {1}
      BY <2>4, <2>6, <2>9 DEF IsCcmEntry
    <3> HIDE DEF S
    <3>2. First(S) = 1
      <4>1. S \subseteq Nat /\ 1 \in S /\ \A m \in S : 1 =< m
        BY <3>1
      <4>2. QED
        BY <4>1, FirstIsLeast
    <3>3. ReadsAsKey(t, w)
      BY <1>8, <2>9 DEF ReadsAsKey
    <3>4. QED
      BY <2>6, <2>7, <2>8, <3>2, <3>3 DEF inside, p, w
  <2>10. CASE t.high # AES_CCM_ENCRYPTED_KEY
    <3>1. S = {}
      BY <2>4, <2>6, <2>10 DEF IsCcmEntry
    <3> HIDE DEF S
    <3>2. First(S) = 0
      BY <3>1 DEF First
    <3>3. ~ReadsAsKey(t, w)
      BY <2>10 DEF ReadsAsKey
    <3>4. QED
      BY <2>8, <3>2, <3>3 DEF inside, p, w
  <2>11. QED
    BY <2>9, <2>10
<1>9. QED
  BY <1>7, <1>8

-----------------------------------------------------------------------------
(* The keys of the encryption under way, wrapped so far in the order of    *)
(* encryptor.py.                                                           *)
KeysWrapped ==
  /\ method \in Methods /\ time \in Times
  /\ IsSequence(blobs) /\ Len(blobs) \in 0 .. 6
  /\ \A n \in 1 .. Len(blobs) :
       blobs[n] = Wrapped(Wraps[n].under, time, Counters[n], Wraps[n].key)

LEMMA LengthOfFvek ==
  ASSUME NEW m \in Methods
  PROVE  FvekLength(m) \in {16, 32, 64}
BY KeyConstants DEF FvekLength

LEMMA StampIs ==
  ASSUME NEW t \in Times
  PROVE  IsStamp(t)
<1>1. t \in [low : 0 .. MaxWord, high : 0 .. MaxWord]
  BY KeyConstants
<1>2. t.low \in 0 .. MaxWord
  BY <1>1
<1>3. QED
  BY <1>2, WordIsNat DEF IsStamp

LEMMA WrapsAre ==
  /\ Len(Wraps) = 6 /\ Len(Counters) = 6
  /\ Wraps[1] = [under |-> ByPassword, key |-> Vmk]
  /\ Wraps[2] = [under |-> ByPassword, key |-> Vmk]
  /\ Wraps[3] = [under |-> ByRecovery, key |-> Short]
  /\ Wraps[4] = [under |-> ByRecovery, key |-> Vmk]
  /\ Wraps[5] = [under |-> ByRecovery, key |-> Vmk]
  /\ Wraps[6] = [under |-> Vmk, key |-> Fvek]
  /\ Counters[2] = 3 /\ Counters[5] = 6 /\ Counters[6] = 8
<1> DEFINE p == [under |-> ByPassword, key |-> Vmk]
<1> DEFINE q == [under |-> ByRecovery, key |-> Short]
<1> DEFINE r == [under |-> ByRecovery, key |-> Vmk]
<1> DEFINE v == [under |-> Vmk, key |-> Fvek]
<1>1. Wraps = <<p, p, q, r, r, v>>
  BY DEF Wraps
<1> HIDE DEF p, q, r, v
<1>2. /\ Len(Wraps) = 6 /\ Wraps[1] = p /\ Wraps[2] = p /\ Wraps[3] = q
      /\ Wraps[4] = r /\ Wraps[5] = r /\ Wraps[6] = v
  BY <1>1
<1>3. Len(Counters) = 6 /\ Counters[2] = 3 /\ Counters[5] = 6 /\ Counters[6] = 8
  BY DEF Counters
<1>4. QED
  BY <1>2, <1>3 DEF p, q, r, v

(* The bytes a wrapped key takes. *)
LEMMA WrappedIs ==
  ASSUME NEW under, NEW t, NEW counter, NEW key, key.bytes \in Nat
  PROVE  LET b == Wrapped(under, t, counter, key)
         IN  /\ b.tag = "blob" /\ b.bytes = 28 + key.bytes
             /\ b.under = under /\ b.time = t /\ b.counter = counter /\ b.key = key
BY DEF Wrapped

LEMMA KeysHaveBytes ==
  ASSUME method \in Methods
  PROVE  /\ Vmk.bytes = 32 /\ Short.bytes = 16 /\ Fvek.bytes \in {16, 32, 64}
         /\ \A n \in 1 .. 6 : Wraps[n].key.bytes \in {16, 32, 64}
<1>1. Vmk.bytes = 32 /\ Short.bytes = 16
  BY DEF Vmk, Short, Made
<1>2. Fvek.bytes \in {16, 32, 64}
  BY LengthOfFvek DEF Fvek, Made
<1>3. \A n \in 1 .. 6 : n = 1 \/ n = 2 \/ n = 3 \/ n = 4 \/ n = 5 \/ n = 6
  OBVIOUS
<1>4. /\ Wraps[1].key = Vmk /\ Wraps[2].key = Vmk /\ Wraps[3].key = Short
      /\ Wraps[4].key = Vmk /\ Wraps[5].key = Vmk /\ Wraps[6].key = Fvek
  BY WrapsAre
<1>5. QED
  BY <1>1, <1>2, <1>3, <1>4

LEMMA BlobsAre ==
  ASSUME KeysWrapped, Len(blobs) = 6
  PROVE  /\ blobs[1].bytes = 60 /\ blobs[2].bytes = 60 /\ blobs[3].bytes = 44
         /\ blobs[4].bytes = 60 /\ blobs[5].bytes = 60
         /\ blobs[6].bytes = 28 + Fvek.bytes /\ Fvek.bytes \in {16, 32, 64}
         /\ blobs[2] = Wrapped(ByPassword, time, 3, Vmk)
         /\ blobs[5] = Wrapped(ByRecovery, time, 6, Vmk)
         /\ blobs[6] = Wrapped(Vmk, time, 8, Fvek)
<1>1. /\ 1 \in 1 .. Len(blobs) /\ 2 \in 1 .. Len(blobs) /\ 3 \in 1 .. Len(blobs)
      /\ 4 \in 1 .. Len(blobs) /\ 5 \in 1 .. Len(blobs) /\ 6 \in 1 .. Len(blobs)
  OBVIOUS
<1>2. /\ blobs[1] = Wrapped(ByPassword, time, Counters[1], Vmk)
      /\ blobs[2] = Wrapped(ByPassword, time, 3, Vmk)
      /\ blobs[3] = Wrapped(ByRecovery, time, Counters[3], Short)
      /\ blobs[4] = Wrapped(ByRecovery, time, Counters[4], Vmk)
      /\ blobs[5] = Wrapped(ByRecovery, time, 6, Vmk)
      /\ blobs[6] = Wrapped(Vmk, time, 8, Fvek)
  BY <1>1, WrapsAre DEF KeysWrapped
<1>3. Vmk.bytes = 32 /\ Short.bytes = 16 /\ Fvek.bytes \in {16, 32, 64}
  BY KeysHaveBytes DEF KeysWrapped
<1>4. \A n \in {16, 32, 64} : n \in Nat
  OBVIOUS
<1>5. QED
  BY <1>2, <1>3, <1>4, WrappedIs

(* The five entries of the encryption under way. *)
AreBuilt(q) ==
  /\ IsItems(q) /\ Len(q) = 5 /\ DOMAIN q = 1 .. 5
  /\ \A n \in 1 .. 5 : IsEntry(q[n])
  /\ Width(q) \in Nat /\ Width(q) =< 816
  /\ Stated(q[1]).type = DESCRIPTION
  /\ IsVmk(q[2], "password", PasswordSalt, time, Key(2))
  /\ IsVmk(q[3], "recovery", RecoverySalt, time, Key(5))
  /\ Stated(q[4]) = [type |-> FVEK, value |-> AES_CCM_ENCRYPTED_KEY,
                     raw |-> CcmPayload(time, Key(6))]
  /\ Stated(q[5]).type = VOLUME_HEADER_BLOCK

LEMMA KeysAreKeys ==
  ASSUME KeysWrapped, Len(blobs) = 6
  PROVE  /\ \A n \in 1 .. 6 : IsKey(Key(n)) /\ Key(n).blob = blobs[n]
         /\ Key(2).counter = 3 /\ Key(5).counter = 6 /\ Key(6).counter = 8
<1>1. \A n \in 1 .. 6 : n = 1 \/ n = 2 \/ n = 3 \/ n = 4 \/ n = 5 \/ n = 6
  OBVIOUS
<1>2. \A n \in {16, 32, 64} : 28 + n \in Nat
  OBVIOUS
<1>3. \A n \in 1 .. 6 : blobs[n].bytes \in Nat
  BY <1>1, <1>2, BlobsAre
<1>4. \A n \in 1 .. 6 : Key(n).blob = blobs[n] /\ Key(n).counter = Counters[n]
  BY DEF Key
<1>5. Counters[2] = 3 /\ Counters[5] = 6 /\ Counters[6] = 8
  BY WrapsAre
<1>6. QED
  BY <1>3, <1>4, <1>5 DEF IsKey

LEMMA EntriesAreBuilt ==
  ASSUME KeysWrapped, Len(blobs) = 6
  PROVE  AreBuilt(EntriesBuilt)
<1> DEFINE a == BuildDescription(56)
<1> DEFINE b == BuildPasswordVmk(PasswordSalt, time, Key(1), Key(2))
<1> DEFINE c == BuildRecoveryVmk(RecoverySalt, time, Key(3), Key(4), Key(5))
<1> DEFINE d == BuildFvek(time, Key(6))
<1> DEFINE e == BuildVolumeHeaderBlock(TRUE)
<1> DEFINE q == <<a, b, c, d, e>>
<1>1. IsStamp(time)
  BY StampIs DEF KeysWrapped
<1>2. /\ IsKey(Key(1)) /\ IsKey(Key(2)) /\ IsKey(Key(3))
      /\ IsKey(Key(4)) /\ IsKey(Key(5)) /\ IsKey(Key(6))
      /\ Key(1).blob.bytes = 60 /\ Key(2).blob.bytes = 60 /\ Key(3).blob.bytes = 44
      /\ Key(4).blob.bytes = 60 /\ Key(5).blob.bytes = 60
      /\ Key(6).blob.bytes = 28 + Fvek.bytes /\ Fvek.bytes \in {16, 32, 64}
  <2>1. /\ 1 \in 1 .. 6 /\ 2 \in 1 .. 6 /\ 3 \in 1 .. 6
        /\ 4 \in 1 .. 6 /\ 5 \in 1 .. 6 /\ 6 \in 1 .. 6
    OBVIOUS
  <2>2. QED
    BY <2>1, KeysAreKeys, BlobsAre
<1>3. IsEntry(a) /\ IsItem(a) /\ a.bytes = 64 /\ Stated(a).type = DESCRIPTION
  BY OpaqueIsBuilt DEF BuildDescription
<1>4. IsVmk(b, "password", PasswordSalt, time, Key(2)) /\ b.bytes = 224
  <2>1. b.bytes = 104 + Key(1).blob.bytes + Key(2).blob.bytes
    BY <1>1, <1>2, PasswordVmkIsBuilt
  <2>2. IsVmk(b, "password", PasswordSalt, time, Key(2))
    BY <1>1, <1>2, PasswordVmkIsBuilt
  <2>3. QED
    BY <1>2, <2>1, <2>2
<1>5. IsVmk(c, "recovery", RecoverySalt, time, Key(5)) /\ c.bytes = 316
  <2>1. c.bytes = 152 + Key(3).blob.bytes + Key(4).blob.bytes + Key(5).blob.bytes
    BY <1>1, <1>2, RecoveryVmkIsBuilt
  <2>2. IsVmk(c, "recovery", RecoverySalt, time, Key(5))
    BY <1>1, <1>2, RecoveryVmkIsBuilt
  <2>3. QED
    BY <1>2, <2>1, <2>2
<1>6. /\ IsEntry(d) /\ IsItem(d) /\ d.bytes = 20 + (28 + Fvek.bytes)
      /\ Stated(d) = [type |-> FVEK, value |-> AES_CCM_ENCRYPTED_KEY,
                      raw |-> CcmPayload(time, Key(6))]
  BY <1>1, <1>2, FvekIsBuilt
<1>7. /\ IsEntry(e) /\ IsItem(e) /\ e.bytes = 100
      /\ Stated(e).type = VOLUME_HEADER_BLOCK
  BY VolumeHeaderIsBuilt
<1>8. EntriesBuilt = q
  BY DEF EntriesBuilt
<1> HIDE DEF a, b, c, d, e
<1>9. /\ IsSequence(q) /\ Len(q) = 5
      /\ q[1] = a /\ q[2] = b /\ q[3] = c /\ q[4] = d /\ q[5] = e
  BY TuplesAre, Zenon
<1> HIDE DEF q
<1>10. \A n \in 1 .. 5 : n = 1 \/ n = 2 \/ n = 3 \/ n = 4 \/ n = 5
  OBVIOUS
<1>11. IsEntry(b) /\ IsItem(b) /\ IsEntry(c) /\ IsItem(c)
  BY <1>4, <1>5 DEF IsVmk
<1>12. \A n \in 1 .. 5 : IsItem(q[n]) /\ IsEntry(q[n])
  BY <1>3, <1>6, <1>7, <1>9, <1>10, <1>11
<1>13. /\ IsItems(q)
       /\ Width(q) = q[1].bytes + q[2].bytes + q[3].bytes + q[4].bytes + q[5].bytes
  BY <1>9, <1>12, FewItems
<1>14. Width(q) \in Nat /\ Width(q) =< 816
  <2>1. Width(q) = 64 + 224 + 316 + (20 + (28 + Fvek.bytes)) + 100
    BY <1>3, <1>4, <1>5, <1>6, <1>7, <1>9, <1>13
  <2>2. \A n \in {16, 32, 64} : /\ 64 + 224 + 316 + (20 + (28 + n)) + 100 \in Nat
                                /\ 64 + 224 + 316 + (20 + (28 + n)) + 100 =< 816
    OBVIOUS
  <2>3. QED
    BY <1>2, <2>1, <2>2
<1>15. DOMAIN q = 1 .. 5
  BY <1>9, <1>13, ItemsAre
<1>16. AreBuilt(q)
  BY <1>3, <1>4, <1>5, <1>6, <1>7, <1>9, <1>12, <1>13, <1>14, <1>15 DEF AreBuilt
<1>17. QED
  BY <1>8, <1>16

-----------------------------------------------------------------------------
(* What a reader makes of the five entries. *)

(* The nonce that stands before a wrapped key, and the key. *)
Ccm(key) == [time |-> time, counter |-> key.counter, blob |-> key.blob]

LEMMA StatedAre ==
  ASSUME NEW q, AreBuilt(q)
  PROVE  /\ Parsed(q) = AllStated(q)
         /\ DOMAIN AllStated(q) = 1 .. 5
         /\ \A n \in 1 .. 5 : AllStated(q)[n] = Stated(q[n])
<1>1. IsItems(q) /\ Len(q) = 5 /\ \A n \in 1 .. Len(q) : IsEntry(q[n])
  BY DEF AreBuilt
<1>2. /\ Parsed(q) = AllStated(q)
      /\ DOMAIN AllStated(q) = 1 .. Len(q)
      /\ \A n \in 1 .. Len(q) : AllStated(q)[n] = Stated(q[n])
  BY <1>1, ParsedIsStated
<1>3. QED
  BY <1>1, <1>2

LEMMA VmksAreRead ==
  ASSUME KeysWrapped, Len(blobs) = 6, NEW q, AreBuilt(q)
  PROVE  LET v == ExtractVmks(AllStated(q))
         IN  /\ DOMAIN v = {2, 3}
             /\ v[2] = [protection |-> "password", salt |-> PasswordSalt, ccm |-> Ccm(Key(2))]
             /\ v[3] = [protection |-> "recovery", salt |-> RecoverySalt, ccm |-> Ccm(Key(5))]
<1> DEFINE r == AllStated(q)
<1> DEFINE v == ExtractVmks(r)
<1>1. DOMAIN r = 1 .. 5 /\ \A n \in 1 .. 5 : r[n] = Stated(q[n])
  BY StatedAre
<1> HIDE DEF r
<1>2. /\ r[1] = Stated(q[1]) /\ r[2] = Stated(q[2]) /\ r[3] = Stated(q[3])
      /\ r[4] = Stated(q[4]) /\ r[5] = Stated(q[5])
  BY <1>1
<1>3. r[1].type # VMK /\ r[4].type # VMK /\ r[5].type # VMK
  BY <1>2 DEF AreBuilt, VMK, FVEK, DESCRIPTION, VOLUME_HEADER_BLOCK
<1>4. IsVmkEntry(r[2]) /\ IsVmkEntry(r[3])
  BY <1>2 DEF AreBuilt, IsVmk, IsVmkEntry
<1>5. {m \in DOMAIN r : IsVmkEntry(r[m])} = {2, 3}
  <2>1. \A m \in 1 .. 5 : m = 1 \/ m = 2 \/ m = 3 \/ m = 4 \/ m = 5
    OBVIOUS
  <2>2. ~IsVmkEntry(r[1]) /\ ~IsVmkEntry(r[4]) /\ ~IsVmkEntry(r[5])
    BY <1>3 DEF IsVmkEntry
  <2>3. QED
    BY <1>1, <1>4, <2>1, <2>2
<1>6. v = [n \in {2, 3} |-> ReadVmk(r[n])]
  BY <1>5 DEF ExtractVmks
<1>7. IsStamp(time) /\ IsKey(Key(2)) /\ IsKey(Key(5))
  BY StampIs, KeysAreKeys DEF KeysWrapped
<1>8. ReadVmk(r[2]) = [protection |-> "password", salt |-> PasswordSalt, ccm |-> Ccm(Key(2))]
  <2>1. IsVmk(q[2], "password", PasswordSalt, time, Key(2))
    BY DEF AreBuilt
  <2>2. QED
    BY <1>2, <1>7, <2>1, VmkIsRead DEF Ccm
<1>9. ReadVmk(r[3]) = [protection |-> "recovery", salt |-> RecoverySalt, ccm |-> Ccm(Key(5))]
  <2>1. IsVmk(q[3], "recovery", RecoverySalt, time, Key(5))
    BY DEF AreBuilt
  <2>2. QED
    BY <1>2, <1>7, <2>1, VmkIsRead DEF Ccm
<1>10. DOMAIN v = {2, 3} /\ v[2] = ReadVmk(r[2]) /\ v[3] = ReadVmk(r[3])
  BY <1>6
<1>11. QED
  BY <1>8, <1>9, <1>10 DEF r

LEMMA FvekIsRead ==
  ASSUME KeysWrapped, Len(blobs) = 6, NEW q, AreBuilt(q)
  PROVE  ExtractFvek(AllStated(q)) = IF TimeReadsAsKey THEN NoCcm ELSE Ccm(Key(6))
<1> DEFINE r == AllStated(q)
<1> DEFINE p == CcmPayload(time, Key(6))
<1>1. DOMAIN r = 1 .. 5 /\ \A n \in 1 .. 5 : r[n] = Stated(q[n])
  BY StatedAre
<1> HIDE DEF r
<1>2. /\ r[1] = Stated(q[1]) /\ r[2] = Stated(q[2]) /\ r[3] = Stated(q[3])
      /\ r[4] = Stated(q[4]) /\ r[5] = Stated(q[5])
  BY <1>1
<1>3. /\ r[1].type # FVEK /\ r[2].type # FVEK /\ r[3].type # FVEK /\ r[5].type # FVEK
      /\ r[4].type = FVEK /\ r[4].raw = p
  BY <1>2 DEF AreBuilt, IsVmk, VMK, FVEK, DESCRIPTION, VOLUME_HEADER_BLOCK
<1> DEFINE S == {m \in DOMAIN r : r[m].type = FVEK}
<1>4. First(S) = 4
  <2>1. \A m \in 1 .. 5 : m = 1 \/ m = 2 \/ m = 3 \/ m = 4 \/ m = 5
    OBVIOUS
  <2>2. S = {4}
    BY <1>1, <1>3, <2>1
  <2> HIDE DEF S
  <2>3. S \subseteq Nat /\ 4 \in S /\ \A m \in S : 4 =< m
    BY <2>2
  <2>4. QED
    BY <2>3, FirstIsLeast
<1> DEFINE inside == Parsed(p)
<1>5. IsStamp(time) /\ IsKey(Key(6)) /\ Key(6).blob.bytes = 28 + Fvek.bytes
  BY StampIs, KeysAreKeys, BlobsAre DEF KeysWrapped
<1>6. ReadsAsKey(time, 12 + Key(6).blob.bytes) <=> TimeReadsAsKey
  <2>1. Fvek.bytes \in {16, 32, 64}
    BY BlobsAre
  <2>2. \A n \in {16, 32, 64} : 12 + (28 + n) = 8 + 4 + 16 + 12 + n
    OBVIOUS
  <2>3. 12 + Key(6).blob.bytes = 8 + 4 + 16 + 12 + Fvek.bytes
    BY <1>5, <2>1, <2>2
  <2>4. QED
    BY <2>3 DEF ReadsAsKey, TimeReadsAsKey
<1>7. /\ ReadsAsKey(time, 12 + Key(6).blob.bytes)
           => FirstCcm(inside) = 1 /\ ReadCcm(inside[1].raw) = NoCcm
      /\ ~ReadsAsKey(time, 12 + Key(6).blob.bytes) => FirstCcm(inside) = 0
  BY <1>5, PayloadIsParsed
<1>8. ReadCcm(p) = Ccm(Key(6))
  BY <1>5, PayloadIs DEF Ccm
<1> HIDE DEF p, inside
<1>9. ExtractFvek(r) = IF FirstCcm(inside) # 0 THEN ReadCcm(inside[FirstCcm(inside)].raw)
                       ELSE ReadCcm(p)
  <2>1. inside = Parsed(r[4].raw)
    BY <1>3 DEF inside
  <2> DEFINE n == First(S)
  <2> DEFINE k == FirstCcm(inside)
  <2>2. ExtractFvek(r) = CASE n = 0           -> NoCcm
                           [] n # 0 /\ k # 0 -> ReadCcm(inside[k].raw)
                           [] n # 0 /\ k = 0 -> ReadCcm(r[4].raw)
    BY <1>4, <2>1 DEF ExtractFvek
  <2>3. n = 4
    BY <1>4
  <2> HIDE DEF n, k
  <2>4. ExtractFvek(r) = IF k # 0 THEN ReadCcm(inside[k].raw) ELSE ReadCcm(r[4].raw)
    BY <2>2, <2>3
  <2>5. QED
    BY <1>3, <2>4 DEF k
<1>10. CASE TimeReadsAsKey
  BY <1>6, <1>7, <1>9, <1>10 DEF r
<1>11. CASE ~TimeReadsAsKey
  BY <1>6, <1>7, <1>8, <1>9, <1>11 DEF r
<1>12. QED
  BY <1>10, <1>11

-----------------------------------------------------------------------------
(* From a credential to the volume key. *)

LEMMA KeysFit ==
  ASSUME method \in Methods
  PROVE  KeyLengthFits(method, GetKeys(Fvek, method))
<1>1. Fvek.bytes = FvekLength(method)
  BY DEF Fvek, Made
<1>2. method \in {"AES_XTS_128", "AES_XTS_256", "AES_CBC_128", "AES_CBC_256"}
  BY KeyConstants
<1> DEFINE k == GetKeys(Fvek, method)
<1>3. CASE method = "AES_CBC_128"
  <2>1. Fvek.bytes = 16
    BY <1>1, <1>3 DEF FvekLength
  <2>2. k = <<Slice(Fvek, 0, 16), NoSlice>>
    BY <1>3 DEF GetKeys
  <2>3. k[1].from = 0 /\ k[1].to = 16
    BY <2>1, <2>2 DEF Slice, Smaller
  <2> HIDE DEF k
  <2>4. KeyLengthFits(method, k)
    BY <1>3, <2>3 DEF KeyLengthFits
  <2>5. QED
    BY <2>4 DEF k
<1>4. CASE method = "AES_CBC_256"
  <2>1. Fvek.bytes = 32
    BY <1>1, <1>4 DEF FvekLength
  <2>2. k = <<Slice(Fvek, 0, 32), NoSlice>>
    BY <1>4 DEF GetKeys
  <2>3. k[1].from = 0 /\ k[1].to = 32
    BY <2>1, <2>2 DEF Slice, Smaller
  <2> HIDE DEF k
  <2>4. KeyLengthFits(method, k)
    BY <1>4, <2>3 DEF KeyLengthFits
  <2>5. QED
    BY <2>4 DEF k
<1>5. CASE method = "AES_XTS_128"
  <2>1. Fvek.bytes = 32
    BY <1>1, <1>5 DEF FvekLength
  <2>2. k = <<Slice(Fvek, 0, Fvek.bytes), NoSlice>>
    BY <1>5 DEF GetKeys
  <2>3. k[1].from = 0 /\ k[1].to = 32
    BY <2>1, <2>2 DEF Slice, Smaller
  <2> HIDE DEF k
  <2>4. KeyLengthFits(method, k)
    BY <1>5, <2>3 DEF KeyLengthFits
  <2>5. QED
    BY <2>4 DEF k
<1>6. CASE method = "AES_XTS_256"
  <2>1. Fvek.bytes = 64
    BY <1>1, <1>6 DEF FvekLength
  <2>2. k = <<Slice(Fvek, 0, Fvek.bytes), NoSlice>>
    BY <1>6 DEF GetKeys
  <2>3. k[1].from = 0 /\ k[1].to = 64
    BY <2>1, <2>2 DEF Slice, Smaller
  <2> HIDE DEF k
  <2>4. KeyLengthFits(method, k)
    BY <1>6, <2>3 DEF KeyLengthFits
  <2>5. QED
    BY <2>4 DEF k
<1>7. QED
  BY <1>2, <1>3, <1>4, <1>5, <1>6

(* A wrapped key opens under the key it was wrapped with. *)
LEMMA WrappedOpens ==
  ASSUME NEW under, NEW counter, NEW key, key.bytes \in Nat, NEW k,
         k.counter = counter, k.blob = Wrapped(under, time, counter, key)
  PROVE  Unwrapped(Ccm(k), under) = key
<1> DEFINE b == Wrapped(under, time, counter, key)
<1>1. b.tag = "blob" /\ b.under = under /\ b.time = time /\ b.counter = counter /\ b.key = key
  BY WrappedIs
<1> HIDE DEF b
<1>2. k.blob = b
  BY DEF b
<1>3. Ccm(k).blob = b /\ Ccm(k).time = time /\ Ccm(k).counter = counter
  BY <1>2 DEF Ccm
<1>4. QED
  BY <1>1, <1>3 DEF Unwrapped

LEMMA GarbageStaysShut ==
  ASSUME NEW under
  PROVE  Unwrapped(NoCcm, under) = NoKey /\ NoKey # Fvek
<1>1. NoCcm.blob.tag = "garbage"
  BY DEF NoCcm
<1>2. Unwrapped(NoCcm, under) = NoKey
  BY <1>1 DEF Unwrapped
<1>3. NoKey.kind = "none" /\ Fvek.kind = "fvek"
  BY DEF NoKey, Fvek, Made
<1>4. QED
  BY <1>2, <1>3

(* Each protector's entry is found by its protection. *)
LEMMA ProtectorsAreFound ==
  ASSUME KeysWrapped, Len(blobs) = 6, NEW q, AreBuilt(q), NEW x,
         x.vmks = ExtractVmks(AllStated(q))
  PROVE  /\ VmkFor(x, "password")
              = [protection |-> "password", salt |-> PasswordSalt, ccm |-> Ccm(Key(2))]
         /\ VmkFor(x, "recovery")
              = [protection |-> "recovery", salt |-> RecoverySalt, ccm |-> Ccm(Key(5))]
<1> DEFINE v == x.vmks
<1> DEFINE S(p) == {m \in DOMAIN v : v[m].protection = p}
<1>1. /\ DOMAIN v = {2, 3}
      /\ v[2] = [protection |-> "password", salt |-> PasswordSalt, ccm |-> Ccm(Key(2))]
      /\ v[3] = [protection |-> "recovery", salt |-> RecoverySalt, ccm |-> Ccm(Key(5))]
  BY VmksAreRead
<1>2. S("password") = {2} /\ S("recovery") = {3}
  BY <1>1
<1>3. First({2}) = 2 /\ First({3}) = 3
  <2>1. ASSUME NEW n \in Nat PROVE First({n}) = n
    <3> DEFINE T == {n}
    <3>1. T \subseteq Nat /\ n \in T /\ \A m \in T : n =< m
      OBVIOUS
    <3> HIDE DEF T
    <3>2. First(T) = n
      BY <3>1, FirstIsLeast
    <3>3. QED
      BY <3>2 DEF T
  <2>2. QED
    BY <2>1
<1>4. \A p : VmkFor(x, p) = IF First(S(p)) = 0
                            THEN [protection |-> "none", salt |-> 0, ccm |-> NoCcm]
                            ELSE v[First(S(p))]
  BY DEF VmkFor
<1>5. First(S("password")) = 2 /\ First(S("recovery")) = 3
  BY <1>2, <1>3
<1> HIDE DEF S, v
<1>6. QED
  BY <1>1, <1>4, <1>5

(* With either credential: the key and the method of the run. *)
LEMMA BothOpen ==
  ASSUME KeysWrapped, Len(blobs) = 6, recovery \in RecoveryKeys, NEW q, AreBuilt(q),
         NEW b, b.method.low = method
  PROVE  \A opened \in {OpenWithPassword(Extracted(b, AllStated(q)), "right"),
                        OpenWithRecovery(Extracted(b, AllStated(q)), Shown(recovery))} :
           /\ opened.key = Fvek <=> ~TimeReadsAsKey
           /\ opened.method = method
           /\ KeyLengthFits(method, GetKeys(Fvek, opened.method))
<1> DEFINE x == Extracted(b, AllStated(q))
<1>1. /\ x.vmks = ExtractVmks(AllStated(q)) /\ x.method = method
      /\ x.fvek = ExtractFvek(AllStated(q))
  BY DEF Extracted
<1> HIDE DEF x
<1>2. /\ VmkFor(x, "password")
           = [protection |-> "password", salt |-> PasswordSalt, ccm |-> Ccm(Key(2))]
      /\ VmkFor(x, "recovery")
           = [protection |-> "recovery", salt |-> RecoverySalt, ccm |-> Ccm(Key(5))]
  BY <1>1, ProtectorsAreFound
<1>3. x.fvek = IF TimeReadsAsKey THEN NoCcm ELSE Ccm(Key(6))
  BY <1>1, FvekIsRead
<1>4. /\ Key(2).counter = 3 /\ Key(2).blob = Wrapped(ByPassword, time, 3, Vmk)
      /\ Key(5).counter = 6 /\ Key(5).blob = Wrapped(ByRecovery, time, 6, Vmk)
      /\ Key(6).counter = 8 /\ Key(6).blob = Wrapped(Vmk, time, 8, Fvek)
      /\ Vmk.bytes \in Nat /\ Fvek.bytes \in Nat
  <2>1. 2 \in 1 .. 6 /\ 5 \in 1 .. 6 /\ 6 \in 1 .. 6
    OBVIOUS
  <2>2. Vmk.bytes = 32
    BY KeysHaveBytes DEF KeysWrapped
  <2>3. \A n \in {16, 32, 64} : n \in Nat
    OBVIOUS
  <2>4. QED
    BY <2>1, <2>2, <2>3, KeysAreKeys, BlobsAre
<1>5. /\ Unwrapped(Ccm(Key(2)), ByPassword) = Vmk
      /\ Unwrapped(Ccm(Key(5)), ByRecovery) = Vmk
      /\ Unwrapped(Ccm(Key(6)), Vmk) = Fvek
  BY <1>4, WrappedOpens
<1>6. Unwrapped(x.fvek, Vmk) = Fvek <=> ~TimeReadsAsKey
  BY <1>3, <1>5, GarbageStaysShut
<1> DEFINE found == [key |-> Unwrapped(x.fvek, Vmk), method |-> method]
<1>7. OpenWithPassword(x, "right") = found
  BY <1>1, <1>2, <1>5 DEF OpenWithPassword, OpenedBy, ByPassword
<1>8. OpenWithRecovery(x, Shown(recovery)) = found
  <2>1. recovery \in [1 .. 8 -> 0 .. MaxWord]
    BY KeyConstants
  <2>2. Accepted(Shown(recovery))
    BY <2>1, ShownIsAccepted
  <2>3. QED
    BY <1>1, <1>2, <1>5, <2>2 DEF OpenWithRecovery, OpenedBy, ByRecovery
<1>9. KeyLengthFits(method, GetKeys(Fvek, method))
  BY KeysFit DEF KeysWrapped
<1>10. /\ found.key = Fvek <=> ~TimeReadsAsKey
       /\ found.method = method
  BY <1>6
<1> HIDE DEF found
<1>11. QED
  BY <1>7, <1>8, <1>9, <1>10 DEF x

-----------------------------------------------------------------------------
(* The block, up to what stands behind the five entries. *)
BlockOf(entries, m, items) ==
  [tag |-> "block", size |-> MetadataSize(entries), next |-> NextNonce,
   method |-> [high |-> m, low |-> m], items |-> items]

(* ... the zeros, and then the hash. *)
IsBuilt ==
  \E x \in 0 .. 15 : block = BlockOf(EntriesBuilt, method, Append(EntriesBuilt, Opaque(x)))

IsStored ==
  \E x \in 0 .. 15 :
    block = BlockOf(EntriesBuilt, method,
                    Append(Append(EntriesBuilt, Opaque(x)), Opaque(88)))

(* The keys of the run that stored the block stay what they are until the  *)
(* next one begins, and the block holds them: this is what relates it to   *)
(* the credentials that are tried on it.                                   *)
KeyInv ==
  /\ pc \in {"idle", "wrap", "validate", "stored"}
  /\ run \in 0 .. MaxRuns
  /\ recovery \in RecoveryKeys
  /\ KeysWrapped
  /\ pc \in {"validate", "stored"} => Len(blobs) = 6
  /\ pc = "validate" => IsBuilt
  /\ pc = "stored" => IsStored
  /\ block.tag \in {"none", "block"}
  /\ block.tag = "block" => block.size =< 65536 - 64 - 88 - 16

LEMMA AppendedItems ==
  ASSUME NEW s, IsItems(s), NEW x, IsItem(x)
  PROVE  IsItems(Append(s, x))
<1> DEFINE L == Len(s)
<1> DEFINE t == Append(s, x)
<1>1. /\ IsSequence(t) /\ L \in Nat /\ DOMAIN s = 1 .. L /\ DOMAIN t = 1 .. L + 1
      /\ \A i \in 1 .. L : t[i] = s[i]
      /\ t[L + 1] = x
  BY Appended DEF IsItems
<1> HIDE DEF L, t
<1>2. \A i \in 1 .. L + 1 : i \in 1 .. L \/ i = L + 1
  BY <1>1
<1>3. \A i \in DOMAIN t : IsItem(t[i])
  BY <1>1, <1>2 DEF IsItems
<1>4. QED
  BY <1>1, <1>3 DEF IsItems, t

(* The size that is stored ends the reading behind the last entry, before  *)
(* the zeros and the hash.                                                 *)
LEMMA EntriesAreFound ==
  ASSUME NEW q, AreBuilt(q), NEW a, IsItem(a), NEW b, IsItem(b)
  PROVE  LET items == Append(Append(q, a), b)
         IN  ParseEntries(items, Smaller(Width(items), MetadataSize(q) - 48)) = AllStated(q)
<1> DEFINE s == Append(q, a)
<1> DEFINE items == Append(s, b)
<1>1. /\ IsItems(q) /\ Len(q) = 5 /\ \A n \in 1 .. 5 : IsEntry(q[n])
      /\ Width(q) \in Nat /\ DOMAIN q = 1 .. 5
  BY DEF AreBuilt
<1>2. IsItems(s) /\ Len(s) = 6 /\ \A n \in 1 .. 5 : s[n] = q[n]
  <2>1. IsSequence(q)
    BY <1>1 DEF IsItems
  <2>2. Len(s) = Len(q) + 1 /\ \A n \in 1 .. Len(q) : s[n] = q[n]
    BY <2>1, Appended
  <2>3. IsItems(s)
    BY <1>1, AppendedItems
  <2> HIDE DEF s
  <2>4. QED
    BY <1>1, <2>2, <2>3
<1> HIDE DEF s
<1>3. IsItems(items) /\ Len(items) = 7 /\ \A n \in 1 .. 5 : items[n] = q[n]
  <2>1. IsSequence(s)
    BY <1>2 DEF IsItems
  <2>2. Len(items) = Len(s) + 1 /\ \A n \in 1 .. Len(s) : items[n] = s[n]
    BY <2>1, Appended
  <2>3. IsItems(items)
    BY <1>2, AppendedItems
  <2> HIDE DEF items
  <2>4. \A n \in 1 .. 5 : n \in 1 .. 6
    OBVIOUS
  <2>5. QED
    BY <1>2, <2>2, <2>3, <2>4
<1> HIDE DEF items
<1> DEFINE e == EndsOf(items)
<1>4. e[5] = Width(q)
  <2> DEFINE k == 5
  <2>1. /\ k \in Nat /\ k =< Len(items) /\ k =< Len(q)
        /\ \A n \in 1 .. k : items[n].bytes = q[n].bytes
    BY <1>1, <1>3
  <2>2. k \in 0 .. k /\ k = Len(q)
    BY <1>1
  <2>3. IsItems(items) /\ IsItems(q)
    BY <1>1, <1>3
  <2> HIDE DEF k
  <2>4. \A n \in 0 .. k : EndsOf(items)[n] = EndsOf(q)[n]
    BY <2>1, <2>3, SameEnds
  <2>5. EndsOf(items)[k] = Width(q)
    BY <2>2, <2>4 DEF Width
  <2>6. QED
    BY <2>5 DEF k
<1>5. e[7] = Width(items) /\ e[7] \in Nat /\ e[5] =< e[7]
  <2>1. /\ \A n \in 0 .. Len(items) : e[n] \in Nat
        /\ \A n \in 1 .. Len(items) : e[n] = e[n - 1] + items[n].bytes
        /\ \A n \in 1 .. Len(items) : items[n].bytes \in Nat
    BY <1>3, EndsAre, ItemsAre
  <2> HIDE DEF e
  <2>2. /\ 5 \in 0 .. Len(items) /\ 6 \in 1 .. Len(items) /\ 7 \in 1 .. Len(items)
        /\ 7 \in 0 .. Len(items) /\ 6 - 1 = 5 /\ 7 - 1 = 6
    BY <1>3
  <2>3. /\ e[5] \in Nat /\ e[7] \in Nat
        /\ e[6] = e[5] + items[6].bytes /\ e[7] = e[6] + items[7].bytes
        /\ items[6].bytes \in Nat /\ items[7].bytes \in Nat
    BY <2>1, <2>2
  <2>4. Width(items) = e[7]
    BY <1>3 DEF Width, e
  <2>5. QED
    BY <2>3, <2>4
<1>6. Smaller(Width(items), MetadataSize(q) - 48) = e[5]
  <2>1. MetadataSize(q) - 48 = Width(q)
    BY <1>1 DEF MetadataSize
  <2> HIDE DEF e
  <2>2. QED
    BY <1>1, <1>4, <1>5, <2>1 DEF Smaller
<1>7. ParseEntries(items, e[5]) = [n \in 1 .. 5 |-> Stated(items[n])]
  <2>1. 5 \in 0 .. Len(items) /\ \A n \in 1 .. 5 : IsEntry(items[n])
    BY <1>1, <1>3
  <2>2. QED
    BY <1>3, <2>1, EntriesAreRead
<1>8. AllStated(q) = [n \in 1 .. 5 |-> Stated(items[n])]
  BY <1>1, <1>3 DEF AllStated
<1>9. QED
  BY <1>6, <1>7, <1>8 DEF items, s

LEMMA VmkParses ==
  ASSUME NEW b, NEW protection, NEW salt, NEW t, NEW key,
         IsVmk(b, protection, salt, t, key)
  PROVE  LET parts == Tail(b.content)
             stretch == First({m \in DOMAIN parts : parts[m].header.value = STRETCH_KEY})
         IN  /\ Parsed(Dropped(b.content, 28)) = AllStated(parts)
             /\ LET keys == Tail(Tail(parts[stretch].content))
                IN  Parsed(Dropped(parts[stretch].content, 20)) = AllStated(keys)
<1> DEFINE parts == Tail(b.content)
<1> DEFINE S == {m \in DOMAIN parts : parts[m].header.value = STRETCH_KEY}
<1>1. Dropped(b.content, 28) = parts /\ ArePartsOf(parts, salt, t, key)
  BY DEF IsVmk
<1> HIDE DEF parts
<1>2. /\ Parsed(parts) = AllStated(parts) /\ DOMAIN parts = 1 .. Len(parts)
      /\ Len(parts) \in 2 .. 3 /\ IsStretch(parts[1], salt)
  BY <1>1 DEF ArePartsOf
<1>3. /\ parts[1].header.value = STRETCH_KEY
      /\ Parsed(Dropped(parts[1].content, 20)) = AllStated(Tail(Tail(parts[1].content)))
  BY <1>2 DEF IsStretch
<1>4. First(S) = 1
  <2>1. 1 \in 1 .. Len(parts) /\ \A m \in 1 .. Len(parts) : m \in Nat /\ 1 =< m
    BY <1>2
  <2>2. S \subseteq Nat /\ 1 \in S /\ \A m \in S : 1 =< m
    BY <1>2, <1>3, <2>1
  <2> HIDE DEF S
  <2>3. QED
    BY <2>2, FirstIsLeast
<1>5. QED
  BY <1>1, <1>2, <1>3, <1>4 DEF parts

-----------------------------------------------------------------------------
LEMMA KeyInvInit ==
  ASSUME Init
  PROVE  KeyInv
<1>1. method \in Methods /\ time \in Times /\ recovery \in RecoveryKeys
  BY KeyConstants DEF Init
<1>2. IsSequence(blobs) /\ Len(blobs) = 0
  BY DEF Init, IsSequence
<1>3. KeysWrapped
  BY <1>1, <1>2 DEF KeysWrapped
<1>4. pc = "idle" /\ run = 0 /\ block.tag = "none"
  BY DEF Init, NoBlock
<1>5. 0 \in 0 .. MaxRuns
  BY KeyConstants
<1>6. QED
  BY <1>1, <1>3, <1>4, <1>5 DEF KeyInv

LEMMA KeyInvGenerate ==
  ASSUME KeyInv, Generate
  PROVE  KeyInv'
<1>1. /\ method' \in Methods /\ time' \in Times /\ recovery' \in RecoveryKeys
      /\ blobs' = <<>> /\ pc' = "wrap" /\ block' = block
  BY DEF Generate
<1>2. IsSequence(blobs') /\ Len(blobs') = 0
  BY <1>1 DEF IsSequence
<1>3. KeysWrapped'
  BY <1>1, <1>2 DEF KeysWrapped
<1>4. run' \in 0 .. MaxRuns
  <2>1. run \in 0 .. MaxRuns /\ run < MaxRuns /\ run' = run + 1 /\ MaxRuns \in Nat
    BY KeyConstants DEF KeyInv, Generate
  <2>2. QED
    BY <2>1
<1>5. QED
  BY <1>1, <1>3, <1>4 DEF KeyInv

LEMMA KeyInvWrapNext ==
  ASSUME KeyInv, WrapNext
  PROVE  KeyInv'
<1> DEFINE L == Len(blobs)
<1> DEFINE b == Wrapped(Wraps[L + 1].under, time, Counters[L + 1], Wraps[L + 1].key)
<1>1. /\ pc = "wrap" /\ pc' = pc /\ run' = run /\ method' = method /\ time' = time
      /\ recovery' = recovery /\ block' = block /\ blobs' = Append(blobs, b)
  BY DEF WrapNext
<1>2. L \in 0 .. 6 /\ L < 6 /\ IsSequence(blobs)
  BY WrapsAre DEF WrapNext, KeyInv, KeysWrapped
<1>3. /\ IsSequence(blobs') /\ Len(blobs') = L + 1
      /\ \A n \in 1 .. L : blobs'[n] = blobs[n]
      /\ blobs'[L + 1] = b
  BY <1>1, <1>2, Appended
<1>4. Wraps' = Wraps
  BY <1>1 DEF Wraps, ByPassword, ByRecovery, Short, Vmk, Fvek, PasswordSalt, RecoverySalt
<1>5. \A n \in 1 .. L : blobs[n] = Wrapped(Wraps[n].under, time, Counters[n], Wraps[n].key)
  BY DEF KeyInv, KeysWrapped
<1> DEFINE w == Wraps
<1>6. b = Wrapped(w[L + 1].under, time, Counters[L + 1], w[L + 1].key)
  OBVIOUS
<1> HIDE DEF L, b, w
<1>7. \A n \in 1 .. L + 1 : n \in 1 .. L \/ n = L + 1
  BY <1>2
<1>8. \A n \in 1 .. L + 1 :
        blobs'[n] = Wrapped(w[n].under, time, Counters[n], w[n].key)
  BY <1>3, <1>5, <1>6, <1>7 DEF w
<1>9. KeysWrapped'
  <2>1. L + 1 \in 0 .. 6
    BY <1>2
  <2>2. \A n \in 1 .. Len(blobs') :
          blobs'[n] = Wrapped(Wraps'[n].under, time', Counters[n], Wraps'[n].key)
    BY <1>1, <1>3, <1>4, <1>8 DEF w
  <2>3. Counters' = Counters
    BY DEF Counters
  <2>4. QED
    BY <1>1, <1>3, <2>1, <2>2, <2>3 DEF KeyInv, KeysWrapped, Wrapped
<1>10. QED
  BY <1>1, <1>9 DEF KeyInv

(* While the keys stay, the entries do. *)
LEMMA SameKeys ==
  ASSUME KeysWrapped, UNCHANGED <<run, method, time, recovery, blobs>>
  PROVE  KeysWrapped' /\ EntriesBuilt' = EntriesBuilt
<1>1. Wraps' = Wraps
  BY DEF Wraps, ByPassword, ByRecovery, Short, Vmk, Fvek, PasswordSalt, RecoverySalt
<1>2. KeysWrapped'
  BY <1>1 DEF KeysWrapped
<1>3. EntriesBuilt' = EntriesBuilt
  BY DEF EntriesBuilt, Key, PasswordSalt, RecoverySalt
<1>4. QED
  BY <1>2, <1>3

LEMMA SizeFits ==
  ASSUME KeysWrapped, Len(blobs) = 6
  PROVE  /\ MetadataSize(EntriesBuilt) \in Nat
         /\ MetadataSize(EntriesBuilt) =< 65536 - 64 - 88 - 16
<1>1. AreBuilt(EntriesBuilt)
  BY EntriesAreBuilt
<1> DEFINE w == Width(EntriesBuilt)
<1>2. w \in Nat /\ w =< 816
  BY <1>1 DEF AreBuilt
<1> HIDE DEF w
<1>3. 48 + w \in Nat /\ 48 + w =< 65536 - 64 - 88 - 16
  BY <1>2
<1>4. QED
  BY <1>3 DEF MetadataSize, w

LEMMA KeyInvBuildBlock ==
  ASSUME KeyInv, BuildBlock
  PROVE  KeyInv'
<1> DEFINE q == EntriesBuilt
<1> DEFINE size == MetadataSize(q)
<1>1. /\ pc' = "validate"
      /\ run' = run /\ method' = method /\ time' = time /\ recovery' = recovery
      /\ blobs' = blobs
      /\ block' = BlockOf(q, method, Append(q, Opaque((16 - ((64 + size) % 16)) % 16)))
  BY DEF BuildBlock, BlockOf
<1>2. KeysWrapped /\ Len(blobs) = 6
  BY WrapsAre DEF BuildBlock, KeyInv
<1>3. KeysWrapped' /\ EntriesBuilt' = q /\ Len(blobs') = 6
  BY <1>1, <1>2, SameKeys
<1>4. size \in Nat /\ size =< 65536 - 64 - 88 - 16
  BY <1>2, SizeFits
<1>5. PICK x \in 0 .. 15 : x = (16 - ((64 + size) % 16)) % 16
  <2> HIDE DEF size
  <2>1. (64 + size) % 16 \in 0 .. 15
    BY <1>4
  <2>2. QED
    BY <2>1
<1>6. block' = BlockOf(q, method, Append(q, Opaque(x)))
  BY <1>1, <1>5
<1>7. block'.tag = "block" /\ block'.size = size
  BY <1>6 DEF BlockOf
<1> HIDE DEF q
<1>8. block' = BlockOf(EntriesBuilt', method', Append(EntriesBuilt', Opaque(x)))
  BY <1>1, <1>3, <1>6
<1>9. IsBuilt'
  BY <1>8 DEF IsBuilt
<1> HIDE DEF size
<1>10. QED
  BY <1>1, <1>3, <1>4, <1>7, <1>9 DEF KeyInv

LEMMA KeyInvValidate ==
  ASSUME KeyInv, Validate
  PROVE  KeyInv'
<1> DEFINE q == EntriesBuilt
<1>1. /\ pc = "validate" /\ pc' = "stored"
      /\ run' = run /\ method' = method /\ time' = time /\ recovery' = recovery
      /\ blobs' = blobs /\ block' = [block EXCEPT !.items = Append(block.items, Opaque(88))]
  BY DEF Validate
<1>2. KeysWrapped /\ Len(blobs) = 6 /\ IsBuilt
  BY <1>1 DEF KeyInv
<1>3. KeysWrapped' /\ EntriesBuilt' = q /\ Len(blobs') = 6
  BY <1>1, <1>2, SameKeys
<1>4. PICK x \in 0 .. 15 : block = BlockOf(q, method, Append(q, Opaque(x)))
  BY <1>2 DEF IsBuilt
<1>5. block' = BlockOf(q, method, Append(Append(q, Opaque(x)), Opaque(88)))
  BY <1>1, <1>4 DEF BlockOf
<1>6. block'.tag = "block" /\ block'.size = MetadataSize(q)
  BY <1>5 DEF BlockOf
<1>7. block'.size =< 65536 - 64 - 88 - 16
  BY <1>2, <1>6, SizeFits
<1> HIDE DEF q
<1>8. block' = BlockOf(EntriesBuilt', method',
                       Append(Append(EntriesBuilt', Opaque(x)), Opaque(88)))
  BY <1>1, <1>3, <1>5
<1>9. IsStored'
  BY <1>8 DEF IsStored
<1>10. QED
  BY <1>1, <1>3, <1>6, <1>7, <1>9 DEF KeyInv

LEMMA KeyInvInductive ==
  ASSUME KeyInv, [Next]_vars
  PROVE  KeyInv'
<1>1. CASE Generate
  BY <1>1, KeyInvGenerate
<1>2. CASE WrapNext
  BY <1>2, KeyInvWrapNext
<1>3. CASE BuildBlock
  BY <1>3, KeyInvBuildBlock
<1>4. CASE Validate
  BY <1>4, KeyInvValidate
<1>5. CASE UNCHANGED vars
  <2>1. /\ pc' = pc /\ run' = run /\ method' = method /\ time' = time
        /\ recovery' = recovery /\ blobs' = blobs /\ block' = block
    BY <1>5 DEF vars
  <2>2. KeysWrapped' /\ EntriesBuilt' = EntriesBuilt
    BY <2>1, SameKeys DEF KeyInv
  <2>3. (IsBuilt => IsBuilt') /\ (IsStored => IsStored')
    BY <2>1, <2>2 DEF IsBuilt, IsStored
  <2>4. QED
    BY <2>1, <2>2, <2>3 DEF KeyInv
<1>6. QED
  BY <1>1, <1>2, <1>3, <1>4, <1>5 DEF Next

LEMMA KeyInvHolds == Spec => []KeyInv
<1>1. Init => KeyInv
  BY KeyInvInit
<1>2. QED
  BY <1>1, KeyInvInductive, PTL DEF Spec

(* Every wrapped key has the size of one of the three keys there are, and  *)
(* the metadata never grows past its region, for every method the command  *)
(* line offers: the size field of metadata_size cannot mislead a reader.   *)
THEOREM KeyTypes == Spec => []TypeOK
<1>1. KeyInv => TypeOK
  <2> SUFFICES ASSUME KeyInv
               PROVE  TypeOK
    OBVIOUS
  <2>1. Len(Wraps) = 6
    BY WrapsAre
  <2>2. KeysWrapped
    BY DEF KeyInv
  <2>3. Len(blobs) =< Len(Wraps) /\ DOMAIN blobs = 1 .. Len(blobs) /\ Len(blobs) \in 0 .. 6
    BY <2>1, <2>2, Appended DEF KeysWrapped
  <2>4. \A n \in DOMAIN blobs : blobs[n].tag = "blob" /\ blobs[n].bytes \in {44, 60, 92}
    <3> SUFFICES ASSUME NEW n \in DOMAIN blobs
                 PROVE  blobs[n].tag = "blob" /\ blobs[n].bytes \in {44, 60, 92}
      OBVIOUS
    <3>1. n \in 1 .. Len(blobs) /\ n \in 1 .. 6
      BY <2>3
    <3>2. Wraps[n].key.bytes \in {16, 32, 64}
      BY <2>2, <3>1, KeysHaveBytes DEF KeysWrapped
    <3>3. \A k \in {16, 32, 64} : k \in Nat /\ 28 + k \in {44, 60, 92}
      OBVIOUS
    <3>4. blobs[n] = Wrapped(Wraps[n].under, time, Counters[n], Wraps[n].key)
      BY <2>2, <3>1 DEF KeysWrapped
    <3>5. blobs[n].tag = "blob" /\ blobs[n].bytes = 28 + Wraps[n].key.bytes
      BY <3>2, <3>3, <3>4, WrappedIs
    <3>6. QED
      BY <3>2, <3>3, <3>5
  <2>5. QED
    BY <2>2, <2>3, <2>4 DEF KeyInv, KeysWrapped, TypeOK
<1>2. QED
  BY <1>1, KeyInvHolds, PTL

(* What stands in a stored block. *)
LEMMA StoredIsRead ==
  ASSUME KeyInv, pc = "stored"
  PROVE  /\ KeysWrapped /\ Len(blobs) = 6 /\ recovery \in RecoveryKeys
         /\ AreBuilt(EntriesBuilt)
         /\ EntriesOf(block) = AllStated(EntriesBuilt)
         /\ block.method.low = method
<1> DEFINE q == EntriesBuilt
<1>1. KeysWrapped /\ Len(blobs) = 6 /\ recovery \in RecoveryKeys /\ IsStored
  BY DEF KeyInv
<1>2. AreBuilt(q)
  BY <1>1, EntriesAreBuilt
<1>3. PICK x \in 0 .. 15 :
        block = BlockOf(q, method, Append(Append(q, Opaque(x)), Opaque(88)))
  BY <1>1 DEF IsStored
<1> HIDE DEF q
<1> DEFINE items == Append(Append(q, Opaque(x)), Opaque(88))
<1>4. block.items = items /\ block.size = MetadataSize(q) /\ block.method.low = method
  BY <1>3 DEF BlockOf
<1>5. IsItem(Opaque(x)) /\ IsItem(Opaque(88))
  BY OpaqueIsItem
<1>6. ParseEntries(items, Smaller(Width(items), MetadataSize(q) - 48)) = AllStated(q)
  BY <1>2, <1>5, EntriesAreFound
<1> HIDE DEF items
<1>7. EntriesOf(block) = AllStated(q)
  BY <1>4, <1>6 DEF EntriesOf
<1>8. QED
  BY <1>1, <1>2, <1>4, <1>7 DEF q

(* The parser goes by the sizes that stand in the metadata, the builder    *)
(* by what it puts together: in every block that is stored, at every depth *)
(* and behind every fixed offset (28 and 20 bytes), the entries read are   *)
(* the entries built, and neither the padding nor the hash at the end is   *)
(* taken for one.                                                          *)
THEOREM BlocksAreParsed == Spec => []ParsesWhatWasBuilt
<1>1. KeyInv => ParsesWhatWasBuilt
  <2> SUFFICES ASSUME KeyInv, pc = "stored"
               PROVE  ParsesWhatWasBuilt
    BY DEF ParsesWhatWasBuilt
  <2>1. AreBuilt(EntriesBuilt) /\ EntriesOf(block) = AllStated(EntriesBuilt)
    BY StoredIsRead
  <2> DEFINE Reads(b) ==
        LET parts == Tail(b.content)
            stretch == First({m \in DOMAIN parts : parts[m].header.value = STRETCH_KEY})
        IN  /\ Parsed(Dropped(b.content, 28)) = AllStated(parts)
            /\ LET keys == Tail(Tail(parts[stretch].content))
               IN  Parsed(Dropped(parts[stretch].content, 20)) = AllStated(keys)
  <2>2. /\ IsVmk(EntriesBuilt[2], "password", PasswordSalt, time, Key(2))
        /\ IsVmk(EntriesBuilt[3], "recovery", RecoverySalt, time, Key(5))
    BY <2>1 DEF AreBuilt
  <2>3. Reads(EntriesBuilt[2]) /\ Reads(EntriesBuilt[3])
    BY <2>2, VmkParses
  <2>4. (\A n \in {2, 3} : Reads(EntriesBuilt[n])) => ParsesWhatWasBuilt
    BY <2>1 DEF ParsesWhatWasBuilt
  <2> HIDE DEF Reads
  <2>5. QED
    BY <2>3, <2>4
<1>2. QED
  BY <1>1, KeyInvHolds, PTL

(* Password and recovery key each open what the encryption stored, up to   *)
(* the volume key itself, whatever the clock showed, except when the time  *)
(* stamp of the nonce reads as an entry with a key: then neither does.     *)
THEOREM ProtectorsOpen == Spec => []EitherProtectorOpens
<1>1. KeyInv => EitherProtectorOpens
  <2> SUFFICES ASSUME KeyInv, pc = "stored"
               PROVE  EitherProtectorOpens
    BY DEF EitherProtectorOpens
  <2> DEFINE x == Extracted(block, AllStated(EntriesBuilt))
  <2> DEFINE Right(opened) ==
        /\ opened.key = Fvek <=> ~TimeReadsAsKey
        /\ opened.method = method
        /\ KeyLengthFits(method, GetKeys(Fvek, opened.method))
  <2>1. EntriesOf(block) = AllStated(EntriesBuilt)
    BY StoredIsRead
  <2>2. \A opened \in {OpenWithPassword(x, "right"), OpenWithRecovery(x, Shown(recovery))} :
          Right(opened)
    BY StoredIsRead, BothOpen
  <2>3. (\A opened \in {OpenWithPassword(x, "right"), OpenWithRecovery(x, Shown(recovery))} :
           Right(opened)) => EitherProtectorOpens
    BY <2>1 DEF EitherProtectorOpens
  <2>4. QED
    BY <2>2, <2>3
<1>2. QED
  BY <1>1, KeyInvHolds, PTL
=============================================================================
