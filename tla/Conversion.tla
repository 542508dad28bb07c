----------------------------- MODULE Conversion -----------------------------
(***************************************************************************)
(* What the conversion of a volume promises its owner, with no sectors in  *)
(* it.  A volume is plain, then converting, then locked or broken.  While  *)
(* it is converting the data may cease to be readable; there is one step,  *)
(* the commit, from which on it is locked and all of it readable with the  *)
(* key, and that step is atomic: a volume is never locked and unreadable.  *)
(* A conversion that is cut off before the commit leaves a broken volume,  *)
(* readable as long as nothing of it was sealed.  It may be tried again,   *)
(* and then the commit can no longer promise to bring the data back.  A    *)
(* locked volume is never converted.                                       *)
(***************************************************************************)
VARIABLES status, readable, retry

vars == <<status, readable, retry>>

Init == status = "plain" /\ readable = TRUE /\ retry = FALSE

Begin == /\ status = "plain"
         /\ status' = "converting"
         /\ readable' = readable /\ retry' = retry

TryAgain == /\ status = "broken"
            /\ status' = "converting"
            /\ retry' = TRUE
            /\ readable' = readable

(* Data that is sealed cannot be read without a key that is not yet out. *)
Seal == /\ status = "converting"
        /\ readable' = FALSE
        /\ status' = status /\ retry' = retry

Commit == /\ status = "converting"
          /\ status' = "locked"
          /\ readable' \in IF retry THEN BOOLEAN ELSE {TRUE}
          /\ retry' = retry

Break == /\ status = "converting"
         /\ status' = "broken"
         /\ readable' \in {readable, FALSE}
         /\ retry' = retry

Next == Begin \/ TryAgain \/ Seal \/ Commit \/ Break

(* A conversion that has begun comes to one of its two ends. *)
Spec == Init /\ [][Next]_vars /\ WF_vars(Commit \/ Break)
=============================================================================
