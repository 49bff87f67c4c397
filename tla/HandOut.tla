------------------------------ MODULE HandOut -------------------------------
(***************************************************************************)
(* What a download promises that fetches numbered units several at a time: *)
(* each is handed out once, in order, up to the first that cannot be had,  *)
(* and that one ends it.                                                   *)
(***************************************************************************)
EXTENDS Naturals

CONSTANT Count

VARIABLES
  handed,    (* units handed out                                  *)
  broken,    (* the first unit known not to be had, Count if none *)
  outcome
vars == <<handed, broken, outcome>>

Init == handed = 0 /\ broken = Count /\ outcome = "none"

Hand ==
  /\ outcome = "none"
  /\ handed < broken
  /\ handed' = handed + 1
  /\ UNCHANGED <<broken, outcome>>

Break ==
  /\ outcome = "none"
  /\ broken' \in handed .. Count - 1
  /\ broken' < broken
  /\ UNCHANGED <<handed, outcome>>

End ==
  /\ outcome = "none"
  /\ \/ handed = Count /\ outcome' = "done"
     \/ handed = broken /\ broken < Count /\ outcome' = "failed"
     \/ outcome' = "cancelled"
  /\ UNCHANGED <<handed, broken>>

Next == Hand \/ Break \/ End

Spec == Init /\ [][Next]_vars
=============================================================================
