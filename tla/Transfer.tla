------------------------------ MODULE Transfer ------------------------------
(***************************************************************************)
(* What a resumable download promises from one run to the next, whatever   *)
(* ends each run.  Of a file that goes through versions on its server:     *)
(*   recorded   the version the resume state names (0: there is no state)  *)
(*   safe       bytes the next run need not fetch: they are recorded, and  *)
(*              even a machine failure now would leave them in the .part   *)
(*   wrong      the whole file was checked and is not what was expected    *)
(*   delivered  the finished file (the newest, if runs delivered several)  *)
(* A crash is not among the steps: it changes nothing of this.             *)
(***************************************************************************)
EXTENDS Integers

CONSTANTS Bytes, Versions, None

VARIABLES server, recorded, safe, wrong, delivered
vars == <<server, recorded, safe, wrong, delivered>>

Init == server \in 1 .. Versions /\ recorded = 0 /\ safe = {} /\ wrong = FALSE /\ delivered = None

Publish ==
  /\ server' \in 1 .. Versions \ {server}
  /\ UNCHANGED <<recorded, safe, wrong, delivered>>

(* A state may name another version, or be removed, only when nothing is safe under it. *)
Record ==
  /\ safe = {}
  /\ recorded' \in 0 .. Versions
  /\ UNCHANGED <<server, safe, wrong, delivered>>

(* Progress: a save adds to what is safe and takes nothing from it. *)
Save ==
  /\ recorded # 0
  /\ safe \subseteq safe' /\ safe' \subseteq Bytes
  /\ UNCHANGED <<server, recorded, wrong, delivered>>

(* The bytes are given up only for another version, or once the file proved wrong. *)
Discard ==
  /\ server # recorded \/ wrong
  /\ safe' = {} /\ wrong' = FALSE
  /\ UNCHANGED <<server, recorded, delivered>>

Judge ==
  /\ wrong' \in BOOLEAN
  /\ UNCHANGED <<server, recorded, safe, delivered>>

(* The whole file is handed over, every byte of it of the version recorded. *)
Deliver ==
  /\ recorded # 0 /\ ~wrong
  /\ delivered' = [b \in Bytes |-> recorded]
  /\ safe' = {}
  /\ UNCHANGED <<server, recorded, wrong>>

Next == Publish \/ Record \/ Save \/ Discard \/ Judge \/ Deliver

Spec == Init /\ [][Next]_vars
=============================================================================
