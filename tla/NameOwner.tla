------------------------------ MODULE NameOwner ------------------------------
(***************************************************************************)
(* What a Claim on an output name promises (engine.rs): at most one        *)
(* download or tool owns the name at a time, whoever lets go or dies       *)
(* leaves it free, and it is not known otherwise who gets it next.         *)
(***************************************************************************)
CONSTANT Claimers   (* downloads and tools, of any process *)
VARIABLE owners     (* who owns the name: nobody or one of them *)

Init == owners = {}

Take == owners = {} /\ \E c \in Claimers : owners' = {c}

Leave == owners # {} /\ owners' = {}

Next == Take \/ Leave

Spec == Init /\ [][Next]_owners
==============================================================================
