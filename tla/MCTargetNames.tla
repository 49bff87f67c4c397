----------------------------- MODULE MCTargetNames -----------------------------
(* TargetNames where the contents decide: the server's name of the first says nothing of its type, *)
(* and its contents make it the second's.                                                          *)
EXTENDS TargetNames

CONSTANTS d1, d2, u1, u2

TheirUrls == [d \in Downloads |-> IF d = d2 THEN u2 ELSE u1]
TwoBases == [d \in Downloads |-> IF d = d1 THEN "a" ELSE "a.zip"]
ByContent == [b \in Bases |-> "a.zip"]
Peace == {[what \in World |-> 0]}
==============================================================================
