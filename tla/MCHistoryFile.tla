---------------------------- MODULE MCHistoryFile -----------------------------
(* HistoryFile on a small instance: a finished file is sorted while the user removes its entry. *)
EXTENDS HistoryFile, TLC

CONSTANTS k1, k2

SortedAndRemoved == {k1 :> [kind |-> "move", from |-> "a", to |-> "b"] @@ k2 :> [kind |-> "window"]}
===============================================================================
