-------------------------- MODULE MCRangeDownload ---------------------------
(* RangeDownload on small instances: the budgets of what the world may do. *)
EXTENDS RangeDownload, TLC

NoTrouble == [k \in World |-> 0]

(* Connections fail while one save runs beside them. *)
FailureBudget == [NoTrouble EXCEPT !["failure"] = 2, !["refusal"] = 1, !["persist"] = 1]

(* The machine or the process fails and the download is run again, of a file that may have changed. *)
CrashBudget == [NoTrouble EXCEPT !["run"] = 2, !["persist"] = 1, !["change"] = 1]

(* The disk fails, the user pauses, the finished file is wrong, and the download is run again. *)
StopBudget == [NoTrouble EXCEPT !["run"] = 1, !["persist"] = 1, !["diskError"] = 1, !["cancel"] = 1, !["mismatch"] = 1]

(* The file changes on the server and changes back, and one connection fails in between. *)
RollbackBudget == [NoTrouble EXCEPT !["failure"] = 1, !["change"] = 2]

(* Connections may fail for ever; the user may pause. *)
EndlessFailure == -1
EndBudget == [NoTrouble EXCEPT !["failure"] = EndlessFailure, !["silence"] = 1, !["cancel"] = 1]

(* Servers answer, then send nothing, for ever. *)
SilenceBudget == [NoTrouble EXCEPT !["failure"] = EndlessFailure, !["silence"] = -1]

(* What goes wrong in a behaviour is of one kind. *)
Troubles == {FailureBudget, CrashBudget, StopBudget}
Rollbacks == {RollbackBudget}
Endings == {EndBudget}
Silences == {SilenceBudget}

Symmetry == Permutations(Workers)
=============================================================================
