-------------------------- MODULE MCDownloadWindow --------------------------
(* DownloadWindow on small instances: what the user, the schedule and the world may do. *)
EXTENDS DownloadWindow

Use(add, ask, schedule, discard, crash, exit) ==
  [what \in World |->
     CASE what = "add" -> add [] what = "ask" -> ask [] what = "schedule" -> schedule
       [] what = "discard" -> discard [] what = "crash" -> crash [] OTHER -> exit]

(* The window closes; it dies; leftovers are deleted; the schedule runs through a restart. *)
Weeks == {Use(2, 1, 0, 0, 0, 1), Use(2, 1, 0, 0, 1, 0), Use(2, 1, 0, 1, 0, 0), Use(1, 2, 1, 0, 1, 1)}

(* The schedule stops the queue and starts it again. *)
Night == {Use(1, 3, 2, 0, 0, 0)}

SameFile == [id \in Ids |-> "f"]
=============================================================================
