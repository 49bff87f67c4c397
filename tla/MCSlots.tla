------------------------------- MODULE MCSlots --------------------------------
(***************************************************************************)
(* HostBudget and the chunks of a download on small instances: they share  *)
(* no state here, and in a behaviour one of them, `system`, moves, and the *)
(* other stays as it was at its start.                                     *)
(*   "slots"    HostBudget, which this extends: the tasks make requests    *)
(*   "chunks"   RangeDownload: the tasks are its workers                   *)
(***************************************************************************)
EXTENDS HostBudget, TLC

CONSTANTS None, NoByte

VARIABLES
  system,
  chunks, completed, nextFresh, retryQueue, fatal, worker, thief, engine, outcome, cancelled,
  ref, resume, snap, remote, disk, durable, part, saved, final, left

(* Connections fall silent, are taken over, split and come back. *)
Takeovers ==
  {[k \in {"failure", "refusal", "silence", "diskError", "persist", "cancel", "mismatch", "run", "change"} |->
      CASE k = "failure" -> 1 [] k = "silence" -> 2 [] OTHER -> 0]}
T == INSTANCE RangeDownload WITH
  Workers <- Requests, Size <- 3, BaseChunk <- 2, MinSteal <- 1, MaxRetries <- 1, WriteBatch <- 2,
  Prefetch <- 0, Versions <- 1, Budgets <- Takeovers

tvars == <<chunks, completed, nextFresh, retryQueue, fatal, worker, thief, engine, outcome, cancelled,
           ref, resume, snap, remote, disk, durable, part, saved, final, left>>
mcvars == <<system, vars, tvars>>

MCInit ==
  /\ system \in {"slots", "chunks"}
  /\ Init /\ T!Init

Moves(moving) == system = moving /\ UNCHANGED system

MCNext ==
  \/ Moves("slots") /\ Next /\ UNCHANGED tvars
  \/ Moves("chunks") /\ T!Next /\ UNCHANGED vars

MCSpec == MCInit /\ [][MCNext]_mcvars

Symmetry == Permutations(Requests)

(* While workers take over, split and settle each other's chunks, no byte is left to nobody or *)
(* settled twice, and none is counted that is not in the file (chunk.rs, worker.rs).           *)
EveryByteOnce == system = "chunks" => T!EveryByteOnce
===============================================================================
