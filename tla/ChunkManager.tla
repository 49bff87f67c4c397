---------------------------- MODULE ChunkManager ----------------------------
(***************************************************************************)
(* The chunk manager of one multi-connection download (chunk.rs): the      *)
(* table of chunks a file is cut into, and every operation that hands      *)
(* chunks to workers, cuts them, settles them or ends the download.        *)
(*                                                                         *)
(* The table is the sequence chunks; chunks[i] is the code's chunk of id   *)
(* i - 1.  A chunk record holds what all parties can see of it:            *)
(*   start, end  its range, both inclusive (end_offset always equals       *)
(*               range.end: the code stores both together)                 *)
(*   status      of ChunkStatus, without the worker and mirror it names    *)
(*   cur         current_offset, the next byte its worker will write       *)
(*   got         Attempt.received, what its worker holds to write          *)
(*   retries     failed attempts in a row that wrote nothing               *)
(* Times (not_before, assigned_at, silence, pace) are left out: a choice   *)
(* they decide is made nondeterministically.                               *)
(***************************************************************************)
EXTENDS Integers, Sequences, FiniteSets

CONSTANTS
  Size,        (* total_size: the bytes of the file                        *)
  BaseChunk,   (* base_chunk_size: most bytes of a fresh chunk             *)
  MinSteal,    (* StealRule.min_bytes: fewest bytes a steal hands over     *)
  MaxRetries   (* max_retries: failures in a row a chunk may accumulate    *)

ASSUME ManagerAssumption ==
  /\ Size \in Nat \ {0}
  /\ BaseChunk \in Nat \ {0}
  /\ MinSteal \in Nat \ {0}
  /\ MaxRetries \in Nat

(* Operators named Faulty... are not part of the model: each is the definition after it with a *)
(* mistake the code could have made, to see that some property notices.                       *)

VARIABLES
  chunks,      (* the chunk table                                          *)
  completed,   (* the counter of completed chunks                          *)
  nextFresh,   (* no unassigned chunk has a smaller index                  *)
  retryQueue,  (* failed chunks, in the order they failed                  *)
  fatal        (* whether some chunk ended the download                    *)

manager == <<chunks, completed, nextFresh, retryQueue, fatal>>

Byte == 0 .. Size - 1
Status == {"Unassigned", "Assigned", "Completed", "Failed"}
Chunk == [start : Byte, end : Byte, status : Status,
          cur : 0 .. Size, got : 0 .. Size, retries : Nat]

NewChunk(s, e, st) ==
  [start |-> s, end |-> e, status |-> st, cur |-> s, got |-> 0, retries |-> 0]

-----------------------------------------------------------------------------
(* What a chunk says of itself.                                            *)

Span(c) == c.start .. c.end

(* written_prefix: what of the chunk counts as on disk. *)
Written(c) == IF c.status = "Completed" THEN Span(c) ELSE {b \in Span(c) : b < c.cur}

(* unreceived: bytes still to arrive, the ones its worker holds not among them. *)
Unreceived(c) ==
  LET pos == IF c.got > c.cur THEN c.got ELSE c.cur
  IN  IF pos <= c.end THEN c.end + 1 - pos ELSE 0

CompletedRanges == UNION {Written(chunks[i]) : i \in DOMAIN chunks}
IsAllCompleted == completed = Len(chunks)

-----------------------------------------------------------------------------
(***************************************************************************)
(* with_resumed_ranges.  The runs of bytes in held become one completed    *)
(* chunk each, the gaps between them unassigned chunks of BaseChunk bytes  *)
(* and a shorter last one, all in the order of the file.                   *)
(***************************************************************************)
IsLayout(cs, held) ==
  LET done(i) == cs[i].status = "Completed"
      last(i) == i = Len(cs)
  IN  /\ \A i, j \in DOMAIN cs : i < j => cs[i].end < cs[j].start
      /\ \A b \in Byte : \E i \in DOMAIN cs : b \in Span(cs[i])
      /\ \A i \in DOMAIN cs :
           /\ Span(cs[i]) \subseteq held \/ Span(cs[i]) \cap held = {}
           /\ ~last(i) /\ done(i) => ~done(i + 1)
           /\ ~done(i) => LET len == cs[i].end + 1 - cs[i].start
                          IN  len = BaseChunk \/ (len < BaseChunk /\ (last(i) \/ done(i + 1)))

(* The one table of that shape, as a set for \E to pick it from. *)
Layouts(held) ==
  LET status(s) == IF s \in held THEN "Completed" ELSE "Unassigned"
      fresh == {NewChunk(r[1], r[2], status(r[1])) : r \in {r \in Byte \X Byte : r[1] <= r[2]}}
  IN  {cs \in UNION {[1 .. n -> fresh] : n \in 1 .. Size} : IsLayout(cs, held)}

(* The manager of a table just made; assigning a chunk of it leaves the counter alone. *)
NewManager(cs) ==
  /\ completed' = Cardinality({i \in DOMAIN cs : cs[i].status = "Completed"})
  /\ nextFresh' = 1
  /\ retryQueue' = <<>>
  /\ fatal' = FALSE

(* The process holds no manager yet, or no more. *)
NoManager ==
  /\ chunks = <<>> /\ completed = 0 /\ nextFresh = 1 /\ retryQueue = <<>> /\ fatal = FALSE
DropManager ==
  /\ chunks' = <<>> /\ completed' = 0 /\ nextFresh' = 1 /\ retryQueue' = <<>> /\ fatal' = FALSE

-----------------------------------------------------------------------------
(* Handing out work.  Each operator returns the table with chunk i assigned: *)
(* the attempt starts anew, so what an earlier one received is forgotten.    *)

Assign(cs, i) == [cs EXCEPT ![i] = [@ EXCEPT !.status = "Assigned", !.got = 0]]

(* Faulty: the chunk handed out stays in the queue. *)
FaultyGetRetry(q) ==
  /\ ~fatal
  /\ chunks' = Assign(chunks, retryQueue[q])
  /\ UNCHANGED <<completed, nextFresh, retryQueue, fatal>>

(* get_next_work, a failed chunk whose backoff has elapsed. *)
GetRetry(q) ==
  /\ ~fatal
  /\ chunks' = Assign(chunks, retryQueue[q])
  /\ retryQueue' = SubSeq(retryQueue, 1, q - 1) \o SubSeq(retryQueue, q + 1, Len(retryQueue))
  /\ UNCHANGED <<completed, nextFresh, fatal>>

FreshFrom(n) == {i \in n .. Len(chunks) : chunks[i].status = "Unassigned"}

(* get_next_work, the next unassigned chunk. *)
GetFresh(i) ==
  /\ ~fatal
  /\ i \in FreshFrom(nextFresh)
  /\ \A j \in FreshFrom(nextFresh) : i <= j
  /\ chunks' = Assign(chunks, i)
  /\ nextFresh' = i + 1
  /\ UNCHANGED <<completed, retryQueue, fatal>>

(* get_next_work finding nothing: the scan has passed every chunk. *)
NothingFresh ==
  /\ ~fatal
  /\ FreshFrom(nextFresh) = {}
  /\ nextFresh' = Len(chunks) + 1

(* assign_at on a new manager: the chunk the probe's answer goes on with, cut at e. *)
AssignAt(cs, i, e) ==
  IF e < cs[i].end
  THEN Assign(Append([cs EXCEPT ![i].end = e], NewChunk(e + 1, cs[i].end, "Unassigned")), i)
  ELSE Assign(cs, i)

-----------------------------------------------------------------------------
(* Cutting chunks that are in flight. *)

(* Faulty: the chunk keeps the part cut off it. *)
FaultyCarve(cs, i) ==
  IF cs[i].cur > cs[i].start THEN Append(cs, NewChunk(cs[i].start, cs[i].cur - 1, "Completed")) ELSE cs

(* The written part of chunk i becomes a completed chunk of its own; the rest keeps its id. *)
Carve(cs, i) ==
  IF cs[i].cur > cs[i].start
  THEN Append([cs EXCEPT ![i].start = cs[i].cur], NewChunk(cs[i].start, cs[i].cur - 1, "Completed"))
  ELSE cs

FaultyCarved(i) == 0  \* Faulty: the completed part is not counted.
Carved(i) == IF chunks[i].cur > chunks[i].start THEN 1 ELSE 0

(* Faulty: what the victim received is taken for written. *)
FaultyTakeOver(i) ==
  /\ IF chunks[i].got > chunks[i].end
     THEN /\ chunks' = [chunks EXCEPT ![i].status = "Completed"]
          /\ completed' = completed + 1
     ELSE /\ chunks' = Assign(Carve(chunks, i), i)
          /\ completed' = completed + Carved(i)
  /\ UNCHANGED <<nextFresh, retryQueue, fatal>>

(* Faulty: a chunk found complete is not counted. *)
FaultyTakeOverCount(i) ==
  /\ IF chunks[i].cur > chunks[i].end
     THEN /\ chunks' = [chunks EXCEPT ![i].status = "Completed"]
          /\ UNCHANGED completed
     ELSE /\ chunks' = Assign(Carve(chunks, i), i)
          /\ completed' = completed + Carved(i)
  /\ UNCHANGED <<nextFresh, retryQueue, fatal>>

(* take_over_silent once the victim is revoked: its last byte may be on disk by now. *)
TakeOver(i) ==
  /\ IF chunks[i].cur > chunks[i].end
     THEN /\ chunks' = [chunks EXCEPT ![i].status = "Completed"]
          /\ completed' = completed + 1
     ELSE /\ chunks' = Assign(Carve(chunks, i), i)
          /\ completed' = completed + Carved(i)
  /\ UNCHANGED <<nextFresh, retryQueue, fatal>>

(* How many bytes a thief may take of chunk i: the split is by time, and leaves the victim one. *)
Stealable(i) == MinSteal .. Unreceived(chunks[i]) - 1

(* steal_work, its last part: chunk i ended at e when the thief chose to take the last n bytes. *)
Steal(i, e, n) ==
  /\ chunks' = Append([chunks EXCEPT ![i].end = e - n], NewChunk(e + 1 - n, e, "Assigned"))
  /\ UNCHANGED <<completed, nextFresh, retryQueue, fatal>>

-----------------------------------------------------------------------------
(* Settling attempts. *)

MarkCompleted(i) ==
  /\ IF chunks[i].status = "Completed"
     THEN UNCHANGED <<chunks, completed>>
     ELSE /\ chunks' = [chunks EXCEPT ![i].status = "Completed"]
          /\ completed' = completed + 1
  /\ UNCHANGED <<nextFresh, retryQueue, fatal>>

(* mark_failed of an attempt that left bytes to write; counts says whether it costs a retry. *)
Retry(i, counts) ==
  LET progress == chunks[i].cur > chunks[i].start
      retries == IF progress THEN 0
                 ELSE IF counts THEN chunks[i].retries + 1 ELSE chunks[i].retries
  IN  /\ chunks' = [Carve(chunks, i) EXCEPT ![i] = [@ EXCEPT !.status = "Failed", !.retries = retries]]
      /\ completed' = completed + Carved(i)
      /\ retryQueue' = Append(retryQueue, i)
      /\ fatal' = (fatal \/ retries > MaxRetries)
      /\ UNCHANGED nextFresh

(* Faulty: only failures that count are recorded. *)
FaultyMarkFailed(i, counts) ==
  IF chunks[i].status = "Completed" \/ chunks[i].cur > chunks[i].end THEN MarkCompleted(i)
  ELSE IF counts THEN Retry(i, counts) ELSE UNCHANGED manager

(* Faulty: no failure counts. *)
FaultyMarkFailedBudget(i, counts) ==
  IF chunks[i].status = "Completed" \/ chunks[i].cur > chunks[i].end THEN MarkCompleted(i) ELSE Retry(i, FALSE)

MarkFailed(i, counts) ==
  IF chunks[i].status = "Completed" \/ chunks[i].cur > chunks[i].end
  THEN MarkCompleted(i)
  ELSE Retry(i, counts)

Abort ==
  /\ fatal' = TRUE
  /\ UNCHANGED <<chunks, completed, nextFresh, retryQueue>>

-----------------------------------------------------------------------------
(***************************************************************************)
(* What the manager promises, whatever workers do with its chunks.         *)
(***************************************************************************)

(* The chunks tile the file: every byte is some chunk's, and no two chunks share one. *)
Tiling(cs) ==
  /\ \A i \in DOMAIN cs : cs[i].start <= cs[i].end
  /\ \A i, j \in DOMAIN cs : i # j => cs[i].end < cs[j].start \/ cs[j].end < cs[i].start
  /\ cs # <<>> => \A b \in Byte : \E i \in DOMAIN cs : b \in Span(cs[i])

(* ... whatever splits, takeovers, retries and resumed ranges made of the table: otherwise bytes *)
(* are fetched twice, or never.                                                                 *)
Tiles == Tiling(chunks)

(* The counter is_all_completed goes by is the number of completed chunks. *)
CounterExact ==
  completed = Cardinality({i \in DOMAIN chunks : chunks[i].status = "Completed"})

(* An unassigned chunk is still ahead of the scan, and a failed one is queued once: *)
(* neither is ever out of get_next_work's reach.                                     *)
Reachable ==
  /\ \A i \in DOMAIN chunks : chunks[i].status = "Unassigned" => nextFresh <= i
  /\ \A i \in DOMAIN chunks :
       (chunks[i].status = "Failed") <=> \E q \in DOMAIN retryQueue : retryQueue[q] = i
  /\ \A p, q \in DOMAIN retryQueue : retryQueue[p] = retryQueue[q] => p = q

(* What ends a download and what it goes on with are both right: the counter of completed chunks, and *)
(* the ways to every chunk that is not (chunk.rs: is_all_completed, get_next_work, mark_failed).      *)
CountsAreTrue == CounterExact /\ Reachable
=============================================================================
