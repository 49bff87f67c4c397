---------------------------- MODULE RangeDownload ---------------------------
(***************************************************************************)
(* A download over ranges (engine.rs: download, fetch_ranges, finalize;    *)
(* worker.rs; state.rs): the engine that plans it, its workers, the chunk  *)
(* manager they share, the .part file, the resume state kept beside it,    *)
(* and what a crash leaves of both for the next run.                       *)
(*                                                                         *)
(* Workers act at the grain the code interleaves at: they read and write   *)
(* their chunk's atomics without the manager's lock, a thief holds that    *)
(* lock between looking at a victim and cutting it, and a batch reaches    *)
(* the file before the worker says so.  Which mirror a worker asks, host   *)
(* slots and the adaptive ramp are left to modules of their own.           *)
(***************************************************************************)
EXTENDS ChunkManager

CONSTANTS
  Workers,     (* the connections                                          *)
  WriteBatch,  (* WRITE_BATCH: bytes a worker collects before it writes    *)
  Prefetch,    (* bytes of the file the probe brought                      *)
  Versions,    (* versions the file goes through on the server: 1 .. n     *)
  NoByte,      (* contents of a byte of the file never written             *)
  None,        (* no worker, no state file, no finished file               *)
  Budgets      (* bounds: how often each thing the world may do happens, negative: any *)
               (* number; one for the whole of a behaviour                  *)

World == {"failure", "refusal", "silence", "diskError", "persist", "cancel", "mismatch", "run", "change"}

ASSUME DownloadAssumption ==
  /\ WriteBatch \in Nat \ {0}
  /\ Prefetch \in 0 .. Size - 1
  /\ Versions \in Nat \ {0}
  /\ NoByte \notin 1 .. Versions
  /\ None \notin Workers
  /\ None \notin [Byte -> 1 .. Versions \cup {NoByte}]
  /\ None \notin [version : 1 .. Versions, held : SUBSET Byte]
  /\ Budgets \subseteq [World -> Int]

VARIABLES
  worker,      (* each worker's attempt                                    *)
  thief,       (* the worker in next_job holding the manager's lock, past get_next_work *)
  engine,      (* where the engine is                                      *)
  outcome,     (* how the engine's loop ended                              *)
  cancelled,   (* the user's cancel token                                  *)
  ref,         (* the version this run fetches                             *)
  resume,      (* the ranges the plan resumes from                         *)
  snap,        (* the ranges of the save in progress                       *)
  remote,      (* the version the server has                               *)
  disk,        (* the .part file's contents, as any reader sees them       *)
  durable,     (* ... and as they are after the machine fails              *)
  part,        (* whether the .part file exists                            *)
  saved,       (* the resume state file                                    *)
  final,       (* the finished file                                        *)
  left         (* what is left of the budget                               *)

attempts == <<worker, thief>>
run == <<engine, outcome, cancelled, ref, resume, snap>>
files == <<disk, durable, part, saved, final>>
vars == <<manager, attempts, run, files, remote, left>>

Contents == [Byte -> 1 .. Versions \cup {NoByte}]
State == [version : 1 .. Versions, held : SUBSET Byte]
Empty == [b \in Byte |-> NoByte]

(* The bytes of f that are version v's. *)
Holds(f, v) == {b \in Byte : f[b] = v}

(* The world does k once more. *)
Spend(k) ==
  /\ left[k] # 0
  /\ left' = IF left[k] < 0 THEN left ELSE [left EXCEPT ![k] = @ - 1]

-----------------------------------------------------------------------------
(***************************************************************************)
(* A worker: pc tells where it is, chunk the attempt's chunk (0: none),    *)
(* whole whether its request is for the whole file, revoked whether the    *)
(* attempt's token is cancelled, ver the version its body is of, pos and   *)
(* buf the batch's first byte and length, res how the body ended.          *)
(*   idle      before take_slot       asking   the request is out          *)
(*   receive   in receive's select    writing  a batch is on its way       *)
(*   written   ... is in the file     settle   before conclude             *)
(*   stopped   has returned                                                *)
(***************************************************************************)
PC == {"idle", "asking", "receive", "writing", "written", "settle", "stopped"}
Result == {"none", "ok", "transient", "refused", "fatal"}
Attempt == [pc : PC, chunk : Nat, whole : BOOLEAN, revoked : BOOLEAN, ver : 0 .. Versions,
            pos : 0 .. Size, buf : Nat, res : Result]

NoAttempt(pc) == [pc |-> pc, chunk |-> 0, whole |-> FALSE, revoked |-> FALSE, ver |-> 0,
                  pos |-> 0, buf |-> 0, res |-> "none"]
NewAttempt(i) == [NoAttempt("asking") EXCEPT !.chunk = i]
AttemptAt(i) == [NewAttempt(i) EXCEPT !.whole = chunks[i].cur = 0 /\ chunks[i].end = Size - 1]

(* The thief: what it is at (looking for a silent chunk or one to split, about to take one over, *)
(* looking only for one to split, about to split one), the victim, and the split.                *)
ThiefOp == {"look", "takeover", "search", "steal"}
Thief == [by : Workers, op : ThiefOp, victim : Nat, end : 0 .. Size, take : 0 .. Size]
Looking(w, op) == [by |-> w, op |-> op, victim |-> 0, end |-> 0, take |-> 0]
Holding(w, ops) == thief # None /\ thief.by = w /\ thief.op \in ops

Running == engine \in {"running", "syncing", "saving"} /\ outcome = "none"
(* The token the workers watch: a child of the user's, cancelled as the loop ends. *)
Stop == cancelled \/ ~Running
Unlocked == thief = None
Own(w) == chunks[worker[w].chunk]

Step(w, a) == worker' = [worker EXCEPT ![w] = a]
KeepRun == UNCHANGED <<run, files, remote>>

(* Idle: get_next_work under the manager's lock. *)
TakeRetry(w) ==
  /\ worker[w].pc = "idle" /\ ~Stop /\ Unlocked
  /\ \E q \in DOMAIN retryQueue :
       /\ GetRetry(q)
       /\ Step(w, AttemptAt(retryQueue[q]))
  /\ KeepRun /\ UNCHANGED <<thief, left>>

TakeFresh(w) ==
  /\ worker[w].pc = "idle" /\ ~Stop /\ Unlocked
  /\ \E i \in DOMAIN chunks : GetFresh(i) /\ Step(w, AttemptAt(i))
  /\ KeepRun /\ UNCHANGED <<thief, left>>

(* Nothing to hand out (no failed chunk's backoff has elapsed): the worker goes on to look for *)
(* a victim, still under the lock.                                                             *)
LookForVictim(w) ==
  /\ worker[w].pc = "idle" /\ ~Stop /\ Unlocked
  /\ NothingFresh
  /\ thief' = Looking(w, "look")
  /\ KeepRun /\ UNCHANGED <<chunks, completed, retryQueue, fatal, worker, left>>

(* A worker that waits for the server.  Its batch is empty: silent for TAKEOVER_SILENCE, it had    *)
(* WRITE_INTERVAL to write what came before.                                                    *)
Silent(v) == worker[v].pc = "receive" /\ ~worker[v].revoked /\ worker[v].buf = 0

(* take_over_silent picks the chunk silent longest. *)
PickSilent(w) ==
  /\ Holding(w, {"look"})
  /\ \E v \in Workers \ {w} :
       /\ Silent(v) /\ Own(v).cur <= Own(v).end
       /\ thief' = [Looking(w, "takeover") EXCEPT !.victim = worker[v].chunk]
  /\ Spend("silence")
  /\ KeepRun /\ UNCHANGED <<manager, worker>>

(* Faulty: the victim is left its attempt. *)
FaultyDoTakeOver(w) ==
  LET i == thief.victim
      gone == chunks[i].cur > chunks[i].end
  IN  /\ Holding(w, {"takeover"})
      /\ TakeOver(i)
      /\ worker' = IF gone THEN worker ELSE [worker EXCEPT ![w] = AttemptAt(i)]
      /\ thief' = IF gone THEN Looking(w, "search") ELSE None
      /\ KeepRun /\ UNCHANGED left

(* ... revokes its attempt and takes what is left, or goes on looking if nothing is. *)
DoTakeOver(w) ==
  LET i == thief.victim
      gone == chunks[i].cur > chunks[i].end
      revoke(v) == IF worker[v].chunk = i THEN [worker[v] EXCEPT !.revoked = TRUE] ELSE worker[v]
  IN  /\ Holding(w, {"takeover"})
      /\ TakeOver(i)
      /\ worker' = [v \in Workers |-> IF v = w /\ ~gone THEN AttemptAt(i) ELSE revoke(v)]
      /\ thief' = IF gone THEN Looking(w, "search") ELSE None
      /\ KeepRun /\ UNCHANGED left

(* steal_work picks a victim and its split from what it reads of it now. *)
PickSteal(w) ==
  /\ Holding(w, {"look", "search"})
  /\ \E i \in DOMAIN chunks :
       /\ chunks[i].status = "Assigned"
       /\ \E n \in Stealable(i) :
            thief' = [by |-> w, op |-> "steal", victim |-> i, end |-> chunks[i].end, take |-> n]
  /\ KeepRun /\ UNCHANGED <<manager, worker, left>>

DoSteal(w) ==
  /\ Holding(w, {"steal"})
  /\ Steal(thief.victim, thief.end, thief.take)
  /\ Step(w, NewAttempt(Len(chunks) + 1))
  /\ thief' = None
  /\ KeepRun /\ UNCHANGED left

(* No victim: the worker sleeps IDLE_POLL and looks again. *)
FindNothing(w) ==
  /\ Holding(w, {"look", "search"})
  /\ thief' = None
  /\ KeepRun /\ UNCHANGED <<manager, worker, left>>

-----------------------------------------------------------------------------
(* An attempt: its answer, its bytes, its batches. *)

Quiet == KeepRun /\ UNCHANGED <<manager, thief, left>>

(* Faulty: any version is accepted. *)
FaultyAnswer(w) ==
  /\ worker[w].pc = "asking" /\ ~Stop
  /\ Step(w, [worker[w] EXCEPT !.pc = "receive", !.pos = Own(w).cur, !.ver = remote])
  /\ Quiet

(* download_chunk: the answer is accepted.  A server holding another version answers If-Range *)
(* with something check_response refuses, but for a 200 to a request for the whole file.      *)
Answer(w) ==
  /\ worker[w].pc = "asking" /\ ~Stop
  /\ remote = ref \/ worker[w].whole
  /\ Step(w, [worker[w] EXCEPT !.pc = "receive", !.pos = Own(w).cur, !.ver = remote])
  /\ Quiet

Ends(w, res) == Step(w, [worker[w] EXCEPT !.pc = "settle", !.res = res])

(* ... no answer, a server error, or 429/503 with nothing else in flight: it costs a retry. *)
AnswerFails(w) ==
  /\ worker[w].pc = "asking" /\ ~Stop
  /\ Ends(w, "transient")
  /\ Spend("failure")
  /\ KeepRun /\ UNCHANGED <<manager, thief>>

(* ... a refusal (Denied, BadMirror, 429/503 while others are served): it costs none. *)
AnswerRefused(w) ==
  /\ worker[w].pc = "asking" /\ ~Stop
  /\ Ends(w, "refused")
  /\ Spend("refusal")
  /\ KeepRun /\ UNCHANGED <<manager, thief>>

(* ... "remote file changed". *)
AnswerChanged(w) ==
  /\ worker[w].pc = "asking" /\ ~Stop
  /\ remote # ref
  /\ Ends(w, "fatal")
  /\ Quiet

(* What the end of the attempt is called: a body that ended early is a failure.  A worker whose *)
(* chunk was taken over reads offsets of its own, and its verdict no longer matters.            *)
Verdict(w, res, pos) ==
  IF res = "ok" /\ (worker[w].revoked \/ pos <= Own(w).end) THEN "transient" ELSE res

(* flush: a batch cut to the chunk's present end goes on its way to the file; with nothing to *)
(* write, the attempt goes on, or ends if its body did (res).                                 *)
Flush(w, res) ==
  LET a == worker[w]
      room == IF a.pos <= Own(w).end THEN Own(w).end + 1 - a.pos ELSE 0
      keep == IF a.revoked THEN 0 ELSE IF a.buf < room THEN a.buf ELSE room
  IN  IF keep > 0
      THEN Step(w, [a EXCEPT !.pc = "writing", !.buf = keep, !.res = res])
      ELSE IF res = "none" THEN Step(w, [a EXCEPT !.buf = 0])
      ELSE Step(w, [a EXCEPT !.pc = "settle", !.buf = 0, !.res = Verdict(w, res, a.pos)])

(* Faulty: bytes past the end are taken as well. *)
FaultyReceive(w) ==
  LET a == worker[w]
      next == a.pos + a.buf
  IN  /\ a.pc = "receive" /\ ~Stop /\ ~a.revoked
      /\ a.buf < WriteBatch
      /\ Step(w, [a EXCEPT !.buf = @ + 1])
      /\ chunks' = [chunks EXCEPT ![a.chunk].got = next + 1]
      /\ KeepRun /\ UNCHANGED <<completed, nextFresh, retryQueue, fatal, thief, left>>

(* A byte arrives.  Past the chunk's end (a thief took that tail) the attempt is over. *)
Receive(w) ==
  LET a == worker[w]
      next == a.pos + a.buf
  IN  /\ a.pc = "receive" /\ ~Stop /\ ~a.revoked
      /\ a.buf < WriteBatch
      /\ next <= Own(w).end
      /\ Step(w, [a EXCEPT !.buf = @ + 1])
      /\ chunks' = [chunks EXCEPT ![a.chunk].got = next + 1]
      /\ KeepRun /\ UNCHANGED <<completed, nextFresh, retryQueue, fatal, thief, left>>

(* The body is over for this attempt: all of it came, or a thief took the rest. *)
BodyEnds(w) ==
  LET a == worker[w]
  IN  /\ a.pc = "receive" /\ ~Stop /\ ~a.revoked
      /\ a.pos + a.buf > Own(w).end
      /\ Flush(w, "ok")
      /\ Quiet

(* The batch is full, or WRITE_INTERVAL is over. *)
FlushDue(w) ==
  /\ worker[w].pc = "receive" /\ ~Stop /\ ~worker[w].revoked
  /\ worker[w].buf > 0
  /\ Flush(w, "none")
  /\ Quiet

(* The connection closes early, breaks, stalls for body_idle or lags behind the others. *)
BodyBreaks(w) ==
  /\ worker[w].pc = "receive" /\ ~Stop /\ ~worker[w].revoked
  /\ \E res \in {"ok", "transient"} : Flush(w, res)
  /\ Spend("failure")
  /\ KeepRun /\ UNCHANGED <<manager, thief>>

(* Taken over, or stopped: what arrived is still written unless the chunk is another's. *)
Interrupted(w) ==
  /\ \/ worker[w].pc = "receive" /\ (Stop \/ worker[w].revoked) /\ Flush(w, "transient")
     \/ worker[w].pc = "asking" /\ Stop /\ Ends(w, "transient")
  /\ Quiet

(* The .part file with n bytes of the worker's batch in it. *)
Put(a, n) == [b \in Byte |-> IF b \in a.pos .. a.pos + n - 1 THEN a.ver ELSE disk[b]]
KeepSaves == UNCHANGED <<durable, part, saved, final>>

(* write_chunk_slice on the blocking pool: the batch is in the file, and no one knows yet. *)
WriteOut(w) ==
  /\ worker[w].pc = "writing"
  /\ disk' = Put(worker[w], worker[w].buf)
  /\ Step(w, [worker[w] EXCEPT !.pc = "written"])
  /\ KeepSaves /\ UNCHANGED <<manager, thief, run, remote, left>>

(* Faulty: the error is lost. *)
FaultyWriteFails(w) ==
  /\ worker[w].pc = "writing"
  /\ \E n \in 0 .. worker[w].buf - 1 : disk' = Put(worker[w], n)
  /\ Step(w, [worker[w] EXCEPT !.pc = "written"])
  /\ Spend("diskError")
  /\ KeepSaves /\ UNCHANGED <<manager, thief, run, remote>>

(* ... fails, with some of the batch in the file. *)
WriteFails(w) ==
  /\ worker[w].pc = "writing"
  /\ \E n \in 0 .. worker[w].buf - 1 : disk' = Put(worker[w], n)
  /\ Step(w, [worker[w] EXCEPT !.pc = "settle", !.buf = 0, !.res = "fatal"])
  /\ Spend("diskError")
  /\ KeepSaves /\ UNCHANGED <<manager, thief, run, remote>>

(* The write returned: the chunk's offset follows, unless the chunk has new offsets by now. *)
Advance(w) ==
  LET a == worker[w]
      pos == a.pos + a.buf
      over == a.res # "none" \/ (~a.revoked /\ pos > Own(w).end)
      res == IF a.res = "none" THEN "ok" ELSE a.res
  IN  /\ a.pc = "written"
      /\ chunks' = IF a.revoked THEN chunks ELSE [chunks EXCEPT ![a.chunk].cur = pos]
      /\ Step(w, [a EXCEPT !.pc = IF over THEN "settle" ELSE "receive", !.pos = pos, !.buf = 0,
                           !.res = IF over THEN Verdict(w, res, pos) ELSE "none"])
      /\ KeepRun /\ UNCHANGED <<completed, nextFresh, retryQueue, fatal, thief, left>>

(* conclude and settle: under both locks, unless the download is over by then.  An attempt that *)
(* was taken over settles nothing but a disk error.                                             *)
Settle(w) ==
  LET a == worker[w]
  IN  /\ a.pc = "settle" /\ ~Stop /\ Unlocked
      /\ CASE a.res = "fatal" -> Abort
           [] a.revoked /\ a.res # "fatal" -> UNCHANGED manager
           [] ~a.revoked /\ a.res = "ok" -> MarkCompleted(a.chunk)
           [] ~a.revoked /\ a.res \in {"transient", "refused"} -> MarkFailed(a.chunk, a.res = "transient")
      /\ Step(w, NoAttempt("idle"))
      /\ KeepRun /\ UNCHANGED <<thief, left>>

(* The last usable mirror was refused once too often: the download is over. *)
NoMirrorLeft(w) ==
  /\ worker[w].pc = "settle" /\ ~Stop /\ Unlocked
  /\ worker[w].res = "refused" /\ ~worker[w].revoked
  /\ Abort
  /\ Step(w, NoAttempt("idle"))
  /\ KeepRun /\ UNCHANGED <<thief, left>>

Return(w) ==
  /\ worker[w].pc \in {"idle", "settle"} /\ Stop
  /\ ~Holding(w, ThiefOp)
  /\ Step(w, NoAttempt("stopped"))
  /\ Quiet
WorkerStep(w) ==
  \/ TakeRetry(w) \/ TakeFresh(w) \/ LookForVictim(w) \/ PickSilent(w) \/ DoTakeOver(w)
  \/ PickSteal(w) \/ DoSteal(w) \/ FindNothing(w)
  \/ Answer(w) \/ AnswerFails(w) \/ AnswerRefused(w) \/ AnswerChanged(w)
  \/ Receive(w) \/ BodyEnds(w) \/ FlushDue(w) \/ BodyBreaks(w) \/ Interrupted(w)
  \/ WriteOut(w) \/ WriteFails(w) \/ Advance(w) \/ Settle(w) \/ NoMirrorLeft(w) \/ Return(w)

-----------------------------------------------------------------------------
(***************************************************************************)
(* The engine.  Planning goes off -> discarding -> planned -> opening ->   *)
(* filling; the loop is running, with a save (persist) in it or after it   *)
(* syncing -> saving; then stopping, and for a finished file verifying ->  *)
(* renaming -> cleaning -> done, for a wrong one rejecting -> forgetting   *)
(* -> failed.                                                              *)
(***************************************************************************)
Engine == {"off", "discarding", "planned", "opening", "filling", "running", "syncing", "saving",
           "stopping", "verifying", "renaming", "cleaning", "rejecting", "forgetting", "done", "failed"}
Go(from, to) == engine = from /\ engine' = to
KeepWork == UNCHANGED <<manager, attempts, remote, left>>
KeepLoop == UNCHANGED <<outcome, cancelled, ref, resume, snap>>

(* Faulty: what the state holds is fetched again. *)
FaultyPlanResume ==
  /\ Go("off", "planned")
  /\ part /\ saved # None /\ saved.version = remote
  /\ ref' = remote /\ resume' = {}
  /\ KeepWork /\ UNCHANGED <<outcome, cancelled, snap, files>>

(* plan_target: the probe tells the server's version; our .part of that version is resumed. *)
PlanResume ==
  /\ Go("off", "planned")
  /\ part /\ saved # None /\ saved.version = remote
  /\ ref' = remote /\ resume' = saved.held
  /\ KeepWork /\ UNCHANGED <<outcome, cancelled, snap, files>>

PlanFresh ==
  /\ Go("off", "planned")
  /\ ~part
  /\ ref' = remote /\ resume' = {}
  /\ KeepWork /\ UNCHANGED <<outcome, cancelled, snap, files>>

(* ... a stale .part is removed, and then its state. *)
PlanDiscard ==
  /\ Go("off", "discarding")
  /\ part /\ saved # None /\ saved.version # remote
  /\ ref' = remote /\ resume' = {}
  /\ part' = FALSE /\ disk' = Empty /\ durable' = Empty
  /\ KeepWork /\ UNCHANGED <<outcome, cancelled, snap, saved, final>>

DiscardState ==
  /\ Go("discarding", "planned")
  /\ saved' = None
  /\ KeepWork /\ KeepLoop /\ UNCHANGED <<disk, durable, part, final>>

(* Faulty: the ranges resumed from are not carried over. *)
FaultyRecordStart ==
  /\ Go("planned", "opening")
  /\ saved' = [version |-> ref, held |-> {}]
  /\ KeepWork /\ KeepLoop /\ UNCHANGED <<disk, durable, part, final>>

(* download: sources and validators are recorded before the first byte arrives. *)
RecordStart ==
  /\ Go("planned", "opening")
  /\ saved' = [version |-> ref, held |-> resume]
  /\ KeepWork /\ KeepLoop /\ UNCHANGED <<disk, durable, part, final>>

(* fetch_ranges: the writer opens or creates the .part ... *)
OpenPart ==
  /\ Go("opening", "filling")
  /\ part' = TRUE
  /\ KeepWork /\ KeepLoop /\ UNCHANGED <<disk, durable, saved, final>>

(* ... and writes what the probe brought where the state holds nothing; the manager counts both. *)
(* The probe's answer, if it goes on, is one worker's first attempt, for the bytes up to e.       *)
Start ==
  LET have == resume \cup 0 .. Prefetch - 1
      idle == [w \in Workers |-> NoAttempt("idle")]
  IN  /\ Go("filling", "running")
      /\ disk' = [b \in Byte |-> IF b \in (0 .. Prefetch - 1) \ resume THEN ref ELSE disk[b]]
      /\ \E cs \in Layouts(have) :
           /\ NewManager(cs)
           /\ \/ chunks' = cs /\ worker' = idle
              \/ \E w \in Workers, i \in DOMAIN cs, e \in Byte :
                   /\ cs[i].status = "Unassigned" /\ cs[i].start = Prefetch /\ Prefetch <= e
                   /\ chunks' = AssignAt(cs, i, e)
                   /\ worker' = [idle EXCEPT ![w] = [NewAttempt(i) EXCEPT !.pc = "receive", !.pos = Prefetch, !.ver = ref]]
      /\ thief' = None
      /\ KeepLoop /\ UNCHANGED <<durable, part, saved, final, remote, left>>

(* Any of these steps may fail on the disk: the run ends with what it has done so far. *)
StartFails ==
  /\ engine \in {"planned", "opening", "filling"} /\ engine' = "failed"
  /\ \E n \in 0 .. Prefetch :
       disk' = IF engine = "filling" THEN [b \in Byte |-> IF b \in (0 .. n - 1) \ resume THEN ref ELSE disk[b]]
               ELSE disk
  /\ Spend("diskError")
  /\ KeepLoop /\ KeepSaves /\ UNCHANGED <<manager, attempts, remote>>

(* The user pauses the download. *)
Cancel ==
  /\ ~cancelled /\ outcome = "none"
  /\ engine \in {"discarding", "planned", "opening", "filling", "running", "syncing", "saving"}
  /\ cancelled' = TRUE
  /\ Spend("cancel")
  /\ UNCHANGED <<manager, attempts, engine, outcome, ref, resume, snap, files, remote>>

(* The loop ends: every chunk is completed, some chunk failed for good, or the user cancelled. *)
Leave(out) ==
  /\ Go("running", "stopping")
  /\ outcome' = out
  /\ KeepWork /\ UNCHANGED <<cancelled, ref, resume, snap, files>>

AllCompleted == Unlocked /\ IsAllCompleted /\ Leave("ok")
HasFatalFailure == Unlocked /\ fatal /\ Leave("failed")
SeesCancel == cancelled /\ Leave("cancelled")

(* persist: the ranges first, then the bytes are made durable, then the ranges are saved. *)
PersistRanges ==
  /\ Go("running", "syncing") /\ Unlocked
  /\ snap' = CompletedRanges
  /\ Spend("persist")
  /\ UNCHANGED <<manager, attempts, outcome, cancelled, ref, resume, files, remote>>

(* Every worker has returned; a download that failed saves its ranges once more. *)
Join ==
  /\ engine = "stopping"
  /\ \A w \in Workers : worker[w].pc = "stopped"
  /\ IF outcome = "ok"
     THEN engine' = "verifying" /\ UNCHANGED snap
     ELSE engine' = "syncing" /\ snap' = CompletedRanges
  /\ KeepWork /\ UNCHANGED <<outcome, cancelled, ref, resume, files>>

PersistSync ==
  /\ Go("syncing", "saving")
  /\ durable' = disk
  /\ KeepWork /\ KeepLoop /\ UNCHANGED <<disk, part, saved, final>>

AfterPersist == IF outcome = "none" THEN "running" ELSE "failed"

(* Faulty: the ranges are read again after the sync. *)
FaultyPersistSave ==
  /\ Go("saving", AfterPersist)
  /\ saved' = [version |-> ref, held |-> CompletedRanges]
  /\ snap' = {}
  /\ KeepWork /\ UNCHANGED <<outcome, cancelled, ref, resume, disk, durable, part, final>>

PersistSave ==
  /\ Go("saving", AfterPersist)
  /\ saved' = [version |-> ref, held |-> snap]
  /\ snap' = {}
  /\ KeepWork /\ UNCHANGED <<outcome, cancelled, ref, resume, disk, durable, part, final>>

(* A save that fails is only a warning. *)
PersistFails ==
  /\ engine \in {"syncing", "saving"} /\ engine' = AfterPersist
  /\ snap' = {}
  /\ Spend("diskError")
  /\ UNCHANGED <<manager, attempts, outcome, cancelled, ref, resume, files, remote>>

(* finalize: the file is checked, then takes its name, then its state goes. *)
Verified ==
  /\ Go("verifying", "renaming")
  /\ KeepWork /\ KeepLoop /\ UNCHANGED files

VerifiedWrong ==
  /\ Go("verifying", "rejecting")
  /\ Spend("mismatch")
  /\ KeepLoop /\ UNCHANGED <<manager, attempts, remote, files>>

(* The file cannot be read to check it, or cannot be moved: the .part and its state stay. *)
FinalizeFails ==
  /\ engine \in {"verifying", "renaming"} /\ engine' = "failed"
  /\ Spend("diskError")
  /\ KeepLoop /\ UNCHANGED <<manager, attempts, remote, files>>

RemovePart == part' = FALSE /\ disk' = Empty /\ durable' = Empty

Rename ==
  /\ Go("renaming", "cleaning")
  /\ final' = disk
  /\ RemovePart
  /\ KeepWork /\ KeepLoop /\ UNCHANGED saved

(* Faulty: the state goes before the .part. *)
FaultyRejectPart ==
  /\ Go("rejecting", "forgetting")
  /\ saved' = None
  /\ KeepWork /\ KeepLoop /\ UNCHANGED <<disk, durable, part, final>>

RejectPart ==
  /\ Go("rejecting", "forgetting")
  /\ RemovePart
  /\ KeepWork /\ KeepLoop /\ UNCHANGED <<saved, final>>

RemoveState ==
  /\ Go("cleaning", "done") \/ Go("forgetting", "failed")
  /\ saved' = None
  /\ KeepWork /\ KeepLoop /\ UNCHANGED <<disk, durable, part, final>>

EngineStep ==
  \/ PlanResume \/ PlanFresh \/ PlanDiscard \/ DiscardState \/ RecordStart \/ OpenPart \/ Start
  \/ StartFails \/ FinalizeFails
  \/ AllCompleted \/ HasFatalFailure \/ SeesCancel \/ Join
  \/ PersistRanges \/ PersistSync \/ PersistSave \/ PersistFails
  \/ Verified \/ VerifiedWrong \/ Rename \/ RejectPart \/ RemoveState

-----------------------------------------------------------------------------
(* The world: another version on the server (a newer one, or an older one back), a crash, another try. *)

ChangeRemote ==
  /\ remote' \in 1 .. Versions \ {remote}
  /\ Spend("change")
  /\ UNCHANGED <<manager, attempts, run, files>>

(* The process's memory is gone, and the next run of the download comes. *)
Afresh ==
  /\ Spend("run")
  /\ DropManager
  /\ worker' = [w \in Workers |-> NoAttempt("stopped")] /\ thief' = None
  /\ engine' = "off" /\ outcome' = "none" /\ cancelled' = FALSE
  /\ ref' = 0 /\ resume' = {} /\ snap' = {}
  /\ UNCHANGED <<remote, part, saved, final>>

RunAgain ==
  /\ engine = "failed"
  /\ Afresh /\ UNCHANGED <<disk, durable>>

(* The process dies; what it wrote is in the file. *)
ProcessDies ==
  /\ engine \notin {"off", "done", "failed"}
  /\ Afresh /\ UNCHANGED <<disk, durable>>

(* The machine fails: what no sync made durable is in the file or not, byte by byte. *)
MachineFails ==
  /\ engine # "done"
  /\ \E lost \in SUBSET Byte :
       disk' = [b \in Byte |-> IF b \in lost THEN durable[b] ELSE disk[b]]
  /\ durable' = disk'
  /\ Afresh

Finished == engine \in {"done", "failed"} /\ UNCHANGED vars

Init ==
  /\ NoManager
  /\ worker = [w \in Workers |-> NoAttempt("stopped")] /\ thief = None
  /\ engine = "off" /\ outcome = "none" /\ cancelled = FALSE
  /\ ref = 0 /\ resume = {} /\ snap = {}
  /\ disk = Empty /\ durable = Empty /\ part = FALSE /\ saved = None /\ final = None
  /\ remote = 1
  /\ left \in Budgets

Next ==
  \/ \E w \in Workers : WorkerStep(w)
  \/ EngineStep
  \/ Cancel \/ ChangeRemote \/ RunAgain \/ ProcessDies \/ MachineFails
  \/ Finished

Spec == Init /\ [][Next]_vars

(***************************************************************************)
(* What the runtime and the code's timers grant.  A task that can run is   *)
(* run; a mutex held again and again is granted in the end; a backoff      *)
(* elapses; a request is answered or given up (connect and stall timeout), *)
(* and so is a body (body_idle).  Nothing makes a worker steal, a server   *)
(* answer well, or the user, the disk or the machine do anything.          *)
(***************************************************************************)
Proceed(w) ==
  \/ WriteOut(w) \/ Advance(w) \/ BodyEnds(w) \/ FlushDue(w) \/ Interrupted(w) \/ Return(w)
  \/ DoTakeOver(w) \/ DoSteal(w) \/ FindNothing(w)
Answered(w) == Answer(w) \/ AnswerFails(w) \/ AnswerRefused(w) \/ AnswerChanged(w)
Body(w) == Receive(w) \/ BodyBreaks(w)
Work(w) == TakeRetry(w) \/ TakeFresh(w)
EngineGoesOn ==
  \/ PlanResume \/ PlanFresh \/ PlanDiscard \/ DiscardState \/ RecordStart \/ OpenPart \/ Start
  \/ Join \/ PersistSync \/ PersistSave \/ Verified \/ Rename \/ RejectPart \/ RemoveState

Fairness ==
  /\ \A w \in Workers : /\ WF_vars(Proceed(w)) /\ WF_vars(Answered(w)) /\ WF_vars(Body(w))
                        /\ SF_vars(Work(w)) /\ SF_vars(Settle(w) \/ NoMirrorLeft(w))
  /\ WF_vars(EngineGoesOn)
  /\ SF_vars(AllCompleted) /\ SF_vars(HasFatalFailure) /\ SF_vars(SeesCancel)

FairSpec == Spec /\ Fairness

-----------------------------------------------------------------------------
TypeOK ==
  /\ chunks \in Seq(Chunk) /\ completed \in Nat /\ nextFresh \in Nat \ {0}
  /\ retryQueue \in Seq(Nat) /\ fatal \in BOOLEAN
  /\ worker \in [Workers -> Attempt] /\ thief \in Thief \cup {None}
  /\ engine \in Engine /\ outcome \in {"none", "ok", "failed", "cancelled"} /\ cancelled \in BOOLEAN
  /\ ref \in 0 .. Versions /\ remote \in 1 .. Versions
  /\ resume \in SUBSET Byte /\ snap \in SUBSET Byte
  /\ disk \in Contents /\ durable \in Contents /\ part \in BOOLEAN
  /\ saved \in State \cup {None} /\ final \in Contents \cup {None}
  /\ left \in [World -> Int]

(* While the download runs, a chunk is assigned exactly when one worker, and one only, has an     *)
(* attempt at it that was not taken over: no chunk waits for a worker that will never settle it,  *)
(* and no two workers settle the same one.                                                        *)
OneOwner ==
  LET at(i) == {w \in Workers : worker[w].chunk = i /\ ~worker[w].revoked}
  IN  ~Stop /\ ~fatal =>
                 /\ \A i \in DOMAIN chunks : Cardinality(at(i)) = IF chunks[i].status = "Assigned" THEN 1 ELSE 0
                 /\ \A w \in Workers : worker[w].chunk \in 0 .. Len(chunks)

(* Whatever the manager counts as downloaded, which is what a save records and what ends the      *)
(* download, is in the .part, and of the version this run fetches: across splits, takeovers,      *)
(* batches in flight, failed writes, and the bytes of a resumed file.                             *)
CountedIsWritten == part => CompletedRanges \subseteq Holds(disk, ref)

(* No byte is left to nobody or settled twice, and none is counted that is not in the file. *)
EveryByteOnce == OneOwner /\ CountedIsWritten

(* A .part always has the state that tells what it is, and what that state holds would survive    *)
(* the machine failing now: the next run may fetch only the rest.                                 *)
ResumeIsSafe ==
  part => /\ saved # None
          /\ saved.held \subseteq Holds(durable, saved.version) \cap Holds(disk, saved.version)

(* A finished file is whole, and all of one version of the file on the server. *)
FinalIsWhole == final # None => \E v \in 1 .. Versions : Holds(final, v) = Byte

(* Across runs, crashes and changes on the server, the download keeps what Transfer promises:      *)
(* what a save recorded and synced stays safe until the file is delivered, or given up for cause. *)
Promise == INSTANCE Transfer WITH
  Bytes <- Byte,
  server <- remote,
  recorded <- IF saved = None THEN 0 ELSE saved.version,
  safe <- IF part /\ saved # None THEN saved.held \cap Holds(durable, saved.version) ELSE {},
  wrong <- engine = "rejecting",
  delivered <- final
KeepsPromise == Promise!Spec

(* A download that was started ends, unless its process does. *)
Terminates == engine = "running" ~> engine \in {"done", "failed", "off"}

(* ... even if from some moment on servers answer but never send a byte: max_retries bounds the *)
(* failed attempts per chunk.                                                                   *)
GivesUp == <>[](\A w \in Workers : worker[w].buf = 0) => Terminates

(* A download ends with the file, if each chunk fails at most max_retries times in a row. *)
Completes == <>(engine = "done")
=============================================================================
