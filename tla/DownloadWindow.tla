--------------------------- MODULE DownloadWindow ---------------------------
(***************************************************************************)
(* The desktop window's queue (queue.rs, the window's main.rs and          *)
(* queue_store.rs): a download's status, the task that runs its engine     *)
(* and the event it sends when it ends, the scheduler, the schedule,       *)
(* closing, and the thread that saves the queue.                           *)
(*                                                                         *)
(* The window's thread draws frame after frame: it handles the events that *)
(* came, the tray's commands and the schedule, runs the scheduler, a step  *)
(* per download it takes, does what the user asks for as it renders, and   *)
(* sends a changed queue to be saved.  Which of several waiting downloads  *)
(* starts first (places in the list, priorities, first come) is any.       *)
(***************************************************************************)
EXTENDS Naturals, Sequences, FiniteSets

CONSTANTS
  Ids,          (* 1 .. how many downloads may be added                   *)
  File,         (* what each fetches                                      *)
  Private,      (* those with an Authorization header, which is not saved *)
  Secret,       (* those whose link is a secret, saved redacted once over *)
  Live,         (* live recordings                                        *)
  MaxRunning,   (* max_concurrent                                         *)
  SmallAtOnce,  (* SMALL_AT_ONCE                                          *)
  MaxUnsaved,   (* bound: snapshots on their way to the saver             *)
  Smalls,       (* those the engine may know to be small                  *)
  Budgets,      (* bounds: how often the user, the schedule and the world act, *)
                (* one for the whole of a behaviour                       *)
  None

VARIABLES
  status,          (* QueueItem.status; "new": not added yet, "gone": removed,      *)
                   (* "linkless": failed, its links saved without their secret      *)
  small,           (* QueueItem.small                                               *)
  job,             (* the task of run_job, then its JobFinished on its way          *)
  discarding,      (* tasks of discard_job, then their Discarded on its way         *)
  resuming, restarting,
  auto, schedulePaused,   (* settings.auto_run_queue, settings.schedule_paused      *)
  settings,        (* the settings file                                             *)
  app,             (* open, closing (recordings finish), leaving and saving         *)
                   (* (on_exit), closed                                             *)
  turn,            (* where update is in its frame                                  *)
  changed,         (* the queue's revision is not queue_saved                       *)
  chan, saver,     (* snapshots sent to the saver, and its thread                   *)
  disk,            (* gui-queue.json                                                *)
  yours,           (* history: those the user paused and has not asked for since    *)
  left             (* what is left of the budget                                    *)

queue == <<status, small>>
tasks == <<job, discarding>>
plan == <<resuming, restarting, auto, schedulePaused>>
store == <<changed, chan, saver, disk>>
vars == <<queue, tasks, plan, settings, app, turn, store, yours, left>>

ActiveStatuses == {"downloading", "pausing"}
StoppedStatuses == {"queued", "paused", "completed", "failed", "auth", "linkless"}
Statuses == {"new", "gone"} \cup ActiveStatuses \cup StoppedStatuses
Results == {"ok", "cancelled", "error"}
JobStates == {"none", "running", "asked"} \cup Results
World == {"add", "ask", "schedule", "discard", "crash", "exit"}
ASSUME WindowAssumption == Budgets \subseteq [World -> Nat]

Active(s) == {id \in Ids : s[id] \in ActiveStatuses}
Spend(what) == left[what] > 0 /\ left' = [left EXCEPT ![what] = @ - 1]
Handles == app \in {"open", "closing"} /\ turn = "events"
Renders == app \in {"open", "closing"} /\ turn = "render"

(* settle_for_restart: the queue as it is saved and loaded. *)
SettledStatus(id, s) ==
  IF s \in {"new", "gone", "completed"} THEN s
  ELSE IF id \in Private THEN "auth"
  ELSE IF s \in ActiveStatuses THEN "paused"
  ELSE IF s = "failed" /\ id \in Secret THEN "linkless"
  ELSE s
Settled(s) == [id \in Ids |-> SettledStatus(id, s[id])]

TypeOK ==
  /\ status \in [Ids -> Statuses] /\ small \subseteq Ids
  /\ job \in [Ids -> JobStates] /\ discarding \subseteq Ids
  /\ resuming \subseteq Ids /\ restarting \subseteq Ids /\ schedulePaused \subseteq Ids /\ auto \in BOOLEAN
  /\ settings \in [auto : BOOLEAN, paused : SUBSET Ids]
  /\ app \in {"open", "closing", "leaving", "saving", "closed"}
  /\ turn \in {"events", "scheduler", "render"}
  /\ changed \in BOOLEAN
  /\ chan \in Seq([Ids -> Statuses])
  /\ saver \in [pc : {"idle", "collecting", "writing"}, held : [Ids -> Statuses] \cup {None}]
  /\ disk \in [Ids -> Statuses]
  /\ yours \subseteq Ids
  /\ left \in [World -> Nat]

Init ==
  /\ status = [id \in Ids |-> "new"] /\ small = {}
  /\ job = [id \in Ids |-> "none"] /\ discarding = {}
  /\ resuming = {} /\ restarting = {} /\ auto = TRUE /\ schedulePaused = {}
  /\ settings = [auto |-> TRUE, paused |-> {}]
  /\ app = "open" /\ turn = "events"
  /\ changed = FALSE /\ chan = <<>> /\ saver = [pc |-> "idle", held |-> None]
  /\ disk = [id \in Ids |-> "new"]
  /\ yours = {}
  /\ left \in Budgets

-----------------------------------------------------------------------------
(* may_start: room for one more, up to SMALL_AT_ONCE known small beside the places. *)
Lesser(a, b) == IF a < b THEN a ELSE b
MayStart ==
  LET beside == IF MaxRunning > 1 THEN Lesser(Cardinality(small \cap Active(status)), SmallAtOnce) ELSE 0
  IN  Cardinality(Active(status)) < MaxRunning + beside

(* active_conflict: an active item of the same file. *)
Conflict(s, id) == \E other \in Active(s) \ {id} : File[other] = File[id]

(* Faulty: two of one file run at once. *)
FaultyStarts(s, id) == s[id] \in StoppedStatuses \ {"linkless"}

(* start_job and mark_started: whether a job of id starts. *)
Starts(s, id) == s[id] \in StoppedStatuses \ {"linkless"} /\ ~Conflict(s, id)

StartJob(s, jobs, id) ==
  IF Starts(s, id)
  THEN /\ status' = [s EXCEPT ![id] = "downloading"]
       /\ job' = [jobs EXCEPT ![id] = "running"]
       /\ small' = small \ {id}
  ELSE /\ status' = s
       /\ job' = jobs
       /\ UNCHANGED small

(* mark_pausing, and the job's cancel. *)
PauseJobs(set) ==
  LET running == {id \in set : status[id] = "downloading"}
  IN  /\ status' = [id \in Ids |-> IF id \in running THEN "pausing" ELSE status[id]]
      /\ job' = [id \in Ids |-> IF id \in running /\ job[id] = "running" THEN "asked" ELSE job[id]]

Added(id) == status[id] = "new" /\ \A o \in Ids : o < id => status[o] # "new"

(* The user adds a download to the queue. *)
AddItem(id) ==
  /\ Renders /\ Added(id) /\ Spend("add")
  /\ status' = [status EXCEPT ![id] = "queued"]
  /\ changed' = TRUE
  /\ UNCHANGED <<small, tasks, plan, settings, app, turn, chan, saver, disk, yours>>

(* Start, Resume or Retry; linkless, it fails again at once. *)
Start(id) ==
  /\ Renders /\ status[id] \in {"queued", "paused", "failed", "linkless"} /\ Spend("ask")
  /\ StartJob(status, job, id)
  /\ changed' = TRUE
  /\ yours' = yours \ {id}
  /\ UNCHANGED <<discarding, plan, settings, app, turn, chan, saver, disk>>

(* resume_with_auth. *)
ResumeWithAuth(id) ==
  /\ Renders /\ status[id] = "auth" /\ Spend("ask")
  /\ StartJob([status EXCEPT ![id] = "paused"], job, id)
  /\ changed' = TRUE
  /\ yours' = yours \ {id}
  /\ UNCHANGED <<discarding, plan, settings, app, turn, chan, saver, disk>>

(* relinked: new links to a stopped download's file, once checked. *)
Relinked(id) ==
  /\ Handles /\ status[id] \in StoppedStatuses \ {"completed"} /\ Spend("ask")
  /\ StartJob([status EXCEPT ![id] = IF @ \in {"failed", "linkless"} THEN "paused" ELSE @], job, id)
  /\ changed' = TRUE
  /\ yours' = yours \ {id}
  /\ UNCHANGED <<discarding, plan, settings, app, turn, chan, saver, disk>>

PauseJob(id) ==
  /\ Renders /\ status[id] = "downloading" /\ Spend("ask")
  /\ PauseJobs({id})
  /\ changed' = TRUE
  /\ yours' = yours \cup {id}
  /\ UNCHANGED <<small, discarding, plan, settings, app, turn, chan, saver, disk>>

(* Pauses it to start it again with changed options. *)
RestartWith(id) ==
  /\ Renders /\ status[id] = "downloading" /\ Spend("ask")
  /\ PauseJobs({id})
  /\ restarting' = restarting \cup {id}
  /\ changed' = TRUE
  /\ UNCHANGED <<small, discarding, resuming, auto, schedulePaused, settings, app, turn, chan, saver, disk, yours>>

(* Faulty: one that runs may be removed. *)
FaultyRemovable(s) == s \notin {"new", "gone"}

(* remove_item: not one whose engine runs. *)
Removable(s) == s \in StoppedStatuses

RemoveJob(id) ==
  /\ Renders /\ Removable(status[id]) /\ Spend("ask")
  /\ status' = [status EXCEPT ![id] = "gone"]
  /\ changed' = TRUE
  /\ UNCHANGED <<small, tasks, plan, settings, app, turn, chan, saver, disk, yours>>

(* discard_job: a task deletes its leftovers ... *)
DiscardJob(id) ==
  /\ Renders /\ status[id] \in {"paused", "failed", "linkless"} /\ ~Conflict(status, id) /\ Spend("discard")
  /\ discarding' = discarding \cup {id}
  /\ UNCHANGED <<queue, job, plan, settings, app, turn, store, yours>>

(* ... and removes it, unless they are in use, or it runs again by now. *)
Discarded(id) ==
  /\ Handles /\ id \in discarding
  /\ discarding' = discarding \ {id}
  /\ status' \in {status, IF Removable(status[id]) THEN [status EXCEPT ![id] = "gone"] ELSE status}
  /\ changed' = TRUE
  /\ UNCHANGED <<small, job, plan, settings, app, turn, chan, saver, disk, yours, left>>

(* The tray's Pause all, Resume all, and Start or Stop the queue. *)
PauseAll ==
  /\ Handles /\ Spend("ask")
  /\ PauseJobs(Ids)
  /\ auto' = FALSE /\ resuming' = {}
  /\ changed' = TRUE
  /\ yours' = yours \cup {id \in Ids : status[id] = "downloading"}
  /\ UNCHANGED <<small, discarding, restarting, schedulePaused, settings, app, turn, chan, saver, disk>>

ResumeAll ==
  /\ Handles /\ Spend("ask")
  /\ LET paused == {id \in Ids : status[id] = "paused"}
     IN resuming' = resuming \cup paused /\ yours' = yours \ paused
  /\ auto' = TRUE
  /\ turn' = "scheduler"
  /\ UNCHANGED <<queue, tasks, restarting, schedulePaused, settings, app, store>>

StartOrStopQueue ==
  /\ Handles /\ Spend("ask")
  /\ auto' = ~auto
  /\ UNCHANGED <<queue, tasks, resuming, restarting, schedulePaused, settings, app, turn, store, yours>>

(* run_schedule, which saves the settings. *)
ScheduleStart ==
  /\ Handles /\ Spend("schedule")
  /\ auto' = TRUE
  /\ resuming' = resuming \cup schedulePaused /\ schedulePaused' = {}
  /\ settings' = [auto |-> TRUE, paused |-> {}]
  /\ turn' = "scheduler"
  /\ UNCHANGED <<queue, tasks, restarting, app, store, yours>>

ScheduleStop ==
  /\ Handles /\ Spend("schedule")
  /\ PauseJobs(Ids)
  /\ auto' = FALSE /\ resuming' = {}
  /\ schedulePaused' = schedulePaused \cup resuming \cup {id \in Ids : status[id] = "downloading"}
  /\ settings' = [auto |-> FALSE, paused |-> schedulePaused']
  /\ changed' = TRUE
  /\ UNCHANGED <<small, discarding, restarting, app, turn, chan, saver, disk, yours>>

-----------------------------------------------------------------------------
(* run_scheduler: while there is room, first those waiting to resume, then the queued; it stands still *)
(* with the queue stopped or the window waiting to close.                                               *)
MayTake == app = "open" /\ auto /\ MayStart
MayTakeQueued(id) == MayTake /\ resuming = {} /\ status[id] = "queued" /\ ~Conflict(status, id)

EventsDone ==
  /\ Handles /\ \A id \in Ids : job[id] \notin Results
  /\ turn' = "scheduler"
  /\ UNCHANGED <<queue, tasks, plan, settings, app, store, yours, left>>

ResumeNext(id) ==
  /\ turn = "scheduler" /\ MayTake
  /\ id \in resuming
  /\ resuming' = resuming \ {id}
  /\ IF status[id] = "paused"
     THEN StartJob(status, job, id) /\ changed' = TRUE
     ELSE UNCHANGED <<queue, job, changed>>
  /\ UNCHANGED <<discarding, restarting, auto, schedulePaused, settings, app, turn, chan, saver, disk, yours, left>>

StartQueued(id) ==
  /\ turn = "scheduler" /\ MayTakeQueued(id)
  /\ StartJob(status, job, id)
  /\ changed' = TRUE
  /\ UNCHANGED <<discarding, plan, settings, app, turn, chan, saver, disk, yours, left>>

SchedulerDone ==
  /\ turn = "scheduler" /\ app \in {"open", "closing"}
  /\ ~(MayTake /\ resuming # {}) /\ \A id \in Ids : ~MayTakeQueued(id)
  /\ turn' = "render"
  /\ UNCHANGED <<queue, tasks, plan, settings, app, store, yours, left>>

(* A snapshot of the engine says whether it is small. *)
SnapshotSmall(id) ==
  /\ Handles /\ id \in Smalls /\ status[id] \in ActiveStatuses
  /\ small' = (small \ {id}) \cup ({id} \ small)
  /\ UNCHANGED <<status, tasks, plan, settings, app, turn, store, yours, left>>

(* run_job returns; CANCELLED only once it was asked to stop. *)
JobEnds(id) ==
  /\ app # "closed"
  /\ \/ job[id] = "running" /\ job' \in {[job EXCEPT ![id] = r] : r \in {"ok", "error"}}
     \/ job[id] = "asked" /\ job' \in {[job EXCEPT ![id] = r] : r \in Results}
  /\ UNCHANGED <<queue, discarding, plan, settings, app, turn, store, yours, left>>

(* Faulty: one that was being paused is paused, however it ended. *)
FaultyFinished(s, result) ==
  IF s = "pausing" THEN "paused"
  ELSE IF result = "ok" THEN "completed"
  ELSE "failed"

(* finish: how a run that ended leaves its item. *)
Finished(s, result) ==
  CASE result = "ok" -> "completed"
    [] result = "cancelled" /\ s = "pausing" -> "paused"
    [] OTHER -> "failed"

JobFinished(id) ==
  /\ Handles /\ job[id] \in Results
  /\ LET ended == [status EXCEPT ![id] = Finished(@, job[id])]
         idle == [job EXCEPT ![id] = "none"]
     IN  IF id \in restarting /\ ended[id] = "paused"
         THEN StartJob(ended, idle, id)
         ELSE status' = ended /\ job' = idle /\ UNCHANGED small
  /\ restarting' = restarting \ {id}
  /\ changed' = TRUE
  /\ UNCHANGED <<discarding, resuming, auto, schedulePaused, settings, app, turn, chan, saver, disk, yours, left>>

-----------------------------------------------------------------------------
(* Faulty: the queue counts as saved though nothing was sent, while the saver is busy. *)
FaultyFrameEnds ==
  /\ Renders /\ Len(chan) < MaxUnsaved
  /\ chan' = IF changed /\ saver.pc = "idle" THEN Append(chan, status) ELSE chan
  /\ changed' = FALSE
  /\ turn' = "events"
  /\ UNCHANGED <<queue, tasks, plan, settings, app, saver, disk, yours, left>>

(* update's end: a changed queue goes to the saver. *)
FrameEnds ==
  /\ Renders /\ Len(chan) < MaxUnsaved
  /\ chan' = IF changed THEN Append(chan, status) ELSE chan
  /\ changed' = FALSE
  /\ turn' = "events"
  /\ UNCHANGED <<queue, tasks, plan, settings, app, saver, disk, yours, left>>

(* Faulty: the first of those that came within the delay is written. *)
FaultyCollect ==
  /\ saver.pc \in {"idle", "collecting"} /\ chan # <<>>
  /\ saver' = [pc |-> "collecting", held |-> IF saver.pc = "idle" THEN Head(chan) ELSE saver.held]
  /\ chan' = Tail(chan)
  /\ UNCHANGED <<queue, tasks, plan, settings, app, turn, changed, disk, yours, left>>

(* The saver: recv, then newer ones until SAVE_DELAY is over ... *)
Collect ==
  /\ saver.pc \in {"idle", "collecting"} /\ chan # <<>>
  /\ saver' = [pc |-> "collecting", held |-> Head(chan)]
  /\ chan' = Tail(chan)
  /\ UNCHANGED <<queue, tasks, plan, settings, app, turn, changed, disk, yours, left>>

(* ... and none is there, or no window any more: the last is written, settled. *)
DelayOver ==
  /\ saver.pc = "collecting" /\ chan = <<>>
  /\ saver' = [saver EXCEPT !.pc = "writing"]
  /\ UNCHANGED <<queue, tasks, plan, settings, app, turn, changed, chan, disk, yours, left>>

WriteQueue ==
  /\ saver.pc = "writing"
  /\ disk' = Settled(saver.held)
  /\ saver' = [pc |-> "idle", held |-> None]
  /\ UNCHANGED <<queue, tasks, plan, settings, app, turn, changed, chan, yours, left>>

-----------------------------------------------------------------------------
Recording(id) == id \in Live /\ job[id] # "none"
NoRecordings == \A id \in Ids : ~Recording(id)

(* The window is asked to close while recordings run: they are stopped first, and it waits. *)
StopRecordings ==
  /\ app = "open" /\ Handles /\ ~NoRecordings /\ Spend("exit")
  /\ PauseJobs({id \in Ids : Recording(id)})
  /\ app' = "closing"
  /\ changed' = TRUE
  /\ UNCHANGED <<small, discarding, plan, settings, turn, chan, saver, disk, yours>>

(* on_exit, once none records, or asked again: every job is asked to stop, ... *)
Leave ==
  /\ Handles
  /\ \/ app = "open" /\ NoRecordings /\ Spend("exit")
     \/ app = "closing" /\ UNCHANGED left
  /\ PauseJobs(Ids)
  /\ settings' = [auto |-> auto, paused |-> schedulePaused]
  /\ app' = "leaving"
  /\ UNCHANGED <<small, discarding, plan, turn, store, yours>>

(* ... they have EXIT_GRACE for it, how they ended is recorded, and the queue goes to the saver, ... *)
Drain ==
  /\ app = "leaving"
  /\ status' = [id \in Ids |-> IF job[id] \in Results THEN Finished(status[id], job[id]) ELSE status[id]]
  /\ job' = [id \in Ids |-> IF job[id] \in Results THEN "none" ELSE job[id]]
  /\ chan' = Append(chan, status')
  /\ app' = "saving"
  /\ UNCHANGED <<small, discarding, plan, settings, turn, changed, saver, disk, yours, left>>

Closed ==
  /\ app' = "closed" /\ turn' = "events"
  /\ status' = disk /\ small' = {}
  /\ job' = [id \in Ids |-> "none"] /\ discarding' = {}
  /\ resuming' = {} /\ restarting' = {}
  /\ auto' = settings.auto /\ schedulePaused' = settings.paused
  /\ changed' = FALSE /\ chan' = <<>> /\ saver' = [pc |-> "idle", held |-> None]
  /\ yours' = {id \in yours : disk[id] # "new"}
  /\ UNCHANGED <<settings, disk>>

(* ... which is waited for. *)
Exit ==
  /\ app = "saving" /\ chan = <<>> /\ saver.pc = "idle"
  /\ Closed
  /\ UNCHANGED left

(* The process dies; what it was writing is not there. *)
Crash ==
  /\ app # "closed" /\ Spend("crash")
  /\ Closed

(* App::new: the queue as it was saved, and no download runs. *)
Open ==
  /\ app = "closed"
  /\ app' = "open"
  /\ UNCHANGED <<queue, tasks, plan, settings, turn, store, yours, left>>

-----------------------------------------------------------------------------
UserAsks ==
  \/ \E id \in Ids :
       \/ AddItem(id) \/ Start(id) \/ ResumeWithAuth(id) \/ Relinked(id)
       \/ PauseJob(id) \/ RestartWith(id) \/ RemoveJob(id) \/ DiscardJob(id)
  \/ PauseAll \/ ResumeAll \/ StartOrStopQueue

Next ==
  \/ UserAsks
  \/ ScheduleStart \/ ScheduleStop
  \/ \E id \in Ids :
       ResumeNext(id) \/ StartQueued(id) \/ SnapshotSmall(id) \/ JobEnds(id) \/ JobFinished(id) \/ Discarded(id)
  \/ EventsDone \/ SchedulerDone \/ FrameEnds \/ Collect \/ DelayOver \/ WriteQueue
  \/ StopRecordings \/ Leave \/ Drain \/ Exit \/ Crash \/ Open

Spec == Init /\ [][Next]_vars

(* The window draws frames while anything changes, the saver's thread runs, and jobs end. *)
Fairness ==
  /\ WF_vars(\E id \in Ids : ResumeNext(id)) /\ WF_vars(\E id \in Ids : StartQueued(id))
  /\ \A id \in Ids : WF_vars(JobEnds(id)) /\ WF_vars(JobFinished(id))
  /\ WF_vars(EventsDone) /\ WF_vars(SchedulerDone) /\ WF_vars(FrameEnds)
  /\ WF_vars(Collect) /\ WF_vars(DelayOver) /\ WF_vars(WriteQueue)
  /\ WF_vars(Leave /\ app = "closing") /\ WF_vars(Drain) /\ WF_vars(Exit)

FairSpec == Spec /\ Fairness

-----------------------------------------------------------------------------
(* A download is active exactly while a job of it runs or the event of its end is on its way: none  *)
(* is removed or started twice under a running engine, and none is left active with nothing to end  *)
(* it (queue.rs: is_active, finish; main.rs: start_job, JobFinished, on_exit).                      *)
JobsAreActive ==
  \A id \in Ids :
    /\ job[id] # "none" <=> status[id] \in ActiveStatuses
    /\ job[id] \in {"asked", "cancelled"} => status[id] = "pausing"
    /\ job[id] = "running" => status[id] = "downloading"

(* Two engines never fetch one file at once (queue.rs: active_conflict), whoever starts them: the   *)
(* user, the scheduler, the schedule, a restart with changed options, a link taken.                 *)
OneEngineAFile == \A a, b \in Ids : job[a] # "none" /\ job[b] # "none" /\ File[a] = File[b] => a = b

(* Both: main.rs: start_job, pause_job, restart_with, run_scheduler; queue.rs: finish. *)
OneEngineEach == TypeOK /\ JobsAreActive /\ OneEngineAFile

(* Once the saver has nothing left to write, the file is the queue as it is: of snapshots sent one   *)
(* after another the last wins, and after an exit the file says how the downloads ended             *)
(* (queue_store.rs: Saver; main.rs: update, on_exit).                                               *)
SavedIsLatest ==
  /\ \/ app \in {"open", "closing"} /\ ~changed
     \/ app = "saving"
  /\ chan = <<>> /\ saver.pc = "idle"
  => disk = Settled(status)

(* A download that ended whole is never said to be anything else, though it was being paused, or the *)
(* window was closing, as it ended (queue.rs: finish).                                               *)
DoneIsSaid == [][\A id \in Ids : job[id] = "ok" /\ job'[id] = "none" /\ app' # "closed" => status'[id] = "completed"]_vars

(* README.md:528: a start of the schedule resumes what its stop paused, not the ones you paused       *)
(* yourself: those start again only when the user asks for them.                                      *)
YoursStayPaused ==
  [][\A id \in yours \cap yours' : status[id] \in {"pausing", "paused"} => status'[id] # "downloading"]_vars

(* Pausing ends, and what is queued starts once it may, if the queue runs and nothing of its file     *)
(* goes on; what changed is saved.                                                                    *)
NothingHangs ==
  /\ \A id \in Ids :
       /\ status[id] = "pausing" ~> status[id] # "pausing"
       /\ (status[id] = "queued" /\ auto /\ app = "open") ~> (status[id] # "queued" \/ ~auto \/ app # "open")
  /\ changed ~> (disk = Settled(status) \/ app # "open")
=============================================================================
