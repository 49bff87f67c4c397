------------------------ MODULE DownloadWindowProofs ------------------------
(***************************************************************************)
(* The desktop window's queue, for any set of downloads, of files they are *)
(* of, limits, budgets and bound on snapshots: one engine a download and a *)
(* file, the queue as it is on its way to the disk, and a download that    *)
(* is done said to be.                                                     *)
(*                                                                         *)
(* Then, of what the browser hands over, the buffer recordings: each is    *)
(* whole, and closed when it has to be.                                    *)
(***************************************************************************)
EXTENDS DownloadWindow, Integers, SequenceTheorems, TLAPS

(* What is on its way to the disk, the last of it first: a snapshot sent, one the saver has, or the  *)
(* file itself, which is settled already.                                                            *)
Coming ==
  IF chan # <<>> THEN Settled(chan[Len(chan)])
  ELSE IF saver.pc # "idle" THEN Settled(saver.held) ELSE disk

(* It is the queue as it is, unless a change waits for the frame's end, or the window is between     *)
(* asking its jobs to stop and recording how they ended.                                             *)
ComingIsLatest ==
  (app \in {"open", "closing", "closed"} /\ ~changed) \/ app = "saving" => Coming = Settled(status)

(* The saver has a queue to write, and the file is one: settled, so nothing in it is active.         *)
SavesQueues ==
  /\ saver.pc # "idle" => saver.held \in [Ids -> Statuses]
  /\ disk = Settled(disk)

IInv == OneEngineEach /\ SavesQueues /\ ComingIsLatest

-----------------------------------------------------------------------------
(* Statuses and tasks that agree: OneEngineEach, of any two functions of downloads. *)
Fits(s, j) ==
  /\ s \in [Ids -> Statuses] /\ j \in [Ids -> JobStates]
  /\ \A id \in Ids :
       /\ j[id] # "none" <=> s[id] \in ActiveStatuses
       /\ j[id] \in {"asked", "cancelled"} => s[id] = "pausing"
       /\ j[id] = "running" => s[id] = "downloading"
  /\ \A a, b \in Ids : j[a] # "none" /\ j[b] # "none" /\ File[a] = File[b] => a = b

LEMMA NowFits == IInv => Fits(status, job)
  BY DEF IInv, OneEngineEach, TypeOK, JobsAreActive, OneEngineAFile, Fits

LEMMA SettledFacts ==
  ASSUME NEW s \in [Ids -> Statuses]
  PROVE  /\ Settled(s) \in [Ids -> Statuses]
         /\ Settled(Settled(s)) = Settled(s)
         /\ \A id \in Ids : Settled(s)[id] \notin ActiveStatuses
  <1>1. ASSUME NEW id \in Ids, NEW x \in Statuses
        PROVE  /\ SettledStatus(id, x) \in Statuses \ ActiveStatuses
               /\ SettledStatus(id, SettledStatus(id, x)) = SettledStatus(id, x)
    <2>1. CASE x \in {"new", "gone", "completed"}
      BY <2>1 DEF SettledStatus, Statuses, ActiveStatuses, StoppedStatuses
    <2>2. CASE x \notin {"new", "gone", "completed"} /\ id \in Private
      BY <2>2 DEF SettledStatus, Statuses, ActiveStatuses, StoppedStatuses
    <2>3. CASE x \in ActiveStatuses /\ id \notin Private
      BY <2>3 DEF SettledStatus, Statuses, ActiveStatuses, StoppedStatuses
    <2>4. CASE x \in {"queued", "paused", "failed", "auth", "linkless"} /\ id \notin Private
      BY <2>4 DEF SettledStatus, Statuses, ActiveStatuses, StoppedStatuses
    <2> QED BY <2>1, <2>2, <2>3, <2>4 DEF Statuses, ActiveStatuses, StoppedStatuses
  <1>2. \A id \in Ids : Settled(s)[id] = SettledStatus(id, s[id]) BY DEF Settled
  <1>3. Settled(s) \in [Ids -> Statuses] BY <1>1 DEF Settled
  <1>4. Settled(Settled(s)) = Settled(s)
    <2>1. \A id \in Ids : SettledStatus(id, Settled(s)[id]) = SettledStatus(id, s[id]) BY <1>1, <1>2
    <2> QED BY <2>1 DEF Settled
  <1> QED BY <1>1, <1>2, <1>3, <1>4

(* start_job starts only what is stopped, and nothing beside another of its file. *)
LEMMA StartJobFits ==
  ASSUME NEW s, NEW j, NEW id \in Ids, Fits(s, j), StartJob(s, j, id), small \subseteq Ids
  PROVE  Fits(status', job') /\ small' \subseteq Ids
  <1>1. CASE ~Starts(s, id) BY <1>1 DEF StartJob
  <1>2. CASE Starts(s, id)
    <2>1. /\ status' = [s EXCEPT ![id] = "downloading"] /\ job' = [j EXCEPT ![id] = "running"]
          /\ small' \subseteq Ids /\ ~Conflict(s, id)
      BY <1>2 DEF StartJob, Starts
    <2>2. \A other \in Ids \ {id} : j[other] # "none" => File[other] # File[id]
      BY <2>1 DEF Conflict, Active, Fits
    <2>3. status' \in [Ids -> Statuses] /\ job' \in [Ids -> JobStates]
      BY <2>1 DEF Fits, Statuses, ActiveStatuses, JobStates
    <2>4. \A other \in Ids \ {id} : status'[other] = s[other] /\ job'[other] = j[other] BY <2>1 DEF Fits
    <2>5. status'[id] = "downloading" /\ job'[id] = "running" BY <2>1 DEF Fits
    <2> QED BY <2>1, <2>2, <2>3, <2>4, <2>5 DEF Fits, ActiveStatuses
  <1> QED BY <1>1, <1>2

LEMMA PauseJobsFits ==
  ASSUME Fits(status, job), NEW set, PauseJobs(set)
  PROVE  Fits(status', job')
  <1> DEFINE running == {id \in set : status[id] = "downloading"}
  <1>1. /\ status' = [id \in Ids |-> IF id \in running THEN "pausing" ELSE status[id]]
        /\ job' = [id \in Ids |-> IF id \in running /\ job[id] = "running" THEN "asked" ELSE job[id]]
    BY DEF PauseJobs
  <1>2. \A id \in Ids : status'[id] = (IF id \in running THEN "pausing" ELSE status[id])
                       /\ job'[id] = (IF id \in running /\ job[id] = "running" THEN "asked" ELSE job[id])
    BY <1>1
  <1>3. status' \in [Ids -> Statuses] /\ job' \in [Ids -> JobStates]
    BY <1>1 DEF Fits, Statuses, ActiveStatuses, JobStates
  <1>4. \A id \in Ids : job'[id] # "none" <=> job[id] # "none" BY <1>2
  <1>5. ASSUME NEW id \in Ids
        PROVE  /\ job'[id] # "none" <=> status'[id] \in ActiveStatuses
               /\ job'[id] \in {"asked", "cancelled"} => status'[id] = "pausing"
               /\ job'[id] = "running" => status'[id] = "downloading"
    BY <1>2, <1>4 DEF Fits, ActiveStatuses
  <1> QED BY <1>3, <1>4, <1>5 DEF Fits

(* An item that is not active, changed to another status of that kind. *)
LEMMA StoppedFits ==
  ASSUME NEW s, NEW j, NEW id \in Ids, Fits(s, j), s[id] \notin ActiveStatuses,
         NEW new \in Statuses \ ActiveStatuses
  PROVE  Fits([s EXCEPT ![id] = new], j)
  BY DEF Fits

(* The event of a task's end: its item is stopped, and it has no task. *)
LEMMA EndedFits ==
  ASSUME NEW s, NEW j, NEW id \in Ids, Fits(s, j), NEW new \in Statuses \ ActiveStatuses
  PROVE  Fits([s EXCEPT ![id] = new], [j EXCEPT ![id] = "none"])
  BY DEF Fits, JobStates

LEMMA FinishedStops == \A s, r : Finished(s, r) \in Statuses \ ActiveStatuses
  BY DEF Finished, Statuses, ActiveStatuses, StoppedStatuses

-----------------------------------------------------------------------------
(* The parts a step keeps. *)

StepFits == Fits(status', job') /\ small' \subseteq Ids

Plans ==
  /\ discarding \subseteq Ids /\ resuming \subseteq Ids /\ restarting \subseteq Ids /\ schedulePaused \subseteq Ids
  /\ auto \in BOOLEAN /\ settings \in [auto : BOOLEAN, paused : SUBSET Ids]
  /\ app \in {"open", "closing", "leaving", "saving", "closed"} /\ turn \in {"events", "scheduler", "render"}
  /\ yours \subseteq Ids /\ left \in [World -> Nat]

Store ==
  /\ changed \in BOOLEAN /\ chan \in Seq([Ids -> Statuses])
  /\ saver \in [pc : {"idle", "collecting", "writing"}, held : [Ids -> Statuses] \cup {None}]
  /\ disk \in [Ids -> Statuses]
  /\ SavesQueues

LEMMA Parts == IInv <=> Fits(status, job) /\ small \subseteq Ids /\ Plans /\ Store /\ ComingIsLatest
  BY DEF IInv, OneEngineEach, TypeOK, JobsAreActive, OneEngineAFile, Fits, Plans, Store

LEMMA PartsNext == IInv' <=> StepFits /\ Plans' /\ Store' /\ ComingIsLatest'
  BY DEF IInv, OneEngineEach, TypeOK, JobsAreActive, OneEngineAFile, Fits, Plans, Store, StepFits

(* A change of the queue, by the window while it is open, goes out at the frame's end. *)
LEMMA ChangesWait ==
  ASSUME IInv, UNCHANGED <<chan, saver, disk>>, changed' = TRUE, app' # "saving"
  PROVE  Store' /\ ComingIsLatest'
  BY Parts DEF Store, SavesQueues, ComingIsLatest

LEMMA NothingChanges ==
  ASSUME IInv, UNCHANGED <<status, app, chan, saver, disk>>, changed' = changed \/ changed' = TRUE
  PROVE  Store' /\ ComingIsLatest'
  BY Parts DEF Store, SavesQueues, ComingIsLatest, Coming

LEMMA SpendType == ASSUME IInv, NEW what \in World, Spend(what) PROVE left' \in [World -> Nat]
  BY Parts DEF Plans, Spend

-----------------------------------------------------------------------------
(* One lemma a group of actions. *)

LEMMA StartsInv ==
  ASSUME IInv, NEW id \in Ids, Start(id) \/ ResumeWithAuth(id) \/ Relinked(id) PROVE IInv'
  <1>1. /\ left' \in [World -> Nat] /\ yours' \subseteq Ids /\ changed' = TRUE
        /\ UNCHANGED <<discarding, plan, settings, app, turn, chan, saver, disk>> /\ app \in {"open", "closing"}
    BY SpendType, Parts DEF Start, ResumeWithAuth, Relinked, Renders, Handles, Plans, World
  <1>2. StepFits
    <2>1. CASE Start(id) BY <2>1, Parts, StartJobFits DEF Start, StepFits
    <2>2. CASE ResumeWithAuth(id)
      <3>1. Fits([status EXCEPT ![id] = "paused"], job)
        BY <2>2, Parts, StoppedFits DEF ResumeWithAuth, Statuses, ActiveStatuses, StoppedStatuses
      <3> QED BY <2>2, <3>1, Parts, StartJobFits DEF ResumeWithAuth, StepFits
    <2>3. CASE Relinked(id)
      <3> DEFINE new == IF status[id] \in {"failed", "linkless"} THEN "paused" ELSE status[id]
      <3>1. status[id] \notin ActiveStatuses /\ new \in Statuses \ ActiveStatuses
        BY <2>3 DEF Relinked, Statuses, ActiveStatuses, StoppedStatuses
      <3>2. Fits([status EXCEPT ![id] = new], job) BY <3>1, Parts, StoppedFits
      <3> QED BY <2>3, <3>2, Parts, StartJobFits DEF Relinked, StepFits
    <2> QED BY <2>1, <2>2, <2>3
  <1> QED BY <1>1, <1>2, Parts, PartsNext, ChangesWait DEF plan, Plans

LEMMA StopsInv ==
  ASSUME IInv, NEW id \in Ids,
         AddItem(id) \/ RemoveJob(id) \/ DiscardJob(id) \/ Discarded(id)
  PROVE  IInv'
  <1>1. /\ Plans' /\ UNCHANGED <<small, job, app, chan, saver, disk>> /\ app \in {"open", "closing"}
    BY SpendType, Parts
    DEF AddItem, RemoveJob, DiscardJob, Discarded, Renders, Handles, plan, queue, tasks, store, Plans, World
  <1>2. \/ status' = status /\ changed' \in {changed, TRUE}
        \/ /\ changed' = TRUE /\ status[id] \in Statuses \ ActiveStatuses
           /\ \E new \in Statuses \ ActiveStatuses : status' = [status EXCEPT ![id] = new]
    <2>1. CASE AddItem(id) BY <2>1 DEF AddItem, Added, Statuses, ActiveStatuses, StoppedStatuses
    <2>2. CASE RemoveJob(id) BY <2>2 DEF RemoveJob, Removable, Statuses, ActiveStatuses, StoppedStatuses
    <2>3. CASE DiscardJob(id) BY <2>3 DEF DiscardJob, queue, store
    <2>4. CASE Discarded(id) BY <2>4 DEF Discarded, Removable, Statuses, ActiveStatuses, StoppedStatuses
    <2> QED BY <2>1, <2>2, <2>3, <2>4
  <1>3. StepFits
    <2>1. Fits(status, job) /\ small \subseteq Ids BY Parts
    <2>2. Fits(status', job)
      <3>1. CASE status' = status BY <2>1, <3>1
      <3>2. CASE status[id] \in Statuses \ ActiveStatuses
                 /\ \E new \in Statuses \ ActiveStatuses : status' = [status EXCEPT ![id] = new]
        <4>1. PICK new \in Statuses \ ActiveStatuses : status' = [status EXCEPT ![id] = new] BY <3>2
        <4> QED BY <2>1, <3>2, <4>1, StoppedFits
      <3> QED BY <1>2, <3>1, <3>2
    <2> QED BY <1>1, <2>1, <2>2 DEF StepFits
  <1>4. Store' /\ ComingIsLatest' BY <1>1, <1>2, NothingChanges, ChangesWait
  <1> QED BY <1>1, <1>3, <1>4, PartsNext

LEMMA PausesInv ==
  ASSUME IInv,
         (\E id \in Ids : PauseJob(id) \/ RestartWith(id)) \/ PauseAll \/ ScheduleStop \/ StopRecordings
  PROVE  IInv'
  <1>1. /\ \E set : PauseJobs(set)
        /\ changed' = TRUE /\ UNCHANGED <<small, chan, saver, disk>> /\ app' \in {"open", "closing"}
    BY DEF PauseJob, RestartWith, PauseAll, ScheduleStop, StopRecordings, Renders, Handles, plan
  <1>2. Plans'
    <2>1. left' \in [World -> Nat] /\ yours' \subseteq Ids
      BY SpendType, Parts DEF PauseJob, RestartWith, PauseAll, ScheduleStop, StopRecordings, Plans, World
    <2>2. CASE \E id \in Ids : PauseJob(id) \/ RestartWith(id)
      BY <2>1, <2>2, Parts DEF PauseJob, RestartWith, plan, Plans
    <2>3. CASE PauseAll BY <2>1, <2>3, Parts DEF PauseAll, Plans
    <2>4. CASE ScheduleStop BY <2>1, <2>4, Parts DEF ScheduleStop, Plans
    <2>5. CASE StopRecordings BY <2>1, <2>5, Parts DEF StopRecordings, plan, Plans
    <2> QED BY <2>2, <2>3, <2>4, <2>5
  <1>3. StepFits BY <1>1, Parts, PauseJobsFits DEF StepFits
  <1> QED BY <1>1, <1>2, <1>3, PartsNext, ChangesWait

LEMMA PlansInv ==
  ASSUME IInv, ResumeAll \/ StartOrStopQueue \/ ScheduleStart \/ EventsDone \/ SchedulerDone PROVE IInv'
  <1>1. /\ UNCHANGED <<queue, tasks, store, app>>
    BY DEF ResumeAll, StartOrStopQueue, ScheduleStart, EventsDone, SchedulerDone
  <1>2. Plans'
    <2>1. left' \in [World -> Nat]
      BY SpendType, Parts DEF ResumeAll, StartOrStopQueue, ScheduleStart, EventsDone, SchedulerDone, Plans, World
    <2>2. Plans BY Parts
    <2>3. CASE ResumeAll
      <3>1. {id \in Ids : status[id] = "paused"} \subseteq Ids OBVIOUS
      <3> QED BY <2>1, <2>2, <2>3, <3>1 DEF ResumeAll, tasks, Plans
    <2>4. CASE StartOrStopQueue BY <2>1, <2>2, <2>4 DEF StartOrStopQueue, tasks, Plans
    <2>5. CASE ScheduleStart BY <2>1, <2>2, <2>5 DEF ScheduleStart, tasks, Plans
    <2>6. CASE EventsDone \/ SchedulerDone BY <2>1, <2>2, <2>6 DEF EventsDone, SchedulerDone, plan, tasks, Plans
    <2> QED BY <2>3, <2>4, <2>5, <2>6
  <1>3. StepFits BY <1>1, Parts DEF queue, tasks, StepFits
  <1> QED BY <1>1, <1>2, <1>3, PartsNext, NothingChanges DEF queue, store

LEMMA SchedulerInv == ASSUME IInv, NEW id \in Ids, ResumeNext(id) \/ StartQueued(id) PROVE IInv'
  <1>1. /\ Plans' /\ UNCHANGED <<chan, saver, disk, app>> /\ app = "open"
    <2>1. Plans BY Parts
    <2>2. CASE ResumeNext(id) BY <2>1, <2>2 DEF ResumeNext, MayTake, Plans
    <2>3. CASE StartQueued(id) BY <2>1, <2>3 DEF StartQueued, MayTakeQueued, MayTake, plan, Plans
    <2> QED BY <2>2, <2>3
  <1>2. CASE StartJob(status, job, id) /\ changed' = TRUE
    <2>1. StepFits BY <1>2, Parts, StartJobFits DEF StepFits
    <2> QED BY <1>1, <1>2, <2>1, PartsNext, ChangesWait
  <1>3. CASE UNCHANGED <<queue, job, changed>>
    <2>1. StepFits BY <1>3, Parts DEF queue, StepFits
    <2> QED BY <1>1, <1>3, <2>1, PartsNext, NothingChanges DEF queue
  <1> QED BY <1>2, <1>3 DEF ResumeNext, StartQueued

LEMMA JobEndsInv == ASSUME IInv, NEW id \in Ids, SnapshotSmall(id) \/ JobEnds(id) PROVE IInv'
  <1>1. Plans' /\ UNCHANGED <<status, app, store>>
    <2>1. Plans BY Parts
    <2> QED BY <2>1 DEF SnapshotSmall, JobEnds, queue, tasks, plan, Plans
  <1>2. StepFits
    <2>1. Fits(status, job) /\ small \subseteq Ids BY Parts
    <2>2. CASE SnapshotSmall(id) BY <2>1, <2>2 DEF SnapshotSmall, tasks, StepFits
    <2>3. CASE JobEnds(id)
      <3>1. PICK r \in Results :
              /\ job' = [job EXCEPT ![id] = r] /\ UNCHANGED queue
              /\ job[id] \in {"running", "asked"} /\ (r = "cancelled" => job[id] = "asked")
        BY <2>3 DEF JobEnds, Results
      <3>2. job' \in [Ids -> JobStates] /\ job'[id] = r /\ \A other \in Ids \ {id} : job'[other] = job[other]
        BY <2>1, <3>1 DEF Fits, JobStates
      <3>3. r \notin {"none", "running", "asked"} BY DEF Results
      <3> QED BY <2>1, <3>1, <3>2, <3>3 DEF queue, Fits, StepFits
    <2> QED BY <2>2, <2>3
  <1> QED BY <1>1, <1>2, PartsNext, NothingChanges DEF store

LEMMA JobFinishedInv == ASSUME IInv, NEW id \in Ids, JobFinished(id) PROVE IInv'
  <1> DEFINE ended == [status EXCEPT ![id] = Finished(status[id], job[id])]
             idle == [job EXCEPT ![id] = "none"]
  <1>1. Plans' /\ changed' = TRUE /\ UNCHANGED <<chan, saver, disk>> /\ app' \in {"open", "closing"}
    <2>1. Plans BY Parts
    <2> QED BY <2>1 DEF JobFinished, Handles, Plans
  <1>2. Fits(ended, idle) BY Parts, EndedFits, FinishedStops
  <1>3. StartJob(ended, idle, id) \/ (status' = ended /\ job' = idle /\ UNCHANGED small) BY DEF JobFinished
  <1>4. StepFits
    <2> HIDE DEF ended, idle
    <2> QED BY <1>2, <1>3, Parts, StartJobFits DEF StepFits
  <1> QED BY <1>1, <1>4, PartsNext, ChangesWait

LEMMA FrameEndsInv == ASSUME IInv, FrameEnds PROVE IInv'
  <1>1. Plans' /\ StepFits
    <2>1. Plans /\ Fits(status, job) /\ small \subseteq Ids BY Parts
    <2> QED BY <2>1 DEF FrameEnds, queue, tasks, plan, Plans, StepFits
  <1>2. CASE changed
    <2>1. /\ chan' = Append(chan, status) /\ changed' = FALSE /\ UNCHANGED <<status, saver, disk>>
      BY <1>2 DEF FrameEnds, queue
    <2>2. Store /\ status \in [Ids -> Statuses] BY Parts DEF Fits
    <2>3. /\ chan' \in Seq([Ids -> Statuses]) /\ chan' # <<>> /\ chan'[Len(chan')] = status
      BY <2>1, <2>2, AppendProperties DEF Store
    <2> QED BY <1>1, <2>1, <2>2, <2>3, PartsNext DEF Store, SavesQueues, ComingIsLatest, Coming
  <1>3. CASE ~changed
    <2>1. UNCHANGED <<status, app, chan, saver, disk, changed>> BY <1>3, Parts DEF FrameEnds, queue, Store
    <2> QED BY <1>1, <2>1, NothingChanges, PartsNext
  <1> QED BY <1>2, <1>3

LEMMA SaverInv == ASSUME IInv, Collect \/ DelayOver \/ WriteQueue PROVE IInv'
  <1>1. Plans' /\ StepFits /\ UNCHANGED <<status, app, changed>>
    <2>1. Plans /\ Fits(status, job) /\ small \subseteq Ids BY Parts
    <2> QED BY <2>1 DEF Collect, DelayOver, WriteQueue, queue, tasks, plan, Plans, StepFits
  <1>2. Store /\ ComingIsLatest BY Parts
  <1>3. Store' /\ Coming' = Coming
    <2>1. CASE Collect
      <3>1. /\ chan # <<>> /\ chan' = Tail(chan) /\ UNCHANGED disk
            /\ saver' = [pc |-> "collecting", held |-> Head(chan)]
        BY <2>1 DEF Collect
      <3>2. /\ Head(chan) \in [Ids -> Statuses] /\ chan' \in Seq([Ids -> Statuses])
        BY <1>2, <3>1, HeadTailProperties DEF Store
      <3>3. Store' BY <1>2, <3>1, <3>2, <1>1 DEF Store, SavesQueues
      <3>4. CASE chan' = <<>>
        <4>1. Len(chan) \in Nat /\ Len(chan') = Len(chan) - 1
          BY <1>2, <3>1, HeadTailProperties DEF Store
        <4>2. Len(chan') = 0 BY <3>4, EmptySeq
        <4>3. Len(chan) = 1 BY <4>1, <4>2
        <4>4. chan[Len(chan)] = Head(chan) BY <1>2, <4>3 DEF Store
        <4>5. Coming = Settled(Head(chan)) BY <3>1, <4>4 DEF Coming
        <4>6. saver'.pc = "collecting" /\ saver'.held = Head(chan) BY <3>1
        <4> QED BY <3>3, <3>4, <4>5, <4>6 DEF Coming
      <3>5. CASE chan' # <<>>
        <4>1. Len(chan') = Len(chan) - 1 /\ Len(chan') \in Nat \ {0} BY <1>2, <3>1, <3>2, <3>5 DEF Store
        <4>2. chan'[Len(chan')] = chan[Len(chan)] BY <1>2, <3>1, <4>1 DEF Store
        <4>3. Coming = Settled(chan[Len(chan)]) BY <3>1 DEF Coming
        <4>4. Coming' = Settled(chan'[Len(chan')]) BY <3>5 DEF Coming
        <4> QED BY <3>3, <4>2, <4>3, <4>4
      <3> QED BY <3>3, <3>4, <3>5
    <2>2. CASE DelayOver BY <1>1, <1>2, <2>2 DEF DelayOver, Store, SavesQueues, Coming
    <2>3. CASE WriteQueue
      <3>1. /\ saver.pc = "writing" /\ disk' = Settled(saver.held) /\ saver' = [pc |-> "idle", held |-> None]
            /\ UNCHANGED <<chan, changed>>
        BY <2>3 DEF WriteQueue
      <3>2. disk' \in [Ids -> Statuses] /\ disk' = Settled(disk')
        BY <1>2, <3>1, SettledFacts DEF Store, SavesQueues
      <3>3. Store' BY <1>2, <3>1, <3>2 DEF Store, SavesQueues
      <3> QED BY <3>1, <3>3 DEF Coming
    <2> QED BY <2>1, <2>2, <2>3
  <1> QED BY <1>1, <1>2, <1>3, PartsNext DEF ComingIsLatest

LEMMA LeaveInv == ASSUME IInv, Leave PROVE IInv'
  <1>1. Plans /\ Store /\ Fits(status, job) /\ small \subseteq Ids BY Parts
  <1>2. left' \in [World -> Nat]
    <2>1. CASE UNCHANGED left BY <1>1, <2>1 DEF Plans
    <2>2. CASE Spend("exit") BY <2>2, SpendType DEF World
    <2> QED BY <2>1, <2>2 DEF Leave
  <1>3. Plans' BY <1>1, <1>2 DEF Leave, plan, Plans
  <1>4. StepFits BY <1>1, PauseJobsFits DEF Leave, StepFits
  <1>5. Store' /\ ComingIsLatest' BY <1>1 DEF Leave, store, Store, SavesQueues, ComingIsLatest
  <1> QED BY <1>3, <1>4, <1>5, PartsNext

(* How the tasks that ended by now left their downloads. *)
LEMMA DrainInv == ASSUME IInv, Drain PROVE IInv'
  <1>1. Plans /\ Store /\ Fits(status, job) /\ small \subseteq Ids BY Parts
  <1>2. /\ status' = [id \in Ids |-> IF job[id] \in Results THEN Finished(status[id], job[id]) ELSE status[id]]
        /\ job' = [id \in Ids |-> IF job[id] \in Results THEN "none" ELSE job[id]]
        /\ chan' = Append(chan, status') /\ app' = "saving"
        /\ UNCHANGED <<small, discarding, plan, settings, turn, changed, saver, disk, yours, left>>
    BY DEF Drain
  <1>3. Plans' BY <1>1, <1>2 DEF plan, Plans
  <1>4. StepFits
    <2>1. ASSUME NEW id \in Ids
          PROVE  \/ job'[id] = "none" /\ status'[id] \in Statuses \ ActiveStatuses
                 \/ job'[id] = job[id] /\ status'[id] = status[id]
      BY <1>2, FinishedStops
    <2>2. status' \in [Ids -> Statuses] /\ job' \in [Ids -> JobStates]
      <3>1. /\ status' = [id \in Ids |-> status'[id]] /\ job' = [id \in Ids |-> job'[id]] BY <1>2
      <3> QED BY <1>1, <2>1, <3>1 DEF Fits, JobStates
    <2>3. \A id \in Ids : job'[id] # "none" => job[id] # "none" BY <2>1
    <2> QED BY <1>1, <1>2, <2>1, <2>2, <2>3 DEF Fits, StepFits
  <1>5. Store' /\ ComingIsLatest'
    <2>1. status' \in [Ids -> Statuses] BY <1>4 DEF StepFits, Fits
    <2>2. /\ chan' \in Seq([Ids -> Statuses]) /\ chan' # <<>> /\ chan'[Len(chan')] = status'
      BY <1>1, <1>2, <2>1, AppendProperties DEF Store
    <2> QED BY <1>1, <1>2, <2>2 DEF Store, SavesQueues, ComingIsLatest, Coming
  <1> QED BY <1>3, <1>4, <1>5, PartsNext

(* After the window closes or dies, the queue is the file's, in which nothing is active. *)
LEMMA ClosedInv == ASSUME IInv, Closed, left' \in [World -> Nat] PROVE IInv'
  <1>1. Plans /\ Store BY Parts
  <1>2. Plans' BY <1>1 DEF Closed, Plans
  <1>3. StepFits
    <2>1. disk \in [Ids -> Statuses] /\ \A id \in Ids : disk[id] \notin ActiveStatuses
      BY <1>1, SettledFacts DEF Store, SavesQueues
    <2> QED BY <2>1 DEF Closed, StepFits, Fits, JobStates
  <1>4. Store'
    <2>1. /\ changed' = FALSE /\ chan' = <<>> /\ saver' = [pc |-> "idle", held |-> None] /\ disk' = disk
      BY DEF Closed
    <2>2. changed' \in BOOLEAN BY <2>1
    <2>3. chan' \in Seq([Ids -> Statuses]) BY <2>1, EmptySeq
    <2> QED BY <1>1, <2>1, <2>2, <2>3 DEF Store, SavesQueues
  <1>5. ComingIsLatest' BY <1>1 DEF Closed, Store, SavesQueues, ComingIsLatest, Coming
  <1> QED BY <1>2, <1>3, <1>4, <1>5, PartsNext

LEMMA OpenInv == ASSUME IInv, Open PROVE IInv'
  <1>1. Plans /\ Store /\ Fits(status, job) /\ small \subseteq Ids /\ ComingIsLatest BY Parts
  <1>2. Plans' /\ StepFits BY <1>1 DEF Open, queue, tasks, plan, Plans, StepFits
  <1>3. Store' /\ ComingIsLatest' BY <1>1 DEF Open, queue, store, Store, SavesQueues, ComingIsLatest, Coming
  <1> QED BY <1>2, <1>3, PartsNext

-----------------------------------------------------------------------------
LEMMA InitInv == Init => IInv
  <1> SUFFICES ASSUME Init PROVE IInv OBVIOUS
  <1>1. Plans BY WindowAssumption DEF Init, Plans, World
  <1>2. Fits(status, job) /\ small \subseteq Ids
    BY DEF Init, Fits, Statuses, ActiveStatuses, JobStates
  <1>3. Settled(status) = status
    BY DEF Init, Settled, SettledStatus
  <1>4. Store
    <2>1. /\ changed = FALSE /\ chan = <<>> /\ saver = [pc |-> "idle", held |-> None] /\ disk = status
      BY DEF Init
    <2>2. changed \in BOOLEAN BY <2>1
    <2>3. chan \in Seq([Ids -> Statuses]) BY <2>1, EmptySeq
    <2> QED BY <1>2, <1>3, <2>1, <2>2, <2>3 DEF Fits, Store, SavesQueues
  <1> QED BY <1>1, <1>2, <1>3, <1>4, Parts DEF Init, ComingIsLatest, Coming

LEMMA NextInv == IInv /\ [Next]_vars => IInv'
  <1> SUFFICES ASSUME IInv, [Next]_vars PROVE IInv' OBVIOUS
  <1>1. ASSUME UserAsks PROVE IInv'
    BY <1>1, StartsInv, StopsInv, PausesInv, PlansInv DEF UserAsks
  <1>2. CASE ScheduleStart \/ EventsDone \/ SchedulerDone BY <1>2, PlansInv
  <1>3. CASE ScheduleStop \/ StopRecordings BY <1>3, PausesInv
  <1>4. ASSUME NEW id \in Ids,
               ResumeNext(id) \/ StartQueued(id) \/ SnapshotSmall(id) \/ JobEnds(id) \/ JobFinished(id) \/ Discarded(id)
        PROVE  IInv'
    BY <1>4, SchedulerInv, JobEndsInv, JobFinishedInv, StopsInv
  <1>5. CASE FrameEnds BY <1>5, FrameEndsInv
  <1>6. CASE Collect \/ DelayOver \/ WriteQueue BY <1>6, SaverInv
  <1>7. CASE Leave \/ Drain BY <1>7, LeaveInv, DrainInv
  <1>8. CASE Exit \/ Crash
    <2>1. left' \in [World -> Nat] BY <1>8, Parts, SpendType DEF Exit, Crash, Plans, World
    <2> QED BY <1>8, <2>1, ClosedInv DEF Exit, Crash
  <1>9. CASE Open BY <1>9, OpenInv
  <1>10. CASE UNCHANGED vars
    <2>1. Plans /\ Fits(status, job) /\ small \subseteq Ids BY Parts
    <2>2. Plans' /\ StepFits BY <1>10, <2>1 DEF vars, queue, tasks, plan, Plans, StepFits
    <2> QED BY <1>10, <2>2, PartsNext, NothingChanges DEF vars, queue, store
  <1> QED BY <1>1, <1>2, <1>3, <1>4, <1>5, <1>6, <1>7, <1>8, <1>9, <1>10 DEF Next

LEMMA Invariance == Spec => []IInv
  BY InitInv, NextInv, PTL DEF Spec

(* A download is active exactly while its engine runs or the event of its end is on its way, and two   *)
(* engines never fetch one file, whoever starts them (queue.rs: active_conflict, mark_started, finish; *)
(* main.rs: start_job, JobFinished, on_exit).                                                          *)
THEOREM AlwaysOneEngineEach == Spec => []OneEngineEach
  BY Invariance, PTL DEF IInv

(* Once the saver has nothing left to write, the file is the queue as it is, or, at exit, as the        *)
(* downloads that ended in time left it (queue_store.rs: Saver; main.rs: update, on_exit).              *)
THEOREM AlwaysSavedIsLatest == Spec => []SavedIsLatest
  <1>1. IInv => SavedIsLatest BY DEF IInv, ComingIsLatest, Coming, SavedIsLatest
  <1> QED BY <1>1, Invariance, PTL

-----------------------------------------------------------------------------
(* How a task's end is told. *)

Said == \A id \in Ids : job[id] = "ok" /\ job'[id] = "none" /\ app' # "closed" => status'[id] = "completed"

(* Starting and pausing take no task's end away. *)
LEMMA StartJobEndsNone ==
  ASSUME NEW s, NEW j \in [Ids -> JobStates], NEW id \in Ids, NEW other \in Ids,
         StartJob(s, j, id), j[other] # "none"
  PROVE  job'[other] # "none"
  BY DEF StartJob

LEMMA PauseJobsEndsNone ==
  ASSUME NEW set, NEW other \in Ids, PauseJobs(set), job[other] # "none" PROVE job'[other] # "none"
  <1>1. job'[other] \in {"asked", job[other]} BY DEF PauseJobs
  <1> QED BY <1>1

LEMMA JobFinishedSays == ASSUME IInv, NEW id \in Ids, JobFinished(id) PROVE Said
  <1> DEFINE ended == [status EXCEPT ![id] = Finished(status[id], job[id])]
             idle == [job EXCEPT ![id] = "none"]
  <1>1. StartJob(ended, idle, id) \/ (status' = ended /\ job' = idle) BY DEF JobFinished
  <1>2. status \in [Ids -> Statuses] /\ job \in [Ids -> JobStates] BY Parts DEF Fits
  <1>3. ASSUME NEW other \in Ids \ {id}, job[other] = "ok", job'[other] = "none" PROVE FALSE
    <2>1. idle \in [Ids -> JobStates] /\ idle[other] = "ok" BY <1>2, <1>3 DEF JobStates
    <2>2. CASE status' = ended /\ job' = idle BY <1>3, <2>1, <2>2
    <2>3. CASE StartJob(ended, idle, id)
      <3> HIDE DEF ended, idle
      <3> QED BY <1>3, <2>1, <2>3, StartJobEndsNone
    <2> QED BY <1>1, <2>2, <2>3
  <1>4. ASSUME job[id] = "ok", job'[id] = "none" PROVE status'[id] = "completed"
    <2>1. ended[id] = "completed" BY <1>2, <1>4 DEF Finished
    <2>2. idle[id] = "none" /\ idle \in [Ids -> JobStates] BY <1>2 DEF JobStates
    <2>3. CASE StartJob(ended, idle, id)
      <3> HIDE DEF ended, idle
      <3>1. CASE Starts(ended, id) BY <1>4, <2>2, <2>3, <3>1 DEF StartJob
      <3>2. CASE ~Starts(ended, id) BY <2>1, <2>3, <3>2 DEF StartJob
      <3> QED BY <3>1, <3>2
    <2> QED BY <1>1, <2>1, <2>3
  <1> QED BY <1>3, <1>4 DEF Said

(* A download that ended whole is completed, though it was being paused, or the window was closing, as  *)
(* it ended; only a process that dies loses how its downloads ended (queue.rs: finish).                 *)
THEOREM AlwaysDoneIsSaid == Spec => DoneIsSaid
  <1>1. IInv /\ [Next]_vars => [Said]_vars
    <2> SUFFICES ASSUME IInv, Next PROVE Said OBVIOUS
    <2>1. job \in [Ids -> JobStates] BY Parts DEF Fits
    <2>2. ASSUME UNCHANGED job PROVE Said BY <2>2 DEF Said
    <2>3. ASSUME \E s : \E id \in Ids : StartJob(s, job, id) PROVE Said BY <2>1, <2>3, StartJobEndsNone DEF Said
    <2>4. ASSUME \E set : PauseJobs(set) PROVE Said BY <2>4, PauseJobsEndsNone DEF Said
    <2>5. ASSUME UserAsks PROVE Said
      <3>1. CASE \E id \in Ids : AddItem(id) \/ RemoveJob(id) \/ DiscardJob(id)
        BY <2>2, <3>1 DEF AddItem, RemoveJob, DiscardJob, tasks
      <3>2. CASE \E id \in Ids : Start(id) \/ ResumeWithAuth(id) \/ Relinked(id)
        BY <2>3, <3>2 DEF Start, ResumeWithAuth, Relinked
      <3>3. CASE (\E id \in Ids : PauseJob(id) \/ RestartWith(id)) \/ PauseAll
        BY <2>4, <3>3 DEF PauseJob, RestartWith, PauseAll
      <3>4. CASE ResumeAll \/ StartOrStopQueue BY <2>2, <3>4 DEF ResumeAll, StartOrStopQueue, tasks
      <3> QED BY <2>5, <3>1, <3>2, <3>3, <3>4 DEF UserAsks
    <2>6. CASE ScheduleStop \/ StopRecordings \/ Leave BY <2>4, <2>6 DEF ScheduleStop, StopRecordings, Leave
    <2>7. CASE ScheduleStart \/ EventsDone \/ SchedulerDone \/ FrameEnds \/ Collect \/ DelayOver \/ WriteQueue \/ Open
      BY <2>2, <2>7 DEF ScheduleStart, EventsDone, SchedulerDone, FrameEnds, Collect, DelayOver, WriteQueue, Open, tasks
    <2>8. ASSUME NEW id \in Ids, ResumeNext(id) \/ StartQueued(id) PROVE Said
      BY <2>2, <2>3, <2>8 DEF ResumeNext, StartQueued
    <2>9. ASSUME NEW id \in Ids, SnapshotSmall(id) \/ Discarded(id) PROVE Said
      BY <2>2, <2>9 DEF SnapshotSmall, Discarded, tasks
    <2>10. ASSUME NEW id \in Ids, JobEnds(id) PROVE Said BY <2>1, <2>10 DEF JobEnds, Results, Said
    <2>11. CASE Drain BY <2>11 DEF Drain, Results, Finished, Said
    <2>12. CASE Exit \/ Crash BY <2>12 DEF Exit, Crash, Closed, Said
    <2> QED BY <2>5, <2>6, <2>7, <2>8, <2>9, <2>10, <2>11, <2>12, JobFinishedSays DEF Next
  <1> QED BY <1>1, Invariance, PTL DEF Spec, DoneIsSaid, Said

-----------------------------------------------------------------------------
(***************************************************************************)
(* Buffer recordings, for any number of documents and of chunks of each,   *)
(* and any number of stops, lost calls, restarts of the app and ends of    *)
(* the background (Recording).                                             *)
(*                                                                         *)
(* A document's chunks are in line: those the app has or was asked to      *)
(* take, those in the background's queue, those on their way to it, those  *)
(* in the page's bridge, each run after the other without a gap, though    *)
(* messages of different documents overtake each other.  So what comes     *)
(* next to a recording is the chunk after its last, and is nowhere yet.    *)
(***************************************************************************)
CONSTANTS Documents, Length, Trials
VARIABLES doc, recorded, capturing, open, relayed, channel, navigated, tab, after, capture, queued, step, rec, stored, timers,
          recording, posts, killed, counted, trials

R == INSTANCE Recording WITH tasks <- queued, left <- trials, Budgets <- Trials

Docs == 1 .. Documents
Counts == [Docs -> Nat]

(* What is said between page, background and app. *)
ChunkMsgs == [cmd : {"chunk"}, of : R!Chunks]
Sent == ChunkMsgs \cup {R!Finish}
ActiveMsg == [cmd |-> "active", of |-> None]
Queued == Sent \cup [cmd : {"close"}, of : R!Chunks]
Posts == [id : R!Chunks, do : {"chunk"}, of : R!Chunks] \cup [id : R!Chunks, do : {"finish", "abort"}, of : {None}]
OpenRecs == [app : R!Chunks \cup {None}, doc : Docs, first : R!Chunks, some : BOOLEAN]
Pieces == R!Chunks \cup {<<c[1], c[2], "torn">> : c \in R!Chunks}
AppRecordings == [at : {"none", "open", "left", "finished", "aborted"}, content : Seq(Pieces)]

(* There is a document, and nothing is told apart from what there may be. *)
Documented ==
  /\ Documents \in Nat \ {0} /\ Length \in [Docs -> Nat]
  /\ None \notin Docs /\ None \notin R!Chunks /\ None \notin OpenRecs

(* A document speaks of its own chunks. *)
Says(d) == {m \in Sent \cup {ActiveMsg} : m.cmd = "chunk" => m.of[1] = d}

(* TypeOK, with what each queue may hold. *)
TypedRecording ==
  /\ doc \in Docs /\ recorded \in 0 .. Length[doc]
  /\ capturing \in BOOLEAN /\ open \in BOOLEAN /\ navigated \in BOOLEAN /\ killed \in BOOLEAN
  /\ relayed \in Seq(Sent) /\ channel \in [Docs -> Seq(Sent \cup {ActiveMsg})] /\ queued \in Seq(Queued)
  /\ \A d \in Docs : channel[d] \in Seq(Says(d))
  /\ tab \in Seq(R!TabTasks) /\ after \subseteq R!TabTasks /\ capture \in Docs \cup {None}
  /\ step \in [at : {"idle", "asking", "closing", "starting", "calling"}, id : R!Chunks \cup {None}]
  /\ rec \in OpenRecs \cup {None} /\ stored \in OpenRecs \cup {None}
  /\ timers \subseteq R!Chunks /\ counted \subseteq R!Chunks
  /\ recording \in [R!Chunks -> AppRecordings] /\ posts \subseteq Posts

(* The page says the end last, and its bridge has the recording as long as it has something of it to relay. *)
PageInOrder ==
  /\ \A i \in DOMAIN relayed : relayed[i].cmd = "chunk" => relayed[i].of[1] = doc
  /\ \A i \in DOMAIN relayed : relayed[i] = R!Finish => i = Len(relayed) /\ ~capturing
  /\ relayed # <<>> => open
  /\ capturing /\ recorded > 0 => open

HasApp == rec # None /\ rec.app # None

(* What the background knows of a recording in each phase of a task. *)
InPhase ==
  /\ step.at # "idle" => queued # <<>>
  /\ step.at \in {"asking", "starting", "calling"} => Head(queued).cmd = "chunk"
  /\ step.at \in {"asking", "closing"} => rec = None
  /\ step.at = "starting" => rec = [app |-> None, doc |-> Head(queued).of[1], first |-> Head(queued).of, some |-> FALSE]
  /\ step.at = "calling" => HasApp /\ rec.app = step.id /\ rec.doc = Head(queued).of[1]
  /\ step.at = "closing" => step.id \in R!Chunks /\ recording[step.id].at # "none"
  /\ stored = IF step.at = "starting" THEN None ELSE rec
  /\ rec # None => rec.first[1] = rec.doc
  /\ HasApp => rec.app = rec.first /\ recording[rec.app].at # "none"

(* One task of the tab is what a chunk's task waits for. *)
Reading ==
  /\ \A i \in DOMAIN tab : tab[i].do = "read" => step.at = "asking"
  /\ \A i, j \in DOMAIN tab : tab[i].do = "read" /\ tab[j].do = "read" => i = j

(* A document's chunks in a queue are the ones after a, up to b, in order. *)
Is(m, d) == m.cmd = "chunk" /\ m.of[1] = d
Line(q, d, a, b) ==
  /\ a <= b
  /\ \A i \in DOMAIN q : Is(q[i], d) => a < q[i].of[2] /\ q[i].of[2] <= b
  /\ \A n \in (a + 1) .. b : \E i \in DOMAIN q : Is(q[i], d) /\ q[i].of[2] = n
  /\ \A i, j \in DOMAIN q : i < j /\ Is(q[i], d) /\ Is(q[j], d) => q[i].of[2] < q[j].of[2]

InLine(lo, mid, top) ==
  /\ \A d \in Docs : /\ Line(queued, d, lo[d], mid[d]) /\ Line(channel[d], d, mid[d], top[d])
                     /\ d > doc => lo[d] = 0 /\ mid[d] = 0 /\ top[d] = 0
  /\ Line(relayed, doc, top[doc], recorded)

(* What came through the background is behind what is still in line. *)
Behind(lo) ==
  /\ \A c \in R!Chunks : \A i \in DOMAIN recording[c].content :
       recording[c].content[i][2] <= lo[recording[c].content[i][1]]
  /\ \A c \in R!Chunks : recording[c].at # "none" =>
       c[2] <= lo[c[1]] \/ (step.at = "calling" /\ step.id = c /\ Head(queued).of = c)
  /\ \A p \in posts : p.do = "chunk" => p.of[2] <= lo[p.of[1]]
  /\ \A c \in counted : c[2] <= lo[c[1]]

Grows(c) == (HasApp /\ rec.app = c) \/ (\E p \in posts : p.do = "chunk" /\ p.id = c)

(* While the background lives, a recording that may still grow is whole, and goes on with the next chunk. *)
Filled(lo) ==
  ~killed =>
    /\ HasApp => rec.first[2] + Len(recording[rec.app].content) = lo[rec.doc] + 1 /\ \A p \in posts : p.id # rec.app
    /\ \A p \in posts : p.do = "chunk" => p.of = <<p.id[1], p.id[2] + Len(recording[p.id].content)>>
    /\ \A p, q \in posts : p.do = "chunk" /\ q.do = "chunk" /\ p.id = q.id => p = q
    /\ R!Unbroken
    /\ \A c \in R!Chunks : Grows(c) => \A i \in DOMAIN recording[c].content : recording[c].content[i] = R!Whole(recording[c].content[i])

Lined == \E lo, mid, top \in Counts : InLine(lo, mid, top) /\ Behind(lo) /\ Filled(lo)

(* A chunk is in one recording, once, or on its way to one, or neither. *)
Placed ==
  /\ R!OnceOnly
  /\ \A p \in posts : recording[p.id].at # "none"
  /\ \A p \in posts : p.do = "chunk" => \A c \in R!Chunks : \A i \in DOMAIN recording[c].content :
       R!Whole(recording[c].content[i]) # p.of
  /\ \A p, q \in posts : p.do = "chunk" /\ q.do = "chunk" /\ p.of = q.of => p = q

Uncounted(c) == \A i \in DOMAIN recording[c].content : recording[c].content[i] \notin counted

(* What is thrown away, or is to be, has nothing of what the app said it has. *)
Kept ==
  /\ \A c \in R!Chunks : recording[c].at = "aborted" => Uncounted(c)
  /\ \A p \in posts : p.do = "abort" => Uncounted(p.id) /\ (rec # None => rec.app # p.id)
  /\ \A p \in posts : p.do = "chunk" => p.of \notin counted
  /\ HasApp /\ ~rec.some => Uncounted(rec.app)

RecordInv == TypedRecording /\ PageInOrder /\ InPhase /\ Reading /\ Lined /\ Placed /\ Kept /\ R!ClosedOnceRevoked

Msgs == Queued \cup {ActiveMsg}

-----------------------------------------------------------------------------
(* Chunks and messages. *)
LEMMA ChunkIs == ASSUME Documented, NEW c \in R!Chunks
                 PROVE  /\ c[1] \in Docs /\ c[2] \in Nat /\ c[2] > 0 /\ c[2] <= Length[c[1]]
                        /\ c = <<c[1], c[2]>> /\ R!Whole(c) = c
  <1>1. PICK d \in Docs : c \in {d} \X (1 .. Length[d]) BY DEF R!Chunks, Docs
  <1>2. Length[d] \in Nat BY DEF Documented
  <1> QED BY <1>1, <1>2 DEF R!Whole, Docs

LEMMA IsChunk == ASSUME Documented, NEW d \in Docs, NEW n \in Nat, n > 0, n <= Length[d] PROVE <<d, n>> \in R!Chunks
  <1>1. Length[d] \in Nat BY DEF Documented
  <1>2. <<d, n>> \in {d} \X (1 .. Length[d]) BY <1>1
  <1> QED BY <1>2 DEF R!Chunks, Docs

LEMMA MsgIs == ASSUME Documented, NEW m \in Msgs
               PROVE  /\ m.cmd = "chunk" => m.of \in R!Chunks /\ m.of[1] \in Docs /\ m.of[2] \in Nat /\ m.of[2] > 0
                      /\ m.cmd \in {"chunk", "finish", "close", "active"}
                      /\ m.cmd = "chunk" => m \in ChunkMsgs /\ m = [cmd |-> "chunk", of |-> m.of]
  <1>1. m.cmd = "chunk" => m \in ChunkMsgs BY DEF Msgs, Queued, Sent, ActiveMsg, R!Finish, ChunkMsgs
  <1>2. ASSUME m.cmd = "chunk" PROVE m.of \in R!Chunks /\ m = [cmd |-> "chunk", of |-> m.of] BY <1>1, <1>2 DEF ChunkMsgs
  <1>3. m.cmd \in {"chunk", "finish", "close", "active"} BY DEF Msgs, Queued, Sent, ActiveMsg, R!Finish, ChunkMsgs
  <1> QED BY <1>1, <1>2, <1>3, ChunkIs

LEMMA InMsgs == Sent \subseteq Msgs /\ Queued \subseteq Msgs /\ Sent \subseteq Queued /\ Sent \cup {ActiveMsg} \subseteq Msgs
  BY DEF Msgs, Queued

LEMMA WiderSeq == ASSUME NEW S, NEW T, S \subseteq T, NEW q \in Seq(S) PROVE q \in Seq(T)
  OBVIOUS

-----------------------------------------------------------------------------
(* A queue's chunks when it is extended and when its head is taken. *)
LEMMA LineEmpty == ASSUME NEW d, NEW a \in Nat PROVE Line(<<>>, d, a, a)
  BY DEF Line

LEMMA LineNext == ASSUME Documented, NEW q \in Seq(Msgs), NEW d \in Docs, NEW a \in Nat, NEW b \in Nat, Line(q, d, a, b),
                         NEW m \in Msgs, Is(m, d), m.of[2] = b + 1
                  PROVE  Line(Append(q, m), d, a, b + 1)
  <1> DEFINE r == Append(q, m)
  <1>1. /\ Len(q) \in Nat /\ DOMAIN q = 1 .. Len(q) /\ Len(r) = Len(q) + 1 /\ DOMAIN r = 1 .. (Len(q) + 1)
        /\ r[Len(q) + 1] = m /\ \A i \in DOMAIN q : r[i] = q[i]
    BY AppendProperties
  <1>2. \A i \in DOMAIN q : Is(q[i], d) => q[i].of[2] \in Nat
    <2> TAKE i \in DOMAIN q
    <2> q[i] \in Msgs OBVIOUS
    <2> QED BY MsgIs DEF Is
  <1> HIDE DEF r
  <1>3. \A i \in DOMAIN r : i \in DOMAIN q \/ i = Len(q) + 1 BY <1>1
  <1>4. \A i \in DOMAIN r : Is(r[i], d) => a < r[i].of[2] /\ r[i].of[2] <= b + 1 BY <1>1, <1>2, <1>3 DEF Line
  <1>5. \A n \in (a + 1) .. (b + 1) : \E i \in DOMAIN r : Is(r[i], d) /\ r[i].of[2] = n
    <2> TAKE n \in (a + 1) .. (b + 1)
    <2>1. CASE n = b + 1 BY <1>1, <2>1
    <2>2. CASE n # b + 1
      <3>1. PICK i \in DOMAIN q : Is(q[i], d) /\ q[i].of[2] = n BY <2>2 DEF Line
      <3> QED BY <1>1, <3>1
    <2> QED BY <2>1, <2>2
  <1>6. ASSUME NEW i \in DOMAIN r, NEW j \in DOMAIN r, i < j, Is(r[i], d), Is(r[j], d) PROVE r[i].of[2] < r[j].of[2]
    <2>1. i \in DOMAIN q BY <1>1, <1>6
    <2>2. CASE j \in DOMAIN q BY <1>1, <1>6, <2>1, <2>2 DEF Line
    <2>3. CASE j = Len(q) + 1
      <3>1. r[i] = q[i] /\ r[j] = m BY <1>1, <2>1, <2>3
      <3>2. q[i].of[2] \in Nat /\ q[i].of[2] <= b BY <1>2, <1>6, <2>1, <3>1 DEF Line
      <3> QED BY <3>1, <3>2
    <2> QED BY <1>3, <2>2, <2>3
  <1>7. a <= b + 1 BY DEF Line
  <1> QED BY <1>4, <1>5, <1>6, <1>7 DEF Line, r

LEMMA LineOther == ASSUME Documented, NEW q \in Seq(Msgs), NEW d, NEW a \in Nat, NEW b \in Nat, Line(q, d, a, b),
                          NEW m, ~Is(m, d)
                   PROVE  Line(Append(q, m), d, a, b)
  <1> DEFINE r == Append(q, m)
  <1>1. /\ Len(q) \in Nat /\ DOMAIN q = 1 .. Len(q) /\ DOMAIN r = 1 .. (Len(q) + 1)
        /\ r[Len(q) + 1] = m /\ \A i \in DOMAIN q : r[i] = q[i]
    <2>1. q \in Seq(Msgs \cup {m}) BY WiderSeq
    <2> QED BY <2>1, AppendProperties
  <1> HIDE DEF r
  <1>2. \A i \in DOMAIN r : Is(r[i], d) => i \in DOMAIN q BY <1>1
  <1>3. \A i \in DOMAIN q : i \in DOMAIN r BY <1>1
  <1> QED BY <1>1, <1>2, <1>3 DEF Line, r

LEMMA TailIs == ASSUME NEW S, NEW q \in Seq(S), q # <<>>
                PROVE  /\ Tail(q) \in Seq(S) /\ Head(q) = q[1] /\ Head(q) \in S /\ Len(q) \in Nat /\ Len(q) > 0 /\ Len(Tail(q)) = Len(q) - 1
                       /\ DOMAIN q = 1 .. Len(q) /\ DOMAIN Tail(q) = 1 .. (Len(q) - 1)
                       /\ \A i \in DOMAIN Tail(q) : i + 1 \in DOMAIN q /\ Tail(q)[i] = q[i + 1]
                       /\ \A i \in DOMAIN q : i # 1 => i - 1 \in DOMAIN Tail(q) /\ Tail(q)[i - 1] = q[i]
  <1> DEFINE r == Tail(q)
  <1>1. /\ r \in Seq(S) /\ Head(q) = q[1] /\ q[1] \in S /\ Len(q) \in Nat /\ Len(q) > 0 /\ Len(r) = Len(q) - 1
        /\ \A i \in 1 .. Len(r) : r[i] = q[i + 1]
    BY HeadTailProperties, EmptySeq
  <1>2. DOMAIN q = 1 .. Len(q) /\ DOMAIN r = 1 .. Len(r) BY <1>1
  <1> HIDE DEF r
  <1>3. DOMAIN r = 1 .. (Len(q) - 1) BY <1>1, <1>2
  <1>4. \A i \in DOMAIN r : i + 1 \in DOMAIN q /\ r[i] = q[i + 1] BY <1>1, <1>2, <1>3
  <1>5. ASSUME NEW i \in DOMAIN q, i # 1 PROVE i - 1 \in DOMAIN r /\ r[i - 1] = q[i]
    <2>1. i \in Int /\ i > 1 /\ i <= Len(q) BY <1>1, <1>2, <1>5
    <2>2. i - 1 \in DOMAIN r BY <1>1, <1>3, <2>1
    <2>3. r[i - 1] = q[(i - 1) + 1] BY <1>4, <2>2
    <2> QED BY <2>1, <2>2, <2>3
  <1> QED BY <1>1, <1>2, <1>3, <1>4, <1>5 DEF r

LEMMA LineTail == ASSUME Documented, NEW q \in Seq(Msgs), q # <<>>, NEW d, NEW a \in Nat, NEW b \in Nat, Line(q, d, a, b),
                         ~Is(Head(q), d)
                  PROVE  Line(Tail(q), d, a, b)
  <1> DEFINE r == Tail(q)
  <1>1. /\ \A i \in DOMAIN r : i + 1 \in DOMAIN q /\ r[i] = q[i + 1] /\ i \in Int
        /\ \A i \in DOMAIN q : i # 1 => i - 1 \in DOMAIN r /\ r[i - 1] = q[i]
        /\ ~Is(q[1], d)
    BY TailIs
  <1> HIDE DEF r
  <1>2. \A i \in DOMAIN r : Is(r[i], d) => a < r[i].of[2] /\ r[i].of[2] <= b BY <1>1 DEF Line
  <1>3. \A n \in (a + 1) .. b : \E i \in DOMAIN r : Is(r[i], d) /\ r[i].of[2] = n
    <2> TAKE n \in (a + 1) .. b
    <2>1. PICK i \in DOMAIN q : Is(q[i], d) /\ q[i].of[2] = n BY DEF Line
    <2>2. i # 1 BY <1>1, <2>1
    <2> QED BY <1>1, <2>1, <2>2
  <1>4. \A i, j \in DOMAIN r : i < j /\ Is(r[i], d) /\ Is(r[j], d) => r[i].of[2] < r[j].of[2]
    <2> TAKE i, j \in DOMAIN r
    <2>1. i < j => i + 1 < j + 1 BY <1>1
    <2> QED BY <1>1, <2>1 DEF Line
  <1> QED BY <1>2, <1>3, <1>4 DEF Line, r

LEMMA LineHead == ASSUME Documented, NEW q \in Seq(Msgs), q # <<>>, NEW d \in Docs, NEW a \in Nat, NEW b \in Nat, Line(q, d, a, b),
                         Is(Head(q), d)
                  PROVE  Head(q).of[2] = a + 1 /\ Line(Tail(q), d, a + 1, b)
  <1> DEFINE r == Tail(q)
  <1>1. /\ \A i \in DOMAIN r : i + 1 \in DOMAIN q /\ r[i] = q[i + 1] /\ i \in Int /\ i > 0
        /\ \A i \in DOMAIN q : i # 1 => i - 1 \in DOMAIN r /\ r[i - 1] = q[i] /\ 1 < i
        /\ Head(q) = q[1] /\ 1 \in DOMAIN q
    BY TailIs
  <1>2. \A i \in DOMAIN q : Is(q[i], d) => q[i].of[2] \in Nat
    <2> TAKE i \in DOMAIN q
    <2> q[i] \in Msgs OBVIOUS
    <2> QED BY MsgIs DEF Is
  <1> HIDE DEF r
  <1>3. /\ a <= b /\ \A i \in DOMAIN q : Is(q[i], d) => a < q[i].of[2] /\ q[i].of[2] <= b
        /\ \A n \in (a + 1) .. b : \E i \in DOMAIN q : Is(q[i], d) /\ q[i].of[2] = n
        /\ \A i, j \in DOMAIN q : i < j /\ Is(q[i], d) /\ Is(q[j], d) => q[i].of[2] < q[j].of[2]
    BY DEF Line
  <1>4. q[1].of[2] = a + 1
    <2>1. a < q[1].of[2] /\ q[1].of[2] <= b /\ q[1].of[2] \in Nat BY <1>1, <1>2, <1>3
    <2>2. a + 1 \in (a + 1) .. b BY <2>1
    <2>3. PICK i \in DOMAIN q : Is(q[i], d) /\ q[i].of[2] = a + 1 BY <1>3, <2>2
    <2>4. CASE i = 1 BY <2>3, <2>4
    <2>5. CASE i # 1
      <3>1. q[1].of[2] < a + 1 BY <1>1, <1>3, <2>3, <2>5
      <3> QED BY <2>1, <3>1
    <2> QED BY <2>4, <2>5
  <1>5. a + 1 <= b BY <1>1, <1>3, <1>4
  <1>6. ASSUME NEW i \in DOMAIN r, Is(r[i], d) PROVE a + 1 < r[i].of[2] /\ r[i].of[2] <= b
    <2>1. i + 1 \in DOMAIN q /\ 1 < i + 1 /\ r[i] = q[i + 1] BY <1>1
    <2>2. q[1].of[2] < q[i + 1].of[2] BY <1>1, <1>3, <1>6, <2>1
    <2> QED BY <1>3, <1>4, <1>6, <2>1, <2>2
  <1>7. \A n \in (a + 2) .. b : \E i \in DOMAIN r : Is(r[i], d) /\ r[i].of[2] = n
    <2> TAKE n \in (a + 2) .. b
    <2>1. PICK i \in DOMAIN q : Is(q[i], d) /\ q[i].of[2] = n BY <1>3
    <2>2. i # 1 BY <1>4, <2>1
    <2> QED BY <1>1, <2>1, <2>2
  <1>8. \A i, j \in DOMAIN r : i < j /\ Is(r[i], d) /\ Is(r[j], d) => r[i].of[2] < r[j].of[2]
    <2> TAKE i, j \in DOMAIN r
    <2>1. i < j => i + 1 < j + 1 BY <1>1
    <2> QED BY <1>1, <1>3, <2>1
  <1>9. \A n \in ((a + 1) + 1) .. b : \E i \in DOMAIN r : Is(r[i], d) /\ r[i].of[2] = n
    <2>1. (a + 1) + 1 = a + 2 OBVIOUS
    <2> QED BY <1>7, <2>1
  <1>10. Line(r, d, a + 1, b) BY <1>5, <1>6, <1>8, <1>9 DEF Line
  <1> QED BY <1>1, <1>4, <1>10 DEF r

-----------------------------------------------------------------------------
(* What a step leaves alone stays in order. *)
AppSame == UNCHANGED <<rec, stored, step, recording, posts, counted, killed>>
HeadStays == queued # <<>> => queued' # <<>> /\ Head(queued') = Head(queued)

LEMMA AppStays ==
  ASSUME AppSame, HeadStays, InPhase, Placed, Kept
  PROVE  InPhase' /\ Placed' /\ Kept' /\ \A lo \in Counts : Behind(lo) /\ Filled(lo) => Behind(lo)' /\ Filled(lo)'
  <1>1. /\ rec' = rec /\ stored' = stored /\ step' = step /\ recording' = recording /\ posts' = posts /\ counted' = counted
        /\ killed' = killed
    BY DEF AppSame
  <1>2. HasApp' <=> HasApp BY <1>1 DEF HasApp
  <1>3. step.at # "idle" => queued' # <<>> /\ Head(queued') = Head(queued) BY DEF HeadStays, InPhase
  <1>4. InPhase' BY <1>1, <1>2, <1>3 DEF InPhase
  <1>5. R!OnceOnly' <=> R!OnceOnly BY <1>1 DEF R!OnceOnly
  <1>6. Placed' BY <1>1, <1>5 DEF Placed
  <1>7. \A c : Uncounted(c)' <=> Uncounted(c) BY <1>1 DEF Uncounted
  <1>8. Kept' BY <1>1, <1>2, <1>7 DEF Kept
  <1>9. R!Unbroken' <=> R!Unbroken BY <1>1 DEF R!Unbroken
  <1>10. \A c : Grows(c)' <=> Grows(c) BY <1>1, <1>2 DEF Grows
  <1>11. ASSUME NEW lo \in Counts, Behind(lo), Filled(lo) PROVE Behind(lo)' /\ Filled(lo)'
    <2>1. Behind(lo)' BY <1>1, <1>3, <1>11 DEF Behind
    <2>2. Filled(lo)' BY <1>1, <1>2, <1>9, <1>10, <1>11 DEF Filled
    <2> QED BY <2>1, <2>2
  <1> QED BY <1>4, <1>6, <1>8, <1>11

LEMMA ReadingStays == ASSUME Reading, tab' = tab, step' = step PROVE Reading' BY DEF Reading

LEMMA PageStays == ASSUME PageInOrder, UNCHANGED <<doc, relayed, capturing, open, recorded>> PROVE PageInOrder'
  BY DEF PageInOrder

(* What will close a recording still does when only tasks come. *)
LEMMA ClosedStays ==
  ASSUME R!ClosedOnceRevoked, UNCHANGED <<killed, rec, capture, after, timers>>,
         \A i \in 1 .. Len(queued) : queued[i].cmd # "chunk" => \E j \in 1 .. Len(queued') : queued'[j] = queued[i],
         TypedRecording
  PROVE  R!ClosedOnceRevoked'
  <1>1. killed' = killed /\ rec' = rec /\ capture' = capture /\ after' = after /\ timers' = timers OBVIOUS
  <1> SUFFICES ASSUME ~killed, rec # None, rec.doc # capture
               PROVE  \/ \E a \in after : a.do = "revoke" \/ a.to # rec.doc
                      \/ rec.first \in timers
                      \/ \E i \in 1 .. Len(queued') : queued'[i].cmd = "finish" \/ queued'[i] = [cmd |-> "close", of |-> rec.first]
    BY <1>1 DEF R!ClosedOnceRevoked
  <1>2. CASE \E i \in 1 .. Len(queued) : queued[i].cmd = "finish" \/ queued[i] = [cmd |-> "close", of |-> rec.first]
    <2>1. PICK i \in 1 .. Len(queued) : queued[i].cmd = "finish" \/ queued[i] = [cmd |-> "close", of |-> rec.first] BY <1>2
    <2>2. queued[i].cmd # "chunk" BY <2>1
    <2>3. PICK j \in 1 .. Len(queued') : queued'[j] = queued[i] BY <2>2
    <2> QED BY <2>1, <2>3
  <1> QED BY <1>2 DEF R!ClosedOnceRevoked

LEMMA OneUp == ASSUME NEW f \in Counts, NEW d \in Docs
               PROVE  \E g \in Counts : g[d] = f[d] + 1 /\ \A e \in Docs : e # d => g[e] = f[e]
  <1> DEFINE g == [f EXCEPT ![d] = @ + 1]
  <1>1. g \in Counts /\ g[d] = f[d] + 1 /\ \A e \in Docs : e # d => g[e] = f[e] BY DEF Counts
  <1> QED BY <1>1

(* A task more. *)
LEMMA OneMore ==
  ASSUME Documented, queued \in Seq(Queued), NEW m \in Queued, queued' = Append(queued, m)
  PROVE  /\ queued' \in Seq(Queued) /\ HeadStays
         /\ \A i \in 1 .. Len(queued) : \E j \in 1 .. Len(queued') : queued'[j] = queued[i]
         /\ \E j \in 1 .. Len(queued') : queued'[j] = m
  <1>1. /\ queued' \in Seq(Queued) /\ Len(queued) \in Nat /\ Len(queued') = Len(queued) + 1
        /\ \A i \in 1 .. Len(queued) : queued'[i] = queued[i]
        /\ queued'[Len(queued) + 1] = m
    BY AppendProperties
  <1>2. queued' # <<>> BY <1>1, EmptySeq
  <1>3. queued # <<>> => Head(queued') = Head(queued)
    <2> HAVE queued # <<>>
    <2>1. Head(queued) = queued[1] /\ 1 \in 1 .. Len(queued) BY TailIs, EmptySeq
    <2>2. Head(queued') = queued'[1] BY <1>1, <1>2, TailIs
    <2> QED BY <1>1, <2>1, <2>2
  <1>4. 1 .. Len(queued) \subseteq 1 .. Len(queued') /\ Len(queued) + 1 \in 1 .. Len(queued') BY <1>1
  <1> QED BY <1>1, <1>2, <1>3, <1>4 DEF HeadStays

(* The line is as it was when no chunk comes. *)
LEMMA NoneInLine ==
  ASSUME Documented, TypedRecording, NEW m, m.cmd # "chunk", queued' = Append(queued, m),
         UNCHANGED <<channel, doc, relayed, recorded>>,
         NEW lo \in Counts, NEW mid \in Counts, NEW top \in Counts, InLine(lo, mid, top)
  PROVE  InLine(lo, mid, top)'
  <1>1. queued \in Seq(Msgs) BY InMsgs, WiderSeq DEF TypedRecording
  <1>2. \A d \in Docs : Line(queued', d, lo[d], mid[d])
    <2> TAKE d \in Docs
    <2>1. lo[d] \in Nat /\ mid[d] \in Nat BY DEF Counts
    <2>2. Line(queued, d, lo[d], mid[d]) /\ ~Is(m, d) BY DEF InLine, Is
    <2> QED BY <1>1, <2>1, <2>2, LineOther
  <1> QED BY <1>2 DEF InLine

-----------------------------------------------------------------------------
(* The page. *)
PageOnly == UNCHANGED <<tab, after, capture, queued, step, rec, stored, timers, killed, recording, posts, counted>>

LEMMA PageKeeps ==
  ASSUME Documented, RecordInv, PageOnly, TypedRecording', PageInOrder',
         \A lo, mid, top \in Counts : InLine(lo, mid, top) => \E up \in Counts, un \in Counts : InLine(lo, un, up)'
  PROVE  RecordInv'
  <1>1. /\ tab' = tab /\ after' = after /\ capture' = capture /\ queued' = queued /\ timers' = timers
        /\ step' = step /\ rec' = rec /\ killed' = killed
    BY DEF PageOnly
  <1>2. AppSame /\ HeadStays BY DEF PageOnly, AppSame, HeadStays
  <1>3. InPhase' /\ Placed' /\ Kept' /\ \A lo \in Counts : Behind(lo) /\ Filled(lo) => Behind(lo)' /\ Filled(lo)'
    BY <1>2, AppStays DEF RecordInv
  <1>4. Reading' BY <1>1, ReadingStays DEF RecordInv
  <1>5. R!ClosedOnceRevoked' BY <1>1, ClosedStays DEF RecordInv
  <1>6. Lined'
    <2>1. PICK lo, mid, top \in Counts : InLine(lo, mid, top) /\ Behind(lo) /\ Filled(lo) BY DEF RecordInv, Lined
    <2>2. PICK up \in Counts, un \in Counts : InLine(lo, un, up)' BY <2>1
    <2> QED BY <1>3, <2>1, <2>2 DEF Lined
  <1> QED BY <1>3, <1>4, <1>5, <1>6 DEF RecordInv

LEMMA RecordKeeps == ASSUME Documented, RecordInv, R!Record PROVE RecordInv'
  <1> DEFINE m == R!Chunk(<<doc, recorded + 1>>)
  <1>1. /\ capturing /\ recorded < Length[doc] /\ recorded' = recorded + 1 /\ relayed' = Append(relayed, m) /\ open' = TRUE
        /\ doc' = doc /\ capturing' = capturing /\ navigated' = navigated /\ channel' = channel
        /\ PageOnly
    BY DEF R!Record, R!background, PageOnly
  <1>2. TypedRecording BY DEF RecordInv
  <1>3. doc \in Docs /\ recorded \in Nat /\ recorded + 1 <= Length[doc] /\ Length[doc] \in Nat
    BY <1>1, <1>2 DEF TypedRecording, Documented
  <1>4. m \in ChunkMsgs /\ m \in Sent /\ m \in Msgs /\ Is(m, doc) /\ m.of[2] = recorded + 1 /\ m # R!Finish /\ m.cmd = "chunk"
    BY <1>3, IsChunk DEF R!Chunk, ChunkMsgs, Sent, Msgs, Queued, Is, R!Finish
  <1>5. /\ relayed \in Seq(Sent) /\ relayed' \in Seq(Sent) /\ Len(relayed) \in Nat /\ Len(relayed') = Len(relayed) + 1
        /\ DOMAIN relayed = 1 .. Len(relayed) /\ DOMAIN relayed' = 1 .. (Len(relayed) + 1)
        /\ \A i \in DOMAIN relayed : relayed'[i] = relayed[i]
        /\ relayed'[Len(relayed) + 1] = m
    BY <1>1, <1>2, <1>4, AppendProperties DEF TypedRecording
  <1> HIDE DEF m
  <1>6. TypedRecording' BY <1>1, <1>2, <1>3, <1>5 DEF TypedRecording, PageOnly
  <1>7. PageInOrder'
    <2>1. \A i \in DOMAIN relayed : relayed[i] # R!Finish BY <1>1 DEF RecordInv, PageInOrder
    <2>2. \A i \in DOMAIN relayed' : i \in DOMAIN relayed \/ relayed'[i] = m BY <1>5
    <2>3. \A i \in DOMAIN relayed' : relayed'[i] # R!Finish BY <1>4, <1>5, <2>1, <2>2
    <2>4. \A i \in DOMAIN relayed' : relayed'[i].cmd = "chunk" => relayed'[i].of[1] = doc
      BY <1>4, <1>5, <2>2 DEF RecordInv, PageInOrder, Is
    <2> QED BY <1>1, <2>3, <2>4 DEF PageInOrder
  <1>8. ASSUME NEW lo \in Counts, NEW mid \in Counts, NEW top \in Counts, InLine(lo, mid, top) PROVE InLine(lo, mid, top)'
    <2>1. queued' = queued BY <1>1 DEF PageOnly
    <2>2. relayed \in Seq(Msgs) BY <1>5, InMsgs, WiderSeq
    <2>3. top[doc] \in Nat /\ Line(relayed, doc, top[doc], recorded) BY <1>3, <1>8 DEF InLine, Counts
    <2>4. Line(relayed', doc, top[doc], recorded + 1) BY <1>1, <1>3, <1>4, <2>2, <2>3, LineNext
    <2> QED BY <1>1, <1>8, <2>1, <2>4 DEF InLine
  <1> QED BY <1>1, <1>6, <1>7, <1>8, PageKeeps

LEMMA EndStreamKeeps == ASSUME Documented, RecordInv, R!EndStream PROVE RecordInv'
  <1>1. /\ capturing /\ capturing' = FALSE
        /\ relayed' = (IF recorded > 0 THEN Append(relayed, R!Finish) ELSE relayed)
        /\ doc' = doc /\ recorded' = recorded /\ open' = open /\ navigated' = navigated /\ channel' = channel
        /\ PageOnly
    BY DEF R!EndStream, R!background, PageOnly
  <1>2. TypedRecording BY DEF RecordInv
  <1>3. doc \in Docs /\ recorded \in Nat /\ relayed \in Seq(Sent)
    <2>1. Length[doc] \in Nat BY <1>2 DEF TypedRecording, Documented
    <2> QED BY <1>2, <2>1 DEF TypedRecording
  <1>4. CASE recorded > 0
    <2> DEFINE m == R!Finish
    <2>1. m \in Sent /\ m.cmd # "chunk" BY DEF R!Finish, Sent
    <2>2. /\ relayed' \in Seq(Sent) /\ Len(relayed) \in Nat /\ Len(relayed') = Len(relayed) + 1
          /\ DOMAIN relayed = 1 .. Len(relayed) /\ DOMAIN relayed' = 1 .. (Len(relayed) + 1)
          /\ \A i \in DOMAIN relayed : relayed'[i] = relayed[i]
          /\ relayed'[Len(relayed) + 1] = m
      BY <1>1, <1>3, <1>4, <2>1, AppendProperties
    <2>3. relayed' = Append(relayed, m) BY <1>1, <1>4
    <2> HIDE DEF m
    <2>4. TypedRecording' BY <1>1, <1>2, <2>2 DEF TypedRecording, PageOnly
    <2>5. PageInOrder'
      <3>1. \A i \in DOMAIN relayed : relayed[i] # R!Finish BY <1>1 DEF RecordInv, PageInOrder
      <3>2. \A i \in DOMAIN relayed' : i \in DOMAIN relayed \/ (relayed'[i] = m /\ i = Len(relayed')) BY <2>2
      <3>3. open BY <1>1, <1>4 DEF RecordInv, PageInOrder
      <3>4. \A i \in DOMAIN relayed' : relayed'[i].cmd = "chunk" => relayed'[i].of[1] = doc
        BY <2>1, <2>2, <3>2 DEF RecordInv, PageInOrder
      <3>5. \A i \in DOMAIN relayed' : relayed'[i] = R!Finish => i = Len(relayed') BY <2>2, <3>1, <3>2
      <3> QED BY <1>1, <3>3, <3>4, <3>5 DEF PageInOrder
    <2>6. ASSUME NEW lo \in Counts, NEW mid \in Counts, NEW top \in Counts, InLine(lo, mid, top) PROVE InLine(lo, mid, top)'
      <3>1. queued' = queued BY <1>1 DEF PageOnly
      <3>2. relayed \in Seq(Msgs) BY <1>3, InMsgs, WiderSeq
      <3>3. top[doc] \in Nat /\ Line(relayed, doc, top[doc], recorded) BY <1>3, <2>6 DEF InLine, Counts
      <3>4. Line(relayed', doc, top[doc], recorded) BY <1>3, <2>1, <2>3, <3>2, <3>3, LineOther DEF Is
      <3> QED BY <1>1, <2>6, <3>1, <3>4 DEF InLine
    <2> QED BY <1>1, <2>4, <2>5, <2>6, PageKeeps
  <1>5. CASE ~(recorded > 0)
    <2>1. relayed' = relayed BY <1>1, <1>5
    <2>2. TypedRecording' BY <1>1, <1>2, <2>1 DEF TypedRecording, PageOnly
    <2>3. PageInOrder' BY <1>1, <2>1 DEF RecordInv, PageInOrder
    <2>4. ASSUME NEW lo \in Counts, NEW mid \in Counts, NEW top \in Counts, InLine(lo, mid, top) PROVE InLine(lo, mid, top)'
      BY <1>1, <2>1, <2>4 DEF InLine, PageOnly
    <2> QED BY <1>1, <2>2, <2>3, <2>4, PageKeeps
  <1> QED BY <1>4, <1>5

LEMMA RelayKeeps == ASSUME Documented, RecordInv, R!Relay PROVE RecordInv'
  <1> DEFINE m == Head(relayed)
             q == channel[doc]
  <1>1. /\ relayed # <<>> /\ relayed' = Tail(relayed) /\ open' = (open /\ m # R!Finish)
        /\ (IF open THEN channel' = [channel EXCEPT ![doc] = @ \o <<m>>] ELSE channel' = channel)
        /\ doc' = doc /\ recorded' = recorded /\ capturing' = capturing /\ navigated' = navigated
        /\ PageOnly
    BY DEF R!Relay, R!Sends, R!background, PageOnly
  <1>2. TypedRecording /\ PageInOrder BY DEF RecordInv
  <1>3. /\ doc \in Docs /\ recorded \in Nat /\ relayed \in Seq(Sent) /\ q \in Seq(Sent \cup {ActiveMsg}) /\ open
        /\ channel \in [Docs -> Seq(Sent \cup {ActiveMsg})]
    <2>1. Length[doc] \in Nat BY <1>2 DEF TypedRecording, Documented
    <2> QED BY <1>1, <1>2, <2>1 DEF TypedRecording, PageInOrder
  <1>4. /\ relayed' \in Seq(Sent) /\ m = relayed[1] /\ m \in Sent /\ Len(relayed) \in Nat /\ Len(relayed) > 0
        /\ DOMAIN relayed = 1 .. Len(relayed) /\ DOMAIN relayed' = 1 .. (Len(relayed) - 1)
        /\ \A i \in DOMAIN relayed' : i + 1 \in DOMAIN relayed /\ relayed'[i] = relayed[i + 1]
    BY <1>1, <1>3, TailIs
  <1>5. Append(q, m) \in Seq(Sent \cup {ActiveMsg}) /\ q \o <<m>> = Append(q, m)
    BY <1>3, <1>4, AppendProperties, AppendIsConcat
  <1>6. channel' = [channel EXCEPT ![doc] = Append(q, m)] BY <1>1, <1>3, <1>5
  <1>7. m.cmd = "chunk" => m.of[1] = doc /\ m # R!Finish BY <1>2, <1>4 DEF PageInOrder, R!Finish
  <1>8. m = R!Finish => Len(relayed) = 1 /\ ~capturing BY <1>2, <1>4 DEF PageInOrder
  <1>9. relayed \in Seq(Msgs) /\ q \in Seq(Msgs) /\ m \in Msgs BY <1>3, <1>4, InMsgs, WiderSeq
  <1> DEFINE a == Append(q, m)
  <1>10. channel' \in [Docs -> Seq(Sent \cup {ActiveMsg})] /\ channel'[doc] = a /\ \A d \in Docs : d # doc => channel'[d] = channel[d]
    BY <1>3, <1>5, <1>6
  <1>a. \A d \in Docs : channel'[d] \in Seq(Says(d))
    <2>1. \A d \in Docs : channel[d] \in Seq(Says(d)) BY <1>2 DEF TypedRecording
    <2>2. m \in Says(doc) BY <1>4, <1>7 DEF Says
    <2>3. a \in Seq(Says(doc)) BY <1>3, <2>1, <2>2, AppendProperties
    <2> QED BY <1>10, <2>1, <2>3
  <1> HIDE DEF m, q, a
  <1>11. TypedRecording'
    <2>1. open' \in BOOLEAN BY <1>1
    <2> QED BY <1>1, <1>2, <1>4, <1>10, <1>a, <2>1 DEF TypedRecording, PageOnly
  <1>12. PageInOrder'
    <2>1. Len(relayed') = Len(relayed) - 1 BY <1>1, <1>3, TailIs
    <2>2. relayed' # <<>> => open'
      <3> HAVE relayed' # <<>>
      <3>1. Len(relayed') # 0 BY <1>4, EmptySeq
      <3>2. m # R!Finish BY <1>8, <2>1, <3>1
      <3> QED BY <1>1, <1>3, <3>2
    <2>3. capturing' /\ recorded' > 0 => open' BY <1>1, <1>3, <1>8
    <2>4. \A i \in DOMAIN relayed' : relayed'[i].cmd = "chunk" => relayed'[i].of[1] = doc BY <1>2, <1>4 DEF PageInOrder
    <2>5. \A i \in DOMAIN relayed' : relayed'[i] = R!Finish => i = Len(relayed') /\ ~capturing
      <3> SUFFICES ASSUME NEW i \in DOMAIN relayed', relayed'[i] = R!Finish PROVE i = Len(relayed') /\ ~capturing OBVIOUS
      <3>1. i + 1 = Len(relayed) /\ ~capturing /\ i \in Int BY <1>2, <1>4 DEF PageInOrder
      <3> QED BY <1>4, <2>1, <3>1
    <2> QED BY <1>1, <2>2, <2>3, <2>4, <2>5 DEF PageInOrder
  <1>13. ASSUME NEW lo \in Counts, NEW mid \in Counts, NEW top \in Counts, InLine(lo, mid, top)
         PROVE  \E up \in Counts, un \in Counts : InLine(lo, un, up)'
    <2>1. queued' = queued BY <1>1 DEF PageOnly
    <2>2. /\ top[doc] \in Nat /\ mid[doc] \in Nat
          /\ Line(relayed, doc, top[doc], recorded) /\ Line(q, doc, mid[doc], top[doc])
      BY <1>3, <1>13 DEF InLine, Counts, q
    <2>3. CASE Is(m, doc)
      <3>1. PICK up \in Counts : up[doc] = top[doc] + 1 /\ \A d \in Docs : d # doc => up[d] = top[d]
        BY <1>3, <2>2, OneUp
      <3>2. m.of[2] = top[doc] + 1 /\ Line(relayed', doc, top[doc] + 1, recorded)
        BY <1>1, <1>3, <1>9, <2>2, <2>3, LineHead DEF m
      <3>3. Line(a, doc, mid[doc], top[doc] + 1) BY <1>3, <1>9, <2>2, <2>3, <3>2, LineNext DEF a
      <3>4. InLine(lo, mid, up)'
        <4>1. ASSUME NEW d \in Docs
              PROVE  /\ Line(queued', d, lo[d], mid[d]) /\ Line(channel'[d], d, mid[d], up[d])
                     /\ d > doc' => lo[d] = 0 /\ mid[d] = 0 /\ up[d] = 0
          <5>1. CASE d = doc
            <6>1. ~(d > doc') BY <1>1, <1>3, <5>1 DEF Docs, Documented
            <6> QED BY <1>10, <1>13, <2>1, <3>1, <3>3, <5>1, <6>1 DEF InLine
          <5>2. CASE d # doc BY <1>1, <1>10, <1>13, <2>1, <3>1, <5>2 DEF InLine
          <5> QED BY <5>1, <5>2
        <4> QED BY <1>1, <3>1, <3>2, <4>1 DEF InLine
      <3> QED BY <3>1, <3>4
    <2>4. CASE ~Is(m, doc)
      <3>1. Line(relayed', doc, top[doc], recorded) BY <1>1, <1>3, <1>9, <2>2, <2>4, LineTail DEF m
      <3>2. Line(a, doc, mid[doc], top[doc]) BY <1>3, <1>9, <2>2, <2>4, LineOther DEF a
      <3>3. \A d \in Docs : Line(channel'[d], d, mid[d], top[d]) BY <1>10, <1>13, <3>2 DEF InLine
      <3>4. InLine(lo, mid, top)' BY <1>1, <1>13, <2>1, <3>1, <3>3 DEF InLine
      <3> QED BY <3>4
    <2> QED BY <2>3, <2>4
  <1> QED BY <1>1, <1>11, <1>12, <1>13, PageKeeps

LEMMA ReloadKeeps == ASSUME Documented, RecordInv, R!Reload PROVE RecordInv'
  <1>1. /\ doc < Documents /\ doc' = doc + 1 /\ recorded' = 0 /\ relayed' = <<>> /\ open' = FALSE
        /\ navigated' \in BOOLEAN /\ capturing' \in BOOLEAN
        /\ channel' = [d \in 1 .. Documents |->
             CASE d = doc /\ open -> Append(channel[d], R!Finish)
               [] d = doc + 1 /\ capturing' -> <<ActiveMsg>>
               [] OTHER -> channel[d]]
        /\ PageOnly
    BY DEF R!Reload, R!background, PageOnly, ActiveMsg
  <1>2. TypedRecording BY DEF RecordInv
  <1>3. /\ doc \in Docs /\ doc + 1 \in Docs /\ doc \in Int /\ Docs \subseteq Int
        /\ channel \in [Docs -> Seq(Sent \cup {ActiveMsg})]
    BY <1>1, <1>2 DEF TypedRecording, Docs, Documented
  <1>4. \A d \in Docs : channel'[d] \in {Append(channel[d], R!Finish), <<ActiveMsg>>, channel[d]}
                        /\ (channel'[d] = <<ActiveMsg>> => channel'[d] = channel[d] \/ d = doc + 1 \/ channel'[d] = Append(channel[d], R!Finish))
    BY <1>1 DEF Docs
  <1>5. R!Finish \in Sent /\ R!Finish.cmd # "chunk" /\ ActiveMsg.cmd # "chunk" BY DEF Sent, R!Finish, ActiveMsg
  <1>6. channel' \in [Docs -> Seq(Sent \cup {ActiveMsg})]
    <2>1. \A d \in Docs : Append(channel[d], R!Finish) \in Seq(Sent \cup {ActiveMsg}) BY <1>3, <1>5, AppendProperties
    <2>2. <<ActiveMsg>> \in Seq(Sent \cup {ActiveMsg}) OBVIOUS
    <2>3. \A d \in Docs : channel'[d] \in Seq(Sent \cup {ActiveMsg}) BY <1>3, <1>4, <2>1, <2>2
    <2>4. channel' = [d \in Docs |-> channel'[d]] BY <1>1 DEF Docs
    <2> QED BY <2>3, <2>4
  <1>a. \A d \in Docs : channel'[d] \in Seq(Says(d))
    <2> TAKE d \in Docs
    <2>1. channel[d] \in Seq(Says(d)) BY <1>2 DEF TypedRecording
    <2>2. R!Finish \in Says(d) /\ ActiveMsg \in Says(d) BY <1>5 DEF Says
    <2>3. Append(channel[d], R!Finish) \in Seq(Says(d)) /\ <<ActiveMsg>> \in Seq(Says(d)) BY <2>1, <2>2, AppendProperties
    <2> QED BY <1>4, <2>1, <2>3
  <1>7. TypedRecording'
    <2>1. Length[doc + 1] \in Nat BY <1>3 DEF Documented
    <2>2. relayed' \in Seq(Sent) BY <1>1
    <2>3. recorded' \in 0 .. Length[doc'] BY <1>1, <2>1
    <2> QED BY <1>1, <1>2, <1>3, <1>6, <1>a, <2>2, <2>3 DEF TypedRecording, PageOnly
  <1>8. PageInOrder' BY <1>1 DEF PageInOrder
  <1>9. ASSUME NEW lo \in Counts, NEW mid \in Counts, NEW top \in Counts, InLine(lo, mid, top) PROVE InLine(lo, mid, top)'
    <2>1. queued' = queued BY <1>1 DEF PageOnly
    <2>2. top[doc + 1] = 0 BY <1>3, <1>9 DEF InLine
    <2>3. Line(relayed', doc', top[doc'], recorded') BY <1>1, <2>2, LineEmpty
    <2>4. ASSUME NEW d \in Docs PROVE Line(channel'[d], d, mid[d], top[d])
      <3>1. channel[d] \in Seq(Msgs) /\ mid[d] \in Nat /\ top[d] \in Nat /\ Line(channel[d], d, mid[d], top[d])
        BY <1>3, <1>9, InMsgs, WiderSeq DEF InLine, Counts
      <3>2. Line(Append(channel[d], R!Finish), d, mid[d], top[d]) BY <1>5, <3>1, LineOther DEF Is
      <3>3. CASE d = doc + 1 /\ channel'[d] = <<ActiveMsg>>
        <4>1. mid[d] = 0 /\ top[d] = 0 BY <1>3, <1>9, <3>3 DEF InLine
        <4>2. \A i \in DOMAIN <<ActiveMsg>> : ~Is(<<ActiveMsg>>[i], d) BY <1>5 DEF Is
        <4> QED BY <3>3, <4>1, <4>2 DEF Line
      <3> QED BY <1>4, <3>1, <3>2, <3>3
    <2>5. \A d \in Docs : d > doc' => d > doc BY <1>1, <1>3
    <2> QED BY <1>9, <2>1, <2>3, <2>4, <2>5 DEF InLine
  <1> QED BY <1>1, <1>7, <1>8, <1>9, PageKeeps

-----------------------------------------------------------------------------
(* What comes to the background, and the tab's tasks. *)
PageSame == UNCHANGED <<doc, recorded, capturing, open, relayed>>

LEMMA ComingKeeps ==
  ASSUME Documented, RecordInv, AppSame, HeadStays, PageSame, TypedRecording', Reading', R!ClosedOnceRevoked',
         \A lo, mid, top \in Counts : InLine(lo, mid, top) => \E un \in Counts : InLine(lo, un, top)'
  PROVE  RecordInv'
  <1>1. InPhase' /\ Placed' /\ Kept' /\ \A lo \in Counts : Behind(lo) /\ Filled(lo) => Behind(lo)' /\ Filled(lo)'
    BY AppStays DEF RecordInv
  <1>2. PageInOrder' BY PageStays DEF RecordInv, PageSame
  <1>3. Lined'
    <2>1. PICK lo, mid, top \in Counts : InLine(lo, mid, top) /\ Behind(lo) /\ Filled(lo) BY DEF RecordInv, Lined
    <2>2. PICK un \in Counts : InLine(lo, un, top)' BY <2>1
    <2> QED BY <1>1, <2>1, <2>2 DEF Lined
  <1> QED BY <1>1, <1>2, <1>3 DEF RecordInv

LEMMA LineSame == ASSUME UNCHANGED <<queued, channel, doc, relayed, recorded>>,
                         NEW lo \in Counts, NEW mid \in Counts, NEW top \in Counts, InLine(lo, mid, top)
                  PROVE  InLine(lo, mid, top)'
  BY DEF InLine

LEMMA TabMore == ASSUME TypedRecording, Reading, NEW x \in R!TabTasks, x.do # "read", tab' = Append(tab, x), step' = step
                 PROVE  tab' \in Seq(R!TabTasks) /\ Reading'
  <1>1. /\ tab \in Seq(R!TabTasks) /\ tab' \in Seq(R!TabTasks) /\ Len(tab) \in Nat
        /\ DOMAIN tab = 1 .. Len(tab) /\ DOMAIN tab' = 1 .. (Len(tab) + 1)
        /\ \A i \in DOMAIN tab : tab'[i] = tab[i]
        /\ tab'[Len(tab) + 1] = x
    BY AppendProperties DEF TypedRecording
  <1>2. \A i \in DOMAIN tab' : tab'[i].do = "read" => i \in DOMAIN tab BY <1>1
  <1> QED BY <1>1, <1>2 DEF Reading

LEMMA TabLess == ASSUME TypedRecording, Reading, tab # <<>>, tab' = Tail(tab)
                 PROVE  /\ tab' \in Seq(R!TabTasks) /\ Head(tab) \in R!TabTasks
                        /\ step' = step => Reading'
                        /\ Head(tab).do = "read" => step.at = "asking" /\ \A i \in DOMAIN tab' : tab'[i].do # "read"
  <1>1. /\ tab \in Seq(R!TabTasks) /\ tab' \in Seq(R!TabTasks) /\ Head(tab) \in R!TabTasks /\ Head(tab) = tab[1] /\ 1 \in DOMAIN tab
        /\ \A i \in DOMAIN tab' : i + 1 \in DOMAIN tab /\ tab'[i] = tab[i + 1] /\ i \in Int /\ i > 0
    <2>1. tab \in Seq(R!TabTasks) BY DEF TypedRecording
    <2> QED BY <2>1, TailIs
  <1>2. step' = step => Reading'
    <2> HAVE step' = step
    <2>1. \A i \in DOMAIN tab' : tab'[i].do = "read" => step'.at = "asking" BY <1>1 DEF Reading
    <2>2. ASSUME NEW i \in DOMAIN tab', NEW j \in DOMAIN tab', tab'[i].do = "read", tab'[j].do = "read" PROVE i = j
      <3>1. i + 1 = j + 1 BY <1>1, <2>2 DEF Reading
      <3> QED BY <1>1, <3>1
    <2> QED BY <2>1, <2>2 DEF Reading
  <1>3. ASSUME Head(tab).do = "read" PROVE step.at = "asking" /\ \A i \in DOMAIN tab' : tab'[i].do # "read"
    <2>1. step.at = "asking" BY <1>1, <1>3 DEF Reading
    <2>2. ASSUME NEW i \in DOMAIN tab', tab'[i].do = "read" PROVE FALSE
      <3>1. i + 1 = 1 BY <1>1, <1>3, <2>2 DEF Reading
      <3> QED BY <1>1, <3>1
    <2> QED BY <2>1, <2>2
  <1> QED BY <1>1, <1>2, <1>3

(* What finishes an open recording is queued. *)
LEMMA FinishKeeps ==
  ASSUME Documented, RecordInv, AppSame, PageSame, rec # None, queued' = Append(queued, R!Finish),
         UNCHANGED <<channel, tab, capture, timers>>, after' \subseteq R!TabTasks, navigated' \in BOOLEAN
  PROVE  RecordInv'
  <1>1. /\ TypedRecording /\ R!Finish \in Queued /\ queued \in Seq(Queued) /\ R!Finish.cmd = "finish"
    BY DEF RecordInv, TypedRecording, R!Finish, Queued, Sent
  <1>2. queued' \in Seq(Queued) /\ HeadStays /\ \E j \in 1 .. Len(queued') : queued'[j] = R!Finish BY <1>1, OneMore
  <1>3. TypedRecording' BY <1>1, <1>2 DEF TypedRecording, AppSame, PageSame
  <1>4. Reading' BY ReadingStays DEF RecordInv, AppSame
  <1>5. R!ClosedOnceRevoked' BY <1>1, <1>2 DEF R!ClosedOnceRevoked
  <1>6. \A lo, mid, top \in Counts : InLine(lo, mid, top) => InLine(lo, mid, top)'
    BY <1>1, NoneInLine DEF PageSame
  <1> QED BY <1>2, <1>3, <1>4, <1>5, <1>6, ComingKeeps

LEMMA NavigatedKeeps == ASSUME Documented, RecordInv, R!Navigated PROVE RecordInv'
  <1>1. /\ navigated' = FALSE /\ queued' = (IF rec # None THEN Append(queued, R!Finish) ELSE queued)
        /\ AppSame /\ PageSame /\ channel' = channel /\ tab' = tab /\ capture' = capture /\ timers' = timers /\ after' = after
    BY DEF R!Navigated, R!FinishOpen, AppSame, PageSame
  <1>2. TypedRecording BY DEF RecordInv
  <1>3. CASE rec # None BY <1>1, <1>2, <1>3, FinishKeeps DEF TypedRecording
  <1>4. CASE rec = None
    <2>1. queued' = queued BY <1>1, <1>4
    <2>2. TypedRecording' BY <1>1, <1>2, <2>1 DEF TypedRecording, AppSame, PageSame
    <2>3. Reading' BY <1>1, ReadingStays DEF RecordInv, AppSame
    <2>4. R!ClosedOnceRevoked' BY <1>1, <1>4 DEF R!ClosedOnceRevoked, AppSame
    <2>5. HeadStays BY <2>1 DEF HeadStays
    <2>6. \A lo, mid, top \in Counts : InLine(lo, mid, top) => InLine(lo, mid, top)' BY <1>1, <2>1, LineSame DEF PageSame
    <2> QED BY <1>1, <2>2, <2>3, <2>4, <2>5, <2>6, ComingKeeps
  <1> QED BY <1>3, <1>4

LEMMA StopRecordingKeeps == ASSUME Documented, RecordInv, R!StopRecording PROVE RecordInv'
  <1> DEFINE x == [do |-> "revoke", to |-> None]
  <1>1. /\ tab' = Append(tab, x) /\ AppSame /\ PageSame /\ navigated' = navigated /\ channel' = channel /\ after' = after
        /\ capture' = capture /\ queued' = queued /\ timers' = timers
    BY DEF R!StopRecording, R!Spend, AppSame, PageSame
  <1>2. TypedRecording BY DEF RecordInv
  <1>3. x \in R!TabTasks /\ x.do # "read" BY DEF R!TabTasks
  <1>4. tab' \in Seq(R!TabTasks) /\ Reading' BY <1>1, <1>2, <1>3, TabMore DEF RecordInv, AppSame
  <1> HIDE DEF x
  <1>5. TypedRecording' BY <1>1, <1>2, <1>4 DEF TypedRecording, AppSame, PageSame
  <1>6. R!ClosedOnceRevoked' BY <1>1 DEF R!ClosedOnceRevoked, RecordInv, AppSame
  <1>7. HeadStays BY <1>1 DEF HeadStays
  <1>8. \A lo, mid, top \in Counts : InLine(lo, mid, top) => InLine(lo, mid, top)' BY <1>1, LineSame DEF PageSame
  <1> QED BY <1>1, <1>4, <1>5, <1>6, <1>7, <1>8, ComingKeeps

LEMMA TabTaskKeeps == ASSUME Documented, RecordInv, R!TabTask PROVE RecordInv'
  <1> DEFINE x == Head(tab)
  <1>1. /\ tab # <<>> /\ x.do # "read" /\ tab' = Tail(tab)
        /\ \/ capture' = x.to /\ after' = after \cup {x}
           \/ capture' = capture /\ after' = after
        /\ AppSame /\ PageSame /\ navigated' = navigated /\ channel' = channel /\ queued' = queued /\ timers' = timers
    BY DEF R!TabTask, R!page, AppSame, PageSame
  <1>2. TypedRecording BY DEF RecordInv
  <1>3. tab' \in Seq(R!TabTasks) /\ x \in R!TabTasks /\ Reading' BY <1>1, <1>2, TabLess DEF RecordInv, AppSame
  <1> HIDE DEF x
  <1>4. x.to \in Docs \cup {None} BY <1>3 DEF R!TabTasks, Docs
  <1>5. TypedRecording' BY <1>1, <1>2, <1>3, <1>4 DEF TypedRecording, AppSame, PageSame
  <1>6. R!ClosedOnceRevoked' BY <1>1 DEF R!ClosedOnceRevoked, RecordInv, AppSame
  <1>7. HeadStays BY <1>1 DEF HeadStays
  <1>8. \A lo, mid, top \in Counts : InLine(lo, mid, top) => InLine(lo, mid, top)' BY <1>1, LineSame DEF PageSame
  <1> QED BY <1>1, <1>3, <1>5, <1>6, <1>7, <1>8, ComingKeeps

LEMMA AfterGrantKeeps == ASSUME Documented, RecordInv, R!AfterGrant PROVE RecordInv'
  <1>1. PICK a \in after :
          /\ a.do = "grant" /\ after' = after \ {a}
          /\ IF rec # None /\ rec.doc # a.to THEN R!FinishOpen(queued) ELSE queued' = queued
    BY DEF R!AfterGrant
  <1>2. /\ AppSame /\ PageSame /\ navigated' = navigated /\ channel' = channel /\ tab' = tab /\ capture' = capture /\ timers' = timers
    BY DEF R!AfterGrant, R!page, AppSame, PageSame
  <1>3. TypedRecording /\ after' \subseteq R!TabTasks BY <1>1 DEF RecordInv, TypedRecording
  <1>4. CASE rec # None /\ rec.doc # a.to
    <2>1. queued' = Append(queued, R!Finish) BY <1>1, <1>4 DEF R!FinishOpen
    <2> QED BY <1>2, <1>3, <1>4, <2>1, FinishKeeps DEF TypedRecording
  <1>5. CASE ~(rec # None /\ rec.doc # a.to)
    <2>1. queued' = queued BY <1>1, <1>5
    <2>2. TypedRecording' BY <1>2, <1>3, <2>1 DEF TypedRecording, AppSame, PageSame
    <2>3. Reading' BY <1>2, ReadingStays DEF RecordInv, AppSame
    <2>4. \A b \in after : rec # None /\ (b.do = "revoke" \/ b.to # rec.doc) => b \in after' BY <1>1, <1>5
    <2>5. R!ClosedOnceRevoked' BY <1>2, <2>1, <2>4 DEF R!ClosedOnceRevoked, RecordInv, AppSame
    <2>6. HeadStays BY <2>1 DEF HeadStays
    <2>7. \A lo, mid, top \in Counts : InLine(lo, mid, top) => InLine(lo, mid, top)' BY <1>2, <2>1, LineSame DEF PageSame
    <2> QED BY <1>2, <2>2, <2>3, <2>5, <2>6, <2>7, ComingKeeps
  <1> QED BY <1>4, <1>5

LEMMA AfterRevokeKeeps == ASSUME Documented, RecordInv, R!AfterRevoke PROVE RecordInv'
  <1>1. /\ after' \subseteq after /\ timers' = (IF rec # None THEN timers \cup {rec.first} ELSE timers)
        /\ AppSame /\ PageSame /\ navigated' = navigated /\ channel' = channel /\ tab' = tab /\ capture' = capture /\ queued' = queued
    BY DEF R!AfterRevoke, R!page, AppSame, PageSame
  <1>2. TypedRecording BY DEF RecordInv
  <1>3. timers' \subseteq R!Chunks
    <2>1. rec # None => rec.first \in R!Chunks BY <1>2 DEF TypedRecording, OpenRecs
    <2> QED BY <1>1, <1>2, <2>1 DEF TypedRecording
  <1>4. TypedRecording' BY <1>1, <1>2, <1>3 DEF TypedRecording, AppSame, PageSame
  <1>5. Reading' BY <1>1, ReadingStays DEF RecordInv, AppSame
  <1>6. R!ClosedOnceRevoked' BY <1>1 DEF R!ClosedOnceRevoked, AppSame
  <1>7. HeadStays BY <1>1 DEF HeadStays
  <1>8. \A lo, mid, top \in Counts : InLine(lo, mid, top) => InLine(lo, mid, top)' BY <1>1, LineSame DEF PageSame
  <1> QED BY <1>1, <1>4, <1>5, <1>6, <1>7, <1>8, ComingKeeps

LEMMA TimerKeeps == ASSUME Documented, RecordInv, R!Timer PROVE RecordInv'
  <1>1. PICK c \in timers : timers' = timers \ {c} /\ queued' = Append(queued, [cmd |-> "close", of |-> c]) BY DEF R!Timer
  <1>2. /\ AppSame /\ PageSame /\ navigated' = navigated /\ channel' = channel /\ tab' = tab /\ capture' = capture /\ after' = after
    BY DEF R!Timer, R!page, AppSame, PageSame
  <1> DEFINE m == [cmd |-> "close", of |-> c]
  <1>3. TypedRecording /\ queued \in Seq(Queued) /\ c \in R!Chunks BY DEF RecordInv, TypedRecording
  <1>4. m \in Queued /\ m.cmd = "close" BY <1>3 DEF Queued
  <1>5. /\ queued' \in Seq(Queued) /\ HeadStays /\ \E j \in 1 .. Len(queued') : queued'[j] = m
        /\ \A i \in 1 .. Len(queued) : \E j \in 1 .. Len(queued') : queued'[j] = queued[i]
    BY <1>1, <1>3, <1>4, OneMore
  <1>6. TypedRecording' BY <1>1, <1>2, <1>3, <1>5 DEF TypedRecording, AppSame, PageSame
  <1>7. Reading' BY <1>2, ReadingStays DEF RecordInv, AppSame
  <1>8. R!ClosedOnceRevoked'
    <2> SUFFICES ASSUME ~killed, rec # None, rec.doc # capture
                 PROVE  \/ \E a \in after : a.do = "revoke" \/ a.to # rec.doc
                        \/ rec.first \in timers'
                        \/ \E i \in 1 .. Len(queued') : queued'[i].cmd = "finish" \/ queued'[i] = [cmd |-> "close", of |-> rec.first]
      BY <1>2 DEF R!ClosedOnceRevoked, AppSame
    <2>1. CASE \E a \in after : a.do = "revoke" \/ a.to # rec.doc BY <2>1
    <2>2. CASE rec.first \in timers
      <3>1. CASE rec.first = c BY <1>5, <3>1
      <3>2. CASE rec.first # c BY <1>1, <2>2, <3>2
      <3> QED BY <3>1, <3>2
    <2>3. CASE \E i \in 1 .. Len(queued) : queued[i].cmd = "finish" \/ queued[i] = [cmd |-> "close", of |-> rec.first]
      <3>1. PICK i \in 1 .. Len(queued) : queued[i].cmd = "finish" \/ queued[i] = [cmd |-> "close", of |-> rec.first] BY <2>3
      <3>2. PICK j \in 1 .. Len(queued') : queued'[j] = queued[i] BY <1>5
      <3> QED BY <3>1, <3>2
    <2> QED BY <2>1, <2>2, <2>3 DEF RecordInv, R!ClosedOnceRevoked
  <1>9. \A lo, mid, top \in Counts : InLine(lo, mid, top) => InLine(lo, mid, top)'
    BY <1>1, <1>2, <1>3, <1>4, NoneInLine DEF PageSame
  <1> QED BY <1>2, <1>5, <1>6, <1>7, <1>8, <1>9, ComingKeeps

LEMMA ArrivesKeeps == ASSUME Documented, RecordInv, NEW d \in 1 .. Documents, R!Arrives(d) PROVE RecordInv'
  <1> DEFINE q == channel[d]
             m == Head(q)
  <1>1. /\ q # <<>> /\ channel' = [channel EXCEPT ![d] = Tail(@)]
        /\ IF m.cmd = "active"
           THEN tab' = Append(tab, [do |-> "grant", to |-> d]) /\ queued' = queued
           ELSE queued' = Append(queued, m) /\ tab' = tab
        /\ AppSame /\ PageSame /\ navigated' = navigated /\ capture' = capture /\ timers' = timers /\ after' = after
    BY DEF R!Arrives, R!page, AppSame, PageSame
  <1>2. TypedRecording /\ d \in Docs /\ queued \in Seq(Queued) BY DEF RecordInv, TypedRecording, Docs
  <1>3. channel \in [Docs -> Seq(Sent \cup {ActiveMsg})] /\ q \in Seq(Sent \cup {ActiveMsg}) BY <1>2 DEF TypedRecording
  <1>4. Tail(q) \in Seq(Sent \cup {ActiveMsg}) /\ m \in Sent \cup {ActiveMsg} BY <1>1, <1>3, TailIs
  <1> DEFINE r == Tail(q)
  <1>5. channel' \in [Docs -> Seq(Sent \cup {ActiveMsg})] /\ channel'[d] = r /\ \A e \in Docs : e # d => channel'[e] = channel[e]
    BY <1>1, <1>2, <1>3, <1>4
  <1>6. q \in Seq(Msgs) /\ m \in Msgs /\ queued \in Seq(Msgs) BY <1>2, <1>3, <1>4, InMsgs, WiderSeq
  <1>7. m = ActiveMsg <=> m.cmd = "active" BY <1>4 DEF ActiveMsg, Sent, ChunkMsgs, R!Finish
  <1>a. m \in Says(d) /\ \A e \in Docs : channel'[e] \in Seq(Says(e))
    <2>1. \A e \in Docs : channel[e] \in Seq(Says(e)) BY <1>2 DEF TypedRecording
    <2>2. m \in Says(d) /\ r \in Seq(Says(d)) BY <1>1, <1>2, <2>1, TailIs
    <2> QED BY <1>5, <2>1, <2>2
  <1> HIDE DEF q, m, r
  <1>8. CASE m.cmd = "active"
    <2> DEFINE x == [do |-> "grant", to |-> d]
    <2>1. x \in R!TabTasks /\ x.do # "read" BY DEF R!TabTasks
    <2>2. queued' = queued /\ tab' = Append(tab, x) BY <1>1, <1>8
    <2>3. tab' \in Seq(R!TabTasks) /\ Reading' BY <1>1, <1>2, <2>1, <2>2, TabMore DEF RecordInv, AppSame
    <2> HIDE DEF x
    <2>4. TypedRecording' BY <1>1, <1>2, <1>5, <1>a, <2>2, <2>3 DEF TypedRecording, AppSame, PageSame
    <2>5. R!ClosedOnceRevoked' BY <1>1, <2>2 DEF R!ClosedOnceRevoked, RecordInv, AppSame
    <2>6. HeadStays BY <2>2 DEF HeadStays
    <2>7. ASSUME NEW lo \in Counts, NEW mid \in Counts, NEW top \in Counts, InLine(lo, mid, top) PROVE InLine(lo, mid, top)'
      <3>1. mid[d] \in Nat /\ top[d] \in Nat /\ Line(q, d, mid[d], top[d]) BY <1>2, <2>7 DEF InLine, Counts, q
      <3>2. Line(r, d, mid[d], top[d]) BY <1>1, <1>6, <1>8, <3>1, LineTail DEF Is, m, r
      <3>3. \A e \in Docs : Line(channel'[e], e, mid[e], top[e]) BY <1>5, <2>7, <3>2 DEF InLine
      <3> QED BY <1>1, <2>2, <2>7, <3>3 DEF InLine, PageSame
    <2> QED BY <1>1, <2>3, <2>4, <2>5, <2>6, <2>7, ComingKeeps
  <1>9. CASE m.cmd # "active"
    <2>1. queued' = Append(queued, m) /\ tab' = tab BY <1>1, <1>9
    <2>2. m \in Queued BY <1>4, <1>7, <1>9, InMsgs
    <2>3. /\ queued' \in Seq(Queued) /\ HeadStays
          /\ \A i \in 1 .. Len(queued) : \E j \in 1 .. Len(queued') : queued'[j] = queued[i]
      BY <1>2, <2>1, <2>2, OneMore
    <2>4. TypedRecording' BY <1>1, <1>2, <1>5, <1>a, <2>1, <2>3 DEF TypedRecording, AppSame, PageSame
    <2>5. Reading' BY <1>1, <2>1, ReadingStays DEF RecordInv, AppSame
    <2>6. R!ClosedOnceRevoked' BY <1>1, <1>2, <2>3, ClosedStays DEF RecordInv, AppSame
    <2>7. ASSUME NEW lo \in Counts, NEW mid \in Counts, NEW top \in Counts, InLine(lo, mid, top)
          PROVE  \E un \in Counts : InLine(lo, un, top)'
      <3>1. /\ lo[d] \in Nat /\ mid[d] \in Nat /\ top[d] \in Nat
            /\ Line(q, d, mid[d], top[d]) /\ Line(queued, d, lo[d], mid[d])
        BY <1>2, <2>7 DEF InLine, Counts, q
      <3>2. doc' = doc /\ relayed' = relayed /\ recorded' = recorded BY <1>1 DEF PageSame
      <3>3. CASE Is(m, d)
        <4>1. PICK un \in Counts : un[d] = mid[d] + 1 /\ \A e \in Docs : e # d => un[e] = mid[e] BY <1>2, OneUp
        <4>2. m.of[2] = mid[d] + 1 /\ Line(r, d, mid[d] + 1, top[d]) BY <1>1, <1>2, <1>6, <3>1, <3>3, LineHead DEF m, r
        <4>3. Line(queued', d, lo[d], mid[d] + 1) BY <1>2, <1>6, <2>1, <3>1, <3>3, <4>2, LineNext
        <4>4. d <= doc
          <5>1. CASE d > doc
            <6>1. mid[d] = 0 /\ top[d] = 0 BY <1>2, <2>7, <5>1 DEF InLine
            <6>2. 0 + 1 <= 0 BY <4>2, <6>1 DEF Line
            <6> QED BY <6>2
          <5> QED BY <1>2, <5>1 DEF TypedRecording, Docs
        <4>5. ASSUME NEW e \in Docs
              PROVE  /\ Line(queued', e, lo[e], un[e]) /\ Line(channel'[e], e, un[e], top[e])
                     /\ e > doc' => lo[e] = 0 /\ un[e] = 0 /\ top[e] = 0
          <5>1. CASE e = d
            <6>1. ~(e > doc') BY <1>2, <3>2, <4>4, <5>1 DEF TypedRecording, Docs
            <6> QED BY <1>5, <4>1, <4>2, <4>3, <5>1, <6>1
          <5>2. CASE e # d
            <6>1. ~Is(m, e) BY <3>3, <5>2 DEF Is
            <6>2. lo[e] \in Nat /\ mid[e] \in Nat /\ Line(queued, e, lo[e], mid[e]) BY <2>7 DEF InLine, Counts
            <6>3. Line(queued', e, lo[e], mid[e]) BY <1>6, <2>1, <6>1, <6>2, LineOther
            <6> QED BY <1>5, <2>7, <3>2, <4>1, <5>2, <6>3 DEF InLine
          <5> QED BY <5>1, <5>2
        <4>6. InLine(lo, un, top)' BY <2>7, <3>2, <4>5 DEF InLine
        <4> QED BY <4>6
      <3>4. CASE ~Is(m, d)
        <4>1. Line(r, d, mid[d], top[d]) BY <1>1, <1>6, <3>1, <3>4, LineTail DEF m, r
        <4>2. \A e \in Docs : Line(channel'[e], e, mid[e], top[e]) BY <1>5, <2>7, <4>1 DEF InLine
        <4>3. \A e \in Docs : ~Is(m, e) BY <1>a, <3>4 DEF Says, Is
        <4>4. ASSUME NEW e \in Docs PROVE Line(queued', e, lo[e], mid[e])
          <5>1. lo[e] \in Nat /\ mid[e] \in Nat /\ Line(queued, e, lo[e], mid[e]) BY <2>7 DEF InLine, Counts
          <5> QED BY <1>6, <2>1, <4>3, <5>1, LineOther
        <4>5. InLine(lo, mid, top)' BY <2>7, <3>2, <4>2, <4>4 DEF InLine
        <4> QED BY <4>5
      <3> QED BY <3>3, <3>4
    <2> QED BY <1>1, <2>3, <2>4, <2>5, <2>6, <2>7, ComingKeeps
  <1> QED BY <1>8, <1>9

-----------------------------------------------------------------------------
(* The tasks of the key. *)
LEMMA HeadGoes ==
  ASSUME Documented, TypedRecording, queued # <<>>, queued' = Tail(queued), UNCHANGED <<channel, doc, relayed, recorded>>,
         NEW lo \in Counts, NEW mid \in Counts, NEW top \in Counts, InLine(lo, mid, top)
  PROVE  \E up \in Counts : /\ InLine(up, mid, top)'
                            /\ \A d \in Docs : lo[d] <= up[d]
                            /\ Head(queued).cmd # "chunk" => up = lo
                            /\ Head(queued).cmd = "chunk" => LET c == Head(queued).of IN
                                 up[c[1]] = c[2] /\ c[2] = lo[c[1]] + 1 /\ \A d \in Docs : d # c[1] => up[d] = lo[d]
  <1> DEFINE m == Head(queued)
  <1>1. queued \in Seq(Msgs) /\ m \in Msgs
    <2>1. queued \in Seq(Msgs) BY InMsgs, WiderSeq DEF TypedRecording
    <2> QED BY <2>1, TailIs
  <1>2. /\ channel' = channel /\ doc' = doc /\ relayed' = relayed /\ recorded' = recorded /\ doc \in Docs /\ Docs \subseteq Int
        /\ \A d \in Docs : lo[d] \in Nat /\ mid[d] \in Nat /\ Line(queued, d, lo[d], mid[d])
    <2>1. doc \in Docs /\ Docs \subseteq Int BY DEF TypedRecording, Docs
    <2>2. \A d \in Docs : lo[d] \in Nat /\ mid[d] \in Nat BY DEF Counts
    <2> QED BY <2>1, <2>2 DEF InLine
  <1>3. CASE m.cmd # "chunk"
    <2>1. \A d \in Docs : Line(queued', d, lo[d], mid[d])
      <3> TAKE d \in Docs
      <3> QED BY <1>1, <1>2, <1>3, LineTail DEF Is
    <2>2. InLine(lo, mid, top)' BY <1>2, <2>1 DEF InLine
    <2>3. \A d \in Docs : lo[d] <= lo[d] BY <1>2
    <2> QED BY <1>3, <2>2, <2>3
  <1>4. CASE m.cmd = "chunk"
    <2> DEFINE d == m.of[1]
    <2>1. d \in Docs /\ Is(m, d) BY <1>1, <1>4, MsgIs DEF Is
    <2>2. m.of[2] = lo[d] + 1 /\ Line(queued', d, lo[d] + 1, mid[d]) BY <1>1, <1>2, <2>1, LineHead
    <2>3. PICK up \in Counts : up[d] = lo[d] + 1 /\ \A e \in Docs : e # d => up[e] = lo[e] BY <2>1, OneUp
    <2>4. ~(d > doc)
      <3>1. ASSUME d > doc PROVE FALSE
        <4>1. lo[d] = 0 /\ mid[d] = 0 BY <2>1, <3>1 DEF InLine
        <4>2. 0 + 1 <= 0 BY <2>2, <4>1 DEF Line
        <4> QED BY <4>2
      <3> QED BY <3>1
    <2> HIDE DEF d
    <2>5. ASSUME NEW e \in Docs
          PROVE  Line(queued', e, up[e], mid[e]) /\ lo[e] <= up[e] /\ (e > doc => up[e] = 0)
      <3>1. CASE e = d BY <1>2, <2>1, <2>2, <2>3, <2>4, <3>1
      <3>2. CASE e # d
        <4>1. ~Is(m, e) BY <2>1, <3>2 DEF Is
        <4>2. Line(queued', e, lo[e], mid[e]) BY <1>1, <1>2, <4>1, LineTail
        <4>3. up[e] = lo[e] /\ lo[e] \in Nat BY <1>2, <2>3, <3>2
        <4>4. e > doc => lo[e] = 0 BY DEF InLine
        <4> QED BY <4>2, <4>3, <4>4
      <3> QED BY <3>1, <3>2
    <2>6. InLine(up, mid, top)' BY <1>2, <2>5 DEF InLine
    <2> QED BY <1>4, <2>2, <2>3, <2>5, <2>6 DEF d
  <1> QED BY <1>3, <1>4

LEMMA BehindOn ==
  ASSUME TypedRecording, UNCHANGED <<recording, posts, counted>>, NEW lo \in Counts, NEW up \in Counts, Behind(lo),
         \A d \in Docs : lo[d] <= up[d], Documented,
         step.at = "calling" => Head(queued).of[2] <= up[Head(queued).of[1]] \/ (step' = step /\ Head(queued') = Head(queued))
  PROVE  Behind(up)'
  <1>1. recording' = recording /\ posts' = posts /\ counted' = counted OBVIOUS
  <1>2. \A d \in Docs, n \in Nat : n <= lo[d] => n <= up[d] BY DEF Counts
  <1>3. \A x \in Pieces : x[1] \in Docs /\ x[2] \in Nat BY ChunkIs DEF Pieces
  <1>4. \A c \in R!Chunks : \A i \in DOMAIN recording[c].content : recording[c].content[i] \in Pieces
    BY DEF TypedRecording, AppRecordings
  <1>5. \A c \in R!Chunks : \A i \in DOMAIN recording[c].content :
          recording[c].content[i][2] <= up[recording[c].content[i][1]]
    BY <1>2, <1>3, <1>4 DEF Behind
  <1>6. \A c \in R!Chunks : recording[c].at # "none" =>
          c[2] <= up[c[1]] \/ (step'.at = "calling" /\ step'.id = c /\ Head(queued').of = c)
    <2> SUFFICES ASSUME NEW c \in R!Chunks, recording[c].at # "none"
                 PROVE  c[2] <= up[c[1]] \/ (step'.at = "calling" /\ step'.id = c /\ Head(queued').of = c)
      OBVIOUS
    <2>1. CASE c[2] <= lo[c[1]] BY <1>2, <2>1, ChunkIs
    <2>2. CASE step.at = "calling" /\ step.id = c /\ Head(queued).of = c BY <2>2
    <2> QED BY <2>1, <2>2 DEF Behind
  <1>7. \A p \in posts : p.do = "chunk" => p.of[2] <= up[p.of[1]]
    <2> SUFFICES ASSUME NEW p \in posts, p.do = "chunk" PROVE p.of[2] <= up[p.of[1]] OBVIOUS
    <2>1. p.of \in R!Chunks BY DEF TypedRecording, Posts
    <2> QED BY <1>2, <2>1, ChunkIs DEF Behind
  <1>8. \A c \in counted : c[2] <= up[c[1]]
    <2> TAKE c \in counted
    <2>1. c \in R!Chunks BY DEF TypedRecording
    <2> QED BY <1>2, <2>1, ChunkIs DEF Behind
  <1> QED BY <1>1, <1>5, <1>6, <1>7, <1>8 DEF Behind

(* A recording forgotten, or kept as it is, changes nothing of what the app has. *)
LEMMA ForgetKeeps ==
  ASSUME UNCHANGED <<recording, posts, counted, killed>>, rec' = None \/ rec' = rec, Placed, Kept
  PROVE  Placed' /\ Kept' /\ \A lo \in Counts, up \in Counts :
           Filled(lo) /\ (HasApp' => up[rec.doc] = lo[rec.doc]) => Filled(up)'
  <1>1. recording' = recording /\ posts' = posts /\ counted' = counted /\ killed' = killed OBVIOUS
  <1>2. HasApp' => HasApp /\ rec' = rec BY DEF HasApp
  <1>3. R!OnceOnly' <=> R!OnceOnly BY <1>1 DEF R!OnceOnly
  <1>4. Placed' BY <1>1, <1>3 DEF Placed
  <1>5. \A c : Uncounted(c)' <=> Uncounted(c) BY <1>1 DEF Uncounted
  <1>6. Kept' BY <1>1, <1>2, <1>5 DEF Kept
  <1>7. R!Unbroken' <=> R!Unbroken BY <1>1 DEF R!Unbroken
  <1>8. \A c : Grows(c)' => Grows(c) BY <1>1, <1>2 DEF Grows
  <1>9. ASSUME NEW lo \in Counts, NEW up \in Counts, Filled(lo), HasApp' => up[rec.doc] = lo[rec.doc] PROVE Filled(up)'
    BY <1>1, <1>2, <1>7, <1>8, <1>9 DEF Filled
  <1> QED BY <1>4, <1>6, <1>9

LEMMA TailOfTasks ==
  ASSUME TypedRecording, queued # <<>>, queued' = Tail(queued)
  PROVE  /\ queued' \in Seq(Queued) /\ Head(queued) \in Queued
         /\ \A i \in 1 .. Len(queued) : (i = 1 /\ queued[i] = Head(queued)) \/ \E j \in 1 .. Len(queued') : queued'[j] = queued[i]
  <1>1. queued \in Seq(Queued) BY DEF TypedRecording
  <1>2. /\ queued' \in Seq(Queued) /\ Head(queued) = queued[1] /\ Head(queued) \in Queued
        /\ DOMAIN queued = 1 .. Len(queued) /\ DOMAIN queued' = 1 .. Len(queued')
        /\ \A i \in DOMAIN queued : i # 1 => i - 1 \in DOMAIN queued' /\ queued'[i - 1] = queued[i]
    <2>1. DOMAIN Tail(queued) = 1 .. Len(Tail(queued)) BY <1>1, TailIs
    <2> QED BY <1>1, <2>1, TailIs
  <1> QED BY <1>2

LEMMA HeadIs == ASSUME TypedRecording, queued # <<>> PROVE Head(queued) \in Queued /\ Head(queued) \in Msgs
  <1>1. queued \in Seq(Queued) BY DEF TypedRecording
  <1> QED BY <1>1, TailIs, InMsgs

(* What a step of the key's tasks has to show. *)
LEMMA KeyKeeps ==
  ASSUME Documented, RecordInv, UNCHANGED <<recording, posts, counted, killed>>, rec' = None \/ rec' = rec,
         UNCHANGED <<doc, recorded, capturing, open, relayed, channel>>,
         step.at # "calling",
         queued' = queued \/ (queued # <<>> /\ queued' = Tail(queued) /\ (HasApp' => Head(queued).cmd # "chunk")),
         TypedRecording', InPhase', Reading', R!ClosedOnceRevoked'
  PROVE  RecordInv'
  <1>1. Placed' /\ Kept' BY ForgetKeeps DEF RecordInv
  <1>2. PageInOrder' BY PageStays DEF RecordInv
  <1>3. TypedRecording BY DEF RecordInv
  <1>4. PICK lo, mid, top \in Counts : InLine(lo, mid, top) /\ Behind(lo) /\ Filled(lo) BY DEF RecordInv, Lined
  <1>5. CASE queued' = queued
    <2>1. InLine(lo, mid, top)' BY <1>4, <1>5, LineSame
    <2>2. \A d \in Docs : lo[d] <= lo[d] BY DEF Counts
    <2>3. Behind(lo)' BY <1>3, <1>4, <2>2, BehindOn
    <2>4. Filled(lo)' BY <1>4, ForgetKeeps DEF RecordInv
    <2>5. Lined' BY <2>1, <2>3, <2>4 DEF Lined
    <2> QED BY <1>1, <1>2, <2>5 DEF RecordInv
  <1>6. CASE queued # <<>> /\ queued' = Tail(queued) /\ (HasApp' => Head(queued).cmd # "chunk")
    <2>1. PICK up \in Counts : /\ InLine(up, mid, top)'
                               /\ \A d \in Docs : lo[d] <= up[d]
                               /\ Head(queued).cmd # "chunk" => up = lo
      BY <1>3, <1>4, <1>6, HeadGoes
    <2>2. Behind(up)' BY <1>3, <1>4, <2>1, BehindOn
    <2>3. HasApp' => up = lo BY <1>6, <2>1
    <2>4. Filled(up)' BY <1>4, <2>3, ForgetKeeps DEF RecordInv
    <2>5. Lined' BY <2>1, <2>2, <2>4 DEF Lined
    <2> QED BY <1>1, <1>2, <2>5 DEF RecordInv
  <1> QED BY <1>5, <1>6

LEMMA TabAsks == ASSUME TypedRecording, Reading, step.at # "asking", tab' = Append(tab, [do |-> "read", to |-> None]), step'.at = "asking"
                 PROVE  tab' \in Seq(R!TabTasks) /\ Reading'
  <1> DEFINE x == [do |-> "read", to |-> None]
  <1>1. x \in R!TabTasks BY DEF R!TabTasks
  <1>2. /\ tab \in Seq(R!TabTasks) /\ tab' \in Seq(R!TabTasks) /\ Len(tab) \in Nat
        /\ DOMAIN tab = 1 .. Len(tab) /\ DOMAIN tab' = 1 .. (Len(tab) + 1)
        /\ \A i \in DOMAIN tab : tab'[i] = tab[i]
    BY <1>1, AppendProperties DEF TypedRecording
  <1>3. \A i \in DOMAIN tab : tab[i].do # "read" BY DEF Reading
  <1>4. \A i \in DOMAIN tab' : tab'[i].do = "read" => i = Len(tab) + 1 BY <1>2, <1>3
  <1> QED BY <1>2, <1>4 DEF Reading

LEMMA NoReads == ASSUME Reading, step.at # "asking", tab' = tab PROVE Reading'
  BY DEF Reading

LEMMA RecIs == ASSUME TypedRecording, Documented
               PROVE  /\ rec # None => rec \in OpenRecs /\ rec.app \in R!Chunks \cup {None} /\ rec.first \in R!Chunks /\ rec.doc \in Docs
                                       /\ rec.some \in BOOLEAN
                      /\ HasApp => rec.app \in R!Chunks
  BY DEF TypedRecording, OpenRecs, HasApp

LEMMA CloseTaskKeeps == ASSUME Documented, RecordInv, R!CloseTask PROVE RecordInv'
  <1> DEFINE m == Head(queued)
             closes == rec # None /\ (m.cmd = "close" => rec.first = m.of)
  <1>1. /\ queued # <<>> /\ step = R!Idle /\ m.cmd \in {"finish", "close"}
        /\ IF closes THEN R!Close ELSE R!Over /\ rec' = rec /\ stored' = stored
        /\ UNCHANGED <<recording, posts, counted, killed>> /\ UNCHANGED <<doc, recorded, capturing, open, relayed, channel>>
        /\ tab' = tab /\ after' = after /\ capture' = capture /\ timers' = timers /\ navigated' = navigated
    BY DEF R!CloseTask, R!page
  <1>2. TypedRecording /\ InPhase /\ Reading BY DEF RecordInv
  <1>3. step.at = "idle" /\ stored = rec BY <1>1, <1>2 DEF R!Idle, InPhase
  <1>4. R!Idle \in [at : {"idle", "asking", "closing", "starting", "calling"}, id : R!Chunks \cup {None}] BY DEF R!Idle
  <1>5. R!Over => queued' \in Seq(Queued) BY <1>1, <1>2, TailOfTasks DEF R!Over
  <1>6. Reading' BY <1>1, <1>2, <1>3, NoReads
  <1>7. CASE closes /\ rec.app # None
    <2>1. rec' = None /\ stored' = None /\ step' = [at |-> "closing", id |-> rec.app] /\ queued' = queued
      BY <1>1, <1>7 DEF R!Close, R!Forget
    <2>2. HasApp /\ rec.app \in R!Chunks /\ recording[rec.app].at # "none" BY <1>2, <1>7, RecIs DEF HasApp, InPhase
    <2>3. TypedRecording' BY <1>1, <1>2, <2>1, <2>2 DEF TypedRecording
    <2>4. InPhase' BY <1>1, <2>1, <2>2 DEF InPhase, HasApp
    <2>5. R!ClosedOnceRevoked' BY <2>1 DEF R!ClosedOnceRevoked
    <2> QED BY <1>1, <1>3, <1>6, <2>1, <2>3, <2>4, <2>5, KeyKeeps
  <1>8. CASE closes /\ rec.app = None
    <2>1. rec' = None /\ stored' = None /\ step' = R!Idle /\ queued' = Tail(queued)
      BY <1>1, <1>8 DEF R!Close, R!Forget, R!Over
    <2>2. TypedRecording' BY <1>1, <1>2, <1>4, <1>5, <2>1 DEF TypedRecording, R!Over
    <2>3. InPhase' BY <2>1 DEF InPhase, HasApp, R!Idle
    <2>4. R!ClosedOnceRevoked' BY <2>1 DEF R!ClosedOnceRevoked
    <2>5. ~HasApp' BY <2>1 DEF HasApp
    <2> QED BY <1>1, <1>3, <1>6, <2>1, <2>2, <2>3, <2>4, <2>5, KeyKeeps
  <1>9. CASE ~closes
    <2>1. rec' = rec /\ stored' = stored /\ step' = R!Idle /\ queued' = Tail(queued) BY <1>1, <1>9 DEF R!Over
    <2>2. TypedRecording' BY <1>1, <1>2, <1>4, <1>5, <2>1 DEF TypedRecording, R!Over
    <2>3. InPhase'
      <3>1. HasApp' <=> HasApp BY <2>1 DEF HasApp
      <3> QED BY <1>1, <1>2, <1>3, <2>1, <3>1 DEF InPhase, R!Idle
    <2>4. R!ClosedOnceRevoked'
      <3> SUFFICES ASSUME ~killed, rec # None, rec.doc # capture
                   PROVE  \/ \E a \in after : a.do = "revoke" \/ a.to # rec.doc
                          \/ rec.first \in timers
                          \/ \E i \in 1 .. Len(queued') : queued'[i].cmd = "finish" \/ queued'[i] = [cmd |-> "close", of |-> rec.first]
        BY <1>1, <2>1 DEF R!ClosedOnceRevoked
      <3>1. CASE \E i \in 1 .. Len(queued) : queued[i].cmd = "finish" \/ queued[i] = [cmd |-> "close", of |-> rec.first]
        <4>1. PICK i \in 1 .. Len(queued) : queued[i].cmd = "finish" \/ queued[i] = [cmd |-> "close", of |-> rec.first] BY <3>1
        <4>2. m.cmd = "close" /\ rec.first # m.of BY <1>1, <1>9
        <4>3. queued[i] # m BY <4>1, <4>2
        <4>4. PICK j \in 1 .. Len(queued') : queued'[j] = queued[i] BY <1>1, <1>2, <2>1, <4>3, TailOfTasks
        <4> QED BY <4>1, <4>4
      <3> QED BY <3>1 DEF RecordInv, R!ClosedOnceRevoked
    <2> QED BY <1>1, <1>3, <1>6, <2>1, <2>2, <2>3, <2>4, KeyKeeps
  <1> QED BY <1>7, <1>8, <1>9

LEMMA ChunkTaskKeeps == ASSUME Documented, RecordInv, R!ChunkTask PROVE RecordInv'
  <1> DEFINE m == Head(queued)
             d == m.of[1]
  <1>1. /\ queued # <<>> /\ step = R!Idle /\ m.cmd = "chunk"
        /\ \/ /\ R!Anothers(d) /\ rec.app # None
              /\ R!Forget /\ step' = [at |-> "closing", id |-> rec.app] /\ queued' = queued /\ tab' = tab
           \/ ((R!Anothers(d) /\ rec.app = None /\ R!Forget) \/ (rec = None /\ rec' = rec /\ stored' = stored)) /\ R!Asks /\ queued' = queued
           \/ /\ rec # None /\ ~R!Anothers(d) /\ rec.app = None
              /\ R!Over /\ tab' = tab /\ rec' = rec /\ stored' = stored
           \/ /\ rec # None /\ ~R!Anothers(d) /\ rec.app # None
              /\ step' = [at |-> "calling", id |-> rec.app] /\ queued' = queued /\ tab' = tab /\ rec' = rec /\ stored' = stored
        /\ UNCHANGED <<recording, posts, counted, killed>> /\ UNCHANGED <<doc, recorded, capturing, open, relayed, channel>>
        /\ after' = after /\ capture' = capture /\ timers' = timers /\ navigated' = navigated
    BY DEF R!ChunkTask, R!page
  <1>2. TypedRecording /\ InPhase /\ Reading BY DEF RecordInv
  <1>3. step.at = "idle" /\ stored = rec BY <1>1, <1>2 DEF R!Idle, InPhase
  <1>4. R!Idle \in [at : {"idle", "asking", "closing", "starting", "calling"}, id : R!Chunks \cup {None}] BY DEF R!Idle
  <1> HIDE DEF d, m
  <1>5. CASE R!Anothers(d) /\ rec.app # None /\ R!Forget /\ step' = [at |-> "closing", id |-> rec.app] /\ queued' = queued /\ tab' = tab
    <2>1. rec' = None /\ stored' = None BY <1>5 DEF R!Forget
    <2>2. HasApp /\ rec.app \in R!Chunks /\ recording[rec.app].at # "none" BY <1>2, <1>5, RecIs DEF HasApp, InPhase, R!Anothers
    <2>3. TypedRecording' BY <1>1, <1>2, <1>5, <2>1, <2>2 DEF TypedRecording
    <2>4. InPhase' BY <1>1, <1>5, <2>1, <2>2 DEF InPhase, HasApp
    <2>5. R!ClosedOnceRevoked' BY <2>1 DEF R!ClosedOnceRevoked
    <2>6. Reading' BY <1>2, <1>3, <1>5, NoReads
    <2> QED BY <1>1, <1>3, <1>5, <2>1, <2>3, <2>4, <2>5, <2>6, KeyKeeps
  <1>6. CASE ((R!Anothers(d) /\ rec.app = None /\ R!Forget) \/ (rec = None /\ rec' = rec /\ stored' = stored)) /\ R!Asks /\ queued' = queued
    <2>1. rec' = None /\ stored' = None BY <1>3, <1>6 DEF R!Forget
    <2>2. step' = [at |-> "asking", id |-> None] /\ tab' = Append(tab, [do |-> "read", to |-> None]) /\ queued' = queued BY <1>6 DEF R!Asks
    <2>3. tab' \in Seq(R!TabTasks) /\ Reading' BY <1>2, <1>3, <2>2, TabAsks
    <2>4. TypedRecording' BY <1>1, <1>2, <2>1, <2>2, <2>3 DEF TypedRecording
    <2>5. InPhase' BY <1>1, <2>1, <2>2 DEF InPhase, HasApp, m
    <2>6. R!ClosedOnceRevoked' BY <2>1 DEF R!ClosedOnceRevoked
    <2> QED BY <1>1, <1>3, <2>1, <2>2, <2>3, <2>4, <2>5, <2>6, KeyKeeps
  <1>7. CASE rec # None /\ ~R!Anothers(d) /\ rec.app = None /\ R!Over /\ tab' = tab /\ rec' = rec /\ stored' = stored
    <2>1. step' = R!Idle /\ queued' = Tail(queued) BY <1>7 DEF R!Over
    <2>2. queued' \in Seq(Queued) BY <1>1, <1>2, <2>1, TailOfTasks
    <2>3. TypedRecording' BY <1>1, <1>2, <1>4, <1>7, <2>1, <2>2 DEF TypedRecording
    <2>4. ~HasApp' BY <1>7 DEF HasApp
    <2>5. InPhase' BY <1>1, <1>2, <1>3, <1>7, <2>1, <2>4 DEF InPhase, R!Idle
    <2>6. \A i \in 1 .. Len(queued) : queued[i].cmd # "chunk" => \E j \in 1 .. Len(queued') : queued'[j] = queued[i]
      BY <1>1, <1>2, <2>1, TailOfTasks DEF m
    <2>7. R!ClosedOnceRevoked' BY <1>1, <1>2, <1>7, <2>6, ClosedStays DEF RecordInv
    <2>8. Reading' BY <1>2, <1>3, <1>7, NoReads
    <2> QED BY <1>1, <1>3, <1>7, <2>1, <2>3, <2>4, <2>5, <2>7, <2>8, KeyKeeps
  <1>8. CASE rec # None /\ ~R!Anothers(d) /\ rec.app # None /\ step' = [at |-> "calling", id |-> rec.app] /\ queued' = queued
             /\ tab' = tab /\ rec' = rec /\ stored' = stored
    <2>1. HasApp /\ (HasApp' <=> HasApp) /\ rec.app \in R!Chunks /\ rec.doc = d BY <1>2, <1>8, RecIs DEF HasApp, R!Anothers
    <2>2. TypedRecording' BY <1>1, <1>2, <1>8, <2>1 DEF TypedRecording
    <2>3. InPhase' BY <1>1, <1>2, <1>3, <1>8, <2>1 DEF InPhase, d, m
    <2>4. R!ClosedOnceRevoked' BY <1>1, <1>8 DEF R!ClosedOnceRevoked, RecordInv
    <2>5. Reading' BY <1>2, <1>3, <1>8, NoReads
    <2> QED BY <1>1, <1>3, <1>8, <2>2, <2>3, <2>4, <2>5, KeyKeeps
  <1> QED BY <1>1, <1>5, <1>6, <1>7, <1>8

(* A recording the app has not is as none. *)
LEMMA NewKeeps ==
  ASSUME Documented, UNCHANGED <<recording, posts, counted, killed>>, ~HasApp', rec'.app = None \/ rec' = None, Placed, Kept, TypedRecording
  PROVE  Placed' /\ Kept' /\ \A lo \in Counts : Filled(lo) => Filled(lo)'
  <1>1. recording' = recording /\ posts' = posts /\ counted' = counted /\ killed' = killed OBVIOUS
  <1>2. R!OnceOnly' <=> R!OnceOnly BY <1>1 DEF R!OnceOnly
  <1>3. Placed' BY <1>1, <1>2 DEF Placed
  <1>4. \A c : Uncounted(c)' <=> Uncounted(c) BY <1>1 DEF Uncounted
  <1>5. \A p \in posts : p.id # None BY DEF TypedRecording, Posts, Documented
  <1>6. Kept' BY <1>1, <1>4, <1>5 DEF Kept
  <1>7. R!Unbroken' <=> R!Unbroken BY <1>1 DEF R!Unbroken
  <1>8. \A c : Grows(c)' => Grows(c) BY <1>1 DEF Grows
  <1>9. ASSUME NEW lo \in Counts, Filled(lo) PROVE Filled(lo)' BY <1>1, <1>7, <1>8, <1>9 DEF Filled
  <1> QED BY <1>3, <1>6, <1>9

LEMMA MayRecordKeeps == ASSUME Documented, RecordInv, R!MayRecord PROVE RecordInv'
  <1> DEFINE c == Head(queued).of
  <1>1. /\ tab # <<>> /\ Head(tab).do = "read" /\ tab' = Tail(tab)
        /\ IF capture = c[1]
           THEN /\ rec' = [app |-> None, doc |-> c[1], first |-> c, some |-> FALSE]
                /\ step' = [at |-> "starting", id |-> None] /\ queued' = queued
           ELSE R!Over /\ rec' = rec
        /\ stored' = stored
        /\ UNCHANGED <<recording, posts, counted, killed>> /\ UNCHANGED <<doc, recorded, capturing, open, relayed, channel>>
        /\ after' = after /\ capture' = capture /\ timers' = timers /\ navigated' = navigated
    BY DEF R!MayRecord, R!page
  <1>2. TypedRecording /\ InPhase /\ Reading BY DEF RecordInv
  <1>3. step.at = "asking" /\ tab' \in Seq(R!TabTasks) /\ \A i \in DOMAIN tab' : tab'[i].do # "read" BY <1>1, <1>2, TabLess
  <1>4. Reading' BY <1>3 DEF Reading
  <1>5. queued # <<>> /\ Head(queued).cmd = "chunk" /\ rec = None /\ stored = None BY <1>2, <1>3 DEF InPhase
  <1>6. c \in R!Chunks /\ c[1] \in Docs
    <2>1. Head(queued) \in Msgs BY <1>2, <1>5, HeadIs
    <2> QED BY <1>5, <2>1, MsgIs
  <1> HIDE DEF c
  <1>7. CASE capture = c[1]
    <2>1. rec' = [app |-> None, doc |-> c[1], first |-> c, some |-> FALSE] /\ step' = [at |-> "starting", id |-> None] /\ queued' = queued
      BY <1>1, <1>7
    <2>2. rec' \in OpenRecs /\ rec'.app = None /\ rec'.doc = c[1] /\ rec'.first = c BY <1>6, <2>1 DEF OpenRecs
    <2>3. ~HasApp' BY <2>2 DEF HasApp
    <2>4. TypedRecording' BY <1>1, <1>2, <1>3, <2>1, <2>2 DEF TypedRecording
    <2>5. InPhase' BY <1>1, <1>5, <2>1, <2>2, <2>3 DEF InPhase, c
    <2>6. R!ClosedOnceRevoked' BY <1>1, <1>7, <2>2 DEF R!ClosedOnceRevoked
    <2>7. Placed' /\ Kept' /\ \A lo \in Counts : Filled(lo) => Filled(lo)' BY <1>1, <1>2, <2>2, <2>3, NewKeeps DEF RecordInv
    <2>8. PageInOrder' BY <1>1, PageStays DEF RecordInv
    <2>9. Lined'
      <3>1. PICK lo, mid, top \in Counts : InLine(lo, mid, top) /\ Behind(lo) /\ Filled(lo) BY DEF RecordInv, Lined
      <3>2. InLine(lo, mid, top)' BY <1>1, <2>1, <3>1, LineSame
      <3>3. \A d \in Docs : lo[d] <= lo[d] BY DEF Counts
      <3>4. Behind(lo)' BY <1>1, <1>2, <1>3, <3>1, <3>3, BehindOn
      <3> QED BY <2>7, <3>1, <3>2, <3>4 DEF Lined
    <2> QED BY <1>4, <2>4, <2>5, <2>6, <2>7, <2>8, <2>9 DEF RecordInv
  <1>8. CASE capture # c[1]
    <2>1. rec' = rec /\ step' = R!Idle /\ queued' = Tail(queued) BY <1>1, <1>8 DEF R!Over
    <2>2. R!Idle \in [at : {"idle", "asking", "closing", "starting", "calling"}, id : R!Chunks \cup {None}] BY DEF R!Idle
    <2>3. queued' \in Seq(Queued) BY <1>2, <1>5, <2>1, TailOfTasks
    <2>4. TypedRecording' BY <1>1, <1>2, <1>3, <2>1, <2>2, <2>3 DEF TypedRecording
    <2>5. ~HasApp' BY <1>5, <2>1 DEF HasApp
    <2>6. InPhase' BY <1>1, <1>5, <2>1, <2>5 DEF InPhase, R!Idle
    <2>7. R!ClosedOnceRevoked' BY <1>5, <2>1 DEF R!ClosedOnceRevoked
    <2> QED BY <1>1, <1>3, <1>4, <1>5, <2>1, <2>4, <2>5, <2>6, <2>7, KeyKeeps
  <1> QED BY <1>7, <1>8

-----------------------------------------------------------------------------
(* The app.  Recordings that end, by whomever. *)
Ending ==
  /\ \A c \in R!Chunks : /\ recording'[c].content = recording[c].content
                         /\ recording'[c].at # "none" <=> recording[c].at # "none"
                         /\ recording'[c].at = "aborted" => recording[c].at = "aborted" \/ Uncounted(c)
  /\ \A p \in posts' : p \in posts \/ (p.do = "finish" /\ recording[p.id].at # "none" /\ ~HasApp')
  /\ counted' = counted /\ killed' = killed
  /\ rec' = rec

LEMMA EndingKeeps ==
  ASSUME Documented, TypedRecording, TypedRecording', Ending, Placed, Kept
  PROVE  Placed' /\ Kept' /\ \A lo \in Counts, up \in Counts :
           Filled(lo) /\ (HasApp' => up[rec.doc] = lo[rec.doc]) => Filled(up)'
  <1>1. /\ counted' = counted /\ killed' = killed /\ rec' = rec /\ (HasApp' <=> HasApp)
        /\ \A c \in R!Chunks : recording'[c].content = recording[c].content
        /\ \A p \in posts' : p.do \in {"chunk", "abort"} => p \in posts
        /\ HasApp => \A p \in posts' : p \in posts
        /\ \A p \in posts' : p.id \in R!Chunks
    <2>1. counted' = counted /\ killed' = killed /\ rec' = rec BY DEF Ending
    <2>2. HasApp' <=> HasApp BY <2>1 DEF HasApp
    <2>3. \A c \in R!Chunks : recording'[c].content = recording[c].content BY DEF Ending
    <2>4. \A p \in posts' : p \in posts \/ (p.do = "finish" /\ ~HasApp') BY DEF Ending
    <2>5. \A p \in posts' : p.id \in R!Chunks BY DEF TypedRecording, Posts
    <2> QED BY <2>1, <2>2, <2>3, <2>4, <2>5
  <1>2. R!OnceOnly'
    <2> SUFFICES ASSUME NEW c \in R!Chunks, NEW e \in R!Chunks,
                        NEW i \in 1 .. Len(recording'[c].content), NEW j \in 1 .. Len(recording'[e].content),
                        R!Whole(recording'[c].content[i]) = R!Whole(recording'[e].content[j])
                 PROVE  c = e /\ i = j
      BY DEF R!OnceOnly, R!Whole
    <2>1. recording'[c].content = recording[c].content /\ recording'[e].content = recording[e].content BY <1>1
    <2> QED BY <2>1 DEF Placed, R!OnceOnly
  <1>3. \A p \in posts' : recording'[p.id].at # "none" BY <1>1 DEF Ending, Placed
  <1>4. Placed' BY <1>1, <1>2, <1>3 DEF Placed
  <1>5. \A c \in R!Chunks : Uncounted(c)' <=> Uncounted(c) BY <1>1 DEF Uncounted
  <1>6. \A c \in R!Chunks : recording'[c].at = "aborted" => Uncounted(c)' BY <1>5 DEF Ending, Kept
  <1>7. HasApp => rec.app \in R!Chunks BY RecIs
  <1>8. Kept' BY <1>1, <1>5, <1>6, <1>7 DEF Kept
  <1>9. R!Unbroken' <=> R!Unbroken BY <1>1 DEF R!Unbroken
  <1>10. \A c \in R!Chunks : Grows(c)' => Grows(c) BY <1>1 DEF Grows
  <1>11. ASSUME NEW lo \in Counts, NEW up \in Counts, Filled(lo), HasApp' => up[rec.doc] = lo[rec.doc] PROVE Filled(up)'
    <2> SUFFICES ASSUME ~killed
                 PROVE  /\ HasApp => rec.first[2] + Len(recording'[rec.app].content) = up[rec.doc] + 1 /\ \A p \in posts' : p.id # rec.app
                        /\ \A p \in posts' : p.do = "chunk" => p.of = <<p.id[1], p.id[2] + Len(recording'[p.id].content)>>
                        /\ \A p, q \in posts' : p.do = "chunk" /\ q.do = "chunk" /\ p.id = q.id => p = q
                        /\ R!Unbroken'
                        /\ \A c \in R!Chunks : Grows(c)' => \A i \in DOMAIN recording'[c].content :
                             recording'[c].content[i] = R!Whole(recording'[c].content[i])
      BY <1>1 DEF Filled, R!Whole
    <2>1. HasApp => rec.first[2] + Len(recording'[rec.app].content) = up[rec.doc] + 1 /\ \A p \in posts' : p.id # rec.app
      BY <1>1, <1>7, <1>11 DEF Filled
    <2>2. \A p \in posts' : p.do = "chunk" => p.of = <<p.id[1], p.id[2] + Len(recording'[p.id].content)>>
      <3> SUFFICES ASSUME NEW p \in posts', p.do = "chunk" PROVE p.of = <<p.id[1], p.id[2] + Len(recording'[p.id].content)>> OBVIOUS
      <3>1. p \in posts /\ recording'[p.id].content = recording[p.id].content BY <1>1
      <3> QED BY <1>11, <3>1 DEF Filled
    <2>3. \A p, q \in posts' : p.do = "chunk" /\ q.do = "chunk" /\ p.id = q.id => p = q BY <1>1, <1>11 DEF Filled
    <2>4. R!Unbroken' BY <1>9, <1>11 DEF Filled
    <2>5. \A c \in R!Chunks : Grows(c)' => \A i \in DOMAIN recording'[c].content :
            recording'[c].content[i] = R!Whole(recording'[c].content[i])
      BY <1>1, <1>10, <1>11 DEF Filled
    <2> QED BY <2>1, <2>2, <2>3, <2>4, <2>5
  <1> QED BY <1>4, <1>8, <1>11

LEMMA BehindEnds ==
  ASSUME Documented, TypedRecording, TypedRecording', Ending, NEW lo \in Counts, NEW up \in Counts, Behind(lo),
         \A d \in Docs : lo[d] <= up[d],
         step.at # "calling" \/ (step' = step /\ queued' = queued)
  PROVE  Behind(up)'
  <1>1. /\ counted' = counted /\ \A c \in R!Chunks : recording'[c].content = recording[c].content
        /\ \A p \in posts' : p.do = "chunk" => p \in posts
    BY DEF Ending
  <1>2. \A d \in Docs, n \in Nat : n <= lo[d] => n <= up[d] BY DEF Counts
  <1>3. \A x \in Pieces : x[1] \in Docs /\ x[2] \in Nat BY ChunkIs DEF Pieces
  <1>4. \A c \in R!Chunks : \A i \in DOMAIN recording[c].content : recording[c].content[i] \in Pieces
    BY DEF TypedRecording, AppRecordings
  <1>5. \A c \in R!Chunks : \A i \in DOMAIN recording[c].content :
          recording[c].content[i][2] <= up[recording[c].content[i][1]]
    BY <1>2, <1>3, <1>4 DEF Behind
  <1>6. \A c \in R!Chunks : recording'[c].at # "none" =>
          c[2] <= up[c[1]] \/ (step'.at = "calling" /\ step'.id = c /\ Head(queued').of = c)
    <2> SUFFICES ASSUME NEW c \in R!Chunks, recording'[c].at # "none"
                 PROVE  c[2] <= up[c[1]] \/ (step'.at = "calling" /\ step'.id = c /\ Head(queued').of = c)
      OBVIOUS
    <2>1. recording[c].at # "none" BY DEF Ending
    <2>2. CASE c[2] <= lo[c[1]] BY <1>2, <2>2, ChunkIs
    <2>3. CASE step.at = "calling" /\ step.id = c /\ Head(queued).of = c BY <2>3
    <2> QED BY <2>1, <2>2, <2>3 DEF Behind
  <1>7. \A p \in posts' : p.do = "chunk" => p.of[2] <= up[p.of[1]]
    <2> SUFFICES ASSUME NEW p \in posts', p.do = "chunk" PROVE p.of[2] <= up[p.of[1]] OBVIOUS
    <2>1. p \in posts /\ p.of \in R!Chunks BY <1>1 DEF TypedRecording, Posts
    <2> QED BY <1>2, <2>1, ChunkIs DEF Behind
  <1>8. \A c \in counted : c[2] <= up[c[1]]
    <2> TAKE c \in counted
    <2>1. c \in R!Chunks BY DEF TypedRecording
    <2> QED BY <1>2, <2>1, ChunkIs DEF Behind
  <1> QED BY <1>1, <1>5, <1>6, <1>7, <1>8 DEF Behind

(* Recordings end beside the background. *)
LEMMA EndsBeside ==
  ASSUME Documented, RecordInv, TypedRecording', Ending,
         UNCHANGED <<doc, recorded, capturing, open, relayed, channel, tab, after, capture, queued, step, stored, timers>>
  PROVE  RecordInv'
  <1>1. TypedRecording /\ rec' = rec /\ killed' = killed BY DEF RecordInv, Ending
  <1>2. Placed' /\ Kept' BY <1>1, EndingKeeps DEF RecordInv
  <1>3. PageInOrder' /\ Reading' BY PageStays, ReadingStays DEF RecordInv
  <1>4. R!ClosedOnceRevoked' BY <1>1 DEF RecordInv, R!ClosedOnceRevoked
  <1>5. InPhase'
    <2>1. HasApp' <=> HasApp BY <1>1 DEF HasApp
    <2>2. \A c \in R!Chunks : recording[c].at # "none" => recording'[c].at # "none" BY DEF Ending
    <2>3. HasApp => rec.app \in R!Chunks BY <1>1, RecIs
    <2> QED BY <1>1, <2>1, <2>2, <2>3 DEF RecordInv, InPhase
  <1>6. Lined'
    <2>1. PICK lo, mid, top \in Counts : InLine(lo, mid, top) /\ Behind(lo) /\ Filled(lo) BY DEF RecordInv, Lined
    <2>2. InLine(lo, mid, top)' BY <2>1, LineSame
    <2>3. \A d \in Docs : lo[d] <= lo[d] BY DEF Counts
    <2>4. Behind(lo)' BY <1>1, <2>1, <2>3, BehindEnds
    <2>5. Filled(lo)' BY <1>1, <2>1, EndingKeeps DEF RecordInv
    <2> QED BY <2>2, <2>4, <2>5 DEF Lined
  <1> QED BY <1>2, <1>3, <1>4, <1>5, <1>6 DEF RecordInv

Hows == {"finished", "aborted", "left"}

LEMMA EndsIs ==
  ASSUME TypedRecording, NEW c \in R!Chunks, NEW how \in Hows, R!Ends(c, how)
  PROVE  /\ recording' \in [R!Chunks -> AppRecordings]
         /\ recording'[c].at = how /\ recording'[c].content = recording[c].content
         /\ \A e \in R!Chunks : e # c => recording'[e] = recording[e]
  <1>1. recording \in [R!Chunks -> AppRecordings] BY DEF TypedRecording
  <1> DEFINE w == [recording[c] EXCEPT !.at = how]
  <1>2. w \in AppRecordings /\ w.at = how /\ w.content = recording[c].content BY <1>1 DEF AppRecordings, Hows
  <1>3. recording' = [recording EXCEPT ![c] = w] BY <1>1 DEF R!Ends
  <1> HIDE DEF w
  <1> QED BY <1>1, <1>2, <1>3

LEMMA CloseStaleKeeps == ASSUME Documented, RecordInv, R!CloseStale PROVE RecordInv'
  <1>1. PICK c \in R!Chunks : recording[c].at = "open" /\ R!Ends(c, "finished") BY DEF R!CloseStale
  <1>2. /\ UNCHANGED <<doc, recorded, capturing, open, relayed, channel, tab, after, capture, queued, step, stored, timers>>
        /\ rec' = rec /\ killed' = killed /\ counted' = counted /\ posts' = posts /\ navigated' = navigated
    BY DEF R!CloseStale, R!page, R!background
  <1>3. TypedRecording BY DEF RecordInv
  <1>4. /\ recording' \in [R!Chunks -> AppRecordings]
        /\ recording'[c].at = "finished" /\ recording'[c].content = recording[c].content
        /\ \A e \in R!Chunks : e # c => recording'[e] = recording[e]
    BY <1>1, <1>3, EndsIs DEF Hows
  <1>5. TypedRecording' BY <1>2, <1>3, <1>4 DEF TypedRecording
  <1>6. Ending BY <1>1, <1>2, <1>4 DEF Ending
  <1> QED BY <1>2, <1>5, <1>6, EndsBeside

LEMMA RecoverKeeps == ASSUME Documented, RecordInv, R!Recover PROVE RecordInv'
  <1>1. PICK c \in R!Chunks : recording[c].at = "left" /\ R!Ends(c, "finished") BY DEF R!Recover
  <1>2. /\ UNCHANGED <<doc, recorded, capturing, open, relayed, channel, tab, after, capture, queued, step, stored, timers>>
        /\ rec' = rec /\ killed' = killed /\ counted' = counted /\ posts' = posts /\ navigated' = navigated
    BY DEF R!Recover, R!page, R!background
  <1>3. TypedRecording BY DEF RecordInv
  <1>4. /\ recording' \in [R!Chunks -> AppRecordings]
        /\ recording'[c].at = "finished" /\ recording'[c].content = recording[c].content
        /\ \A e \in R!Chunks : e # c => recording'[e] = recording[e]
    BY <1>1, <1>3, EndsIs DEF Hows
  <1>5. TypedRecording' BY <1>2, <1>3, <1>4 DEF TypedRecording
  <1>6. Ending BY <1>1, <1>2, <1>4 DEF Ending
  <1> QED BY <1>2, <1>5, <1>6, EndsBeside

LEMMA AppRestartsKeeps == ASSUME Documented, RecordInv, R!AppRestarts PROVE RecordInv'
  <1>1. /\ recording' = [c \in R!Chunks |-> IF recording[c].at = "open" THEN [recording[c] EXCEPT !.at = "left"] ELSE recording[c]]
        /\ posts' = {}
        /\ UNCHANGED <<doc, recorded, capturing, open, relayed, channel, tab, after, capture, queued, step, stored, timers>>
        /\ rec' = rec /\ killed' = killed /\ counted' = counted /\ navigated' = navigated
    BY DEF R!AppRestarts, R!page, R!background
  <1>2. TypedRecording /\ recording \in [R!Chunks -> AppRecordings] BY DEF RecordInv, TypedRecording
  <1>3. ASSUME NEW c \in R!Chunks
        PROVE  /\ recording'[c] \in AppRecordings /\ recording'[c].content = recording[c].content
               /\ recording'[c].at # "none" <=> recording[c].at # "none"
               /\ recording'[c].at = "aborted" => recording[c].at = "aborted"
    <2>1. recording[c] \in AppRecordings BY <1>2
    <2>2. CASE recording[c].at = "open"
      <3>1. recording'[c] = [recording[c] EXCEPT !.at = "left"] BY <1>1, <2>2
      <3> QED BY <2>1, <2>2, <3>1 DEF AppRecordings
    <2>3. CASE recording[c].at # "open" BY <1>1, <2>1, <2>3
    <2> QED BY <2>2, <2>3
  <1>4. recording' \in [R!Chunks -> AppRecordings] BY <1>1, <1>3
  <1>5. TypedRecording' BY <1>1, <1>2, <1>4 DEF TypedRecording
  <1>6. Ending BY <1>1, <1>3 DEF Ending
  <1> QED BY <1>1, <1>5, <1>6, EndsBeside

LEMMA FinishCallKeeps == ASSUME Documented, RecordInv, R!FinishCall PROVE RecordInv'
  <1> DEFINE k == step.id
             m == Head(queued)
             f == [id |-> k, do |-> "finish", of |-> None]
  <1>1. /\ step.at = "closing"
        /\ \/ (IF recording[k].at = "open" THEN R!Ends(k, "finished") ELSE recording' = recording) /\ posts' = posts
           \/ posts' = posts \cup {f} /\ recording' = recording
        /\ IF m.cmd = "chunk" THEN R!Asks /\ queued' = queued ELSE R!Over /\ tab' = tab
        /\ UNCHANGED <<doc, recorded, capturing, open, relayed, channel>>
        /\ after' = after /\ capture' = capture /\ timers' = timers /\ navigated' = navigated
        /\ rec' = rec /\ stored' = stored /\ killed' = killed /\ counted' = counted
    BY DEF R!FinishCall, R!page
  <1>2. TypedRecording /\ InPhase /\ Reading BY DEF RecordInv
  <1>3. k \in R!Chunks /\ recording[k].at # "none" /\ rec = None /\ stored = None /\ queued # <<>> BY <1>1, <1>2 DEF InPhase
  <1>4. ~HasApp' /\ ~HasApp BY <1>1, <1>3 DEF HasApp
  <1>5. f \in Posts /\ f.do = "finish" /\ f.id = k BY <1>3 DEF Posts
  <1> HIDE DEF k, m, f
  <1>6. /\ recording' \in [R!Chunks -> AppRecordings] /\ posts' \subseteq Posts
        /\ \A p \in posts' : p \in posts \/ p = f
        /\ \A c \in R!Chunks : /\ recording'[c].content = recording[c].content
                               /\ recording'[c].at # "none" <=> recording[c].at # "none"
                               /\ recording'[c].at = "aborted" => recording[c].at = "aborted"
    <2>1. recording \in [R!Chunks -> AppRecordings] /\ posts \subseteq Posts BY <1>2 DEF TypedRecording
    <2>2. CASE R!Ends(k, "finished") /\ posts' = posts
      <3>1. /\ recording' \in [R!Chunks -> AppRecordings]
            /\ recording'[k].at = "finished" /\ recording'[k].content = recording[k].content
            /\ \A e \in R!Chunks : e # k => recording'[e] = recording[e]
        BY <1>2, <1>3, <2>2, EndsIs DEF Hows
      <3> QED BY <1>3, <2>1, <2>2, <3>1
    <2>3. CASE recording' = recording BY <1>1, <1>5, <2>1, <2>3
    <2> QED BY <1>1, <2>2, <2>3
  <1>7. Ending BY <1>1, <1>3, <1>4, <1>5, <1>6 DEF Ending
  <1>8. R!ClosedOnceRevoked' BY <1>1, <1>3 DEF R!ClosedOnceRevoked
  <1>9. PageInOrder' BY <1>1, PageStays DEF RecordInv
  <1>10. CASE m.cmd = "chunk"
    <2>1. step' = [at |-> "asking", id |-> None] /\ tab' = Append(tab, [do |-> "read", to |-> None]) /\ queued' = queued
      BY <1>1, <1>10 DEF R!Asks
    <2>2. tab' \in Seq(R!TabTasks) /\ Reading' BY <1>1, <1>2, <2>1, TabAsks
    <2>3. TypedRecording' BY <1>1, <1>2, <1>6, <2>1, <2>2 DEF TypedRecording
    <2>4. InPhase' BY <1>1, <1>3, <1>4, <1>10, <2>1 DEF InPhase, m
    <2>5. Placed' /\ Kept' BY <1>2, <1>7, <2>3, EndingKeeps DEF RecordInv
    <2>6. Lined'
      <3>1. PICK lo, mid, top \in Counts : InLine(lo, mid, top) /\ Behind(lo) /\ Filled(lo) BY DEF RecordInv, Lined
      <3>2. InLine(lo, mid, top)' BY <1>1, <2>1, <3>1, LineSame
      <3>3. \A d \in Docs : lo[d] <= lo[d] BY DEF Counts
      <3>4. Behind(lo)' BY <1>1, <1>2, <1>7, <2>3, <3>1, <3>3, BehindEnds
      <3>5. Filled(lo)' BY <1>2, <1>7, <2>3, <3>1, EndingKeeps DEF RecordInv
      <3> QED BY <3>2, <3>4, <3>5 DEF Lined
    <2> QED BY <1>8, <1>9, <2>2, <2>3, <2>4, <2>5, <2>6 DEF RecordInv
  <1>11. CASE m.cmd # "chunk"
    <2>1. step' = R!Idle /\ queued' = Tail(queued) /\ tab' = tab BY <1>1, <1>11 DEF R!Over
    <2>2. queued' \in Seq(Queued) BY <1>2, <1>3, <2>1, TailOfTasks
    <2>3. step' \in [at : {"idle", "asking", "closing", "starting", "calling"}, id : R!Chunks \cup {None}] BY <2>1 DEF R!Idle
    <2>4. TypedRecording' BY <1>1, <1>2, <1>6, <2>1, <2>2, <2>3 DEF TypedRecording
    <2>5. InPhase' BY <1>1, <1>3, <1>4, <2>1 DEF InPhase, R!Idle
    <2>6. Reading' BY <1>1, <1>2, <2>1, NoReads
    <2>7. Placed' /\ Kept' BY <1>2, <1>7, <2>4, EndingKeeps DEF RecordInv
    <2>8. Lined'
      <3>1. PICK lo, mid, top \in Counts : InLine(lo, mid, top) /\ Behind(lo) /\ Filled(lo) BY DEF RecordInv, Lined
      <3>2. InLine(lo, mid, top)' BY <1>1, <1>2, <1>3, <1>11, <2>1, <3>1, HeadGoes DEF m
      <3>3. \A d \in Docs : lo[d] <= lo[d] BY DEF Counts
      <3>4. Behind(lo)' BY <1>1, <1>2, <1>7, <2>4, <3>1, <3>3, BehindEnds
      <3>5. Filled(lo)' BY <1>2, <1>7, <2>4, <3>1, EndingKeeps DEF RecordInv
      <3> QED BY <3>2, <3>4, <3>5 DEF Lined
    <2> QED BY <1>8, <1>9, <2>4, <2>5, <2>6, <2>7, <2>8 DEF RecordInv
  <1> QED BY <1>10, <1>11

LEMMA StartCallKeeps == ASSUME Documented, RecordInv, R!StartCall PROVE RecordInv'
  <1>c. PICK c : c = Head(queued).of OBVIOUS
  <1>1. /\ step.at = "starting"
        /\ \/ /\ recording' = [recording EXCEPT ![c] = [at |-> "open", content |-> <<>>]]
              /\ rec' = [rec EXCEPT !.app = c] /\ stored' = rec' /\ step' = [at |-> "calling", id |-> c] /\ queued' = queued
           \/ R!Over /\ stored' = rec /\ rec' = rec /\ recording' = recording
        /\ UNCHANGED <<doc, recorded, capturing, open, relayed, channel>>
        /\ tab' = tab /\ after' = after /\ capture' = capture /\ timers' = timers /\ navigated' = navigated
        /\ killed' = killed /\ posts' = posts /\ counted' = counted
    BY <1>c DEF R!StartCall, R!page
  <1>2. TypedRecording /\ InPhase /\ Reading BY DEF RecordInv
  <1>3. /\ queued # <<>> /\ Head(queued).cmd = "chunk"
        /\ rec = [app |-> None, doc |-> c[1], first |-> c, some |-> FALSE]
    BY <1>1, <1>2, <1>c DEF InPhase
  <1>4. c \in R!Chunks /\ c[1] \in Docs /\ c[2] \in Nat BY <1>c, <1>2, <1>3, HeadIs, MsgIs
  <1>5. rec # None
    <2>1. [app |-> None, doc |-> c[1], first |-> c, some |-> FALSE] \in OpenRecs BY <1>4 DEF OpenRecs
    <2> QED BY <1>3, <2>1 DEF Documented
  <1>6. Reading' BY <1>1, <1>2, NoReads
  <1>7. PageInOrder' BY <1>1, PageStays DEF RecordInv
  <1>8. recording \in [R!Chunks -> AppRecordings] BY <1>2 DEF TypedRecording
  <1>9. CASE R!Over /\ stored' = rec /\ rec' = rec /\ recording' = recording
    <2>1. step' = R!Idle /\ queued' = Tail(queued) BY <1>9 DEF R!Over
    <2>2. queued' \in Seq(Queued) BY <1>2, <1>3, <2>1, TailOfTasks
    <2>3. step' \in [at : {"idle", "asking", "closing", "starting", "calling"}, id : R!Chunks \cup {None}] BY <2>1 DEF R!Idle
    <2>4. TypedRecording' BY <1>1, <1>2, <1>9, <2>2, <2>3 DEF TypedRecording
    <2>5. ~HasApp' BY <1>3, <1>9 DEF HasApp
    <2>6. InPhase' BY <1>2, <1>9, <2>1, <2>5 DEF InPhase, R!Idle
    <2>7. \A i \in 1 .. Len(queued) : queued[i].cmd # "chunk" => \E j \in 1 .. Len(queued') : queued'[j] = queued[i]
      BY <1>2, <1>3, <2>1, TailOfTasks
    <2>8. R!ClosedOnceRevoked' BY <1>1, <1>2, <1>9, <2>7, ClosedStays DEF RecordInv
    <2> QED BY <1>1, <1>3, <1>6, <1>9, <2>1, <2>4, <2>5, <2>6, <2>8, KeyKeeps
  <1>10. CASE /\ recording' = [recording EXCEPT ![c] = [at |-> "open", content |-> <<>>]]
              /\ rec' = [rec EXCEPT !.app = c] /\ stored' = rec' /\ step' = [at |-> "calling", id |-> c] /\ queued' = queued
    <2>1. /\ rec' = [app |-> c, doc |-> c[1], first |-> c, some |-> FALSE] /\ stored' = rec' /\ queued' = queued
          /\ step'.at = "calling" /\ step'.id = c
          /\ step' \in [at : {"idle", "asking", "closing", "starting", "calling"}, id : R!Chunks \cup {None}]
      BY <1>3, <1>4, <1>10
    <2>2. rec' \in OpenRecs /\ rec'.app = c /\ rec'.doc = c[1] /\ rec'.first = c /\ rec'.some = FALSE BY <1>4, <2>1 DEF OpenRecs
    <2>3. HasApp' /\ c # None BY <1>4, <2>2 DEF HasApp, Documented
    <2>4. /\ recording' \in [R!Chunks -> AppRecordings]
          /\ recording'[c].at = "open" /\ recording'[c].content = <<>> /\ \A e \in R!Chunks : e # c => recording'[e] = recording[e]
      <3> DEFINE w == [at |-> "open", content |-> <<>>]
      <3>1. w \in AppRecordings BY DEF AppRecordings
      <3> QED BY <1>4, <1>8, <1>10, <3>1
    <2>5. TypedRecording' BY <1>1, <1>2, <2>1, <2>2, <2>4 DEF TypedRecording
    <2>6. InPhase' BY <1>c, <1>3, <2>1, <2>2, <2>3, <2>4 DEF InPhase
    <2>7. R!ClosedOnceRevoked'
      <3>1. rec.doc = c[1] /\ rec.first = c BY <1>3
      <3> QED BY <1>1, <1>5, <2>1, <2>2, <3>1 DEF RecordInv, R!ClosedOnceRevoked
    <2>8. PICK lo, mid, top \in Counts : InLine(lo, mid, top) /\ Behind(lo) /\ Filled(lo) BY DEF RecordInv, Lined
    <2>9. c[2] = lo[c[1]] + 1 /\ lo[c[1]] \in Nat
      <3>1. queued \in Seq(Msgs) BY <1>2, InMsgs, WiderSeq DEF TypedRecording
      <3>2. lo[c[1]] \in Nat /\ mid[c[1]] \in Nat /\ Line(queued, c[1], lo[c[1]], mid[c[1]]) BY <1>4, <2>8 DEF InLine, Counts
      <3>3. Is(Head(queued), c[1]) BY <1>c, <1>3 DEF Is
      <3>4. Head(queued).of[2] = lo[c[1]] + 1 BY <1>3, <1>4, <3>1, <3>2, <3>3, LineHead
      <3> QED BY <1>c, <3>2, <3>4
    <2>10. recording[c].at = "none"
      <3>1. ~(c[2] <= lo[c[1]]) BY <1>4, <2>9
      <3> QED BY <1>1, <1>4, <2>8, <3>1 DEF Behind
    <2>11. \A p \in posts : p.id # c /\ p.id \in R!Chunks BY <1>2, <2>10 DEF RecordInv, Placed, TypedRecording, Posts
    <2>12. InLine(lo, mid, top)' BY <1>1, <2>1, <2>8, LineSame
    <2>13. Behind(lo)'
      <3>1. \A e \in R!Chunks : \A i \in DOMAIN recording'[e].content :
              recording'[e].content[i][2] <= lo[recording'[e].content[i][1]]
        BY <2>4, <2>8 DEF Behind
      <3>2. \A e \in R!Chunks : recording'[e].at # "none" =>
              e[2] <= lo[e[1]] \/ (step'.at = "calling" /\ step'.id = e /\ Head(queued').of = e)
        <4> TAKE e \in R!Chunks
        <4>1. CASE e = c BY <1>c, <2>1, <4>1
        <4>2. CASE e # c
          <5>1. recording'[e] = recording[e] BY <2>4, <4>2
          <5> QED BY <1>1, <2>8, <5>1 DEF Behind
        <4> QED BY <4>1, <4>2
      <3> QED BY <1>1, <2>8, <3>1, <3>2 DEF Behind
    <2>14. \A e \in R!Chunks : \A i \in DOMAIN recording'[e].content :
             i \in DOMAIN recording[e].content /\ recording'[e].content[i] = recording[e].content[i] /\ e # c
      BY <2>4
    <2>15. \A e \in R!Chunks : Uncounted(e) => Uncounted(e)' BY <1>1, <2>14 DEF Uncounted
    <2>16. Uncounted(c)'
      <3>1. \A i \in DOMAIN recording'[c].content : FALSE BY <2>14, <1>4
      <3> QED BY <3>1 DEF Uncounted
    <2>17. Kept'
      <3>1. \A e \in R!Chunks : recording'[e].at = "aborted" => Uncounted(e)' BY <2>4, <2>15 DEF RecordInv, Kept
      <3>2. \A p \in posts : p.do = "abort" => Uncounted(p.id)' /\ rec'.app # p.id BY <2>2, <2>11, <2>15 DEF RecordInv, Kept
      <3>3. \A p \in posts : p.do = "chunk" => p.of \notin counted BY DEF RecordInv, Kept
      <3>4. (HasApp /\ ~rec.some => Uncounted(rec.app))' BY <2>2, <2>16 DEF Uncounted
      <3>5. posts' = posts /\ counted' = counted BY <1>1
      <3> HIDE DEF HasApp
      <3> QED BY <3>1, <3>2, <3>3, <3>4, <3>5 DEF Kept
    <2>18. Placed'
      <3>1. R!OnceOnly'
        <4> SUFFICES ASSUME NEW e \in R!Chunks, NEW f \in R!Chunks,
                            NEW i \in 1 .. Len(recording'[e].content), NEW j \in 1 .. Len(recording'[f].content),
                            R!Whole(recording'[e].content[i]) = R!Whole(recording'[f].content[j])
                     PROVE  e = f /\ i = j
          BY DEF R!OnceOnly, R!Whole
        <4>1. recording'[e].content # <<>> /\ recording'[f].content # <<>>
          BY <2>4 DEF AppRecordings
        <4>2. e # c /\ f # c BY <2>4, <4>1
        <4>3. recording'[e] = recording[e] /\ recording'[f] = recording[f] BY <2>4, <4>2
        <4> QED BY <4>3 DEF RecordInv, Placed, R!OnceOnly, R!Whole
      <3>2. \A p \in posts : recording'[p.id].at # "none" BY <2>4, <2>11 DEF RecordInv, Placed
      <3>3. \A p \in posts : p.do = "chunk" => \A e \in R!Chunks : \A i \in DOMAIN recording'[e].content :
              R!Whole(recording'[e].content[i])  # p.of
        BY <2>14 DEF RecordInv, Placed, R!Whole
      <3> QED BY <1>1, <3>1, <3>2, <3>3 DEF RecordInv, Placed, R!Whole
    <2>19. Filled(lo)'
      <3> SUFFICES ASSUME ~killed PROVE Filled(lo)' BY <1>1 DEF Filled
      <3>1. rec'.first[2] + Len(recording'[rec'.app].content) = lo[rec'.doc] + 1 /\ \A p \in posts : p.id # rec'.app
        BY <1>4, <2>2, <2>4, <2>9, <2>11
      <3>2. \A p \in posts : p.do = "chunk" => p.of = <<p.id[1], p.id[2] + Len(recording'[p.id].content)>>
        BY <2>4, <2>8, <2>11 DEF Filled
      <3>3. R!Unbroken'
        <4> SUFFICES ASSUME NEW e \in R!Chunks, NEW i \in 1 .. Len(recording'[e].content)
                     PROVE  /\ R!Whole(recording'[e].content[i]) = <<e[1], e[2] + i - 1>>
                            /\ i < Len(recording'[e].content) => recording'[e].content[i] = R!Whole(recording'[e].content[i])
          BY DEF R!Unbroken, R!Whole
        <4>1. e # c BY <2>4
        <4>2. recording'[e] = recording[e] BY <2>4, <4>1
        <4> QED BY <2>8, <4>2 DEF Filled, R!Unbroken, R!Whole
      <3>4. \A e \in R!Chunks : Grows(e)' => \A i \in DOMAIN recording'[e].content : recording'[e].content[i] = R!Whole(recording'[e].content[i])
        <4> SUFFICES ASSUME NEW e \in R!Chunks, Grows(e)', NEW i \in DOMAIN recording'[e].content
                     PROVE  recording'[e].content[i] = R!Whole(recording'[e].content[i])
          OBVIOUS
        <4>1. e # c /\ i \in DOMAIN recording[e].content /\ recording'[e].content[i] = recording[e].content[i] BY <2>14
        <4>2. Grows(e) BY <1>1, <2>2, <4>1 DEF Grows
        <4> QED BY <2>8, <4>1, <4>2 DEF Filled
      <3> QED BY <1>1, <2>3, <2>8, <3>1, <3>2, <3>3, <3>4 DEF Filled, R!Whole
    <2>20. Lined' BY <2>12, <2>13, <2>19 DEF Lined
    <2> QED BY <1>6, <1>7, <2>5, <2>6, <2>7, <2>17, <2>18, <2>20 DEF RecordInv
  <1> QED BY <1>1, <1>9, <1>10

-----------------------------------------------------------------------------
(* What a recording gets. *)
Grown(k, x, n) ==
  /\ n \in Nat
  /\ recording' \in [R!Chunks -> AppRecordings] /\ recording'[k].at = recording[k].at
  /\ Len(recording[k].content) = n /\ DOMAIN recording[k].content = 1 .. n
  /\ Len(recording'[k].content) = n + 1 /\ DOMAIN recording'[k].content = 1 .. (n + 1)
  /\ recording'[k].content[n + 1] = x
  /\ \A i \in 1 .. n : recording'[k].content[i] = recording[k].content[i]
  /\ \A e \in R!Chunks : e # k => recording'[e] = recording[e]

LEMMA HoldsIs ==
  ASSUME TypedRecording, NEW k \in R!Chunks, NEW x \in Pieces, R!Holds(k, Append(recording[k].content, x))
  PROVE  \E n : Grown(k, x, n)
  <1>1. recording \in [R!Chunks -> AppRecordings] /\ recording[k] \in AppRecordings BY DEF TypedRecording
  <1>2. recording[k].content \in Seq(Pieces) BY <1>1 DEF AppRecordings
  <1> DEFINE h == recording[k].content
             g == Append(h, x)
             n == Len(h)
             w == [recording[k] EXCEPT !.content = g]
  <1>3. /\ n \in Nat /\ DOMAIN h = 1 .. n /\ g \in Seq(Pieces) /\ Len(g) = n + 1 /\ DOMAIN g = 1 .. (n + 1) /\ g[n + 1] = x
        /\ \A i \in 1 .. n : g[i] = h[i]
    BY <1>2, AppendProperties
  <1> HIDE DEF g
  <1>4. w \in AppRecordings /\ w.at = recording[k].at /\ w.content = g BY <1>1, <1>3 DEF AppRecordings
  <1>5. recording' = [recording EXCEPT ![k] = w] BY <1>1 DEF R!Holds, g
  <1> HIDE DEF w
  <1>6. recording' \in [R!Chunks -> AppRecordings] /\ recording'[k] = w /\ \A e \in R!Chunks : e # k => recording'[e] = recording[e]
    BY <1>1, <1>4, <1>5
  <1>7. Grown(k, x, n) BY <1>3, <1>4, <1>6 DEF Grown
  <1> QED BY <1>7

LEMMA OnceMore ==
  ASSUME R!OnceOnly, NEW k \in R!Chunks, NEW x, NEW n, Grown(k, x, n), TypedRecording,
         \A c \in R!Chunks : \A i \in DOMAIN recording[c].content : R!Whole(recording[c].content[i]) # R!Whole(x)
  PROVE  R!OnceOnly'
  <1>1. \A e \in R!Chunks : DOMAIN recording[e].content = 1 .. Len(recording[e].content)
    BY DEF TypedRecording, AppRecordings
  <1>2. ASSUME NEW e \in R!Chunks, NEW i \in 1 .. Len(recording'[e].content)
        PROVE  \/ /\ i \in 1 .. Len(recording[e].content) /\ i \in DOMAIN recording[e].content
                  /\ recording'[e].content[i] = recording[e].content[i]
               \/ e = k /\ i = n + 1 /\ recording'[e].content[i] = x
    <2>1. CASE e = k BY <1>1, <1>2, <2>1 DEF Grown
    <2>2. CASE e # k BY <1>1, <1>2, <2>2 DEF Grown
    <2> QED BY <2>1, <2>2
  <1> SUFFICES ASSUME NEW e \in R!Chunks, NEW f \in R!Chunks,
                      NEW i \in 1 .. Len(recording'[e].content), NEW j \in 1 .. Len(recording'[f].content),
                      R!Whole(recording'[e].content[i]) = R!Whole(recording'[f].content[j])
               PROVE  e = f /\ i = j
    BY DEF R!OnceOnly, R!Whole
  <1>3. CASE /\ i \in 1 .. Len(recording[e].content) /\ recording'[e].content[i] = recording[e].content[i]
             /\ j \in 1 .. Len(recording[f].content) /\ recording'[f].content[j] = recording[f].content[j]
    BY <1>3 DEF R!OnceOnly
  <1> QED BY <1>2, <1>3

LEMMA UnbrokenMore ==
  ASSUME ~killed, R!Unbroken, NEW k \in R!Chunks, NEW x, NEW n, Grown(k, x, n),
         R!Whole(x) = <<k[1], k[2] + n>>, k[2] \in Nat,
         \A i \in DOMAIN recording[k].content : recording[k].content[i] = R!Whole(recording[k].content[i])
  PROVE  R!Unbroken'
  <1> SUFFICES ASSUME NEW e \in R!Chunks, NEW i \in 1 .. Len(recording'[e].content)
               PROVE  /\ R!Whole(recording'[e].content[i]) = <<e[1], e[2] + i - 1>>
                      /\ i < Len(recording'[e].content) => recording'[e].content[i] = R!Whole(recording'[e].content[i])
    BY DEF R!Unbroken, R!Whole
  <1>1. CASE e # k
    <2>1. recording'[e] = recording[e] BY <1>1 DEF Grown
    <2> QED BY <2>1 DEF R!Unbroken
  <1>2. CASE e = k /\ i \in 1 .. n
    <2>1. recording'[e].content[i] = recording[k].content[i] BY <1>2 DEF Grown
    <2>2. R!Whole(recording[k].content[i]) = <<k[1], k[2] + i - 1>> BY <1>2 DEF R!Unbroken, Grown
    <2>3. recording[k].content[i] = R!Whole(recording[k].content[i]) BY <1>2 DEF Grown
    <2> QED BY <1>2, <2>1, <2>2, <2>3
  <1>3. CASE e = k /\ i = n + 1
    <2>1. recording'[e].content[i] = x /\ ~(i < Len(recording'[e].content)) /\ n \in Nat BY <1>3 DEF Grown
    <2>2. k[2] + n = k[2] + i - 1 BY <1>3, <2>1
    <2> QED BY <1>3, <2>1, <2>2
  <1>4. e = k => i \in 1 .. n \/ i = n + 1 BY DEF Grown
  <1> QED BY <1>1, <1>2, <1>3, <1>4

LEMMA BehindMore ==
  ASSUME Documented, TypedRecording, NEW lo \in Counts, NEW up \in Counts, Behind(lo), \A d \in Docs : lo[d] <= up[d],
         \A e \in R!Chunks : \A i \in DOMAIN recording'[e].content :
           \/ i \in DOMAIN recording[e].content /\ recording'[e].content[i] = recording[e].content[i]
           \/ recording'[e].content[i][2] <= up[recording'[e].content[i][1]],
         \A e \in R!Chunks : recording'[e].at # "none" => recording[e].at # "none",
         \A p \in posts' : p \in posts \/ (p.do = "chunk" => p.of[2] <= up[p.of[1]]),
         \A c \in counted' : c \in counted \/ c[2] <= up[c[1]],
         step.at = "calling" => Head(queued).of[2] <= up[Head(queued).of[1]] \/ (step' = step /\ Head(queued') = Head(queued))
  PROVE  Behind(up)'
  <1>2. \A d \in Docs, n \in Nat : n <= lo[d] => n <= up[d] BY DEF Counts
  <1>3. \A x \in Pieces : x[1] \in Docs /\ x[2] \in Nat BY ChunkIs DEF Pieces
  <1>4. \A c \in R!Chunks : \A i \in DOMAIN recording[c].content : recording[c].content[i] \in Pieces
    BY DEF TypedRecording, AppRecordings
  <1>5. \A c \in R!Chunks : \A i \in DOMAIN recording'[c].content :
          recording'[c].content[i][2] <= up[recording'[c].content[i][1]]
    <2> SUFFICES ASSUME NEW c \in R!Chunks, NEW i \in DOMAIN recording'[c].content,
                        i \in DOMAIN recording[c].content, recording'[c].content[i] = recording[c].content[i]
                 PROVE  recording[c].content[i][2] <= up[recording[c].content[i][1]]
      OBVIOUS
    <2> QED BY <1>2, <1>3, <1>4 DEF Behind
  <1>6. \A c \in R!Chunks : recording'[c].at # "none" =>
          c[2] <= up[c[1]] \/ (step'.at = "calling" /\ step'.id = c /\ Head(queued').of = c)
    <2> SUFFICES ASSUME NEW c \in R!Chunks, recording[c].at # "none"
                 PROVE  c[2] <= up[c[1]] \/ (step'.at = "calling" /\ step'.id = c /\ Head(queued').of = c)
      OBVIOUS
    <2>1. CASE c[2] <= lo[c[1]] BY <1>2, <2>1, ChunkIs
    <2>2. CASE step.at = "calling" /\ step.id = c /\ Head(queued).of = c BY <2>2
    <2> QED BY <2>1, <2>2 DEF Behind
  <1>7. \A p \in posts' : p.do = "chunk" => p.of[2] <= up[p.of[1]]
    <2> SUFFICES ASSUME NEW p \in posts, p.do = "chunk" PROVE p.of[2] <= up[p.of[1]] OBVIOUS
    <2>1. p.of \in R!Chunks BY DEF TypedRecording, Posts
    <2> QED BY <1>2, <2>1, ChunkIs DEF Behind
  <1>8. \A c \in counted' : c[2] <= up[c[1]]
    <2> SUFFICES ASSUME NEW c \in counted PROVE c[2] <= up[c[1]] OBVIOUS
    <2>1. c \in R!Chunks BY DEF TypedRecording
    <2> QED BY <1>2, <2>1, ChunkIs DEF Behind
  <1> QED BY <1>5, <1>6, <1>7, <1>8 DEF Behind

(* The chunk whose turn it is, is nowhere yet. *)
LEMMA NextIsNew ==
  ASSUME Documented, RecordInv, queued # <<>>, NEW c, Head(queued).cmd = "chunk", c = Head(queued).of,
         NEW lo \in Counts, NEW mid \in Counts, NEW top \in Counts, InLine(lo, mid, top), Behind(lo)
  PROVE  /\ c \in R!Chunks /\ c[1] \in Docs /\ c[2] \in Nat /\ lo[c[1]] \in Nat /\ c[2] = lo[c[1]] + 1 /\ c[2] <= mid[c[1]]
         /\ \A e \in R!Chunks : \A i \in DOMAIN recording[e].content :
              R!Whole(recording[e].content[i]) # c /\ recording[e].content[i] # c
         /\ c \notin counted
         /\ \A p \in posts : p.do = "chunk" => p.of # c
  <1>1. TypedRecording BY DEF RecordInv
  <1>2. c \in R!Chunks /\ c[1] \in Docs /\ c[2] \in Nat BY <1>1, HeadIs, MsgIs
  <1>3. queued \in Seq(Msgs) BY <1>1, InMsgs, WiderSeq DEF TypedRecording
  <1>4. lo[c[1]] \in Nat /\ mid[c[1]] \in Nat /\ Line(queued, c[1], lo[c[1]], mid[c[1]]) BY <1>2 DEF InLine, Counts
  <1>5. Is(Head(queued), c[1]) BY DEF Is
  <1>6. c[2] = lo[c[1]] + 1 /\ Line(Tail(queued), c[1], lo[c[1]] + 1, mid[c[1]]) BY <1>2, <1>3, <1>4, <1>5, LineHead
  <1>7. c[2] <= mid[c[1]] BY <1>6 DEF Line
  <1>8. ~(c[2] <= lo[c[1]]) BY <1>4, <1>6
  <1>9. ASSUME NEW e \in R!Chunks, NEW i \in DOMAIN recording[e].content
        PROVE  R!Whole(recording[e].content[i]) # c /\ recording[e].content[i] # c
    <2>1. recording[e].content[i][2] <= lo[recording[e].content[i][1]] BY DEF Behind
    <2>2. R!Whole(recording[e].content[i])[1] = recording[e].content[i][1] /\ R!Whole(recording[e].content[i])[2] = recording[e].content[i][2]
      BY DEF R!Whole
    <2> QED BY <1>8, <2>1, <2>2
  <1>10. c \notin counted /\ \A p \in posts : p.do = "chunk" => p.of # c BY <1>8 DEF Behind
  <1> QED BY <1>2, <1>4, <1>6, <1>7, <1>9, <1>10

(* When a chunk's task is over, what will close the recording still does. *)
LEMMA ClosedOnwards ==
  ASSUME TypedRecording, R!ClosedOnceRevoked, UNCHANGED <<killed, capture, after, timers>>,
         rec # None, rec'.doc = rec.doc, rec'.first = rec.first,
         queued # <<>>, Head(queued).cmd = "chunk", queued' = Tail(queued)
  PROVE  R!ClosedOnceRevoked'
  <1> SUFFICES ASSUME ~killed, rec.doc # capture
               PROVE  \/ \E a \in after : a.do = "revoke" \/ a.to # rec.doc
                      \/ rec.first \in timers
                      \/ \E i \in 1 .. Len(queued') : queued'[i].cmd = "finish" \/ queued'[i] = [cmd |-> "close", of |-> rec.first]
    BY DEF R!ClosedOnceRevoked
  <1>1. CASE \E i \in 1 .. Len(queued) : queued[i].cmd = "finish" \/ queued[i] = [cmd |-> "close", of |-> rec.first]
    <2>1. PICK i \in 1 .. Len(queued) : queued[i].cmd = "finish" \/ queued[i] = [cmd |-> "close", of |-> rec.first] BY <1>1
    <2>2. queued[i] # Head(queued) BY <2>1
    <2>3. PICK j \in 1 .. Len(queued') : queued'[j] = queued[i] BY <2>2, TailOfTasks
    <2> QED BY <2>1, <2>3
  <1> QED BY <1>1 DEF R!ClosedOnceRevoked

(* What holds while the app is asked to take a chunk. *)
LEMMA Calling ==
  ASSUME Documented, RecordInv, step.at = "calling"
  PROVE  /\ HasApp /\ rec # None /\ step.id \in R!Chunks /\ rec.app = step.id /\ rec.first = step.id /\ rec.first[1] = rec.doc
         /\ rec.doc = Head(queued).of[1] /\ queued # <<>> /\ Head(queued).cmd = "chunk" /\ rec \in OpenRecs /\ stored = rec
         /\ recording[step.id].at # "none"
  <1>1. TypedRecording /\ InPhase BY DEF RecordInv
  <1>2. /\ HasApp /\ rec.app = step.id /\ rec.doc = Head(queued).of[1] /\ queued # <<>> /\ Head(queued).cmd = "chunk" /\ stored = rec
    BY <1>1 DEF InPhase
  <1>3. rec # None /\ rec \in OpenRecs /\ rec.app \in R!Chunks BY <1>1, <1>2, RecIs DEF HasApp
  <1> QED BY <1>1, <1>2, <1>3 DEF InPhase

LEMMA IdleIs == R!Idle \in [at : {"idle", "asking", "closing", "starting", "calling"}, id : R!Chunks \cup {None}] /\ R!Idle.at = "idle"
  BY DEF R!Idle

LEMMA ChunkStoredKeeps == ASSUME Documented, RecordInv, R!ChunkStored PROVE RecordInv'
  <1>k. PICK k, c : k = step.id /\ c = Head(queued).of OBVIOUS
  <1>1. /\ step.at = "calling" /\ recording[k].at = "open" /\ R!Holds(k, Append(recording[k].content, c))
        /\ counted' = counted \cup {c} /\ rec' = [rec EXCEPT !.some = TRUE] /\ stored' = rec'
        /\ queued' = Tail(queued) /\ step' = R!Idle
        /\ UNCHANGED <<doc, recorded, capturing, open, relayed, channel>>
        /\ tab' = tab /\ after' = after /\ capture' = capture /\ timers' = timers /\ navigated' = navigated
        /\ killed' = killed /\ posts' = posts
    BY <1>k DEF R!ChunkStored, R!Over, R!page
  <1>2. TypedRecording /\ InPhase /\ Reading /\ Placed /\ Kept BY DEF RecordInv
  <1>3. /\ HasApp /\ rec # None /\ k \in R!Chunks /\ rec.app = k /\ rec.first = k /\ k[1] = rec.doc /\ rec.doc = c[1]
        /\ queued # <<>> /\ Head(queued).cmd = "chunk" /\ rec \in OpenRecs /\ recording[k].at # "none"
    BY <1>k, <1>1, Calling
  <1>4. PICK lo, mid, top \in Counts : InLine(lo, mid, top) /\ Behind(lo) /\ Filled(lo) BY DEF RecordInv, Lined
  <1>5. /\ c \in R!Chunks /\ c[1] \in Docs /\ c[2] \in Nat /\ lo[c[1]] \in Nat /\ c[2] = lo[c[1]] + 1
        /\ \A e \in R!Chunks : \A i \in DOMAIN recording[e].content :
             R!Whole(recording[e].content[i]) # c /\ recording[e].content[i] # c
        /\ c \notin counted
        /\ \A p \in posts : p.do = "chunk" => p.of # c
    BY <1>k, <1>3, <1>4, NextIsNew
  <1>6. c = <<c[1], c[2]>> /\ R!Whole(c) = c /\ c \in Pieces /\ k = <<k[1], k[2]>> /\ k[2] \in Nat BY <1>3, <1>5, ChunkIs DEF Pieces
  <1>7. PICK n : Grown(k, c, n) BY <1>1, <1>2, <1>3, <1>6, HoldsIs
  <1>8. /\ rec' \in OpenRecs /\ rec'.app = rec.app /\ rec'.doc = rec.doc /\ rec'.first = rec.first /\ rec'.some = TRUE
    BY <1>1, <1>3 DEF OpenRecs
  <1>9. HasApp' /\ rec' # None BY <1>3, <1>8 DEF HasApp, Documented
  <1>10. TypedRecording'
    <2>1. queued' \in Seq(Queued) BY <1>1, <1>2, <1>3, TailOfTasks
    <2>2. counted' \subseteq R!Chunks BY <1>1, <1>2, <1>5 DEF TypedRecording
    <2>3. recording' \in [R!Chunks -> AppRecordings] BY <1>7 DEF Grown
    <2> QED BY <1>1, <1>2, <1>8, <2>1, <2>2, <2>3, IdleIs DEF TypedRecording
  <1>11. PageInOrder' BY <1>1, PageStays DEF RecordInv
  <1>12. InPhase'
    <2>1. recording'[rec.app].at # "none" BY <1>3, <1>7 DEF Grown
    <2> QED BY <1>1, <1>2, <1>3, <1>8, <1>9, <2>1, IdleIs DEF InPhase
  <1>13. Reading' BY <1>1, <1>2, NoReads
  <1>14. R!ClosedOnceRevoked' BY <1>1, <1>2, <1>3, <1>8, ClosedOnwards DEF RecordInv
  <1>15. \A e \in R!Chunks : \A i \in DOMAIN recording'[e].content :
           \/ i \in DOMAIN recording[e].content /\ recording'[e].content[i] = recording[e].content[i]
           \/ recording'[e].content[i] = c
    BY <1>7 DEF Grown
  <1>16. \A e \in R!Chunks : recording'[e].at = recording[e].at BY <1>7 DEF Grown
  <1>17. Lined'
    <2>1. PICK up \in Counts : /\ InLine(up, mid, top)'
                               /\ \A d \in Docs : lo[d] <= up[d]
                               /\ up[c[1]] = c[2]
      BY <1>k, <1>1, <1>2, <1>3, <1>4, HeadGoes
    <2>2. Behind(up)' BY <1>k, <1>1, <1>2, <1>4, <1>5, <1>15, <1>16, <2>1, BehindMore
    <2>3. Filled(up)'
      <3> SUFFICES ASSUME ~killed PROVE Filled(up)' BY <1>1 DEF Filled
      <3>1. /\ k[2] + Len(recording[k].content) = lo[c[1]] + 1 /\ \A p \in posts : p.id # k /\ p.id \in R!Chunks
        BY <1>2, <1>3, <1>4 DEF Filled, TypedRecording, Posts
      <3>2. n \in Nat /\ Len(recording[k].content) = n /\ Len(recording'[k].content) = n + 1 BY <1>7 DEF Grown
      <3>3. rec'.first[2] + Len(recording'[rec'.app].content) = up[rec'.doc] + 1 /\ \A p \in posts : p.id # rec'.app
        BY <1>3, <1>5, <1>6, <1>8, <2>1, <3>1, <3>2
      <3>4. \A p \in posts : p.do = "chunk" => p.of = <<p.id[1], p.id[2] + Len(recording'[p.id].content)>>
        <4> SUFFICES ASSUME NEW p \in posts, p.do = "chunk" PROVE p.of = <<p.id[1], p.id[2] + Len(recording'[p.id].content)>>
          OBVIOUS
        <4>1. recording'[p.id] = recording[p.id] BY <1>7, <3>1 DEF Grown
        <4> QED BY <1>4, <4>1 DEF Filled
      <3>5. \A i \in DOMAIN recording[k].content : recording[k].content[i] = R!Whole(recording[k].content[i])
        BY <1>3, <1>4 DEF Filled, Grows
      <3>6. R!Unbroken'
        <4>1. R!Unbroken BY <1>4 DEF Filled
        <4>2. c = <<k[1], k[2] + n>> BY <1>3, <1>5, <1>6, <3>1, <3>2
        <4> QED BY <1>3, <1>6, <1>7, <3>5, <4>1, <4>2, UnbrokenMore
      <3>7. \A e \in R!Chunks : Grows(e)' => \A i \in DOMAIN recording'[e].content : recording'[e].content[i] = R!Whole(recording'[e].content[i])
        <4> SUFFICES ASSUME NEW e \in R!Chunks, Grows(e)', NEW i \in DOMAIN recording'[e].content
                     PROVE  recording'[e].content[i] = R!Whole(recording'[e].content[i])
          OBVIOUS
        <4>1. Grows(e) BY <1>1, <1>3, <1>8 DEF Grows
        <4>2. CASE i \in DOMAIN recording[e].content /\ recording'[e].content[i] = recording[e].content[i]
          BY <1>4, <4>1, <4>2 DEF Filled
        <4>3. CASE recording'[e].content[i] = c BY <1>6, <4>3
        <4> QED BY <1>15, <4>2, <4>3
      <3>8. \A p, q \in posts : p.do = "chunk" /\ q.do = "chunk" /\ p.id = q.id => p = q BY <1>4 DEF Filled
      <3> QED BY <1>1, <3>3, <3>4, <3>6, <3>7, <3>8 DEF Filled, R!Whole
    <2> QED BY <2>1, <2>2, <2>3 DEF Lined
  <1>18. Placed'
    <2>1. R!OnceOnly' BY <1>2, <1>3, <1>5, <1>6, <1>7, OnceMore DEF Placed
    <2>2. \A p \in posts : recording'[p.id].at # "none" BY <1>2, <1>16 DEF Placed, TypedRecording, Posts
    <2>3. \A p \in posts : p.do = "chunk" => \A e \in R!Chunks : \A i \in DOMAIN recording'[e].content :
            R!Whole(recording'[e].content[i]) # p.of
      BY <1>2, <1>5, <1>6, <1>15 DEF Placed
    <2> QED BY <1>1, <1>2, <2>1, <2>2, <2>3 DEF Placed, R!Whole
  <1>19. Kept'
    <2>1. \A e \in R!Chunks : e # k => (Uncounted(e) => Uncounted(e)')
      <3> SUFFICES ASSUME NEW e \in R!Chunks, e # k, Uncounted(e), NEW i \in DOMAIN recording'[e].content
                   PROVE  recording'[e].content[i] \notin counted'
        BY DEF Uncounted
      <3>1. recording'[e] = recording[e] BY <1>7 DEF Grown
      <3> QED BY <1>1, <1>5, <3>1 DEF Uncounted
    <2>2. \A e \in R!Chunks : recording'[e].at = "aborted" => Uncounted(e)' BY <1>1, <1>2, <1>16, <2>1 DEF Kept
    <2>3. \A p \in posts : p.do = "abort" => Uncounted(p.id)' /\ rec'.app # p.id
      BY <1>2, <1>3, <1>8, <2>1 DEF Kept, TypedRecording, Posts
    <2>4. \A p \in posts : p.do = "chunk" => p.of \notin counted' BY <1>1, <1>2, <1>5 DEF Kept
    <2>5. rec'.some = TRUE /\ posts' = posts BY <1>1, <1>8
    <2> QED BY <2>2, <2>3, <2>4, <2>5 DEF Kept
  <1> QED BY <1>10, <1>11, <1>12, <1>13, <1>14, <1>17, <1>18, <1>19 DEF RecordInv

LEMMA ChunkFailsKeeps == ASSUME Documented, RecordInv, R!ChunkFails PROVE RecordInv'
  <1>k. PICK k, c, pc, pg : /\ k = step.id /\ c = Head(queued).of /\ pc = [id |-> k, do |-> "chunk", of |-> c]
                            /\ pg = [id |-> k, do |-> R!GivesUp, of |-> None]
    OBVIOUS
  <1>1. /\ step.at = "calling" /\ posts' = posts \cup {pc, pg} /\ rec' = [rec EXCEPT !.app = None] /\ stored' = rec'
        /\ queued' = Tail(queued) /\ step' = R!Idle
        /\ UNCHANGED <<doc, recorded, capturing, open, relayed, channel>>
        /\ tab' = tab /\ after' = after /\ capture' = capture /\ timers' = timers /\ navigated' = navigated
        /\ killed' = killed /\ recording' = recording /\ counted' = counted
    BY <1>k DEF R!ChunkFails, R!Over, R!page
  <1>2. TypedRecording /\ InPhase /\ Reading /\ Placed /\ Kept BY DEF RecordInv
  <1>3. /\ HasApp /\ rec # None /\ k \in R!Chunks /\ rec.app = k /\ rec.first = k /\ k[1] = rec.doc /\ rec.doc = c[1]
        /\ queued # <<>> /\ Head(queued).cmd = "chunk" /\ rec \in OpenRecs /\ recording[k].at # "none"
    BY <1>k, <1>1, Calling
  <1>4. PICK lo, mid, top \in Counts : InLine(lo, mid, top) /\ Behind(lo) /\ Filled(lo) BY DEF RecordInv, Lined
  <1>5. /\ c \in R!Chunks /\ c[1] \in Docs /\ c[2] \in Nat /\ lo[c[1]] \in Nat /\ c[2] = lo[c[1]] + 1
        /\ \A e \in R!Chunks : \A i \in DOMAIN recording[e].content :
             R!Whole(recording[e].content[i]) # c /\ recording[e].content[i] # c
        /\ c \notin counted
        /\ \A p \in posts : p.do = "chunk" => p.of # c
    BY <1>k, <1>3, <1>4, NextIsNew
  <1>6. c = <<c[1], c[2]>> /\ k[2] \in Nat /\ k # None BY <1>3, <1>5, ChunkIs DEF Documented
  <1>7. /\ pc \in Posts /\ pc.do = "chunk" /\ pc.id = k /\ pc.of = c
        /\ pg \in Posts /\ pg.do \in {"finish", "abort"} /\ pg.id = k /\ (pg.do = "abort" => ~rec.some)
    BY <1>k, <1>3, <1>5 DEF Posts, R!GivesUp
  <1>8. /\ rec' \in OpenRecs /\ rec'.app = None /\ rec'.doc = rec.doc /\ rec'.first = rec.first
    BY <1>1, <1>3 DEF OpenRecs
  <1>9. ~HasApp' /\ rec' # None BY <1>8 DEF HasApp, Documented
  <1>10. TypedRecording'
    <2>1. queued' \in Seq(Queued) BY <1>1, <1>2, <1>3, TailOfTasks
    <2>2. posts' \subseteq Posts BY <1>1, <1>2, <1>7 DEF TypedRecording
    <2> QED BY <1>1, <1>2, <1>8, <2>1, <2>2, IdleIs DEF TypedRecording
  <1>11. PageInOrder' BY <1>1, PageStays DEF RecordInv
  <1>12. InPhase' BY <1>1, <1>3, <1>8, <1>9, IdleIs DEF InPhase
  <1>13. Reading' BY <1>1, <1>2, NoReads
  <1>14. R!ClosedOnceRevoked' BY <1>1, <1>2, <1>3, <1>8, ClosedOnwards DEF RecordInv
  <1>15. \A p \in posts' : p \in posts \/ p = pc \/ p = pg BY <1>1
  <1>16. \A p \in posts' : p.do = "chunk" => p \in posts \/ p = pc BY <1>7, <1>15
  <1>17. Lined'
    <2>1. PICK up \in Counts : /\ InLine(up, mid, top)'
                               /\ \A d \in Docs : lo[d] <= up[d]
                               /\ up[c[1]] = c[2]
      BY <1>k, <1>1, <1>2, <1>3, <1>4, HeadGoes
    <2>2. Behind(up)' BY <1>k, <1>1, <1>2, <1>4, <1>5, <1>7, <1>16, <2>1, BehindMore
    <2>3. Filled(up)'
      <3> SUFFICES ASSUME ~killed PROVE Filled(up)' BY <1>1 DEF Filled
      <3>1. /\ k[2] + Len(recording[k].content) = lo[c[1]] + 1 /\ \A p \in posts : p.id # k
        BY <1>3, <1>4 DEF Filled
      <3>2. Len(recording[k].content) \in Nat
        <4>1. recording[k].content \in Seq(Pieces) BY <1>2, <1>3 DEF TypedRecording, AppRecordings
        <4> QED BY <4>1
      <3>3. \A p \in posts' : p.do = "chunk" => p.of = <<p.id[1], p.id[2] + Len(recording[p.id].content)>>
        <4> SUFFICES ASSUME NEW p \in posts', p.do = "chunk" PROVE p.of = <<p.id[1], p.id[2] + Len(recording[p.id].content)>>
          OBVIOUS
        <4>1. CASE p \in posts BY <1>4, <4>1 DEF Filled
        <4>2. CASE p = pc BY <1>3, <1>5, <1>6, <1>7, <3>1, <3>2, <4>2
        <4> QED BY <1>16, <4>1, <4>2
      <3>4. \A p, q \in posts' : p.do = "chunk" /\ q.do = "chunk" /\ p.id = q.id => p = q
        BY <1>4, <1>7, <1>16, <3>1 DEF Filled
      <3>5. R!Unbroken' BY <1>1, <1>4 DEF Filled, R!Unbroken
      <3>6. \A e \in R!Chunks : Grows(e)' => Grows(e) BY <1>3, <1>7, <1>9, <1>16 DEF Grows
      <3>7. \A e \in R!Chunks : Grows(e)' => \A i \in DOMAIN recording[e].content : recording[e].content[i] = R!Whole(recording[e].content[i])
        BY <1>4, <3>6 DEF Filled
      <3> QED BY <1>1, <1>9, <3>3, <3>4, <3>5, <3>7 DEF Filled, R!Whole
    <2> QED BY <2>1, <2>2, <2>3 DEF Lined
  <1>18. Placed'
    <2>1. R!OnceOnly' BY <1>1, <1>2 DEF Placed, R!OnceOnly
    <2>2. \A p \in posts' : recording[p.id].at # "none" BY <1>2, <1>3, <1>7, <1>15 DEF Placed
    <2>3. \A p \in posts' : p.do = "chunk" => \A e \in R!Chunks : \A i \in DOMAIN recording[e].content :
            R!Whole(recording[e].content[i]) # p.of
      BY <1>2, <1>5, <1>7, <1>16 DEF Placed
    <2>4. \A p, q \in posts' : p.do = "chunk" /\ q.do = "chunk" /\ p.of = q.of => p = q BY <1>2, <1>5, <1>7, <1>16 DEF Placed
    <2> QED BY <1>1, <2>1, <2>2, <2>3, <2>4 DEF Placed, R!Whole
  <1>19. Kept'
    <2>1. \A e \in R!Chunks : Uncounted(e)' <=> Uncounted(e) BY <1>1 DEF Uncounted
    <2>2. \A p \in posts' : p.do = "abort" => Uncounted(p.id)' /\ rec'.app # p.id
      <3> SUFFICES ASSUME NEW p \in posts', p.do = "abort" PROVE Uncounted(p.id)' /\ rec'.app # p.id OBVIOUS
      <3>1. p.id \in R!Chunks /\ p.id # None BY <1>10 DEF TypedRecording, Posts, Documented
      <3>2. CASE p \in posts BY <1>2, <1>8, <2>1, <3>1, <3>2 DEF Kept
      <3>3. CASE p = pg BY <1>2, <1>3, <1>7, <1>8, <2>1, <3>1, <3>3 DEF Kept
      <3> QED BY <1>7, <1>15, <3>2, <3>3
    <2>3. \A p \in posts' : p.do = "chunk" => p.of \notin counted BY <1>2, <1>5, <1>7, <1>16 DEF Kept
    <2>4. \A e \in R!Chunks : recording[e].at = "aborted" => Uncounted(e)' BY <1>2, <2>1 DEF Kept
    <2> QED BY <1>1, <1>9, <2>2, <2>3, <2>4 DEF Kept
  <1> QED BY <1>10, <1>11, <1>12, <1>13, <1>14, <1>17, <1>18, <1>19 DEF RecordInv

LEMMA PostedKeeps == ASSUME Documented, RecordInv, R!Posted PROVE RecordInv'
  <1>1. PICK p \in posts :
          /\ posts' = posts \ {p}
          /\ \/ recording' = recording
             \/ /\ recording[p.id].at = "open" /\ p.do = "chunk"
                /\ \E whole \in BOOLEAN :
                     R!Holds(p.id, Append(recording[p.id].content, IF whole THEN p.of ELSE <<p.of[1], p.of[2], "torn">>))
             \/ p.do # "chunk" /\ R!Ends(p.id, IF p.do = "finish" THEN "finished" ELSE "aborted")
    BY DEF R!Posted
  <1>2. /\ UNCHANGED <<doc, recorded, capturing, open, relayed, channel, tab, after, capture, queued, step, stored, timers>>
        /\ rec' = rec /\ killed' = killed /\ counted' = counted /\ navigated' = navigated
    BY DEF R!Posted, R!page, R!background
  <1>3. TypedRecording /\ InPhase /\ Reading /\ Placed /\ Kept BY DEF RecordInv
  <1>k. PICK k : k = p.id OBVIOUS
  <1>4. /\ p \in Posts /\ k \in R!Chunks /\ p.do \in {"chunk", "finish", "abort"} /\ posts' \subseteq Posts /\ posts' \subseteq posts
        /\ p.do = "chunk" => p.of \in R!Chunks
    BY <1>1, <1>3, <1>k DEF TypedRecording, Posts
  <1>5. CASE recording' = recording
    <2>1. TypedRecording' BY <1>2, <1>3, <1>4, <1>5 DEF TypedRecording
    <2>2. Ending BY <1>2, <1>4, <1>5 DEF Ending
    <2> QED BY <1>2, <2>1, <2>2, EndsBeside
  <1>6. CASE p.do # "chunk" /\ R!Ends(p.id, IF p.do = "finish" THEN "finished" ELSE "aborted")
    <2>1. PICK how \in Hows : R!Ends(k, how) /\ (how = "aborted" => p.do = "abort") BY <1>4, <1>6, <1>k DEF Hows
    <2>2. /\ recording' \in [R!Chunks -> AppRecordings]
          /\ recording'[k].at = how /\ recording'[k].content = recording[k].content
          /\ \A e \in R!Chunks : e # k => recording'[e] = recording[e]
      BY <1>3, <1>4, <2>1, EndsIs
    <2>3. TypedRecording' BY <1>2, <1>3, <1>4, <2>2 DEF TypedRecording
    <2>4. recording[k].at # "none" /\ (p.do = "abort" => Uncounted(k)) BY <1>3, <1>k DEF Placed, Kept
    <2>5. Ending BY <1>2, <1>4, <2>1, <2>2, <2>4 DEF Ending, Hows
    <2> QED BY <1>2, <2>3, <2>5, EndsBeside
  <1>7. CASE /\ recording[p.id].at = "open" /\ p.do = "chunk"
             /\ \E whole \in BOOLEAN :
                  R!Holds(p.id, Append(recording[p.id].content, IF whole THEN p.of ELSE <<p.of[1], p.of[2], "torn">>))
    <2>1. PICK c, x : c = p.of /\ x \in {c, <<c[1], c[2], "torn">>} /\ R!Holds(k, Append(recording[k].content, x)) BY <1>7, <1>k
    <2>2. c \in R!Chunks /\ c[1] \in Docs /\ c[2] \in Nat /\ c = <<c[1], c[2]>> /\ k[2] \in Nat BY <1>4, <1>7, <2>1, ChunkIs
    <2>3. x \in Pieces /\ R!Whole(x) = c /\ x[1] = c[1] /\ x[2] = c[2] BY <2>1, <2>2 DEF Pieces, R!Whole
    <2>4. PICK n : Grown(k, x, n) BY <1>3, <1>4, <2>1, <2>3, HoldsIs
    <2>5. x \notin counted
      <3>1. c \notin counted BY <1>3, <1>7, <2>1 DEF Kept
      <3>2. <<c[1], c[2], "torn">> \notin R!Chunks
        <4>1. ASSUME <<c[1], c[2], "torn">> \in R!Chunks PROVE FALSE
          <5>1. PICK a, b : <<c[1], c[2], "torn">> = <<a, b>> BY <4>1, ChunkIs
          <5>2. Len(<<c[1], c[2], "torn">>) = 3 /\ Len(<<a, b>>) = 2 OBVIOUS
          <5> QED BY <5>1, <5>2
        <4> QED BY <4>1
      <3> QED BY <1>3, <2>1, <3>1, <3>2 DEF TypedRecording
    <2>6. \A e \in R!Chunks : recording'[e].at = recording[e].at BY <2>4 DEF Grown
    <2>7. \A e \in R!Chunks : \A i \in DOMAIN recording'[e].content :
            \/ i \in DOMAIN recording[e].content /\ recording'[e].content[i] = recording[e].content[i]
            \/ recording'[e].content[i] = x
      BY <2>4 DEF Grown
    <2>8. \A q \in posts' : q.do = "chunk" => q \in posts /\ q # p /\ q.of # c BY <1>1, <1>3, <1>7, <2>1 DEF Placed
    <2>9. TypedRecording'
      <3>1. recording' \in [R!Chunks -> AppRecordings] BY <2>4 DEF Grown
      <3> QED BY <1>2, <1>3, <1>4, <3>1 DEF TypedRecording
    <2>10. PageInOrder' /\ Reading' BY <1>2, PageStays, ReadingStays DEF RecordInv
    <2>11. R!ClosedOnceRevoked' BY <1>2 DEF RecordInv, R!ClosedOnceRevoked
    <2>12. HasApp' <=> HasApp BY <1>2 DEF HasApp
    <2>13. HasApp => rec.app \in R!Chunks BY <1>3, RecIs
    <2>14. InPhase' BY <1>2, <1>3, <2>6, <2>12, <2>13 DEF InPhase
    <2>15. PICK lo, mid, top \in Counts : InLine(lo, mid, top) /\ Behind(lo) /\ Filled(lo) BY DEF RecordInv, Lined
    <2>16. InLine(lo, mid, top)' BY <1>2, <2>15, LineSame
    <2>17. Behind(lo)'
      <3>1. \A d \in Docs : lo[d] <= lo[d] BY DEF Counts
      <3>2. c[2] <= lo[c[1]] BY <1>7, <2>1, <2>15 DEF Behind
      <3> QED BY <1>2, <1>3, <1>4, <2>3, <2>6, <2>7, <2>15, <3>1, <3>2, BehindMore
    <2>18. Filled(lo)'
      <3> SUFFICES ASSUME ~killed PROVE Filled(lo)' BY <1>2 DEF Filled
      <3>1. /\ c = <<k[1], k[2] + Len(recording[k].content)>> /\ (HasApp => rec.app # k)
            /\ \A q \in posts' : q.do = "chunk" => q.id # k
            /\ R!Unbroken
        BY <1>1, <1>7, <1>k, <2>1, <2>8, <2>15 DEF Filled
      <3>2. HasApp => /\ rec.first[2] + Len(recording'[rec.app].content) = lo[rec.doc] + 1
                      /\ \A q \in posts' : q.id # rec.app
        <4> HAVE HasApp
        <4>1. recording'[rec.app] = recording[rec.app] BY <2>4, <2>13, <3>1 DEF Grown
        <4> QED BY <1>4, <2>15, <4>1 DEF Filled
      <3>3. \A q \in posts' : q.do = "chunk" => q.of = <<q.id[1], q.id[2] + Len(recording'[q.id].content)>>
        <4> SUFFICES ASSUME NEW q \in posts', q.do = "chunk" PROVE q.of = <<q.id[1], q.id[2] + Len(recording'[q.id].content)>>
          OBVIOUS
        <4>1. q \in posts /\ q.id \in R!Chunks /\ q.id # k BY <1>4, <3>1 DEF Posts
        <4>2. recording'[q.id] = recording[q.id] BY <2>4, <4>1 DEF Grown
        <4> QED BY <2>15, <4>1, <4>2 DEF Filled
      <3>4. \A q, r \in posts' : q.do = "chunk" /\ r.do = "chunk" /\ q.id = r.id => q = r BY <1>4, <2>15 DEF Filled
      <3>5. \A i \in DOMAIN recording[k].content : recording[k].content[i] = R!Whole(recording[k].content[i])
        <4>1. Grows(k) BY <1>7, <1>k DEF Grows
        <4> QED BY <1>4, <2>15, <4>1 DEF Filled
      <3>6. Len(recording[k].content) = n BY <2>4 DEF Grown
      <3>7. R!Unbroken' BY <1>4, <2>2, <2>3, <2>4, <3>1, <3>5, <3>6, UnbrokenMore
      <3>8. \A e \in R!Chunks : Grows(e)' => \A i \in DOMAIN recording'[e].content : recording'[e].content[i] = R!Whole(recording'[e].content[i])
        <4> SUFFICES ASSUME NEW e \in R!Chunks, Grows(e)', NEW i \in DOMAIN recording'[e].content
                     PROVE  recording'[e].content[i] = R!Whole(recording'[e].content[i])
          OBVIOUS
        <4>1. Grows(e) /\ e # k BY <1>2, <1>4, <2>12, <3>1 DEF Grows
        <4>2. recording'[e] = recording[e] BY <2>4, <4>1 DEF Grown
        <4> QED BY <2>15, <4>1, <4>2 DEF Filled
      <3> QED BY <1>2, <2>12, <3>2, <3>3, <3>4, <3>7, <3>8 DEF Filled, R!Whole
    <2>19. Placed'
      <3>1. R!OnceOnly'
        <4>1. \A e \in R!Chunks : \A i \in DOMAIN recording[e].content : R!Whole(recording[e].content[i]) # R!Whole(x)
          BY <1>3, <1>7, <2>1, <2>3 DEF Placed
        <4> QED BY <1>3, <1>4, <2>4, <4>1, OnceMore DEF Placed
      <3>2. \A q \in posts' : recording'[q.id].at # "none" BY <1>3, <1>4, <2>6 DEF Placed, Posts
      <3>3. \A q \in posts' : q.do = "chunk" => \A e \in R!Chunks : \A i \in DOMAIN recording'[e].content :
              R!Whole(recording'[e].content[i]) # q.of
        <4> SUFFICES ASSUME NEW q \in posts', q.do = "chunk", NEW e \in R!Chunks, NEW i \in DOMAIN recording'[e].content
                     PROVE  R!Whole(recording'[e].content[i]) # q.of
          OBVIOUS
        <4>1. CASE recording'[e].content[i] = x BY <2>3, <2>8, <4>1
        <4>2. CASE i \in DOMAIN recording[e].content /\ recording'[e].content[i] = recording[e].content[i]
          BY <1>3, <2>8, <4>2 DEF Placed
        <4> QED BY <2>7, <4>1, <4>2
      <3>4. \A q, r \in posts' : q.do = "chunk" /\ r.do = "chunk" /\ q.of = r.of => q = r BY <1>3, <1>4 DEF Placed
      <3> QED BY <3>1, <3>2, <3>3, <3>4 DEF Placed, R!Whole
    <2>20. Kept'
      <3>1. \A e \in R!Chunks : Uncounted(e) => Uncounted(e)' BY <1>2, <2>5, <2>7 DEF Uncounted
      <3>2. \A e \in R!Chunks : recording'[e].at = "aborted" => Uncounted(e)' BY <1>3, <2>6, <3>1 DEF Kept
      <3>3. \A q \in posts' : q.do = "abort" => Uncounted(q.id)' /\ (rec' # None => rec'.app # q.id)
        BY <1>2, <1>3, <1>4, <3>1 DEF Kept, Posts
      <3>4. \A q \in posts' : q.do = "chunk" => q.of \notin counted' BY <1>2, <1>3, <1>4 DEF Kept
      <3>5. (HasApp /\ ~rec.some => Uncounted(rec.app))' BY <1>2, <1>3, <2>12, <2>13, <3>1 DEF Kept
      <3> QED BY <3>2, <3>3, <3>4, <3>5 DEF Kept
    <2>21. Lined' BY <2>16, <2>17, <2>18 DEF Lined
    <2> QED BY <2>9, <2>10, <2>11, <2>14, <2>19, <2>20, <2>21 DEF RecordInv
  <1> QED BY <1>1, <1>5, <1>6, <1>7

LEMMA WorkerKilledKeeps == ASSUME Documented, RecordInv, R!WorkerKilled PROVE RecordInv'
  <1>k. PICK k, c, pc, pf : /\ k = step.id /\ c = Head(queued).of /\ pc = [id |-> k, do |-> "chunk", of |-> c]
                            /\ pf = [id |-> k, do |-> "finish", of |-> None]
    OBVIOUS
  <1>1. /\ \A p \in posts' : p \in posts \/ (step.at = "calling" /\ p = pc) \/ (step.at = "closing" /\ p = pf)
        /\ rec' = stored /\ stored' = stored
        /\ tab' = <<>> /\ after' = {} /\ queued' = <<>> /\ step' = R!Idle /\ timers' = {} /\ killed' = TRUE
        /\ UNCHANGED <<doc, recorded, capturing, open, relayed, channel>> /\ navigated' = navigated
        /\ capture' = capture /\ recording' = recording /\ counted' = counted
    BY <1>k DEF R!WorkerKilled, R!page
  <1>2. TypedRecording /\ InPhase /\ Reading /\ Placed /\ Kept BY DEF RecordInv
  <1>3. stored = rec \/ stored = None BY <1>2 DEF InPhase
  <1>4. PICK lo, mid, top \in Counts : InLine(lo, mid, top) /\ Behind(lo) /\ Filled(lo) BY DEF RecordInv, Lined
  <1>5. ASSUME step.at = "calling"
        PROVE  /\ c \in R!Chunks /\ c[1] \in Docs /\ c[2] <= mid[c[1]] /\ k \in R!Chunks /\ recording[k].at # "none"
               /\ pc \in Posts /\ pc.do = "chunk" /\ pc.id = k /\ pc.of = c
               /\ \A e \in R!Chunks : \A i \in DOMAIN recording[e].content : R!Whole(recording[e].content[i]) # c
               /\ c \notin counted
               /\ \A p \in posts : p.do = "chunk" => p.of # c
    <2>1. k \in R!Chunks /\ recording[k].at # "none" /\ queued # <<>> /\ Head(queued).cmd = "chunk" BY <1>k, <1>5, Calling
    <2>2. /\ c \in R!Chunks /\ c[1] \in Docs /\ c[2] <= mid[c[1]]
          /\ \A e \in R!Chunks : \A i \in DOMAIN recording[e].content :
               R!Whole(recording[e].content[i]) # c /\ recording[e].content[i] # c
          /\ c \notin counted
          /\ \A p \in posts : p.do = "chunk" => p.of # c
      BY <1>k, <1>4, <2>1, NextIsNew
    <2> QED BY <1>k, <2>1, <2>2 DEF Posts
  <1>6. ASSUME step.at = "closing"
        PROVE  k \in R!Chunks /\ recording[k].at # "none" /\ pf \in Posts /\ pf.do = "finish" /\ pf.id = k
    BY <1>2, <1>6, <1>k DEF InPhase, Posts
  <1>7. \A p \in posts' : p.do = "chunk" => p \in posts \/ (step.at = "calling" /\ p = pc) BY <1>1, <1>6
  <1>8. \A p \in posts' : p.do = "abort" => p \in posts BY <1>1, <1>5, <1>6
  <1>9. TypedRecording'
    <2>1. posts' \subseteq Posts BY <1>1, <1>2, <1>5, <1>6 DEF TypedRecording
    <2>2. tab' \in Seq(R!TabTasks) /\ queued' \in Seq(Queued) BY <1>1, EmptySeq
    <2> QED BY <1>1, <1>2, <2>1, <2>2, IdleIs DEF TypedRecording
  <1>10. PageInOrder' BY <1>1, PageStays DEF RecordInv
  <1>11. HasApp' => HasApp /\ rec' = rec BY <1>1, <1>3 DEF HasApp
  <1>12. InPhase' BY <1>1, <1>2, <1>3, <1>11, IdleIs DEF InPhase
  <1>13. Reading' BY <1>1 DEF Reading
  <1>14. R!ClosedOnceRevoked' BY <1>1 DEF R!ClosedOnceRevoked
  <1>15. Lined'
    <2>1. \A d \in Docs : lo[d] \in Nat /\ mid[d] \in Nat /\ Line(queued, d, lo[d], mid[d]) BY <1>4 DEF InLine, Counts
    <2>2. InLine(mid, mid, top)'
      <3>1. \A d \in Docs : Line(queued', d, mid[d], mid[d]) BY <1>1, <2>1, LineEmpty
      <3> QED BY <1>1, <1>4, <3>1 DEF InLine
    <2>3. \A d \in Docs : lo[d] <= mid[d] BY <2>1 DEF Line
    <2>4. Behind(mid)'
      <3>1. \A p \in posts' : p \in posts \/ (p.do = "chunk" => p.of[2] <= mid[p.of[1]]) BY <1>5, <1>7
      <3>2. step.at = "calling" => Head(queued).of[2] <= mid[Head(queued).of[1]] BY <1>5, <1>k
      <3> QED BY <1>1, <1>2, <1>4, <2>3, <3>1, <3>2, BehindMore
    <2>5. Filled(mid)' BY <1>1 DEF Filled
    <2> QED BY <2>2, <2>4, <2>5 DEF Lined
  <1>16. Placed'
    <2>1. R!OnceOnly' BY <1>1, <1>2 DEF Placed, R!OnceOnly
    <2>2. \A p \in posts' : recording[p.id].at # "none" BY <1>1, <1>2, <1>5, <1>6 DEF Placed
    <2>3. \A p \in posts' : p.do = "chunk" => \A e \in R!Chunks : \A i \in DOMAIN recording[e].content :
            R!Whole(recording[e].content[i]) # p.of
      BY <1>2, <1>5, <1>7 DEF Placed
    <2>4. \A p, q \in posts' : p.do = "chunk" /\ q.do = "chunk" /\ p.of = q.of => p = q BY <1>2, <1>5, <1>7 DEF Placed
    <2> QED BY <1>1, <2>1, <2>2, <2>3, <2>4 DEF Placed, R!Whole
  <1>17. Kept'
    <2>1. \A e \in R!Chunks : Uncounted(e)' <=> Uncounted(e) BY <1>1 DEF Uncounted
    <2>2. \A p \in posts' : p.do = "abort" => Uncounted(p.id)' /\ (rec' # None => rec'.app # p.id)
      <3> SUFFICES ASSUME NEW p \in posts, p.do = "abort" PROVE Uncounted(p.id)' /\ (rec' # None => rec'.app # p.id) BY <1>8
      <3>1. p.id \in R!Chunks BY <1>2 DEF TypedRecording, Posts
      <3> QED BY <1>1, <1>2, <1>3, <2>1, <3>1 DEF Kept
    <2>3. \A p \in posts' : p.do = "chunk" => p.of \notin counted BY <1>2, <1>5, <1>7 DEF Kept
    <2>4. \A e \in R!Chunks : recording[e].at = "aborted" => Uncounted(e)' BY <1>2, <2>1 DEF Kept
    <2>5. (HasApp /\ ~rec.some => Uncounted(rec.app))'
      <3>1. HasApp => rec.app \in R!Chunks BY <1>2, RecIs
      <3> QED BY <1>2, <1>11, <2>1, <3>1 DEF Kept
    <2> QED BY <1>1, <2>2, <2>3, <2>4, <2>5 DEF Kept
  <1> QED BY <1>9, <1>10, <1>12, <1>13, <1>14, <1>15, <1>16, <1>17 DEF RecordInv

-----------------------------------------------------------------------------
(* The recordings of a key from the first document on. *)
LEMMA StandingKeeps == ASSUME Documented, RecordInv, UNCHANGED R!vars PROVE RecordInv'
  <1>1. /\ UNCHANGED <<doc, recorded, capturing, open, relayed, channel, tab, after, capture, queued, step, stored, timers>>
        /\ rec' = rec /\ killed' = killed /\ counted' = counted /\ navigated' = navigated /\ recording' = recording /\ posts' = posts
    BY DEF R!vars, R!page, R!background
  <1>2. TypedRecording' BY <1>1 DEF RecordInv, TypedRecording
  <1>3. Ending BY <1>1 DEF Ending
  <1> QED BY <1>1, <1>2, <1>3, EndsBeside

LEMMA RecordInit == ASSUME Documented, R!Init PROVE RecordInv
  <1>1. /\ doc = 1 /\ recorded = 0 /\ capturing = TRUE /\ open = FALSE /\ relayed = <<>>
        /\ channel = [d \in Docs |-> <<>>]
        /\ navigated = FALSE
        /\ tab = <<>> /\ after = {} /\ capture = 1
        /\ queued = <<>> /\ step = R!Idle /\ rec = None /\ stored = None /\ timers = {} /\ killed = FALSE
        /\ recording = [c \in R!Chunks |-> [at |-> "none", content |-> <<>>]]
        /\ posts = {} /\ counted = {}
    BY DEF R!Init, Docs
  <1>2. doc \in Docs /\ Length[doc] \in Nat BY <1>1 DEF Documented, Docs
  <1>3. \A S : <<>> \in Seq(S) BY EmptySeq
  <1>4. \A c \in R!Chunks : recording[c] = [at |-> "none", content |-> <<>>] /\ recording[c] \in AppRecordings
    <2>1. [at |-> "none", content |-> <<>>] \in AppRecordings BY <1>3 DEF AppRecordings
    <2> QED BY <1>1, <2>1
  <1>5. TypedRecording
    <2>1. recorded \in 0 .. Length[doc] /\ capture \in Docs BY <1>1, <1>2
    <2>2. recording \in [R!Chunks -> AppRecordings] BY <1>1, <1>4
    <2>3. channel \in [Docs -> Seq(Sent \cup {ActiveMsg})] /\ \A d \in Docs : channel[d] \in Seq(Says(d)) BY <1>1, <1>3
    <2> QED BY <1>1, <1>2, <1>3, <2>1, <2>2, <2>3, IdleIs DEF TypedRecording
  <1>6. PageInOrder /\ Reading BY <1>1 DEF PageInOrder, Reading
  <1>7. ~HasApp BY <1>1 DEF HasApp
  <1>8. InPhase BY <1>1, <1>7, IdleIs DEF InPhase
  <1>9. \A c \in R!Chunks : recording[c].at = "none" /\ Len(recording[c].content) = 0 /\ DOMAIN recording[c].content = {}
    <2> TAKE c \in R!Chunks
    <2> QED BY <1>4
  <1>10. R!OnceOnly /\ R!Unbroken
    <2>1. \A c \in R!Chunks : 1 .. Len(recording[c].content) = {} BY <1>9
    <2> QED BY <2>1 DEF R!OnceOnly, R!Unbroken
  <1>11. Placed BY <1>1, <1>10 DEF Placed
  <1>12. Kept BY <1>1, <1>7, <1>9 DEF Kept
  <1>13. R!ClosedOnceRevoked BY <1>1 DEF R!ClosedOnceRevoked
  <1>14. Lined
    <2>1. PICK z : z = [d \in Docs |-> 0] OBVIOUS
    <2>2. z \in Counts /\ \A d \in Docs : z[d] = 0 BY <2>1 DEF Counts
    <2>3. InLine(z, z, z)
      <3>1. \A d \in Docs : Line(queued, d, 0, 0) /\ Line(channel[d], d, 0, 0) BY <1>1, LineEmpty
      <3>2. Line(relayed, doc, 0, 0) BY <1>1, LineEmpty
      <3> QED BY <1>1, <1>2, <2>2, <3>1, <3>2 DEF InLine
    <2>4. Behind(z) BY <1>1, <1>9 DEF Behind
    <2>5. Filled(z) BY <1>1, <1>7, <1>9, <1>10 DEF Filled
    <2> QED BY <2>2, <2>3, <2>4, <2>5 DEF Lined
  <1> QED BY <1>5, <1>6, <1>8, <1>11, <1>12, <1>13, <1>14 DEF RecordInv

LEMMA RecordNext == ASSUME Documented, RecordInv, [R!Next]_(R!vars) PROVE RecordInv'
  <1>1. CASE R!Record BY <1>1, RecordKeeps
  <1>2. CASE R!EndStream BY <1>2, EndStreamKeeps
  <1>3. CASE R!Relay BY <1>3, RelayKeeps
  <1>4. CASE R!Reload BY <1>4, ReloadKeeps
  <1>5. CASE R!Navigated BY <1>5, NavigatedKeeps
  <1>6. CASE \E d \in 1 .. Documents : R!Arrives(d)
    <2>1. PICK d \in 1 .. Documents : R!Arrives(d) BY <1>6
    <2> QED BY <2>1, ArrivesKeeps
  <1>7. CASE R!StopRecording BY <1>7, StopRecordingKeeps
  <1>8. CASE R!TabTask BY <1>8, TabTaskKeeps
  <1>9. CASE R!AfterGrant BY <1>9, AfterGrantKeeps
  <1>10. CASE R!AfterRevoke BY <1>10, AfterRevokeKeeps
  <1>11. CASE R!Timer BY <1>11, TimerKeeps
  <1>12. CASE R!CloseTask BY <1>12, CloseTaskKeeps
  <1>13. CASE R!ChunkTask BY <1>13, ChunkTaskKeeps
  <1>14. CASE R!MayRecord BY <1>14, MayRecordKeeps
  <1>15. CASE R!WorkerKilled BY <1>15, WorkerKilledKeeps
  <1>16. CASE R!StartCall BY <1>16, StartCallKeeps
  <1>17. CASE R!ChunkStored BY <1>17, ChunkStoredKeeps
  <1>18. CASE R!ChunkFails BY <1>18, ChunkFailsKeeps
  <1>19. CASE R!FinishCall BY <1>19, FinishCallKeeps
  <1>20. CASE R!Posted BY <1>20, PostedKeeps
  <1>21. CASE R!CloseStale BY <1>21, CloseStaleKeeps
  <1>22. CASE R!AppRestarts BY <1>22, AppRestartsKeeps
  <1>23. CASE R!Recover BY <1>23, RecoverKeeps
  <1>24. CASE UNCHANGED R!vars BY <1>24, StandingKeeps
  <1> QED BY <1>1, <1>2, <1>3, <1>4, <1>5, <1>6, <1>7, <1>8, <1>9, <1>10, <1>11, <1>12, <1>13, <1>14, <1>15, <1>16, <1>17,
             <1>18, <1>19, <1>20, <1>21, <1>22, <1>23, <1>24
          DEF R!Next, R!Page, R!Background, R!App

(* What is in a sequence of messages is a message. *)
LEMMA RangeIn == ASSUME NEW S, NEW q \in Seq(S) PROVE R!Range(q) \subseteq S
  BY DEF R!Range

LEMMA SentIsTask == Sent \subseteq R!Task /\ Queued \subseteq R!Task
  BY DEF Sent, Queued, ChunkMsgs, R!Finish, R!Task

LEMMA RecordingTyped == ASSUME Documented, TypedRecording PROVE R!TypeOK
  <1>1. \A d \in 1 .. Documents : R!Range(channel[d]) \subseteq R!Task \cup {[cmd |-> "active", of |-> None]}
    <2> TAKE d \in 1 .. Documents
    <2>1. channel[d] \in Seq(Sent \cup {ActiveMsg}) BY DEF TypedRecording, Docs
    <2> QED BY <2>1, RangeIn, SentIsTask DEF ActiveMsg
  <1>2. R!Range(relayed) \subseteq R!Task /\ R!Range(queued) \subseteq R!Task /\ R!Range(tab) \subseteq R!TabTasks
    <2>1. relayed \in Seq(Sent) /\ queued \in Seq(Queued) /\ tab \in Seq(R!TabTasks) BY DEF TypedRecording
    <2> QED BY <2>1, RangeIn, SentIsTask
  <1>3. step.at \in {"idle", "asking", "closing", "starting", "calling"} /\ step.id \in R!Chunks \cup {None} BY DEF TypedRecording
  <1>4. rec \in R!Recs /\ stored \in R!Recs BY DEF TypedRecording, OpenRecs, R!Recs, Docs
  <1>5. \A c \in R!Chunks : recording[c].at \in {"none", "open", "left", "finished", "aborted"} BY DEF TypedRecording, AppRecordings
  <1>6. posts \subseteq [id : R!Chunks, do : {"chunk", "finish", "abort"}, of : R!Chunks \cup {None}] BY DEF TypedRecording, Posts
  <1>7. /\ doc \in 1 .. Documents /\ recorded \in 0 .. Length[doc]
        /\ capturing \in BOOLEAN /\ open \in BOOLEAN /\ navigated \in BOOLEAN /\ killed \in BOOLEAN
        /\ after \subseteq R!TabTasks /\ capture \in 1 .. Documents \cup {None} /\ timers \subseteq R!Chunks /\ counted \subseteq R!Chunks
    BY DEF TypedRecording, Docs
  <1> QED BY <1>1, <1>2, <1>3, <1>4, <1>5, <1>6, <1>7 DEF R!TypeOK

LEMMA RecordShown ==
  ASSUME Documented, RecordInv
  PROVE  R!TypeOK /\ R!Unbroken /\ R!OnceOnly /\ R!CountedIsKept /\ R!ClosedOnceRevoked
  <1>1. TypedRecording /\ Placed /\ Kept BY DEF RecordInv
  <1>2. R!TypeOK BY <1>1, RecordingTyped
  <1>3. R!Unbroken
    <2>1. CASE killed BY <2>1 DEF R!Unbroken
    <2>2. CASE ~killed BY <2>2 DEF RecordInv, Lined, Filled
    <2> QED BY <2>1, <2>2
  <1>4. R!CountedIsKept
    <2> SUFFICES ASSUME NEW c \in R!Chunks, recording[c].at = "aborted" PROVE R!Range(recording[c].content) \cap counted = {}
      BY DEF R!CountedIsKept
    <2>1. Uncounted(c) BY <1>1 DEF Kept
    <2> QED BY <2>1 DEF Uncounted, R!Range
  <1> QED BY <1>1, <1>2, <1>3, <1>4 DEF RecordInv, Placed

(* A buffer recording, over any number of documents and chunks, and whatever goes wrong however often: it holds chunks of   *)
(* one document without a hole, whole but the last, from the one it was started for on (unless the browser has ended the    *)
(* background in the middle of a call); no chunk is in two recordings, or twice in one; and nothing the app said it has is  *)
(* thrown away (background.js: onRecChunk, finishRecording; recording.rs: start, chunk, finish, abort).                     *)
THEOREM RecordingsWhole ==
  ASSUME Documented
  PROVE  R!Spec => [](R!TypeOK /\ R!Unbroken /\ R!OnceOnly /\ R!CountedIsKept)
  <1>1. R!Init => RecordInv BY RecordInit
  <1>2. RecordInv /\ [R!Next]_(R!vars) => RecordInv' BY RecordNext
  <1>3. RecordInv => R!TypeOK /\ R!Unbroken /\ R!OnceOnly /\ R!CountedIsKept BY RecordShown
  <1> QED BY <1>1, <1>2, <1>3, PTL DEF R!Spec

(* While the background lives, a recording of a document that may not record, or no longer, is about to be closed: what     *)
(* follows the user's stop or the next document's start, a task in the queue, or a timer will do it, and none of these is   *)
(* lost to a recording that was started in between (background.js: REC_ACTIVE, REC_STOP, closeRecording).                   *)
THEOREM RecordingsClosed == ASSUME Documented PROVE R!Spec => []R!ClosedOnceRevoked
  <1>1. R!Init => RecordInv BY RecordInit
  <1>2. RecordInv /\ [R!Next]_(R!vars) => RecordInv' BY RecordNext
  <1>3. RecordInv => R!ClosedOnceRevoked BY RecordShown
  <1> QED BY <1>1, <1>2, <1>3, PTL DEF R!Spec
=============================================================================
