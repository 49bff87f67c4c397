------------------------------ MODULE MCProgress ------------------------------
(***************************************************************************)
(* What must go on, on small instances of parts that share no state: in a  *)
(* behaviour one of them, `system`, moves, and the others stay as they     *)
(* were at its start.                                                      *)
(*   "window"    InOrder, which this extends                               *)
(*   "download"  RangeDownload          "name"     NameLock                *)
(*   "hashes"    DiskHashes             "tracks"   StreamWriter            *)
(*   "queue"     DownloadWindow         "slots"    HostBudget              *)
(*   "mirrors"   MirrorPolicy                                              *)
(***************************************************************************)
EXTENDS InOrder, Sequences, TLC

CONSTANTS None, Hole, Workers, Claimers, LockFiles, Writers, Stream, Requests, Site

VARIABLES
  system,
  chunks, completed, nextFresh, retryQueue, fatal, worker, thief, engine, result, cancelled,
  ref, resume, snap, remote, bytes, durable, part, saved, final, budget,
  at, handle, locked, pc, tries, crashes,
  disk, writer, writes, written, block, followed, refollow, stopped, follower, digest,
  run, spent, toFetch, channel, closed, trackWriter, trackSaver, trackPart, trackDurable, trackState, trackFinal,
  status, small, job, discarding, resuming, restarting, auto, schedulePaused, settings, app, turn, changed,
  chan, saver, queueFile, yours, left,
  entry, kept, file, request, limit, woken, calling,
  joined, probing, mirror, attempt, free, received, counted, answered, aborted, end, refused, chances

-----------------------------------------------------------------------------
World == {"failure", "refusal", "silence", "diskError", "persist", "cancel", "mismatch", "run", "change"}

(* No chunk fails more often than it may, and one connection falls silent. *)
Completions == {[k \in World |-> IF k \in {"failure", "silence"} THEN 1 ELSE 0]}
R == INSTANCE RangeDownload WITH
  Size <- 2, BaseChunk <- 2, MinSteal <- 1, MaxRetries <- 1, WriteBatch <- 1, Prefetch <- 0, Versions <- 1,
  NoByte <- Hole, Budgets <- Completions, outcome <- result, disk <- bytes, left <- budget

(* A crash may leave a lock file. *)
L == INSTANCE NameLock WITH Files <- LockFiles, NoFile <- None, Tries <- 2, Windows <- FALSE, MaxCrashes <- 1

(* Two blocks, the second a short one. *)
D == INSTANCE DiskHashes WITH Size <- 3, Block <- 2, Step <- 2, Values <- {1}, MaxWrites <- 2

(* The disk may fail once. *)
S == INSTANCE StreamWriter WITH
  Tracks <- {1, 2}, Length <- <<3, 1>>, Streams <- {Stream}, Content <- (Stream :> 1), WriteQueue <- 1,
  Fsync <- TRUE, Junk <- Hole, Budget <- [what \in {"run", "drop", "diskError"} |-> IF what = "diskError" THEN 1 ELSE 0],
  left <- toFetch, queue <- channel, writer <- trackWriter, saver <- trackSaver,
  part <- trackPart, durable <- trackDurable, state <- trackState, final <- trackFinal

(* Two downloads of one file and a place for one; or one, which the user may pause, and the window may close. *)
Asked == {[what \in {"add", "ask", "schedule", "discard", "crash", "exit"} |->
             CASE what = "add" -> 3 - n [] what \in {"ask", "exit"} -> n - 1 [] OTHER -> 0] : n \in 1 .. 2}
W == INSTANCE DownloadWindow WITH
  Ids <- {1, 2}, File <- <<"f", "f">>, Private <- {2}, Secret <- {1}, Live <- {2}, MaxRunning <- 1,
  SmallAtOnce <- 1, MaxUnsaved <- 1, Smalls <- {}, Budgets <- Asked, disk <- queueFile

(* A host that takes one request at a time. *)
H == INSTANCE HostBudget WITH Limits <- {0}, DefaultCap <- 1, PoolMaxIdle <- 1, pc <- request

(* One mirror, redirected at first; one attempt fails late, with something new in the file, or the user cancels. *)
M == INSTANCE MirrorPolicy WITH
  Mirrors <- {Site}, Early <- {Site}, Redirected <- {Site}, Chunks <- {1, 2}, MaxBad <- 2, MaxRetries <- 0, Channel <- 1,
  Budgets <- {[what \in {"takeover", "progress", "cancel"} |-> IF what = "takeover" THEN 0 ELSE 1]},
  worker <- attempt, completed <- received, tries <- counted, fatal <- aborted, outcome <- end, left <- chances

rvars == <<chunks, completed, nextFresh, retryQueue, fatal, worker, thief, engine, result, cancelled,
           ref, resume, snap, remote, bytes, durable, part, saved, final, budget>>
lvars == <<at, handle, locked, pc, tries, crashes>>
dvars == <<disk, writer, writes, written, block, followed, refollow, stopped, follower, digest>>
svars == <<run, spent, toFetch, channel, closed, trackWriter, trackSaver, trackPart, trackDurable, trackState, trackFinal>>
wvars == <<status, small, job, discarding, resuming, restarting, auto, schedulePaused, settings, app, turn, changed,
           chan, saver, queueFile, yours, left>>
hvars == <<entry, kept, file, request, limit, woken, calling>>
mvars == <<joined, probing, mirror, attempt, free, received, counted, answered, aborted, end, refused, chances>>
mcvars == <<system, vars, rvars, lvars, dvars, svars, wvars, hvars, mvars>>

-----------------------------------------------------------------------------
MCInit ==
  /\ system \in {"window", "download", "name", "hashes", "tracks", "queue", "slots", "mirrors"}
  /\ Init /\ R!Init /\ L!Init /\ S!Init /\ H!Init /\ M!Init
  /\ D!Init /\ (system # "hashes" => written = {})
  /\ W!Init /\ (system # "queue" => left["add"] = 1)

Moves(part_) == system = part_ /\ UNCHANGED system

MCNext ==
  \/ Moves("window") /\ Next /\ UNCHANGED <<rvars, lvars, dvars, svars, wvars, hvars, mvars>>
  \/ Moves("download") /\ R!Next /\ UNCHANGED <<vars, lvars, dvars, svars, wvars, hvars, mvars>>
  \/ Moves("name") /\ L!Next /\ UNCHANGED <<vars, rvars, dvars, svars, wvars, hvars, mvars>>
  \/ Moves("hashes") /\ D!Next /\ UNCHANGED <<vars, rvars, lvars, svars, wvars, hvars, mvars>>
  \/ Moves("tracks") /\ S!Next /\ UNCHANGED <<vars, rvars, lvars, dvars, wvars, hvars, mvars>>
  \/ Moves("queue") /\ W!Next /\ UNCHANGED <<vars, rvars, lvars, dvars, svars, hvars, mvars>>
  \/ Moves("slots") /\ H!Next /\ UNCHANGED <<vars, rvars, lvars, dvars, svars, wvars, mvars>>
  \/ Moves("mirrors") /\ M!Next /\ UNCHANGED <<vars, rvars, lvars, dvars, svars, wvars, hvars>>

(* Of the part that moves, the fairness its module states and gives reasons for. *)
MCFairness ==
  /\ WF_vars(system = "window" /\ Launch)
  /\ WF_vars(system = "window" /\ Pop)
  /\ WF_vars(system = "window" /\ IsDone)
  /\ \A u \in Unit : /\ WF_vars(system = "window" /\ Poll(u))
                     /\ WF_vars(system = "window" /\ FirstEnds(u))
                     /\ WF_vars(system = "window" /\ SecondEnds(u))
  /\ \A w \in Workers : /\ WF_rvars(system = "download" /\ R!Proceed(w))
                        /\ WF_rvars(system = "download" /\ R!Answered(w))
                        /\ WF_rvars(system = "download" /\ R!Body(w))
                        /\ SF_rvars(system = "download" /\ R!Work(w))
                        /\ SF_rvars(system = "download" /\ (R!Settle(w) \/ R!NoMirrorLeft(w)))
  /\ WF_rvars(system = "download" /\ R!EngineGoesOn)
  /\ SF_rvars(system = "download" /\ R!AllCompleted)
  /\ SF_rvars(system = "download" /\ R!HasFatalFailure)
  /\ \A c \in Claimers : WF_lvars(system = "name" /\ L!GoOn(c))
  /\ WF_dvars(system = "hashes" /\ D!Follow)
  /\ WF_dvars(system = "hashes" /\ D!Digest)
  /\ \A w \in Writers : WF_dvars(system = "hashes" /\ D!Write(w))
  /\ WF_svars(system = "tracks" /\ S!Joined)
  /\ \A t \in {1, 2} : WF_svars(system = "tracks" /\ S!WriterStep(t)) /\ WF_svars(system = "tracks" /\ S!SaverStep(t))
  /\ WF_wvars(system = "queue" /\ \E id \in {1, 2} : W!ResumeNext(id))
  /\ WF_wvars(system = "queue" /\ \E id \in {1, 2} : W!StartQueued(id))
  /\ \A id \in {1, 2} : WF_wvars(system = "queue" /\ W!JobEnds(id)) /\ WF_wvars(system = "queue" /\ W!JobFinished(id))
  /\ WF_wvars(system = "queue" /\ W!EventsDone)
  /\ WF_wvars(system = "queue" /\ W!SchedulerDone)
  /\ WF_wvars(system = "queue" /\ W!FrameEnds)
  /\ WF_wvars(system = "queue" /\ (W!Collect \/ W!DelayOver \/ W!WriteQueue))
  /\ WF_wvars(system = "queue" /\ app = "closing" /\ W!Leave)
  /\ WF_wvars(system = "queue" /\ (W!Drain \/ W!Exit))
  /\ \A r \in Requests : WF_hvars(system = "slots" /\ H!Runs(r))
  /\ \A w \in Workers : /\ WF_mvars(system = "mirrors" /\ M!TakeSlot(w))
                        /\ WF_mvars(system = "mirrors" /\ M!NextJob(w))
                        /\ WF_mvars(system = "mirrors" /\ M!NoJob(w))
                        /\ WF_mvars(system = "mirrors" /\ M!Attempt(w))
                        /\ WF_mvars(system = "mirrors" /\ M!Finish(w))
  /\ WF_mvars(system = "mirrors" /\ M!CoolsDown(Site))
  /\ WF_mvars(system = "mirrors" /\ M!Hear(Site))
  /\ WF_mvars(system = "mirrors" /\ M!End)

MCFairSpec == MCInit /\ [][MCNext]_mcvars /\ MCFairness

-----------------------------------------------------------------------------
(* A download ends with the file, if each chunk fails at most max_retries times in a row. *)
Completes == system = "download" => R!Completes

(* Whoever tries for a name, somebody has it in the end, once nobody dies any more: attempts do not *)
(* fail on each other for ever, and a lock file a crash left is in nobody's way (engine.rs: try_take). *)
SomebodyGetsIt == system = "name" => L!SomebodyGetsIt

(* Once everything is written, the prefix hasher gets to the end of it, unless it is stopped or cannot *)
(* read, and a digest under way ends: no signal for it is lost (storage.rs: changed).                  *)
FollowsToTheEnd == system = "hashes" => D!FollowsToTheEnd

(* Once every segment of a track is with its writer, its file gets its name, although another track *)
(* fails or the user cancels (hls.rs: download_tracks, write_segments).                             *)
NamedOnceHandedOver == system = "tracks" => S!NamedOnceHandedOver

(* Pausing ends, what is queued starts once it may, and what changed is saved (the window's update). *)
NothingHangs == system = "queue" => W!NothingHangs

(* Whoever waits for a slot is woken again and again, as long as requests end (hosts.rs: release). *)
EveryWaiterWoken == system = "slots" => H!EveryWaiterWoken

(* The stream's window ends, whatever requests fail or are made twice (hls.rs: InOrder, race); and so *)
(* does a download, however its mirrors throttle, refuse and redirect (worker.rs: record_failure).    *)
LoopsEnd ==
  /\ system = "window" => <>(outcome # "none")
  /\ system = "mirrors" => M!Ends
===============================================================================
