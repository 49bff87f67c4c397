------------------------------- MODULE MCWindow -------------------------------
(***************************************************************************)
(* The window's queue, the files of a stream's tracks, the repair of a     *)
(* file, and recordings of the browser's and of live streams, on small     *)
(* instances: they share no state, and in a behaviour one of them,         *)
(* `system`, moves, and the others stay as they were at the start.         *)
(*   "queue"   DownloadWindow          "tracks"  StreamWriter              *)
(*   "repair"  Repair                                                      *)
(*   "record"  Recording: a page is reloaded while it is recorded          *)
(*   "live"    LiveRecording: two tracks, one ad, and a restart            *)
(***************************************************************************)
EXTENDS MCDownloadWindow, TLC

CONSTANTS s1, s2, s3, Junk, m1, m2, Bad, Hole

VARIABLES
  system,
  run, spent, toFetch, channel, closed, trackWriter, trackSaver, part, durable, state, final,
  file, mended, known, volatile, aside, claim, history, hashed, remote, repair, engine, chances,
  doc, recorded, capturing, open, relayed, messages, navigated, tab, after, capture, queued, step, rec, stored, timers,
  recording, posts, killed, counted, trials,
  newest, base, live, duration, listings, at, track, from, last, broken, batch, taken, fresh, gone, until, end,
  written, breaks, seen, skipped, credit

(* Two tracks of a playlist the link lists under two queries, or, for another day, another one. The *)
(* download runs three times, is dropped once, and the disk fails once.                             *)
S == INSTANCE StreamWriter WITH
  Tracks <- {1, 2}, Length <- <<2, 1>>, Streams <- {s1, s2, s3}, Content <- (s1 :> 1 @@ s2 :> 1 @@ s3 :> 2),
  WriteQueue <- 1, Fsync <- FALSE, Budget <- [what \in {"run", "drop", "diskError"} |-> IF what = "run" THEN 2 ELSE 1],
  left <- toFetch, queue <- channel, writer <- trackWriter, saver <- trackSaver

(* Two mirrors, the second of which honors If-Range: each thing that may happen once, and two repairs. *)
P == INSTANCE Repair WITH
  Pieces <- {1, 2}, Versions <- {1, 2}, Links <- <<m1, m2>>, Honors <- {m2}, Rounds <- 2,
  Budget <- [what \in {"repair", "other", "crash", "publish", "fail", "corrupt"} |-> IF what = "repair" THEN 2 ELSE 1],
  part <- mended, state <- known, left <- chances

(* The user stops it, a call fails, the app closes it or ends, or the browser ends the background, once. *)
R == INSTANCE Recording WITH
  Documents <- 2, Length <- <<2, 1>>, tasks <- queued, channel <- messages, left <- trials,
  Budgets <- {[what \in {"stop", "error", "restart", "kill"} |-> IF what = once THEN 1 ELSE 0] :
                once \in {"stop", "error", "restart", "kill"}}

(* Playlists of two segments; with and without a limit; the server restarts and refuses a segment, once. *)
L == INSTANCE LiveRecording WITH
  Tracks <- {1, 2}, Length <- 4, Window <- 2, Ads <- {3}, First <- 10, Lead <- 1, MaxGone <- 1, Limits <- {None, 3},
  limit <- duration, left <- credit, Budget <- [what \in {"restart", "gone"} |-> 1]

svars == <<run, spent, toFetch, channel, closed, trackWriter, trackSaver, part, durable, state, final>>
pvars == <<file, mended, known, volatile, aside, claim, history, hashed, remote, repair, engine, chances>>
rvars == <<doc, recorded, capturing, open, relayed, messages, navigated, tab, after, capture, queued, step, rec, stored, timers,
           recording, posts, killed, counted, trials>>
lvars == <<newest, base, live, duration, listings, at, track, from, last, broken, batch, taken, fresh, gone, until, end,
           written, breaks, seen, skipped, credit>>
mcvars == <<system, vars, svars, pvars, rvars, lvars>>

-----------------------------------------------------------------------------
MCInit ==
  /\ system \in {"queue", "tracks", "repair", "record", "live"}
  /\ Init /\ (system # "queue" => left = Use(2, 1, 0, 0, 0, 1))
  /\ S!Init
  /\ P!Init
  /\ history.pieces \/ (aside = "none" /\ ~hashed)
  /\ hashed => aside = "none"
  /\ system # "repair" => hashed /\ file = [p \in {1, 2} |-> Bad]
  /\ R!Init /\ (system # "record" => trials["stop"] = 1)
  /\ L!Init /\ (system # "live" => duration = None)

Moves(moving) == system = moving /\ UNCHANGED system

MCNext ==
  \/ Moves("queue") /\ Next /\ UNCHANGED <<svars, pvars, rvars, lvars>>
  \/ Moves("tracks") /\ S!Next /\ UNCHANGED <<vars, pvars, rvars, lvars>>
  \/ Moves("repair") /\ P!Next /\ UNCHANGED <<vars, svars, rvars, lvars>>
  \/ Moves("record") /\ R!Next /\ UNCHANGED <<vars, svars, pvars, lvars>>
  \/ Moves("live") /\ L!Next /\ UNCHANGED <<vars, svars, pvars, rvars>>

MCSpec == MCInit /\ [][MCNext]_mcvars

-----------------------------------------------------------------------------
(* What a track's state says of its .part would survive the machine failing now, and is that many      *)
(* segments of one stream in order (hls.rs: write_segments, ResumeState::save).  And so would what the   *)
(* state says of a .part that is mended, all of it of the version the state names; nor does history      *)
(* vouch for damage a repair kept (verify.rs: prepare_repair, finish_repair, keep_recorded_hash).        *)
ResumeIsSafe ==
  /\ system = "tracks" => S!TypeOK /\ S!ResumeIsSafe
  /\ system = "repair" => P!TypeOK /\ P!StateIsTrue /\ P!DamageShows

(* Across runs, crashes and rotated links a track keeps what Transfer promises of a download, and a      *)
(* finished file is the whole track of one stream (hls.rs: prepare, download_tracks).  Nor do repairs    *)
(* lose good bytes, mix versions or name a file that is not whole (verify.rs: repair_missing_ranges).    *)
KeepsPromise == S!KeepsPromise /\ P!NothingGoodLost

===============================================================================
