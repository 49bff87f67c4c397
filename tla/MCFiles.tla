------------------------------- MODULE MCFiles --------------------------------
(***************************************************************************)
(* Names, claims, hashes and the history of files, a download's mirrors,   *)
(* and the app's own files in an update, on small instances of parts that  *)
(* share no state: in a behaviour one of them, `system`, moves, and the    *)
(* others stay as they were at its start.                                  *)
(*   "lock"     NameLock, which this extends                               *)
(*   "names"    TargetNames: two downloads of one name and a tool          *)
(*   "older"    TargetNames: also what an older release left, and the user *)
(*   "replace"  TargetNames: the second download is to replace its file    *)
(*   "hashes"   DiskHashes                                                 *)
(*   "history"  HistoryFile                                                *)
(*   "mirrors"  MirrorPolicy: one was redirected, one joins late           *)
(*   "takeover" MirrorPolicy: connections to the only one are taken over   *)
(*   "update"   Updater: one process of each program, releases to 3        *)
(***************************************************************************)
EXTENDS NameLock, TLC

CONSTANTS d1, d2, t1, u1, u2, Mine, Hole, Writers, Values, k1, k2, k3, Corrupt, m1, m2, x1, x2, g, c, Torn

VARIABLES
  system,
  file, part, state, legacy, locks, owner, task, num, target, history, left,
  disk, writer, writes, written, block, followed, refollow, stopped, follower, digest,
  plan, entries, synced, survivor, lock, step, list, pending, tmp, todo, number, turn, generation, applied, shown,
  latest, gone, troubles,
  joined, probing, mirror, attempt, free, completed, counted, answered, fatal, outcome, refused, chances,
  exe, new, old, more, extension, staged, moved, image, build, job, mode, credit

World == {"crash", "stale", "wrong", "user", "legacy"}
Troubles(set) == [what \in World |-> IF what \in set THEN 1 ELSE 0]

N == INSTANCE TargetNames WITH
  Downloads <- {d1, d2}, Tools <- {t1}, Urls <- {u1, u2}, Url <- (d1 :> u1 @@ d2 :> u2),
  Bases <- {"a"}, Base <- (d1 :> "a" @@ d2 :> "a"), Shown <- [b \in {"a"} |-> b], Replaces <- {},
  None <- NoFile, MaxN <- 1, pc <- task,
  Budgets <- {Troubles({"crash", "stale", "wrong"}), Troubles({"crash", "stale", "user", "legacy"})}

P == INSTANCE TargetNames WITH
  Downloads <- {d1, d2}, Tools <- {t1}, Urls <- {u1, u2}, Url <- (d1 :> u1 @@ d2 :> u2),
  Bases <- {"a"}, Base <- (d1 :> "a" @@ d2 :> "a"), Shown <- [b \in {"a"} |-> b], Replaces <- {d2},
  None <- NoFile, MaxN <- 1, pc <- task, Budgets <- {Troubles({"crash", "stale", "wrong"})}

(* Two blocks, the second a short one. *)
D == INSTANCE DiskHashes WITH Size <- 3, Block <- 2, Step <- 2, MaxWrites <- 2

(* What three tasks do to the history: downloads are recorded, one of a file that replaces another's; the *)
(* window removes, clears or refreshes; finished files are sorted, and streams' entries removed.           *)
New(n, path) == [kind |-> "record", entry |-> [id |-> n, path |-> path, at |-> n], replaced |-> NoFile]
Remuxed(n, path, from) == [New(n, path) EXCEPT !.replaced = from]
InWindow == [kind |-> "window"]
Sorted == [kind |-> "move", from |-> "a", to |-> "b"]
Streams == [kind |-> "streams", of |-> {"a", "b"}]
Several == {
  k1 :> New(1, "a") @@ k2 :> InWindow @@ k3 :> InWindow,
  k1 :> New(1, "b") @@ k2 :> New(2, "b") @@ k3 :> InWindow,
  k1 :> New(1, "b") @@ k2 :> Streams @@ k3 :> Remuxed(2, "b", "a"),
  k1 :> New(1, "b") @@ k2 :> Sorted @@ k3 :> InWindow,
  k1 :> Streams @@ k2 :> Sorted @@ k3 :> New(3, "a")}

H == INSTANCE HistoryFile WITH
  Tasks <- {k1, k2, k3}, Plans <- Several, Paths <- {"a", "b"}, MaxEntries <- 2, MaxTroubles <- 2, None <- NoFile,
  file <- entries, disk <- survivor, pc <- step

Spendable(set) == {[what \in {"takeover", "progress", "cancel"} |-> IF what \in set THEN 1 ELSE 0]}

M == INSTANCE MirrorPolicy WITH
  Workers <- {x1, x2}, Mirrors <- {m1, m2}, Early <- {m1}, Redirected <- {m1}, Chunks <- {1, 2},
  MaxBad <- 2, MaxRetries <- 0, Channel <- 1, None <- NoFile, Budgets <- Spendable({}),
  worker <- attempt, tries <- counted, left <- chances

O == INSTANCE MirrorPolicy WITH
  Workers <- {x1, x2}, Mirrors <- {m1}, Early <- {m1}, Redirected <- {m1}, Chunks <- {1, 2},
  MaxBad <- 2, MaxRetries <- 1, Channel <- 1, None <- NoFile, Budgets <- Spendable({"takeover"}),
  worker <- attempt, tries <- counted, left <- chances

U == INSTANCE Updater WITH
  Processes <- {g, c}, Runs <- (g :> "gui" @@ c :> "cli"), Latest <- 3, None <- NoFile, left <- credit,
  Budget <- [what \in {"update", "fail", "crash"} |-> IF what = "update" THEN 2 ELSE 1]

nvars == <<file, part, state, legacy, locks, owner, task, num, target, history, left>>
dvars == <<disk, writer, writes, written, block, followed, refollow, stopped, follower, digest>>
hvars == <<plan, entries, synced, survivor, lock, step, list, pending, tmp, todo, number, turn, generation, applied, shown,
           latest, gone, troubles>>
mvars == <<joined, probing, mirror, attempt, free, completed, counted, answered, fatal, outcome, refused, chances>>
uvars == <<exe, new, old, more, extension, staged, moved, image, build, job, mode, credit>>
mcvars == <<system, vars, nvars, dvars, hvars, mvars, uvars>>

-----------------------------------------------------------------------------
MCInit ==
  /\ system \in {"lock", "names", "older", "replace", "hashes", "history", "mirrors", "takeover", "update"}
  /\ Init
  /\ IF system = "replace" THEN P!Init ELSE N!Init /\ (left["legacy"] = 1 <=> system = "older")
  /\ system \in {"lock", "hashes", "history", "mirrors", "takeover", "update"} => \A x \in N!Names : file[x] = NoFile
  /\ D!Init /\ (system # "hashes" => written = {})
  /\ H!Init /\ (system # "history" => entries = NoFile /\ plan = CHOOSE p \in Several : TRUE)
  /\ IF system = "takeover" THEN O!Init ELSE M!Init
  /\ U!Init /\ (system # "update" => mode = "cutOff")

Moves(moving) == system = moving /\ UNCHANGED system

MCNext ==
  \/ Moves("lock") /\ Next /\ UNCHANGED <<nvars, dvars, hvars, mvars, uvars>>
  \/ (Moves("names") \/ Moves("older")) /\ N!Next /\ UNCHANGED <<vars, dvars, hvars, mvars, uvars>>
  \/ Moves("replace") /\ P!Next /\ UNCHANGED <<vars, dvars, hvars, mvars, uvars>>
  \/ Moves("hashes") /\ D!Next /\ UNCHANGED <<vars, nvars, hvars, mvars, uvars>>
  \/ Moves("history") /\ H!Next /\ UNCHANGED <<vars, nvars, dvars, mvars, uvars>>
  \/ Moves("mirrors") /\ M!Next /\ UNCHANGED <<vars, nvars, dvars, hvars, uvars>>
  \/ Moves("takeover") /\ O!Next /\ UNCHANGED <<vars, nvars, dvars, hvars, uvars>>
  \/ Moves("update") /\ U!Next /\ UNCHANGED <<vars, nvars, dvars, hvars, mvars>>

MCSpec == MCInit /\ [][MCNext]_mcvars

Symmetry == Permutations({x1, x2})

-----------------------------------------------------------------------------
(* What a download fetches into is its own .part beside its own state, until it is renamed; what a *)
(* state says of a .part is true, and a .part nobody works on has its state, whoever died between   *)
(* which two steps (engine.rs: plan_target, download, finalize, discard_partial).                   *)
PartsAreOwned == system \in {"names", "older", "replace"} => N!TypeOK /\ N!WritesItsOwn /\ N!Resumable

(* No file is replaced but by the one download that is to (engine.rs: plan_target, finalize); not even *)
(* the user moves one in or away here, which finalize does not notice between its look and its rename. *)
(* And an update replaces every program it was to, or, if it fails, none (updater.rs: install, swap).   *)
NeverReplaced == [][
  CASE system = "names" -> N!Untouched
    [] system = "replace" -> P!Untouched
    [] system = "update" -> U!ReplacesAllOrNone
    [] OTHER -> TRUE]_<<nvars, uvars>>

(* A block's hash, a head it is hashed on from, and the claim that it is being hashed are right at any *)
(* time, and so is a digest, by every algorithm, also a second one, whatever writes race and come      *)
(* again (storage.rs: wrote, hash_read, digest, follow).                                                *)
DigestsAreOfTheFile == system = "hashes" => D!TypeOK /\ D!BlocksAreKnown /\ D!DigestIsOfFile

(* A save changes the history others left in the file, and nothing of theirs is lost or back, in any *)
(* of several processes, timeouts, full disks, crashes and power cuts (history.rs: save).            *)
BuildsOnTheFile == H!BuildsOnTheFile

(* The window shows the list its last update found, whichever event came first (main.rs: update_history, *)
(* in_sequence).                                                                                          *)
ShownIsLatest == system = "history" => H!TypeOK /\ H!ShownIsLatest

(* A mirror's connections are counted right, through takeovers, late verdicts and the end; it is dropped   *)
(* for what its own URL answered only, and the download gives up on its mirrors once each is dropped        *)
(* (mirror.rs: in_flight; worker.rs: record_failure, at_redirect_target).                                   *)
MirrorsAreJudgedRight ==
  /\ system = "mirrors" => M!TypeOK /\ M!InFlightIsTrue /\ M!DroppedForItsOwn
  /\ system = "takeover" => O!TypeOK /\ O!InFlightIsTrue /\ O!DroppedForItsOwn

===============================================================================
