------------------------------ MODULE TargetNames ------------------------------
(***************************************************************************)
(* Downloads that choose, share and fill names in one folder (engine.rs:   *)
(* plan_target, download, finalize, discard_partial): each walks `name`,   *)
(* `name (1)`, ... to one it may use, writes `<name>.part` beside a state, *)
(* and renames it when it is done. A claim on a name is NameLock's, taken  *)
(* here as what NameOwner promises; its lock file stays after a crash.     *)
(*                                                                         *)
(* What a file holds is the address it was downloaded from. Every address  *)
(* has its own size, so that a file is told from another's by its length.  *)
(***************************************************************************)
EXTENDS Naturals, Sequences, FiniteSets

CONSTANTS
  Downloads,   (* tasks of any process, each of one address and one base name *)
  Tools,       (* tools that discard partial files                            *)
  Urls,        (* addresses                                                   *)
  Url,         (* the address of each download                                *)
  Bases,       (* names of files, as asked for                                *)
  Base,        (* the one each download asks for                              *)
  Shown,       (* the name a base takes once its contents are known (sniff.rs)*)
  Replaces,    (* the downloads that are to replace the file at their base    *)
  Mine,        (* what the user's own files hold: no address                  *)
  None,        (* no file, no address, no actor, no name: none of all these   *)
  MaxN,        (* bound of the model: the highest number added to a name      *)
  Budgets      (* bounds of the model: how often what may happen, one for the *)
               (* whole of a behaviour                                        *)

(* A name: a base and the numbers added to it, `base (1)`, `base (1) (2)`. *)
Names == {<<b>> : b \in Bases} \cup (Bases \X (1 .. MaxN)) \cup (Bases \X (1 .. MaxN) \X (1 .. MaxN))
Numbered(x, n) == IF n = 0 THEN x ELSE Append(x, n)

VARIABLES
  file,     (* what lies at each name: an address, the user's, nothing        *)
  part,     (* what its .part holds                                           *)
  state,    (* the address its resume state names                             *)
  legacy,   (* the same of the state of the old layout, beside the file itself*)
  locks,    (* names with a lock file                                         *)
  owner,    (* who holds the claim on each name                               *)
  pc,       (* where each actor is                                            *)
  num,      (* the number the walk of each download is at                     *)
  target,   (* where it goes in the end, once chosen                          *)
  history,  (* finished downloads: name and address                           *)
  left      (* of the budget                                                  *)

disk == <<file, part, state, legacy>>
vars == <<disk, locks, owner, pc, num, target, history, left>>

Actors == Downloads \cup Tools
World == {"crash", "stale", "wrong", "user", "legacy"}

PC == {"idle", "check", "claim", "look", "migrate", "part", "stale", "record", "open", "fetch",
       "choose", "rename", "wrong", "renamed", "done", "discard"}

At(d) == Numbered(<<Base[d]>>, num[d])
Goto(d, to) == pc' = [pc EXCEPT ![d] = to]
May(what) == left[what] > 0 /\ left' = [left EXCEPT ![what] = @ - 1]

Drop(x) ==
  /\ owner' = [owner EXCEPT ![x] = None]
  /\ locks' = locks \ {x}

-----------------------------------------------------------------------------
(* plan_target: one name after the other. *)
Start(d) ==
  /\ pc[d] = "idle"
  /\ Goto(d, "check")
  /\ num' = [num EXCEPT ![d] = 0]
  /\ UNCHANGED <<disk, locks, owner, target, history, left>>

FaultyReplacing(d) == d \in Replaces
Replacing(d) == d \in Replaces /\ num[d] = 0

AlreadyDownloaded(d) ==
  /\ ~Replacing(d)
  /\ file[At(d)] = Url[d]
  /\ <<At(d), Url[d]>> \in history

AlreadyDone(d) ==
  /\ pc[d] = "check"
  /\ AlreadyDownloaded(d)
  /\ Goto(d, "idle")
  /\ UNCHANGED <<disk, locks, owner, num, target, history, left>>

NotDone(d) ==
  /\ pc[d] = "check"
  /\ ~AlreadyDownloaded(d)
  /\ Goto(d, "claim")
  /\ UNCHANGED <<disk, locks, owner, num, target, history, left>>

FaultyClaim(d) ==
  /\ pc[d] = "claim"
  /\ owner' = [owner EXCEPT ![At(d)] = d]
  /\ locks' = locks \cup {At(d)}
  /\ Goto(d, "look")
  /\ UNCHANGED <<disk, num, target, history, left>>

Claim(d) ==
  /\ pc[d] = "claim"
  /\ owner[At(d)] = None
  /\ owner' = [owner EXCEPT ![At(d)] = d]
  /\ locks' = locks \cup {At(d)}
  /\ Goto(d, "look")
  /\ UNCHANGED <<disk, num, target, history, left>>

(* The next candidate; the model's walk ends at MaxN. *)
NextName(d) ==
  /\ num' = [num EXCEPT ![d] = IF @ < MaxN THEN @ + 1 ELSE 0]
  /\ Goto(d, IF num[d] < MaxN THEN "check" ELSE "idle")
  /\ UNCHANGED <<disk, target, history, left>>

Claimed(d) ==
  /\ pc[d] = "claim"
  /\ owner[At(d)] # None
  /\ NextName(d)
  /\ UNCHANGED <<locks, owner>>

(* What lies at the name is in the way of a download that does not replace it. *)
InTheWay(d) == file[At(d)] # None /\ ~Replacing(d)

(* A file in the old layout: this download in progress, with its state beside it. *)
IsLegacy(d) == part[At(d)] = None /\ file[At(d)] = Url[d] /\ legacy[At(d)] = Url[d]

Taken(d) ==
  /\ pc[d] = "look"
  /\ InTheWay(d)
  /\ ~IsLegacy(d)
  /\ Drop(At(d))
  /\ NextName(d)

MigrateFile(d) ==
  /\ pc[d] = "look"
  /\ InTheWay(d)
  /\ IsLegacy(d)
  /\ part' = [part EXCEPT ![At(d)] = file[At(d)]]
  /\ file' = [file EXCEPT ![At(d)] = None]
  /\ Goto(d, "migrate")
  /\ UNCHANGED <<state, legacy, locks, owner, num, target, history, left>>

MigrateState(d) ==
  /\ pc[d] = "migrate"
  /\ state' = [state EXCEPT ![At(d)] = legacy[At(d)]]
  /\ legacy' = [legacy EXCEPT ![At(d)] = None]
  /\ Goto(d, "part")
  /\ UNCHANGED <<file, part, locks, owner, num, target, history, left>>

Free(d) ==
  /\ pc[d] = "look"
  /\ ~InTheWay(d)
  /\ Goto(d, "part")
  /\ UNCHANGED <<disk, locks, owner, num, target, history, left>>

Ours(d) == state[At(d)] = Url[d]

(* No .part, or one to resume. *)
PlanFetch(d) ==
  /\ pc[d] = "part"
  /\ part[At(d)] = None \/ Ours(d)
  /\ Goto(d, "record")
  /\ UNCHANGED <<disk, locks, owner, num, target, history, left>>

OthersPart(d) ==
  /\ pc[d] = "part"
  /\ part[At(d)] # None /\ ~Ours(d)
  /\ Drop(At(d))
  /\ NextName(d)

(* Ours, but of a version gone by: the .part is removed, then its state. *)
StalePart(d) ==
  /\ pc[d] = "part"
  /\ part[At(d)] # None /\ Ours(d)
  /\ May("stale")
  /\ part' = [part EXCEPT ![At(d)] = None]
  /\ Goto(d, "stale")
  /\ UNCHANGED <<file, state, legacy, locks, owner, num, target, history>>

(* Ours, but the server takes no ranges now: kept for another time. *)
CannotResume(d) ==
  /\ pc[d] = "part"
  /\ part[At(d)] # None /\ Ours(d)
  /\ Drop(At(d))
  /\ Goto(d, "idle")
  /\ UNCHANGED <<disk, num, target, history, left>>

StaleState(d) ==
  /\ pc[d] = "stale"
  /\ state' = [state EXCEPT ![At(d)] = None]
  /\ Goto(d, "record")
  /\ UNCHANGED <<file, part, legacy, locks, owner, num, target, history, left>>

-----------------------------------------------------------------------------
(* download: the state is recorded before the .part is there. *)
FaultyRecord(d) ==
  /\ pc[d] = "record"
  /\ Goto(d, "open")
  /\ UNCHANGED <<disk, locks, owner, num, target, history, left>>

Record(d) ==
  /\ pc[d] = "record"
  /\ state' = [state EXCEPT ![At(d)] = Url[d]]
  /\ Goto(d, "open")
  /\ UNCHANGED <<file, part, legacy, locks, owner, num, target, history, left>>

Open(d) ==
  /\ pc[d] = "open"
  /\ part' = [part EXCEPT ![At(d)] = IF @ = None THEN Url[d] ELSE @]
  /\ Goto(d, "fetch")
  /\ UNCHANGED <<file, state, legacy, locks, owner, num, target, history, left>>

(* Paused or failed: what is there stays for the next time. *)
Fail(d) ==
  /\ pc[d] \in {"record", "open", "fetch", "choose", "rename"}
  /\ Drop(At(d))
  /\ Goto(d, "idle")
  /\ target' = [target EXCEPT ![d] = None]
  /\ UNCHANGED <<disk, num, history, left>>

Fetched(d) ==
  /\ pc[d] = "fetch"
  /\ Goto(d, "choose")
  /\ UNCHANGED <<disk, locks, owner, num, target, history, left>>

(* finalize: a wrong file is discarded, under the claim. *)
WrongPart(d) ==
  /\ pc[d] = "choose"
  /\ May("wrong")
  /\ part' = [part EXCEPT ![At(d)] = None]
  /\ Goto(d, "wrong")
  /\ UNCHANGED <<file, state, legacy, locks, owner, num, target, history>>

WrongState(d) ==
  /\ pc[d] = "wrong"
  /\ state' = [state EXCEPT ![At(d)] = None]
  /\ Drop(At(d))
  /\ Goto(d, "idle")
  /\ UNCHANGED <<file, part, legacy, num, target, history, left>>

(* The name the contents show, or the claimed one; if a file is there, the next name without file, *)
(* .part or lock.                                                                                  *)
Named(d) == <<Shown[Base[d]]>> \o Tail(At(d))
Vacant(x) == file[x] = None /\ part[x] = None /\ x \notin locks
FreePath(x) ==
  {Numbered(x, n) : n \in {m \in 0 .. MaxN :
     /\ Numbered(x, m) \in Names
     /\ Vacant(Numbered(x, m))
     /\ \A k \in 0 .. m - 1 : ~Vacant(Numbered(x, k))}}

Choose(d) ==
  /\ pc[d] = "choose"
  /\ \E x \in IF file[Named(d)] # None /\ ~(Replacing(d) /\ Named(d) = At(d))
                THEN FreePath(Named(d)) ELSE {Named(d)} :
       target' = [target EXCEPT ![d] = x]
  /\ Goto(d, "rename")
  /\ UNCHANGED <<disk, locks, owner, num, history, left>>

Rename(d) ==
  /\ pc[d] = "rename"
  /\ part[At(d)] # None
  /\ file' = [file EXCEPT ![target[d]] = part[At(d)]]
  /\ part' = [part EXCEPT ![At(d)] = None]
  /\ Goto(d, "renamed")
  /\ UNCHANGED <<state, legacy, locks, owner, num, target, history, left>>

(* The state goes, then the claim, then history is told. *)
Finish(d) ==
  /\ pc[d] = "renamed"
  /\ state' = [state EXCEPT ![At(d)] = None]
  /\ Drop(At(d))
  /\ Goto(d, "done")
  /\ UNCHANGED <<file, part, legacy, num, target, history, left>>

RecordCompleted(d) ==
  /\ pc[d] = "done"
  /\ history' = history \cup {<<target[d], Url[d]>>}
  /\ target' = [target EXCEPT ![d] = None]
  /\ Goto(d, "idle")
  /\ UNCHANGED <<disk, locks, owner, num, left>>

-----------------------------------------------------------------------------
(* discard_partial: the .part goes first, its state after it, both under a claim. *)
FaultyDiscardPart(t) == \E x \in Names :
  /\ pc[t] = "idle"
  /\ part[x] # None
  /\ owner[x] \in {None} \cup Downloads
  /\ owner' = [owner EXCEPT ![x] = t]
  /\ locks' = locks \cup {x}
  /\ part' = [part EXCEPT ![x] = None]
  /\ Goto(t, "discard")
  /\ UNCHANGED <<file, state, legacy, num, target, history, left>>

DiscardPart(t) == \E x \in Names :
  /\ pc[t] = "idle"
  /\ part[x] # None
  /\ owner[x] = None
  /\ owner' = [owner EXCEPT ![x] = t]
  /\ locks' = locks \cup {x}
  /\ part' = [part EXCEPT ![x] = None]
  /\ Goto(t, "discard")
  /\ UNCHANGED <<file, state, legacy, num, target, history, left>>

DiscardState(t) == \E x \in Names :
  /\ pc[t] = "discard"
  /\ owner[x] = t
  /\ state' = [state EXCEPT ![x] = None]
  /\ Drop(x)
  /\ Goto(t, "idle")
  /\ UNCHANGED <<file, part, legacy, num, target, history, left>>

(* The process dies: its claims are released, their lock files stay. *)
Crash(x) ==
  /\ pc[x] # "idle"
  /\ May("crash")
  /\ owner' = [y \in Names |-> IF owner[y] = x THEN None ELSE owner[y]]
  /\ Goto(x, "idle")
  /\ target' = IF x \in Downloads THEN [target EXCEPT ![x] = None] ELSE target
  /\ UNCHANGED <<disk, locks, num, history>>

(* The user deletes a file, or moves one in. *)
User == \E x \in {<<b>> : b \in Bases} :
  /\ May("user")
  /\ file' = [file EXCEPT ![x] = IF @ = None THEN Mine ELSE None]
  /\ UNCHANGED <<part, state, legacy, locks, owner, pc, num, target, history>>

-----------------------------------------------------------------------------
(* Files of the user at some bases; at others, with a budget for it, downloads an older release left. *)
Init ==
  /\ file \in [Names -> Urls \cup {Mine, None}]
  /\ \A x \in Names : Len(x) > 1 => file[x] = None
  /\ legacy = [x \in Names |-> IF file[x] \in Urls THEN file[x] ELSE None]
  /\ left \in Budgets
  /\ Cardinality({x \in Names : file[x] \in Urls}) <= left["legacy"]
  /\ part = [x \in Names |-> None]
  /\ state = [x \in Names |-> None]
  /\ locks = {}
  /\ owner = [x \in Names |-> None]
  /\ pc = [a \in Actors |-> "idle"]
  /\ num = [d \in Downloads |-> 0]
  /\ target = [d \in Downloads |-> None]
  /\ history = {}

Plan(d) == AlreadyDone(d) \/ NotDone(d) \/ Claim(d) \/ Claimed(d) \/ Taken(d) \/ MigrateFile(d)
           \/ MigrateState(d) \/ Free(d) \/ PlanFetch(d) \/ OthersPart(d) \/ StalePart(d)
           \/ CannotResume(d) \/ StaleState(d)
Fetch(d) == Record(d) \/ Open(d) \/ Fail(d) \/ Fetched(d)
Finalize(d) == WrongPart(d) \/ WrongState(d) \/ Choose(d) \/ Rename(d) \/ Finish(d) \/ RecordCompleted(d)

Next ==
  \/ \E d \in Downloads : Start(d) \/ Plan(d) \/ Fetch(d) \/ Finalize(d)
  \/ \E t \in Tools : DiscardPart(t) \/ DiscardState(t)
  \/ \E x \in Actors : Crash(x)
  \/ User

Spec == Init /\ [][Next]_vars

-----------------------------------------------------------------------------
TypeOK ==
  /\ file \in [Names -> Urls \cup {Mine, None}]
  /\ part \in [Names -> Urls \cup {Mine, None}]
  /\ state \in [Names -> Urls \cup {None}]
  /\ legacy \in [Names -> Urls \cup {None}]
  /\ locks \subseteq Names
  /\ owner \in [Names -> Actors \cup {None}]
  /\ pc \in [Actors -> PC]
  /\ num \in [Downloads -> 0 .. MaxN]
  /\ target \in [Downloads -> Names \cup {None}]
  /\ history \subseteq Names \X Urls
  /\ left \in [World -> Nat]

(* What a download fetches into is its own .part beside its own state, from the first byte until it *)
(* is renamed: no other download resumes, replaces or discards it, and no tool does, also after     *)
(* somebody died and left a part, a state or a lock there (engine.rs:4937, 4998).                   *)
WritesItsOwn ==
  \A d \in Downloads : pc[d] \in {"fetch", "choose", "rename"} =>
    part[At(d)] = Url[d] /\ state[At(d)] = Url[d]

(* What a state says of a .part is true, and a .part nobody works on has one: a download that finds   *)
(* both resumes its own bytes, and its download or what cleans up after it finds the .part again       *)
(* ("Without a state file nothing could resume it", engine.rs:2635), whatever two steps of removing,   *)
(* renaming or recording somebody died between. Only a .part migrated from an older release's layout   *)
(* may have lost its state.                                                                            *)
Resumable ==
  \A x \in Names : part[x] # None =>
    /\ state[x] \in {None, part[x]}
    /\ owner[x] = None /\ left["legacy"] = 0 => state[x] = part[x]

(* "Existing files ... are never touched" (engine.rs:4973); "the rename replaces the file only       *)
(* `replace` asks to replace" (engine.rs:3124): only the user takes a file away or puts another in   *)
(* its place, or a download that is to replace it. (An old release's download in progress is none.)  *)
Untouched ==
  \A x \in Names : file[x] # None /\ file'[x] # file[x] =>
    \/ left'["user"] < left["user"]
    \/ \E d \in Replaces : pc[d] = "rename" /\ target[d] = x /\ x = <<Base[d]>>
    \/ legacy[x] # None
NeverReplaced == [][Untouched]_vars
==============================================================================
