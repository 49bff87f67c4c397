----------------------------- MODULE HistoryFile ------------------------------
(***************************************************************************)
(* The download history (history.rs): one file that downloads of every     *)
(* process record in, and the window, the sorting of finished files and    *)
(* media downloads edit.  A writer takes an OS lock, reads the file again  *)
(* and replays only its own changes onto it.  Reading takes no lock.       *)
(*                                                                         *)
(* The list is the set of its entries: its order is their recency.  Piece  *)
(* hashes, kept in files of their own, are left out.                       *)
(***************************************************************************)
EXTENDS Naturals, FiniteSets, Sequences

CONSTANTS
  Tasks,       (* whoever reads or writes the history once                       *)
  Plans,       (* what each may be about: subset of [Tasks -> Job]               *)
  Paths,       (* of the files entries are about                                 *)
  MaxEntries,  (* MAX_ENTRIES                                                    *)
  MaxTroubles, (* bound of the model: crashes, power cuts, time-outs, full disks *)
  Corrupt,     (* a text that is no history                                      *)
  None         (* nothing, nobody                                                *)

(* Numbered in the order their downloads ended. *)
Entry == [id : Nat, path : Paths, at : Nat]

(* record and record_replacing; update_history; moved_in_history; remove_streams_of. *)
Job ==
  [kind : {"record"}, entry : Entry, replaced : Paths \cup {None}]
    \cup [kind : {"window"}] \cup [kind : {"move"}, from : Paths, to : Paths] \cup [kind : {"streams"}, of : SUBSET Paths]

VARIABLES
  plan,
  file,       (* what is at the history's path: entries, Corrupt or None                    *)
  synced,     (* ... its text has reached the disk                                          *)
  disk,       (* what is there once the machine failed, but for renames it had yet to do    *)
  lock,       (* who has <path>.lock                                                        *)
  pc,
  list,       (* the manager's entries                                                      *)
  pending,    (* its changes not yet in the file                                            *)
  tmp,        (* its temp file: entries, and whether they have reached the disk             *)
  todo,       (* changes it is yet to make                                                  *)
  number,     (* of the window's update: its place in history_sequence                      *)
  turn,       (* who has history_sequence                                                   *)
  generation, (* its value                                                                  *)
  applied,    (* history_applied                                                            *)
  shown,      (* the list the window shows                                                  *)
  latest,     (* the list the last update to end in sequence found                          *)
  gone,       (* ids somebody removed, and was told so                                      *)
  troubles

vars == <<plan, file, synced, disk, lock, pc, list, pending, tmp, todo, number, turn, generation, applied, shown,
          latest, gone, troubles>>
window == <<number, turn, generation, applied, shown, latest>>

(* Operators named Faulty... are not part of the model: each is the definition after it with a *)
(* mistake the code could have made, to see that some property notices.                       *)

-----------------------------------------------------------------------------
Goto(t, to) == pc' = [pc EXCEPT ![t] = to]
Kind(t) == plan[t].kind
Ids(entries) == {e.id : e \in entries}

(* read_entries *)
Parsed(bytes) == IF bytes \in {None, Corrupt} THEN {} ELSE bytes

Upsert(entry) == [do |-> "upsert", entry |-> entry]
Remove(id) == [do |-> "remove", id |-> id]
RemoveFile(path) == [do |-> "removeFile", path |-> path]
Clear == [do |-> "clear"]

(* Change::apply *)
Apply(change, entries) ==
  CASE change.do = "upsert" ->
         {e \in entries : e.id # change.entry.id /\ e.path # change.entry.path} \cup {change.entry}
    [] change.do = "remove" -> {e \in entries : e.id # change.id}
    [] change.do = "removeFile" -> {e \in entries : e.path # change.path}
    [] OTHER -> {}

(* normalize: an upsert has left one entry a path. *)
Newest(entries) == {e \in entries : Cardinality({f \in entries : f.at > e.at}) < MaxEntries}

(* Applied one after the other. *)
Replayed(changes, entries) ==
  LET after[n \in 0 .. Len(changes)] == IF n = 0 THEN entries ELSE Apply(changes[n], after[n - 1])
  IN  Newest(after[Len(changes)])

(* modify, in memory. *)
Modify(t, entries, change) ==
  /\ list' = [list EXCEPT ![t] = Newest(Apply(change, entries))]
  /\ pending' = [pending EXCEPT ![t] = Append(@, change)]
  /\ Goto(t, "saving")

-----------------------------------------------------------------------------
(* A download ends, in whichever way, and is recorded. *)
Record(t) ==
  /\ pc[t] = "idle" /\ Kind(t) = "record"
  /\ pending' = [pending EXCEPT ![t] =
       IF plan[t].replaced = None THEN <<Upsert(plan[t].entry)>>
       ELSE <<RemoveFile(plan[t].replaced), Upsert(plan[t].entry)>>]
  /\ Goto(t, "saving")
  /\ UNCHANGED <<plan, file, synced, disk, lock, list, tmp, todo, window, gone, troubles>>

(* update_history: the user refreshes, clears, or removes what is shown. *)
Ask(t) ==
  /\ pc[t] = "idle" /\ Kind(t) = "window"
  /\ \E changes \in {{}, {Clear}} \cup {{Remove(id)} : id \in Ids(shown)} : todo' = [todo EXCEPT ![t] = changes]
  /\ Goto(t, "asked")
  /\ UNCHANGED <<plan, file, synced, disk, lock, list, pending, tmp, window, gone, troubles>>

(* Faulty: nobody waits for the update before. *)
FaultyTakeTurn(t) ==
  /\ pc[t] = "asked"
  /\ turn' = t
  /\ generation' = generation + 1
  /\ number' = [number EXCEPT ![t] = generation + 1]
  /\ Goto(t, "loading")
  /\ UNCHANGED <<plan, file, synced, disk, lock, list, pending, tmp, todo, applied, shown, latest, gone, troubles>>

(* in_sequence *)
TakeTurn(t) ==
  /\ pc[t] = "asked"
  /\ turn = None
  /\ turn' = t
  /\ generation' = generation + 1
  /\ number' = [number EXCEPT ![t] = generation + 1]
  /\ Goto(t, "loading")
  /\ UNCHANGED <<plan, file, synced, disk, lock, list, pending, tmp, todo, applied, shown, latest, gone, troubles>>

StartEdit(t) ==
  /\ pc[t] = "idle" /\ Kind(t) \in {"move", "streams"}
  /\ Goto(t, "loading")
  /\ UNCHANGED <<plan, file, synced, disk, lock, list, pending, tmp, todo, window, gone, troubles>>

(* load, without the lock, and what is made of it. *)
Load(t) ==
  /\ pc[t] = "loading"
  /\ LET loaded == Parsed(file) IN
       \/ /\ Kind(t) = "window"
          /\ \/ todo[t] = {} /\ list' = [list EXCEPT ![t] = loaded] /\ Goto(t, "ending") /\ UNCHANGED pending
             \/ \E change \in todo[t] : Modify(t, loaded, change)
          /\ UNCHANGED todo
       \/ /\ Kind(t) = "move"
          /\ \/ /\ \E e \in loaded :
                    /\ e.path = plan[t].from
                    /\ pending' = [pending EXCEPT ![t] = <<RemoveFile(e.path), Upsert([e EXCEPT !.path = plan[t].to])>>]
                /\ Goto(t, "saving")
             \/ /\ \A e \in loaded : e.path # plan[t].from
                /\ Goto(t, "done")
                /\ UNCHANGED pending
          /\ UNCHANGED <<list, todo>>
       \/ /\ Kind(t) = "streams"
          /\ list' = [list EXCEPT ![t] = loaded]
          /\ todo' = [todo EXCEPT ![t] = {Remove(e.id) : e \in {e \in loaded : e.path \in plan[t].of}}]
          /\ Goto(t, "editing")
          /\ UNCHANGED pending
  /\ UNCHANGED <<plan, file, synced, disk, lock, tmp, window, gone, troubles>>

(* remove_streams_of: the next entry, whatever became of those before. *)
RemoveNext(t) ==
  /\ pc[t] = "editing"
  /\ \/ \E change \in todo[t] : Modify(t, list[t], change) /\ todo' = [todo EXCEPT ![t] = @ \ {change}]
     \/ todo[t] = {} /\ Goto(t, "done") /\ UNCHANGED <<list, pending, todo>>
  /\ UNCHANGED <<plan, file, synced, disk, lock, tmp, window, gone, troubles>>

-----------------------------------------------------------------------------
(* save returns, also with an error: its changes stay pending then. *)
Returns(t) == Goto(t, CASE Kind(t) = "window" -> "ending" [] Kind(t) = "streams" -> "editing" [] OTHER -> "done")

Trouble == troubles < MaxTroubles /\ troubles' = troubles + 1

(* Faulty: nobody is asked. *)
FaultyTakeLock(t) ==
  /\ pc[t] = "saving"
  /\ lock' = t
  /\ Goto(t, "locked")
  /\ UNCHANGED <<plan, file, synced, disk, list, pending, tmp, todo, window, gone, troubles>>

(* lock_file *)
TakeLock(t) ==
  /\ pc[t] = "saving"
  /\ lock = None
  /\ lock' = t
  /\ Goto(t, "locked")
  /\ UNCHANGED <<plan, file, synced, disk, list, pending, tmp, todo, window, gone, troubles>>

(* ... somebody holds it for longer than LOCK_TIMEOUT. *)
LockTimesOut(t) ==
  /\ pc[t] = "saving"
  /\ lock # None
  /\ Trouble
  /\ Returns(t)
  /\ UNCHANGED <<plan, file, synced, disk, lock, list, pending, tmp, todo, window, gone>>

(* read_entries and the changes' replay. *)
ReadFile(t) ==
  /\ pc[t] = "locked"
  /\ tmp' = [tmp EXCEPT ![t] = [entries |-> Replayed(pending[t], Parsed(file)), synced |-> FALSE]]
  /\ Goto(t, IF file = Corrupt THEN "moving" ELSE "writing")
  /\ UNCHANGED <<plan, file, synced, disk, lock, list, pending, todo, window, gone, troubles>>

(* What cannot be parsed is kept under another name. *)
MoveAside(t) ==
  /\ pc[t] = "moving"
  /\ file' = None
  /\ Goto(t, "writing")
  /\ UNCHANGED <<plan, synced, disk, lock, list, pending, tmp, todo, window, gone, troubles>>

(* Faulty: it is left to the OS when the entries reach the disk. *)
FaultyWrite(t) ==
  /\ pc[t] = "writing"
  /\ Goto(t, "written")
  /\ UNCHANGED <<plan, file, synced, disk, lock, list, pending, tmp, todo, window, gone, troubles>>

(* write_entries: a temp file, which reaches the disk *)
Write(t) ==
  /\ pc[t] = "writing"
  /\ tmp' = [tmp EXCEPT ![t].synced = TRUE]
  /\ Goto(t, "written")
  /\ UNCHANGED <<plan, file, synced, disk, lock, list, pending, todo, window, gone, troubles>>

(* ... or cannot be written *)
WriteFails(t) ==
  /\ pc[t] = "writing"
  /\ Trouble
  /\ lock' = None
  /\ Returns(t)
  /\ UNCHANGED <<plan, file, synced, disk, list, pending, tmp, todo, window, gone>>

(* Somebody asked that entries be removed, whichever they are. *)
Removes(changes) == \A n \in DOMAIN changes : changes[n].do \in {"remove", "clear"}

(* ... before it takes the history's name; the save ends. *)
Rename(t) ==
  /\ pc[t] = "written"
  /\ file' = tmp[t].entries
  /\ synced' = tmp[t].synced
  /\ list' = [list EXCEPT ![t] = tmp[t].entries]
  /\ pending' = [pending EXCEPT ![t] = <<>>]
  /\ gone' = IF Removes(pending[t]) THEN gone \cup (Ids(Parsed(file)) \ Ids(tmp[t].entries)) ELSE gone
  /\ lock' = None
  /\ Returns(t)
  /\ UNCHANGED <<plan, disk, tmp, todo, window, troubles>>

-----------------------------------------------------------------------------
(* in_sequence ends: another update may come before the window hears of this one. *)
EndTurn(t) ==
  /\ pc[t] = "ending"
  /\ turn' = None
  /\ latest' = list[t]
  /\ Goto(t, "told")
  /\ UNCHANGED <<plan, file, synced, disk, lock, list, pending, tmp, todo, number, generation, applied, shown, gone, troubles>>

(* Faulty: what comes last is shown. *)
FaultyShow(t) ==
  /\ pc[t] = "told"
  /\ applied' = number[t]
  /\ shown' = list[t]
  /\ Goto(t, "done")
  /\ UNCHANGED <<plan, file, synced, disk, lock, list, pending, tmp, todo, number, turn, generation, latest, gone, troubles>>

(* The window takes up AppEvent::History, in the order these are sent in. *)
Show(t) ==
  /\ pc[t] = "told"
  /\ IF number[t] > applied THEN applied' = number[t] /\ shown' = list[t] ELSE UNCHANGED <<applied, shown>>
  /\ Goto(t, "done")
  /\ UNCHANGED <<plan, file, synced, disk, lock, list, pending, tmp, todo, number, turn, generation, latest, gone, troubles>>

(* The process dies, and its lock goes with it. *)
Die(t) ==
  /\ pc[t] \notin {"idle", "done", "dead"} /\ Kind(t) # "window"
  /\ Trouble
  /\ lock' = IF lock = t THEN None ELSE lock
  /\ Goto(t, "dead")
  /\ UNCHANGED <<plan, file, synced, disk, list, pending, tmp, todo, window, gone>>

(* The OS has done its renames too. *)
Settle ==
  /\ disk # file
  /\ disk' = file
  /\ synced' = TRUE
  /\ UNCHANGED <<plan, file, lock, pc, list, pending, tmp, todo, window, gone, troubles>>

(* The machine dies: what it had not written out yet is damaged, and renames may be undone.  Other tasks *)
(* may start after that.                                                                                 *)
PowerCut ==
  /\ Trouble
  /\ pc' = [t \in Tasks |-> IF pc[t] = "done" \/ (pc[t] = "idle" /\ Kind(t) # "window") THEN pc[t] ELSE "dead"]
  /\ file' \in {disk, IF synced THEN file ELSE Corrupt}
  /\ disk' = file'
  /\ synced' = TRUE
  /\ lock' = None /\ turn' = None
  /\ gone' = {}
  /\ UNCHANGED <<plan, list, pending, tmp, todo, number, generation, applied, shown, latest>>

-----------------------------------------------------------------------------
(* An earlier run recorded one download; or an earlier release left what it had not flushed. *)
Earlier == [id |-> 0, path |-> CHOOSE p \in Paths : TRUE, at |-> 0]

Init ==
  /\ plan \in Plans
  /\ file \in {None, Corrupt, {Earlier}}
  /\ synced = TRUE /\ disk = file
  /\ lock = None
  /\ pc = [t \in Tasks |-> "idle"]
  /\ list = [t \in Tasks |-> {}]
  /\ pending = [t \in Tasks |-> <<>>]
  /\ tmp = [t \in Tasks |-> [entries |-> {}, synced |-> FALSE]]
  /\ todo = [t \in Tasks |-> {}]
  /\ number = [t \in Tasks |-> 0]
  /\ turn = None /\ generation = 0 /\ applied = 0
  /\ shown = Parsed(file) /\ latest = Parsed(file)
  /\ gone = {}
  /\ troubles = 0

Next ==
  \/ \E t \in Tasks :
       \/ Record(t) \/ Ask(t) \/ TakeTurn(t) \/ StartEdit(t) \/ Load(t) \/ RemoveNext(t)
       \/ TakeLock(t) \/ LockTimesOut(t) \/ ReadFile(t) \/ MoveAside(t) \/ Write(t) \/ WriteFails(t) \/ Rename(t)
       \/ EndTurn(t) \/ Show(t) \/ Die(t)
  \/ Settle \/ PowerCut

Spec == Init /\ [][Next]_vars

-----------------------------------------------------------------------------
TypeOK ==
  /\ plan \in [Tasks -> Job]
  /\ file \in {None, Corrupt} \/ file \subseteq Entry
  /\ lock \in Tasks \cup {None} /\ turn \in Tasks \cup {None}
  /\ pc \in [Tasks -> {"idle", "asked", "loading", "editing", "saving", "locked", "moving", "writing", "written", "ending", "told", "done", "dead"}]
  /\ \A t \in Tasks : list[t] \subseteq Entry
  /\ number \in [Tasks -> 0 .. generation]
  /\ applied \in 0 .. generation
  /\ gone \subseteq Nat

(* Whatever the history becomes, it is what it just was with one writer's own changes made, or was no *)
(* history: no other writer's record is lost, no entry another one removed is back, no history is     *)
(* moved away, and when the machine fails at most the latest saves are undone, and none is damaged     *)
(* (history.rs: save, read_entries, write_entries).                                                    *)
BuildsOnTheFile ==
  [][file' # file =>
       \/ PowerCut /\ file' = disk
       \/ \E t \in Tasks : file' = Replayed(pending[t], Parsed(file)) /\ pending'[t] = <<>>
       \/ file = Corrupt /\ file' = None]_vars

(* With none of its updates under way, the window shows the list the last one in sequence ended with, *)
(* in whatever order it heard of them (main.rs: update_history, in_sequence).                          *)
ShownIsLatest ==
  (\A t \in Tasks : Kind(t) = "window" => pc[t] \in {"idle", "done"}) => shown = latest

(* An entry somebody removed does not come back (history.rs, of DownloadHistoryManager.pending: a save *)
(* "never brings back entries another manager or process removed"; moved_in_history gives it a copy).   *)
NeverBroughtBack == Ids(Parsed(file)) \cap gone = {}
===============================================================================
