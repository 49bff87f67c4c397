------------------------- MODULE HistoryFileProofs --------------------------
(***************************************************************************)
(* The history file, for any writers, whatever they do to it, and any      *)
(* number of troubles: each save builds on the file as it is; and the      *)
(* window shows the list its last update found.                            *)
(*                                                                         *)
(* Who holds the lock is alone to write, so what it made of the file it    *)
(* read is still made of the file when it takes the name.  An update of    *)
(* the window gets its number with its turn and keeps both to its end, so  *)
(* the last to end has the highest number, and only a higher number        *)
(* replaces what is shown.                                                 *)
(*                                                                         *)
(* Then, of the other files that are replaced by name, the programs: an    *)
(* update loses none and replaces all of them or none.                     *)
(***************************************************************************)
EXTENDS HistoryFile, Integers, SequenceTheorems, TLAPS

(* Nobody is no task. *)
SomebodyIsSomebody == None \notin Tasks

Holding == {"locked", "moving", "writing", "written"}
Read == {"moving", "writing", "written"}

(* A save has the lock from before it reads the file to its end, and what it is about to write is the *)
(* file with its changes made; all that has the history's name is on the disk.                        *)
SavesOnTop ==
  /\ DOMAIN pc = Tasks /\ DOMAIN tmp = Tasks /\ DOMAIN pending = Tasks
  /\ synced = TRUE
  /\ \A t \in Tasks :
       /\ DOMAIN tmp[t] = {"entries", "synced"}
       /\ pc[t] \in Holding => lock = t
       /\ pc[t] \in Read => tmp[t].entries = Replayed(pending[t], Parsed(file))
       /\ pc[t] = "moving" => file = Corrupt
       /\ pc[t] = "written" => tmp[t].synced = TRUE

-----------------------------------------------------------------------------
(* The window's updates: those that have their turn, and those that ended. *)
Updates == {t \in Tasks : Kind(t) = "window"}
InTurn == {"loading", "ending", "saving"} \cup Holding
Ended == {"told", "done"}

(* An update's number is its own, and the highest while it has its turn. *)
InSequence ==
  /\ DOMAIN list = Tasks
  /\ generation \in Nat /\ applied \in Nat /\ number \in [Tasks -> Nat]
  /\ \A t \in Tasks :
       /\ pc[t] \in {"asked", "ending", "told"} => t \in Updates
       /\ pc[t] = "editing" => Kind(t) = "streams"
  /\ \A t \in Updates :
       /\ number[t] <= generation
       /\ pc[t] \in {"idle", "asked"} => number[t] = 0
       /\ pc[t] \in InTurn => turn = t /\ number[t] = generation
       /\ pc[t] \in InTurn \cup Ended => number[t] > 0
  /\ \A t, u \in Updates : number[t] = number[u] /\ number[t] > 0 => t = u

(* The last to end found the latest list, and the one applied is shown; no update that died is awaited. *)
LastIsLatest ==
  /\ \A t \in Updates :
       pc[t] \in Ended /\ (\A u \in Updates : pc[u] \in Ended => number[u] <= number[t]) => latest = list[t]
  /\ (\A t \in Updates : pc[t] \notin Ended) => shown = latest
  /\ applied > 0 => \E t \in Updates : pc[t] = "done" /\ number[t] = applied /\ shown = list[t]
  /\ \A t \in Updates : pc[t] = "done" => number[t] <= applied

NoneDied == \A t \in Updates : pc[t] # "dead"

Shows == InSequence /\ (NoneDied => LastIsLatest)

-----------------------------------------------------------------------------
(* Saving. *)

LEMMA SavesInit == Init => SavesOnTop
  BY DEF Init, SavesOnTop, Holding, Read

(* What has the lock is alone to have it. *)
LEMMA OneHolds == ASSUME SavesOnTop, NEW t \in Tasks, NEW u \in Tasks, pc[t] \in Holding, pc[u] \in Holding PROVE t = u
  BY DEF SavesOnTop

(* A task that goes where it holds nothing, having changed nothing another one holds. *)
LEMMA SavesElsewhere ==
  ASSUME SavesOnTop, NEW t \in Tasks, NEW to, pc' = [pc EXCEPT ![t] = to], to \notin Holding,
         UNCHANGED <<file, synced, tmp>>, lock' = lock \/ lock = t,
         DOMAIN pending' = Tasks, \A u \in Tasks \ {t} : pending'[u] = pending[u]
  PROVE  SavesOnTop'
  <1>1. pc'[t] = to /\ DOMAIN pc' = Tasks /\ \A u \in Tasks \ {t} : pc'[u] = pc[u] BY DEF SavesOnTop
  <1>2. ASSUME NEW u \in Tasks \ {t}, pc[u] \in Holding PROVE lock' = u BY <1>2 DEF SavesOnTop
  <1>3. Read \subseteq Holding /\ "moving" \in Read /\ "written" \in Read BY DEF Read, Holding
  <1> QED BY <1>1, <1>2, <1>3 DEF SavesOnTop

LEMMA SavesKept ==
  ASSUME SavesOnTop, UNCHANGED <<file, synced, lock, pc, pending, tmp>> PROVE SavesOnTop'
  BY DEF SavesOnTop

LEMMA TakeLockSaves == ASSUME SomebodyIsSomebody, SavesOnTop, NEW t \in Tasks, TakeLock(t) PROVE SavesOnTop'
  <1>1. /\ lock = None /\ lock' = t /\ pc' = [pc EXCEPT ![t] = "locked"]
        /\ UNCHANGED <<file, synced, pending, tmp>>
    BY DEF TakeLock, Goto
  <1>2. pc'[t] = "locked" /\ DOMAIN pc' = Tasks /\ \A u \in Tasks \ {t} : pc'[u] = pc[u] BY <1>1 DEF SavesOnTop
  <1>3. \A u \in Tasks : pc[u] \notin Holding BY <1>1 DEF SavesOnTop, SomebodyIsSomebody
  <1> QED BY <1>1, <1>2, <1>3 DEF SavesOnTop, Holding, Read

LEMMA ReadFileSaves == ASSUME SavesOnTop, NEW t \in Tasks, ReadFile(t) PROVE SavesOnTop'
  <1> DEFINE made == [entries |-> Replayed(pending[t], Parsed(file)), synced |-> FALSE]
             to == IF file = Corrupt THEN "moving" ELSE "writing"
  <1>1. /\ pc[t] = "locked" /\ tmp' = [tmp EXCEPT ![t] = made] /\ pc' = [pc EXCEPT ![t] = to]
        /\ UNCHANGED <<file, synced, lock, pending>>
    BY DEF ReadFile, Goto
  <1>2. DOMAIN made = {"entries", "synced"} /\ made.entries = Replayed(pending[t], Parsed(file)) OBVIOUS
  <1>3. to \in {"moving", "writing"} /\ (to = "moving" => file = Corrupt) OBVIOUS
  <1>4. lock = t BY <1>1 DEF SavesOnTop, Holding
  <1> HIDE DEF made, to
  <1>5. /\ pc'[t] = to /\ DOMAIN pc' = Tasks /\ \A u \in Tasks \ {t} : pc'[u] = pc[u]
        /\ tmp'[t] = made /\ DOMAIN tmp' = Tasks /\ \A u \in Tasks \ {t} : tmp'[u] = tmp[u]
    BY <1>1 DEF SavesOnTop
  <1> QED BY <1>1, <1>2, <1>3, <1>4, <1>5 DEF SavesOnTop

LEMMA MoveAsideSaves == ASSUME SavesOnTop, NEW t \in Tasks, MoveAside(t) PROVE SavesOnTop'
  <1>1. /\ pc[t] = "moving" /\ file' = None /\ pc' = [pc EXCEPT ![t] = "writing"]
        /\ UNCHANGED <<synced, lock, pending, tmp>>
    BY DEF MoveAside, Goto
  <1>2. pc'[t] = "writing" /\ DOMAIN pc' = Tasks /\ \A u \in Tasks \ {t} : pc'[u] = pc[u] BY <1>1 DEF SavesOnTop
  <1>3. \A u \in Tasks \ {t} : pc'[u] \notin Holding BY <1>1, <1>2, OneHolds DEF Holding
  <1>4. file = Corrupt BY <1>1 DEF SavesOnTop
  <1>5. Parsed(file') = Parsed(file) BY <1>1, <1>4 DEF Parsed
  <1>6. tmp[t].entries = Replayed(pending[t], Parsed(file)) /\ lock = t BY <1>1 DEF SavesOnTop, Read, Holding
  <1> QED BY <1>1, <1>2, <1>3, <1>5, <1>6 DEF SavesOnTop, Holding, Read

LEMMA WriteSaves == ASSUME SavesOnTop, NEW t \in Tasks, Write(t) PROVE SavesOnTop'
  <1>1. /\ pc[t] = "writing" /\ tmp' = [tmp EXCEPT ![t].synced = TRUE] /\ pc' = [pc EXCEPT ![t] = "written"]
        /\ UNCHANGED <<file, synced, lock, pending>>
    BY DEF Write, Goto
  <1>2. /\ pc'[t] = "written" /\ DOMAIN pc' = Tasks /\ \A u \in Tasks \ {t} : pc'[u] = pc[u]
        /\ DOMAIN tmp' = Tasks /\ \A u \in Tasks \ {t} : tmp'[u] = tmp[u]
    BY <1>1 DEF SavesOnTop
  <1>3. DOMAIN tmp[t] = {"entries", "synced"} /\ DOMAIN tmp = Tasks BY DEF SavesOnTop
  <1>4. DOMAIN tmp'[t] = {"entries", "synced"} /\ tmp'[t].synced = TRUE /\ tmp'[t].entries = tmp[t].entries
    BY <1>1, <1>3
  <1>5. tmp[t].entries = Replayed(pending[t], Parsed(file)) /\ lock = t BY <1>1 DEF SavesOnTop, Read, Holding
  <1> QED BY <1>1, <1>2, <1>4, <1>5 DEF SavesOnTop

LEMMA RenameSaves == ASSUME SavesOnTop, NEW t \in Tasks, Rename(t) PROVE SavesOnTop'
  <1>1. PICK to \in {"ending", "editing", "done"} : pc' = [pc EXCEPT ![t] = to]
    BY DEF Rename, Returns, Goto
  <1>2. /\ pc[t] = "written" /\ synced' = tmp[t].synced /\ tmp' = tmp /\ pending' = [pending EXCEPT ![t] = <<>>]
    BY DEF Rename
  <1>3. pc'[t] = to /\ DOMAIN pc' = Tasks /\ \A u \in Tasks \ {t} : pc'[u] = pc[u] BY <1>1 DEF SavesOnTop
  <1>4. \A u \in Tasks : pc'[u] \notin Holding BY <1>1, <1>2, <1>3, OneHolds DEF Holding
  <1>5. synced' = TRUE BY <1>2 DEF SavesOnTop
  <1> QED BY <1>2, <1>3, <1>4, <1>5 DEF SavesOnTop, Holding, Read

LEMMA PowerCutSaves == ASSUME SavesOnTop, PowerCut PROVE SavesOnTop'
  <1>1. /\ pc' = [t \in Tasks |-> IF pc[t] = "done" \/ (pc[t] = "idle" /\ Kind(t) # "window") THEN pc[t] ELSE "dead"]
        /\ synced' = TRUE /\ UNCHANGED <<pending, tmp>>
    BY DEF PowerCut
  <1>2. DOMAIN pc' = Tasks /\ \A t \in Tasks : pc'[t] \in {"done", "idle", "dead"} BY <1>1
  <1> QED BY <1>1, <1>2 DEF SavesOnTop, Holding, Read

LEMMA SavesNext == SomebodyIsSomebody /\ SavesOnTop /\ [Next]_vars => SavesOnTop'
  <1> SUFFICES ASSUME SomebodyIsSomebody, SavesOnTop, [Next]_vars PROVE SavesOnTop' OBVIOUS
  <1>1. ASSUME NEW t \in Tasks, NEW to, pc' = [pc EXCEPT ![t] = to], to \notin Holding,
               UNCHANGED <<file, synced, tmp>>, lock' = lock \/ lock = t,
               pending' = pending \/ \E p : pending' = [pending EXCEPT ![t] = p]
        PROVE  SavesOnTop'
    <2>1. DOMAIN pending' = Tasks /\ \A u \in Tasks \ {t} : pending'[u] = pending[u] BY <1>1 DEF SavesOnTop
    <2> QED BY <1>1, <2>1, SavesElsewhere
  <1>2. ASSUME NEW t \in Tasks,
               Record(t) \/ Ask(t) \/ TakeTurn(t) \/ StartEdit(t) \/ EndTurn(t) \/ Show(t) PROVE SavesOnTop'
    BY <1>1, <1>2 DEF Record, Ask, TakeTurn, StartEdit, EndTurn, Show, Goto, Holding
  <1>3. ASSUME NEW t \in Tasks, Load(t) \/ RemoveNext(t) PROVE SavesOnTop'
    BY <1>1, <1>3 DEF Load, RemoveNext, Modify, Goto, Holding
  <1>4. ASSUME NEW t \in Tasks, LockTimesOut(t) \/ WriteFails(t) \/ Die(t) PROVE SavesOnTop'
    <2>1. \E to \in {"ending", "editing", "done", "dead"} : pc' = [pc EXCEPT ![t] = to]
      BY <1>4 DEF LockTimesOut, WriteFails, Die, Returns, Goto
    <2>2. UNCHANGED <<file, synced, tmp, pending>> BY <1>4 DEF LockTimesOut, WriteFails, Die
    <2>3. lock' = lock \/ lock = t BY <1>4 DEF LockTimesOut, WriteFails, Die, SavesOnTop, Holding
    <2> QED BY <1>1, <2>1, <2>2, <2>3 DEF Holding
  <1>5. ASSUME NEW t \in Tasks, TakeLock(t) \/ ReadFile(t) \/ MoveAside(t) \/ Write(t) \/ Rename(t) PROVE SavesOnTop'
    BY <1>5, TakeLockSaves, ReadFileSaves, MoveAsideSaves, WriteSaves, RenameSaves
  <1>6. CASE Settle
    <2>1. UNCHANGED <<file, lock, pc, pending, tmp>> /\ synced' = TRUE BY <1>6 DEF Settle
    <2> QED BY <2>1 DEF SavesOnTop
  <1>7. CASE PowerCut BY <1>7, PowerCutSaves
  <1>8. CASE UNCHANGED vars BY <1>8, SavesKept DEF vars
  <1> QED BY <1>2, <1>3, <1>4, <1>5, <1>6, <1>7, <1>8 DEF Next

(* Whatever the history becomes, it is what it just was with one writer's own changes made, or was no  *)
(* history, or the machine failed; no other writer's record is lost, and none another one removed is    *)
(* back (history.rs: save, read_entries, write_entries).                                                *)
THEOREM AlwaysBuildsOnTheFile == ASSUME SomebodyIsSomebody PROVE Spec => BuildsOnTheFile
  <1> DEFINE Builds == file' # file =>
                \/ PowerCut /\ file' = disk
                \/ \E t \in Tasks : file' = Replayed(pending[t], Parsed(file)) /\ pending'[t] = <<>>
                \/ file = Corrupt /\ file' = None
  <1>1. SavesOnTop /\ [Next]_vars => [Builds]_vars
    <2> SUFFICES ASSUME SavesOnTop, Next, file' # file PROVE Builds OBVIOUS
    <2>1. ASSUME NEW t \in Tasks, MoveAside(t) PROVE Builds BY <2>1 DEF MoveAside, SavesOnTop
    <2>2. ASSUME NEW t \in Tasks, Rename(t) PROVE Builds
      <3>1. /\ pc[t] = "written" /\ file' = tmp[t].entries /\ pending' = [pending EXCEPT ![t] = <<>>]
        BY <2>2 DEF Rename
      <3>2. file' = Replayed(pending[t], Parsed(file)) /\ pending'[t] = <<>> BY <3>1 DEF SavesOnTop, Read
      <3> QED BY <3>2
    <2>3. CASE PowerCut
      <3>1. file' = disk \/ file' = file BY <2>3 DEF PowerCut, SavesOnTop
      <3> QED BY <2>3, <3>1
    <2>4. ASSUME NEW t \in Tasks PROVE
            ~(Record(t) \/ Ask(t) \/ TakeTurn(t) \/ StartEdit(t) \/ Load(t) \/ RemoveNext(t) \/ TakeLock(t) \/ LockTimesOut(t)
              \/ ReadFile(t) \/ Write(t) \/ WriteFails(t) \/ EndTurn(t) \/ Show(t) \/ Die(t))
      BY DEF Record, Ask, TakeTurn, StartEdit, Load, RemoveNext, TakeLock, LockTimesOut, ReadFile, Write, WriteFails, EndTurn, Show, Die
    <2>5. ~Settle BY DEF Settle
    <2> QED BY <2>1, <2>2, <2>3, <2>4, <2>5 DEF Next
  <1>2. Spec => []SavesOnTop BY SavesInit, SavesNext, PTL DEF Spec
  <1> QED BY <1>1, <1>2, PTL DEF Spec, BuildsOnTheFile

-----------------------------------------------------------------------------
(* The window's updates. *)

LEMMA ShowsInit == Init => Shows
  BY DEF Init, Shows, InSequence, LastIsLatest, Updates, InTurn, Ended, Holding

LEMMA PcAt == ASSUME SavesOnTop, NEW t \in Tasks, NEW to, pc' = [pc EXCEPT ![t] = to]
              PROVE  pc'[t] = to /\ \A u \in Tasks \ {t} : pc'[u] = pc[u]
  BY DEF SavesOnTop

(* A step of one that is no update of the window, or of one that keeps its turn. *)
LEMMA ShowsElsewhere ==
  ASSUME SavesOnTop, Shows, NEW t \in Tasks, NEW to, pc' = [pc EXCEPT ![t] = to], UNCHANGED <<plan, window>>,
         list' = list \/ \E l : list' = [list EXCEPT ![t] = l],
         \/ t \notin Updates /\ to \notin {"asked", "ending", "told"} /\ (to = "editing" => Kind(t) = "streams")
         \/ t \in Updates /\ pc[t] \in InTurn /\ to \in InTurn
  PROVE  Shows'
  <1>1. pc'[t] = to /\ \A u \in Tasks \ {t} : pc'[u] = pc[u] BY PcAt
  <1>2. DOMAIN list' = Tasks /\ \A u \in Tasks \ {t} : list'[u] = list[u] BY DEF Shows, InSequence
  <1>3. Updates' = Updates /\ Updates \subseteq Tasks /\ \A u \in Tasks : Kind(u)' = Kind(u) BY DEF Updates, Kind
  <1>4. /\ InTurn \cap Ended = {} /\ {"asked", "idle", "dead"} \cap (InTurn \cup Ended) = {}
        /\ InTurn \cap {"editing", "asked", "told"} = {} /\ "done" \in Ended
    BY DEF InTurn, Ended, Holding
  <1>5. UNCHANGED <<number, turn, generation, applied, shown, latest>> BY DEF window
  <1>6. InSequence'
    <2>1. \A u \in Tasks : /\ pc'[u] \in {"asked", "ending", "told"} => u \in Updates
                           /\ pc'[u] = "editing" => Kind(u) = "streams"
      BY <1>1, <1>4 DEF Shows, InSequence
    <2>2. \A u \in Updates : /\ pc'[u] \in {"idle", "asked"} => number[u] = 0
                             /\ pc'[u] \in InTurn => turn = u /\ number[u] = generation
                             /\ pc'[u] \in InTurn \cup Ended => number[u] > 0
      BY <1>1, <1>3, <1>4 DEF Shows, InSequence
    <2> QED BY <1>2, <1>3, <1>5, <2>1, <2>2 DEF Shows, InSequence
  <1>7. NoneDied' => LastIsLatest'
    <2>1. \A u \in Updates : /\ pc'[u] \in Ended <=> pc[u] \in Ended
                             /\ pc'[u] = "done" <=> pc[u] = "done"
                             /\ pc'[u] = "dead" <=> pc[u] = "dead"
                             /\ pc[u] \in Ended => list'[u] = list[u]
      BY <1>1, <1>2, <1>3, <1>4
    <2>2. NoneDied' <=> NoneDied BY <1>3, <2>1 DEF NoneDied
    <2>3. SUFFICES ASSUME LastIsLatest PROVE LastIsLatest' BY <2>2 DEF Shows
    <2> QED BY <1>3, <1>4, <1>5, <2>1, <2>3 DEF LastIsLatest
  <1> QED BY <1>6, <1>7 DEF Shows

LEMMA AskShows == ASSUME SavesOnTop, Shows, NEW t \in Tasks, Ask(t) PROVE Shows'
  <1>1. /\ pc[t] = "idle" /\ Kind(t) = "window" /\ pc' = [pc EXCEPT ![t] = "asked"]
        /\ UNCHANGED <<plan, list, number, turn, generation, applied, shown, latest>>
    BY DEF Ask, Goto, window
  <1>2. pc'[t] = "asked" /\ \A u \in Tasks \ {t} : pc'[u] = pc[u] BY <1>1, PcAt
  <1>3. Updates' = Updates /\ Updates \subseteq Tasks /\ t \in Updates /\ \A u \in Tasks : Kind(u)' = Kind(u)
    BY <1>1 DEF Updates, Kind
  <1>4. InSequence' BY <1>1, <1>2, <1>3 DEF Shows, InSequence, InTurn, Ended, Holding
  <1>5. NoneDied' => LastIsLatest'
    <2>1. NoneDied' <=> NoneDied BY <1>1, <1>2, <1>3 DEF NoneDied
    <2>2. \A u \in Updates : (pc'[u] \in Ended <=> pc[u] \in Ended) /\ (pc'[u] = "done" <=> pc[u] = "done")
      BY <1>1, <1>2, <1>3 DEF Ended
    <2>3. SUFFICES ASSUME LastIsLatest PROVE LastIsLatest' BY <2>1 DEF Shows
    <2> QED BY <1>1, <1>3, <2>2, <2>3 DEF LastIsLatest
  <1> QED BY <1>4, <1>5 DEF Shows

LEMMA TakeTurnShows == ASSUME SomebodyIsSomebody, SavesOnTop, Shows, NEW t \in Tasks, TakeTurn(t) PROVE Shows'
  <1>1. /\ pc[t] = "asked" /\ turn = None /\ turn' = t /\ generation' = generation + 1
        /\ number' = [number EXCEPT ![t] = generation + 1] /\ pc' = [pc EXCEPT ![t] = "loading"]
        /\ UNCHANGED <<plan, list, applied, shown, latest>>
    BY DEF TakeTurn, Goto
  <1>2. pc'[t] = "loading" /\ \A u \in Tasks \ {t} : pc'[u] = pc[u] BY <1>1, PcAt
  <1>3. Updates' = Updates /\ Updates \subseteq Tasks /\ t \in Updates /\ \A u \in Tasks : Kind(u)' = Kind(u)
    BY <1>1 DEF Updates, Kind, Shows, InSequence
  <1>4. generation \in Nat /\ number \in [Tasks -> Nat] BY DEF Shows, InSequence
  <1>5. /\ number' \in [Tasks -> Nat] /\ generation' \in Nat
        /\ number'[t] = generation + 1 /\ \A u \in Tasks \ {t} : number'[u] = number[u]
    BY <1>1, <1>4
  <1>6. \A u \in Updates : pc[u] \notin InTurn BY <1>1, <1>3 DEF Shows, InSequence, SomebodyIsSomebody
  <1>7. \A u \in Updates \ {t} : number'[u] <= generation BY <1>3, <1>5 DEF Shows, InSequence
  <1>8. InSequence'
    <2>1. \A u \in Tasks : /\ pc'[u] \in {"asked", "ending", "told"} => u \in Updates
                           /\ pc'[u] = "editing" => Kind(u) = "streams"
      BY <1>2 DEF Shows, InSequence
    <2>2. ASSUME NEW u \in Updates
          PROVE  /\ number'[u] <= generation' /\ (pc'[u] \in {"idle", "asked"} => number'[u] = 0)
                 /\ (pc'[u] \in InTurn => turn' = u /\ number'[u] = generation')
                 /\ (pc'[u] \in InTurn \cup Ended => number'[u] > 0)
      <3>1. CASE u = t BY <1>1, <1>2, <1>4, <1>5, <3>1
      <3>2. CASE u # t
        <4>1. number'[u] <= generation' BY <1>1, <1>3, <1>4, <1>5, <1>7, <3>2
        <4> QED BY <1>2, <1>3, <1>5, <1>6, <3>2, <4>1 DEF Shows, InSequence
      <3> QED BY <3>1, <3>2
    <2>3. ASSUME NEW u \in Updates, NEW v \in Updates, number'[u] = number'[v], number'[u] > 0 PROVE u = v
      <3>1. CASE u # t /\ v # t BY <1>3, <1>5, <2>3, <3>1 DEF Shows, InSequence
      <3>2. CASE u = t \/ v = t BY <1>3, <1>4, <1>5, <1>7, <2>3, <3>2
      <3> QED BY <3>1, <3>2
    <2> QED BY <1>1, <1>3, <1>5, <2>1, <2>2, <2>3 DEF Shows, InSequence
  <1>9. NoneDied' => LastIsLatest'
    <2>1. NoneDied' <=> NoneDied BY <1>1, <1>2, <1>3 DEF NoneDied
    <2>2. \A u \in Updates : /\ (pc'[u] \in Ended <=> pc[u] \in Ended) /\ (pc'[u] = "done" <=> pc[u] = "done")
                             /\ (pc[u] \in Ended => number'[u] = number[u])
      BY <1>1, <1>2, <1>3, <1>5 DEF Ended
    <2>3. SUFFICES ASSUME LastIsLatest PROVE LastIsLatest' BY <2>1 DEF Shows
    <2>4. "done" \in Ended BY DEF Ended
    <2> QED BY <1>1, <1>3, <2>2, <2>3, <2>4 DEF LastIsLatest
  <1> QED BY <1>8, <1>9 DEF Shows

(* The update that has its turn has the highest number, and ends as the last of those that ended. *)
LEMMA EndTurnShows == ASSUME SomebodyIsSomebody, SavesOnTop, Shows, NEW t \in Tasks, EndTurn(t) PROVE Shows'
  <1>1. /\ pc[t] = "ending" /\ turn' = None /\ latest' = list[t] /\ pc' = [pc EXCEPT ![t] = "told"]
        /\ UNCHANGED <<plan, list, number, generation, applied, shown>>
    BY DEF EndTurn, Goto
  <1>2. pc'[t] = "told" /\ \A u \in Tasks \ {t} : pc'[u] = pc[u] BY <1>1, PcAt
  <1>3. Updates' = Updates /\ Updates \subseteq Tasks /\ t \in Updates /\ \A u \in Tasks : Kind(u)' = Kind(u)
    BY <1>1 DEF Updates, Kind, Shows, InSequence
  <1>4. turn = t /\ number[t] = generation /\ generation > 0 BY <1>1, <1>3 DEF Shows, InSequence, InTurn
  <1>5. \A u \in Updates \ {t} : pc'[u] = pc[u] /\ pc[u] \notin InTurn BY <1>2, <1>3, <1>4 DEF Shows, InSequence
  <1>6. InSequence'
    <2>1. "told" \in Ended /\ "told" \notin InTurn /\ "ending" \in InTurn BY DEF InTurn, Ended, Holding
    <2>2. \A u \in Tasks : /\ pc'[u] \in {"asked", "ending", "told"} => u \in Updates
                           /\ pc'[u] = "editing" => Kind(u) = "streams"
      BY <1>2, <1>3 DEF Shows, InSequence
    <2>3. \A u \in Updates : /\ pc'[u] \in {"idle", "asked"} => number[u] = 0
                             /\ pc'[u] \notin InTurn
                             /\ pc'[u] \in Ended => number[u] > 0
      BY <1>2, <1>4, <1>5, <2>1 DEF Shows, InSequence
    <2> QED BY <1>1, <1>3, <2>2, <2>3 DEF Shows, InSequence
  <1>7. NoneDied' => LastIsLatest'
    <2>1. NoneDied' <=> NoneDied BY <1>1, <1>2, <1>3 DEF NoneDied
    <2>2. SUFFICES ASSUME LastIsLatest PROVE LastIsLatest' BY <2>1 DEF Shows
    <2>3. ASSUME NEW u \in Updates, pc'[u] \in Ended, \A v \in Updates : pc'[v] \in Ended => number[v] <= number[u]
          PROVE  latest' = list[u]
      <3>1. number[t] <= number[u] BY <1>2, <1>3, <2>3 DEF Ended
      <3>2. number[u] \in Nat /\ number[t] \in Nat /\ number[u] <= number[t] BY <1>3, <1>4 DEF Shows, InSequence
      <3>3. number[u] = number[t] /\ number[t] > 0 BY <1>4, <3>1, <3>2
      <3>4. u = t BY <1>3, <3>3 DEF Shows, InSequence
      <3> QED BY <1>1, <3>4
    <2>4. pc'[t] \in Ended BY <1>2 DEF Ended
    <2>5. \A u \in Updates : pc'[u] = "done" <=> pc[u] = "done" BY <1>1, <1>2, <1>3
    <2> QED BY <1>1, <1>3, <2>2, <2>3, <2>4, <2>5 DEF LastIsLatest
  <1> QED BY <1>6, <1>7 DEF Shows

LEMMA ShowShows == ASSUME SavesOnTop, Shows, NEW t \in Tasks, Show(t) PROVE Shows'
  <1>1. /\ pc[t] = "told" /\ pc' = [pc EXCEPT ![t] = "done"]
        /\ UNCHANGED <<plan, list, number, turn, generation, latest>>
        /\ \/ number[t] > applied /\ applied' = number[t] /\ shown' = list[t]
           \/ ~(number[t] > applied) /\ applied' = applied /\ shown' = shown
    BY DEF Show, Goto
  <1>2. pc'[t] = "done" /\ \A u \in Tasks \ {t} : pc'[u] = pc[u] BY <1>1, PcAt
  <1>3. Updates' = Updates /\ Updates \subseteq Tasks /\ t \in Updates /\ \A u \in Tasks : Kind(u)' = Kind(u)
    BY <1>1 DEF Updates, Kind, Shows, InSequence
  <1>4. number \in [Tasks -> Nat] /\ applied \in Nat /\ number[t] > 0
    BY <1>1, <1>3 DEF Shows, InSequence, InTurn, Ended
  <1>5. "told" \in Ended /\ "done" \in Ended /\ {"told", "done"} \cap InTurn = {} BY DEF InTurn, Ended, Holding
  <1>6. InSequence'
    <2>1. applied' \in Nat BY <1>1, <1>3, <1>4
    <2>2. \A u \in Tasks : /\ pc'[u] \in {"asked", "ending", "told"} => u \in Updates
                           /\ pc'[u] = "editing" => Kind(u) = "streams"
      BY <1>2 DEF Shows, InSequence
    <2>3. \A u \in Updates : /\ pc'[u] \in {"idle", "asked"} => number[u] = 0
                             /\ pc'[u] \in InTurn => turn = u /\ number[u] = generation
                             /\ pc'[u] \in InTurn \cup Ended => number[u] > 0
      BY <1>2, <1>3, <1>4, <1>5 DEF Shows, InSequence
    <2> QED BY <1>1, <1>3, <2>1, <2>2, <2>3 DEF Shows, InSequence
  <1>7. NoneDied' => LastIsLatest'
    <2>1. NoneDied' <=> NoneDied BY <1>1, <1>2, <1>3 DEF NoneDied
    <2>2. SUFFICES ASSUME LastIsLatest PROVE LastIsLatest' BY <2>1 DEF Shows
    <2>3. \A u \in Updates : pc'[u] \in Ended <=> pc[u] \in Ended BY <1>1, <1>2, <1>3, <1>5
    <2>4. \A u \in Updates : pc'[u] = "done" <=> pc[u] = "done" \/ u = t BY <1>1, <1>2, <1>3
    <2>5. number[t] <= applied' /\ applied <= applied' BY <1>1, <1>3, <1>4
    <2>6. \A u \in Updates : pc'[u] = "done" => number[u] <= applied'
      <3>1. \A u \in Updates : pc[u] = "done" => number[u] <= applied BY <2>2 DEF LastIsLatest
      <3>2. applied' \in Nat /\ \A u \in Updates : number[u] \in Nat BY <1>1, <1>3, <1>4
      <3> QED BY <1>4, <2>4, <2>5, <3>1, <3>2
    <2>7. \E u \in Updates : pc'[u] = "done" /\ number[u] = applied' /\ shown' = list[u]
      <3>1. CASE number[t] > applied BY <1>1, <1>2, <1>3, <3>1
      <3>2. CASE ~(number[t] > applied)
        <4>1. applied > 0 BY <1>3, <1>4, <3>2
        <4>2. PICK u \in Updates : pc[u] = "done" /\ number[u] = applied /\ shown = list[u]
          BY <2>2, <4>1 DEF LastIsLatest
        <4> QED BY <1>1, <2>4, <3>2, <4>2
      <3> QED BY <3>1, <3>2
    <2>8. \E u \in Updates : pc'[u] \in Ended BY <1>2, <1>3, <1>5
    <2> QED BY <1>1, <1>3, <2>2, <2>3, <2>6, <2>7, <2>8 DEF LastIsLatest
  <1> QED BY <1>6, <1>7 DEF Shows

LEMMA PowerCutShows == ASSUME SavesOnTop, Shows, PowerCut PROVE Shows'
  <1>1. /\ pc' = [t \in Tasks |-> IF pc[t] = "done" \/ (pc[t] = "idle" /\ Kind(t) # "window") THEN pc[t] ELSE "dead"]
        /\ UNCHANGED <<plan, list, number, generation, applied, shown, latest>>
    BY DEF PowerCut
  <1>2. Updates' = Updates /\ Updates \subseteq Tasks /\ \A u \in Tasks : Kind(u)' = Kind(u) BY <1>1 DEF Updates, Kind
  <1>3. \A t \in Tasks : pc'[t] \in {"done", "idle", "dead"} BY <1>1
  <1>4. \A t \in Updates : pc'[t] \in {"done", "dead"} /\ (pc'[t] = "done" <=> pc[t] = "done") BY <1>1, <1>2 DEF Updates
  <1>5. InSequence'
    BY <1>1, <1>2, <1>3, <1>4 DEF Shows, InSequence, InTurn, Ended, Holding
  <1>6. NoneDied' => LastIsLatest'
    <2>1. ASSUME NoneDied' PROVE \A t \in Updates : pc[t] = "done" /\ pc'[t] = "done" BY <1>2, <1>4, <2>1 DEF NoneDied
    <2>2. NoneDied' => NoneDied BY <2>1, <1>2 DEF NoneDied
    <2>3. SUFFICES ASSUME LastIsLatest, NoneDied' PROVE LastIsLatest' BY <2>2 DEF Shows
    <2> QED BY <1>1, <1>2, <2>1, <2>3 DEF LastIsLatest
  <1> QED BY <1>5, <1>6 DEF Shows

LEMMA ShowsKept == ASSUME Shows, UNCHANGED <<plan, pc, list, window>> PROVE Shows'
  <1>1. Updates' = Updates /\ Updates \subseteq Tasks /\ \A u \in Tasks : Kind(u)' = Kind(u) BY DEF Updates, Kind
  <1> QED BY <1>1 DEF Shows, InSequence, NoneDied, LastIsLatest, window

LEMMA ShowsNext == SomebodyIsSomebody /\ SavesOnTop /\ Shows /\ [Next]_vars => Shows'
  <1> SUFFICES ASSUME SomebodyIsSomebody, SavesOnTop, Shows, [Next]_vars PROVE Shows' OBVIOUS
  <1>1. ASSUME NEW t \in Tasks, Record(t) \/ StartEdit(t) \/ Die(t) PROVE Shows'
    <2>1. /\ \E to \in {"saving", "loading", "dead"} : pc' = [pc EXCEPT ![t] = to]
          /\ t \notin Updates /\ UNCHANGED <<plan, window, list>>
      BY <1>1 DEF Record, StartEdit, Die, Goto, Updates
    <2> QED BY <2>1, ShowsElsewhere
  <1>2. ASSUME NEW t \in Tasks,
               TakeLock(t) \/ LockTimesOut(t) \/ ReadFile(t) \/ MoveAside(t) \/ Write(t) \/ WriteFails(t) \/ Rename(t)
        PROVE  Shows'
    <2>1. UNCHANGED <<plan, window>> /\ (list' = list \/ \E l : list' = [list EXCEPT ![t] = l])
      BY <1>2 DEF TakeLock, LockTimesOut, ReadFile, MoveAside, Write, WriteFails, Rename
    <2>2. pc[t] \in InTurn
      BY <1>2 DEF TakeLock, LockTimesOut, ReadFile, MoveAside, Write, WriteFails, Rename, InTurn, Holding
    <2>3. PICK to : /\ pc' = [pc EXCEPT ![t] = to]
                    /\ \/ to \in Holding
                       \/ to = (CASE Kind(t) = "window" -> "ending" [] Kind(t) = "streams" -> "editing" [] OTHER -> "done")
      <3>1. CASE TakeLock(t) \/ ReadFile(t) \/ MoveAside(t) \/ Write(t)
        BY <3>1 DEF TakeLock, ReadFile, MoveAside, Write, Goto, Holding
      <3>2. CASE LockTimesOut(t) \/ WriteFails(t) \/ Rename(t)
        BY <3>2 DEF LockTimesOut, WriteFails, Rename, Returns, Goto
      <3> QED BY <1>2, <3>1, <3>2
    <2>4. t \in Updates => to \in InTurn BY <2>3 DEF Updates, InTurn
    <2>5. t \notin Updates => to \notin {"asked", "ending", "told"} /\ (to = "editing" => Kind(t) = "streams")
      BY <2>3 DEF Updates, Holding
    <2> QED BY <2>1, <2>2, <2>3, <2>4, <2>5, ShowsElsewhere
  <1>3. ASSUME NEW t \in Tasks, Load(t) \/ RemoveNext(t) PROVE Shows'
    <2>1. UNCHANGED <<plan, window>> /\ (list' = list \/ \E l : list' = [list EXCEPT ![t] = l])
      BY <1>3 DEF Load, RemoveNext, Modify
    <2>2. CASE Load(t)
      <3>1. PICK to : /\ pc' = [pc EXCEPT ![t] = to]
                      /\ \/ Kind(t) = "window" /\ to \in {"ending", "saving"}
                         \/ Kind(t) = "move" /\ to \in {"saving", "done"}
                         \/ Kind(t) = "streams" /\ to = "editing"
        BY <2>2 DEF Load, Modify, Goto
      <3>2. pc[t] \in InTurn /\ {"ending", "saving"} \subseteq InTurn BY <2>2 DEF Load, InTurn
      <3> QED BY <2>1, <3>1, <3>2, ShowsElsewhere DEF Updates
    <2>3. CASE RemoveNext(t)
      <3>1. \E to \in {"saving", "done"} : pc' = [pc EXCEPT ![t] = to] BY <2>3 DEF RemoveNext, Modify, Goto
      <3>2. t \notin Updates BY <2>3 DEF RemoveNext, Shows, InSequence, Updates
      <3> QED BY <2>1, <3>1, <3>2, ShowsElsewhere
    <2> QED BY <1>3, <2>2, <2>3
  <1>4. ASSUME NEW t \in Tasks, Ask(t) \/ TakeTurn(t) \/ EndTurn(t) \/ Show(t) PROVE Shows'
    BY <1>4, AskShows, TakeTurnShows, EndTurnShows, ShowShows
  <1>5. CASE Settle BY <1>5, ShowsKept DEF Settle
  <1>6. CASE PowerCut BY <1>6, PowerCutShows
  <1>7. CASE UNCHANGED vars BY <1>7, ShowsKept DEF vars, window
  <1> QED BY <1>1, <1>2, <1>3, <1>4, <1>5, <1>6, <1>7 DEF Next

(* With none of its updates under way the window shows the list the last one in sequence ended with, in *)
(* whatever order it heard of them (main.rs: update_history, in_sequence).                              *)
THEOREM AlwaysShownIsLatest == ASSUME SomebodyIsSomebody PROVE Spec => []ShownIsLatest
  <1>1. Shows => ShownIsLatest
    <2> SUFFICES ASSUME Shows, \A t \in Updates : pc[t] \in {"idle", "done"} PROVE shown = latest
      BY DEF ShownIsLatest, Updates
    <2>1. LastIsLatest BY DEF Shows, NoneDied
    <2>2. CASE \A t \in Updates : pc[t] = "idle" BY <2>1, <2>2 DEF LastIsLatest, Ended
    <2>3. CASE \E t \in Updates : pc[t] = "done"
      <3>1. PICK t \in Updates : pc[t] = "done" BY <2>3
      <3>2. /\ number[t] \in Nat /\ applied \in Nat /\ number[t] > 0 /\ number[t] <= applied
        BY <2>1, <3>1 DEF Shows, InSequence, LastIsLatest, Updates, InTurn, Ended
      <3>3. PICK u \in Updates : pc[u] = "done" /\ number[u] = applied /\ shown = list[u]
        BY <2>1, <3>2 DEF LastIsLatest
      <3>4. \A v \in Updates : pc[v] \in Ended => number[v] <= number[u] BY <2>1, <3>3 DEF LastIsLatest, Ended
      <3> QED BY <2>1, <3>3, <3>4 DEF LastIsLatest, Ended
    <2> QED BY <2>2, <2>3
  <1>2. Spec => []Shows BY SavesInit, SavesNext, ShowsInit, ShowsNext, PTL DEF Spec
  <1> QED BY <1>1, <1>2, PTL

-----------------------------------------------------------------------------
(***************************************************************************)
(* Updates of the two programs, for any number of processes, whichever of  *)
(* the two each runs, any releases and any number of troubles (Updater).   *)
(*                                                                         *)
(* One update runs at a time; where it may be cut off nobody clears up     *)
(* beside it.  From the phase it is in follows what is under               *)
(* each name: builds not yet moved in are whole, those moved in are there, *)
(* and what was moved aside lies where a start, or the update itself, puts *)
(* it back from.  So no name is given up before its build is ready.        *)
(***************************************************************************)
CONSTANTS Processes, Runs, Latest, Torn, Budget
VARIABLES exe, new, old, more, extension, staged, moved, image, build, job, mode, left

U == INSTANCE Updater

Own == {"gui", "cli"}
Preparing == {"write", "writing", "unpack"}
Swapping == {"name", "aside", "in"}
Undoing == {"back", "tidy"}
Extending == {"extAside", "extIn", "extOld"}
Updating == Preparing \cup Swapping \cup Undoing \cup Extending

MovedAside == Own \X {"old", "more"} \X U!Releases
JobSet ==
  [at : U!Idle \cup Updating, i : {1, 2}, todo : SUBSET (Own \cup {"extension"}), to : 0 .. Latest, zip : BOOLEAN,
   targets : Seq(Own), aside : Seq(MovedAside), slot : {"old", "more"}, before : {<<>>} \cup [Own -> U!File]]

TypedUpdate ==
  /\ exe \in [Own -> U!File] /\ new \in [Own -> U!File] /\ old \in [Own -> U!File]
  /\ more \in [Own -> SUBSET U!Releases]
  /\ extension \in U!File /\ staged \in U!File /\ moved \in Seq(U!Releases \cup {Torn})
  /\ image \in [Processes -> {"none", "exe", "old", "more"}] /\ build \in [Processes -> U!Releases]
  /\ job \in [Processes -> JobSet] /\ mode \in {"cutOff", "beside"}

(* What was moved aside lies where it was moved to. *)
There(e, o, m) == IF e[2] = "old" THEN o[e[1]] = e[3] ELSE e[3] \in m[e[1]]

(* Which programs an update is at, and which it has moved aside. *)
Shaped(j) ==
  j.at \in Updating =>
    /\ j.to \in U!Releases
    /\ \A k, l \in DOMAIN j.targets : j.targets[k] = j.targets[l] => k = l
    /\ j.targets # <<>>
    /\ j.at \in {"write", "writing"} \cup Swapping => j.i \in DOMAIN j.targets
    /\ j.at = "unpack" => j.i = 1
    /\ Len(j.aside) <= Len(j.targets)
    /\ \A k \in DOMAIN j.aside : j.aside[k][1] = j.targets[k]
    /\ j.at \in Preparing \cup {"tidy"} => j.aside = <<>>
    /\ j.at \in {"name", "aside"} => Len(j.aside) = j.i - 1
    /\ j.at = "in" => Len(j.aside) = j.i

(* A program to be replaced is there, but while it lies aside and its new build is to be moved in, or *)
(* it is to be put back.                                                                              *)
Present(j, x, o, m) ==
  j.at \in Updating =>
    \A l \in DOMAIN j.targets :
      \/ x[j.targets[l]] # None
      \/ /\ j.at = "in" => l = j.i
         /\ j.at \in {"in", "back"} /\ \E k \in DOMAIN j.aside : j.aside[k][1] = j.targets[l] /\ There(j.aside[k], o, m)

(* What is written and not yet moved in is whole, or somebody cleared it. *)
Wrote(b, j, md) == b = j.to \/ (md = "beside" /\ b = None)
Prepared(j, n, md) ==
  /\ j.at \in {"write", "writing"} => \A k \in DOMAIN j.targets : k < j.i => Wrote(n[j.targets[k]], j, md)
  /\ j.at = "writing" /\ md = "cutOff" => n[j.targets[j.i]] # None
  /\ j.at = "unpack" => \A k \in DOMAIN j.targets : Wrote(n[j.targets[k]], j, md)
  /\ j.at \in Swapping => \A k \in DOMAIN j.targets : k >= j.i => Wrote(n[j.targets[k]], j, md)

(* What was moved in is there. *)
Swapped(j, x) ==
  /\ j.at \in Swapping => \A k \in DOMAIN j.targets : k < j.i => x[j.targets[k]] = j.to
  /\ j.at \in Extending => \A k \in DOMAIN j.targets : x[j.targets[k]] = j.to

(* Where nobody meets the update: what it found is there or aside, where it can be put back from. *)
Restorable(j, x, o, m, im, md) ==
  md = "cutOff" /\ j.at \in Preparing \cup Swapping \cup Undoing =>
    /\ j.before \in [Own -> U!File]
    /\ \A p \in Own : x[p] = j.before[p] \/ (\E k \in DOMAIN j.aside : j.aside[k][1] = p)
    /\ \A k \in DOMAIN j.aside :
         /\ j.aside[k][3] = j.before[j.aside[k][1]]
         /\ There(j.aside[k], o, m)
         /\ \A r \in Processes : ~(Runs[r] = j.aside[k][1] /\ im[r] = "exe")

(* One update at a time, alone where it may be cut off. *)
Apart ==
  /\ \A r, s \in Processes : job[r].at \in Updating /\ job[s].at \in Updating => r = s
  /\ \A r, s \in Processes : mode = "cutOff" /\ job[r].at \in Updating => job[s].at \notin U!Cleaning

(* What has the name is whole; a program without its name is the one an update moves, or, where updates are *)
(* cut off, has its new build ready.                                                                          *)
Whole ==
  \A p \in Own :
    /\ exe[p] # Torn
    /\ new[p] = Torn => exe[p] # None
    /\ exe[p] = None =>
         IF mode = "cutOff" THEN new[p] \in U!Releases
         ELSE \E r \in Processes : job[r].at \in Updating /\ \E k \in DOMAIN job[r].targets : job[r].targets[k] = p

(* Who runs from a name keeps it; who clears up has seen what is there, and it stays. *)
Seen ==
  \A r \in Processes :
    /\ image[r] = "exe" => exe[Runs[r]] # None
    /\ job[r].at = "clear" =>
         /\ \A p \in Own : p \in job[r].todo => exe[p] # None
         /\ "extension" \in job[r].todo => extension # None

Extended ==
  /\ extension # Torn /\ staged # Torn
  /\ extension = None => moved # <<>> /\ moved[Len(moved)] \in U!Releases
  /\ \A r \in Processes : job[r].at = "extOld" => extension # None

InOrderJob(j, x, n, o, m, im, md) ==
  Shaped(j) /\ Present(j, x, o, m) /\ Prepared(j, n, md) /\ Swapped(j, x) /\ Restorable(j, x, o, m, im, md)
InOrderUpdate == \A r \in Processes : InOrderJob(job[r], exe, new, old, more, image, mode)

UpdateInv == TypedUpdate /\ Apart /\ Whole /\ Seen /\ Extended /\ InOrderUpdate

(* Each process runs one of the two programs; no release, and nothing cut off in its writing, is nothing, *)
(* and nothing cut off is a release.                                                                       *)
Installed ==
  /\ Runs \in [Processes -> Own] /\ Latest \in Nat \ {0}
  /\ Torn \notin U!Releases /\ None \notin U!Releases /\ Torn # None

LEMMA TheTwo == U!ToSet(U!Programs) = Own /\ Len(U!Programs) = 2 /\ U!Programs[1] \in Own /\ U!Programs[2] \in Own
  BY DEF U!ToSet, U!Programs, Own

LEMMA UpdateInit == ASSUME Installed, U!Init PROVE UpdateInv
  <1>1. TypedUpdate
    BY TheTwo DEF Installed, U!Init, TypedUpdate, U!Off, JobSet, U!Idle, U!Cleaning, U!File, U!Releases, Own
  <1>2. Apart BY DEF U!Init, Apart, U!Off, Updating, Preparing, Swapping, Undoing, Extending
  <1>3. Whole /\ Seen /\ Extended BY TheTwo DEF Installed, U!Init, U!Off, Whole, Seen, Extended, U!Releases
  <1>4. InOrderUpdate
    BY DEF U!Init, U!Off, InOrderUpdate, InOrderJob, Shaped, Present, Prepared, Swapped, Restorable, Updating, Preparing, Swapping,
           Undoing, Extending
  <1> QED BY <1>1, <1>2, <1>3, <1>4 DEF UpdateInv

(* A step of one process leaves the others what they do. *)
LEMMA ApartKept ==
  ASSUME Apart, mode' = mode, NEW r \in Processes, \A s \in Processes \ {r} : job'[s] = job[s],
         job'[r].at \in Updating => job[r].at \in Updating, job'[r].at \in U!Cleaning => job[r].at \in U!Cleaning
  PROVE  Apart'
  BY DEF Apart, U!Cleaning

LEMMA WholeKept ==
  ASSUME TypedUpdate, Whole, mode' = mode, NEW r \in Processes, \A s \in Processes \ {r} : job'[s] = job[s],
         \A p \in Own :
           /\ exe'[p] # Torn /\ (new'[p] = Torn => exe'[p] # None)
           /\ exe'[p] = None => exe[p] = None /\ (mode = "cutOff" => new'[p] \in U!Releases),
         mode # "cutOff" /\ job[r].at \in Updating =>
           \/ job'[r].at \in Updating /\ job'[r].targets = job[r].targets
           \/ \A k \in DOMAIN job[r].targets : exe'[job[r].targets[k]] # None
  PROVE  Whole'
  BY DEF Whole, U!Releases

LEMMA SeenKept ==
  ASSUME Seen, NEW r \in Processes, \A s \in Processes \ {r} : job'[s] = job[s],
         \A p \in Own : exe[p] # None => exe'[p] # None, Runs \in [Processes -> Own],
         \A s \in Processes : image'[s] = "exe" => image[s] = "exe" \/ exe'[Runs[s]] # None,
         extension # None => extension' # None,
         job'[r].at = "clear" => job[r].at = "clear" /\ job'[r].todo \subseteq job[r].todo
  PROVE  Seen'
  BY DEF Seen

LEMMA ExtendedKept ==
  ASSUME Extended, NEW r \in Processes, \A s \in Processes \ {r} : job'[s] = job[s],
         extension' = extension, moved' = moved, staged' # Torn, job'[r].at = "extOld" => job[r].at = "extOld"
  PROVE  Extended'
  BY DEF Extended, U!Releases

(* What others do leaves an update in order. *)
LEMMA OthersKeep ==
  ASSUME NEW j, NEW x, NEW n, NEW o, NEW m, NEW im, NEW md, NEW x1, NEW n1, NEW o1, NEW m1, NEW im1,
         j \in JobSet, md \in {"cutOff", "beside"},
         InOrderJob(j, x, n, o, m, im, md),
         \A p \in Own :
           /\ x[p] # None => x1[p] = x[p]
           /\ x1[p] = None => o1[p] = o[p] /\ m1[p] = m[p]
           /\ md = "beside" => n1[p] \in {n[p], None},
         md = "cutOff" /\ j.at \in Updating => x1 = x /\ n1 = n /\ o1 = o /\ m1 = m /\ \A s \in Processes : im1[s] = "exe" => im[s] = "exe",
         Installed
  PROVE  InOrderJob(j, x1, n1, o1, m1, im1, md)
  <1> USE DEF InOrderJob, JobSet
  <1>1. Shaped(j) OBVIOUS
  <1>2. Present(j, x1, o1, m1)
    <2>1. \A k \in DOMAIN j.targets : j.targets[k] \in Own OBVIOUS
    <2>2. SUFFICES ASSUME j.at \in Updating, NEW l \in DOMAIN j.targets, x1[j.targets[l]] = None
                   PROVE  /\ j.at = "in" => l = j.i
                          /\ j.at \in {"in", "back"} /\ \E k \in DOMAIN j.aside : j.aside[k][1] = j.targets[l] /\ There(j.aside[k], o1, m1)
      BY DEF Present
    <2>3. x[j.targets[l]] = None /\ o1[j.targets[l]] = o[j.targets[l]] /\ m1[j.targets[l]] = m[j.targets[l]] BY <2>1, <2>2
    <2>4. /\ j.at = "in" => l = j.i
          /\ j.at \in {"in", "back"} /\ \E k \in DOMAIN j.aside : j.aside[k][1] = j.targets[l] /\ There(j.aside[k], o, m)
      BY <2>2, <2>3 DEF Present
    <2>5. \A k \in DOMAIN j.aside : j.aside[k][1] = j.targets[l] /\ There(j.aside[k], o, m) => There(j.aside[k], o1, m1)
      BY <2>3 DEF There
    <2> QED BY <2>4, <2>5
  <1>3. Prepared(j, n1, md)
    BY DEF Prepared, Wrote, Updating, Preparing, Swapping
  <1>4. Swapped(j, x1)
    BY DEF Swapped, Shaped, Installed, Updating, Swapping, Extending, U!Releases
  <1>5. Restorable(j, x1, o1, m1, im1, md)
    BY DEF Restorable, Updating, Preparing, Swapping, Undoing
  <1> QED BY <1>1, <1>2, <1>3, <1>4, <1>5

(* Who does not update is in order. *)
LEMMA IdleInOrder ==
  ASSUME NEW j, NEW x, NEW n, NEW o, NEW m, NEW im, NEW md, j.at \notin Updating
  PROVE  InOrderJob(j, x, n, o, m, im, md)
  BY DEF InOrderJob, Shaped, Present, Prepared, Swapped, Restorable, Updating, Preparing, Swapping, Undoing, Extending

(* One updates, so it is in order after its step when it is itself. *)
LEMMA OneInOrder ==
  ASSUME Apart, NEW r \in Processes, job[r].at \in Updating, \A s \in Processes \ {r} : job'[s] = job[s],
         InOrderJob(job'[r], exe', new', old', more', image', mode')
  PROVE  InOrderUpdate'
  <1> SUFFICES ASSUME NEW s \in Processes, s # r PROVE InOrderJob(job'[s], exe', new', old', more', image', mode')
    BY DEF InOrderUpdate
  <1>1. job'[s] = job[s] /\ job[s].at \notin Updating BY DEF Apart
  <1> QED BY <1>1, IdleInOrder

LEMMA OffTyped == ASSUME Installed PROVE U!Off \in JobSet
  BY DEF U!Off, JobSet, U!Idle, Installed, U!Releases

LEMMA JobTyped ==
  ASSUME NEW j \in JobSet, NEW a \in U!Idle \cup Updating
  PROVE  [j EXCEPT !.at = a] \in JobSet
  BY DEF JobSet

LEMMA TurnTyped ==
  ASSUME NEW j \in JobSet, NEW a \in U!Idle \cup Updating, NEW i \in {1, 2}
  PROVE  [j EXCEPT !.at = a, !.i = i] \in JobSet
  BY DEF JobSet

LEMMA JobsTyped ==
  ASSUME NEW r \in Processes, TypedUpdate, NEW j \in JobSet
  PROVE  [job EXCEPT ![r] = j] \in [Processes -> JobSet]
  BY DEF TypedUpdate

(* A process turns to something else. *)
LEMMA JobTurns ==
  ASSUME NEW r \in Processes, TypedUpdate, NEW a \in U!Idle \cup Updating, U!Job(r, a)
  PROVE  /\ job' \in [Processes -> JobSet] /\ \A s \in Processes \ {r} : job'[s] = job[s]
         /\ job'[r] = [job[r] EXCEPT !.at = a] /\ job'[r].at = a
  <1>1. job[r] \in JobSet /\ job' = [job EXCEPT ![r] = [job[r] EXCEPT !.at = a]] BY DEF U!Job, TypedUpdate
  <1>2. [job[r] EXCEPT !.at = a] \in JobSet BY <1>1, JobTyped
  <1>3. [job[r] EXCEPT !.at = a].at = a BY <1>1 DEF JobSet
  <1> QED BY <1>1, <1>2, <1>3, JobsTyped DEF TypedUpdate

LEMMA JobTurnsOn ==
  ASSUME NEW r \in Processes, TypedUpdate, NEW a \in U!Idle \cup Updating, NEW i \in {1, 2}, U!Turn(r, a, i)
  PROVE  /\ job' \in [Processes -> JobSet] /\ \A s \in Processes \ {r} : job'[s] = job[s]
         /\ job'[r] = [job[r] EXCEPT !.at = a, !.i = i] /\ job'[r].at = a
  <1>1. job[r] \in JobSet /\ job' = [job EXCEPT ![r] = [job[r] EXCEPT !.at = a, !.i = i]] BY DEF U!Turn, TypedUpdate
  <1>2. [job[r] EXCEPT !.at = a, !.i = i] \in JobSet BY <1>1, TurnTyped
  <1>3. [job[r] EXCEPT !.at = a, !.i = i].at = a BY <1>1 DEF JobSet
  <1> QED BY <1>1, <1>2, <1>3, JobsTyped DEF TypedUpdate

LEMMA OthersInOrder ==
  ASSUME Installed, UpdateInv, mode' = mode, NEW r \in Processes, \A s \in Processes \ {r} : job'[s] = job[s],
         job'[r].at \notin Updating,
         \A p \in Own :
           /\ exe[p] # None => exe'[p] = exe[p]
           /\ exe'[p] = None => old'[p] = old[p] /\ more'[p] = more[p]
           /\ mode = "beside" => new'[p] \in {new[p], None},
         mode = "cutOff" /\ (\E s \in Processes \ {r} : job[s].at \in Updating) =>
           /\ exe' = exe /\ new' = new /\ old' = old /\ more' = more
           /\ \A s \in Processes : image'[s] = "exe" => image[s] = "exe"
  PROVE  InOrderUpdate'
  <1> SUFFICES ASSUME NEW s \in Processes PROVE InOrderJob(job'[s], exe', new', old', more', image', mode')
    BY DEF InOrderUpdate
  <1>1. CASE s = r BY <1>1, IdleInOrder
  <1>2. CASE s # r
    <2>1. InOrderJob(job[s], exe, new, old, more, image, mode) /\ job[s] \in JobSet /\ mode \in {"cutOff", "beside"}
      BY DEF UpdateInv, InOrderUpdate, TypedUpdate
    <2>2. mode = "cutOff" /\ job[s].at \in Updating =>
           /\ exe' = exe /\ new' = new /\ old' = old /\ more' = more
           /\ \A t \in Processes : image'[t] = "exe" => image[t] = "exe"
      BY <1>2
    <2>3. job'[s] = job[s] BY <1>2
    <2>4. InOrderJob(job[s], exe', new', old', more', image', mode)
      BY <2>1, <2>2, OthersKeep
    <2> QED BY <2>3, <2>4
  <1> QED BY <1>1, <1>2

(* An update where it may be cut off is alone: nobody clears up. *)
LEMMA AloneUpdates ==
  ASSUME Apart, NEW r \in Processes, job[r].at \in U!Cleaning, mode = "cutOff"
  PROVE  ~\E s \in Processes : job[s].at \in Updating
  BY DEF Apart

LEMMA PhasesApart == Updating \cap (U!Idle \cup U!Cleaning) = {} /\ U!Cleaning \subseteq U!Idle
  BY DEF Updating, Preparing, Swapping, Undoing, Extending, U!Idle, U!Cleaning

LEMMA NoneUpdates ==
  ASSUME TypedUpdate PROVE ~U!SomeUpdate <=> \A s \in Processes : job[s].at \notin Updating
  <1>1. \A s \in Processes : job[s].at \in U!Idle \cup Updating BY DEF TypedUpdate, JobSet
  <1> QED BY <1>1, PhasesApart DEF U!SomeUpdate

LEMMA StartKeeps == ASSUME Installed, UpdateInv, NEW r \in Processes, U!Start(r) PROVE UpdateInv'
  <1> USE DEF UpdateInv
  <1>1. /\ job[r].at = "off" /\ exe[Runs[r]] \in U!Releases
        /\ job' = [job EXCEPT ![r] = [U!Off EXCEPT !.at = "look"]]
        /\ image' = [image EXCEPT ![r] = "exe"] /\ build' = [build EXCEPT ![r] = exe[Runs[r]]]
        /\ exe' = exe /\ new' = new /\ old' = old /\ more' = more
        /\ extension' = extension /\ staged' = staged /\ moved' = moved /\ mode' = mode
        /\ mode = "cutOff" => \A s \in Processes : job[s].at \notin Updating
    BY NoneUpdates DEF U!Start, U!programs, U!folders
  <1>2. /\ job'[r].at = "look" /\ "look" \notin Updating /\ "look" \in U!Cleaning /\ \A s \in Processes \ {r} : job'[s] = job[s]
    BY <1>1 DEF TypedUpdate, U!Off, Updating, Preparing, Swapping, Undoing, Extending, U!Cleaning
  <1>3. TypedUpdate'
    <2>1. job' \in [Processes -> JobSet]
      <3>1. [U!Off EXCEPT !.at = "look"] \in JobSet BY OffTyped, JobTyped DEF U!Idle, U!Cleaning
      <3> QED BY <1>1, <3>1, JobsTyped
    <2> QED BY <1>1, <2>1 DEF TypedUpdate, Installed
  <1>4. Apart' BY <1>1, <1>2 DEF Apart
  <1>5. Whole' BY <1>1, <1>2, WholeKept, PhasesApart DEF Whole, U!Idle
  <1>6. Seen' BY <1>1, <1>2, SeenKept DEF Installed, TypedUpdate
  <1>7. Extended' BY <1>1, <1>2, ExtendedKept DEF Extended
  <1>8. InOrderUpdate' BY <1>1, <1>2, OthersInOrder
  <1> QED BY <1>3, <1>4, <1>5, <1>6, <1>7, <1>8

LEMMA FinishSwapKeeps == ASSUME Installed, UpdateInv, NEW r \in Processes, U!FinishSwap(r) PROVE UpdateInv'
  <1> USE DEF UpdateInv
  <1>1. PICK p \in Own : p = U!Programs[job[r].i]
    BY TheTwo DEF TypedUpdate, JobSet, U!FinishSwap
  <1>2. /\ job[r].at = "look"
        /\ \/ exe[p] = None /\ new[p] # None /\ exe' = [exe EXCEPT ![p] = new[p]] /\ new' = [new EXCEPT ![p] = None]
           \/ exe' = exe /\ new' = new
        /\ \/ U!Turn(r, "extension", 1)
           \/ U!Turn(r, "look", job[r].i + 1) /\ job[r].i # 2
        /\ old' = old /\ more' = more /\ image' = image /\ build' = build
        /\ extension' = extension /\ staged' = staged /\ moved' = moved /\ mode' = mode
    BY <1>1, TheTwo DEF U!FinishSwap, U!folders
  <1>3. /\ job' \in [Processes -> JobSet] /\ job'[r].at \in {"look", "extension"} /\ job'[r].at \notin Updating
        /\ job[r].at \in U!Cleaning /\ \A s \in Processes \ {r} : job'[s] = job[s]
    <2>1. /\ {"look", "extension"} \subseteq U!Idle \cup Updating /\ {"look", "extension"} \cap Updating = {}
          /\ "look" \in U!Cleaning
      BY DEF Updating, Preparing, Swapping, Undoing, Extending, U!Idle, U!Cleaning
    <2>2. job[r].i \in {1, 2} BY DEF TypedUpdate, JobSet
    <2>3. CASE U!Turn(r, "extension", 1) BY <1>2, <2>1, <2>3, JobTurnsOn
    <2>4. CASE U!Turn(r, "look", job[r].i + 1) /\ job[r].i # 2
      <3>1. job[r].i + 1 = 2 BY <2>2, <2>4
      <3>2. U!Turn(r, "look", 2) BY <2>4, <3>1 DEF U!Turn
      <3> QED BY <1>2, <2>1, <3>2, JobTurnsOn
    <2> QED BY <1>2, <2>3, <2>4
  <1>4. TypedUpdate'
    BY <1>2, <1>3 DEF TypedUpdate, U!File
  <1>5. mode = "cutOff" => ~\E s \in Processes : job[s].at \in Updating BY <1>3, AloneUpdates
  <1>6. Apart' BY <1>2, <1>3, ApartKept
  <1>7. \A q \in Own : exe[q] # None => exe'[q] = exe[q] BY <1>2 DEF TypedUpdate
  <1>8. \A q \in Own : new'[q] \in {new[q], None} BY <1>2 DEF TypedUpdate
  <1>9. Whole'
    <2>1. \A q \in Own :
           /\ exe'[q] # Torn /\ (new'[q] = Torn => exe'[q] # None)
           /\ exe'[q] = None => exe[q] = None /\ new'[q] = new[q]
      BY <1>2, <1>7, <1>8 DEF TypedUpdate, Whole, Installed
    <2>2. job[r].at \notin Updating BY <1>2 DEF Updating, Preparing, Swapping, Undoing, Extending
    <2>3. \A q \in Own : exe'[q] = None /\ mode = "cutOff" => new'[q] \in U!Releases BY <2>1 DEF Whole
    <2> QED BY <1>2, <1>3, <2>1, <2>2, <2>3, WholeKept
  <1>10. Seen' BY <1>2, <1>3, <1>7, SeenKept DEF Installed, TypedUpdate
  <1>11. Extended' BY <1>2, <1>3, ExtendedKept DEF Extended
  <1>12. InOrderUpdate' BY <1>2, <1>3, <1>5, <1>7, <1>8, OthersInOrder
  <1> QED BY <1>4, <1>6, <1>9, <1>10, <1>11, <1>12

LEMMA PutBackExtensionKeeps == ASSUME Installed, UpdateInv, NEW r \in Processes, U!PutBackExtension(r) PROVE UpdateInv'
  <1> USE DEF UpdateInv
  <1>1. /\ job[r].at = "extension" /\ U!Job(r, "list")
        /\ exe' = exe /\ new' = new /\ old' = old /\ more' = more /\ image' = image /\ build' = build /\ staged' = staged /\ mode' = mode
    BY DEF U!PutBackExtension, U!programs
  <1>2. \/ extension = None /\ moved # <<>> /\ extension' = moved[Len(moved)] /\ moved' = SubSeq(moved, 1, Len(moved) - 1)
        \/ extension' = extension /\ moved' = moved
    BY DEF U!PutBackExtension, U!Restored, U!Last, U!Front
  <1>3. /\ job' \in [Processes -> JobSet] /\ job'[r].at = "list" /\ job'[r].at \notin Updating /\ job[r].at \notin Updating
        /\ job[r].at \in U!Cleaning /\ \A s \in Processes \ {r} : job'[s] = job[s]
    <2>1. "list" \in U!Idle \cup Updating /\ {"list", "extension"} \cap Updating = {} /\ "extension" \in U!Cleaning
      BY DEF Updating, Preparing, Swapping, Undoing, Extending, U!Idle, U!Cleaning
    <2> QED BY <1>1, <2>1, JobTurns
  <1>4. extension' \in U!File /\ moved' \in Seq(U!Releases \cup {Torn}) /\ extension' # Torn /\ (extension # None => extension' = extension)
        /\ (extension' = None => extension = None /\ moved' = moved)
    <2>1. CASE extension = None /\ moved # <<>> /\ extension' = moved[Len(moved)] /\ moved' = SubSeq(moved, 1, Len(moved) - 1)
      <3>1. moved[Len(moved)] \in U!Releases BY <2>1 DEF Extended
      <3>2. SubSeq(moved, 1, Len(moved) - 1) \in Seq(U!Releases \cup {Torn}) BY <2>1, SubSeqProperties DEF TypedUpdate
      <3> QED BY <2>1, <3>1, <3>2 DEF U!File, Installed
    <2>2. CASE extension' = extension /\ moved' = moved BY <2>2 DEF TypedUpdate, Extended
    <2> QED BY <1>2, <2>1, <2>2
  <1>5. TypedUpdate'
    BY <1>1, <1>3, <1>4 DEF TypedUpdate
  <1>6. Apart' BY <1>1, <1>3, ApartKept
  <1>7. Whole' BY <1>1, <1>3, WholeKept DEF Whole
  <1>8. Seen' BY <1>1, <1>3, <1>4, SeenKept DEF Installed, TypedUpdate
  <1>9. Extended' BY <1>1, <1>3, <1>4 DEF Extended, U!Releases
  <1>10. InOrderUpdate' BY <1>1, <1>3, OthersInOrder
  <1> QED BY <1>5, <1>6, <1>7, <1>8, <1>9, <1>10

LEMMA ListKeeps == ASSUME Installed, UpdateInv, NEW r \in Processes, U!List(r) PROVE UpdateInv'
  <1> USE DEF UpdateInv
  <1>1. /\ job[r].at = "list"
        /\ exe' = exe /\ new' = new /\ old' = old /\ more' = more /\ image' = image /\ build' = build
        /\ extension' = extension /\ staged' = staged /\ moved' = moved /\ mode' = mode
    BY DEF U!List, U!programs, U!folders
  <1>2. U!ToClear \subseteq Own \cup {"extension"} BY TheTwo DEF U!ToClear
  <1>3. /\ job' \in [Processes -> JobSet] /\ \A s \in Processes \ {r} : job'[s] = job[s]
        /\ job'[r].at = "clear" /\ job'[r].todo = U!ToClear
    <2> DEFINE j == [job[r] EXCEPT !.at = "clear", !.todo = U!ToClear]
    <2>1. job[r] \in JobSet /\ job' = [job EXCEPT ![r] = j] BY DEF U!List, TypedUpdate
    <2>2. "clear" \in U!Idle \cup Updating BY DEF U!Idle, U!Cleaning
    <2>3. j \in JobSet /\ j.at = "clear" /\ j.todo = U!ToClear BY <1>2, <2>1, <2>2 DEF JobSet
    <2> HIDE DEF j
    <2> QED BY <2>1, <2>3, JobsTyped DEF TypedUpdate
  <1>4. "clear" \notin Updating /\ "list" \notin Updating /\ "list" \in U!Cleaning
    BY DEF Updating, Preparing, Swapping, Undoing, Extending, U!Cleaning
  <1>5. TypedUpdate' BY <1>1, <1>3 DEF TypedUpdate
  <1>6. Apart' BY <1>1, <1>3, <1>4, ApartKept
  <1>7. Whole' BY <1>1, <1>3, <1>4, WholeKept DEF Whole
  <1>8. Seen'
    <2>1. (\A p \in Own : p \in U!ToClear => exe[p] # None) /\ ("extension" \in U!ToClear => extension # None)
      BY TheTwo DEF U!ToClear, Own
    <2> QED BY <1>1, <1>3, <2>1 DEF Seen
  <1>9. Extended' BY <1>1, <1>3, ExtendedKept DEF Extended
  <1>10. InOrderUpdate' BY <1>1, <1>3, <1>4, OthersInOrder
  <1> QED BY <1>5, <1>6, <1>7, <1>8, <1>9, <1>10

(* A program is cleared by who saw that it is there: it still is. *)
LEMMA CrossedOff ==
  ASSUME TypedUpdate, NEW r \in Processes, NEW p \in Own \cup {"extension"}, job[r].at = "clear",
         job' = [job EXCEPT ![r].todo = @ \ {p}]
  PROVE  /\ job' \in [Processes -> JobSet] /\ \A s \in Processes \ {r} : job'[s] = job[s]
         /\ job'[r].at = "clear" /\ job'[r].todo \subseteq job[r].todo /\ "clear" \notin Updating /\ "clear" \in U!Cleaning
  <1> DEFINE j == [job[r] EXCEPT !.todo = @ \ {p}]
  <1>1. job[r] \in JobSet /\ job' = [job EXCEPT ![r] = j] BY DEF TypedUpdate
  <1>2. j \in JobSet /\ j.at = "clear" /\ j.todo \subseteq job[r].todo BY <1>1 DEF JobSet
  <1>3. "clear" \notin Updating /\ "clear" \in U!Cleaning
    BY DEF Updating, Preparing, Swapping, Undoing, Extending, U!Cleaning
  <1> HIDE DEF j
  <1> QED BY <1>1, <1>2, <1>3, JobsTyped DEF TypedUpdate

LEMMA ClearProgramKeeps == ASSUME Installed, UpdateInv, NEW r \in Processes, U!ClearProgram(r) PROVE UpdateInv'
  <1> USE DEF UpdateInv
  <1>1. /\ job[r].at = "clear" /\ job[r].todo \subseteq Own \cup {"extension"}
        /\ exe' = exe /\ image' = image /\ build' = build
        /\ extension' = extension /\ staged' = staged /\ moved' = moved /\ mode' = mode
    BY DEF U!ClearProgram, U!folders, TypedUpdate, JobSet
  <1>p. PICK p \in job[r].todo \ {"extension"} :
          /\ job' = [job EXCEPT ![r].todo = @ \ {p}]
          /\ new' = [new EXCEPT ![p] = None]
          /\ old' = IF U!InUse(p, "old") THEN old ELSE [old EXCEPT ![p] = None]
          /\ more' = [more EXCEPT ![p] = @ \ U!Unused(p)]
    BY DEF U!ClearProgram
  <1>2. p \in Own /\ exe[p] # None BY <1>1, <1>p DEF Seen
  <1>3. /\ job' \in [Processes -> JobSet] /\ \A s \in Processes \ {r} : job'[s] = job[s]
        /\ job'[r].at = "clear" /\ job'[r].todo \subseteq job[r].todo /\ "clear" \notin Updating /\ "clear" \in U!Cleaning
    BY <1>1, <1>2, <1>p, CrossedOff
  <1>4. /\ new' \in [Own -> U!File] /\ old' \in [Own -> U!File] /\ more' \in [Own -> SUBSET U!Releases]
        /\ \A q \in Own : new'[q] \in {new[q], None} /\ (exe[q] = None => new'[q] = new[q] /\ old'[q] = old[q] /\ more'[q] = more[q])
    BY <1>2, <1>p DEF TypedUpdate, U!File
  <1>5. TypedUpdate' BY <1>1, <1>3, <1>4 DEF TypedUpdate
  <1>6. Apart' BY <1>1, <1>3, ApartKept
  <1>7. Whole' BY <1>1, <1>3, <1>4, WholeKept DEF Whole, Installed
  <1>8. Seen' BY <1>1, <1>3, SeenKept DEF Installed
  <1>9. Extended' BY <1>1, <1>3, ExtendedKept DEF Extended
  <1>10. mode = "cutOff" => ~\E s \in Processes : job[s].at \in Updating BY <1>1, <1>3, AloneUpdates
  <1>11. InOrderUpdate' BY <1>1, <1>3, <1>4, <1>10, OthersInOrder
  <1> QED BY <1>5, <1>6, <1>7, <1>8, <1>9, <1>11

LEMMA ClearExtensionKeeps == ASSUME Installed, UpdateInv, NEW r \in Processes, U!ClearExtension(r) PROVE UpdateInv'
  <1> USE DEF UpdateInv
  <1>1. /\ job[r].at = "clear" /\ "extension" \in job[r].todo /\ staged' = None
        /\ job' = [job EXCEPT ![r].todo = @ \ {"extension"}]
        /\ exe' = exe /\ new' = new /\ old' = old /\ more' = more
        /\ image' = image /\ build' = build /\ extension' = extension /\ mode' = mode
    BY DEF U!ClearExtension, U!programs
  <1>2. extension # None BY <1>1 DEF Seen
  <1>3. /\ job' \in [Processes -> JobSet] /\ \A s \in Processes \ {r} : job'[s] = job[s]
        /\ job'[r].at = "clear" /\ job'[r].todo \subseteq job[r].todo /\ "clear" \notin Updating /\ "clear" \in U!Cleaning
    BY <1>1, CrossedOff
  <1>4. moved' \in Seq(U!Releases \cup {Torn})
    <2>1. moved' = <<>> \/ moved' = [i \in 1 .. Len(moved) |-> Torn] BY DEF U!ClearExtension, TypedUpdate
    <2>2. Len(moved) \in Nat BY DEF TypedUpdate
    <2>3. [i \in 1 .. Len(moved) |-> Torn] \in Seq(U!Releases \cup {Torn}) BY <2>2, IsASeq
    <2>4. <<>> \in Seq(U!Releases \cup {Torn}) OBVIOUS
    <2> QED BY <2>1, <2>3, <2>4, Zenon
  <1>5. TypedUpdate' BY <1>1, <1>3, <1>4 DEF TypedUpdate, U!File
  <1>6. Apart' BY <1>1, <1>3, ApartKept
  <1>7. Whole' BY <1>1, <1>3, WholeKept DEF Whole
  <1>8. Seen' BY <1>1, <1>3, SeenKept DEF Installed
  <1>9. Extended' BY <1>1, <1>2, <1>3 DEF Extended, Installed
  <1>10. InOrderUpdate' BY <1>1, <1>3, OthersInOrder
  <1> QED BY <1>5, <1>6, <1>7, <1>8, <1>9, <1>10

LEMMA ClearedKeeps == ASSUME Installed, UpdateInv, NEW r \in Processes, U!Cleared(r) PROVE UpdateInv'
  <1> USE DEF UpdateInv
  <1>1. /\ job[r].at = "clear" /\ U!Job(r, "runs")
        /\ exe' = exe /\ new' = new /\ old' = old /\ more' = more /\ image' = image /\ build' = build
        /\ extension' = extension /\ staged' = staged /\ moved' = moved /\ mode' = mode
    BY DEF U!Cleared, U!programs, U!folders
  <1>2. "runs" \in U!Idle \cup Updating /\ {"runs", "clear"} \cap Updating = {} /\ "runs" \notin U!Cleaning
    BY DEF Updating, Preparing, Swapping, Undoing, Extending, U!Idle, U!Cleaning
  <1>3. /\ job' \in [Processes -> JobSet] /\ \A s \in Processes \ {r} : job'[s] = job[s]
        /\ job'[r].at = "runs"
    BY <1>1, <1>2, JobTurns
  <1>5. TypedUpdate' BY <1>1, <1>3 DEF TypedUpdate
  <1>6. Apart' BY <1>1, <1>2, <1>3, ApartKept
  <1>7. Whole' BY <1>1, <1>2, <1>3, WholeKept DEF Whole
  <1>8. Seen' BY <1>1, <1>3, SeenKept DEF Installed
  <1>9. Extended' BY <1>1, <1>3, ExtendedKept DEF Extended
  <1>10. InOrderUpdate' BY <1>1, <1>2, <1>3, OthersInOrder
  <1> QED BY <1>5, <1>6, <1>7, <1>8, <1>9, <1>10

LEMMA EndsKeeps ==
  ASSUME Installed, UpdateInv, NEW r \in Processes, U!Ends(r), UNCHANGED <<U!programs, U!folders, build, mode>>,
         mode = "cutOff" \/ job[r].at \notin Updating
  PROVE  UpdateInv'
  <1> USE DEF UpdateInv
  <1>1. /\ job' = [job EXCEPT ![r] = U!Off] /\ image' = [image EXCEPT ![r] = "none"]
        /\ exe' = exe /\ new' = new /\ old' = old /\ more' = more /\ build' = build
        /\ extension' = extension /\ staged' = staged /\ moved' = moved /\ mode' = mode
    BY DEF U!Ends, U!programs, U!folders
  <1>2. U!Off.at = "off" /\ "off" \notin Updating /\ "off" \notin U!Cleaning
    BY DEF Updating, Preparing, Swapping, Undoing, Extending, U!Off, U!Cleaning
  <1>3. /\ job' \in [Processes -> JobSet] /\ \A s \in Processes \ {r} : job'[s] = job[s]
        /\ job'[r].at = "off"
    BY <1>1, <1>2, OffTyped, JobsTyped DEF TypedUpdate
  <1>4. \A s \in Processes : image'[s] = "exe" => image[s] = "exe" BY <1>1 DEF TypedUpdate
  <1>5. TypedUpdate' BY <1>1, <1>3 DEF TypedUpdate
  <1>6. Apart' BY <1>1, <1>2, <1>3, ApartKept
  <1>7. Whole' BY <1>1, <1>2, <1>3, WholeKept DEF Whole
  <1>8. Seen' BY <1>1, <1>3, <1>4, SeenKept DEF Installed
  <1>9. Extended' BY <1>1, <1>3, ExtendedKept DEF Extended
  <1>10. InOrderUpdate' BY <1>1, <1>2, <1>3, <1>4, OthersInOrder
  <1> QED BY <1>5, <1>6, <1>7, <1>8, <1>9, <1>10

LEMMA ExitKeeps == ASSUME Installed, UpdateInv, NEW r \in Processes, U!Exit(r) PROVE UpdateInv'
  BY EndsKeeps DEF U!Exit, Updating, Preparing, Swapping, Undoing, Extending

LEMMA CutOffKeeps == ASSUME Installed, UpdateInv, NEW r \in Processes, U!CutOff(r) PROVE UpdateInv'
  BY EndsKeeps DEF U!CutOff

-----------------------------------------------------------------------------
(* What an update does keeps it in order. *)
LEMMA InstallInOrder ==
  ASSUME Installed, NEW x \in [Own -> U!File], NEW n, NEW o, NEW m, NEW im, NEW md, NEW p \in Own, NEW j \in JobSet,
         j.at = "write", j.i = 1, j.to \in U!Releases, j.aside = <<>>, j.before = x,
         j.targets \in {<<p>>, <<p, U!Other(p)>>}, \A k \in DOMAIN j.targets : x[j.targets[k]] # None
  PROVE  InOrderJob(j, x, n, o, m, im, md)
  <1>1. p # U!Other(p) BY DEF U!Other, Own
  <1>2. Shaped(j) BY <1>1 DEF Shaped, Preparing, Swapping
  <1>3. Present(j, x, o, m) BY DEF Present
  <1>4. Prepared(j, n, md) BY <1>2 DEF Prepared, Swapping
  <1>5. Swapped(j, x) BY DEF Swapped, Swapping, Extending
  <1>6. Restorable(j, x, o, m, im, md) BY DEF Restorable
  <1> QED BY <1>2, <1>3, <1>4, <1>5, <1>6 DEF InOrderJob

LEMMA CreateInOrder ==
  ASSUME Installed, NEW x, NEW n \in [Own -> U!File], NEW o, NEW m, NEW im, NEW md, NEW j \in JobSet,
         InOrderJob(j, x, n, o, m, im, md), j.at = "write"
  PROVE  InOrderJob([j EXCEPT !.at = "writing"], x, [n EXCEPT ![j.targets[j.i]] = Torn], o, m, im, md)
  <1> DEFINE j1 == [j EXCEPT !.at = "writing"]
             n1 == [n EXCEPT ![j.targets[j.i]] = Torn]
  <1>1. /\ j1.at = "writing" /\ j1.i = j.i /\ j1.to = j.to /\ j1.targets = j.targets /\ j1.aside = j.aside /\ j1.before = j.before
        /\ \A k \in DOMAIN j.targets : j.targets[k] \in Own
    BY DEF JobSet
  <1>2. Shaped(j) /\ Present(j, x, o, m) /\ Prepared(j, n, md) /\ Restorable(j, x, o, m, im, md) BY DEF InOrderJob
  <1>u. {"write", "writing"} \subseteq Updating /\ {"write", "writing"} \subseteq Preparing BY DEF Updating, Preparing
  <1>3. j.i \in DOMAIN j.targets /\ j.i \in Nat BY <1>2, <1>u DEF Shaped, JobSet
  <1>4. \A k \in DOMAIN j.targets : k # j.i => n1[j.targets[k]] = n[j.targets[k]]
    BY <1>1, <1>2, <1>3, <1>u DEF Shaped
  <1>5. n1[j.targets[j.i]] = Torn BY <1>1, <1>3
  <1> HIDE DEF j1, n1
  <1>6. Shaped(j1) BY <1>1, <1>2, <1>u DEF Shaped, Preparing, Swapping
  <1>7. Present(j1, x, o, m) BY <1>1, <1>2, <1>u DEF Present
  <1>8. Prepared(j1, n1, md)
    <2>1. \A k \in DOMAIN j.targets : k < j.i => Wrote(n1[j.targets[k]], j1, md)
      <3> SUFFICES ASSUME NEW k \in DOMAIN j.targets, k < j.i PROVE Wrote(n1[j.targets[k]], j1, md) OBVIOUS
      <3>1. Wrote(n[j.targets[k]], j, md) BY <1>2 DEF Prepared
      <3>2. k # j.i BY <1>3
      <3> QED BY <1>1, <1>4, <3>1, <3>2 DEF Wrote
    <2> QED BY <1>1, <1>5, <2>1 DEF Prepared, Installed, Swapping
  <1>9. Swapped(j1, x) BY <1>1 DEF Swapped, Swapping, Extending
  <1>10. Restorable(j1, x, o, m, im, md) BY <1>1, <1>2, <1>u DEF Restorable
  <1> QED BY <1>6, <1>7, <1>8, <1>9, <1>10 DEF InOrderJob, j1, n1

(* A job of which only the phase and the place change, and nothing on the disk. *)
LEMMA WriteInOrder ==
  ASSUME Installed, NEW x, NEW n \in [Own -> U!File], NEW n1 \in [Own -> U!File], NEW o, NEW m, NEW im, NEW md,
         NEW j \in JobSet, NEW j1 \in JobSet,
         InOrderJob(j, x, n, o, m, im, md), j.at = "writing",
         n1 = IF n[j.targets[j.i]] = None THEN n ELSE [n EXCEPT ![j.targets[j.i]] = j.to],
         \/ j.i = Len(j.targets) /\ \E a \in {"unpack", "name"} : j1 = [j EXCEPT !.at = a, !.i = 1]
         \/ j.i # Len(j.targets) /\ j1 = [j EXCEPT !.at = "write", !.i = j.i + 1],
         md \in {"cutOff", "beside"}
  PROVE  InOrderJob(j1, x, n1, o, m, im, md)
  <1>1. /\ j1.to = j.to /\ j1.targets = j.targets /\ j1.aside = j.aside /\ j1.before = j.before
        /\ \/ j1.at \in {"unpack", "name"} /\ j1.i = 1 /\ j.i = Len(j.targets)
           \/ j1.at = "write" /\ j1.i = j.i + 1 /\ j.i # Len(j.targets)
        /\ \A k \in DOMAIN j.targets : j.targets[k] \in Own
    <2>1. \A k \in DOMAIN j.targets : j.targets[k] \in Own BY DEF JobSet
    <2>2. CASE j.i = Len(j.targets) /\ \E a \in {"unpack", "name"} : j1 = [j EXCEPT !.at = a, !.i = 1]
      <3>1. PICK a \in {"unpack", "name"} : j1 = [j EXCEPT !.at = a, !.i = 1] BY <2>2
      <3>2. j1.at = a /\ j1.i = 1 /\ j1.to = j.to /\ j1.targets = j.targets /\ j1.aside = j.aside /\ j1.before = j.before
        BY <3>1 DEF JobSet
      <3> QED BY <2>1, <2>2, <3>2
    <2>3. CASE j.i # Len(j.targets) /\ j1 = [j EXCEPT !.at = "write", !.i = j.i + 1]
      <3> DEFINE i1 == j.i + 1
      <3>1. j1 = [j EXCEPT !.at = "write", !.i = i1] BY <2>3
      <3> HIDE DEF i1
      <3>2. j1.at = "write" /\ j1.i = i1 /\ j1.to = j.to /\ j1.targets = j.targets /\ j1.aside = j.aside /\ j1.before = j.before
        BY <3>1 DEF JobSet
      <3> QED BY <2>1, <2>3, <3>2 DEF i1
    <2> QED BY <2>2, <2>3
  <1>2. Shaped(j) /\ Present(j, x, o, m) /\ Prepared(j, n, md) /\ Restorable(j, x, o, m, im, md) BY DEF InOrderJob
  <1>u. {"write", "writing", "unpack", "name"} \subseteq Updating /\ {"write", "writing", "unpack"} \subseteq Preparing
    BY DEF Updating, Preparing, Swapping
  <1>3. j.i \in DOMAIN j.targets /\ j.i \in Nat /\ j.to \in U!Releases /\ j.aside = <<>> BY <1>2, <1>u DEF Shaped, JobSet
  <1>4. Len(j.targets) \in Nat /\ DOMAIN j.targets = 1 .. Len(j.targets) BY DEF JobSet
  <1>5. \A k \in DOMAIN j.targets : k <= j.i => Wrote(n1[j.targets[k]], j1, md)
    <2> SUFFICES ASSUME NEW k \in DOMAIN j.targets, k <= j.i PROVE Wrote(n1[j.targets[k]], j1, md) OBVIOUS
    <2>1. CASE k = j.i
      <3>1. md = "cutOff" => n[j.targets[j.i]] # None BY <1>2 DEF Prepared
      <3>2. n1[j.targets[j.i]] = IF n[j.targets[j.i]] = None THEN None ELSE j.to BY <1>1, <1>3
      <3> QED BY <1>1, <2>1, <3>1, <3>2 DEF Wrote
    <2>2. CASE k < j.i
      <3>1. Wrote(n[j.targets[k]], j, md) BY <1>2, <2>2 DEF Prepared
      <3>2. j.targets[k] # j.targets[j.i] BY <1>2, <1>3, <1>u, <2>2 DEF Shaped
      <3>3. n1[j.targets[k]] = n[j.targets[k]] BY <1>1, <1>3, <3>2
      <3> QED BY <1>1, <3>1, <3>3 DEF Wrote
    <2> QED BY <1>3, <1>4, <2>1, <2>2
  <1>6. Shaped(j1)
    <2>1. j1.i \in DOMAIN j1.targets BY <1>1, <1>3, <1>4
    <2>2. j.aside = <<>> /\ Len(<<>>) = 0 BY <1>3
    <2> QED BY <1>1, <1>2, <1>3, <1>4, <1>u, <2>1, <2>2 DEF Shaped, Preparing, Swapping
  <1>7. Present(j1, x, o, m) BY <1>1, <1>2, <1>u DEF Present
  <1>8. Prepared(j1, n1, md)
    <2>1. CASE j1.at = "write" BY <1>1, <1>3, <1>4, <1>5, <2>1 DEF Prepared, Swapping
    <2>2. CASE j1.at \in {"unpack", "name"} BY <1>1, <1>3, <1>4, <1>5, <2>2 DEF Prepared, Swapping
    <2> QED BY <1>1, <2>1, <2>2
  <1>9. Swapped(j1, x) BY <1>1, <1>4 DEF Swapped, Swapping, Extending
  <1>10. Restorable(j1, x, o, m, im, md) BY <1>1, <1>2, <1>u DEF Restorable
  <1> QED BY <1>6, <1>7, <1>8, <1>9, <1>10 DEF InOrderJob

LEMMA UnpackInOrder ==
  ASSUME Installed, NEW x, NEW n, NEW o, NEW m, NEW im, NEW md, NEW j \in JobSet,
         InOrderJob(j, x, n, o, m, im, md), j.at = "unpack", j.i = 1, j.targets # <<>>
  PROVE  InOrderJob([j EXCEPT !.at = "name"], x, n, o, m, im, md)
  <1> DEFINE j1 == [j EXCEPT !.at = "name"]
  <1>1. /\ j1.at = "name" /\ j1.i = j.i /\ j1.to = j.to /\ j1.targets = j.targets /\ j1.aside = j.aside /\ j1.before = j.before
        /\ Len(j.targets) \in Nat /\ DOMAIN j.targets = 1 .. Len(j.targets) /\ Len(j.targets) > 0
    BY DEF JobSet
  <1> HIDE DEF j1
  <1>2. Shaped(j) /\ Present(j, x, o, m) /\ Prepared(j, n, md) /\ Restorable(j, x, o, m, im, md) BY DEF InOrderJob
  <1>u. {"unpack", "name"} \subseteq Updating /\ "unpack" \in Preparing BY DEF Updating, Preparing, Swapping
  <1>3. j.aside = <<>> /\ Len(<<>>) = 0 BY <1>2, <1>u DEF Shaped
  <1>6. Shaped(j1) BY <1>1, <1>2, <1>3, <1>u DEF Shaped, Preparing
  <1>7. Present(j1, x, o, m) BY <1>1, <1>2, <1>u DEF Present
  <1>8. Prepared(j1, n, md) BY <1>1, <1>2 DEF Prepared, Wrote
  <1>9. Swapped(j1, x) BY <1>1 DEF Swapped, Extending
  <1>10. Restorable(j1, x, o, m, im, md) BY <1>1, <1>2, <1>u DEF Restorable
  <1> QED BY <1>6, <1>7, <1>8, <1>9, <1>10 DEF InOrderJob, j1

LEMMA TurnsBackInOrder ==
  ASSUME NEW x, NEW n, NEW o, NEW m, NEW im, NEW md, NEW j \in JobSet, NEW a,
         InOrderJob(j, x, n, o, m, im, md),
         \/ j.at \in Preparing /\ a = "tidy"
         \/ j.at \in {"aside", "in"} /\ a = "back"
         \/ j.at = "back" /\ j.aside = <<>> /\ a = "tidy"
  PROVE  InOrderJob([j EXCEPT !.at = a], x, n, o, m, im, md)
  <1> DEFINE j1 == [j EXCEPT !.at = a]
  <1>1. /\ j1.at = a /\ j1.to = j.to /\ j1.targets = j.targets /\ j1.aside = j.aside /\ j1.before = j.before
        /\ Len(<<>>) = 0 /\ DOMAIN <<>> = {}
    BY DEF JobSet
  <1> HIDE DEF j1
  <1>2. Shaped(j) /\ Present(j, x, o, m) /\ Restorable(j, x, o, m, im, md) BY DEF InOrderJob
  <1>3. {"aside", "in", "back", "tidy"} \subseteq Updating /\ Preparing \subseteq Updating BY DEF Updating, Swapping, Undoing
  <1>4. a \in {"back", "tidy"} OBVIOUS
  <1>5. Shaped(j1) BY <1>1, <1>2, <1>3, <1>4 DEF Shaped, Preparing, Swapping
  <1>6. Present(j1, x, o, m) BY <1>1, <1>2, <1>3, <1>4 DEF Present, Preparing
  <1>7. Prepared(j1, n, md) BY <1>1, <1>4 DEF Prepared, Swapping
  <1>8. Swapped(j1, x) BY <1>1, <1>4 DEF Swapped, Swapping, Extending
  <1>9. Restorable(j1, x, o, m, im, md) BY <1>1, <1>2, <1>4 DEF Restorable, Preparing, Swapping, Undoing
  <1> QED BY <1>5, <1>6, <1>7, <1>8, <1>9 DEF InOrderJob, j1

LEMMA NameInOrder ==
  ASSUME NEW x, NEW n, NEW o \in [Own -> U!File], NEW o1, NEW m, NEW im, NEW md, NEW j \in JobSet, NEW s \in {"old", "more"},
         InOrderJob(j, x, n, o, m, im, md), j.at = "name", o1 \in {o, [o EXCEPT ![j.targets[j.i]] = None]}
  PROVE  InOrderJob([j EXCEPT !.at = "aside", !.slot = s], x, n, o1, m, im, md)
  <1> DEFINE j1 == [j EXCEPT !.at = "aside", !.slot = s]
  <1>1. /\ j1.at = "aside" /\ j1.i = j.i /\ j1.to = j.to /\ j1.targets = j.targets /\ j1.aside = j.aside /\ j1.before = j.before
        /\ \A k \in DOMAIN j.targets : j.targets[k] \in Own
        /\ Len(j.aside) \in Nat /\ DOMAIN j.aside = 1 .. Len(j.aside) /\ j.i \in Nat /\ DOMAIN j.targets = 1 .. Len(j.targets)
        /\ Len(j.targets) \in Nat
    BY DEF JobSet
  <1> HIDE DEF j1
  <1>2. Shaped(j) /\ Present(j, x, o, m) /\ Prepared(j, n, md) /\ Swapped(j, x) /\ Restorable(j, x, o, m, im, md) BY DEF InOrderJob
  <1>3. {"name", "aside"} \subseteq Updating /\ {"name", "aside"} \subseteq Swapping BY DEF Updating, Swapping
  <1>4. /\ j.i \in DOMAIN j.targets /\ Len(j.aside) = j.i - 1
        /\ \A k, l \in DOMAIN j.targets : j.targets[k] = j.targets[l] => k = l
        /\ \A k \in DOMAIN j.aside : j.aside[k][1] = j.targets[k]
    BY <1>2, <1>3 DEF Shaped
  <1>5. \A k \in DOMAIN j.aside : o1[j.aside[k][1]] = o[j.aside[k][1]]
    <2> SUFFICES ASSUME NEW k \in DOMAIN j.aside PROVE o1[j.targets[k]] = o[j.targets[k]] BY <1>4
    <2>1. k \in DOMAIN j.targets /\ k # j.i BY <1>1, <1>4
    <2>2. j.targets[k] # j.targets[j.i] BY <1>4, <2>1
    <2> QED BY <1>1, <1>4, <2>1, <2>2
  <1>6. Shaped(j1) BY <1>1, <1>2, <1>3 DEF Shaped, Preparing
  <1>7. Present(j1, x, o1, m) BY <1>1, <1>2, <1>3 DEF Present
  <1>8. Prepared(j1, n, md) BY <1>1, <1>2, <1>3 DEF Prepared, Wrote
  <1>9. Swapped(j1, x) BY <1>1, <1>2, <1>3 DEF Swapped, Extending
  <1>10. Restorable(j1, x, o1, m, im, md)
    <2>1. \A k \in DOMAIN j.aside : There(j.aside[k], o, m) => There(j.aside[k], o1, m) BY <1>5 DEF There
    <2> QED BY <1>1, <1>2, <1>3, <2>1 DEF Restorable
  <1> QED BY <1>6, <1>7, <1>8, <1>9, <1>10 DEF InOrderJob, j1

(* What an update moved aside is added to what it did, whatever lists that. *)
MovesAside(p, e, j, j1, x, o, m, im, x1, o1, m1, im1) ==
  /\ p \in Own /\ j \in JobSet /\ j1 \in JobSet /\ j.at = "aside" /\ p = j.targets[j.i]
  /\ \A q \in Own : q # p => x1[q] = x[q] /\ o1[q] = o[q] /\ m1[q] = m[q]
  /\ \A r \in Processes : im1[r] = "exe" => im[r] = "exe" /\ Runs[r] # p
  /\ j1.at = "in" /\ j1.i = j.i /\ j1.to = j.to /\ j1.targets = j.targets /\ j1.before = j.before
  /\ Len(j1.aside) = Len(j.aside) + 1 /\ j1.aside[Len(j1.aside)] = e
  /\ \A k \in DOMAIN j.aside : j1.aside[k] = j.aside[k]
  /\ There(e, o1, m1) /\ e[1] = p /\ e[3] = x[p]

LEMMA OneMoreAside ==
  ASSUME Installed, NEW x, NEW n, NEW o, NEW m, NEW im, NEW im1, NEW md, NEW x1, NEW o1, NEW m1, NEW p, NEW j, NEW j1, NEW e,
         InOrderJob(j, x, n, o, m, im, md), MovesAside(p, e, j, j1, x, o, m, im, x1, o1, m1, im1), md \in {"cutOff", "beside"}
  PROVE  InOrderJob(j1, x1, n, o1, m1, im1, md)
  <1> USE DEF MovesAside
  <1>1. /\ \A k \in DOMAIN j.targets : j.targets[k] \in Own
        /\ Len(j.aside) \in Nat /\ DOMAIN j.aside = 1 .. Len(j.aside) /\ j.i \in Nat /\ DOMAIN j.targets = 1 .. Len(j.targets)
        /\ Len(j.targets) \in Nat /\ DOMAIN j1.aside = 1 .. Len(j1.aside)
    BY DEF JobSet
  <1>2. Shaped(j) /\ Present(j, x, o, m) /\ Prepared(j, n, md) /\ Swapped(j, x) /\ Restorable(j, x, o, m, im, md) BY DEF InOrderJob
  <1>3. {"in", "aside"} \subseteq Updating /\ {"in", "aside"} \subseteq Swapping BY DEF Updating, Swapping
  <1>4. /\ j.i \in DOMAIN j.targets /\ Len(j.aside) = j.i - 1
        /\ \A k, l \in DOMAIN j.targets : j.targets[k] = j.targets[l] => k = l
        /\ \A k \in DOMAIN j.aside : j.aside[k][1] = j.targets[k]
    BY <1>2, <1>3 DEF Shaped
  <1>6. Len(j1.aside) = j.i /\ DOMAIN j1.aside = 1 .. j.i /\ j1.aside[j.i] = e BY <1>1, <1>4
  <1>8. \A k \in DOMAIN j.aside : j.aside[k][1] # p /\ j.aside[k][1] \in Own
    <2> SUFFICES ASSUME NEW k \in DOMAIN j.aside PROVE j.targets[k] # p /\ j.targets[k] \in Own BY <1>4
    <2>1. k \in DOMAIN j.targets /\ k # j.i BY <1>1, <1>4
    <2> QED BY <1>1, <1>4, <2>1
  <1>9. \A k \in DOMAIN j1.aside : k \in DOMAIN j.aside \/ k = j.i BY <1>1, <1>4, <1>6
  <1>10. Shaped(j1)
    <2>1. \A k \in DOMAIN j1.aside : j1.aside[k][1] = j.targets[k]
      <3> SUFFICES ASSUME NEW k \in DOMAIN j1.aside PROVE j1.aside[k][1] = j.targets[k] OBVIOUS
      <3>1. CASE k = j.i BY <1>6, <3>1
      <3>2. CASE k \in DOMAIN j.aside BY <1>4, <3>2
      <3> QED BY <1>9, <3>1, <3>2
    <2>2. Len(j1.aside) <= Len(j.targets) BY <1>1, <1>4, <1>6
    <2>3. j.to \in U!Releases /\ j.targets # <<>> BY <1>2, <1>3 DEF Shaped
    <2>4. "in" \notin Preparing \cup {"tidy"} BY DEF Preparing
    <2> QED BY <1>4, <1>6, <2>1, <2>2, <2>3, <2>4 DEF Shaped
  <1>11. Present(j1, x1, o1, m1)
    <2>1. \A l \in DOMAIN j.targets : l # j.i => x1[j.targets[l]] # None
      <3> SUFFICES ASSUME NEW l \in DOMAIN j.targets, l # j.i PROVE x1[j.targets[l]] # None OBVIOUS
      <3>1. j.targets[l] # p /\ j.targets[l] \in Own BY <1>1, <1>4
      <3>2. x[j.targets[l]] # None BY <1>2, <1>3 DEF Present
      <3> QED BY <3>1, <3>2
    <2>2. j.i \in DOMAIN j1.aside /\ j1.aside[j.i][1] = p /\ There(j1.aside[j.i], o1, m1) BY <1>1, <1>4, <1>6
    <2> QED BY <1>1, <2>1, <2>2 DEF Present
  <1>12. Prepared(j1, n, md) BY <1>1, <1>2, <1>3 DEF Prepared, Wrote
  <1>13. Swapped(j1, x1)
    <2> SUFFICES ASSUME NEW k \in DOMAIN j.targets, k < j.i PROVE x1[j.targets[k]] = j.to BY <1>1 DEF Swapped, Extending
    <2>1. j.targets[k] # p /\ j.targets[k] \in Own BY <1>1, <1>4
    <2>2. x[j.targets[k]] = j.to BY <1>2, <1>3 DEF Swapped
    <2> QED BY <2>1, <2>2
  <1>14. Restorable(j1, x1, o1, m1, im1, md)
    <2> SUFFICES ASSUME md = "cutOff"
                 PROVE  /\ j.before \in [Own -> U!File]
                        /\ \A q \in Own : x1[q] = j.before[q] \/ (\E k \in DOMAIN j1.aside : j1.aside[k][1] = q)
                        /\ \A k \in DOMAIN j1.aside :
                             /\ j1.aside[k][3] = j.before[j1.aside[k][1]]
                             /\ There(j1.aside[k], o1, m1)
                             /\ \A r \in Processes : ~(Runs[r] = j1.aside[k][1] /\ im1[r] = "exe")
      BY <1>1 DEF Restorable
    <2>1. /\ j.before \in [Own -> U!File]
          /\ \A q \in Own : x[q] = j.before[q] \/ (\E k \in DOMAIN j.aside : j.aside[k][1] = q)
          /\ \A k \in DOMAIN j.aside :
               /\ j.aside[k][3] = j.before[j.aside[k][1]]
               /\ There(j.aside[k], o, m)
               /\ \A r \in Processes : ~(Runs[r] = j.aside[k][1] /\ im[r] = "exe")
      BY <1>2, <1>3 DEF Restorable
    <2>2. x[p] = j.before[p] BY <1>8, <2>1
    <2>3. j.i \in DOMAIN j1.aside /\ DOMAIN j.aside \subseteq DOMAIN j1.aside BY <1>1, <1>4, <1>6
    <2>4. \A q \in Own : x1[q] = j.before[q] \/ (\E k \in DOMAIN j1.aside : j1.aside[k][1] = q)
      <3> SUFFICES ASSUME NEW q \in Own PROVE x1[q] = j.before[q] \/ (\E k \in DOMAIN j1.aside : j1.aside[k][1] = q) OBVIOUS
      <3>1. CASE q = p BY <1>6, <2>3, <3>1
      <3>2. CASE q # p
        <4>1. x1[q] = x[q] BY <3>2
        <4> QED BY <1>6, <2>1, <2>3, <4>1
      <3> QED BY <3>1, <3>2
    <2>5. \A k \in DOMAIN j.aside : There(j.aside[k], o1, m1)
      <3> SUFFICES ASSUME NEW k \in DOMAIN j.aside PROVE There(j.aside[k], o1, m1) OBVIOUS
      <3>1. o1[j.aside[k][1]] = o[j.aside[k][1]] /\ m1[j.aside[k][1]] = m[j.aside[k][1]] BY <1>8
      <3> QED BY <2>1, <3>1 DEF There
    <2>6. \A k \in DOMAIN j.aside : \A r \in Processes : ~(Runs[r] = j.aside[k][1] /\ im1[r] = "exe") BY <2>1
    <2>7. e[3] = j.before[e[1]] /\ \A r \in Processes : ~(Runs[r] = e[1] /\ im1[r] = "exe") BY <2>2
    <2>8. ASSUME NEW k \in DOMAIN j1.aside
          PROVE  /\ j1.aside[k][3] = j.before[j1.aside[k][1]]
                 /\ There(j1.aside[k], o1, m1)
                 /\ \A r \in Processes : ~(Runs[r] = j1.aside[k][1] /\ im1[r] = "exe")
      <3>1. CASE k = j.i BY <1>6, <2>7, <3>1
      <3>2. CASE k \in DOMAIN j.aside
        <4>1. j1.aside[k] = j.aside[k] BY <3>2
        <4> QED BY <2>1, <2>5, <2>6, <3>2, <4>1
      <3> QED BY <1>9, <3>1, <3>2
    <2> QED BY <2>1, <2>4, <2>8
  <1> QED BY <1>10, <1>11, <1>12, <1>13, <1>14 DEF InOrderJob

MovesIn(p, j, j1, x, n, x1, n1) ==
  /\ x \in [Own -> U!File] /\ n \in [Own -> U!File] /\ p \in Own /\ j \in JobSet /\ j1 \in JobSet
  /\ j.at = "in" /\ p = j.targets[j.i] /\ n[p] # None
  /\ x1 = [x EXCEPT ![p] = n[p]] /\ n1 = [n EXCEPT ![p] = None]
  /\ j1.to = j.to /\ j1.targets = j.targets /\ j1.aside = j.aside /\ j1.before = j.before
  /\ \/ j.i = Len(j.targets) /\ j1.at \in {"extAside", "updated"}
     \/ j.i # Len(j.targets) /\ j1.at = "name" /\ j1.i = j.i + 1

LEMMA MoveInInOrder ==
  ASSUME Installed, NEW x, NEW n, NEW o, NEW m, NEW im, NEW md, NEW x1, NEW n1, NEW p, NEW j, NEW j1,
         InOrderJob(j, x, n, o, m, im, md), MovesIn(p, j, j1, x, n, x1, n1), md \in {"cutOff", "beside"}
  PROVE  /\ InOrderJob(j1, x1, n1, o, m, im, md)
         /\ j.i = Len(j.targets) => \A k \in DOMAIN j.targets : x1[j.targets[k]] = j.to
         /\ \A k \in DOMAIN j.targets : x1[j.targets[k]] # None
         /\ n[p] = j.to
  <1> USE DEF MovesIn
  <1>1. /\ \A k \in DOMAIN j.targets : j.targets[k] \in Own
        /\ Len(j.aside) \in Nat /\ DOMAIN j.aside = 1 .. Len(j.aside) /\ j.i \in Nat /\ DOMAIN j.targets = 1 .. Len(j.targets)
        /\ Len(j.targets) \in Nat
    BY DEF JobSet
  <1>2. Shaped(j) /\ Present(j, x, o, m) /\ Prepared(j, n, md) /\ Swapped(j, x) /\ Restorable(j, x, o, m, im, md) BY DEF InOrderJob
  <1>3. {"in", "name", "extAside"} \subseteq Updating /\ {"in", "name"} \subseteq Swapping BY DEF Updating, Swapping, Extending
  <1>4. /\ j.i \in DOMAIN j.targets /\ Len(j.aside) = j.i /\ j.to \in U!Releases
        /\ \A k, l \in DOMAIN j.targets : j.targets[k] = j.targets[l] => k = l
    BY <1>2, <1>3 DEF Shaped
  <1>5. /\ x1[p] = n[p] /\ \A q \in Own : q # p => x1[q] = x[q] /\ n1[q] = n[q]
        /\ \A k \in DOMAIN j.targets : k # j.i => j.targets[k] # p
    BY <1>4
  <1>6. n[p] = j.to /\ j.to # None
    <2>1. Wrote(n[j.targets[j.i]], j, md) BY <1>1, <1>2, <1>3, <1>4 DEF Prepared
    <2> QED BY <1>4, <2>1 DEF Wrote, Installed
  <1>7. \A k \in DOMAIN j.targets : x1[j.targets[k]] # None
    <2> SUFFICES ASSUME NEW k \in DOMAIN j.targets, k # j.i PROVE x1[j.targets[k]] # None BY <1>5, <1>6
    <2>1. x[j.targets[k]] # None BY <1>2, <1>3 DEF Present
    <2> QED BY <1>1, <1>5, <2>1
  <1>8. \A k \in DOMAIN j.targets : k <= j.i => x1[j.targets[k]] = j.to
    <2> SUFFICES ASSUME NEW k \in DOMAIN j.targets, k <= j.i PROVE x1[j.targets[k]] = j.to OBVIOUS
    <2>1. CASE k = j.i BY <1>5, <1>6, <2>1
    <2>2. CASE k # j.i
      <3>1. k < j.i BY <1>1, <2>2
      <3>2. x[j.targets[k]] = j.to BY <1>2, <1>3, <3>1 DEF Swapped
      <3> QED BY <1>1, <1>5, <2>2, <3>2
    <2> QED BY <2>1, <2>2
  <1>9. j1.at = "name" => j1.i \in DOMAIN j.targets /\ j1.i = j.i + 1 BY <1>1, <1>4
  <1>10. Shaped(j1)
    <2>1. j1.at \notin Preparing \cup {"write", "writing", "aside", "in", "tidy", "unpack"} BY DEF Preparing
    <2>2. /\ j.targets # <<>> /\ Len(j.aside) <= Len(j.targets) /\ \A k \in DOMAIN j.aside : j.aside[k][1] = j.targets[k]
          /\ \A k, l \in DOMAIN j.targets : j.targets[k] = j.targets[l] => k = l
      BY <1>2, <1>3 DEF Shaped
    <2>3. j1.at \in Swapping => j1.at = "name" BY DEF Swapping
    <2>4. j1.at = "name" => Len(j.aside) = j1.i - 1 BY <1>1, <1>4, <1>9
    <2> QED BY <1>4, <1>9, <2>1, <2>2, <2>3, <2>4 DEF Shaped
  <1>11. Present(j1, x1, o, m) BY <1>7 DEF Present
  <1>12. Prepared(j1, n1, md)
    <2> SUFFICES ASSUME j1.at = "name", NEW k \in DOMAIN j.targets, k >= j1.i PROVE Wrote(n1[j.targets[k]], j1, md)
      BY DEF Prepared, Swapping
    <2>1. k >= j.i /\ k # j.i BY <1>1, <1>9
    <2>2. Wrote(n[j.targets[k]], j, md) BY <1>2, <1>3, <2>1 DEF Prepared
    <2> QED BY <1>1, <1>5, <2>1, <2>2 DEF Wrote
  <1>13. Swapped(j1, x1)
    <2>1. CASE j1.at = "name"
      <3>1. \A k \in DOMAIN j.targets : k < j1.i => k <= j.i BY <1>1, <1>9, <2>1
      <3> QED BY <1>8, <2>1, <3>1 DEF Swapped, Extending
    <2>2. CASE j1.at # "name"
      <3>1. j1.at \notin Swapping /\ j.i = Len(j.targets) BY <2>2 DEF Swapping
      <3> QED BY <1>1, <1>8, <3>1 DEF Swapped
    <2> QED BY <2>1, <2>2
  <1>14. Restorable(j1, x1, o, m, im, md)
    <2> SUFFICES ASSUME md = "cutOff", j1.at = "name" PROVE Restorable(j1, x1, o, m, im, md)
      BY DEF Restorable, Preparing, Swapping, Undoing
    <2>1. /\ j.before \in [Own -> U!File]
          /\ \A q \in Own : x[q] = j.before[q] \/ (\E k \in DOMAIN j.aside : j.aside[k][1] = q)
          /\ \A k \in DOMAIN j.aside :
               /\ j.aside[k][3] = j.before[j.aside[k][1]]
               /\ There(j.aside[k], o, m)
               /\ \A r \in Processes : ~(Runs[r] = j.aside[k][1] /\ im[r] = "exe")
      BY <1>2, <1>3 DEF Restorable
    <2>2. j.i \in DOMAIN j.aside /\ j.aside[j.i][1] = p BY <1>1, <1>2, <1>3, <1>4 DEF Shaped
    <2>3. \A q \in Own : x1[q] = j.before[q] \/ (\E k \in DOMAIN j.aside : j.aside[k][1] = q) BY <1>5, <2>1, <2>2
    <2> QED BY <2>1, <2>3 DEF Restorable
  <1>15. j.i = Len(j.targets) => \A k \in DOMAIN j.targets : x1[j.targets[k]] = j.to BY <1>1, <1>8
  <1> QED BY <1>6, <1>7, <1>10, <1>11, <1>12, <1>13, <1>14, <1>15 DEF InOrderJob

PutsBack(p, e, j, j1, x, o, m, im, x1, o1, m1, im1) ==
  /\ p \in Own /\ j \in JobSet /\ j1 \in JobSet /\ e \in MovedAside
  /\ j.at = "back" /\ j.aside # <<>> /\ e = j.aside[Len(j.aside)] /\ p = e[1]
  /\ j1.at = "back" /\ j1.to = j.to /\ j1.targets = j.targets /\ j1.before = j.before
  /\ Len(j1.aside) = Len(j.aside) - 1 /\ \A k \in DOMAIN j1.aside : j1.aside[k] = j.aside[k]
  /\ x[p] = None => \A r \in Processes : ~(Runs[r] = p /\ im[r] = "exe")
  /\ \/ /\ There(e, o, m) /\ x1[p] = e[3] /\ \A q \in Own : q # p => x1[q] = x[q] /\ o1[q] = o[q] /\ m1[q] = m[q]
        /\ \A r \in Processes : im1[r] = "exe" => im[r] = "exe" \/ Runs[r] = p
     \/ /\ ~(There(e, o, m) /\ \A r \in Processes : ~(Runs[r] = p /\ im[r] = "exe"))
        /\ x1 = x /\ o1 = o /\ m1 = m /\ im1 = im

LEMMA OneFewerAside ==
  ASSUME Installed, NEW x, NEW n, NEW o, NEW m, NEW im, NEW im1, NEW md, NEW x1, NEW o1, NEW m1, NEW p, NEW j, NEW j1, NEW e,
         InOrderJob(j, x, n, o, m, im, md), PutsBack(p, e, j, j1, x, o, m, im, x1, o1, m1, im1), md \in {"cutOff", "beside"}
  PROVE  InOrderJob(j1, x1, n, o1, m1, im1, md)
  <1> USE DEF PutsBack
  <1> DEFINE Moved == /\ There(e, o, m) /\ x1[p] = e[3] /\ \A q \in Own : q # p => x1[q] = x[q] /\ o1[q] = o[q] /\ m1[q] = m[q]
                      /\ \A r \in Processes : im1[r] = "exe" => im[r] = "exe" \/ Runs[r] = p
             Stays == /\ ~(There(e, o, m) /\ \A r \in Processes : ~(Runs[r] = p /\ im[r] = "exe"))
                      /\ x1 = x /\ o1 = o /\ m1 = m /\ im1 = im
  <1>1. /\ \A k \in DOMAIN j.targets : j.targets[k] \in Own
        /\ Len(j.aside) \in Nat /\ DOMAIN j.aside = 1 .. Len(j.aside) /\ DOMAIN j.targets = 1 .. Len(j.targets)
        /\ Len(j.targets) \in Nat /\ DOMAIN j1.aside = 1 .. Len(j1.aside) /\ Len(j.aside) > 0
        /\ e[3] \in U!Releases
    BY DEF JobSet, MovedAside
  <1>2. Shaped(j) /\ Present(j, x, o, m) /\ Restorable(j, x, o, m, im, md) BY DEF InOrderJob
  <1>3. "back" \in Updating /\ "back" \in Undoing /\ "back" \notin Preparing \cup Swapping \cup Extending
    BY DEF Updating, Undoing, Preparing, Swapping, Extending
  <1>4. /\ Len(j.aside) <= Len(j.targets) /\ \A k \in DOMAIN j.aside : j.aside[k][1] = j.targets[k]
        /\ \A k, l \in DOMAIN j.targets : j.targets[k] = j.targets[l] => k = l
        /\ j.to \in U!Releases /\ j.targets # <<>>
    BY <1>2, <1>3 DEF Shaped
  <1>5. \A k \in DOMAIN j1.aside : k \in DOMAIN j.aside /\ k # Len(j.aside) /\ j.aside[k][1] \in Own /\ j.aside[k][1] # p
    BY <1>1, <1>4
  <1>6. \A k \in DOMAIN j.aside : k \in DOMAIN j1.aside \/ k = Len(j.aside) BY <1>1
  <1>m. Moved \/ Stays OBVIOUS
  <1> HIDE DEF Moved, Stays
  <1>7. \A k \in DOMAIN j1.aside : There(j.aside[k], o, m) => There(j1.aside[k], o1, m1)
    BY <1>5, <1>m DEF Moved, Stays, There
  <1>8. Shaped(j1) BY <1>1, <1>2, <1>3, <1>4, <1>5 DEF Shaped
  <1>9. Present(j1, x1, o1, m1)
    <2> SUFFICES ASSUME NEW l \in DOMAIN j.targets
                 PROVE  x1[j.targets[l]] # None \/ (\E k \in DOMAIN j1.aside : j1.aside[k][1] = j.targets[l] /\ There(j1.aside[k], o1, m1))
      BY DEF Present
    <2>1. x[j.targets[l]] # None \/ (\E k \in DOMAIN j.aside : j.aside[k][1] = j.targets[l] /\ There(j.aside[k], o, m))
      BY <1>2, <1>3 DEF Present
    <2>2. CASE j.targets[l] = p
      <3>1. CASE Moved BY <1>1, <2>2, <3>1 DEF Moved, Installed
      <3>2. CASE Stays
        <4>1. CASE x[p] # None BY <2>2, <3>2, <4>1 DEF Stays
        <4>2. CASE x[p] = None
          <5>1. PICK k \in DOMAIN j.aside : j.aside[k][1] = p /\ There(j.aside[k], o, m) BY <2>1, <2>2, <4>2
          <5>2. k = Len(j.aside) BY <1>5, <1>6, <5>1
          <5> QED BY <3>2, <4>2, <5>1, <5>2 DEF Stays
        <4> QED BY <4>1, <4>2
      <3> QED BY <1>m, <3>1, <3>2
    <2>3. CASE j.targets[l] # p
      <3>1. x1[j.targets[l]] = x[j.targets[l]] BY <1>1, <1>m, <2>3 DEF Moved, Stays
      <3>2. ASSUME NEW k \in DOMAIN j.aside, j.aside[k][1] = j.targets[l], There(j.aside[k], o, m)
            PROVE  \E i \in DOMAIN j1.aside : j1.aside[i][1] = j.targets[l] /\ There(j1.aside[i], o1, m1)
        <4>1. k \in DOMAIN j1.aside BY <1>6, <2>3, <3>2
        <4> QED BY <1>7, <3>2, <4>1
      <3> QED BY <2>1, <3>1, <3>2
    <2> QED BY <2>2, <2>3
  <1>10. Prepared(j1, n, md) BY <1>3 DEF Prepared
  <1>11. Swapped(j1, x1) BY <1>3 DEF Swapped
  <1>12. Restorable(j1, x1, o1, m1, im1, md)
    <2> SUFFICES ASSUME md = "cutOff"
                 PROVE  /\ j.before \in [Own -> U!File]
                        /\ \A q \in Own : x1[q] = j.before[q] \/ (\E k \in DOMAIN j1.aside : j1.aside[k][1] = q)
                        /\ \A k \in DOMAIN j1.aside :
                             /\ j1.aside[k][3] = j.before[j1.aside[k][1]]
                             /\ There(j1.aside[k], o1, m1)
                             /\ \A r \in Processes : ~(Runs[r] = j1.aside[k][1] /\ im1[r] = "exe")
      BY DEF Restorable
    <2>1. /\ j.before \in [Own -> U!File]
          /\ \A q \in Own : x[q] = j.before[q] \/ (\E k \in DOMAIN j.aside : j.aside[k][1] = q)
          /\ \A k \in DOMAIN j.aside :
               /\ j.aside[k][3] = j.before[j.aside[k][1]]
               /\ There(j.aside[k], o, m)
               /\ \A r \in Processes : ~(Runs[r] = j.aside[k][1] /\ im[r] = "exe")
      BY <1>2, <1>3 DEF Restorable
    <2>2. Len(j.aside) \in DOMAIN j.aside BY <1>1
    <2>3. Moved BY <1>m, <2>1, <2>2 DEF Stays
    <2>4. x1[p] = j.before[p] BY <2>1, <2>2, <2>3 DEF Moved
    <2>5. ASSUME NEW q \in Own PROVE x1[q] = j.before[q] \/ (\E k \in DOMAIN j1.aside : j1.aside[k][1] = q)
      <3>1. CASE q = p BY <2>4, <3>1
      <3>2. CASE q # p
        <4>1. x1[q] = x[q] BY <2>3, <3>2 DEF Moved
        <4>2. ASSUME NEW k \in DOMAIN j.aside, j.aside[k][1] = q PROVE \E i \in DOMAIN j1.aside : j1.aside[i][1] = q
          <5>1. k \in DOMAIN j1.aside BY <1>6, <3>2, <4>2
          <5> QED BY <4>2, <5>1
        <4> QED BY <2>1, <4>1, <4>2
      <3> QED BY <3>1, <3>2
    <2>6. ASSUME NEW k \in DOMAIN j1.aside
          PROVE  /\ j1.aside[k][3] = j.before[j1.aside[k][1]]
                 /\ There(j1.aside[k], o1, m1)
                 /\ \A r \in Processes : ~(Runs[r] = j1.aside[k][1] /\ im1[r] = "exe")
      <3>1. k \in DOMAIN j.aside /\ j1.aside[k] = j.aside[k] /\ j.aside[k][1] # p BY <1>5
      <3> QED BY <1>7, <2>1, <2>3, <3>1 DEF Moved
    <2> QED BY <2>1, <2>5, <2>6
  <1> QED BY <1>8, <1>9, <1>10, <1>11, <1>12 DEF InOrderJob

(* The extension comes when all programs are in place: the job is at its end. *)
LEMMA ExtensionInOrder ==
  ASSUME NEW x, NEW n, NEW o, NEW m, NEW im, NEW md, NEW j \in JobSet, NEW a \in Extending,
         InOrderJob(j, x, n, o, m, im, md), j.at \in Extending
  PROVE  InOrderJob([j EXCEPT !.at = a], x, n, o, m, im, md)
  <1> DEFINE j1 == [j EXCEPT !.at = a]
  <1>1. /\ j1.at = a /\ j1.i = j.i /\ j1.to = j.to /\ j1.targets = j.targets /\ j1.aside = j.aside /\ j1.before = j.before
    BY DEF JobSet
  <1> HIDE DEF j1
  <1>2. Shaped(j) /\ Present(j, x, o, m) /\ Swapped(j, x) BY DEF InOrderJob
  <1>3. Extending \subseteq Updating BY DEF Updating
  <1>4. \A b \in Extending : b \notin Swapping \cup Preparing \cup Undoing \cup {"write", "writing", "unpack", "tidy", "name", "aside", "in", "back"}
    BY DEF Extending, Swapping, Preparing, Undoing
  <1>5. Shaped(j1) BY <1>1, <1>2, <1>3, <1>4 DEF Shaped
  <1>6. Present(j1, x, o, m) BY <1>1, <1>2, <1>3, <1>4 DEF Present
  <1>7. Prepared(j1, n, md) /\ Restorable(j1, x, o, m, im, md) BY <1>1, <1>4 DEF Prepared, Restorable
  <1>8. Swapped(j1, x) BY <1>1, <1>2, <1>4 DEF Swapped
  <1> QED BY <1>5, <1>6, <1>7, <1>8 DEF InOrderJob, j1

-----------------------------------------------------------------------------
(* Each step of an update keeps all. *)
LEMMA PhaseNames ==
  /\ {"write", "writing", "unpack", "name", "aside", "in", "back", "tidy", "extAside", "extIn", "extOld"} \subseteq Updating
  /\ {"write", "writing", "unpack"} \subseteq Preparing /\ {"name", "aside", "in"} \subseteq Swapping
  /\ {"extAside", "extIn", "extOld"} \subseteq Extending
  /\ {"runs", "updated"} \subseteq U!Idle /\ {"runs", "updated"} \cap (Updating \cup U!Cleaning) = {}
  /\ U!Cleaning \cap Updating = {} /\ "clear" \in U!Cleaning
  BY DEF Updating, Preparing, Swapping, Undoing, Extending, U!Idle, U!Cleaning

(* Which program an update is at. *)
LEMMA TargetIsOwn ==
  ASSUME TypedUpdate, InOrderUpdate, NEW r \in Processes, job[r].at \in {"write", "writing"} \cup Swapping
  PROVE  /\ job[r].i \in DOMAIN job[r].targets /\ U!Target(r) = job[r].targets[job[r].i] /\ U!Target(r) \in Own
         /\ job[r].to \in U!Releases
  <1>1. Shaped(job[r]) /\ job[r] \in JobSet BY DEF InOrderUpdate, InOrderJob, TypedUpdate
  <1>2. job[r].at \in Updating BY PhaseNames DEF Updating
  <1>3. job[r].i \in DOMAIN job[r].targets /\ job[r].to \in U!Releases BY <1>1, <1>2 DEF Shaped
  <1>4. \A k \in DOMAIN job[r].targets : job[r].targets[k] \in Own BY <1>1 DEF JobSet
  <1> QED BY <1>3, <1>4 DEF U!Target

(* The update that goes on is the one there was; nothing is cleared by it, and the extension is as it was. *)
LEMMA UpdateGoesOn ==
  ASSUME Installed, UpdateInv, mode' = mode, NEW r \in Processes, job[r].at \in Updating,
         job' \in [Processes -> JobSet], \A s \in Processes \ {r} : job'[s] = job[s],
         job'[r].at \notin U!Cleaning, job'[r].at = "extOld" => job[r].at = "extOld",
         \A p \in Own : exe[p] # None => exe'[p] # None,
         \A s \in Processes : image'[s] = "exe" => image[s] = "exe" \/ exe'[Runs[s]] # None,
         extension' = extension, moved' = moved, staged' \in U!File \ {Torn}
  PROVE  Apart' /\ Seen' /\ Extended'
  <1> USE DEF UpdateInv
  <1>1. job'[r].at # "clear" BY PhaseNames
  <1>2. Apart' BY ApartKept
  <1>3. Seen' BY <1>1, SeenKept DEF Installed
  <1>4. Extended' BY ExtendedKept
  <1> QED BY <1>2, <1>3, <1>4

LEMMA JobOnlyKeeps ==
  ASSUME Installed, UpdateInv, NEW r \in Processes, job[r].at \in Updating, NEW a \in Updating \cup {"runs", "updated"},
         U!Job(r, a), a = "extOld" => job[r].at = "extOld", UNCHANGED <<U!programs, extension, moved, image, build, mode>>, staged' \in {staged, None},
         InOrderJob([job[r] EXCEPT !.at = a], exe, new, old, more, image, mode),
         a \in {"runs", "updated"} => \A k \in DOMAIN job[r].targets : exe[job[r].targets[k]] # None
  PROVE  UpdateInv'
  <1> USE DEF UpdateInv
  <1>1. exe' = exe /\ new' = new /\ old' = old /\ more' = more /\ extension' = extension /\ moved' = moved /\ image' = image
        /\ build' = build /\ mode' = mode
    BY DEF U!programs
  <1>2. a \in U!Idle \cup Updating /\ a \notin U!Cleaning BY PhaseNames
  <1>3. /\ job' \in [Processes -> JobSet] /\ \A s \in Processes \ {r} : job'[s] = job[s]
        /\ job'[r] = [job[r] EXCEPT !.at = a] /\ job'[r].at = a
    BY <1>2, JobTurns
  <1>4. job'[r].targets = job[r].targets BY <1>3 DEF TypedUpdate, JobSet
  <1>5. staged' \in U!File \ {Torn} BY DEF TypedUpdate, Extended, U!File, Installed
  <1>6. TypedUpdate' BY <1>1, <1>3, <1>5 DEF TypedUpdate
  <1>7. Apart' /\ Seen' /\ Extended' BY <1>1, <1>2, <1>3, <1>5, UpdateGoesOn
  <1>8. Whole'
    <2>1. \/ job'[r].at \in Updating /\ job'[r].targets = job[r].targets
          \/ \A k \in DOMAIN job[r].targets : exe'[job[r].targets[k]] # None
      BY <1>1, <1>3, <1>4
    <2>2. \A p \in Own : /\ exe'[p] # Torn /\ (new'[p] = Torn => exe'[p] # None)
                         /\ exe'[p] = None => exe[p] = None /\ (mode = "cutOff" => new'[p] \in U!Releases)
      BY <1>1 DEF Whole
    <2> QED BY <1>1, <1>3, <2>1, <2>2, WholeKept
  <1>9. InOrderUpdate'
    <2>1. InOrderJob(job'[r], exe', new', old', more', image', mode') BY <1>1, <1>3
    <2> QED BY <1>3, <2>1, OneInOrder
  <1> QED BY <1>6, <1>7, <1>8, <1>9

LEMMA InOrderNow ==
  ASSUME UpdateInv, NEW r \in Processes
  PROVE  InOrderJob(job[r], exe, new, old, more, image, mode) /\ job[r] \in JobSet /\ mode \in {"cutOff", "beside"}
  BY DEF UpdateInv, InOrderUpdate, TypedUpdate

(* Past the moving, all programs are there. *)
LEMMA AllThere ==
  ASSUME UpdateInv, NEW r \in Processes, job[r].at \in Updating \ {"in", "back"}
  PROVE  \A k \in DOMAIN job[r].targets : exe[job[r].targets[k]] # None
  BY InOrderNow DEF InOrderJob, Present

LEMMA NotReadyKeeps == ASSUME Installed, UpdateInv, NEW r \in Processes, U!NotReady(r) PROVE UpdateInv'
  <1>1. /\ job[r].at \in Preparing /\ U!Job(r, "tidy") /\ UNCHANGED <<U!programs, extension, moved, image, build, mode>> /\ staged' = staged
    BY PhaseNames DEF U!NotReady, U!folders
  <1>2. InOrderJob([job[r] EXCEPT !.at = "tidy"], exe, new, old, more, image, mode) BY <1>1, InOrderNow, TurnsBackInOrder
  <1>3. job[r].at \in Updating /\ "tidy" \in Updating BY <1>1, PhaseNames DEF Updating
  <1> QED BY <1>1, <1>2, <1>3, JobOnlyKeeps

LEMMA NotMovedKeeps == ASSUME Installed, UpdateInv, NEW r \in Processes, U!NotMoved(r) PROVE UpdateInv'
  <1>1. /\ job[r].at \in {"aside", "in"} /\ U!Job(r, "back") /\ UNCHANGED <<U!programs, extension, moved, image, build, mode>> /\ staged' = staged
    BY DEF U!NotMoved, U!folders
  <1>2. InOrderJob([job[r] EXCEPT !.at = "back"], exe, new, old, more, image, mode) BY <1>1, InOrderNow, TurnsBackInOrder
  <1>3. job[r].at \in Updating /\ "back" \in Updating BY <1>1, PhaseNames
  <1> QED BY <1>1, <1>2, <1>3, JobOnlyKeeps

LEMMA AllBackKeeps == ASSUME Installed, UpdateInv, NEW r \in Processes, U!AllBack(r) PROVE UpdateInv'
  <1>1. /\ job[r].at = "back" /\ job[r].aside = <<>> /\ U!Job(r, "tidy") /\ UNCHANGED <<U!programs, extension, moved, image, build, mode>>
        /\ staged' = staged
    BY DEF U!AllBack, U!folders, U!Back
  <1>2. InOrderJob([job[r] EXCEPT !.at = "tidy"], exe, new, old, more, image, mode) BY <1>1, InOrderNow, TurnsBackInOrder
  <1>3. job[r].at \in Updating /\ "tidy" \in Updating BY <1>1, PhaseNames
  <1> QED BY <1>1, <1>2, <1>3, JobOnlyKeeps

LEMMA EndsInOrder ==
  ASSUME NEW x, NEW n, NEW o, NEW m, NEW im, NEW md, NEW j \in JobSet, NEW a \in {"runs", "updated"}
  PROVE  InOrderJob([j EXCEPT !.at = a], x, n, o, m, im, md)
  <1>1. [j EXCEPT !.at = a].at = a BY DEF JobSet
  <1>2. a \notin Updating BY PhaseNames
  <1> HIDE DEF JobSet
  <1> QED BY <1>1, <1>2, IdleInOrder

LEMMA TidiedKeeps == ASSUME Installed, UpdateInv, NEW r \in Processes, U!Tidied(r) PROVE UpdateInv'
  <1>1. /\ job[r].at = "tidy" /\ U!Job(r, "runs") /\ UNCHANGED <<U!programs, extension, moved, image, build, mode>> /\ staged' = None
    BY DEF U!Tidied
  <1>2. InOrderJob([job[r] EXCEPT !.at = "runs"], exe, new, old, more, image, mode) BY <1>1, InOrderNow, EndsInOrder
  <1>3. job[r].at \in Updating BY <1>1, PhaseNames
  <1>4. \A k \in DOMAIN job[r].targets : exe[job[r].targets[k]] # None BY <1>1, <1>3, AllThere
  <1> QED BY <1>1, <1>2, <1>3, <1>4, JobOnlyKeeps

LEMMA ExtensionStaysKeeps == ASSUME Installed, UpdateInv, NEW r \in Processes, U!ExtensionStays(r) PROVE UpdateInv'
  <1>1. /\ job[r].at = "extAside" /\ U!Job(r, "updated") /\ UNCHANGED <<U!programs, extension, moved, image, build, mode>> /\ staged' = None
    BY DEF U!ExtensionStays
  <1>2. InOrderJob([job[r] EXCEPT !.at = "updated"], exe, new, old, more, image, mode) BY <1>1, InOrderNow, EndsInOrder
  <1>3. job[r].at \in Updating BY <1>1, PhaseNames
  <1>4. \A k \in DOMAIN job[r].targets : exe[job[r].targets[k]] # None BY <1>1, <1>3, AllThere
  <1> QED BY <1>1, <1>2, <1>3, <1>4, JobOnlyKeeps

LEMMA DeletionFailsKeeps == ASSUME Installed, UpdateInv, NEW r \in Processes, U!DeletionFails(r) PROVE UpdateInv'
  <1>1. /\ job[r].at = "extOld" /\ U!Job(r, "updated") /\ UNCHANGED <<U!programs, extension, moved, image, build, mode>> /\ staged' = staged
    BY DEF U!DeletionFails, U!folders
  <1>2. InOrderJob([job[r] EXCEPT !.at = "updated"], exe, new, old, more, image, mode) BY <1>1, InOrderNow, EndsInOrder
  <1>3. job[r].at \in Updating BY <1>1, PhaseNames
  <1>4. \A k \in DOMAIN job[r].targets : exe[job[r].targets[k]] # None BY <1>1, <1>3, AllThere
  <1> QED BY <1>1, <1>2, <1>3, <1>4, JobOnlyKeeps

(* There are two programs, so an update has no third. *)
LEMMA TwoTargets ==
  ASSUME NEW j \in JobSet, NEW x, NEW n, NEW o, NEW m, NEW im, NEW md, InOrderJob(j, x, n, o, m, im, md), j.at \in Updating
  PROVE  Len(j.targets) <= 2
  <1>1. Len(j.targets) \in Nat /\ DOMAIN j.targets = 1 .. Len(j.targets) /\ \A k \in DOMAIN j.targets : j.targets[k] \in Own BY DEF JobSet
  <1>2. \A k, l \in DOMAIN j.targets : j.targets[k] = j.targets[l] => k = l BY DEF InOrderJob, Shaped
  <1>3. SUFFICES ASSUME Len(j.targets) > 2 PROVE FALSE BY <1>1
  <1>4. 1 \in DOMAIN j.targets /\ 2 \in DOMAIN j.targets /\ 3 \in DOMAIN j.targets BY <1>1, <1>3
  <1> QED BY <1>1, <1>2, <1>4 DEF Own

LEMMA NotLast ==
  ASSUME NEW j \in JobSet, NEW x, NEW n, NEW o, NEW m, NEW im, NEW md, InOrderJob(j, x, n, o, m, im, md), j.at \in Updating,
         j.i \in DOMAIN j.targets, j.i # Len(j.targets)
  PROVE  j.i + 1 = 2
  <1> DEFINE l == Len(j.targets)
             i == j.i
  <1>1. l \in Nat /\ i \in 1 .. l /\ i # l BY DEF JobSet
  <1>2. l <= 2 BY TwoTargets
  <1> HIDE DEF l, i
  <1>3. i + 1 = 2 BY <1>1, <1>2
  <1> QED BY <1>3 DEF i

LEMMA InstallKeeps == ASSUME Installed, UpdateInv, NEW r \in Processes, U!Install(r) PROVE UpdateInv'
  <1> USE DEF UpdateInv
  <1>1. /\ job[r].at = "runs" /\ exe[Runs[r]] # None /\ \A s \in Processes : job[s].at \notin Updating
        /\ mode = "cutOff" => ~U!SomeCleanup
        /\ exe' = exe /\ new' = new /\ old' = old /\ more' = more /\ image' = image /\ build' = build
        /\ extension' = extension /\ staged' = staged /\ moved' = moved /\ mode' = mode
    BY NoneUpdates DEF U!Install, U!programs, U!folders
  <1>t. PICK to \in U!Releases :
           job' = [job EXCEPT ![r].at = "write", ![r].i = 1, ![r].to = to, ![r].zip = extension # None, ![r].aside = <<>>,
                              ![r].before = exe, ![r].targets = U!TargetsOf(Runs[r])]
    BY DEF U!Install
  <1>2. Runs[r] \in Own BY DEF Installed
  <1>3. /\ U!TargetsOf(Runs[r]) \in {<<Runs[r]>>, <<Runs[r], U!Other(Runs[r])>>} /\ U!TargetsOf(Runs[r]) \in Seq(Own)
        /\ \A k \in DOMAIN U!TargetsOf(Runs[r]) : exe[U!TargetsOf(Runs[r])[k]] # None
    <2>1. U!Other(Runs[r]) \in Own BY DEF U!Other, Own
    <2>2. CASE exe[U!Other(Runs[r])] = None BY <1>1, <1>2, <2>2 DEF U!TargetsOf
    <2>3. CASE exe[U!Other(Runs[r])] # None BY <1>1, <1>2, <2>1, <2>3 DEF U!TargetsOf
    <2> QED BY <2>2, <2>3
  <1>4. /\ job' \in [Processes -> JobSet] /\ \A s \in Processes \ {r} : job'[s] = job[s]
        /\ job'[r].at = "write" /\ job'[r].i = 1 /\ job'[r].to = to /\ job'[r].aside = <<>> /\ job'[r].before = exe
        /\ job'[r].targets = U!TargetsOf(Runs[r])
    <2> DEFINE ts == U!TargetsOf(Runs[r])
               z == extension # None
               j == [job[r] EXCEPT !.at = "write", !.i = 1, !.to = to, !.zip = z, !.aside = <<>>, !.before = exe, !.targets = ts]
    <2>1. job[r] \in JobSet /\ job' = [job EXCEPT ![r] = j] BY <1>t DEF TypedUpdate
    <2>2. "write" \in U!Idle \cup Updating /\ to \in 0 .. Latest /\ ts \in Seq(Own) /\ exe \in [Own -> U!File]
          /\ z \in BOOLEAN /\ <<>> \in Seq(MovedAside)
      BY <1>3, PhaseNames DEF Installed, U!Releases, TypedUpdate
    <2> HIDE DEF ts, z
    <2>3. j \in JobSet BY <2>1, <2>2 DEF JobSet
    <2>4. j.at = "write" /\ j.i = 1 /\ j.to = to /\ j.aside = <<>> /\ j.before = exe /\ j.targets = ts BY <2>1 DEF JobSet
    <2> HIDE DEF j
    <2> QED BY <2>1, <2>3, <2>4, JobsTyped DEF ts, TypedUpdate
  <1>5. "write" \in Updating /\ "write" \notin U!Cleaning /\ "runs" \notin Updating BY PhaseNames
  <1>6. TypedUpdate' BY <1>1, <1>4 DEF TypedUpdate
  <1>7. Apart'
    <2>1. \A s \in Processes : mode = "cutOff" => job[s].at \notin U!Cleaning BY <1>1 DEF U!SomeCleanup
    <2> QED BY <1>1, <1>4, <1>5, <2>1 DEF Apart
  <1>8. Whole' BY <1>1, <1>4, <1>5, WholeKept DEF Whole
  <1>9. Seen' BY <1>1, <1>4, SeenKept DEF Installed
  <1>10. Extended' BY <1>1, <1>4, ExtendedKept DEF Extended
  <1>11. InOrderUpdate'
    <2>1. InOrderJob(job'[r], exe', new', old', more', image', mode')
      <3> DEFINE j == job'[r]
      <3>1. j \in JobSet /\ exe \in [Own -> U!File] BY <1>4 DEF TypedUpdate
      <3>2. /\ j.at = "write" /\ j.i = 1 /\ j.to \in U!Releases /\ j.aside = <<>> /\ j.before = exe
            /\ j.targets \in {<<Runs[r]>>, <<Runs[r], U!Other(Runs[r])>>}
            /\ \A k \in DOMAIN j.targets : exe[j.targets[k]] # None
        BY <1>3, <1>4
      <3> HIDE DEF j
      <3>3. InOrderJob(j, exe, new, old, more, image, mode) BY <1>2, <3>1, <3>2, InstallInOrder
      <3> QED BY <1>1, <3>3 DEF j
    <2> SUFFICES ASSUME NEW s \in Processes, s # r PROVE InOrderJob(job'[s], exe', new', old', more', image', mode')
      BY <2>1 DEF InOrderUpdate
    <2>2. job'[s].at \notin Updating BY <1>1, <1>4
    <2> QED BY <2>2, IdleInOrder
  <1> QED BY <1>6, <1>7, <1>8, <1>9, <1>10, <1>11

LEMMA CreateNewKeeps == ASSUME Installed, UpdateInv, NEW r \in Processes, U!CreateNew(r) PROVE UpdateInv'
  <1> USE DEF UpdateInv
  <1>1. /\ job[r].at = "write" /\ U!Job(r, "writing") /\ new' = [new EXCEPT ![U!Target(r)] = Torn]
        /\ exe' = exe /\ old' = old /\ more' = more /\ image' = image /\ build' = build
        /\ extension' = extension /\ staged' = staged /\ moved' = moved /\ mode' = mode
    BY DEF U!CreateNew, U!folders
  <1>2. {"write", "writing"} \subseteq Updating /\ "writing" \notin U!Cleaning BY PhaseNames
  <1>3. /\ job' \in [Processes -> JobSet] /\ \A s \in Processes \ {r} : job'[s] = job[s]
        /\ job'[r] = [job[r] EXCEPT !.at = "writing"] /\ job'[r].at = "writing"
    BY <1>1, <1>2, JobTurns
  <1>4. job'[r].targets = job[r].targets BY <1>3 DEF TypedUpdate, JobSet
  <1>5. /\ job[r].i \in DOMAIN job[r].targets /\ U!Target(r) = job[r].targets[job[r].i] /\ U!Target(r) \in Own
    BY <1>1, TargetIsOwn
  <1>6. exe[U!Target(r)] # None BY <1>1, <1>2, <1>5, AllThere
  <1>7. new' \in [Own -> U!File] /\ \A p \in Own : p # U!Target(r) => new'[p] = new[p] BY <1>1, <1>5 DEF TypedUpdate, U!File
  <1>8. TypedUpdate' BY <1>1, <1>3, <1>7 DEF TypedUpdate
  <1>9. Apart' /\ Seen' /\ Extended'
    <2>1. staged' \in U!File \ {Torn} BY <1>1 DEF Extended, TypedUpdate
    <2> QED BY <1>1, <1>2, <1>3, <2>1, UpdateGoesOn
  <1>10. Whole'
    <2>1. \A p \in Own : /\ exe'[p] # Torn /\ (new'[p] = Torn => exe'[p] # None)
                         /\ exe'[p] = None => exe[p] = None /\ (mode = "cutOff" => new'[p] \in U!Releases)
      BY <1>1, <1>6, <1>7 DEF Whole
    <2> QED BY <1>1, <1>2, <1>3, <1>4, <2>1, WholeKept
  <1>11. InOrderUpdate'
    <2>1. InOrderJob([job[r] EXCEPT !.at = "writing"], exe, [new EXCEPT ![job[r].targets[job[r].i]] = Torn], old, more, image, mode)
      BY <1>1, InOrderNow, CreateInOrder DEF TypedUpdate
    <2>2. InOrderJob(job'[r], exe', new', old', more', image', mode') BY <1>1, <1>3, <1>5, <2>1
    <2> QED BY <1>1, <1>2, <1>3, <2>2, OneInOrder
  <1> QED BY <1>8, <1>9, <1>10, <1>11

LEMMA WriteNewKeeps == ASSUME Installed, UpdateInv, NEW r \in Processes, U!WriteNew(r) PROVE UpdateInv'
  <1> USE DEF UpdateInv
  <1>1. /\ job[r].at = "writing"
        /\ new' = IF new[U!Target(r)] = None THEN new ELSE [new EXCEPT ![U!Target(r)] = job[r].to]
        /\ exe' = exe /\ old' = old /\ more' = more /\ image' = image /\ build' = build
        /\ extension' = extension /\ staged' = staged /\ moved' = moved /\ mode' = mode
    BY DEF U!WriteNew, U!folders
  <1>2. {"write", "writing", "unpack", "name"} \subseteq Updating /\ {"write", "unpack", "name"} \cap U!Cleaning = {} BY PhaseNames
  <1>3. /\ job[r].i \in DOMAIN job[r].targets /\ U!Target(r) = job[r].targets[job[r].i] /\ U!Target(r) \in Own /\ job[r].to \in U!Releases
    BY <1>1, TargetIsOwn
  <1>4. /\ job' \in [Processes -> JobSet] /\ \A s \in Processes \ {r} : job'[s] = job[s]
        /\ job'[r].at \in {"write", "unpack", "name"} /\ job'[r].targets = job[r].targets
        /\ \/ job[r].i = Len(job[r].targets) /\ \E a \in {"unpack", "name"} : job'[r] = [job[r] EXCEPT !.at = a, !.i = 1]
           \/ job[r].i # Len(job[r].targets) /\ job'[r] = [job[r] EXCEPT !.at = "write", !.i = job[r].i + 1]
    <2>1. CASE job[r].i = Len(job[r].targets)
      <3>1. PICK a \in {"unpack", "name"} : U!Turn(r, a, 1) BY <2>1 DEF U!WriteNew, U!Written, U!IsLast
      <3>2. a \in U!Idle \cup Updating BY <1>2
      <3>3. /\ job' \in [Processes -> JobSet] /\ \A s \in Processes \ {r} : job'[s] = job[s]
            /\ job'[r] = [job[r] EXCEPT !.at = a, !.i = 1] /\ job'[r].at = a
        BY <3>1, <3>2, JobTurnsOn
      <3>4. job'[r].targets = job[r].targets BY <3>3 DEF TypedUpdate, JobSet
      <3> QED BY <2>1, <3>3, <3>4
    <2>2. CASE job[r].i # Len(job[r].targets)
      <3>1. U!Turn(r, "write", job[r].i + 1) BY <2>2 DEF U!WriteNew, U!Written, U!IsLast
      <3>2. job[r].i + 1 = 2
        <4>1. job[r].at \in Updating BY <1>1, <1>2
        <4> QED BY <1>3, <2>2, <4>1, InOrderNow, NotLast
      <3>3. U!Turn(r, "write", 2) BY <3>1, <3>2 DEF U!Turn
      <3>4. "write" \in U!Idle \cup Updating BY <1>2
      <3>5. /\ job' \in [Processes -> JobSet] /\ \A s \in Processes \ {r} : job'[s] = job[s]
            /\ job'[r] = [job[r] EXCEPT !.at = "write", !.i = 2] /\ job'[r].at = "write"
        BY <3>3, <3>4, JobTurnsOn
      <3>6. job'[r].targets = job[r].targets BY <3>5 DEF TypedUpdate, JobSet
      <3> QED BY <2>2, <3>2, <3>5, <3>6
    <2> QED BY <2>1, <2>2
  <1>5. exe[U!Target(r)] # None BY <1>1, <1>2, <1>3, AllThere
  <1>6. new' \in [Own -> U!File] /\ \A p \in Own : p # U!Target(r) => new'[p] = new[p] BY <1>1, <1>3 DEF TypedUpdate, U!File
  <1>7. TypedUpdate' BY <1>1, <1>4, <1>6 DEF TypedUpdate
  <1>8. Apart' /\ Seen' /\ Extended'
    <2>1. staged' \in U!File \ {Torn} BY <1>1 DEF Extended, TypedUpdate
    <2> QED BY <1>1, <1>2, <1>4, <2>1, UpdateGoesOn
  <1>9. Whole'
    <2>1. \A p \in Own : /\ exe'[p] # Torn /\ (new'[p] = Torn => exe'[p] # None)
                         /\ exe'[p] = None => exe[p] = None /\ (mode = "cutOff" => new'[p] \in U!Releases)
      BY <1>1, <1>5, <1>6 DEF Whole
    <2>2. job'[r].at \in Updating BY <1>2, <1>4
    <2> QED BY <1>1, <1>4, <2>1, <2>2, WholeKept
  <1>10. InOrderUpdate'
    <2>1. InOrderJob(job[r], exe, new, old, more, image, mode) /\ job[r] \in JobSet /\ job'[r] \in JobSet /\ mode \in {"cutOff", "beside"}
          /\ new \in [Own -> U!File]
      BY <1>4, InOrderNow DEF TypedUpdate
    <2>2. new' = IF new[job[r].targets[job[r].i]] = None THEN new ELSE [new EXCEPT ![job[r].targets[job[r].i]] = job[r].to]
      BY <1>1, <1>3
    <2>3. InOrderJob(job'[r], exe, new', old, more, image, mode) BY <1>1, <1>4, <1>6, <2>1, <2>2, WriteInOrder
    <2>4. InOrderJob(job'[r], exe', new', old', more', image', mode') BY <1>1, <2>3
    <2>5. job[r].at \in Updating BY <1>1, <1>2
    <2> QED BY <1>4, <2>4, <2>5, OneInOrder
  <1> QED BY <1>7, <1>8, <1>9, <1>10

LEMMA UnpackKeeps == ASSUME Installed, UpdateInv, NEW r \in Processes, U!Unpack(r) PROVE UpdateInv'
  <1> USE DEF UpdateInv
  <1>1. /\ job[r].at = "unpack" /\ U!Job(r, "name") /\ staged' = job[r].to
        /\ exe' = exe /\ new' = new /\ old' = old /\ more' = more /\ image' = image /\ build' = build
        /\ extension' = extension /\ moved' = moved /\ mode' = mode
    BY DEF U!Unpack, U!programs
  <1>2. {"unpack", "name"} \subseteq Updating /\ "name" \notin U!Cleaning BY PhaseNames
  <1>3. /\ job' \in [Processes -> JobSet] /\ \A s \in Processes \ {r} : job'[s] = job[s]
        /\ job'[r] = [job[r] EXCEPT !.at = "name"] /\ job'[r].at = "name"
    BY <1>1, <1>2, JobTurns
  <1>4. job'[r].targets = job[r].targets BY <1>3 DEF TypedUpdate, JobSet
  <1>5. InOrderJob(job[r], exe, new, old, more, image, mode) /\ job[r] \in JobSet BY InOrderNow
  <1>6. job[r].to \in U!Releases /\ job[r].i = 1 /\ job[r].targets # <<>> BY <1>1, <1>2, <1>5 DEF InOrderJob, Shaped
  <1>7. staged' \in U!File \ {Torn} BY <1>1, <1>6 DEF U!File, Installed
  <1>8. TypedUpdate' BY <1>1, <1>3, <1>7 DEF TypedUpdate
  <1>9. Apart' /\ Seen' /\ Extended' BY <1>1, <1>2, <1>3, <1>7, UpdateGoesOn
  <1>10. Whole' BY <1>1, <1>2, <1>3, <1>4, WholeKept DEF Whole
  <1>11. InOrderUpdate'
    <2>1. InOrderJob([job[r] EXCEPT !.at = "name"], exe, new, old, more, image, mode) BY <1>1, <1>5, <1>6, UnpackInOrder
    <2>2. InOrderJob(job'[r], exe', new', old', more', image', mode') BY <1>1, <1>3, <2>1
    <2> QED BY <1>1, <1>2, <1>3, <2>2, OneInOrder
  <1> QED BY <1>8, <1>9, <1>10, <1>11

LEMMA NameOldKeeps == ASSUME Installed, UpdateInv, NEW r \in Processes, U!NameOld(r) PROVE UpdateInv'
  <1> USE DEF UpdateInv
  <1>1. /\ job[r].at = "name"
        /\ exe' = exe /\ new' = new /\ more' = more /\ image' = image /\ build' = build
        /\ extension' = extension /\ staged' = staged /\ moved' = moved /\ mode' = mode
    BY DEF U!NameOld, U!folders
  <1>s. PICK s \in {"old", "more"} :
          /\ job' = [job EXCEPT ![r].at = "aside", ![r].slot = s]
          /\ old' \in {old, [old EXCEPT ![U!Target(r)] = None]}
    BY DEF U!NameOld
  <1>2. {"name", "aside"} \subseteq Updating /\ "name" \in Swapping /\ "aside" \notin U!Cleaning BY PhaseNames
  <1>3. /\ job' \in [Processes -> JobSet] /\ \A s_1 \in Processes \ {r} : job'[s_1] = job[s_1]
        /\ job'[r] = [job[r] EXCEPT !.at = "aside", !.slot = s] /\ job'[r].at = "aside" /\ job'[r].targets = job[r].targets
    <2> DEFINE j == [job[r] EXCEPT !.at = "aside", !.slot = s]
    <2>1. job[r] \in JobSet /\ job' = [job EXCEPT ![r] = j] BY <1>s DEF TypedUpdate
    <2>2. "aside" \in U!Idle \cup Updating BY <1>2
    <2>3. j \in JobSet /\ j.at = "aside" /\ j.targets = job[r].targets BY <2>1, <2>2 DEF JobSet
    <2> HIDE DEF j
    <2>4. job' \in [Processes -> JobSet] /\ job'[r] = j /\ \A t \in Processes \ {r} : job'[t] = job[t]
      BY <2>1, <2>3, JobsTyped DEF TypedUpdate
    <2> QED BY <2>3, <2>4 DEF j
  <1>4. /\ job[r].i \in DOMAIN job[r].targets /\ U!Target(r) = job[r].targets[job[r].i] /\ U!Target(r) \in Own
    BY <1>1, <1>2, TargetIsOwn
  <1>5. old' \in [Own -> U!File] BY <1>s, <1>4 DEF TypedUpdate, U!File
  <1>6. TypedUpdate' BY <1>1, <1>3, <1>5 DEF TypedUpdate
  <1>7. Apart' /\ Seen' /\ Extended'
    <2>1. staged' \in U!File \ {Torn} BY <1>1 DEF Extended, TypedUpdate
    <2> QED BY <1>1, <1>2, <1>3, <2>1, UpdateGoesOn
  <1>8. Whole' BY <1>1, <1>2, <1>3, WholeKept DEF Whole
  <1>9. InOrderUpdate'
    <2>1. InOrderJob(job[r], exe, new, old, more, image, mode) /\ job[r] \in JobSet /\ old \in [Own -> U!File]
      BY InOrderNow DEF TypedUpdate
    <2>2. old' \in {old, [old EXCEPT ![job[r].targets[job[r].i]] = None]} BY <1>s, <1>4
    <2>3. InOrderJob([job[r] EXCEPT !.at = "aside", !.slot = s], exe, new, old', more, image, mode)
      BY <1>1, <2>1, <2>2, NameInOrder
    <2>4. InOrderJob(job'[r], exe', new', old', more', image', mode') BY <1>1, <1>3, <2>3
    <2> QED BY <1>1, <1>2, <1>3, <2>4, OneInOrder
  <1> QED BY <1>6, <1>7, <1>8, <1>9

LEMMA MoveAsideKeeps == ASSUME Installed, UpdateInv, NEW r \in Processes, U!MoveAside(r) PROVE UpdateInv'
  <1> USE DEF UpdateInv
  <1> DEFINE p == U!Target(r)
             s == job[r].slot
             e == <<p, s, exe[p]>>
  <1>1. /\ job[r].at = "aside" /\ U!Quiet /\ exe[p] # None
        /\ exe' = [exe EXCEPT ![p] = None]
        /\ old' = (IF s = "old" THEN [old EXCEPT ![p] = exe[p]] ELSE old)
        /\ more' = (IF s = "old" THEN more ELSE [more EXCEPT ![p] = @ \cup {exe[p]}])
        /\ U!Follow(p, "exe", s)
        /\ job' = [job EXCEPT ![r].at = "in", ![r].aside = Append(@, e)]
        /\ new' = new /\ build' = build /\ mode' = mode
        /\ extension' = extension /\ staged' = staged /\ moved' = moved
    BY DEF U!MoveAside, U!folders
  <1>2. {"aside", "in"} \subseteq Updating /\ {"aside", "in"} \subseteq Swapping /\ "in" \notin U!Cleaning BY PhaseNames
  <1>3. /\ job[r].i \in DOMAIN job[r].targets /\ p = job[r].targets[job[r].i] /\ p \in Own
    BY <1>1, <1>2, TargetIsOwn
  <1>4. InOrderJob(job[r], exe, new, old, more, image, mode) /\ job[r] \in JobSet /\ mode \in {"cutOff", "beside"} BY InOrderNow
  <1>5. s \in {"old", "more"} /\ job[r].aside \in Seq(MovedAside) BY <1>4 DEF JobSet
  <1>6. exe[p] \in U!Releases
    <2>1. exe[p] \in U!File BY <1>3 DEF TypedUpdate
    <2>2. exe[p] # Torn BY <1>3 DEF Whole
    <2> QED BY <1>1, <2>1, <2>2 DEF U!File
  <1>7. e \in MovedAside /\ e[1] = p /\ e[2] = s /\ e[3] = exe[p] BY <1>3, <1>5, <1>6 DEF MovedAside
  <1> HIDE DEF e, s, p
  <1>8. /\ job' \in [Processes -> JobSet] /\ \A t \in Processes \ {r} : job'[t] = job[t]
        /\ job'[r].at = "in" /\ job'[r].aside = Append(job[r].aside, e)
        /\ job'[r].i = job[r].i /\ job'[r].to = job[r].to /\ job'[r].targets = job[r].targets /\ job'[r].before = job[r].before
    <2> DEFINE a == Append(job[r].aside, e)
               j == [job[r] EXCEPT !.at = "in", !.aside = a]
    <2>1. job' = [job EXCEPT ![r] = j] BY <1>1 DEF TypedUpdate
    <2>2. "in" \in U!Idle \cup Updating /\ a \in Seq(MovedAside) BY <1>2, <1>5, <1>7, AppendProperties
    <2> HIDE DEF a
    <2>3. /\ j \in JobSet /\ j.at = "in" /\ j.aside = a
          /\ j.i = job[r].i /\ j.to = job[r].to /\ j.targets = job[r].targets /\ j.before = job[r].before
      BY <1>4, <2>2 DEF JobSet
    <2> HIDE DEF j
    <2> QED BY <2>1, <2>3, JobsTyped DEF TypedUpdate, a
  <1>9. /\ exe' \in [Own -> U!File] /\ exe'[p] = None /\ \A q \in Own : q # p => exe'[q] = exe[q]
    BY <1>1, <1>3 DEF TypedUpdate, U!File
  <1>10. /\ old' \in [Own -> U!File] /\ more' \in [Own -> SUBSET U!Releases]
         /\ \A q \in Own : q # p => old'[q] = old[q] /\ more'[q] = more[q]
         /\ There(e, old', more')
    <2>1. CASE s = "old" BY <1>1, <1>3, <1>6, <1>7, <2>1 DEF TypedUpdate, U!File, There
    <2>2. CASE s # "old" BY <1>1, <1>3, <1>6, <1>7, <2>2 DEF TypedUpdate, U!File, There
    <2> QED BY <2>1, <2>2
  <1>11. /\ image' \in [Processes -> {"none", "exe", "old", "more"}]
         /\ \A t \in Processes : image'[t] = "exe" => image[t] = "exe" /\ Runs[t] # p
    BY <1>1, <1>5 DEF U!Follow, TypedUpdate
  <1>12. TypedUpdate' BY <1>1, <1>8, <1>9, <1>10, <1>11 DEF TypedUpdate
  <1>13. Apart' BY <1>1, <1>2, <1>8, ApartKept
  <1>14. Seen'
    <2> SUFFICES ASSUME NEW t \in Processes
                 PROVE  /\ image'[t] = "exe" => exe'[Runs[t]] # None
                        /\ job'[t].at # "clear"
      BY DEF Seen
    <2>1. image'[t] = "exe" => exe'[Runs[t]] # None BY <1>9, <1>11 DEF Seen, Installed
    <2>2. job'[t].at # "clear"
      <3>1. CASE t = r BY <1>8, <3>1
      <3>2. CASE t # r BY <1>1, <1>8, <3>2 DEF U!Quiet
      <3> QED BY <3>1, <3>2
    <2> QED BY <2>1, <2>2
  <1>15. Extended' BY <1>1, <1>8, ExtendedKept DEF Extended
  <1>16. new[p] \in {job[r].to, None} /\ (mode = "cutOff" => new[p] = job[r].to) /\ job[r].to \in U!Releases
    <2>1. Wrote(new[job[r].targets[job[r].i]], job[r], mode)
      <3>1. job[r].i \in Nat /\ job[r].i >= job[r].i BY <1>4 DEF JobSet
      <3>2. Prepared(job[r], new, mode) BY <1>4 DEF InOrderJob
      <3>3. job[r].at \in Swapping /\ job[r].i \in DOMAIN job[r].targets BY <1>1, <1>2, <1>3
      <3> QED BY <3>1, <3>2, <3>3 DEF Prepared
    <2>2. job[r].to \in U!Releases BY <1>1, <1>2, <1>4 DEF InOrderJob, Shaped
    <2>3. Wrote(new[p], job[r], mode) BY <1>3, <2>1
    <2>4. new[p] = job[r].to \/ (mode = "beside" /\ new[p] = None) BY <2>3 DEF Wrote
    <2> QED BY <2>2, <2>4
  <1>17. Whole'
    <2> SUFFICES ASSUME NEW q \in Own
                 PROVE  /\ exe'[q] # Torn /\ (new'[q] = Torn => exe'[q] # None)
                        /\ exe'[q] = None =>
                             IF mode' = "cutOff" THEN new'[q] \in U!Releases
                             ELSE \E t \in Processes : job'[t].at \in Updating /\ \E k \in DOMAIN job'[t].targets : job'[t].targets[k] = q
      BY DEF Whole, U!Releases
    <2>1. CASE q = p
      <3>1. exe'[q] = None /\ new'[q] = new[p] /\ mode' = mode BY <1>1, <1>9, <2>1
      <3>2. new[p] # Torn /\ None # Torn BY <1>16 DEF Installed
      <3>3. job'[r].at \in Updating /\ job'[r].i \in DOMAIN job'[r].targets /\ job'[r].targets[job'[r].i] = q
        BY <1>2, <1>3, <1>8, <2>1
      <3> QED BY <1>16, <3>1, <3>2, <3>3
    <2>2. CASE q # p
      <3>1. exe'[q] = exe[q] /\ new'[q] = new[q] /\ mode' = mode BY <1>1, <1>9, <2>2
      <3>2. ASSUME NEW t \in Processes, job[t].at \in Updating, \E k \in DOMAIN job[t].targets : job[t].targets[k] = q
            PROVE  job'[t].at \in Updating /\ \E k \in DOMAIN job'[t].targets : job'[t].targets[k] = q
        BY <1>2, <1>8, <3>2
      <3> QED BY <3>1, <3>2 DEF Whole
    <2> QED BY <2>1, <2>2
  <1>18. InOrderUpdate'
    <2>1. /\ Len(job'[r].aside) = Len(job[r].aside) + 1 /\ job'[r].aside[Len(job'[r].aside)] = e
          /\ \A k \in DOMAIN job[r].aside : job'[r].aside[k] = job[r].aside[k]
      <3> DEFINE a == Append(job[r].aside, e)
      <3>1. /\ Len(a) = Len(job[r].aside) + 1 /\ a[Len(job[r].aside) + 1] = e
            /\ \A k \in 1 .. Len(job[r].aside) : a[k] = job[r].aside[k] /\ DOMAIN job[r].aside = 1 .. Len(job[r].aside)
        BY <1>5, <1>7, AppendProperties
      <3>2. DOMAIN job[r].aside = 1 .. Len(job[r].aside) BY <1>5
      <3>3. job'[r].aside = a BY <1>8
      <3> HIDE DEF a
      <3> QED BY <3>1, <3>2, <3>3
    <2>2. \A t \in Processes : image'[t] = "exe" => image[t] = "exe" /\ Runs[t] # p BY <1>11
    <2>3. InOrderJob(job'[r], exe', new, old', more', image', mode)
      <3> DEFINE j1 == job'[r]
      <3>1. /\ j1 \in JobSet /\ j1.at = "in" /\ j1.i = job[r].i /\ j1.to = job[r].to /\ j1.targets = job[r].targets
            /\ j1.before = job[r].before /\ Len(j1.aside) = Len(job[r].aside) + 1 /\ j1.aside[Len(j1.aside)] = e
            /\ \A k \in DOMAIN job[r].aside : j1.aside[k] = job[r].aside[k]
        BY <1>8, <2>1
      <3> HIDE DEF j1
      <3>2. /\ \A q \in Own : q # p => exe'[q] = exe[q] /\ old'[q] = old[q] /\ more'[q] = more[q]
            /\ There(e, old', more') /\ \A t \in Processes : image'[t] = "exe" => image[t] = "exe" /\ Runs[t] # p
        BY <1>9, <1>10, <2>2
      <3>3. job[r].at = "aside" BY <1>1
      <3>4. p \in Own /\ p = job[r].targets[job[r].i] /\ e[1] = p /\ e[3] = exe[p] BY <1>3, <1>7
      <3>5. InOrderJob(j1, exe', new, old', more', image', mode)
        <4>1. MovesAside(p, e, job[r], j1, exe, old, more, image, exe', old', more', image')
          BY <1>4, <3>1, <3>2, <3>3, <3>4 DEF MovesAside
        <4> QED BY <1>4, <4>1, OneMoreAside
      <3> QED BY <3>5 DEF j1
    <2>4. InOrderJob(job'[r], exe', new', old', more', image', mode') BY <1>1, <2>3
    <2> QED BY <1>1, <1>2, <1>8, <2>4, OneInOrder
  <1> QED BY <1>12, <1>13, <1>14, <1>15, <1>17, <1>18

LEMMA MoveInKeeps ==
  ASSUME Installed, UpdateInv, NEW r \in Processes, U!MoveIn(r)
  PROVE  /\ UpdateInv'
         /\ job'[r].at = "updated" => \A k \in DOMAIN job[r].targets : exe'[job[r].targets[k]] = job[r].to
  <1> USE DEF UpdateInv
  <1> DEFINE p == U!Target(r)
  <1>1. /\ job[r].at = "in" /\ new[p] # None
        /\ exe' = [exe EXCEPT ![p] = new[p]] /\ new' = [new EXCEPT ![p] = None]
        /\ old' = old /\ more' = more /\ image' = image /\ build' = build
        /\ extension' = extension /\ staged' = staged /\ moved' = moved /\ mode' = mode
    BY DEF U!MoveIn, U!folders
  <1>2. /\ {"in", "name", "extAside"} \subseteq Updating /\ "in" \in Swapping /\ {"name", "extAside", "updated"} \cap U!Cleaning = {}
        /\ {"name", "extAside", "updated"} \subseteq U!Idle \cup Updating
    BY PhaseNames
  <1>3. /\ job[r].i \in DOMAIN job[r].targets /\ p = job[r].targets[job[r].i] /\ p \in Own /\ job[r].to \in U!Releases
    BY <1>1, <1>2, TargetIsOwn
  <1> HIDE DEF p
  <1>4. InOrderJob(job[r], exe, new, old, more, image, mode) /\ job[r] \in JobSet /\ mode \in {"cutOff", "beside"} BY InOrderNow
  <1>5. /\ job' \in [Processes -> JobSet] /\ \A t \in Processes \ {r} : job'[t] = job[t]
        /\ job'[r].to = job[r].to /\ job'[r].targets = job[r].targets /\ job'[r].aside = job[r].aside /\ job'[r].before = job[r].before
        /\ \/ job[r].i = Len(job[r].targets) /\ job'[r].at \in {"extAside", "updated"}
           \/ job[r].i # Len(job[r].targets) /\ job'[r].at = "name" /\ job'[r].i = job[r].i + 1
    <2>1. CASE job[r].i = Len(job[r].targets)
      <3>1. PICK a \in {"extAside", "updated"} : U!Job(r, a) BY <2>1 DEF U!MoveIn, U!IsLast
      <3>2. /\ job' \in [Processes -> JobSet] /\ \A t \in Processes \ {r} : job'[t] = job[t]
            /\ job'[r] = [job[r] EXCEPT !.at = a] /\ job'[r].at = a
        BY <1>2, <3>1, JobTurns
      <3>3. job'[r].to = job[r].to /\ job'[r].targets = job[r].targets /\ job'[r].aside = job[r].aside /\ job'[r].before = job[r].before
        BY <1>4, <3>2 DEF JobSet
      <3> QED BY <2>1, <3>2, <3>3
    <2>2. CASE job[r].i # Len(job[r].targets)
      <3>1. U!Turn(r, "name", job[r].i + 1) BY <2>2 DEF U!MoveIn, U!IsLast
      <3>2. job[r].i + 1 = 2 BY <1>1, <1>2, <1>3, <1>4, <2>2, NotLast
      <3>3. U!Turn(r, "name", 2) BY <3>1, <3>2 DEF U!Turn
      <3>4. /\ job' \in [Processes -> JobSet] /\ \A t \in Processes \ {r} : job'[t] = job[t]
            /\ job'[r] = [job[r] EXCEPT !.at = "name", !.i = 2] /\ job'[r].at = "name"
        BY <1>2, <3>3, JobTurnsOn
      <3>5. job'[r].to = job[r].to /\ job'[r].targets = job[r].targets /\ job'[r].aside = job[r].aside /\ job'[r].before = job[r].before
            /\ job'[r].i = 2
        BY <1>4, <3>4 DEF JobSet
      <3> QED BY <2>2, <3>2, <3>4, <3>5
    <2> QED BY <2>1, <2>2
  <1>6. /\ InOrderJob(job'[r], exe', new', old, more, image, mode)
        /\ job[r].i = Len(job[r].targets) => \A k \in DOMAIN job[r].targets : exe'[job[r].targets[k]] = job[r].to
        /\ \A k \in DOMAIN job[r].targets : exe'[job[r].targets[k]] # None
        /\ new[p] = job[r].to
    <2> DEFINE j1 == job'[r]
    <2>1. /\ j1 \in JobSet /\ j1.to = job[r].to /\ j1.targets = job[r].targets /\ j1.aside = job[r].aside /\ j1.before = job[r].before
          /\ \/ job[r].i = Len(job[r].targets) /\ j1.at \in {"extAside", "updated"}
             \/ job[r].i # Len(job[r].targets) /\ j1.at = "name" /\ j1.i = job[r].i + 1
      BY <1>5
    <2>2. exe \in [Own -> U!File] /\ new \in [Own -> U!File] BY DEF TypedUpdate
    <2> HIDE DEF j1
    <2>3. exe' = [exe EXCEPT ![p] = new[p]] /\ new' = [new EXCEPT ![p] = None] BY <1>1
    <2>4. /\ InOrderJob(j1, exe', new', old, more, image, mode)
          /\ job[r].i = Len(job[r].targets) => \A k \in DOMAIN job[r].targets : exe'[job[r].targets[k]] = job[r].to
          /\ \A k \in DOMAIN job[r].targets : exe'[job[r].targets[k]] # None
          /\ new[p] = job[r].to
      <3>1. job[r].at = "in" /\ new[p] # None BY <1>1
      <3>2. p \in Own /\ p = job[r].targets[job[r].i] BY <1>3
      <3>3. MovesIn(p, job[r], j1, exe, new, exe', new') BY <1>4, <2>1, <2>2, <2>3, <3>1, <3>2 DEF MovesIn
      <3> QED BY <1>4, <3>3, MoveInInOrder
    <2> QED BY <2>4 DEF j1
  <1>7. /\ exe' \in [Own -> U!File] /\ new' \in [Own -> U!File] /\ exe'[p] \in U!Releases
        /\ \A q \in Own : q # p => exe'[q] = exe[q] /\ new'[q] = new[q]
    BY <1>1, <1>3, <1>6 DEF TypedUpdate, U!File
  <1>8. TypedUpdate' BY <1>1, <1>5, <1>7 DEF TypedUpdate
  <1>9. exe'[p] # None /\ exe'[p] # Torn BY <1>7 DEF Installed
  <1>10. Apart' /\ Seen' /\ Extended'
    <2>1. staged' \in U!File \ {Torn} BY <1>1 DEF Extended, TypedUpdate
    <2>2. \A q \in Own : exe[q] # None => exe'[q] # None BY <1>7, <1>9
    <2>3. job'[r].at \notin U!Cleaning /\ job'[r].at # "extOld" BY <1>2, <1>5
    <2> QED BY <1>1, <1>2, <1>5, <2>1, <2>2, <2>3, UpdateGoesOn
  <1>11. Whole'
    <2>1. \A q \in Own : /\ exe'[q] # Torn /\ (new'[q] = Torn => exe'[q] # None)
                         /\ exe'[q] = None => exe[q] = None /\ (mode = "cutOff" => new'[q] \in U!Releases)
      BY <1>7, <1>9 DEF Whole
    <2> QED BY <1>1, <1>5, <1>6, <2>1, WholeKept
  <1>12. InOrderUpdate'
    <2>1. InOrderJob(job'[r], exe', new', old', more', image', mode') BY <1>1, <1>6
    <2> QED BY <1>1, <1>2, <1>5, <2>1, OneInOrder
  <1>13. job'[r].at = "updated" => job[r].i = Len(job[r].targets) BY <1>5
  <1> QED BY <1>6, <1>8, <1>10, <1>11, <1>12, <1>13

LEMMA PutBackKeeps == ASSUME Installed, UpdateInv, NEW r \in Processes, U!PutBack(r) PROVE UpdateInv'
  <1> USE DEF UpdateInv
  <1> DEFINE e == job[r].aside[Len(job[r].aside)]
             p == e[1]
             slot == e[2]
             was == e[3]
  <1>1. /\ job[r].at = "back" /\ job[r].aside # <<>>
        /\ IF (IF slot = "old" THEN old[p] = was ELSE was \in more[p]) /\ ~U!InUse(p, "exe")
           THEN /\ exe' = [exe EXCEPT ![p] = was]
                /\ IF slot = "old" THEN old' = [old EXCEPT ![p] = None] /\ more' = more
                   ELSE more' = [more EXCEPT ![p] = @ \ {was}] /\ old' = old
                /\ U!Follow(p, slot, "exe")
           ELSE UNCHANGED <<exe, old, more, image>>
        /\ job' = [job EXCEPT ![r].aside = SubSeq(job[r].aside, 1, Len(job[r].aside) - 1)]
        /\ new' = new /\ build' = build /\ mode' = mode
        /\ extension' = extension /\ staged' = staged /\ moved' = moved
    BY DEF U!PutBack, U!folders, U!Back, U!Last, U!Front
  <1>2. "back" \in Updating /\ "back" \notin U!Cleaning BY PhaseNames
  <1>3. InOrderJob(job[r], exe, new, old, more, image, mode) /\ job[r] \in JobSet /\ mode \in {"cutOff", "beside"} BY InOrderNow
  <1>4. /\ job[r].aside \in Seq(MovedAside) /\ Len(job[r].aside) \in Nat /\ Len(job[r].aside) > 0
        /\ DOMAIN job[r].aside = 1 .. Len(job[r].aside)
    BY <1>1, <1>3 DEF JobSet
  <1>5. e \in MovedAside /\ p \in Own /\ was \in U!Releases /\ slot \in {"old", "more"}
    <2>1. e \in MovedAside BY <1>4
    <2> HIDE DEF e
    <2> QED BY <2>1 DEF MovedAside
  <1>6. Len(job[r].aside) \in DOMAIN job[r].aside BY <1>4
  <1>a. e = job[r].aside[Len(job[r].aside)] OBVIOUS
  <1>b. p = e[1] /\ slot = e[2] /\ was = e[3] OBVIOUS
  <1> HIDE DEF e, p, slot, was
  <1> DEFINE f == SubSeq(job[r].aside, 1, Len(job[r].aside) - 1)
             j == [job[r] EXCEPT !.aside = f]
  <1>7. /\ f \in Seq(MovedAside) /\ Len(f) = Len(job[r].aside) - 1 /\ \A k \in DOMAIN f : f[k] = job[r].aside[k]
    <2>1. /\ 1 \in 1 .. Len(job[r].aside) + 1 /\ Len(job[r].aside) - 1 \in 0 .. Len(job[r].aside) BY <1>4
    <2>2. /\ f \in Seq(MovedAside)
          /\ Len(f) = IF 1 <= Len(job[r].aside) - 1 THEN (Len(job[r].aside) - 1) - 1 + 1 ELSE 0
          /\ \A k \in 1 .. (Len(job[r].aside) - 1) - 1 + 1 : f[k] = job[r].aside[1 + k - 1]
      BY <1>4, <2>1, SubSeqProperties
    <2> HIDE DEF f
    <2>3. DOMAIN f = 1 .. Len(f) BY <2>2
    <2> QED BY <1>4, <2>2, <2>3
  <1>8. job' = [job EXCEPT ![r] = j] BY <1>1 DEF TypedUpdate
  <1> HIDE DEF f
  <1>9. /\ j \in JobSet /\ j.at = job[r].at /\ j.aside = f /\ j.to = job[r].to /\ j.targets = job[r].targets /\ j.before = job[r].before
    BY <1>3, <1>7 DEF JobSet
  <1> HIDE DEF j
  <1>10. /\ job' \in [Processes -> JobSet] /\ job'[r] = j /\ \A t \in Processes \ {r} : job'[t] = job[t]
    BY <1>8, <1>9, JobsTyped DEF TypedUpdate
  <1>11. \/ /\ There(e, old, more) /\ exe'[p] = was /\ \A q \in Own : q # p => exe'[q] = exe[q] /\ old'[q] = old[q] /\ more'[q] = more[q]
            /\ \A t \in Processes : image'[t] = "exe" => image[t] = "exe" \/ Runs[t] = p
            /\ exe' \in [Own -> U!File] /\ old' \in [Own -> U!File] /\ more' \in [Own -> SUBSET U!Releases]
            /\ image' \in [Processes -> {"none", "exe", "old", "more"}]
         \/ /\ ~(There(e, old, more) /\ \A t \in Processes : ~(Runs[t] = p /\ image[t] = "exe"))
            /\ exe' = exe /\ old' = old /\ more' = more /\ image' = image
    <2>1. (IF slot = "old" THEN old[p] = was ELSE was \in more[p]) <=> There(e, old, more) BY <1>b DEF There
    <2>2. U!InUse(p, "exe") <=> \E t \in Processes : Runs[t] = p /\ image[t] = "exe" BY DEF U!InUse
    <2>3. CASE There(e, old, more) /\ ~U!InUse(p, "exe")
      <3>1. /\ exe' = [exe EXCEPT ![p] = was] /\ U!Follow(p, slot, "exe")
            /\ IF slot = "old" THEN old' = [old EXCEPT ![p] = None] /\ more' = more
                   ELSE more' = [more EXCEPT ![p] = @ \ {was}] /\ old' = old
        BY <1>1, <2>1, <2>3
      <3>2. exe' \in [Own -> U!File] /\ exe'[p] = was /\ \A q \in Own : q # p => exe'[q] = exe[q]
        BY <1>5, <3>1 DEF TypedUpdate, U!File
      <3>3. /\ old' \in [Own -> U!File] /\ more' \in [Own -> SUBSET U!Releases]
            /\ \A q \in Own : q # p => old'[q] = old[q] /\ more'[q] = more[q]
        BY <1>5, <3>1 DEF TypedUpdate, U!File
      <3>4. /\ image' \in [Processes -> {"none", "exe", "old", "more"}]
            /\ \A t \in Processes : image'[t] = "exe" => image[t] = "exe" \/ Runs[t] = p
        BY <3>1 DEF U!Follow, TypedUpdate
      <3> QED BY <2>3, <3>2, <3>3, <3>4
    <2>4. CASE ~(There(e, old, more) /\ ~U!InUse(p, "exe"))
      <3>1. exe' = exe /\ old' = old /\ more' = more /\ image' = image BY <1>1, <2>1, <2>4
      <3> QED BY <2>2, <2>4, <3>1
    <2> QED BY <2>3, <2>4
  <1>12. /\ exe' \in [Own -> U!File] /\ old' \in [Own -> U!File] /\ more' \in [Own -> SUBSET U!Releases]
         /\ image' \in [Processes -> {"none", "exe", "old", "more"}]
         /\ \A q \in Own : exe[q] # None => exe'[q] # None
         /\ \A q \in Own : exe'[q] # Torn /\ (exe'[q] = None => exe[q] = None)
         /\ \A t \in Processes : image'[t] = "exe" => image[t] = "exe" \/ exe'[Runs[t]] # None
    <2>1. was # None /\ was # Torn BY <1>5 DEF Installed
    <2>2. CASE exe' = exe /\ old' = old /\ more' = more /\ image' = image BY <2>2 DEF TypedUpdate, Whole
    <2>3. CASE /\ exe'[p] = was /\ \A q \in Own : q # p => exe'[q] = exe[q]
               /\ \A t \in Processes : image'[t] = "exe" => image[t] = "exe" \/ Runs[t] = p
               /\ exe' \in [Own -> U!File] /\ old' \in [Own -> U!File] /\ more' \in [Own -> SUBSET U!Releases]
               /\ image' \in [Processes -> {"none", "exe", "old", "more"}]
      BY <2>1, <2>3 DEF Whole
    <2> QED BY <1>11, <2>2, <2>3
  <1>13. TypedUpdate' BY <1>1, <1>10, <1>12 DEF TypedUpdate
  <1>14. Apart' /\ Seen' /\ Extended'
    <2>1. staged' \in U!File \ {Torn} BY <1>1 DEF Extended, TypedUpdate
    <2>2. job[r].at = "back" /\ job'[r].at = "back" BY <1>1, <1>9, <1>10
    <2>3. mode' = mode /\ extension' = extension /\ moved' = moved BY <1>1
    <2> QED BY <1>2, <1>10, <1>12, <2>1, <2>2, <2>3, UpdateGoesOn
  <1>15. Whole'
    <2>1. \A q \in Own : /\ exe'[q] # Torn /\ (new'[q] = Torn => exe'[q] # None)
                         /\ exe'[q] = None => exe[q] = None /\ (mode = "cutOff" => new'[q] \in U!Releases)
      BY <1>1, <1>12 DEF Whole
    <2> QED BY <1>1, <1>2, <1>9, <1>10, <2>1, WholeKept
  <1>16. InOrderUpdate'
    <2>1. exe[p] = None => \A t \in Processes : ~(Runs[t] = p /\ image[t] = "exe") BY DEF Seen
    <2>2. PutsBack(p, e, job[r], j, exe, old, more, image, exe', old', more', image')
      BY <1>1, <1>3, <1>5, <1>7, <1>9, <1>11, <1>a, <1>b, <2>1 DEF PutsBack
    <2>3. InOrderJob(j, exe', new, old', more', image', mode) BY <1>3, <2>2, OneFewerAside
    <2>4. InOrderJob(job'[r], exe', new', old', more', image', mode') BY <1>1, <1>10, <2>3
    <2> QED BY <1>1, <1>2, <1>10, <2>4, OneInOrder
  <1> QED BY <1>13, <1>14, <1>15, <1>16

LEMMA TidyKeeps == ASSUME Installed, UpdateInv, NEW r \in Processes, U!Tidy(r) PROVE UpdateInv'
  <1> USE DEF UpdateInv
  <1>1. /\ job[r].at = "tidy" /\ job' = job
        /\ exe' = exe /\ old' = old /\ more' = more /\ image' = image /\ build' = build /\ mode' = mode
        /\ extension' = extension /\ staged' = staged /\ moved' = moved
    BY DEF U!Tidy, U!folders
  <1>p. PICK p \in U!ToSet(job[r].targets) : new' = [new EXCEPT ![p] = None] BY DEF U!Tidy
  <1>2. "tidy" \in Updating /\ "tidy" \notin U!Cleaning /\ "tidy" \notin Preparing \cup Swapping
    BY PhaseNames DEF Preparing, Swapping
  <1>3. InOrderJob(job[r], exe, new, old, more, image, mode) /\ job[r] \in JobSet BY InOrderNow
  <1>4. p \in Own /\ exe[p] # None
    <2>1. PICK k \in DOMAIN job[r].targets : p = job[r].targets[k] BY DEF U!ToSet
    <2>2. p \in Own BY <1>3, <2>1 DEF JobSet
    <2>3. exe[p] # None BY <1>1, <1>2, <2>1, AllThere
    <2> QED BY <2>2, <2>3
  <1>5. new' \in [Own -> U!File] /\ \A q \in Own : new'[q] = new[q] \/ (new'[q] = None /\ exe[q] # None)
    BY <1>p, <1>4 DEF TypedUpdate, U!File
  <1>6. TypedUpdate' BY <1>1, <1>5 DEF TypedUpdate
  <1>7. Apart' /\ Seen' /\ Extended'
    <2>1. staged' \in U!File \ {Torn} BY <1>1 DEF Extended, TypedUpdate
    <2>2. job' \in [Processes -> JobSet] BY <1>1 DEF TypedUpdate
    <2> QED BY <1>1, <1>2, <2>1, <2>2, UpdateGoesOn
  <1>8. Whole'
    <2>1. \A q \in Own : /\ exe'[q] # Torn /\ (new'[q] = Torn => exe'[q] # None)
                         /\ exe'[q] = None => exe[q] = None /\ (mode = "cutOff" => new'[q] \in U!Releases)
      BY <1>1, <1>5 DEF Whole, Installed
    <2> QED BY <1>1, <1>2, <2>1, WholeKept
  <1>9. InOrderUpdate'
    <2>1. InOrderJob(job[r], exe, new', old, more, image, mode) BY <1>1, <1>2, <1>3 DEF InOrderJob, Prepared
    <2>2. InOrderJob(job'[r], exe', new', old', more', image', mode') BY <1>1, <2>1
    <2> QED BY <1>1, <1>2, <2>2, OneInOrder
  <1> QED BY <1>6, <1>7, <1>8, <1>9

(* The extension is moved aside, in, or back: the programs are as they were. *)
LEMMA ExtensionKeeps ==
  ASSUME Installed, UpdateInv, NEW r \in Processes, job[r].at \in Extending, NEW a \in Extending \cup {"updated"}, U!Job(r, a),
         UNCHANGED <<U!programs, image, build, mode>>,
         extension' \in U!File \ {Torn}, staged' \in U!File \ {Torn}, moved' \in Seq(U!Releases \cup {Torn}),
         extension' = None => moved' # <<>> /\ moved'[Len(moved')] \in U!Releases,
         extension' = None => extension = None \/ U!Quiet,
         a = "extOld" => extension' # None
  PROVE  UpdateInv'
  <1> USE DEF UpdateInv
  <1>1. exe' = exe /\ new' = new /\ old' = old /\ more' = more /\ image' = image /\ build' = build /\ mode' = mode
    BY DEF U!programs
  <1>2. /\ a \in U!Idle \cup Updating /\ a \notin U!Cleaning /\ job[r].at \in Updating \ {"in", "back"}
        /\ a \in Extending => a \in Updating
    BY PhaseNames DEF Extending
  <1>3. /\ job' \in [Processes -> JobSet] /\ \A s \in Processes \ {r} : job'[s] = job[s]
        /\ job'[r] = [job[r] EXCEPT !.at = a] /\ job'[r].at = a
    BY <1>2, JobTurns
  <1>4. job'[r].targets = job[r].targets BY <1>3 DEF TypedUpdate, JobSet
  <1>5. TypedUpdate' BY <1>1, <1>3 DEF TypedUpdate
  <1>6. Apart' BY <1>1, <1>2, <1>3, ApartKept
  <1>7. Whole'
    <2>1. \A k \in DOMAIN job[r].targets : exe'[job[r].targets[k]] # None BY <1>1, <1>2, AllThere
    <2> QED BY <1>1, <1>3, <2>1, WholeKept DEF Whole
  <1>8. Seen'
    <2> SUFFICES ASSUME NEW t \in Processes
                 PROVE  /\ image'[t] = "exe" => exe'[Runs[t]] # None
                        /\ job'[t].at = "clear" =>
                             /\ \A p \in Own : p \in job'[t].todo => exe'[p] # None
                             /\ "extension" \in job'[t].todo => extension' # None
      BY DEF Seen
    <2>1. CASE t = r
      <3>1. job'[t].at # "clear" BY <1>2, <1>3, <2>1, PhaseNames
      <3> QED BY <1>1, <3>1 DEF Seen
    <2>2. CASE t # r
      <3>1. job'[t] = job[t] BY <1>3, <2>2
      <3> QED BY <1>1, <3>1 DEF Seen, U!Quiet
    <2> QED BY <2>1, <2>2
  <1>9. Extended'
    <2>1. \A t \in Processes : job'[t].at = "extOld" => t = r
      <3>1. \A t \in Processes : job[t].at = "extOld" => t = r BY <1>2, PhaseNames DEF Apart
      <3> QED BY <1>3, <3>1
    <2> QED BY <1>3, <2>1 DEF Extended, U!Releases
  <1>10. InOrderUpdate'
    <2>1. InOrderJob(job[r], exe, new, old, more, image, mode) /\ job[r] \in JobSet BY InOrderNow
    <2>2. InOrderJob([job[r] EXCEPT !.at = a], exe, new, old, more, image, mode)
      <3>1. CASE a \in Extending BY <2>1, <3>1, ExtensionInOrder
      <3>2. CASE a = "updated" BY <2>1, <3>2, EndsInOrder
      <3> QED BY <3>1, <3>2
    <2>3. InOrderJob(job'[r], exe', new', old', more', image', mode') BY <1>1, <1>3, <2>2
    <2> QED BY <1>2, <1>3, <2>3, OneInOrder
  <1> QED BY <1>5, <1>6, <1>7, <1>8, <1>9, <1>10

(* What is last in a sequence, and what is before it. *)
LEMMA LastAndFront ==
  ASSUME NEW S, NEW q \in Seq(S), NEW v \in S
  PROVE  /\ Append(q, v) \in Seq(S) /\ Append(q, v) # <<>> /\ Append(q, v)[Len(Append(q, v))] = v
         /\ q # <<>> => SubSeq(q, 1, Len(q) - 1) \in Seq(S) /\ q[Len(q)] \in S
         /\ q # <<>> => [q EXCEPT ![Len(q)] = v] \in Seq(S)
  <1>1. /\ Append(q, v) \in Seq(S) /\ Len(Append(q, v)) = Len(q) + 1 /\ Append(q, v)[Len(q) + 1] = v BY AppendProperties
  <1>2. Append(q, v) # <<>>
    <2> DEFINE a == Append(q, v)
    <2>1. Len(a) # 0 BY <1>1
    <2> HIDE DEF a
    <2>2. a # <<>> BY <2>1
    <2> QED BY <2>2 DEF a
  <1>3. ASSUME q # <<>> PROVE SubSeq(q, 1, Len(q) - 1) \in Seq(S) /\ q[Len(q)] \in S /\ [q EXCEPT ![Len(q)] = v] \in Seq(S)
    <2>1. Len(q) \in Nat /\ Len(q) > 0 BY <1>3
    <2>2. 1 \in 1 .. Len(q) + 1 /\ Len(q) - 1 \in 0 .. Len(q) /\ Len(q) \in 1 .. Len(q) BY <2>1
    <2>3. SubSeq(q, 1, Len(q) - 1) \in Seq(S) BY <2>2, SubSeqProperties
    <2>4. [q EXCEPT ![Len(q)] = v] \in Seq(S) BY <2>2, ExceptSeq
    <2> QED BY <2>2, <2>3, <2>4
  <1> QED BY <1>1, <1>2, <1>3

LEMMA ExtensionAsideKeeps == ASSUME Installed, UpdateInv, NEW r \in Processes, U!ExtensionAside(r) PROVE UpdateInv'
  <1> USE DEF UpdateInv
  <1>1. /\ job[r].at \in Extending /\ U!Job(r, "extIn") /\ "extIn" \in Extending /\ U!Quiet /\ extension # None
        /\ moved' = Append(moved, extension) /\ extension' = None /\ staged' = staged
        /\ UNCHANGED <<U!programs, image, build, mode>>
    BY PhaseNames DEF U!ExtensionAside
  <1>2. extension \in U!Releases BY <1>1 DEF TypedUpdate, Extended, U!File
  <1>3. /\ moved' \in Seq(U!Releases \cup {Torn}) /\ moved' # <<>> /\ moved'[Len(moved')] = extension
    <2>1. moved \in Seq(U!Releases \cup {Torn}) /\ extension \in U!Releases \cup {Torn} BY <1>2 DEF TypedUpdate
    <2> DEFINE a == Append(moved, extension)
    <2>2. a \in Seq(U!Releases \cup {Torn}) /\ a # <<>> /\ a[Len(a)] = extension BY <2>1, LastAndFront
    <2>3. moved' = a BY <1>1
    <2> HIDE DEF a
    <2> QED BY <2>2, <2>3
  <1>4. extension' \in U!File \ {Torn} /\ staged' \in U!File \ {Torn} BY <1>1 DEF U!File, Installed, TypedUpdate, Extended
  <1> QED BY <1>1, <1>2, <1>3, <1>4, ExtensionKeeps

LEMMA ExtensionInKeeps == ASSUME Installed, UpdateInv, NEW r \in Processes, U!ExtensionIn(r) PROVE UpdateInv'
  <1> USE DEF UpdateInv
  <1>1. /\ job[r].at \in Extending /\ U!Job(r, "extOld") /\ "extOld" \in Extending /\ staged # None
        /\ extension' = staged /\ staged' = None /\ moved' = moved
        /\ UNCHANGED <<U!programs, image, build, mode>>
    BY PhaseNames DEF U!ExtensionIn
  <1>2. /\ extension' \in U!File \ {Torn} /\ extension' # None /\ staged' \in U!File \ {Torn} /\ moved' \in Seq(U!Releases \cup {Torn})
    BY <1>1 DEF U!File, Installed, TypedUpdate, Extended
  <1> QED BY <1>1, <1>2, ExtensionKeeps

LEMMA ExtensionBackKeeps == ASSUME Installed, UpdateInv, NEW r \in Processes, U!ExtensionBack(r) PROVE UpdateInv'
  <1> USE DEF UpdateInv
  <1>1. /\ job[r].at \in Extending /\ U!Job(r, "updated") /\ staged' = None
        /\ UNCHANGED <<U!programs, image, build, mode>>
        /\ \/ extension = None /\ moved # <<>> /\ extension' = moved[Len(moved)] /\ moved' = SubSeq(moved, 1, Len(moved) - 1)
           \/ extension' = extension /\ moved' = moved
    BY PhaseNames DEF U!ExtensionBack, U!Last, U!Front
  <1>2. /\ extension' \in U!File \ {Torn} /\ moved' \in Seq(U!Releases \cup {Torn})
        /\ extension' = None => moved' = moved /\ extension = None
    <2>1. CASE extension = None /\ moved # <<>> /\ extension' = moved[Len(moved)] /\ moved' = SubSeq(moved, 1, Len(moved) - 1)
      <3>1. moved[Len(moved)] \in U!Releases BY <2>1 DEF Extended
      <3>2. moved \in Seq(U!Releases \cup {Torn}) BY DEF TypedUpdate
      <3>3. SubSeq(moved, 1, Len(moved) - 1) \in Seq(U!Releases \cup {Torn}) BY <2>1, <3>1, <3>2, LastAndFront
      <3> QED BY <2>1, <3>1, <3>3 DEF U!File, Installed
    <2>2. CASE extension' = extension /\ moved' = moved BY <2>2 DEF TypedUpdate, Extended
    <2> QED BY <1>1, <2>1, <2>2
  <1>3. staged' \in U!File \ {Torn} BY <1>1 DEF U!File, Installed
  <1>4. extension' = None => moved' # <<>> /\ moved'[Len(moved')] \in U!Releases BY <1>2 DEF Extended
  <1> QED BY <1>1, <1>2, <1>3, <1>4, ExtensionKeeps

LEMMA DeleteExtensionKeeps == ASSUME Installed, UpdateInv, NEW r \in Processes, U!DeleteExtension(r) PROVE UpdateInv'
  <1> USE DEF UpdateInv
  <1>1. /\ job[r].at = "extOld" /\ UNCHANGED <<U!programs, extension, staged, image, build, mode>>
        /\ \/ U!Job(r, "updated") /\ moved' \in {moved, SubSeq(moved, 1, Len(moved) - 1)} /\ (moved = <<>> => moved' = moved)
           \/ job' = job /\ moved # <<>> /\ moved' = [moved EXCEPT ![Len(moved)] = Torn]
    BY DEF U!DeleteExtension, U!Last, U!Front
  <1>j. U!Job(r, "updated") \/ job' = job BY <1>1
  <1>2. extension # None /\ extension \in U!File \ {Torn} /\ staged \in U!File \ {Torn} BY <1>1 DEF Extended, TypedUpdate
  <1>3. "extOld" \in Extending BY PhaseNames
  <1>4. moved' \in Seq(U!Releases \cup {Torn})
    <2>1. moved \in Seq(U!Releases \cup {Torn}) /\ Torn \in U!Releases \cup {Torn} BY DEF TypedUpdate
    <2>2. /\ moved # <<>> => SubSeq(moved, 1, Len(moved) - 1) \in Seq(U!Releases \cup {Torn})
          /\ moved # <<>> => [moved EXCEPT ![Len(moved)] = Torn] \in Seq(U!Releases \cup {Torn})
      BY <2>1, LastAndFront
    <2>3. CASE moved' = moved BY <2>1, <2>3
    <2>4. CASE moved # <<>> /\ moved' = SubSeq(moved, 1, Len(moved) - 1) BY <2>2, <2>4
    <2>5. CASE moved # <<>> /\ moved' = [moved EXCEPT ![Len(moved)] = Torn] BY <2>2, <2>5
    <2> QED BY <1>1, <2>3, <2>4, <2>5
  <1>5. CASE U!Job(r, "updated")
    <2>1. extension' = extension /\ staged' = staged /\ UNCHANGED <<U!programs, image, build, mode>> BY <1>1
    <2> QED BY <1>1, <1>2, <1>3, <1>4, <1>5, <2>1, ExtensionKeeps
  <1>6. CASE job' = job
    <2>1. U!Job(r, "extOld")
      <3>1. job[r] \in JobSet /\ job \in [Processes -> JobSet] BY DEF TypedUpdate
      <3>2. [job[r] EXCEPT !.at = "extOld"] = job[r] BY <1>1, <3>1 DEF JobSet
      <3>3. [job EXCEPT ![r] = job[r]] = job BY <3>1
      <3> QED BY <1>6, <3>2, <3>3 DEF U!Job
    <2>2. extension' = extension /\ staged' = staged /\ UNCHANGED <<U!programs, image, build, mode>> BY <1>1
    <2> QED BY <1>1, <1>2, <1>3, <1>4, <2>1, <2>2, ExtensionKeeps
  <1> QED BY <1>j, <1>5, <1>6

LEMMA UpdateKept == ASSUME UpdateInv, UNCHANGED U!vars PROVE UpdateInv'
  <1>1. /\ exe' = exe /\ new' = new /\ old' = old /\ more' = more
        /\ extension' = extension /\ staged' = staged /\ moved' = moved
        /\ image' = image /\ build' = build /\ job' = job /\ mode' = mode
    BY DEF U!vars, U!programs, U!folders
  <1>2. TypedUpdate' BY <1>1 DEF UpdateInv, TypedUpdate
  <1>3. Apart' BY <1>1 DEF UpdateInv, Apart
  <1>4. Whole' BY <1>1 DEF UpdateInv, Whole
  <1>5. Seen' BY <1>1 DEF UpdateInv, Seen
  <1>6. Extended' BY <1>1 DEF UpdateInv, Extended
  <1>7. InOrderUpdate' BY <1>1 DEF UpdateInv, InOrderUpdate
  <1> QED BY <1>2, <1>3, <1>4, <1>5, <1>6, <1>7 DEF UpdateInv

LEMMA UpdateNext == ASSUME Installed, UpdateInv, U!Next PROVE UpdateInv'
  <1> PICK r \in Processes : U!Steps(r) BY DEF U!Next
  <1>1. CASE U!Start(r) BY <1>1, StartKeeps
  <1>2. CASE U!FinishSwap(r) BY <1>2, FinishSwapKeeps
  <1>3. CASE U!PutBackExtension(r) BY <1>3, PutBackExtensionKeeps
  <1>4. CASE U!List(r) BY <1>4, ListKeeps
  <1>5. CASE U!ClearProgram(r) BY <1>5, ClearProgramKeeps
  <1>6. CASE U!ClearExtension(r) BY <1>6, ClearExtensionKeeps
  <1>7. CASE U!Cleared(r) BY <1>7, ClearedKeeps
  <1>8. CASE U!Install(r) BY <1>8, InstallKeeps
  <1>9. CASE U!CreateNew(r) BY <1>9, CreateNewKeeps
  <1>10. CASE U!WriteNew(r) BY <1>10, WriteNewKeeps
  <1>11. CASE U!Unpack(r) BY <1>11, UnpackKeeps
  <1>12. CASE U!NotReady(r) BY <1>12, NotReadyKeeps
  <1>13. CASE U!NameOld(r) BY <1>13, NameOldKeeps
  <1>14. CASE U!MoveAside(r) BY <1>14, MoveAsideKeeps
  <1>15. CASE U!MoveIn(r) BY <1>15, MoveInKeeps
  <1>16. CASE U!NotMoved(r) BY <1>16, NotMovedKeeps
  <1>17. CASE U!PutBack(r) BY <1>17, PutBackKeeps
  <1>18. CASE U!AllBack(r) BY <1>18, AllBackKeeps
  <1>19. CASE U!Tidy(r) BY <1>19, TidyKeeps
  <1>20. CASE U!Tidied(r) BY <1>20, TidiedKeeps
  <1>21. CASE U!ExtensionAside(r) BY <1>21, ExtensionAsideKeeps
  <1>22. CASE U!ExtensionStays(r) BY <1>22, ExtensionStaysKeeps
  <1>23. CASE U!ExtensionIn(r) BY <1>23, ExtensionInKeeps
  <1>24. CASE U!ExtensionBack(r) BY <1>24, ExtensionBackKeeps
  <1>25. CASE U!DeleteExtension(r) BY <1>25, DeleteExtensionKeeps
  <1>26. CASE U!DeletionFails(r) BY <1>26, DeletionFailsKeeps
  <1>27. CASE U!Exit(r) BY <1>27, ExitKeeps
  <1>28. CASE U!CutOff(r) BY <1>28, CutOffKeeps
  <1> QED BY <1>1, <1>2, <1>3, <1>4, <1>5, <1>6, <1>7, <1>8, <1>9, <1>10, <1>11, <1>12, <1>13, <1>14, <1>15, <1>16, <1>17, <1>18, <1>19,
             <1>20, <1>21, <1>22, <1>23, <1>24, <1>25, <1>26, <1>27, <1>28 DEF U!Steps

LEMMA NothingIsLost == ASSUME Installed, UpdateInv PROVE U!TypeOK /\ U!NothingLost
  <1> USE DEF UpdateInv
  <1>1. U!TypeOK BY TheTwo DEF U!TypeOK, TypedUpdate
  <1>2. ASSUME NEW p \in Own PROVE exe[p] # Torn /\ ({exe[p], new[p], old[p]} \cup more[p]) \cap U!Releases # {}
    <2>1. exe[p] \in U!File /\ exe[p] # Torn BY <1>2 DEF TypedUpdate, Whole
    <2>2. CASE exe[p] # None BY <2>1, <2>2 DEF U!File
    <2>3. CASE exe[p] = None /\ mode = "cutOff" BY <1>2, <2>3 DEF Whole
    <2>4. CASE exe[p] = None /\ mode # "cutOff"
      <3>1. PICK r \in Processes : job[r].at \in Updating /\ \E k \in DOMAIN job[r].targets : job[r].targets[k] = p
        BY <1>2, <2>4 DEF Whole
      <3>2. PICK l \in DOMAIN job[r].targets : job[r].targets[l] = p BY <3>1
      <3>3. Present(job[r], exe, old, more) /\ job[r] \in JobSet BY InOrderNow DEF InOrderJob
      <3>4. PICK k \in DOMAIN job[r].aside : job[r].aside[k][1] = p /\ There(job[r].aside[k], old, more)
        BY <2>4, <3>1, <3>2, <3>3 DEF Present
      <3>5. job[r].aside[k] \in MovedAside BY <3>3 DEF JobSet
      <3> DEFINE e == job[r].aside[k]
      <3>6. e \in MovedAside /\ e[1] = p /\ There(e, old, more) BY <3>4, <3>5
      <3> HIDE DEF e
      <3>7. e[3] \in U!Releases /\ e[3] \in {old[p]} \cup more[p] BY <3>6 DEF There, MovedAside
      <3> QED BY <2>1, <3>7
    <2> QED BY <2>2, <2>3, <2>4
  <1>3. extension # Torn /\ (extension = None => \E i \in DOMAIN moved : moved[i] \in U!Releases)
    <2>1. moved # <<>> => Len(moved) \in DOMAIN moved BY DEF TypedUpdate
    <2> QED BY <2>1 DEF Extended
  <1> QED BY <1>1, <1>2, <1>3, TheTwo DEF U!NothingLost

(* At every step of an update, whoever is cut off in it or starts beside it: a program or the extension   *)
(* has its name, or left a whole build of it; and what has the name is whole (updater.rs: put_in_place,    *)
(* swap, cleanup_in).                                                                                        *)
THEOREM UpdateSurvives == ASSUME Installed PROVE U!Spec => [](U!TypeOK /\ U!NothingLost)
  <1>1. U!Init => UpdateInv BY UpdateInit
  <1>2. UpdateInv /\ [U!Next]_(U!vars) => UpdateInv' BY UpdateNext, UpdateKept
  <1>3. UpdateInv => U!TypeOK /\ U!NothingLost BY NothingIsLost
  <1> QED BY <1>1, <1>2, <1>3, PTL DEF U!Spec

-----------------------------------------------------------------------------
(* How an update ends. *)
EndsOf(r) ==
  /\ \A t \in Processes \ {r} : job'[t] = job[t]
  /\ job[r].at # "updated" /\ job'[r].at = "updated" => U!MoveIn(r) \/ (job[r].at \in Extending /\ exe' = exe)
  /\ job[r].at = "tidy" /\ job'[r].at = "runs" => exe' = exe

LEMMA StepsEnd == ASSUME Installed, TypedUpdate, NEW r \in Processes, U!Steps(r) PROVE EndsOf(r)
  <1> USE DEF EndsOf
  <1>0. job \in [Processes -> JobSet] BY DEF TypedUpdate
  <1>1. CASE U!Start(r) BY <1>0, <1>1 DEF U!Start, U!Off, JobSet, U!programs, Extending
  <1>2. CASE U!FinishSwap(r) BY <1>0, <1>2 DEF U!FinishSwap, U!Turn, JobSet, U!programs, Extending
  <1>3. CASE U!PutBackExtension(r) BY <1>0, <1>3 DEF U!PutBackExtension, U!Job, JobSet, U!programs, Extending
  <1>4. CASE U!List(r) BY <1>0, <1>4 DEF U!List, U!Job, JobSet, U!programs, Extending
  <1>5. CASE U!ClearProgram(r) BY <1>0, <1>5 DEF U!ClearProgram, U!Job, JobSet, U!programs, Extending
  <1>6. CASE U!ClearExtension(r) BY <1>0, <1>6 DEF U!ClearExtension, U!Job, JobSet, U!programs, Extending
  <1>7. CASE U!Cleared(r) BY <1>0, <1>7 DEF U!Cleared, U!Job, JobSet, U!programs, Extending
  <1>8. CASE U!Install(r) BY <1>0, <1>8 DEF U!Install, U!Job, JobSet, U!programs, Extending
  <1>9. CASE U!CreateNew(r) BY <1>0, <1>9 DEF U!CreateNew, U!Job, JobSet, U!programs, Extending
  <1>10. CASE U!WriteNew(r) BY <1>0, <1>10 DEF U!WriteNew, U!Turn, JobSet, U!programs, Extending
  <1>11. CASE U!Unpack(r) BY <1>0, <1>11 DEF U!Unpack, U!Job, JobSet, U!programs, Extending
  <1>12. CASE U!NotReady(r) BY <1>0, <1>12 DEF U!NotReady, U!Job, JobSet, U!programs, Extending
  <1>13. CASE U!NameOld(r) BY <1>0, <1>13 DEF U!NameOld, U!Job, JobSet, U!programs, Extending
  <1>14. CASE U!MoveAside(r) BY <1>0, <1>14 DEF U!MoveAside, U!Job, JobSet, U!programs, Extending
  <1>15. CASE U!MoveIn(r) BY <1>0, <1>15 DEF U!MoveIn, U!Turn, U!Job, JobSet, U!programs, Extending
  <1>16. CASE U!NotMoved(r) BY <1>0, <1>16 DEF U!NotMoved, U!Job, JobSet, U!programs, Extending
  <1>17. CASE U!PutBack(r) BY <1>0, <1>17 DEF U!PutBack, U!Job, JobSet, U!programs, Extending
  <1>18. CASE U!AllBack(r) BY <1>0, <1>18 DEF U!AllBack, U!Job, JobSet, U!programs, Extending
  <1>19. CASE U!Tidy(r) BY <1>0, <1>19 DEF U!Tidy, U!Job, JobSet, U!programs, Extending
  <1>20. CASE U!Tidied(r) BY <1>0, <1>20 DEF U!Tidied, U!Job, JobSet, U!programs, Extending
  <1>21. CASE U!ExtensionAside(r) BY <1>0, <1>21 DEF U!ExtensionAside, U!Job, JobSet, U!programs, Extending
  <1>22. CASE U!ExtensionStays(r) BY <1>0, <1>22 DEF U!ExtensionStays, U!Job, JobSet, U!programs, Extending
  <1>23. CASE U!ExtensionIn(r) BY <1>0, <1>23 DEF U!ExtensionIn, U!Job, JobSet, U!programs, Extending
  <1>24. CASE U!ExtensionBack(r) BY <1>0, <1>24 DEF U!ExtensionBack, U!Job, JobSet, U!programs, Extending
  <1>25. CASE U!DeleteExtension(r) BY <1>0, <1>25 DEF U!DeleteExtension, U!Job, JobSet, U!programs, Extending
  <1>26. CASE U!DeletionFails(r) BY <1>0, <1>26 DEF U!DeletionFails, U!Job, JobSet, U!programs, Extending
  <1>27. CASE U!Exit(r) BY <1>0, <1>27 DEF U!Exit, U!Ends, U!Off, JobSet, U!programs, Extending
  <1>28. CASE U!CutOff(r) BY <1>0, <1>28 DEF U!CutOff, U!Ends, U!Off, JobSet, U!programs, Extending
  <1> QED BY <1>1, <1>2, <1>3, <1>4, <1>5, <1>6, <1>7, <1>8, <1>9, <1>10, <1>11, <1>12, <1>13, <1>14,
             <1>15, <1>16, <1>17, <1>18, <1>19, <1>20, <1>21, <1>22, <1>23, <1>24, <1>25, <1>26, <1>27, <1>28 DEF U!Steps

LEMMA AllOrNoneStep == ASSUME Installed, UpdateInv, [U!Next]_(U!vars) PROVE U!ReplacesAllOrNone
  <1> USE DEF UpdateInv
  <1>1. CASE UNCHANGED U!vars BY <1>1 DEF U!vars, U!ReplacesAllOrNone
  <1>2. CASE U!Next
    <2>s. PICK s \in Processes : U!Steps(s) BY <1>2 DEF U!Next
    <2>1. EndsOf(s) BY <2>s, StepsEnd
    <2> SUFFICES ASSUME NEW r \in Processes
                 PROVE  /\ job[r].at # "updated" /\ job'[r].at = "updated" =>
                             \A p \in U!ToSet(job[r].targets) : exe'[p] = job[r].to
                        /\ job[r].at = "tidy" /\ job'[r].at = "runs" => exe' = job[r].before \/ mode # "cutOff"
      BY DEF U!ReplacesAllOrNone
    <2>2. CASE r # s BY <2>1, <2>2 DEF EndsOf
    <2>3. CASE r = s
      <3>1. InOrderJob(job[r], exe, new, old, more, image, mode) /\ job[r] \in JobSet BY InOrderNow
      <3>2. ASSUME job[r].at # "updated", job'[r].at = "updated"
            PROVE  \A p \in U!ToSet(job[r].targets) : exe'[p] = job[r].to
        <4>1. \A k \in DOMAIN job[r].targets : exe'[job[r].targets[k]] = job[r].to
          <5>1. CASE U!MoveIn(r) BY <3>2, <5>1, MoveInKeeps
          <5>2. CASE job[r].at \in Extending /\ exe' = exe BY <3>1, <5>2 DEF InOrderJob, Swapped
          <5> QED BY <2>1, <2>3, <3>2, <5>1, <5>2 DEF EndsOf
        <4> QED BY <4>1 DEF U!ToSet
      <3>3. ASSUME job[r].at = "tidy", job'[r].at = "runs", mode = "cutOff" PROVE exe' = job[r].before
        <4>1. exe' = exe BY <2>1, <2>3, <3>3 DEF EndsOf
        <4>2. "tidy" \in Updating /\ "tidy" \in Undoing BY DEF Updating, Undoing
        <4>3. job[r].aside = <<>> BY <3>1, <3>3, <4>2 DEF InOrderJob, Shaped
        <4>4. job[r].before \in [Own -> U!File] /\ \A p \in Own : exe[p] = job[r].before[p]
          BY <3>1, <3>3, <4>2, <4>3 DEF InOrderJob, Restorable
        <4>5. exe = job[r].before BY <4>4 DEF TypedUpdate
        <4> QED BY <4>1, <4>5
      <3> QED BY <3>2, <3>3
    <2> QED BY <2>2, <2>3
  <1> QED BY <1>1, <1>2

(* An update that ends well has replaced every program it was to, whatever failed in it and whoever cleared *)
(* up beside it; one that fails where no process starts beside it has replaced none (updater.rs: install,    *)
(* swap).                                                                                                     *)
THEOREM UpdatesAllOrNone == ASSUME Installed PROVE U!Spec => U!AllOrNone
  <1>1. U!Init => UpdateInv BY UpdateInit
  <1>2. UpdateInv /\ [U!Next]_(U!vars) => UpdateInv' BY UpdateNext, UpdateKept
  <1>3. UpdateInv /\ [U!Next]_(U!vars) => [U!ReplacesAllOrNone]_(U!vars) BY AllOrNoneStep
  <1> QED BY <1>1, <1>2, <1>3, PTL DEF U!Spec, U!AllOrNone
=============================================================================
