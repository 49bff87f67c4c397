------------------------------- MODULE Updater -------------------------------
(***************************************************************************)
(* The app replacing itself (updater.rs, Windows): a process writes the    *)
(* new builds of both programs beside them, moves each program aside and   *)
(* its new build in, then the extension's folder; whoever starts next      *)
(* finishes or undoes what was cut off, and clears up.  A program that     *)
(* runs can be moved, but neither deleted nor replaced.                    *)
(*                                                                         *)
(* One update at a time.  What meets it is the behaviour's `mode`: either  *)
(* a process is cut off, or processes start beside it, and then clear up   *)
(* with nothing moved meanwhile (`Quiet`).  Fetching and checking what is  *)
(* installed changes nothing here.                                         *)
(***************************************************************************)
EXTENDS Naturals, Sequences, SequencesExt

CONSTANTS
  Processes,   (* that may run                                                *)
  Runs,        (* the program of each                                         *)
  Latest,      (* releases 1 .. Latest                                        *)
  Torn,        (* a file not written, a folder not deleted to the end         *)
  None,
  Budget       (* bounds of the model: updates, failing calls, processes cut off *)

Programs == <<"gui", "cli">>
Releases == 1 .. Latest

VARIABLES
  exe,         (* the build at each program's name                            *)
  new,         (* at <name>.new                                               *)
  old,         (* at <stem>.old.exe                                           *)
  more,        (* at the names <stem>.old-<unique>.exe                        *)
  extension,   (* the release of the extension in its folder                  *)
  staged,      (* in .extension-<unique>.tmp                                  *)
  moved,       (* in the folders .extension-old-<unique>, by their times      *)
  image,       (* where the program a process runs lies now                   *)
  build,       (* the release it is of                                        *)
  job,         (* what each process does                                      *)
  mode,        (* what may meet an update                                     *)
  left         (* of the budget                                               *)

programs == <<exe, new, old, more>>
folders == <<extension, staged, moved>>
vars == <<programs, folders, image, build, job, mode, left>>

May(what) == left[what] > 0 /\ left' = [left EXCEPT ![what] = @ - 1]

Off == [at |-> "off", i |-> 1, todo |-> {}, to |-> 0, zip |-> FALSE, targets |-> <<>>, aside |-> <<>>, slot |-> "old", before |-> <<>>]
Job(r, to) == job' = [job EXCEPT ![r].at = to]
Turn(r, to, i) == job' = [job EXCEPT ![r].at = to, ![r].i = i]

Cleaning == {"look", "extension", "list", "clear"}
Idle == {"off", "runs", "updated"} \cup Cleaning
SomeUpdate == \E r \in Processes : job[r].at \notin Idle
SomeCleanup == \E r \in Processes : job[r].at \in Cleaning

InUse(p, slot) == \E r \in Processes : Runs[r] = p /\ image[r] = slot
Quiet == \A r \in Processes : job[r].at # "clear"
Follow(p, from, to) == image' = [r \in Processes |-> IF Runs[r] = p /\ image[r] = from THEN to ELSE image[r]]

-----------------------------------------------------------------------------
(* A process starts from its program's name, and clears up first (cleanup_in). *)
Start(r) ==
  /\ job[r].at = "off"
  /\ exe[Runs[r]] \in Releases
  /\ mode = "cutOff" => ~SomeUpdate
  /\ image' = [image EXCEPT ![r] = "exe"]
  /\ build' = [build EXCEPT ![r] = exe[Runs[r]]]
  /\ job' = [job EXCEPT ![r] = [Off EXCEPT !.at = "look"]]
  /\ UNCHANGED <<programs, folders, mode, left>>

(* A swap cut off is finished: the new build was on disk before it began.  The look and the rename *)
(* after it are one step.                                                                          *)
FinishSwap(r) ==
  /\ job[r].at = "look"
  /\ LET p == Programs[job[r].i] IN
       IF exe[p] = None /\ new[p] # None
       THEN exe' = [exe EXCEPT ![p] = new[p]] /\ new' = [new EXCEPT ![p] = None]
       ELSE UNCHANGED <<exe, new>>
  /\ IF job[r].i = Len(Programs) THEN Turn(r, "extension", 1) ELSE Turn(r, "look", job[r].i + 1)
  /\ UNCHANGED <<old, more, folders, image, build, mode, left>>

FaultyRestored == Head(moved)
Restored == Last(moved)

(* The extension moved aside last is put back: an earlier one may be half deleted. *)
PutBackExtension(r) ==
  /\ job[r].at = "extension"
  /\ IF extension = None /\ moved # <<>>
     THEN /\ extension' = Restored
          /\ moved' = Front(moved)
     ELSE UNCHANGED <<extension, moved>>
  /\ Job(r, "list")
  /\ UNCHANGED <<programs, staged, image, build, mode, left>>


(* A program or an extension that is missing keeps all it left. *)
ToClear ==
  {p \in ToSet(Programs) : exe[p] # None} \cup IF extension = None THEN {} ELSE {"extension"}

List(r) ==
  /\ job[r].at = "list"
  /\ job' = [job EXCEPT ![r].at = "clear", ![r].todo = ToClear]
  /\ UNCHANGED <<programs, folders, image, build, mode, left>>

(* The builds of a program's unique names that nobody runs. *)
Unused(p) == {b \in more[p] : \A r \in Processes : Runs[r] = p /\ image[r] = "more" => build[r] # b}

ClearProgram(r) ==
  /\ job[r].at = "clear"
  /\ \E p \in job[r].todo \ {"extension"} :
       /\ job' = [job EXCEPT ![r].todo = @ \ {p}]
       /\ new' = [new EXCEPT ![p] = None]
       /\ old' = IF InUse(p, "old") THEN old ELSE [old EXCEPT ![p] = None]
       /\ more' = [more EXCEPT ![p] = @ \ Unused(p)]
  /\ UNCHANGED <<exe, folders, image, build, mode, left>>

(* A folder the browser holds a file of open stays, half deleted. *)
ClearExtension(r) ==
  /\ job[r].at = "clear"
  /\ "extension" \in job[r].todo
  /\ \/ moved' = <<>> /\ UNCHANGED left
     \/ moved # <<>> /\ May("fail") /\ moved' = [i \in DOMAIN moved |-> Torn]
  /\ staged' = None
  /\ job' = [job EXCEPT ![r].todo = @ \ {"extension"}]
  /\ UNCHANGED <<programs, extension, image, build, mode>>

Cleared(r) ==
  /\ job[r].at = "clear" /\ job[r].todo = {}
  /\ Job(r, "runs")
  /\ UNCHANGED <<programs, folders, image, build, mode, left>>

-----------------------------------------------------------------------------
Other(p) == IF p = "gui" THEN "cli" ELSE "gui"

(* The other program is replaced too, if it is installed. *)
TargetsOf(p) == IF exe[Other(p)] = None THEN <<p>> ELSE <<p, Other(p)>>

(* install_from: a newer release than runs and than is installed, for what is there.  A process whose *)
(* own program lost its name (a swap cut off) is left out.                                            *)
Install(r) ==
  /\ job[r].at = "runs"
  /\ exe[Runs[r]] # None
  /\ ~SomeUpdate /\ (mode = "cutOff" => ~SomeCleanup)
  /\ May("update")
  /\ \E to \in Releases :
       /\ to > build[r]
       /\ extension \in Releases => to > extension
       /\ job' = [job EXCEPT ![r].at = "write", ![r].i = 1, ![r].to = to, ![r].zip = extension # None, ![r].aside = <<>>, ![r].before = exe,
                             ![r].targets = TargetsOf(Runs[r])]
  /\ UNCHANGED <<programs, folders, image, build, mode>>

Target(r) == job[r].targets[job[r].i]
IsLast(r) == job[r].i = Len(job[r].targets)

CreateNew(r) ==
  /\ job[r].at = "write"
  /\ new' = [new EXCEPT ![Target(r)] = Torn]
  /\ Job(r, "writing")
  /\ UNCHANGED <<exe, old, more, folders, image, build, mode, left>>

(* Written and synced, unless it was deleted meanwhile; then the next, or what comes after. *)
FaultyWritten(r) == job[r].i > 0
Written(r) == IsLast(r)

WriteNew(r) ==
  /\ job[r].at = "writing"
  /\ LET p == Target(r) IN new' = IF new[p] = None THEN new ELSE [new EXCEPT ![p] = job[r].to]
  /\ IF Written(r) THEN Turn(r, IF job[r].zip THEN "unpack" ELSE "name", 1)
     ELSE Turn(r, "write", job[r].i + 1)
  /\ UNCHANGED <<exe, old, more, folders, image, build, mode, left>>

Unpack(r) ==
  /\ job[r].at = "unpack"
  /\ staged' = job[r].to
  /\ Job(r, "name")
  /\ UNCHANGED <<programs, extension, moved, image, build, mode, left>>

NotReady(r) ==
  /\ job[r].at \in {"write", "writing", "unpack"}
  /\ May("fail")
  /\ Job(r, "tidy")
  /\ UNCHANGED <<programs, folders, image, build, mode>>

(* old_name: .old.exe, cleared, or a unique name if a program still runs there. *)
NameOld(r) ==
  /\ job[r].at = "name"
  /\ LET p == Target(r) IN
       IF InUse(p, "old") THEN old' = old /\ job' = [job EXCEPT ![r].at = "aside", ![r].slot = "more"]
       ELSE old' = [old EXCEPT ![p] = None] /\ job' = [job EXCEPT ![r].at = "aside", ![r].slot = "old"]
  /\ UNCHANGED <<exe, new, more, folders, image, build, mode, left>>

MoveAside(r) ==
  /\ job[r].at = "aside" /\ Quiet
  /\ LET p == Target(r) slot == job[r].slot IN
       /\ exe[p] # None
       /\ exe' = [exe EXCEPT ![p] = None]
       /\ IF slot = "old" THEN old' = [old EXCEPT ![p] = exe[p]] /\ more' = more
          ELSE more' = [more EXCEPT ![p] = @ \cup {exe[p]}] /\ old' = old
       /\ Follow(p, "exe", slot)
       /\ job' = [job EXCEPT ![r].at = "in", ![r].aside = Append(@, <<p, slot, exe[p]>>)]
  /\ UNCHANGED <<new, folders, build, mode, left>>

MoveIn(r) ==
  /\ job[r].at = "in"
  /\ LET p == Target(r) IN
       /\ new[p] # None /\ ~InUse(p, "exe")
       /\ exe' = [exe EXCEPT ![p] = new[p]]
       /\ new' = [new EXCEPT ![p] = None]
  /\ IF ~IsLast(r) THEN Turn(r, "name", job[r].i + 1)
     ELSE Job(r, IF job[r].zip THEN "extAside" ELSE "updated")
  /\ UNCHANGED <<old, more, folders, image, build, mode, left>>

(* Gone, deleted by who clears up, or in use. *)
Missing(r) ==
  IF job[r].at = "aside" THEN exe[Target(r)] = None ELSE new[Target(r)] = None \/ InUse(Target(r), "exe")

NotMoved(r) ==
  /\ job[r].at \in {"aside", "in"}
  /\ IF Missing(r) THEN UNCHANGED left ELSE May("fail")
  /\ Job(r, "back")
  /\ UNCHANGED <<programs, folders, image, build, mode>>

-----------------------------------------------------------------------------
FaultyBack(r) == IF job[r].aside = <<>> THEN <<>> ELSE <<Last(job[r].aside)>>
Back(r) == job[r].aside

(* On a failure what was moved aside is put back, the last first. *)
PutBack(r) ==
  /\ job[r].at = "back"
  /\ Back(r) # <<>>
  /\ LET p == Last(Back(r))[1]
         slot == Last(Back(r))[2]
         was == Last(Back(r))[3]
         there == IF slot = "old" THEN old[p] = was ELSE was \in more[p]
     IN IF there /\ ~InUse(p, "exe")
        THEN /\ exe' = [exe EXCEPT ![p] = was]
             /\ IF slot = "old" THEN old' = [old EXCEPT ![p] = None] /\ more' = more
                ELSE more' = [more EXCEPT ![p] = @ \ {was}] /\ old' = old
             /\ Follow(p, slot, "exe")
        ELSE UNCHANGED <<exe, old, more, image>>
  /\ job' = [job EXCEPT ![r].aside = Front(Back(r))]
  /\ UNCHANGED <<new, folders, build, mode, left>>

AllBack(r) ==
  /\ job[r].at = "back" /\ Back(r) = <<>>
  /\ Job(r, "tidy")
  /\ UNCHANGED <<programs, folders, image, build, mode, left>>

(* Nothing written is left. *)
Tidy(r) ==
  /\ job[r].at = "tidy"
  /\ \E p \in ToSet(job[r].targets) : new[p] # None /\ new' = [new EXCEPT ![p] = None]
  /\ UNCHANGED <<exe, old, more, folders, image, build, job, mode, left>>

Tidied(r) ==
  /\ job[r].at = "tidy"
  /\ \A p \in ToSet(job[r].targets) : new[p] = None
  /\ staged' = None
  /\ Job(r, "runs")
  /\ UNCHANGED <<programs, extension, moved, image, build, mode, left>>

(* replace_extension, at its best effort. *)
ExtensionAside(r) ==
  /\ job[r].at = "extAside" /\ Quiet
  /\ extension # None
  /\ moved' = Append(moved, extension)
  /\ extension' = None
  /\ Job(r, "extIn")
  /\ UNCHANGED <<programs, staged, image, build, mode, left>>

ExtensionStays(r) ==
  /\ job[r].at = "extAside" /\ Quiet
  /\ IF extension = None THEN UNCHANGED left ELSE May("fail")
  /\ staged' = None
  /\ Job(r, "updated")
  /\ UNCHANGED <<programs, extension, moved, image, build, mode>>

ExtensionIn(r) ==
  /\ job[r].at = "extIn"
  /\ staged # None /\ extension = None
  /\ extension' = staged
  /\ staged' = None
  /\ Job(r, "extOld")
  /\ UNCHANGED <<programs, moved, image, build, mode, left>>

ExtensionBack(r) ==
  /\ job[r].at = "extIn"
  /\ IF staged = None \/ extension # None THEN UNCHANGED left ELSE May("fail")
  /\ IF extension = None /\ moved # <<>> THEN extension' = Last(moved) /\ moved' = Front(moved)
     ELSE UNCHANGED <<extension, moved>>
  /\ staged' = None
  /\ Job(r, "updated")
  /\ UNCHANGED <<programs, image, build, mode>>

(* The old folder is deleted file by file, unless the browser holds one open. *)
DeleteExtension(r) ==
  /\ job[r].at = "extOld"
  /\ IF moved = <<>> \/ Last(moved) = Torn
     THEN /\ moved' = IF moved = <<>> THEN moved ELSE Front(moved)
          /\ Job(r, "updated")
     ELSE /\ moved' = [moved EXCEPT ![Len(moved)] = Torn]
          /\ job' = job
  /\ UNCHANGED <<programs, extension, staged, image, build, mode, left>>

DeletionFails(r) ==
  /\ job[r].at = "extOld"
  /\ moved # <<>> /\ Last(moved) = Torn
  /\ May("fail")
  /\ Job(r, "updated")
  /\ UNCHANGED <<programs, folders, image, build, mode>>

-----------------------------------------------------------------------------
Ends(r) == job' = [job EXCEPT ![r] = Off] /\ image' = [image EXCEPT ![r] = "none"]

(* An updated program is started again. *)
Exit(r) ==
  /\ job[r].at \in {"runs", "updated"}
  /\ Ends(r)
  /\ UNCHANGED <<programs, folders, build, mode, left>>

CutOff(r) ==
  /\ mode = "cutOff" /\ job[r].at # "off"
  /\ May("crash")
  /\ Ends(r)
  /\ UNCHANGED <<programs, folders, build, mode>>

Init ==
  /\ exe = [p \in ToSet(Programs) |-> 1]
  /\ new = [p \in ToSet(Programs) |-> None] /\ old = new
  /\ more = [p \in ToSet(Programs) |-> {}]
  /\ extension = 1 /\ staged = None /\ moved = <<>>
  /\ image = [r \in Processes |-> "none"] /\ build = [r \in Processes |-> 1]
  /\ job = [r \in Processes |-> Off]
  /\ mode \in {"cutOff", "beside"}
  /\ left = Budget

Steps(r) ==
  \/ Start(r) \/ FinishSwap(r) \/ PutBackExtension(r) \/ List(r) \/ ClearProgram(r) \/ ClearExtension(r) \/ Cleared(r)
  \/ Install(r) \/ CreateNew(r) \/ WriteNew(r) \/ Unpack(r) \/ NotReady(r)
  \/ NameOld(r) \/ MoveAside(r) \/ MoveIn(r) \/ NotMoved(r) \/ PutBack(r) \/ AllBack(r) \/ Tidy(r) \/ Tidied(r)
  \/ ExtensionAside(r) \/ ExtensionStays(r) \/ ExtensionIn(r) \/ ExtensionBack(r) \/ DeleteExtension(r) \/ DeletionFails(r)
  \/ Exit(r) \/ CutOff(r)

Next == \E r \in Processes : Steps(r)

Spec == Init /\ [][Next]_vars

-----------------------------------------------------------------------------
File == Releases \cup {Torn, None}

TypeOK ==
  /\ exe \in [ToSet(Programs) -> File] /\ new \in [ToSet(Programs) -> File] /\ old \in [ToSet(Programs) -> File]
  /\ more \in [ToSet(Programs) -> SUBSET Releases]
  /\ extension \in File /\ staged \in File /\ moved \in Seq(Releases \cup {Torn})
  /\ image \in [Processes -> {"none", "exe", "old", "more"}] /\ build \in [Processes -> Releases]

(* A program, or the extension, has its name, or left a whole build of it that nobody deletes; and what  *)
(* has the name is whole (updater.rs: put_in_place, swap, cleanup_in).                                    *)
NothingLost ==
  /\ \A p \in ToSet(Programs) :
       /\ exe[p] # Torn
       /\ ({exe[p], new[p], old[p]} \cup more[p]) \cap Releases # {}
  /\ extension # Torn
  /\ extension = None => \E i \in DOMAIN moved : moved[i] \in Releases

(* An update that ends well has replaced every program it was to, whatever failed in it and whoever       *)
(* cleared up beside it.  One that fails has replaced none, unless a process that started meanwhile       *)
(* finished what was being undone (updater.rs: install, swap).                                            *)
ReplacesAllOrNone ==
  \A r \in Processes :
    /\ job[r].at # "updated" /\ job'[r].at = "updated" => \A p \in ToSet(job[r].targets) : exe'[p] = job[r].to
    /\ job[r].at = "tidy" /\ job'[r].at = "runs" => exe' = job[r].before \/ mode # "cutOff"

AllOrNone == [][ReplacesAllOrNone]_vars
===============================================================================
