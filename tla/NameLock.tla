------------------------------- MODULE NameLock -------------------------------
(***************************************************************************)
(* Claiming one output name (engine.rs, Claim): an OS lock on              *)
(* <final>.part.lock, which its holder deletes when it is done.  Deleting  *)
(* a locked file and making a new one of that name are steps of different  *)
(* processes, so a lock may be taken on a file that is no longer there:    *)
(* try_take looks again at the path once it has the lock.                  *)
(*                                                                         *)
(* A lock belongs to an open handle and goes with it, also when the        *)
(* process dies; the file stays then.  The identity of a file (device and  *)
(* inode) is given to another one only when it has no name and no handle.  *)
(***************************************************************************)
EXTENDS Naturals, FiniteSets

CONSTANTS
  Claimers,   (* downloads and tools, of any process                          *)
  Files,      (* identities of lock files                                     *)
  NoFile,     (* none of them                                                 *)
  Tries,      (* attempts of one try_take                                     *)
  Windows,    (* whether a file being deleted cannot be opened                *)
  MaxCrashes  (* bound of the model: how often somebody dies                  *)

ASSUME LockAssumption ==
  /\ NoFile \notin Files
  /\ Tries \in Nat
  /\ Windows \in BOOLEAN
  /\ MaxCrashes \in Nat

VARIABLES
  at,      (* the file now at the path of the lock                            *)
  handle,  (* the lock file each claimer has open                             *)
  locked,  (* who has the lock of the file it has open                        *)
  pc,      (* where each is in try_take, or after it                          *)
  tries,   (* attempts it has left                                            *)
  crashes  (* crashes so far                                                  *)

vars == <<at, handle, locked, pc, tries, crashes>>

(* Idle, about to open the file, with it open, with its lock, holding the claim, and letting go: *)
(* the file is deleted and its handle not closed yet.                                            *)
PC == {"idle", "trying", "opened", "locked", "held", "dropping"}

(* Operators named Faulty... are not part of the model: each is the definition after it with a *)
(* mistake the code could have made, to see that some property notices.                       *)

-----------------------------------------------------------------------------
Goto(c, to) == pc' = [pc EXCEPT ![c] = to]

Close(c) ==
  /\ handle' = [handle EXCEPT ![c] = NoFile]
  /\ locked' = locked \ {c}

(* A new file gets an identity nobody has open. *)
Unused == {f \in Files : f # at /\ \A c \in Claimers : handle[c] # f}

TryTake(c) ==
  /\ pc[c] = "idle"
  /\ Goto(c, "trying")
  /\ tries' = [tries EXCEPT ![c] = Tries]
  /\ UNCHANGED <<at, handle, locked, crashes>>

(* Opens the file at the path, making it if there is none. *)
FaultyOpen(c) ==
  /\ pc[c] = "trying"
  /\ tries[c] > 0
  /\ tries' = [tries EXCEPT ![c] = @ - 1]
  /\ IF at # NoFile
       THEN UNCHANGED <<at, handle, pc>>
       ELSE /\ at' \in Unused
            /\ handle' = [handle EXCEPT ![c] = at']
            /\ Goto(c, "opened")
  /\ UNCHANGED <<locked, crashes>>

Open(c) ==
  /\ pc[c] = "trying"
  /\ tries[c] > 0
  /\ tries' = [tries EXCEPT ![c] = @ - 1]
  /\ \E f \in IF at = NoFile THEN Unused ELSE {at} :
       /\ at' = f
       /\ handle' = [handle EXCEPT ![c] = f]
  /\ Goto(c, "opened")
  /\ UNCHANGED <<locked, crashes>>

(* Windows refuses while the file is being deleted; the attempt is spent. *)
OpenDenied(c) ==
  /\ Windows
  /\ pc[c] = "trying"
  /\ tries[c] > 0
  /\ \E d \in Claimers : pc[d] = "dropping"
  /\ tries' = [tries EXCEPT ![c] = @ - 1]
  /\ UNCHANGED <<at, handle, locked, pc, crashes>>

(* No attempt is left. *)
GiveUp(c) ==
  /\ pc[c] = "trying"
  /\ tries[c] = 0
  /\ Goto(c, "idle")
  /\ UNCHANGED <<at, handle, locked, tries, crashes>>

Contended(c) == \E d \in locked : handle[d] = handle[c]

TryLock(c) ==
  /\ pc[c] = "opened"
  /\ ~Contended(c)
  /\ locked' = locked \cup {c}
  /\ Goto(c, "locked")
  /\ UNCHANGED <<at, handle, tries, crashes>>

(* TryLockError::WouldBlock: another has the name. *)
WouldBlock(c) ==
  /\ pc[c] = "opened"
  /\ Contended(c)
  /\ Close(c)
  /\ Goto(c, "idle")
  /\ UNCHANGED <<at, tries, crashes>>

FaultyIsFileAt(c) == at # NoFile
IsFileAt(c) == at = handle[c]

(* Only a lock on the very file at the path counts. *)
Confirm(c) ==
  /\ pc[c] = "locked"
  /\ IsFileAt(c)
  /\ Goto(c, "held")
  /\ UNCHANGED <<at, handle, locked, tries, crashes>>

Mislocked(c) ==
  /\ pc[c] = "locked"
  /\ ~IsFileAt(c)
  /\ Close(c)
  /\ Goto(c, "trying")
  /\ UNCHANGED <<at, tries, crashes>>

(* Claim is dropped: the path is deleted, then the handle is closed. *)
Unlink(c) ==
  /\ pc[c] = "held"
  /\ at' = NoFile
  /\ Goto(c, "dropping")
  /\ UNCHANGED <<handle, locked, tries, crashes>>

FaultyUnlock(c) ==
  /\ pc[c] = "dropping"
  /\ Close(c)
  /\ at' = NoFile
  /\ Goto(c, "idle")
  /\ UNCHANGED <<tries, crashes>>

Unlock(c) ==
  /\ pc[c] = "dropping"
  /\ Close(c)
  /\ Goto(c, "idle")
  /\ UNCHANGED <<at, tries, crashes>>

(* The process dies: the OS closes its handles. *)
Crash(c) ==
  /\ pc[c] # "idle"
  /\ crashes < MaxCrashes
  /\ crashes' = crashes + 1
  /\ Close(c)
  /\ Goto(c, "idle")
  /\ UNCHANGED <<at, tries>>

-----------------------------------------------------------------------------
Init ==
  /\ at = NoFile
  /\ handle = [c \in Claimers |-> NoFile]
  /\ locked = {}
  /\ pc = [c \in Claimers |-> "idle"]
  /\ tries = [c \in Claimers |-> 0]
  /\ crashes = 0

GoOn(c) ==
  \/ Open(c)
  \/ GiveUp(c)
  \/ TryLock(c)
  \/ WouldBlock(c)
  \/ Confirm(c)
  \/ Mislocked(c)
  \/ Unlock(c)

Next == \E c \in Claimers : GoOn(c) \/ TryTake(c) \/ OpenDenied(c) \/ Unlink(c) \/ Crash(c)

Spec == Init /\ [][Next]_vars

(* Whoever is inside try_take, or closing its handle, is a running thread. Nothing makes a download *)
(* start, or end and let its name go.                                                              *)
FairSpec == Spec /\ \A c \in Claimers : WF_vars(GoOn(c))

-----------------------------------------------------------------------------
TypeOK ==
  /\ at \in Files \cup {NoFile}
  /\ handle \in [Claimers -> Files \cup {NoFile}]
  /\ locked \subseteq Claimers
  /\ pc \in [Claimers -> PC]
  /\ tries \in [Claimers -> 0 .. Tries]
  /\ crashes \in 0 .. MaxCrashes

Holders == {c \in Claimers : pc[c] = "held"}

(* The claim excludes every other: "Exclusive ownership of an output name for a whole download" *)
(* (engine.rs:4835).                                                                            *)
MutualExclusion == \A c, d \in Holders : c = d

(* Nobody has a lock without the handle it goes with, one handle at most has the lock of a file, *)
(* and whoever holds the claim has the lock of the file at the path, so that only it deletes it. *)
LockInv ==
  /\ \A c \in Claimers : pc[c] \in {"opened", "locked", "held", "dropping"} => handle[c] \in Files
  /\ \A c \in Claimers : c \in locked <=> pc[c] \in {"locked", "held", "dropping"}
  /\ \A c, d \in locked : handle[c] = handle[d] => c = d
  /\ \A c \in Holders : handle[c] = at

(* The claim is what NameOwner promises: taken only while nobody has it, never passed on. *)
Owner == INSTANCE NameOwner WITH owners <- Holders
ImplementsOwner == Owner!Spec

(* Whoever tries for the name, somebody has it in the end: attempts do not fail on each other for *)
(* ever, and a lock file a crash left does not keep the name from everybody. (Once nobody dies    *)
(* any more; where a file being deleted is no obstacle, for there the attempts are not spent on   *)
(* one holder's end.)                                                                             *)
SomebodyGetsIt ==
  (crashes = MaxCrashes /\ \E c \in Claimers : pc[c] = "trying" /\ tries[c] = Tries) ~> Holders # {}
==============================================================================
