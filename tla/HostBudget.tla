------------------------------ MODULE HostBudget ------------------------------
(***************************************************************************)
(* The budget of connections to one host (hosts.rs): requests of several   *)
(* downloads, each under its download's limit, take slots, wait for them   *)
(* and give them back; refusals teach the host's connection cap, answers   *)
(* raise it by one, time forgets it, and a file keeps it for the next run. *)
(*                                                                         *)
(* Each section under the lock of Hosts.entries is one step.  What happens *)
(* outside it is a step of its own: a waiter registers with the Notify     *)
(* before it looks, and notify_waiters is called after the unlock.  The    *)
(* host is one of the first route, whose facts are kept (HostKey.origin).  *)
(***************************************************************************)
EXTENDS Naturals, FiniteSets

CONSTANTS
  Requests,    (* the tasks that make requests, one at a time each         *)
  Limits,      (* max_connections_per_host of the downloads; 0: no limit   *)
  DefaultCap,  (* default_connection_cap of the host; 0: none              *)
  PoolMaxIdle  (* POOL_MAX_IDLE: idle connections a client keeps           *)

ASSUME BudgetAssumption ==
  /\ IsFiniteSet(Requests)
  /\ Limits \subseteq Nat
  /\ DefaultCap \in Nat
  /\ PoolMaxIdle \in Nat \ {0}

(* Operators named Faulty... are not part of the model: each is the definition after it with a *)
(* mistake the code could have made, to see that some property notices.                       *)

VARIABLES
  entry,       (* what the process knows of the host                       *)
  kept,        (* Memory: the cap kept of it across restarts; 0: none      *)
  file,        (* ... and what of that is written to the file              *)
  pc,          (* where each task is                                       *)
  limit,       (* the limit its request is under                           *)
  woken,       (* tasks whose registered Notified was notified             *)
  calling      (* tasks about to call notify_waiters                       *)

memory == <<entry, kept, file>>
tasks == <<pc, limit, woken, calling>>
vars == <<memory, tasks>>

(* A task is off; it has arrived at the loop of acquire, is listening for a notification, asleep *)
(* until one comes, or leaving, the wait given up; its slot is taken and the wait not ended yet, *)
(* open, served (the host accepted its request) or refused.                                      *)
PC == {"off", "arrived", "listening", "asleep", "leaving", "taken", "open", "served", "refused"}

Strict == Limits \ {0}

(* An Entry: open requests, how many hold a slot and wait under each limit, connections kept idle, *)
(* the cap learned (0: none, or expired) and whether it may be probed: CAP_PROBE_INTERVAL has      *)
(* passed since it was learned and last raised.                                                    *)
Entry == [known : BOOLEAN, open : Nat, held : [Strict -> Nat], waiting : [Strict -> Nat],
          idle : 0 .. PoolMaxIdle, cap : Nat, probe : BOOLEAN]
NoLimits == [l \in Strict |-> 0]
NoEntry == [known |-> FALSE, open |-> 0, held |-> NoLimits, waiting |-> NoLimits,
            idle |-> 0, cap |-> 0, probe |-> FALSE]

-----------------------------------------------------------------------------
(* An entry, as the code computes on it.                                   *)

Less(n) == IF n = 0 THEN 0 ELSE n - 1
AddLimit(ls, l) == IF l = 0 THEN ls ELSE [ls EXCEPT ![l] = @ + 1]
RemoveLimit(ls, l) == IF l = 0 THEN ls ELSE [ls EXCEPT ![l] = Less(@)]

(* entry(): a new entry starts from the cap kept, as if just learned. *)
Entered == IF entry.known THEN entry ELSE [NoEntry EXCEPT !.known = TRUE, !.cap = kept]

InForce(e) == {l \in Strict : e.held[l] > 0 \/ e.waiting[l] > 0}
IsStrictest(e, l) == l \in InForce(e) /\ \A k \in InForce(e) : l <= k
CapInForce(e) == IF e.cap > 0 THEN e.cap ELSE DefaultCap

(* open < allowance(limit) *)
Room(e, l) ==
  /\ l > 0 => e.open < l
  /\ \A k \in InForce(e) : e.open < k
  /\ CapInForce(e) > 0 => e.open < CapInForce(e)

FaultyTaken(e, l) == [e EXCEPT !.open = @ + 1, !.idle = Less(@)]  \* forgets the limit it is under

(* What try_acquire makes of an entry with room. *)
Taken(e, l) == [e EXCEPT !.open = @ + 1, !.held = AddLimit(@, l), !.idle = Less(@)]

Waited(e, l) == [e EXCEPT !.waiting = RemoveLimit(@, l)]

(* The strictest limit is another once e becomes f, or there is none any more. *)
Loosened(e, f) == \E l \in Strict : IsStrictest(e, l) /\ ~IsStrictest(f, l)

(* is_idle, apart from facts that decide nothing here. *)
IsIdle(e) == e.open = 0 /\ e.waiting = NoLimits /\ e.cap = 0 /\ e.idle = 0

-----------------------------------------------------------------------------
(* Taking a slot.                                                          *)

Goto(r, at) == pc' = [pc EXCEPT ![r] = at]
Ready(r, at) == r \notin calling /\ pc[r] = at

FaultyArrive(r) ==  \* the limit counts only once the slot is taken
  /\ Ready(r, "off")
  /\ \E l \in Limits : limit' = [limit EXCEPT ![r] = l]
  /\ entry' = Entered
  /\ Goto(r, "arrived")
  /\ UNCHANGED <<kept, file, woken, calling>>

(* acquire, up to its loop: the request's limit counts from now on. *)
Arrive(r) ==
  /\ Ready(r, "off")
  /\ \E l \in Limits :
       /\ limit' = [limit EXCEPT ![r] = l]
       /\ entry' = [Entered EXCEPT !.waiting = AddLimit(@, l)]
  /\ Goto(r, "arrived")
  /\ UNCHANGED <<kept, file, woken, calling>>

Listen(r) ==
  /\ Ready(r, "arrived")
  /\ Goto(r, "listening")
  /\ UNCHANGED <<memory, limit, woken, calling>>

Get(r) ==
  /\ Ready(r, "listening")
  /\ Room(Entered, limit[r])
  /\ entry' = Taken(Entered, limit[r])
  /\ woken' = woken \ {r}
  /\ Goto(r, "taken")
  /\ UNCHANGED <<kept, file, limit, calling>>

Miss(r) ==
  /\ Ready(r, "listening")
  /\ ~Room(Entered, limit[r])
  /\ entry' = Entered
  /\ Goto(r, "asleep")
  /\ UNCHANGED <<kept, file, limit, woken, calling>>

Wake(r) ==
  /\ Ready(r, "asleep")
  /\ r \in woken
  /\ woken' = woken \ {r}
  /\ Goto(r, "arrived")
  /\ UNCHANGED <<memory, limit, calling>>

FaultyGiveUp(r) ==  \* a wait given up still counts
  /\ Ready(r, "asleep")
  /\ woken' = woken \ {r}
  /\ limit' = [limit EXCEPT ![r] = 0]
  /\ Goto(r, "off")
  /\ UNCHANGED <<memory, calling>>

(* The future of acquire is dropped while it awaits a notification. *)
GiveUp(r) ==
  /\ Ready(r, "asleep")
  /\ woken' = woken \ {r}
  /\ Goto(r, "leaving")
  /\ UNCHANGED <<memory, limit, calling>>

FaultyStopWaiting(r) ==  \* tells nobody
  /\ r \notin calling /\ pc[r] \in {"taken", "leaving"}
  /\ entry' = Waited(entry, limit[r])
  /\ IF pc[r] = "taken"
     THEN Goto(r, "open") /\ UNCHANGED limit
     ELSE Goto(r, "off") /\ limit' = [limit EXCEPT ![r] = 0]
  /\ UNCHANGED <<kept, file, woken, calling>>

(* stop_waiting, as the Waiting is dropped; with many hosts known, forget_idle may drop the entry. *)
StopWaiting(r) ==
  /\ r \notin calling /\ pc[r] \in {"taken", "leaving"}
  /\ LET e == Waited(entry, limit[r])
     IN  /\ entry' \in {e} \cup {f \in {NoEntry} : IsIdle(e)}
         /\ calling' = IF Loosened(entry, e) THEN calling \cup {r} ELSE calling
  /\ IF pc[r] = "taken"
     THEN Goto(r, "open") /\ UNCHANGED limit
     ELSE Goto(r, "off") /\ limit' = [limit EXCEPT ![r] = 0]
  /\ UNCHANGED <<kept, file, woken>>

(* try_acquire without waiting.  Without room it leaves all as it was. *)
TryAcquire(r) ==
  /\ Ready(r, "off")
  /\ \E l \in Limits :
       /\ Room(Entered, l)
       /\ entry' = Taken(Entered, l)
       /\ limit' = [limit EXCEPT ![r] = l]
  /\ Goto(r, "open")
  /\ UNCHANGED <<kept, file, woken, calling>>

-----------------------------------------------------------------------------
(* Holding one.                                                            *)

FaultyAccepted(r) ==  \* the raised cap is not kept
  /\ Ready(r, "open")
  /\ IF entry.cap > 0 /\ entry.open >= entry.cap /\ entry.probe
     THEN /\ entry' = [entry EXCEPT !.cap = @ + 1, !.probe = FALSE]
          /\ calling' = calling \cup {r}
     ELSE UNCHANGED <<entry, calling>>
  /\ Goto(r, "served")
  /\ UNCHANGED <<kept, file, limit, woken>>

(* accepted: serving as many as its cap, the host is offered one more; serving more than a cap *)
(* kept from before, which expired since, it has none so low any more.                        *)
Accepted(r) ==
  /\ Ready(r, "open")
  /\ \/ /\ entry.cap > 0 /\ entry.open >= entry.cap /\ entry.probe
        /\ entry' = [entry EXCEPT !.cap = @ + 1, !.probe = FALSE]
        /\ kept' = entry.cap + 1
        /\ calling' = calling \cup {r}
     \/ /\ entry.cap > 0 /\ ~(entry.open >= entry.cap /\ entry.probe)
        /\ UNCHANGED <<entry, kept, calling>>
     \/ /\ entry.cap = 0
        /\ kept' = IF entry.open > kept THEN 0 ELSE kept
        /\ UNCHANGED <<entry, calling>>
  /\ Goto(r, "served")
  /\ UNCHANGED <<file, limit, woken>>

FaultyThrottled(r) ==  \* as if the refused request had given its slot back already, twice
  /\ Ready(r, "open")
  /\ LET others == Less(Less(entry.open))
     IN  IF others > 0
         THEN /\ entry' = [entry EXCEPT !.cap = others, !.probe = FALSE]
              /\ kept' = others
         ELSE UNCHANGED <<entry, kept>>
  /\ Goto(r, "refused")
  /\ UNCHANGED <<file, limit, woken, calling>>

(* throttled: refused with others open, the host serves no more than those. *)
Throttled(r) ==
  /\ Ready(r, "open")
  /\ LET others == Less(entry.open)
     IN  IF others > 0
         THEN /\ entry' = [entry EXCEPT !.cap = others, !.probe = FALSE]
              /\ kept' = others
         ELSE UNCHANGED <<entry, kept>>
  /\ Goto(r, "refused")
  /\ UNCHANGED <<file, limit, woken, calling>>

FaultyGiven(e, l) ==  \* keeps every idle connection
  [e EXCEPT !.open = Less(@), !.held = RemoveLimit(@, l), !.idle = @ + 1]

(* release, as the slot is dropped. *)
Given(e, l) ==
  [e EXCEPT !.open = Less(@), !.held = RemoveLimit(@, l),
            !.idle = IF @ < PoolMaxIdle THEN @ + 1 ELSE @]

FaultyRelease(r) ==  \* calls only if the entry counts waiters, who may have no limit
  /\ r \notin calling /\ pc[r] \in {"open", "served", "refused"}
  /\ entry' = IF entry.known THEN Given(entry, limit[r]) ELSE entry
  /\ limit' = [limit EXCEPT ![r] = 0]
  /\ calling' = IF entry.waiting # NoLimits THEN calling \cup {r} ELSE calling
  /\ Goto(r, "off")
  /\ UNCHANGED <<kept, file, woken>>

Release(r) ==
  /\ r \notin calling /\ pc[r] \in {"open", "served", "refused"}
  /\ entry' = IF entry.known THEN Given(entry, limit[r]) ELSE entry
  /\ limit' = [limit EXCEPT ![r] = 0]
  /\ calling' = calling \cup {r}
  /\ Goto(r, "off")
  /\ UNCHANGED <<kept, file, woken>>

(* notify_waiters, after the unlock: it wakes every task registered now. *)
Registered == {r \in Requests : pc[r] \in {"listening", "asleep"}}

FaultyNotify(r) ==  \* wakes one
  /\ r \in calling
  /\ calling' = calling \ {r}
  /\ woken' = woken \cup {q \in Registered : q = CHOOSE x \in Registered : TRUE}
  /\ UNCHANGED <<memory, pc, limit>>

Notify(r) ==
  /\ r \in calling
  /\ calling' = calling \ {r}
  /\ woken' = woken \cup Registered
  /\ UNCHANGED <<memory, pc, limit>>

-----------------------------------------------------------------------------
(* Time, other hosts and restarts.                                         *)

(* CAP_PROBE_INTERVAL after the cap was learned and last raised. *)
ProbeDue ==
  /\ entry.cap > 0
  /\ entry' = [entry EXCEPT !.probe = TRUE]
  /\ UNCHANGED <<kept, file, tasks>>

(* PROFILE_TTL after the cap was learned. *)
CapExpires ==
  /\ entry.cap > 0
  /\ entry' = [entry EXCEPT !.cap = 0, !.probe = FALSE]
  /\ UNCHANGED <<kept, file, tasks>>

(* POOL_IDLE after a request ended. *)
IdleExpires ==
  /\ entry.idle > 0
  /\ entry' = [entry EXCEPT !.idle = @ - 1]
  /\ UNCHANGED <<kept, file, tasks>>

(* KEPT_FOR after what the file holds was learned, and what memory keeps if that is no newer. *)
KeptExpires ==
  /\ file' = 0
  /\ kept' \in {0, kept}
  /\ UNCHANGED <<entry, tasks>>

(* forget_idle, when a request to one of many other hosts ends. *)
Forget ==
  /\ entry.known /\ IsIdle(entry)
  /\ entry' = NoEntry
  /\ UNCHANGED <<kept, file, tasks>>

Save ==
  /\ file' = kept
  /\ UNCHANGED <<entry, kept, tasks>>

(* The process ends, at any step, and another starts with keep_in. *)
NoTask == [r \in Requests |-> "off"]

Restart ==
  /\ entry' = NoEntry
  /\ kept' = file
  /\ pc' = NoTask
  /\ limit' = [r \in Requests |-> 0]
  /\ woken' = {} /\ calling' = {}
  /\ UNCHANGED file

-----------------------------------------------------------------------------

Init ==
  /\ entry = NoEntry /\ kept = 0 /\ file = 0
  /\ pc = NoTask
  /\ limit = [r \in Requests |-> 0]
  /\ woken = {} /\ calling = {}

(* What a task does next by itself: the runtime runs it, and a request ends. *)
Runs(r) == Listen(r) \/ Get(r) \/ Miss(r) \/ Wake(r) \/ StopWaiting(r) \/ Release(r) \/ Notify(r)

Task(r) == Arrive(r) \/ GiveUp(r) \/ TryAcquire(r) \/ Accepted(r) \/ Throttled(r) \/ Runs(r)

World == ProbeDue \/ CapExpires \/ IdleExpires \/ KeptExpires \/ Forget \/ Save \/ Restart

Next == (\E r \in Requests : Task(r)) \/ World

Spec == Init /\ [][Next]_vars

(* The runtime polls every task it can, and each request ends: by its body, an error or a stall. *)
Fairness == \A r \in Requests : WF_vars(Runs(r))
FairSpec == Spec /\ Fairness

-----------------------------------------------------------------------------
(* Properties.                                                             *)

Holders == {r \in Requests : pc[r] \in {"taken", "open", "served", "refused"}}
Waiters == {r \in Requests : pc[r] \in {"arrived", "listening", "asleep", "leaving", "taken"}}

(* ls counts the requests of rs under each limit, as lim gives them. *)
Counts(ls, rs, lim) == \A l \in Strict : ls[l] = Cardinality({r \in rs : lim[r] = l})

(* Every variable keeps its type; a client keeps no more idle connections than it may. *)
TypeOK ==
  /\ entry \in Entry
  /\ kept \in Nat /\ file \in Nat
  /\ pc \in [Requests -> PC]
  /\ limit \in [Requests -> Limits \cup {0}]
  /\ woken \subseteq Requests /\ calling \subseteq Requests

(* Slots are neither lost nor counted twice, whichever way a request comes to one and goes, and *)
(* whatever happens to the entry meanwhile: the entry's counts are those of the tasks (add_limit, *)
(* remove_limit, the drops of HostSlot and Waiting, forget_idle).                               *)
SlotsCounted ==
  /\ entry.open = Cardinality(Holders)
  /\ Counts(entry.held, Holders, limit)
  /\ Counts(entry.waiting, Waiters, limit)

(* Downloads with differing limits share the host at the strictest: a slot held under a limit is *)
(* one of no more slots than that, whoever took the others and when (allowance).                 *)
WithinLimits == \A r \in Holders : limit[r] > 0 => Cardinality(Holders) <= limit[r]

(* A host that was seen to serve so many at once is never offered more than one beyond that: no *)
(* refusal raises a cap still trusted, however many requests are refused (throttled, accepted). *)
OneProbe == entry.cap > 0 => entry.open <= entry.cap + 1

(* While a cap is trusted, the one kept for the next run is the same, or too old to be kept *)
(* (throttled, accepted, entry).                                                            *)
KeptAgrees == entry.cap > 0 => kept \in {0, entry.cap}

Sleepers == {r \in Requests : pc[r] = "asleep" /\ r \notin woken}

(* No wakeup is lost: whoever sleeps has a task holding a slot, which will call, or one about to *)
(* call (acquire registers before it looks).                                                      *)
SomeoneWillCall == Sleepers # {} => Holders # {} \/ calling # {}

(* A step that makes room for one who sleeps on is followed by a call, or a cap expires. *)
CallsIfRoom == \A r \in Sleepers :
  r \in Sleepers' /\ ~Room(entry, limit[r]) /\ Room(entry, limit[r])' => calling' # {} \/ CapExpires

(* Room that a task makes for a sleeper comes with a call; only a cap that expires makes room *)
(* without one (release, stop_waiting, accepted).                                             *)
CallsWhenRoom == [][CallsIfRoom]_vars

(* If a slot is taken, it is within the limit of each request that waits or holds one. *)
OpensWithin == entry'.open > entry.open =>
  \A r \in Waiters \cup Holders : limit[r] > 0 => entry'.open <= limit[r]

(* A strict request counts from the moment it asks: while it waits or holds a slot, nobody takes *)
(* a slot past its limit (acquire).                                                              *)
HeldBack == [][OpensWithin]_vars

(* Who waits for a slot is woken again and again, until it has one or gives up (notify_waiters). *)
EveryWaiterWoken == \A r \in Requests : pc[r] = "asleep" ~> pc[r] # "asleep"

(* The strict limit counts from when the request asks, so that lenient downloads re-taking slots *)
(* do not keep it waiting (the comment in acquire).  They may: once fewer than its limit are open *)
(* they are as free to take the next slot as it is, and who gave one back is there first.         *)
StrictWaitsAmongLenient(r) ==
  /\ r \in Waiters /\ limit[r] > 0
  /\ \A q \in Requests \ {r} : limit[q] = 0 \/ limit[q] > limit[r]

StrictServed == \A r \in Requests : []<>~StrictWaitsAmongLenient(r)
==============================================================================
