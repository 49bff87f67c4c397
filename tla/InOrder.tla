------------------------------ MODULE InOrder -------------------------------
(***************************************************************************)
(* The window of a stream's download (hls.rs, InOrder and race): units are *)
(* fetched several at a time, the next one twice if it is slow, and handed *)
(* out in order.  The loop that polls it is one task; requests go on       *)
(* beside it.                                                              *)
(***************************************************************************)
EXTENDS Naturals, FiniteSets

CONSTANTS
  Count,         (* units                               *)
  Connections,   (* most requests at once               *)
  Window         (* most units started, not handed out  *)

ASSUME InOrderAssumption == Count \in Nat /\ Connections \in Nat \ {0} /\ Window \in Nat \ {0}

Unit == 0 .. Count - 1

VARIABLES
  head,       (* the next unit to hand out                                        *)
  count,      (* units to hand out: all, or up to the first one known to fail     *)
  started,    (* head + slots.len()                                               *)
  slot,       (* slots: fetching (hedged: by two requests), or how that ended     *)
  requests,   (* InOrder.requests                                                 *)
  first,      (* a unit's first request, in its race                              *)
  second,     (* ... its second one; sent: the race has not taken it up           *)
  outcome     (* how the loop around the window ended                             *)

vars == <<head, count, started, slot, requests, first, second, outcome>>

-----------------------------------------------------------------------------
CanLaunch == requests < Connections /\ started - head < Window /\ started < count

(* launch, one turn of its loop. *)
Launch ==
  /\ outcome = "none"
  /\ CanLaunch
  /\ slot' = [slot EXCEPT ![started] = "fetching"]
  /\ first' = [first EXCEPT ![started] = "going"]
  /\ started' = started + 1
  /\ requests' = requests + 1
  /\ UNCHANGED <<head, count, second, outcome>>

(* Faulty: a unit may be requested again and again. *)
FaultyHedge ==
  /\ outcome = "none"
  /\ ~CanLaunch
  /\ requests < Connections
  /\ head < started /\ slot[head] \in {"fetching", "hedged"}
  /\ slot' = [slot EXCEPT ![head] = "hedged"]
  /\ second' = [second EXCEPT ![head] = "sent"]
  /\ requests' = requests + 1
  /\ UNCHANGED <<head, count, started, first, outcome>>

(* hedge: the next unit is slow, and a connection is free after launch. *)
Hedge ==
  /\ outcome = "none"
  /\ ~CanLaunch
  /\ requests < Connections
  /\ head < started /\ slot[head] = "fetching"
  /\ slot' = [slot EXCEPT ![head] = "hedged"]
  /\ second' = [second EXCEPT ![head] = "sent"]
  /\ requests' = requests + 1
  /\ UNCHANGED <<head, count, started, first, outcome>>

(* The race is polled: it takes the second request up, unless the first has ended. *)
TakeUp(u) ==
  /\ second[u] = "sent" /\ first[u] = "going"
  /\ second' = [second EXCEPT ![u] = "going"]
  /\ UNCHANGED <<head, count, started, slot, requests, first, outcome>>

FirstEnds(u) ==
  /\ first[u] = "going"
  /\ \E r \in {"ok", "failed"} : first' = [first EXCEPT ![u] = r]
  /\ UNCHANGED <<head, count, started, slot, requests, second, outcome>>

SecondEnds(u) ==
  /\ second[u] = "going"
  /\ \E r \in {"ok", "failed"} : second' = [second EXCEPT ![u] = r]
  /\ UNCHANGED <<head, count, started, slot, requests, first, outcome>>

(* Faulty: the first request to end decides. *)
FaultyRaced(u, r) == r \in {"ok", "failed"} /\ r \in {first[u], second[u]}

(* Faulty: with a second request on its way, the first one's end is not enough. *)
FaultyRacedTwo(u, r) ==
  \/ r \in {"ok", "failed"} /\ first[u] = r /\ second[u] = "none"
  \/ r = "ok" /\ second[u] \in {"going", "ok", "failed"} /\ "ok" \in {first[u], second[u]}
  \/ r = "failed" /\ first[u] = "failed" /\ second[u] = "failed"

(* How a race ends: the first success, or the failure of all that was requested. *)
Raced(u, r) ==
  \/ r \in {"ok", "failed"} /\ first[u] = r /\ second[u] \in {"none", "sent"}
  \/ r = "ok" /\ second[u] \in {"going", "ok", "failed"} /\ "ok" \in {first[u], second[u]}
  \/ r = "failed" /\ first[u] = "failed" /\ second[u] = "failed"

Weight(u) == CASE slot[u] = "fetching" -> 1 [] slot[u] = "hedged" -> 2 [] OTHER -> 0
Held(units) ==
  Cardinality({u \in units : slot[u] \in {"fetching", "hedged"}}) + Cardinality({u \in units : slot[u] = "hedged"})

Over(u) == first' = [first EXCEPT ![u] = "none"] /\ second' = [second EXCEPT ![u] = "none"]

(* finish *)
Finish(u) ==
  /\ outcome = "none"
  /\ u \in head .. started - 1
  /\ Raced(u, "ok")
  /\ Over(u)
  /\ slot' = [slot EXCEPT ![u] = "ok"]
  /\ requests' = requests - Weight(u)
  /\ UNCHANGED <<head, count, started, outcome>>

(* Faulty: the units after the failed one are kept. *)
FaultyFinishFailed(u) ==
  /\ outcome = "none"
  /\ u \in head .. started - 1
  /\ Raced(u, "failed")
  /\ Over(u)
  /\ slot' = [slot EXCEPT ![u] = "failed"]
  /\ requests' = requests - Weight(u)
  /\ UNCHANGED <<head, count, started, outcome>>

(* ... a failure: the units after it are dropped. *)
FinishFailed(u) ==
  /\ outcome = "none"
  /\ u \in head .. started - 1
  /\ Raced(u, "failed")
  /\ Over(u)
  /\ slot' = [v \in Unit |-> IF v = u THEN "failed" ELSE IF v > u THEN "idle" ELSE slot[v]]
  /\ requests' = requests - Held(u .. started - 1)
  /\ count' = u + 1
  /\ started' = u + 1
  /\ UNCHANGED <<head, outcome>>

(* A dropped unit's race ends, for nobody. *)
FinishDropped(u) ==
  /\ u >= started
  /\ first[u] # "none"
  /\ Over(u)
  /\ UNCHANGED <<head, count, started, slot, requests, outcome>>

(* pop, once the queue to the disk has room. *)
Pop ==
  /\ outcome = "none"
  /\ head < started /\ slot[head] \in {"ok", "failed"}
  /\ head' = head + 1
  /\ slot' = [slot EXCEPT ![head] = "idle"]
  /\ outcome' = IF slot[head] = "failed" THEN "failed" ELSE "none"
  /\ UNCHANGED <<count, started, requests, first, second>>

IsDone ==
  /\ outcome = "none"
  /\ head = count
  /\ outcome' = "done"
  /\ UNCHANGED <<head, count, started, slot, requests, first, second>>

(* Cancelled or dropped; so is whatever is being fetched. *)
Cancel ==
  /\ outcome = "none"
  /\ outcome' = "cancelled"
  /\ first' = [u \in Unit |-> "none"] /\ second' = [u \in Unit |-> "none"]
  /\ UNCHANGED <<head, count, started, slot, requests>>

-----------------------------------------------------------------------------
Init ==
  /\ head = 0 /\ count = Count /\ started = 0
  /\ slot = [u \in Unit |-> "idle"]
  /\ requests = 0
  /\ first = [u \in Unit |-> "none"] /\ second = [u \in Unit |-> "none"]
  /\ outcome = "none"

Poll(u) == TakeUp(u) \/ Finish(u) \/ FinishFailed(u) \/ FinishDropped(u)

Next ==
  \/ Launch \/ Hedge \/ Pop \/ IsDone \/ Cancel
  \/ \E u \in Unit : Poll(u) \/ FirstEnds(u) \/ SecondEnds(u)

Spec == Init /\ [][Next]_vars

(* The loop goes on, the writer takes what is handed out, a request is answered or given up (the stall *)
(* timeout); nothing makes a unit be requested twice or the user stop.                                 *)
FairSpec ==
  /\ Spec
  /\ WF_vars(Launch) /\ WF_vars(Pop) /\ WF_vars(IsDone)
  /\ \A u \in Unit : WF_vars(Poll(u)) /\ WF_vars(FirstEnds(u)) /\ WF_vars(SecondEnds(u))

-----------------------------------------------------------------------------
TypeOK ==
  /\ head \in 0 .. Count /\ count \in 0 .. Count /\ started \in 0 .. Count
  /\ slot \in [Unit -> {"idle", "fetching", "hedged", "ok", "failed"}]
  /\ requests \in 0 .. Connections
  /\ first \in [Unit -> {"none", "going", "ok", "failed"}]
  /\ second \in [Unit -> {"none", "sent", "going", "ok", "failed"}]
  /\ outcome \in {"none", "done", "failed", "cancelled"}

(* The requests counted are those under way for units of the window, a unit requested twice counting *)
(* twice, and never more than there are connections; so none is lost to failures or to second        *)
(* requests whose first one won, or the window would run dry (hls.rs: InOrder.requests).             *)
RequestsCounted ==
  /\ TypeOK
  /\ requests = Held(Unit)
  /\ requests <= Connections
  /\ \A u \in Unit : (slot[u] # "idle") <=> (u \in head .. started - 1)
  /\ started <= head + Window
  /\ \A u \in Unit : outcome = "none" /\ slot[u] = "fetching" => first[u] # "none" /\ second[u] = "none"

(* Whatever order units arrive in, they are handed out in theirs, each once, and a failure ends the *)
(* download right after the units before it.                                                        *)
Promised == INSTANCE HandOut WITH
  handed <- IF outcome = "failed" THEN head - 1 ELSE head,
  broken <- IF outcome = "failed" \/ \E u \in Unit : slot[u] = "failed" THEN count - 1 ELSE Count
HandsOutInOrder == Promised!Spec

(* A unit is given up only when each request made for it has failed: the second one, slower than the *)
(* first one's failure, still counts.                                                                *)
GivesUpLast ==
  [][\A u \in Unit : slot'[u] = "failed" /\ slot[u] # "failed" => first[u] = "failed" /\ second[u] \notin {"going", "ok"}]_vars

(* Both: hls.rs, InOrder::pop, finish and race. *)
DeliversInOrder == HandsOutInOrder /\ GivesUpLast
=============================================================================
