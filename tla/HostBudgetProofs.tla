--------------------------- MODULE HostBudgetProofs ---------------------------
(***************************************************************************)
(* The budget of a host, for any number of tasks, limits and default cap:  *)
(* its slots are counted, nobody's limit is exceeded, a cap is probed by   *)
(* one request at most, and no wakeup is lost.                             *)
(*                                                                         *)
(* All of it rests on the counts.  A limit under which a slot is held is   *)
(* in force because the entry counts it; the last slot is given back with  *)
(* a call because open counts the slots; and an entry that is forgotten    *)
(* loses nothing because no slot is open then.                             *)
(***************************************************************************)
EXTENDS HostBudget, FiniteSetTheorems, WellFoundedInduction, TLAPS

(* An entry not known yet is empty. *)
UnknownIsEmpty == ~entry.known => entry = NoEntry

Inv ==
  /\ TypeOK /\ UnknownIsEmpty
  /\ SlotsCounted /\ WithinLimits /\ OneProbe /\ KeptAgrees /\ SomeoneWillCall

-----------------------------------------------------------------------------
(* Counting requests under their limits.                                   *)

LEMMA StrictNat == Strict \subseteq Nat \ {0} /\ Limits \cup {0} \subseteq Nat
  BY BudgetAssumption DEF Strict

LEMMA FiniteRequests ==
  ASSUME NEW rs \in SUBSET Requests
  PROVE  IsFiniteSet(rs) /\ Cardinality(rs) \in Nat
  BY BudgetAssumption, FS_Subset, FS_CardinalityType

(* One request more, under the limit lim2 gives it (add_limit). *)
LEMMA JoinCounts ==
  ASSUME NEW rs \in SUBSET Requests, NEW r \in Requests, r \notin rs,
         NEW lim, NEW lim2, \A q \in rs : lim2[q] = lim[q], lim2[r] \in Limits \cup {0},
         NEW ls \in [Strict -> Nat], Counts(ls, rs, lim)
  PROVE  Counts(AddLimit(ls, lim2[r]), rs \cup {r}, lim2)
<1> SUFFICES ASSUME NEW l \in Strict
             PROVE  AddLimit(ls, lim2[r])[l] = Cardinality({q \in rs \cup {r} : lim2[q] = l})
  BY DEF Counts
<1> DEFINE old == {q \in rs : lim[q] = l}
           new == {q \in rs \cup {r} : lim2[q] = l}
<1>1. ls[l] = Cardinality(old) /\ IsFiniteSet(old) /\ r \notin old /\ ls[l] \in Nat
  BY FiniteRequests DEF Counts
<1>2. CASE lim2[r] = l
  <2>1. new = old \cup {r}
    BY <1>2
  <2>2. Cardinality(new) = Cardinality(old) + 1
    BY <1>1, <2>1, FS_AddElement
  <2>3. AddLimit(ls, lim2[r])[l] = ls[l] + 1
    BY <1>2, StrictNat DEF AddLimit
  <2> QED
    BY <1>1, <2>2, <2>3
<1>3. CASE lim2[r] # l
  <2>1. new = old
    BY <1>3
  <2>2. AddLimit(ls, lim2[r])[l] = ls[l]
    BY <1>3 DEF AddLimit
  <2> QED
    BY <1>1, <2>1, <2>2
<1> QED
  BY <1>2, <1>3

(* One request less (remove_limit). *)
LEMMA LeaveCounts ==
  ASSUME NEW rs \in SUBSET Requests, NEW r \in rs,
         NEW lim, NEW lim2, \A q \in rs \ {r} : lim2[q] = lim[q], lim[r] \in Limits \cup {0},
         NEW ls \in [Strict -> Nat], Counts(ls, rs, lim)
  PROVE  Counts(RemoveLimit(ls, lim[r]), rs \ {r}, lim2)
<1> SUFFICES ASSUME NEW l \in Strict
             PROVE  RemoveLimit(ls, lim[r])[l] = Cardinality({q \in rs \ {r} : lim2[q] = l})
  BY DEF Counts
<1> DEFINE old == {q \in rs : lim[q] = l}
           new == {q \in rs \ {r} : lim2[q] = l}
<1>1. ls[l] = Cardinality(old) /\ IsFiniteSet(old) /\ ls[l] \in Nat
  BY FiniteRequests DEF Counts
<1>2. CASE lim[r] = l
  <2>1. new = old \ {r} /\ r \in old
    BY <1>2
  <2> HIDE DEF old, new
  <2>2. Cardinality(old) # 0
    BY <1>1, <2>1, FS_EmptySet
  <2>3. Cardinality(new) = Cardinality(old) - 1
    BY <1>1, <2>1, FS_RemoveElement
  <2>4. RemoveLimit(ls, lim[r])[l] = Less(ls[l])
    BY <1>2, StrictNat DEF RemoveLimit
  <2>5. RemoveLimit(ls, lim[r])[l] = Cardinality(new)
    BY <1>1, <2>2, <2>3, <2>4 DEF Less
  <2> QED
    BY <2>5 DEF new
<1>3. CASE lim[r] # l
  <2>1. new = old
    BY <1>3
  <2>2. RemoveLimit(ls, lim[r])[l] = ls[l]
    BY <1>3 DEF RemoveLimit
  <2> QED
    BY <1>1, <2>1, <2>2
<1> QED
  BY <1>2, <1>3

(* The same requests, under the same limits. *)
LEMMA SameCounts ==
  ASSUME NEW rs \in SUBSET Requests, NEW lim, NEW lim2, \A q \in rs : lim2[q] = lim[q],
         NEW ls, Counts(ls, rs, lim)
  PROVE  Counts(ls, rs, lim2)
<1> SUFFICES ASSUME NEW l \in Strict
             PROVE  ls[l] = Cardinality({q \in rs : lim2[q] = l})
  BY DEF Counts
<1>1. {q \in rs : lim2[q] = l} = {q \in rs : lim[q] = l}
  OBVIOUS
<1> QED
  BY <1>1 DEF Counts

(* Nobody, hence nobody under any limit. *)
LEMMA NobodyCounts ==
  ASSUME NEW lim PROVE Counts(NoLimits, {}, lim)
<1> SUFFICES ASSUME NEW l \in Strict
             PROVE  NoLimits[l] = Cardinality({q \in {} : lim[q] = l})
  BY DEF Counts
<1>1. {q \in {} : lim[q] = l} = {}
  OBVIOUS
<1> QED
  BY <1>1, FS_EmptySet DEF NoLimits

-----------------------------------------------------------------------------
(* Entries.                                                                *)

(* An entry made anew differs from what was known before in its cap alone. *)
LEMMA EnteredFacts ==
  ASSUME Inv
  PROVE  /\ Entered \in Entry /\ Entered.known
         /\ Entered.open = entry.open /\ Entered.held = entry.held /\ Entered.waiting = entry.waiting
         /\ Entered.cap > 0 => Entered.open <= Entered.cap + 1
<1>1. NoEntry \in Entry
  BY BudgetAssumption DEF NoEntry, NoLimits, Entry
<1>2. CASE entry.known
  BY <1>2 DEF Inv, TypeOK, OneProbe, Entered
<1>3. CASE ~entry.known
  <2>1. entry = NoEntry /\ kept \in Nat
    BY <1>3 DEF Inv, TypeOK, UnknownIsEmpty
  <2>2. Entered = [NoEntry EXCEPT !.known = TRUE, !.cap = kept]
    BY <1>3 DEF Entered
  <2>3. /\ Entered.known /\ Entered.open = 0 /\ Entered.held = NoEntry.held
        /\ Entered.waiting = NoEntry.waiting /\ entry.open = 0 /\ Entered.cap = kept
    BY <2>1, <2>2 DEF NoEntry
  <2>4. Entered \in Entry
    BY <1>1, <2>1, <2>2 DEF Entry
  <2> QED
    BY <2>1, <2>3, <2>4
<1> QED
  BY <1>2, <1>3

(* A host with nothing open has room: no limit and no cap is zero (allowance). *)
LEMMA NoRoomIsOpen ==
  ASSUME NEW e \in Entry, NEW l \in Limits \cup {0}, ~Room(e, l)
  PROVE  e.open > 0
<1>1. e.open \in Nat /\ e.cap \in Nat /\ DefaultCap \in Nat /\ l \in Nat
  BY StrictNat, BudgetAssumption DEF Entry
<1>2. InForce(e) \subseteq Nat \ {0}
  BY StrictNat DEF InForce
<1> QED
  BY <1>1, <1>2 DEF Room, CapInForce

(* What the operations on an entry make of its type. *)
LEMMA EntryTypes ==
  ASSUME NEW e \in Entry, NEW l \in Limits \cup {0}
  PROVE  /\ [e EXCEPT !.waiting = AddLimit(@, l)] \in Entry
         /\ Taken(e, l) \in Entry /\ Waited(e, l) \in Entry /\ Given(e, l) \in Entry
<1>1. /\ e.open \in Nat /\ e.held \in [Strict -> Nat] /\ e.waiting \in [Strict -> Nat]
      /\ e.idle \in 0 .. PoolMaxIdle /\ PoolMaxIdle \in Nat
  BY BudgetAssumption DEF Entry
<1>2. l # 0 => l \in Strict
  BY DEF Strict
<1>3. ASSUME NEW ls \in [Strict -> Nat]
      PROVE  AddLimit(ls, l) \in [Strict -> Nat] /\ RemoveLimit(ls, l) \in [Strict -> Nat]
  BY <1>2 DEF AddLimit, RemoveLimit, Less
<1>4. e.open + 1 \in Nat /\ Less(e.open) \in Nat /\ Less(e.idle) \in 0 .. PoolMaxIdle
  BY <1>1 DEF Less
<1>5. (IF e.idle < PoolMaxIdle THEN e.idle + 1 ELSE e.idle) \in 0 .. PoolMaxIdle
  BY <1>1
<1>6. [e EXCEPT !.waiting = AddLimit(@, l)] \in Entry /\ Waited(e, l) \in Entry
  BY <1>1, <1>3 DEF Entry, Waited
<1>7. Taken(e, l) \in Entry
  BY <1>1, <1>3, <1>4 DEF Entry, Taken
<1>8. Given(e, l) \in Entry
  BY <1>1, <1>3, <1>4, <1>5 DEF Entry, Given
<1> QED
  BY <1>6, <1>7, <1>8

-----------------------------------------------------------------------------
(* Types.                                                                  *)

LEMMA InitInv == Init => Inv
<1> SUFFICES ASSUME Init PROVE Inv
  OBVIOUS
<1>1. TypeOK
  BY BudgetAssumption DEF Init, TypeOK, NoEntry, NoLimits, Entry, NoTask, PC
<1>2. Holders = {} /\ Waiters = {} /\ Sleepers = {}
  BY DEF Init, Holders, Waiters, Sleepers, NoTask
<1>3. entry = NoEntry /\ NoEntry.open = 0 /\ NoEntry.cap = 0
      /\ NoEntry.held = NoLimits /\ NoEntry.waiting = NoLimits
  BY DEF Init, NoEntry
<1>4. SlotsCounted
  BY <1>2, <1>3, NobodyCounts, FS_EmptySet DEF SlotsCounted
<1> QED
  BY <1>1, <1>2, <1>3, <1>4
  DEF Inv, UnknownIsEmpty, WithinLimits, OneProbe, KeptAgrees, SomeoneWillCall

LEMMA TypeStep ==
  ASSUME Inv, [Next]_vars
  PROVE  TypeOK' /\ UnknownIsEmpty'
<1> USE DEF Inv
<1>0. entry \in Entry /\ Entered \in Entry /\ Entered.known /\ NoEntry \in Entry /\ NoEntry.known = FALSE
  BY EnteredFacts, BudgetAssumption DEF TypeOK, NoEntry, NoLimits, Entry
<1>1. ASSUME NEW r \in Requests, Arrive(r) PROVE TypeOK' /\ UnknownIsEmpty'
  <2>1. PICK l \in Limits : /\ limit' = [limit EXCEPT ![r] = l]
                            /\ entry' = [Entered EXCEPT !.waiting = AddLimit(@, l)]
    BY <1>1 DEF Arrive
  <2>2. entry' \in Entry /\ entry'.known
    BY <1>0, <2>1, EntryTypes DEF Entry
  <2> QED
    BY <1>1, <2>1, <2>2 DEF Arrive, Goto, TypeOK, PC, UnknownIsEmpty
<1>2. ASSUME NEW r \in Requests, Listen(r) \/ Wake(r) \/ GiveUp(r) \/ Notify(r)
      PROVE  TypeOK' /\ UnknownIsEmpty'
  BY <1>2 DEF Listen, Wake, GiveUp, Notify, Registered, Goto, memory, TypeOK, PC, UnknownIsEmpty
<1>3. ASSUME NEW r \in Requests, Get(r) PROVE TypeOK' /\ UnknownIsEmpty'
  <2>1. limit[r] \in Limits \cup {0} /\ entry' = Taken(Entered, limit[r])
    BY <1>3 DEF Get, TypeOK
  <2>2. entry' \in Entry /\ entry'.known
    BY <1>0, <2>1, EntryTypes DEF Entry, Taken
  <2> QED
    BY <1>3, <2>2 DEF Get, Goto, TypeOK, PC, UnknownIsEmpty
<1>4. ASSUME NEW r \in Requests, Miss(r) PROVE TypeOK' /\ UnknownIsEmpty'
  BY <1>0, <1>4 DEF Miss, Goto, TypeOK, PC, UnknownIsEmpty
<1>5. ASSUME NEW r \in Requests, StopWaiting(r) PROVE TypeOK' /\ UnknownIsEmpty'
  <2>1. limit[r] \in Limits \cup {0}
    BY DEF TypeOK
  <2>2. entry' \in {Waited(entry, limit[r]), NoEntry}
    BY <1>5 DEF StopWaiting
  <2>3. entry' \in Entry
    BY <1>0, <2>1, <2>2, EntryTypes
  <2>4. UnknownIsEmpty'
    <3>1. CASE entry' = Waited(entry, limit[r]) /\ entry.known
      BY <1>0, <3>1 DEF Waited, Entry, UnknownIsEmpty
    <3>2. CASE entry' = Waited(entry, limit[r]) /\ ~entry.known
      <4>1. entry = NoEntry
        BY <3>2 DEF UnknownIsEmpty
      <4>2. RemoveLimit(NoLimits, limit[r]) = NoLimits
        BY DEF RemoveLimit, NoLimits, Less
      <4> QED
        BY <3>2, <4>1, <4>2 DEF Waited, NoEntry, UnknownIsEmpty
    <3> QED
      BY <2>2, <3>1, <3>2 DEF UnknownIsEmpty
  <2>5. pc' \in [Requests -> PC] /\ limit' \in [Requests -> Limits \cup {0}]
    BY <1>5 DEF StopWaiting, Goto, TypeOK, PC
  <2>6. calling' \subseteq Requests
    BY <1>5 DEF StopWaiting, TypeOK
  <2> QED
    BY <1>5, <2>3, <2>4, <2>5, <2>6 DEF StopWaiting, TypeOK
<1>6. ASSUME NEW r \in Requests, TryAcquire(r) PROVE TypeOK' /\ UnknownIsEmpty'
  <2>1. PICK l \in Limits : entry' = Taken(Entered, l) /\ limit' = [limit EXCEPT ![r] = l]
    BY <1>6 DEF TryAcquire
  <2>2. entry' \in Entry /\ entry'.known
    BY <1>0, <2>1, EntryTypes DEF Entry, Taken
  <2> QED
    BY <1>6, <2>1, <2>2 DEF TryAcquire, Goto, TypeOK, PC, UnknownIsEmpty
<1>7. ASSUME NEW r \in Requests, Accepted(r) PROVE TypeOK' /\ UnknownIsEmpty'
  <2>1. entry.cap \in Nat /\ entry.known \in BOOLEAN
    BY <1>0 DEF Entry
  <2>2. entry.cap + 1 \in Nat /\ [entry EXCEPT !.cap = @ + 1, !.probe = FALSE] \in Entry
    <3>1. \A n \in Nat : [entry EXCEPT !.cap = n, !.probe = FALSE] \in Entry
      BY <1>0 DEF Entry
    <3>2. entry.cap + 1 \in Nat
      BY <2>1
    <3> QED
      BY <3>1, <3>2
  <2>3. entry' \in Entry
    <3>1. entry' = [entry EXCEPT !.cap = @ + 1, !.probe = FALSE] \/ entry' = entry
      BY <1>7 DEF Accepted
    <3> QED
      BY <1>0, <2>2, <3>1
  <2>4. kept' \in Nat /\ calling' \subseteq Requests
    BY <1>7, <2>2 DEF Accepted, TypeOK
  <2>5. UnknownIsEmpty'
    BY <1>0, <1>7, <2>1 DEF Accepted, Entry, UnknownIsEmpty, NoEntry
  <2> QED
    BY <1>7, <2>3, <2>4, <2>5 DEF Accepted, Goto, TypeOK, PC
<1>8. ASSUME NEW r \in Requests, Throttled(r) PROVE TypeOK' /\ UnknownIsEmpty'
  <2>1. entry.open \in Nat /\ entry.known \in BOOLEAN /\ Less(entry.open) \in Nat
    BY <1>0 DEF Entry, Less
  <2>2. kept' \in Nat /\ entry' \in Entry
    BY <1>0, <1>8, <2>1 DEF Throttled, Entry, TypeOK
  <2>3. UnknownIsEmpty'
    <3>1. CASE entry.known
      BY <1>0, <1>8, <3>1 DEF Throttled, Entry, UnknownIsEmpty
    <3>2. CASE ~entry.known
      <4>1. entry = NoEntry /\ Less(entry.open) = 0
        BY <3>2 DEF UnknownIsEmpty, NoEntry, Less
      <4> QED
        BY <1>8, <4>1 DEF Throttled, UnknownIsEmpty
    <3> QED
      BY <3>1, <3>2
  <2> QED
    BY <1>8, <2>2, <2>3 DEF Throttled, Goto, TypeOK, PC
<1>9. ASSUME NEW r \in Requests, Release(r) PROVE TypeOK' /\ UnknownIsEmpty'
  <2>1. limit[r] \in Limits \cup {0}
    BY DEF TypeOK
  <2>2. entry' \in Entry /\ (entry.known => entry'.known) /\ (~entry.known => entry' = entry)
    BY <1>0, <1>9, <2>1, EntryTypes DEF Release, Given, Entry
  <2> QED
    BY <1>9, <2>2 DEF Release, Goto, TypeOK, PC, UnknownIsEmpty
<1>10. ASSUME World PROVE TypeOK' /\ UnknownIsEmpty'
  <2>1. CASE ProbeDue \/ CapExpires \/ IdleExpires
    <3>1. entry.known
      BY <2>1 DEF ProbeDue, CapExpires, IdleExpires, UnknownIsEmpty, NoEntry
    <3>2. entry.idle > 0 => entry.idle - 1 \in 0 .. PoolMaxIdle
      BY <1>0, BudgetAssumption DEF Entry
    <3>3. entry' \in Entry
      <4>1. CASE ProbeDue
        BY <1>0, <4>1 DEF ProbeDue, Entry
      <4>2. CASE CapExpires
        BY <1>0, <4>2 DEF CapExpires, Entry
      <4>3. CASE IdleExpires
        BY <1>0, <3>2, <4>3 DEF IdleExpires, Entry
      <4> QED
        BY <2>1, <4>1, <4>2, <4>3
    <3>4. entry'.known
      BY <1>0, <2>1, <3>1 DEF ProbeDue, CapExpires, IdleExpires, Entry
    <3> QED
      BY <2>1, <3>3, <3>4 DEF ProbeDue, CapExpires, IdleExpires, TypeOK, tasks, UnknownIsEmpty
  <2>2. CASE KeptExpires \/ Forget \/ Save
    BY <1>0, <2>2 DEF KeptExpires, Forget, Save, TypeOK, tasks, UnknownIsEmpty
  <2>3. CASE Restart
    BY <1>0, <2>3 DEF Restart, NoTask, TypeOK, PC, UnknownIsEmpty
  <2> QED
    BY <1>10, <2>1, <2>2, <2>3 DEF World
<1>11. CASE UNCHANGED vars
  BY <1>11 DEF vars, memory, tasks, TypeOK, UnknownIsEmpty
<1> QED
  BY <1>1, <1>2, <1>3, <1>4, <1>5, <1>6, <1>7, <1>8, <1>9, <1>10, <1>11 DEF Next, Task, Runs

-----------------------------------------------------------------------------
(* The counts.                                                             *)

LEMMA SetsAreRequests == Holders \subseteq Requests /\ Waiters \subseteq Requests
  BY DEF Holders, Waiters

(* Neither who holds a slot nor who waits changes, nor under which limit. *)
LEMMA SameTasks ==
  ASSUME SlotsCounted, Holders' = Holders, Waiters' = Waiters,
         \A q \in Holders \cup Waiters : limit'[q] = limit[q],
         entry'.open = entry.open, entry'.held = entry.held, entry'.waiting = entry.waiting
  PROVE  SlotsCounted'
<1>1. Counts(entry.held, Holders, limit') /\ Counts(entry.waiting, Waiters, limit')
  BY SameCounts, SetsAreRequests DEF SlotsCounted
<1> QED
  BY <1>1 DEF SlotsCounted

LEMMA CountStep ==
  ASSUME Inv, [Next]_vars
  PROVE  SlotsCounted'
<1> USE DEF Inv
<1>0. /\ entry \in Entry /\ entry.held \in [Strict -> Nat] /\ entry.waiting \in [Strict -> Nat]
      /\ entry.open \in Nat /\ entry.open = Cardinality(Holders)
      /\ Counts(entry.held, Holders, limit) /\ Counts(entry.waiting, Waiters, limit)
      /\ pc \in [Requests -> PC] /\ limit \in [Requests -> Limits \cup {0}]
      /\ Holders \subseteq Requests /\ Waiters \subseteq Requests
      /\ IsFiniteSet(Holders)
  BY SetsAreRequests, FiniteRequests DEF TypeOK, SlotsCounted, Entry
<1>e. /\ Entered \in Entry /\ Entered.open = entry.open
      /\ Entered.held = entry.held /\ Entered.waiting = entry.waiting
  BY EnteredFacts
<1>1. ASSUME NEW r \in Requests, Arrive(r) PROVE SlotsCounted'
  <2>1. PICK l \in Limits : /\ limit' = [limit EXCEPT ![r] = l]
                            /\ entry' = [Entered EXCEPT !.waiting = AddLimit(@, l)]
    BY <1>1 DEF Arrive
  <2>2. /\ Holders' = Holders /\ Waiters' = Waiters \cup {r}
        /\ r \notin Holders /\ r \notin Waiters
    BY <1>0, <1>1 DEF Arrive, Ready, Goto, Holders, Waiters
  <2>3. /\ \A q \in Holders \cup Waiters : limit'[q] = limit[q]
        /\ limit'[r] = l /\ l \in Limits \cup {0}
    BY <1>0, <2>1, <2>2
  <2>4. Counts(AddLimit(entry.waiting, limit'[r]), Waiters \cup {r}, limit')
    BY <1>0, <2>2, <2>3, JoinCounts
  <2>5. Counts(entry.held, Holders, limit')
    BY <1>0, <2>3, SameCounts
  <2>6. /\ entry'.open = entry.open /\ entry'.held = entry.held
        /\ entry'.waiting = AddLimit(entry.waiting, limit'[r])
    BY <1>e, <2>1, <2>3 DEF Entry
  <2> QED
    BY <1>0, <2>2, <2>4, <2>5, <2>6 DEF SlotsCounted
<1>2. ASSUME NEW r \in Requests, Get(r) PROVE SlotsCounted'
  <2>1. entry' = Taken(Entered, limit[r]) /\ limit' = limit
    BY <1>2 DEF Get
  <2>2. Holders' = Holders \cup {r} /\ Waiters' = Waiters /\ r \notin Holders
    BY <1>0, <1>2 DEF Get, Ready, Goto, Holders, Waiters
  <2>3. limit[r] \in Limits \cup {0}
    BY <1>0
  <2>4. Counts(AddLimit(entry.held, limit[r]), Holders \cup {r}, limit)
    BY <1>0, <2>2, <2>3, JoinCounts
  <2>5. Cardinality(Holders \cup {r}) = entry.open + 1
    BY <1>0, <2>2, FS_AddElement
  <2>6. /\ entry'.open = entry.open + 1 /\ entry'.waiting = entry.waiting
        /\ entry'.held = AddLimit(entry.held, limit[r])
    BY <1>e, <2>1 DEF Taken, Entry
  <2> QED
    BY <1>0, <2>1, <2>2, <2>4, <2>5, <2>6 DEF SlotsCounted
<1>3. ASSUME NEW r \in Requests, TryAcquire(r) PROVE SlotsCounted'
  <2>1. PICK l \in Limits : entry' = Taken(Entered, l) /\ limit' = [limit EXCEPT ![r] = l]
    BY <1>3 DEF TryAcquire
  <2>2. /\ Holders' = Holders \cup {r} /\ Waiters' = Waiters
        /\ r \notin Holders /\ r \notin Waiters
    BY <1>0, <1>3 DEF TryAcquire, Ready, Goto, Holders, Waiters
  <2>3. /\ \A q \in Holders \cup Waiters : limit'[q] = limit[q]
        /\ limit'[r] = l /\ l \in Limits \cup {0}
    BY <1>0, <2>1, <2>2
  <2>4. Counts(AddLimit(entry.held, limit'[r]), Holders \cup {r}, limit')
    BY <1>0, <2>2, <2>3, JoinCounts
  <2>5. Cardinality(Holders \cup {r}) = entry.open + 1
    BY <1>0, <2>2, FS_AddElement
  <2>6. Counts(entry.waiting, Waiters, limit')
    BY <1>0, <2>3, SameCounts
  <2>7. /\ entry'.open = entry.open + 1 /\ entry'.waiting = entry.waiting
        /\ entry'.held = AddLimit(entry.held, limit'[r])
    BY <1>e, <2>1, <2>3 DEF Taken, Entry
  <2> QED
    BY <1>0, <2>2, <2>4, <2>5, <2>6, <2>7 DEF SlotsCounted
<1>4. ASSUME NEW r \in Requests, StopWaiting(r) PROVE SlotsCounted'
  <2> DEFINE e == Waited(entry, limit[r])
  <2>1. entry' = e \/ (entry' = NoEntry /\ IsIdle(e))
    BY <1>4 DEF StopWaiting
  <2>2. Holders' = Holders /\ Waiters' = Waiters \ {r} /\ r \in Waiters
    BY <1>0, <1>4 DEF StopWaiting, Goto, Holders, Waiters
  <2>3. \A q \in Requests \ {r} : limit'[q] = limit[q]
    BY <1>0, <1>4 DEF StopWaiting
  <2>4. \A q \in Holders : limit'[q] = limit[q]
    BY <1>0, <1>4, <2>3 DEF StopWaiting, Holders
  <2>5. Counts(RemoveLimit(entry.waiting, limit[r]), Waiters \ {r}, limit')
    <3>1. r \in Waiters /\ limit[r] \in Limits \cup {0} /\ \A q \in Waiters \ {r} : limit'[q] = limit[q]
      BY <1>0, <2>2, <2>3
    <3> QED
      BY <1>0, <3>1, LeaveCounts
  <2>6. Counts(entry.held, Holders, limit')
    BY <1>0, <2>4, SameCounts
  <2>7. /\ e.open = entry.open /\ e.held = entry.held
        /\ e.waiting = RemoveLimit(entry.waiting, limit[r])
    BY <1>0 DEF Waited, Entry
  <2>8. CASE entry' = e
    BY <1>0, <2>2, <2>5, <2>6, <2>7, <2>8 DEF SlotsCounted
  <2>9. CASE entry' = NoEntry /\ IsIdle(e)
    <3>1. entry.open = 0 /\ e.waiting = NoLimits
      BY <2>7, <2>9 DEF IsIdle
    <3>2. Holders = {}
      BY <1>0, <3>1, FS_EmptySet
    <3>3. Counts(NoLimits, Holders, limit') /\ Counts(NoLimits, Waiters \ {r}, limit')
      BY <2>5, <2>7, <3>1, <3>2, NobodyCounts
    <3> QED
      BY <1>0, <2>2, <2>9, <3>1, <3>3 DEF SlotsCounted, NoEntry
  <2> QED
    BY <2>1, <2>8, <2>9
<1>5. ASSUME NEW r \in Requests, Release(r) PROVE SlotsCounted'
  <2>1. Holders' = Holders \ {r} /\ Waiters' = Waiters /\ r \in Holders /\ r \notin Waiters
    BY <1>0, <1>5 DEF Release, Goto, Holders, Waiters
  <2>2. Cardinality(Holders) # 0 /\ Cardinality(Holders \ {r}) = Cardinality(Holders) - 1
    BY <1>0, <2>1, FS_EmptySet, FS_RemoveElement
  <2>3. entry.known
    BY <1>0, <2>2 DEF UnknownIsEmpty, NoEntry
  <2>4. \A q \in Requests \ {r} : limit'[q] = limit[q]
    BY <1>0, <1>5 DEF Release
  <2>5. Counts(RemoveLimit(entry.held, limit[r]), Holders \ {r}, limit')
    <3>1. limit[r] \in Limits \cup {0} /\ \A q \in Holders \ {r} : limit'[q] = limit[q]
      BY <1>0, <2>4
    <3> QED
      BY <1>0, <2>1, <3>1, LeaveCounts
  <2>6. Counts(entry.waiting, Waiters, limit')
    <3>1. \A q \in Waiters : limit'[q] = limit[q]
      BY <1>0, <2>1, <2>4
    <3> QED
      BY <1>0, <3>1, SameCounts
  <2>7. /\ entry'.open = Less(entry.open) /\ entry'.waiting = entry.waiting
        /\ entry'.held = RemoveLimit(entry.held, limit[r])
    BY <1>0, <1>5, <2>3 DEF Release, Given, Entry
  <2>8. Less(entry.open) = Cardinality(Holders \ {r})
    BY <1>0, <2>2 DEF Less
  <2> QED
    BY <2>1, <2>5, <2>6, <2>7, <2>8 DEF SlotsCounted
<1>6. ASSUME NEW r \in Requests, Listen(r) \/ Wake(r) \/ GiveUp(r) \/ Miss(r) \/ Accepted(r) \/ Throttled(r)
      PROVE  SlotsCounted'
  <2>1. limit' = limit
    BY <1>6 DEF Listen, Wake, GiveUp, Miss, Accepted, Throttled
  <2>2. /\ entry'.open = entry.open /\ entry'.held = entry.held /\ entry'.waiting = entry.waiting
    BY <1>0, <1>e, <1>6 DEF Listen, Wake, GiveUp, Miss, Accepted, Throttled, memory, Entry
  <2>3. Holders' = Holders /\ Waiters' = Waiters
    BY <1>0, <1>6
       DEF Listen, Wake, GiveUp, Miss, Accepted, Throttled, Ready, Goto, Holders, Waiters
  <2> QED
    BY <2>1, <2>2, <2>3, SameTasks
<1>7. ASSUME NEW r \in Requests, Notify(r) PROVE SlotsCounted'
  BY <1>7, SameTasks DEF Notify, memory, Holders, Waiters
<1>8. CASE World
  <2>1. CASE ProbeDue \/ CapExpires \/ IdleExpires \/ KeptExpires \/ Save
    <3>1. pc' = pc /\ limit' = limit
      BY <2>1 DEF ProbeDue, CapExpires, IdleExpires, KeptExpires, Save, tasks
    <3>2. /\ entry'.open = entry.open /\ entry'.held = entry.held /\ entry'.waiting = entry.waiting
      BY <1>0, <2>1 DEF ProbeDue, CapExpires, IdleExpires, KeptExpires, Save, Entry
    <3> QED
      BY <3>1, <3>2, SameTasks DEF Holders, Waiters
  <2>2. CASE Forget
    <3>1. entry.open = 0 /\ entry.waiting = NoLimits /\ entry' = NoEntry /\ pc' = pc /\ limit' = limit
      BY <2>2 DEF Forget, IsIdle, tasks
    <3>2. Holders = {}
      BY <1>0, <3>1, FS_EmptySet
    <3>3. Counts(NoLimits, Holders, limit) /\ Counts(NoLimits, Waiters, limit)
      BY <1>0, <3>1, <3>2, NobodyCounts
    <3>4. Holders' = Holders /\ Waiters' = Waiters
      BY <3>1 DEF Holders, Waiters
    <3> QED
      BY <1>0, <3>1, <3>3, <3>4 DEF SlotsCounted, NoEntry
  <2>3. CASE Restart
    <3>1. Holders' = {} /\ Waiters' = {}
      BY <2>3 DEF Restart, NoTask, Holders, Waiters
    <3>2. Counts(NoLimits, {}, limit')
      BY NobodyCounts
    <3> QED
      BY <2>3, <3>1, <3>2, FS_EmptySet DEF Restart, SlotsCounted, NoEntry
  <2> QED
    BY <1>8, <2>1, <2>2, <2>3 DEF World
<1>9. CASE UNCHANGED vars
  BY <1>9, SameTasks DEF vars, memory, tasks, Holders, Waiters
<1> QED
  BY <1>1, <1>2, <1>3, <1>4, <1>5, <1>6, <1>7, <1>8, <1>9 DEF Next, Task, Runs

-----------------------------------------------------------------------------
(* Limits and caps.                                                        *)

(* A slot taken where there is room respects the limits of all who hold one. *)
LEMMA TakingIsWithin ==
  ASSUME Inv, NEW r \in Requests, r \notin Holders, Holders' = Holders \cup {r},
         \A q \in Holders : limit'[q] = limit[q],
         limit'[r] \in Limits \cup {0}, Room(Entered, limit'[r])
  PROVE  WithinLimits'
<1>1. /\ IsFiniteSet(Holders) /\ entry.open = Cardinality(Holders) /\ entry.open \in Nat
      /\ limit \in [Requests -> Limits \cup {0}] /\ Holders \subseteq Requests
  BY FiniteRequests, SetsAreRequests DEF Inv, TypeOK, SlotsCounted
<1>2. Cardinality(Holders') = entry.open + 1
  BY <1>1, FS_AddElement
<1>3. limit'[r] > 0 => entry.open + 1 <= limit'[r]
  <2>1. limit'[r] > 0 => entry.open < limit'[r]
    BY EnteredFacts DEF Room
  <2> QED
    BY <1>1, <2>1, StrictNat
<1>4. ASSUME NEW q \in Holders, limit[q] > 0
      PROVE  entry.open + 1 <= limit[q]
  <2>1. limit[q] \in Strict /\ limit[q] \in Nat
    BY <1>1, <1>4, StrictNat DEF Strict
  <2> DEFINE same == {x \in Holders : limit[x] = limit[q]}
  <2>2. IsFiniteSet(same) /\ q \in same /\ Cardinality(same) \in Nat
    BY <1>1, FiniteRequests
  <2>3. entry.held[limit[q]] = Cardinality(same)
    BY <2>1 DEF Inv, SlotsCounted, Counts
  <2> HIDE DEF same
  <2>4. entry.held[limit[q]] > 0
    BY <2>2, <2>3, FS_EmptySet
  <2>5. limit[q] \in InForce(Entered)
    BY <2>1, <2>4, EnteredFacts DEF InForce
  <2>6. entry.open < limit[q]
    BY <2>5, EnteredFacts DEF Room
  <2> QED
    BY <1>1, <2>1, <2>6
<1> QED
  BY <1>1, <1>2, <1>3, <1>4 DEF WithinLimits

(* Who keeps a slot while none is taken keeps within its limit. *)
LEMMA KeepingIsWithin ==
  ASSUME Inv, Holders' \subseteq Holders, \A q \in Holders' : limit'[q] = limit[q]
  PROVE  WithinLimits'
<1>1. IsFiniteSet(Holders) /\ Cardinality(Holders') <= Cardinality(Holders)
  BY FiniteRequests, SetsAreRequests, FS_Subset
<1>2. /\ Cardinality(Holders) \in Nat /\ Cardinality(Holders') \in Nat
      /\ limit \in [Requests -> Limits \cup {0}]
  BY FiniteRequests, SetsAreRequests DEF Inv, TypeOK
<1>3. ASSUME NEW q \in Holders', limit[q] > 0
      PROVE  Cardinality(Holders') <= limit[q]
  <2>1. Cardinality(Holders) <= limit[q]
    BY <1>3 DEF Inv, WithinLimits
  <2>2. limit[q] \in Nat
    BY <1>2, StrictNat, SetsAreRequests
  <2> QED
    BY <1>1, <1>2, <2>1, <2>2
<1> QED
  BY <1>3 DEF WithinLimits

LEMMA LimitStep ==
  ASSUME Inv, [Next]_vars
  PROVE  WithinLimits'
<1>0. pc \in [Requests -> PC] /\ limit \in [Requests -> Limits \cup {0}]
  BY DEF Inv, TypeOK
<1>1. ASSUME NEW r \in Requests, Get(r) PROVE WithinLimits'
  <2>1. /\ r \notin Holders /\ Holders' = Holders \cup {r} /\ limit' = limit
        /\ Room(Entered, limit[r])
    BY <1>0, <1>1 DEF Get, Ready, Goto, Holders
  <2>2. limit'[r] \in Limits \cup {0} /\ Room(Entered, limit'[r])
    BY <1>0, <2>1
  <2> QED
    BY <2>1, <2>2, TakingIsWithin
<1>2. ASSUME NEW r \in Requests, TryAcquire(r) PROVE WithinLimits'
  <2>1. PICK l \in Limits : Room(Entered, l) /\ limit' = [limit EXCEPT ![r] = l]
    BY <1>2 DEF TryAcquire
  <2>2. r \notin Holders /\ Holders' = Holders \cup {r}
    BY <1>0, <1>2 DEF TryAcquire, Ready, Goto, Holders
  <2>3. /\ limit'[r] \in Limits \cup {0} /\ Room(Entered, limit'[r])
        /\ \A q \in Holders : limit'[q] = limit[q]
    BY <1>0, <2>1, <2>2, SetsAreRequests
  <2> QED
    BY <2>2, <2>3, TakingIsWithin
<1>3. ASSUME NEW r \in Requests, Arrive(r) \/ StopWaiting(r) \/ Release(r)
      PROVE  WithinLimits'
  <2>1. Holders' \subseteq Holders
    BY <1>0, <1>3 DEF Arrive, StopWaiting, Release, Ready, Goto, Holders
  <2>2. \A q \in Holders' : limit'[q] = limit[q]
    BY <1>0, <1>3 DEF Arrive, StopWaiting, Release, Ready, Goto, Holders
  <2> QED
    BY <2>1, <2>2, KeepingIsWithin
<1>4. ASSUME NEW r \in Requests,
             Listen(r) \/ Miss(r) \/ Wake(r) \/ GiveUp(r) \/ Accepted(r) \/ Throttled(r) \/ Notify(r)
      PROVE  WithinLimits'
  <2>1. limit' = limit
    BY <1>4 DEF Listen, Miss, Wake, GiveUp, Accepted, Throttled, Notify
  <2>2. Holders' \subseteq Holders
    BY <1>0, <1>4 DEF Listen, Miss, Wake, GiveUp, Accepted, Throttled, Notify, Ready, Goto, Holders
  <2> QED
    BY <2>1, <2>2, KeepingIsWithin
<1>5. CASE World
  <2>1. Holders' \subseteq Holders
    BY <1>5 DEF World, ProbeDue, CapExpires, IdleExpires, KeptExpires, Forget, Save, Restart,
                tasks, NoTask, Holders
  <2>2. \A q \in Holders' : limit'[q] = limit[q]
    BY <1>5 DEF World, ProbeDue, CapExpires, IdleExpires, KeptExpires, Forget, Save, Restart,
                tasks, NoTask, Holders
  <2> QED
    BY <2>1, <2>2, KeepingIsWithin
<1>6. CASE UNCHANGED vars
  BY <1>6, KeepingIsWithin DEF vars, tasks, Holders
<1> QED
  BY <1>1, <1>2, <1>3, <1>4, <1>5, <1>6 DEF Next, Task, Runs

(* Taking a slot under a cap opens no more than the cap; being refused sets it to one fewer than *)
(* are open; all else opens nothing, raises the cap or forgets it.                               *)
LEMMA ProbeStep ==
  ASSUME Inv, [Next]_vars
  PROVE  OneProbe'
<1>0. /\ entry \in Entry /\ entry.open \in Nat /\ entry.cap \in Nat
      /\ entry.cap > 0 => entry.open <= entry.cap + 1
  BY DEF Inv, TypeOK, Entry, OneProbe
<1>e. /\ Entered \in Entry /\ Entered.open \in Nat /\ Entered.cap \in Nat
      /\ Entered.cap > 0 => Entered.open <= Entered.cap + 1
  BY EnteredFacts DEF Entry
<1>1. ASSUME NEW l, Room(Entered, l), entry' = Taken(Entered, l)
      PROVE  OneProbe'
  <2>1. entry'.open = Entered.open + 1 /\ entry'.cap = Entered.cap
    BY <1>1, <1>e DEF Taken, Entry
  <2>2. Entered.cap > 0 => Entered.open < Entered.cap
    BY <1>1 DEF Room, CapInForce
  <2> QED
    BY <1>e, <2>1, <2>2 DEF OneProbe
<1>2. ASSUME NEW r \in Requests, Throttled(r) PROVE OneProbe'
  <2>1. CASE Less(entry.open) > 0
    <3>1. entry'.open = entry.open /\ entry'.cap = Less(entry.open)
      BY <1>0, <1>2, <2>1 DEF Throttled, Entry
    <3> QED
      BY <1>0, <2>1, <3>1 DEF OneProbe, Less
  <2>2. CASE ~(Less(entry.open) > 0)
    BY <1>0, <1>2, <2>2 DEF Throttled, OneProbe
  <2> QED
    BY <2>1, <2>2
<1>3. ASSUME NEW r \in Requests, Accepted(r) PROVE OneProbe'
  <2>1. entry'.open = entry.open /\ entry'.cap \in {entry.cap, entry.cap + 1}
        /\ (entry'.cap # entry.cap => entry.cap > 0)
    BY <1>0, <1>3 DEF Accepted, Entry
  <2> QED
    BY <1>0, <2>1 DEF OneProbe
<1>4. ASSUME NEW e \in {entry, Entered}, entry'.open = e.open \/ entry'.open = Less(e.open),
             entry'.cap = e.cap
      PROVE  OneProbe'
  BY <1>0, <1>e, <1>4 DEF OneProbe, Less
<1>5. ASSUME NEW r \in Requests, Arrive(r) \/ Miss(r) PROVE OneProbe'
  <2>1. entry'.open = Entered.open /\ entry'.cap = Entered.cap
    BY <1>e, <1>5 DEF Arrive, Miss, Entry
  <2> QED
    BY <1>4, <2>1
<1>6. ASSUME NEW r \in Requests, Release(r) PROVE OneProbe'
  <2>1. (entry'.open = entry.open \/ entry'.open = Less(entry.open)) /\ entry'.cap = entry.cap
    BY <1>0, <1>6 DEF Release, Given, Entry
  <2> QED
    BY <1>4, <2>1
<1>7. CASE entry' = NoEntry
  BY <1>7 DEF OneProbe, NoEntry
<1>8. ASSUME NEW r \in Requests, StopWaiting(r) PROVE OneProbe'
  <2>1. entry' = NoEntry \/ (entry'.open = entry.open /\ entry'.cap = entry.cap)
    BY <1>0, <1>8 DEF StopWaiting, Waited, Entry
  <2> QED
    BY <1>4, <1>7, <2>1
<1>9. CASE entry' = entry
  BY <1>4, <1>9
<1>10. CASE ProbeDue \/ IdleExpires
  <2>1. entry'.open = entry.open /\ entry'.cap = entry.cap
    BY <1>0, <1>10 DEF ProbeDue, IdleExpires, Entry
  <2> QED
    BY <1>4, <2>1
<1>11. CASE CapExpires
  BY <1>0, <1>11 DEF CapExpires, OneProbe, Entry
<1>12. ASSUME NEW r \in Requests, Get(r) \/ TryAcquire(r) PROVE OneProbe'
  BY <1>1, <1>12 DEF Get, TryAcquire
<1>13. ASSUME NEW r \in Requests, Listen(r) \/ Wake(r) \/ GiveUp(r) \/ Notify(r) PROVE OneProbe'
  BY <1>9, <1>13 DEF Listen, Wake, GiveUp, Notify, memory
<1>14. CASE World
  BY <1>7, <1>9, <1>10, <1>11, <1>14 DEF World, KeptExpires, Forget, Save, Restart
<1>15. CASE UNCHANGED vars
  BY <1>9, <1>15 DEF vars, memory
<1> QED
  BY <1>2, <1>3, <1>5, <1>6, <1>8, <1>12, <1>13, <1>14, <1>15 DEF Next, Task, Runs

(* Learning and raising a cap keep it; an entry made anew has the cap kept; the rest leaves the *)
(* cap in force, or forgets it, and leaves what is kept, or forgets that.                       *)
LEMMA KeptStep ==
  ASSUME Inv, [Next]_vars
  PROVE  KeptAgrees'
<1>0. /\ entry \in Entry /\ entry.cap \in Nat /\ kept \in Nat
      /\ entry.cap > 0 => kept \in {0, entry.cap}
  BY DEF Inv, TypeOK, Entry, KeptAgrees
<1>e. Entered \in Entry /\ (Entered.cap > 0 => kept \in {0, Entered.cap})
  <2>1. CASE entry.known
    BY <1>0, <2>1 DEF Entered
  <2>2. CASE ~entry.known
    <3>1. Entered.cap = kept
      BY <2>2 DEF Entered, NoEntry
    <3> QED
      BY <3>1, EnteredFacts
  <2> QED
    BY <2>1, <2>2
<1>1. ASSUME NEW e \in {entry, Entered, NoEntry}, entry'.cap = e.cap, kept' \in {0, kept}
      PROVE  KeptAgrees'
  BY <1>0, <1>e, <1>1 DEF KeptAgrees, NoEntry
<1>2. ASSUME NEW r \in Requests,
             Arrive(r) \/ Get(r) \/ Miss(r) \/ TryAcquire(r)
      PROVE  KeptAgrees'
  <2>1. entry'.cap = Entered.cap /\ kept' = kept
    BY <1>2, <1>e DEF Arrive, Get, Miss, TryAcquire, Taken, Entry
  <2> QED
    BY <1>1, <2>1
<1>3. ASSUME NEW r \in Requests, Listen(r) \/ Wake(r) \/ GiveUp(r) \/ Notify(r)
      PROVE  KeptAgrees'
  BY <1>1, <1>3 DEF Listen, Wake, GiveUp, Notify, memory
<1>4. ASSUME NEW r \in Requests, StopWaiting(r) \/ Release(r) PROVE KeptAgrees'
  <2>1. entry'.cap \in {entry.cap, NoEntry.cap} /\ kept' = kept
    BY <1>0, <1>4 DEF StopWaiting, Release, Waited, Given, Entry
  <2> QED
    BY <1>1, <2>1
<1>5. ASSUME NEW r \in Requests, Accepted(r) PROVE KeptAgrees'
  <2>1. CASE kept' = entry.cap + 1 /\ entry' = [entry EXCEPT !.cap = @ + 1, !.probe = FALSE]
    <3>1. entry'.cap = entry.cap + 1
      BY <1>0, <2>1 DEF Entry
    <3> QED
      BY <2>1, <3>1 DEF KeptAgrees
  <2>2. CASE entry' = entry /\ kept' \in {0, kept}
    BY <1>1, <2>2
  <2> QED
    BY <1>5, <2>1, <2>2 DEF Accepted
<1>6. ASSUME NEW r \in Requests, Throttled(r) PROVE KeptAgrees'
  <2>1. CASE Less(entry.open) > 0
    <3>1. entry'.cap = Less(entry.open) /\ kept' = Less(entry.open)
      BY <1>0, <1>6, <2>1 DEF Throttled, Entry
    <3> QED
      BY <3>1 DEF KeptAgrees
  <2>2. CASE ~(Less(entry.open) > 0)
    BY <1>1, <1>6, <2>2 DEF Throttled
  <2> QED
    BY <2>1, <2>2
<1>7. CASE World
  <2>1. CASE CapExpires
    BY <1>0, <2>1 DEF CapExpires, KeptAgrees, Entry
  <2>2. CASE ProbeDue \/ IdleExpires
    <3>1. entry'.cap = entry.cap /\ kept' = kept
      BY <1>0, <2>2 DEF ProbeDue, IdleExpires, Entry
    <3> QED
      BY <1>1, <3>1
  <2>3. CASE KeptExpires \/ Save \/ Forget
    BY <1>1, <2>3 DEF KeptExpires, Save, Forget
  <2>4. CASE Restart
    BY <2>4 DEF Restart, KeptAgrees, NoEntry
  <2> QED
    BY <1>7, <2>1, <2>2, <2>3, <2>4 DEF World
<1>8. CASE UNCHANGED vars
  BY <1>1, <1>8 DEF vars, memory
<1> QED
  BY <1>2, <1>3, <1>4, <1>5, <1>6, <1>7, <1>8 DEF Next, Task, Runs

-----------------------------------------------------------------------------
(* Wakeups.                                                                *)

LEMMA SleepStep ==
  ASSUME Inv, [Next]_vars
  PROVE  SomeoneWillCall'
<1>0. pc \in [Requests -> PC] /\ (Sleepers # {} => Holders # {} \/ calling # {})
  BY DEF Inv, TypeOK, SomeoneWillCall
<1>1. ASSUME Sleepers' \subseteq Sleepers, Holders \subseteq Holders', calling \subseteq calling'
      PROVE  SomeoneWillCall'
  BY <1>0, <1>1 DEF SomeoneWillCall
<1>2. ASSUME NEW r \in Requests, Arrive(r) \/ Listen(r) \/ Wake(r) \/ GiveUp(r)
      PROVE  SomeoneWillCall'
  <2>1. Sleepers' \subseteq Sleepers /\ Holders \subseteq Holders' /\ calling' = calling
    BY <1>0, <1>2 DEF Arrive, Listen, Wake, GiveUp, Ready, Goto, Sleepers, Holders
  <2> QED
    BY <1>1, <2>1
<1>3. ASSUME NEW r \in Requests, Get(r) \/ TryAcquire(r) \/ Accepted(r) \/ Throttled(r)
      PROVE  SomeoneWillCall'
  <2>1. r \in Holders'
    BY <1>0, <1>3 DEF Get, TryAcquire, Accepted, Throttled, Goto, Holders
  <2> QED
    BY <2>1 DEF SomeoneWillCall
<1>4. ASSUME NEW r \in Requests, Miss(r) PROVE SomeoneWillCall'
  <2>1. Entered.open > 0
    BY <1>4, EnteredFacts, NoRoomIsOpen DEF Miss, Inv, TypeOK
  <2>2. Holders # {}
    BY <2>1, EnteredFacts, FS_EmptySet DEF Inv, SlotsCounted
  <2>3. Holders' = Holders
    BY <1>0, <1>4 DEF Miss, Ready, Goto, Holders
  <2> QED
    BY <2>2, <2>3 DEF SomeoneWillCall
<1>5. ASSUME NEW r \in Requests, StopWaiting(r) PROVE SomeoneWillCall'
  <2>1. Sleepers' \subseteq Sleepers /\ Holders \subseteq Holders'
    BY <1>0, <1>5 DEF StopWaiting, Goto, Sleepers, Holders
  <2>2. calling \subseteq calling'
    BY <1>5 DEF StopWaiting
  <2> QED
    BY <1>1, <2>1, <2>2
<1>6. ASSUME NEW r \in Requests, Release(r) PROVE SomeoneWillCall'
  BY <1>6 DEF Release, SomeoneWillCall
<1>7. ASSUME NEW r \in Requests, Notify(r) PROVE SomeoneWillCall'
  BY <1>7 DEF Notify, Registered, Sleepers, SomeoneWillCall
<1>8. CASE World
  <2>1. CASE Restart
    BY <2>1 DEF Restart, NoTask, Sleepers, SomeoneWillCall
  <2>2. CASE ~Restart
    <3>1. UNCHANGED tasks
      BY <1>8, <2>2 DEF World, ProbeDue, CapExpires, IdleExpires, KeptExpires, Forget, Save
    <3> QED
      BY <1>1, <3>1 DEF tasks, Sleepers, Holders
  <2> QED
    BY <2>1, <2>2
<1>9. CASE UNCHANGED vars
  BY <1>1, <1>9 DEF vars, tasks, Sleepers, Holders
<1> QED
  BY <1>2, <1>3, <1>4, <1>5, <1>6, <1>7, <1>8, <1>9 DEF Next, Task, Runs

-----------------------------------------------------------------------------

(* Taking a slot needs room under every limit in force, those of waiting requests among them. *)
LEMMA HeldBackStep ==
  ASSUME Inv, [Next]_vars
  PROVE  OpensWithin
<1> SUFFICES ASSUME entry'.open > entry.open,
                    NEW q \in Waiters \cup Holders, limit[q] > 0
             PROVE  entry'.open <= limit[q]
  BY DEF OpensWithin
<1>0. /\ entry \in Entry /\ entry.open \in Nat /\ limit \in [Requests -> Limits \cup {0}]
      /\ entry.held \in [Strict -> Nat] /\ entry.waiting \in [Strict -> Nat]
      /\ Holders \subseteq Requests /\ Waiters \subseteq Requests
  BY SetsAreRequests DEF Inv, TypeOK, Entry
<1>e. /\ Entered \in Entry /\ Entered.open = entry.open
      /\ Entered.held = entry.held /\ Entered.waiting = entry.waiting
  BY EnteredFacts
<1>1. limit[q] \in Strict /\ limit[q] \in Nat
  BY <1>0, StrictNat DEF Strict
<1>2. ASSUME NEW rs \in {Holders, Waiters}, q \in rs,
             NEW ls \in [Strict -> Nat], Counts(ls, rs, limit)
      PROVE  ls[limit[q]] > 0
  <2> DEFINE same == {x \in rs : limit[x] = limit[q]}
  <2>1. IsFiniteSet(same) /\ q \in same /\ Cardinality(same) \in Nat
    BY <1>0, <1>2, FiniteRequests
  <2>2. ls[limit[q]] = Cardinality(same)
    BY <1>1, <1>2 DEF Counts
  <2> HIDE DEF same
  <2> QED
    BY <2>1, <2>2, FS_EmptySet
<1>3. limit[q] \in InForce(Entered)
  BY <1>0, <1>e, <1>1, <1>2 DEF Inv, SlotsCounted, InForce
<1>4. ASSUME NEW l, Room(Entered, l), entry' = Taken(Entered, l)
      PROVE  entry'.open <= limit[q]
  <2>1. entry'.open = entry.open + 1 /\ entry.open < limit[q]
    BY <1>3, <1>4, <1>e DEF Taken, Entry, Room
  <2> QED
    BY <1>0, <1>1, <2>1
<1>5. ASSUME NEW r \in Requests PROVE ~(Get(r) \/ TryAcquire(r)) => ~Task(r)
  <2>1. ~Arrive(r) /\ ~Miss(r)
    BY <1>0, <1>e DEF Arrive, Miss, Entry
  <2>2. ~Listen(r) /\ ~Wake(r) /\ ~GiveUp(r) /\ ~Notify(r)
    BY <1>0 DEF Listen, Wake, GiveUp, Notify, memory
  <2>3. ~StopWaiting(r)
    <3>1. Waited(entry, limit[r]).open = entry.open /\ NoEntry.open = 0
      BY <1>0 DEF Waited, NoEntry, Entry
    <3>2. StopWaiting(r) => entry'.open \in {entry.open, 0}
      BY <3>1 DEF StopWaiting
    <3> QED
      BY <1>0, <3>2
  <2>4. ~Accepted(r) /\ ~Throttled(r)
    <3>1. Accepted(r) \/ Throttled(r) => entry'.open = entry.open
      BY <1>0 DEF Accepted, Throttled, Entry
    <3> QED
      BY <1>0, <3>1
  <2>5. ~Release(r)
    <3>1. Release(r) => entry'.open \in {entry.open, Less(entry.open)}
      BY <1>0 DEF Release, Given, Entry
    <3> QED
      BY <1>0, <3>1 DEF Less
  <2> QED
    BY <2>1, <2>2, <2>3, <2>4, <2>5 DEF Task, Runs
<1>6. ~World /\ ~UNCHANGED vars
  <2>1. ProbeDue \/ CapExpires \/ IdleExpires => entry'.open = entry.open
    BY <1>0 DEF ProbeDue, CapExpires, IdleExpires, Entry
  <2>2. KeptExpires \/ Save \/ UNCHANGED vars => entry'.open = entry.open
    BY DEF KeptExpires, Save, vars, memory
  <2>3. Forget \/ Restart => entry'.open = 0
    BY DEF Forget, Restart, NoEntry
  <2> QED
    BY <1>0, <2>1, <2>2, <2>3 DEF World
<1>7. PICK r \in Requests : Get(r) \/ TryAcquire(r)
  BY <1>5, <1>6 DEF Next
<1> QED
  BY <1>4, <1>7 DEF Get, TryAcquire

-----------------------------------------------------------------------------
(* Room.                                                                   *)

LEMMA LeastOf ==
  ASSUME NEW S \in SUBSET Nat, S # {}
  PROVE  \E m \in S : \A k \in S : m <= k
<1> DEFINE R == {ss \in Nat \X Nat : ss[1] < ss[2]}
<1>1. IsWellFoundedOn(R, Nat)
  <2>1. R = OpToRel(<, Nat)
    BY Zenon DEF OpToRel
  <2> QED
    BY NatLessThanWellFounded, <2>1, Zenon
<1>2. PICK m \in S : \A k \in S : ~(<<k, m>> \in R)
  BY <1>1, WFMin
<1>3. ASSUME NEW k \in S PROVE m <= k
  <2>1. m \in Nat /\ k \in Nat /\ ~(<<k, m>> \in R)
    BY <1>2
  <2>2. ~(k < m)
    BY <2>1
  <2> QED
    BY <2>1, <2>2
<1> QED
  BY <1>3

(* With no more open, under no more limits and the same cap, there is room if there was. *)
LEMMA RoomIsMonotonic ==
  ASSUME NEW e \in Entry, NEW f \in Entry, NEW l \in Limits \cup {0},
         e.open <= f.open, f.cap = e.cap, InForce(e) \subseteq InForce(f), Room(f, l)
  PROVE  Room(e, l)
<1>1. e.open \in Nat /\ f.open \in Nat /\ e.cap \in Nat /\ DefaultCap \in Nat /\ l \in Nat
  BY StrictNat, BudgetAssumption DEF Entry
<1>2. InForce(e) \subseteq Nat /\ InForce(f) \subseteq Nat
  BY StrictNat DEF InForce
<1>3. CapInForce(f) = CapInForce(e) /\ CapInForce(e) \in Nat
  BY <1>1 DEF CapInForce
<1> QED
  BY <1>1, <1>2, <1>3 DEF Room

(* A limit that leaves makes room only if it was the strictest. *)
LEMMA LeavingLoosens ==
  ASSUME NEW e \in Entry, NEW f \in Entry, NEW l \in Limits \cup {0},
         f.open = e.open, f.cap = e.cap, ~Room(e, l), Room(f, l)
  PROVE  Loosened(e, f)
<1>1. InForce(e) \subseteq Nat /\ InForce(e) \subseteq Strict /\ e.open \in Nat
  BY StrictNat DEF InForce, Entry
<1>2. PICK k \in InForce(e) : ~(e.open < k)
  BY DEF Room, CapInForce
<1>3. PICK m \in InForce(e) : \A n \in InForce(e) : m <= n
  BY <1>1, <1>2, LeastOf
<1>4. ~(e.open < m)
  BY <1>1, <1>2, <1>3
<1>5. m \notin InForce(f)
  BY <1>4 DEF Room
<1> QED
  BY <1>1, <1>3, <1>5 DEF Loosened, IsStrictest

LEMMA CallsStep ==
  ASSUME Inv, [Next]_vars
  PROVE  CallsIfRoom
<1> SUFFICES ASSUME NEW r \in Sleepers, r \in Sleepers', ~Room(entry, limit[r]),
                    Room(entry', limit'[r]), calling' = {}, ~CapExpires
             PROVE  FALSE
  BY DEF CallsIfRoom
<1>0. /\ entry \in Entry /\ entry' \in Entry /\ r \in Requests /\ pc[r] = "asleep"
      /\ limit \in [Requests -> Limits \cup {0}] /\ limit[r] \in Limits \cup {0}
      /\ pc \in [Requests -> PC]
  BY TypeStep DEF Inv, TypeOK, Sleepers
<1>1. entry.open > 0 /\ entry.open \in Nat /\ entry.cap \in Nat
  BY <1>0, NoRoomIsOpen DEF Entry
<1>2. Entered = entry
  BY <1>1 DEF Inv, UnknownIsEmpty, NoEntry, Entered
<1>3. ASSUME limit'[r] = limit[r], entry.open <= entry'.open, entry'.cap = entry.cap,
             InForce(entry) \subseteq InForce(entry')
      PROVE  FALSE
  BY <1>0, <1>3, RoomIsMonotonic
<1>4. ASSUME limit'[r] = limit[r], entry' = entry PROVE FALSE
  BY <1>4
<1>5. ASSUME NEW ls \in [Strict -> Nat], NEW l \in Limits \cup {0}, NEW k \in Strict, ls[k] > 0
      PROVE  AddLimit(ls, l)[k] > 0
  BY <1>5 DEF AddLimit
<1>6. ASSUME NEW q \in Requests, Arrive(q) PROVE FALSE
  <2>1. PICK l \in Limits : entry' = [entry EXCEPT !.waiting = AddLimit(@, l)]
    BY <1>2, <1>6 DEF Arrive
  <2>2. limit'[r] = limit[r]
    BY <1>0, <1>6 DEF Arrive, Ready
  <2>3. /\ entry'.open = entry.open /\ entry'.cap = entry.cap /\ entry'.held = entry.held
        /\ entry'.waiting = AddLimit(entry.waiting, l)
        /\ entry.held \in [Strict -> Nat] /\ entry.waiting \in [Strict -> Nat]
    BY <1>0, <2>1 DEF Entry
  <2>4. InForce(entry) \subseteq InForce(entry')
    BY <1>5, <2>3 DEF InForce
  <2> QED
    BY <1>1, <1>3, <2>2, <2>3, <2>4
<1>7. ASSUME NEW q \in Requests, Get(q) \/ TryAcquire(q) PROVE FALSE
  <2>1. PICK l \in Limits \cup {0} : entry' = Taken(entry, l)
    BY <1>0, <1>2, <1>7 DEF Get, TryAcquire
  <2>2. limit'[r] = limit[r]
    BY <1>0, <1>7 DEF Get, TryAcquire, Ready
  <2>3. /\ entry'.open = entry.open + 1 /\ entry'.cap = entry.cap
        /\ entry'.held = AddLimit(entry.held, l) /\ entry'.waiting = entry.waiting
        /\ entry.held \in [Strict -> Nat] /\ entry.waiting \in [Strict -> Nat]
    BY <1>0, <2>1 DEF Entry, Taken
  <2>4. InForce(entry) \subseteq InForce(entry')
    BY <1>5, <2>3 DEF InForce
  <2> QED
    BY <1>1, <1>3, <2>2, <2>3, <2>4
<1>8. ASSUME NEW q \in Requests,
             Listen(q) \/ Miss(q) \/ Wake(q) \/ GiveUp(q) \/ Notify(q)
      PROVE  FALSE
  BY <1>2, <1>4, <1>8 DEF Listen, Miss, Wake, GiveUp, Notify, memory
<1>9. ASSUME NEW q \in Requests, StopWaiting(q) PROVE FALSE
  <2>1. limit[q] \in Limits \cup {0} /\ limit'[r] = limit[r]
    BY <1>0, <1>9 DEF StopWaiting
  <2>2. /\ Waited(entry, limit[q]) \in Entry
        /\ Waited(entry, limit[q]).open = entry.open /\ Waited(entry, limit[q]).cap = entry.cap
    BY <1>0, <2>1, EntryTypes DEF Waited, Entry
  <2>3. entry' = Waited(entry, limit[q])
    BY <1>1, <1>9, <2>2 DEF StopWaiting, IsIdle
  <2>4. ~Loosened(entry, Waited(entry, limit[q]))
    BY <1>9 DEF StopWaiting
  <2> QED
    BY <1>0, <2>1, <2>2, <2>3, <2>4, LeavingLoosens
<1>10. ASSUME NEW q \in Requests, Accepted(q) PROVE FALSE
  BY <1>4, <1>10 DEF Accepted
<1>11. ASSUME NEW q \in Requests, Throttled(q) PROVE FALSE
  <2>1. CASE Less(entry.open) > 0
    <3>1. entry'.open = entry.open /\ entry'.cap = Less(entry.open)
      BY <1>0, <1>11, <2>1 DEF Throttled, Entry
    <3>2. entry'.open < entry'.cap
      BY <2>1, <3>1 DEF Room, CapInForce
    <3> QED
      BY <1>1, <3>1, <3>2 DEF Less
  <2>2. CASE ~(Less(entry.open) > 0)
    BY <1>4, <1>11, <2>2 DEF Throttled
  <2> QED
    BY <2>1, <2>2
<1>12. ASSUME NEW q \in Requests, Release(q) PROVE FALSE
  BY <1>12 DEF Release
<1>13. CASE World
  <2>1. CASE ProbeDue \/ IdleExpires
    <3>1. /\ entry'.open = entry.open /\ entry'.cap = entry.cap
          /\ entry'.held = entry.held /\ entry'.waiting = entry.waiting /\ limit' = limit
      BY <1>0, <2>1 DEF ProbeDue, IdleExpires, Entry, tasks
    <3> QED
      BY <1>1, <1>3, <3>1 DEF InForce
  <2>2. CASE KeptExpires \/ Save
    BY <1>4, <2>2 DEF KeptExpires, Save, tasks
  <2>3. CASE Forget
    BY <1>1, <2>3 DEF Forget, IsIdle
  <2>4. CASE Restart
    BY <2>4 DEF Restart, NoTask, Sleepers
  <2> QED
    BY <1>13, <2>1, <2>2, <2>3, <2>4 DEF World
<1>14. CASE UNCHANGED vars
  BY <1>4, <1>14 DEF vars, memory, tasks
<1> QED
  BY <1>6, <1>7, <1>8, <1>9, <1>10, <1>11, <1>12, <1>13, <1>14 DEF Next, Task, Runs

LEMMA NextInv == Inv /\ [Next]_vars => Inv'
  BY TypeStep, CountStep, LimitStep, ProbeStep, KeptStep, SleepStep DEF Inv

LEMMA Invariance == Spec => []Inv
<1>1. Init => Inv
  BY InitInv
<1>2. Inv /\ [Next]_vars => Inv'
  BY NextInv
<1> QED
  BY <1>1, <1>2, PTL DEF Spec

(* The entry of a host and what the tasks know of it keep their types. *)
THEOREM BudgetTypeCorrect == Spec => []TypeOK
<1>1. Inv => TypeOK
  BY DEF Inv
<1> QED
  BY <1>1, Invariance, PTL

(* The entry counts the slots held and the requests waiting, under each limit (add_limit, *)
(* remove_limit, forget_idle).                                                            *)
THEOREM AlwaysCounted == Spec => []SlotsCounted
<1>1. Inv => SlotsCounted
  BY DEF Inv
<1> QED
  BY <1>1, Invariance, PTL

(* No slot is ever one of more than its request's limit allows (allowance). *)
THEOREM AlwaysWithinLimits == Spec => []WithinLimits
<1>1. Inv => WithinLimits
  BY DEF Inv
<1> QED
  BY <1>1, Invariance, PTL

(* No host is offered more than one request past a cap it was seen to enforce (throttled, accepted). *)
THEOREM AlwaysOneProbe == Spec => []OneProbe
<1>1. Inv => OneProbe
  BY DEF Inv
<1> QED
  BY <1>1, Invariance, PTL

(* While a cap is trusted, what is kept of it is the same or nothing (throttled, accepted, entry). *)
THEOREM AlwaysKeptAgrees == Spec => []KeptAgrees
<1>1. Inv => KeptAgrees
  BY DEF Inv
<1> QED
  BY <1>1, Invariance, PTL

(* Whoever sleeps has someone who will call: acquire loses no wakeup (acquire, release). *)
THEOREM NoWakeupLost == Spec => []SomeoneWillCall
<1>1. Inv => SomeoneWillCall
  BY DEF Inv
<1> QED
  BY <1>1, Invariance, PTL

(* While a request waits or holds a slot, nobody takes one past its limit (acquire). *)
THEOREM AlwaysHeldBack == Spec => HeldBack
<1>1. Inv /\ [Next]_vars => [OpensWithin]_vars
  BY HeldBackStep
<1> QED
  BY <1>1, Invariance, PTL DEF Spec, HeldBack

(* Whatever makes room for a sleeper, but a cap's expiry, is followed by a call (release, stop_waiting). *)
THEOREM RoomIsCalledOut == Spec => CallsWhenRoom
<1>1. Inv /\ [Next]_vars => [CallsIfRoom]_vars
  BY CallsStep
<1> QED
  BY <1>1, Invariance, PTL DEF Spec, CallsWhenRoom
==============================================================================
