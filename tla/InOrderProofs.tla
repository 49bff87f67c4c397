--------------------------- MODULE InOrderProofs ----------------------------
(***************************************************************************)
(* The window of a stream's download, for any number of units, of          *)
(* connections and any window: requests are counted, and units handed out, *)
(* as promised.                                                            *)
(*                                                                         *)
(* Neither is inductive alone.  A unit's weight in the count is what its   *)
(* slot says, so a slot must never say less than its race has under way;   *)
(* and a race that goes on for a dropped unit must never be taken for one  *)
(* of the window's.  It is not, because units are only dropped behind one  *)
(* that failed, the failed one is then the last to be handed out, and no   *)
(* unit behind it is started again.                                        *)
(***************************************************************************)
EXTENDS InOrder, Sequences, FiniteSetTheorems, SequenceTheorems, WellFoundedInduction, TLAPS

(* A request is under way only for a unit in flight, or for one dropped behind the one that failed; *)
(* a second one only for a unit that counts two.                                                    *)
Racing ==
  \A u \in Unit :
    /\ first[u] # "none" => slot[u] \in {"fetching", "hedged"} \/ u >= count
    /\ second[u] # "none" => slot[u] = "hedged" \/ u >= count

(* A unit that failed is the last of the window and of those to hand out, and only such a one makes *)
(* them fewer than all; handed out, it ends the loop.                                               *)
FailedIsLast ==
  /\ \A u \in Unit : slot[u] = "failed" => u + 1 = started /\ u + 1 = count
  /\ count < Count /\ outcome # "failed" => count > 0 /\ slot[count - 1] = "failed"
  /\ outcome = "failed" => head = count

IInv ==
  /\ RequestsCounted
  /\ head <= started /\ started <= count
  /\ Racing /\ FailedIsLast

-----------------------------------------------------------------------------
(* Lemmas on the count. *)

Going(s) == {u \in Unit : s[u] \in {"fetching", "hedged"}}
Doubled(s) == {u \in Unit : s[u] = "hedged"}

LEMMA UnitsAreFinite == \A S \in SUBSET Unit : IsFiniteSet(S) /\ Cardinality(S) \in Nat
  <1>1. IsFiniteSet(Unit) BY InOrderAssumption, FS_Interval DEF Unit
  <1>2. ASSUME NEW S \in SUBSET Unit PROVE IsFiniteSet(S) /\ Cardinality(S) \in Nat
    <2>1. IsFiniteSet(S) BY <1>1, FS_Subset
    <2> QED BY <2>1, FS_CardinalityType
  <1> QED BY <1>2

LEMMA HeldIs == Held(Unit) = Cardinality(Going(slot)) + Cardinality(Doubled(slot))
  BY DEF Held, Going, Doubled

LEMMA HeldNext == Held(Unit)' = Cardinality(Going(slot')) + Cardinality(Doubled(slot'))
  BY DEF Held, Going, Doubled

LEMMA OneMore ==
  ASSUME NEW S \in SUBSET Unit, NEW u \in Unit, u \notin S
  PROVE  Cardinality(S \cup {u}) = Cardinality(S) + 1
  BY UnitsAreFinite, FS_AddElement

LEMMA OneLess ==
  ASSUME NEW S \in SUBSET Unit, NEW u \in S
  PROVE  Cardinality(S \ {u}) = Cardinality(S) - 1
  BY UnitsAreFinite, FS_RemoveElement

(* The units of S in T, and those that are not. *)
LEMMA SplitCount ==
  ASSUME NEW S \in SUBSET Unit, NEW T
  PROVE  Cardinality(S) = Cardinality(S \cap T) + Cardinality(S \ T)
  <1>1. IsFiniteSet(S) /\ Cardinality(S) \in Nat /\ Cardinality(S \cap T) \in Nat
    BY UnitsAreFinite, S \cap T \in SUBSET Unit
  <1>2. Cardinality(S \ T) = Cardinality(S) - Cardinality(S \cap T) BY <1>1, FS_Difference
  <1> QED BY <1>1, <1>2

LEMMA TypeFacts ==
  ASSUME IInv
  PROVE  /\ Count \in Nat /\ head \in Nat /\ count \in Nat /\ started \in Nat /\ requests \in Nat /\ Connections \in Nat
         /\ head <= started /\ started <= count /\ count <= Count
         /\ Unit = 0 .. Count - 1 /\ \A u \in Unit : u \in Nat
         /\ requests = Cardinality(Going(slot)) + Cardinality(Doubled(slot))
  BY InOrderAssumption, HeldIs DEF IInv, RequestsCounted, TypeOK, Unit

-----------------------------------------------------------------------------
LEMMA InitInv == Init => IInv
  <1> SUFFICES ASSUME Init PROVE IInv OBVIOUS
  <1>1. Count \in Nat /\ Connections \in Nat \ {0} /\ Window \in Nat \ {0} BY InOrderAssumption
  <1>2. TypeOK BY <1>1 DEF Init, TypeOK
  <1>3. \A u \in Unit : slot[u] = "idle" /\ first[u] = "none" /\ second[u] = "none" /\ u >= 0 BY <1>1 DEF Init, Unit
  <1>4. Going(slot) = {} /\ Doubled(slot) = {} BY <1>3 DEF Going, Doubled
  <1>5. Held(Unit) = 0 BY <1>4, HeldIs, FS_EmptySet
  <1>6. RequestsCounted
    <2>1. \A u \in Unit : u \notin head .. started - 1 BY <1>1 DEF Init
    <2> QED BY <1>1, <1>2, <1>3, <1>5, <2>1 DEF Init, RequestsCounted
  <1>7. Racing /\ FailedIsLast BY <1>1, <1>3 DEF Init, Racing, FailedIsLast
  <1> QED BY <1>1, <1>6, <1>7 DEF IInv, Init

(* The window takes one unit more. *)
LEMMA LaunchInv == ASSUME IInv, Launch PROVE IInv'
  <1>1. /\ started < count /\ requests < Connections /\ outcome = "none" /\ started - head < Window
        /\ slot' = [slot EXCEPT ![started] = "fetching"] /\ first' = [first EXCEPT ![started] = "going"]
        /\ started' = started + 1 /\ requests' = requests + 1 /\ UNCHANGED <<head, count, second, outcome>>
    BY DEF Launch, CanLaunch
  <1>2. started \in Unit /\ started' \in 0 .. Count BY <1>1, TypeFacts
  <1>3. slot[started] = "idle" BY <1>2, TypeFacts DEF IInv, RequestsCounted
  <1>4. /\ slot' \in [Unit -> {"idle", "fetching", "hedged", "ok", "failed"}] /\ slot'[started] = "fetching"
        /\ first' \in [Unit -> {"none", "going", "ok", "failed"}] /\ first'[started] = "going"
        /\ \A u \in Unit \ {started} : slot'[u] = slot[u] /\ first'[u] = first[u]
    BY <1>1, <1>2 DEF IInv, RequestsCounted, TypeOK
  <1>5. second[started] = "none" BY <1>1, <1>2, <1>3, TypeFacts DEF IInv, Racing
  <1>6. TypeOK'
    <2>1. head' \in 0 .. Count /\ count' \in 0 .. Count /\ requests' \in 0 .. Connections BY <1>1, TypeFacts
    <2> QED BY <1>1, <1>2, <1>4, <2>1 DEF IInv, RequestsCounted, TypeOK
  <1>7. requests' = Held(Unit)'
    <2>1. Going(slot') = Going(slot) \cup {started} /\ started \notin Going(slot) BY <1>2, <1>3, <1>4 DEF Going
    <2>2. Doubled(slot') = Doubled(slot) BY <1>3, <1>4 DEF Doubled
    <2>3. Cardinality(Going(slot')) = Cardinality(Going(slot)) + 1 BY <1>2, <2>1, OneMore DEF Going
    <2>4. Cardinality(Going(slot)) \in Nat /\ Cardinality(Doubled(slot)) \in Nat BY UnitsAreFinite DEF Going, Doubled
    <2> QED BY <1>1, <2>2, <2>3, <2>4, TypeFacts, HeldNext
  <1>8. \A u \in Unit : (slot'[u] # "idle") <=> (u \in head .. started)
    <2>1. \A u \in Unit : u \in head .. started <=> u \in head .. started - 1 \/ u = started BY TypeFacts
    <2> QED BY <1>4, <2>1 DEF IInv, RequestsCounted
  <1>9. RequestsCounted'
    <2>1. requests' <= Connections /\ started' <= head' + Window BY <1>1, TypeFacts, InOrderAssumption
    <2>2. \A u \in Unit : (slot'[u] # "idle") <=> (u \in head' .. started' - 1) BY <1>1, <1>8, TypeFacts
    <2>3. \A u \in Unit : slot'[u] = "fetching" => first'[u] # "none" /\ second'[u] = "none"
      BY <1>1, <1>4, <1>5 DEF IInv, RequestsCounted
    <2> QED BY <1>6, <1>7, <2>1, <2>2, <2>3 DEF RequestsCounted
  <1>10. Racing' BY <1>1, <1>4, <1>5 DEF IInv, Racing
  <1>11. FailedIsLast'
    <2>1. \A u \in Unit : slot'[u] # "failed"
      <3>1. \A u \in Unit : slot[u] # "failed" BY <1>1, TypeFacts DEF IInv, FailedIsLast
      <3> QED BY <1>4, <3>1
    <2>2. count = Count
      <3>1. \A u \in Unit : slot[u] # "failed" BY <1>1, TypeFacts DEF IInv, FailedIsLast
      <3>2. count < Count => count > 0 /\ slot[count - 1] = "failed" BY <1>1 DEF IInv, FailedIsLast
      <3>3. count > 0 => count - 1 \in Unit BY TypeFacts
      <3> QED BY <3>1, <3>2, <3>3, TypeFacts
    <2> QED BY <1>1, <2>1, <2>2, TypeFacts DEF FailedIsLast
  <1>12. head' <= started' /\ started' <= count' BY <1>1, TypeFacts
  <1> QED BY <1>9, <1>10, <1>11, <1>12 DEF IInv

(* The next unit counts two. *)
LEMMA HedgeInv == ASSUME IInv, Hedge PROVE IInv'
  <1>1. /\ requests < Connections /\ outcome = "none" /\ head < started /\ slot[head] = "fetching"
        /\ slot' = [slot EXCEPT ![head] = "hedged"] /\ second' = [second EXCEPT ![head] = "sent"]
        /\ requests' = requests + 1 /\ UNCHANGED <<head, count, started, first, outcome>>
    BY DEF Hedge
  <1>2. head \in Unit BY <1>1, TypeFacts
  <1>3. /\ slot' \in [Unit -> {"idle", "fetching", "hedged", "ok", "failed"}] /\ slot'[head] = "hedged"
        /\ second' \in [Unit -> {"none", "sent", "going", "ok", "failed"}]
        /\ \A u \in Unit \ {head} : slot'[u] = slot[u] /\ second'[u] = second[u]
    BY <1>1, <1>2 DEF IInv, RequestsCounted, TypeOK
  <1>4. TypeOK' BY <1>1, <1>3, TypeFacts DEF IInv, RequestsCounted, TypeOK
  <1>5. requests' = Held(Unit)'
    <2>1. Going(slot') = Going(slot) BY <1>1, <1>3 DEF Going
    <2>2. Doubled(slot') = Doubled(slot) \cup {head} /\ head \notin Doubled(slot) BY <1>1, <1>2, <1>3 DEF Doubled
    <2>3. Cardinality(Doubled(slot')) = Cardinality(Doubled(slot)) + 1 BY <1>2, <2>2, OneMore DEF Doubled
    <2>4. Cardinality(Going(slot)) \in Nat /\ Cardinality(Doubled(slot)) \in Nat BY UnitsAreFinite DEF Going, Doubled
    <2> QED BY <1>1, <2>1, <2>3, <2>4, TypeFacts, HeldNext
  <1>6. RequestsCounted'
    <2>1. requests' <= Connections BY <1>1, TypeFacts
    <2>2. \A u \in Unit : (slot'[u] # "idle") <=> (u \in head' .. started' - 1) BY <1>1, <1>3 DEF IInv, RequestsCounted
    <2>3. \A u \in Unit : slot'[u] = "fetching" => first'[u] # "none" /\ second'[u] = "none"
      BY <1>1, <1>3 DEF IInv, RequestsCounted
    <2> QED BY <1>1, <1>4, <1>5, <2>1, <2>2, <2>3 DEF IInv, RequestsCounted
  <1>7. Racing' BY <1>1, <1>3 DEF IInv, Racing
  <1>8. FailedIsLast'
    <2>1. \A u \in Unit : slot'[u] = "failed" <=> slot[u] = "failed" BY <1>1, <1>3
    <2>2. count > 0 => count - 1 \in Unit BY TypeFacts
    <2> QED BY <1>1, <2>1, <2>2, TypeFacts DEF IInv, FailedIsLast
  <1> QED BY <1>1, <1>6, <1>7, <1>8 DEF IInv

(* Requests and races go on beside the loop. *)
LEMMA RaceInv ==
  ASSUME IInv, NEW u \in Unit, TakeUp(u) \/ FirstEnds(u) \/ SecondEnds(u) \/ FinishDropped(u)
  PROVE  IInv'
  <1>1. UNCHANGED <<head, count, started, slot, requests, outcome>>
    BY DEF TakeUp, FirstEnds, SecondEnds, FinishDropped
  <1>2. /\ first' \in [Unit -> {"none", "going", "ok", "failed"}] /\ second' \in [Unit -> {"none", "sent", "going", "ok", "failed"}]
        /\ \A v \in Unit \ {u} : first'[v] = first[v] /\ second'[v] = second[v]
    BY DEF TakeUp, FirstEnds, SecondEnds, FinishDropped, Over, IInv, RequestsCounted, TypeOK
  <1>3. \/ /\ first[u] # "none" => first'[u] # "none"
           /\ first[u] = "none" => first'[u] = "none"
           /\ second[u] = "none" => second'[u] = "none"
           /\ second[u] # "none" => second'[u] # "none"
        \/ u >= started /\ first'[u] = "none" /\ second'[u] = "none"
    BY DEF TakeUp, FirstEnds, SecondEnds, FinishDropped, Over, IInv, RequestsCounted, TypeOK
  <1>4. u >= started => slot[u] = "idle" BY TypeFacts DEF IInv, RequestsCounted
  <1>5. RequestsCounted'
    <2>1. TypeOK' BY <1>1, <1>2 DEF IInv, RequestsCounted, TypeOK
    <2>2. requests' = Held(Unit)' BY <1>1, HeldNext, TypeFacts
    <2>3. \A v \in Unit : outcome = "none" /\ slot[v] = "fetching" => first'[v] # "none" /\ second'[v] = "none"
      BY <1>2, <1>3, <1>4 DEF IInv, RequestsCounted
    <2> QED BY <1>1, <2>1, <2>2, <2>3 DEF IInv, RequestsCounted
  <1>6. Racing' BY <1>1, <1>2, <1>3, <1>4 DEF IInv, Racing
  <1>7. FailedIsLast' BY <1>1 DEF IInv, FailedIsLast
  <1> QED BY <1>1, <1>5, <1>6, <1>7 DEF IInv

(* A race that has ended is one of the window's units'. *)
LEMMA RacedIsGoing ==
  ASSUME IInv, NEW u \in head .. started - 1, NEW r \in {"ok", "failed"}, Raced(u, r)
  PROVE  /\ u \in Unit /\ u < count /\ slot[u] \in {"fetching", "hedged"}
         /\ \A v \in Unit : slot[v] = "failed" => u < v
  <1>1. u \in Unit /\ u < count BY TypeFacts
  <1>2. first[u] # "none" \/ second[u] # "none" BY <1>1 DEF Raced, IInv, RequestsCounted, TypeOK
  <1>3. slot[u] \in {"fetching", "hedged"} BY <1>1, <1>2, TypeFacts DEF IInv, Racing
  <1>4. \A v \in Unit : slot[v] = "failed" => u < v
    <2>1. ASSUME NEW v \in Unit, slot[v] = "failed" PROVE u < v
      <3>1. v + 1 = started /\ u # v BY <1>3, <2>1 DEF IInv, FailedIsLast
      <3> QED BY <3>1, TypeFacts
    <2> QED BY <2>1
  <1> QED BY <1>1, <1>3, <1>4

(* A unit arrives: the count loses its weight. *)
LEMMA FinishInv == ASSUME IInv, NEW u \in Unit, Finish(u) PROVE IInv'
  <1>1. /\ outcome = "none" /\ u \in head .. started - 1 /\ Raced(u, "ok") /\ requests' = requests - Weight(u)
        /\ slot' = [slot EXCEPT ![u] = "ok"] /\ UNCHANGED <<head, count, started, outcome>>
        /\ first' = [first EXCEPT ![u] = "none"] /\ second' = [second EXCEPT ![u] = "none"]
    BY DEF Finish, Over
  <1>2. slot[u] \in {"fetching", "hedged"} BY <1>1, RacedIsGoing
  <1>3. /\ slot' \in [Unit -> {"idle", "fetching", "hedged", "ok", "failed"}] /\ slot'[u] = "ok"
        /\ first' \in [Unit -> {"none", "going", "ok", "failed"}] /\ first'[u] = "none"
        /\ second' \in [Unit -> {"none", "sent", "going", "ok", "failed"}] /\ second'[u] = "none"
        /\ \A v \in Unit \ {u} : slot'[v] = slot[v] /\ first'[v] = first[v] /\ second'[v] = second[v]
    BY <1>1 DEF IInv, RequestsCounted, TypeOK
  <1>4. requests' = Held(Unit)' /\ requests' \in Nat /\ requests' <= requests
    <2>1. Going(slot') = Going(slot) \ {u} /\ u \in Going(slot) BY <1>2, <1>3 DEF Going
    <2>2. Cardinality(Going(slot')) = Cardinality(Going(slot)) - 1 BY <2>1, OneLess DEF Going
    <2>3. /\ Cardinality(Going(slot)) \in Nat /\ Cardinality(Doubled(slot)) \in Nat
          /\ Cardinality(Going(slot')) \in Nat /\ Cardinality(Doubled(slot')) \in Nat
      BY UnitsAreFinite DEF Going, Doubled
    <2>4. CASE slot[u] = "fetching"
      <3>1. Doubled(slot') = Doubled(slot) BY <1>3, <2>4 DEF Doubled
      <3>2. requests' = requests - 1 BY <1>1, <2>4 DEF Weight
      <3>3. requests = Cardinality(Going(slot)) + Cardinality(Doubled(slot)) /\ requests \in Nat BY TypeFacts
      <3>4. requests' = Cardinality(Going(slot')) + Cardinality(Doubled(slot')) BY <2>2, <2>3, <3>1, <3>2, <3>3
      <3> QED BY <2>3, <3>2, <3>3, <3>4, HeldNext
    <2>5. CASE slot[u] = "hedged"
      <3>1. Doubled(slot') = Doubled(slot) \ {u} /\ u \in Doubled(slot) BY <1>3, <2>5 DEF Doubled
      <3>2. Cardinality(Doubled(slot')) = Cardinality(Doubled(slot)) - 1 BY <3>1, OneLess DEF Doubled
      <3>3. Weight(u) = 2 BY <2>5 DEF Weight
      <3>4. requests' = requests - 2 BY <1>1, <3>3
      <3>5. requests \in Nat /\ requests = Cardinality(Going(slot)) + Cardinality(Doubled(slot)) BY TypeFacts
      <3>6. requests' = Cardinality(Going(slot')) + Cardinality(Doubled(slot')) BY <2>2, <2>3, <3>2, <3>4, <3>5
      <3> QED BY <2>3, <3>4, <3>5, <3>6, HeldNext
    <2> QED BY <1>2, <2>4, <2>5
  <1>5. RequestsCounted'
    <2>1. requests' \in 0 .. Connections BY <1>4, TypeFacts DEF IInv, RequestsCounted
    <2>2. TypeOK' BY <1>1, <1>3, <2>1 DEF IInv, RequestsCounted, TypeOK
    <2>3. \A v \in Unit : (slot'[v] # "idle") <=> (v \in head .. started - 1) BY <1>1, <1>3 DEF IInv, RequestsCounted
    <2>4. \A v \in Unit : slot'[v] = "fetching" => first'[v] # "none" /\ second'[v] = "none"
      BY <1>1, <1>3 DEF IInv, RequestsCounted
    <2>5. started' <= head' + Window BY <1>1 DEF IInv, RequestsCounted
    <2>6. requests' <= Connections BY <2>1, TypeFacts
    <2> QED BY <1>1, <1>4, <2>2, <2>3, <2>4, <2>5, <2>6 DEF RequestsCounted
  <1>6. Racing' BY <1>1, <1>3 DEF IInv, Racing
  <1>7. FailedIsLast'
    <2>1. \A v \in Unit : slot'[v] = "failed" <=> slot[v] = "failed" BY <1>2, <1>3
    <2>2. count > 0 => count - 1 \in Unit BY TypeFacts
    <2> QED BY <1>1, <2>1, <2>2, TypeFacts DEF IInv, FailedIsLast
  <1> QED BY <1>1, <1>5, <1>6, <1>7 DEF IInv

(* A unit fails: those behind it are dropped, and their weight with them. *)
LEMMA FinishFailedInv == ASSUME IInv, NEW u \in Unit, FinishFailed(u) PROVE IInv'
  <1> DEFINE dropped == u .. started - 1
  <1>1. /\ outcome = "none" /\ u \in head .. started - 1 /\ Raced(u, "failed") /\ requests' = requests - Held(dropped)
        /\ count' = u + 1 /\ started' = u + 1 /\ UNCHANGED <<head, outcome>>
        /\ first' = [first EXCEPT ![u] = "none"] /\ second' = [second EXCEPT ![u] = "none"]
    BY DEF FinishFailed, Over
  <1>2. /\ slot' \in [Unit -> {"idle", "fetching", "hedged", "ok", "failed"}] /\ slot'[u] = "failed"
        /\ \A v \in Unit : v > u => slot'[v] = "idle"
        /\ \A v \in Unit : v < u => slot'[v] = slot[v]
    BY TypeFacts DEF FinishFailed, IInv, RequestsCounted, TypeOK
  <1>3. slot[u] \in {"fetching", "hedged"} /\ u < count /\ u \in Nat /\ \A v \in Unit : slot[v] = "failed" => u < v
    BY <1>1, RacedIsGoing, TypeFacts
  <1>4. /\ first' \in [Unit -> {"none", "going", "ok", "failed"}] /\ first'[u] = "none"
        /\ second' \in [Unit -> {"none", "sent", "going", "ok", "failed"}] /\ second'[u] = "none"
        /\ \A v \in Unit \ {u} : first'[v] = first[v] /\ second'[v] = second[v]
    BY <1>1 DEF IInv, RequestsCounted, TypeOK
  <1>5. \A v \in Unit : v \in dropped \/ v < u \/ slot[v] = "idle"
    BY <1>3, TypeFacts DEF IInv, RequestsCounted
  <1>6. requests' = Held(Unit)' /\ requests' \in Nat /\ requests' <= requests
    <2>1. Going(slot') = Going(slot) \ dropped
      <3>1. \A v \in Unit : v \in dropped => v = u \/ v > u BY <1>3, TypeFacts
      <3>2. \A v \in Unit : v < u => v \notin dropped BY <1>3, TypeFacts
      <3>3. \A v \in Unit : v \in dropped => slot'[v] \in {"failed", "idle"} BY <1>2, <3>1
      <3>4. \A v \in Unit : v \notin dropped => slot'[v] = slot[v] \/ (slot[v] = "idle" /\ slot'[v] = "idle")
        BY <1>2, <1>3, <1>5, TypeFacts
      <3> HIDE DEF dropped
      <3> QED BY <3>3, <3>4 DEF Going
    <2>2. Doubled(slot') = Doubled(slot) \ dropped
      <3>1. \A v \in Unit : v \in dropped => v = u \/ v > u BY <1>3, TypeFacts
      <3>3. \A v \in Unit : v \in dropped => slot'[v] \in {"failed", "idle"} BY <1>2, <3>1
      <3>4. \A v \in Unit : v \notin dropped => slot'[v] = slot[v] \/ (slot[v] = "idle" /\ slot'[v] = "idle")
        BY <1>2, <1>3, <1>5, TypeFacts
      <3> HIDE DEF dropped
      <3> QED BY <3>3, <3>4 DEF Doubled
    <2>3. dropped \subseteq Unit BY <1>3, TypeFacts
    <2> HIDE DEF dropped
    <2>4. Held(dropped) = Cardinality(Going(slot) \cap dropped) + Cardinality(Doubled(slot) \cap dropped)
      <3>1. {v \in dropped : slot[v] \in {"fetching", "hedged"}} = Going(slot) \cap dropped BY <2>3 DEF Going
      <3>2. {v \in dropped : slot[v] = "hedged"} = Doubled(slot) \cap dropped BY <2>3 DEF Doubled
      <3> QED BY <3>1, <3>2 DEF Held
    <2>5. Cardinality(Going(slot)) = Cardinality(Going(slot) \cap dropped) + Cardinality(Going(slot'))
      BY <2>1, SplitCount DEF Going
    <2>6. Cardinality(Doubled(slot)) = Cardinality(Doubled(slot) \cap dropped) + Cardinality(Doubled(slot'))
      BY <2>2, SplitCount DEF Doubled
    <2>7. /\ Cardinality(Going(slot) \cap dropped) \in Nat /\ Cardinality(Doubled(slot) \cap dropped) \in Nat
          /\ Cardinality(Going(slot')) \in Nat /\ Cardinality(Doubled(slot')) \in Nat
      <3>1. Going(slot) \cap dropped \in SUBSET Unit /\ Doubled(slot) \cap dropped \in SUBSET Unit
            /\ Going(slot') \in SUBSET Unit /\ Doubled(slot') \in SUBSET Unit
        BY DEF Going, Doubled
      <3> QED BY <3>1, UnitsAreFinite
    <2>8. requests = Cardinality(Going(slot)) + Cardinality(Doubled(slot)) BY TypeFacts
    <2>9. /\ requests' = Cardinality(Going(slot')) + Cardinality(Doubled(slot'))
          /\ requests' \in Nat /\ requests' <= requests
      BY <1>1, <2>4, <2>5, <2>6, <2>7, <2>8
    <2> QED BY <2>9, HeldNext
  <1>7. RequestsCounted'
    <2>1. requests' \in 0 .. Connections /\ requests' <= Connections BY <1>6, TypeFacts DEF IInv, RequestsCounted
    <2>2. started' \in 0 .. Count /\ count' \in 0 .. Count BY <1>1, <1>3, TypeFacts
    <2>3. TypeOK' BY <1>1, <1>2, <1>4, <2>1, <2>2 DEF IInv, RequestsCounted, TypeOK
    <2>4. \A v \in Unit : (slot'[v] # "idle") <=> (v \in head .. u)
      <3>1. ASSUME NEW v \in Unit PROVE (slot'[v] # "idle") <=> (v \in head .. u)
        <4>1. CASE v < u
          <5>1. v \in head .. started - 1 <=> v \in head .. u BY <1>1, <1>3, <4>1, TypeFacts
          <5> QED BY <1>2, <4>1, <5>1 DEF IInv, RequestsCounted
        <4>2. CASE v = u BY <1>1, <1>2, <1>3, <4>2, TypeFacts
        <4>3. CASE v > u BY <1>2, <1>3, <4>3, TypeFacts
        <4> QED BY <1>3, <4>1, <4>2, <4>3, TypeFacts
      <3> QED BY <3>1
    <2>5. \A v \in Unit : (slot'[v] # "idle") <=> (v \in head' .. started' - 1) BY <1>1, <1>3, <2>4
    <2>6. \A v \in Unit : slot'[v] = "fetching" => first'[v] # "none" /\ second'[v] = "none"
      <3>1. \A v \in Unit : slot'[v] = "fetching" => v < u /\ v # u BY <1>2, <1>3, TypeFacts
      <3> QED BY <1>1, <1>2, <1>4, <3>1 DEF IInv, RequestsCounted
    <2>7. started' <= head' + Window
      <3>1. started <= head + Window /\ u < started BY <1>1, TypeFacts DEF IInv, RequestsCounted
      <3> QED BY <1>1, <1>3, <3>1, TypeFacts, InOrderAssumption
    <2> QED BY <1>6, <2>1, <2>3, <2>5, <2>6, <2>7 DEF RequestsCounted
  <1>8. Racing'
    <2>1. ASSUME NEW v \in Unit
          PROVE  /\ first'[v] # "none" => slot'[v] \in {"fetching", "hedged"} \/ v >= u + 1
                 /\ second'[v] # "none" => slot'[v] = "hedged" \/ v >= u + 1
      <3>1. CASE v < u BY <1>2, <1>3, <1>4, <3>1, TypeFacts DEF IInv, Racing
      <3>2. CASE v = u BY <1>4, <3>2
      <3>3. CASE v > u BY <1>3, <3>3, TypeFacts
      <3> QED BY <1>3, <3>1, <3>2, <3>3, TypeFacts
    <2> QED BY <1>1, <2>1 DEF Racing
  <1>9. FailedIsLast'
    <2>1. \A v \in Unit : slot'[v] = "failed" => v = u
      <3>1. ASSUME NEW v \in Unit, slot'[v] = "failed", v # u PROVE FALSE BY <1>2, <1>3, <3>1, TypeFacts
      <3> QED BY <3>1
    <2>2. count' - 1 = u /\ count' > 0 BY <1>1, <1>3
    <2> QED BY <1>1, <1>2, <2>1, <2>2 DEF FailedIsLast
  <1>10. head' <= started' /\ started' <= count' BY <1>1, <1>3, TypeFacts
  <1> QED BY <1>7, <1>8, <1>9, <1>10 DEF IInv

(* The next unit is handed out; a failed one ends the loop. *)
LEMMA PopInv == ASSUME IInv, Pop PROVE IInv'
  <1>1. /\ outcome = "none" /\ head < started /\ slot[head] \in {"ok", "failed"} /\ head' = head + 1
        /\ slot' = [slot EXCEPT ![head] = "idle"] /\ outcome' = IF slot[head] = "failed" THEN "failed" ELSE "none"
        /\ UNCHANGED <<count, started, requests, first, second>>
    BY DEF Pop
  <1>2. head \in Unit /\ head < count /\ count - 1 \in Unit BY <1>1, TypeFacts
  <1>3. /\ slot' \in [Unit -> {"idle", "fetching", "hedged", "ok", "failed"}] /\ slot'[head] = "idle"
        /\ \A u \in Unit \ {head} : slot'[u] = slot[u]
    BY <1>1, <1>2 DEF IInv, RequestsCounted, TypeOK
  <1>4. requests' = Held(Unit)'
    <2>1. Going(slot') = Going(slot) /\ Doubled(slot') = Doubled(slot) BY <1>1, <1>3 DEF Going, Doubled
    <2> QED BY <1>1, <2>1, TypeFacts, HeldNext
  <1>5. RequestsCounted'
    <2>1. head' \in 0 .. Count BY <1>1, TypeFacts
    <2>2. TypeOK' BY <1>1, <1>3, <2>1 DEF IInv, RequestsCounted, TypeOK
    <2>3. \A u \in Unit : u \in head + 1 .. started - 1 <=> u \in head .. started - 1 /\ u # head BY TypeFacts
    <2>4. \A u \in Unit : (slot'[u] # "idle") <=> (u \in head' .. started' - 1)
      BY <1>1, <1>3, <2>3 DEF IInv, RequestsCounted
    <2>5. started' <= head' + Window BY <1>1, TypeFacts, InOrderAssumption DEF IInv, RequestsCounted
    <2>6. \A u \in Unit : outcome' = "none" /\ slot'[u] = "fetching" => first'[u] # "none" /\ second'[u] = "none"
      BY <1>1, <1>3 DEF IInv, RequestsCounted
    <2> QED BY <1>1, <1>4, <2>2, <2>4, <2>5, <2>6 DEF IInv, RequestsCounted
  <1>6. Racing' BY <1>1, <1>3 DEF IInv, Racing
  <1>7. FailedIsLast'
    <2>1. \A u \in Unit : slot'[u] = "failed" => slot[u] = "failed" BY <1>1, <1>3
    <2>2. CASE slot[head] = "failed"
      <3>1. head' = count' /\ outcome' = "failed" BY <1>1, <1>2, <2>2 DEF IInv, FailedIsLast
      <3> QED BY <1>1, <2>1, <3>1 DEF IInv, FailedIsLast
    <2>3. CASE slot[head] = "ok"
      <3>1. count < Count => count - 1 # head /\ count > 0 /\ slot[count - 1] = "failed"
        BY <1>1, <2>3 DEF IInv, FailedIsLast
      <3>2. count < Count => slot'[count - 1] = "failed" BY <1>2, <1>3, <3>1
      <3> QED BY <1>1, <2>1, <2>3, <3>1, <3>2 DEF IInv, FailedIsLast
    <2> QED BY <1>1, <2>2, <2>3
  <1> QED BY <1>1, <1>5, <1>6, <1>7, TypeFacts DEF IInv

(* The loop ends. *)
LEMMA EndsInv == ASSUME IInv, IsDone \/ Cancel PROVE IInv'
  <1>1. /\ outcome = "none" /\ outcome' \in {"done", "cancelled"} /\ UNCHANGED <<head, count, started, slot, requests>>
        /\ \/ UNCHANGED <<first, second>>
           \/ first' = [u \in Unit |-> "none"] /\ second' = [u \in Unit |-> "none"]
    BY DEF IsDone, Cancel
  <1>2. RequestsCounted'
    <2>1. TypeOK' BY <1>1 DEF IInv, RequestsCounted, TypeOK
    <2>2. requests' = Held(Unit)' BY <1>1, HeldNext, TypeFacts
    <2> QED BY <1>1, <2>1, <2>2 DEF IInv, RequestsCounted
  <1>3. Racing' BY <1>1 DEF IInv, Racing
  <1>4. FailedIsLast' BY <1>1 DEF IInv, FailedIsLast
  <1> QED BY <1>1, <1>2, <1>3, <1>4 DEF IInv

LEMMA NextInv == IInv /\ [Next]_vars => IInv'
  <1> SUFFICES ASSUME IInv, [Next]_vars PROVE IInv' OBVIOUS
  <1>1. CASE Launch \/ Hedge BY <1>1, LaunchInv, HedgeInv
  <1>2. CASE Pop \/ IsDone \/ Cancel BY <1>2, PopInv, EndsInv
  <1>3. ASSUME NEW u \in Unit, Poll(u) \/ FirstEnds(u) \/ SecondEnds(u) PROVE IInv'
    BY <1>3, RaceInv, FinishInv, FinishFailedInv DEF Poll
  <1>4. CASE UNCHANGED vars
    <2>1. UNCHANGED <<head, count, started, slot, requests, first, second, outcome>> BY <1>4 DEF vars
    <2>2. RequestsCounted'
      <3>1. TypeOK' BY <2>1 DEF IInv, RequestsCounted, TypeOK
      <3>2. requests' = Held(Unit)' BY <2>1, HeldNext, TypeFacts
      <3> QED BY <2>1, <3>1, <3>2 DEF IInv, RequestsCounted
    <2> QED BY <2>1, <2>2 DEF IInv, Racing, FailedIsLast
  <1> QED BY <1>1, <1>2, <1>3, <1>4 DEF Next

LEMMA Invariance == Spec => []IInv
  BY InitInv, NextInv, PTL DEF Spec

(* InOrder.requests is the number of requests under way for units of the window, those made twice     *)
(* counted twice: failures, dropped units and second requests whose first one won all give back what  *)
(* launch and hedge took, and nothing more, so that the window neither runs dry nor over (hls.rs).    *)
THEOREM AlwaysRequestsCounted == Spec => []RequestsCounted
  <1>1. IInv => RequestsCounted BY DEF IInv
  <1> QED BY <1>1, Invariance, PTL

-----------------------------------------------------------------------------
(* The promise of HandOut, step by step. *)

Broken == \E u \in Unit : slot[u] = "failed"
Handed == IF outcome = "failed" THEN head - 1 ELSE head
FirstBroken == IF outcome = "failed" \/ Broken THEN count - 1 ELSE Count

(* A step that neither hands out nor fails a unit, with the loop as it was. *)
LEMMA StaysPromised ==
  ASSUME UNCHANGED <<head, outcome>>, Broken' <=> Broken, Broken \/ outcome = "failed" => count' = count
  PROVE  UNCHANGED <<Handed, FirstBroken, outcome>>
  BY DEF Handed, FirstBroken

LEMMA FailureBreaks == ASSUME IInv, NEW u \in Unit, FinishFailed(u) PROVE Promised!Break
  <1>1. /\ outcome = "none" /\ u \in head .. started - 1 /\ Raced(u, "failed") /\ count' = u + 1
        /\ UNCHANGED <<head, outcome>> /\ slot'[u] = "failed"
    BY TypeFacts DEF FinishFailed, IInv, RequestsCounted, TypeOK
  <1>2. u < count /\ u \in Nat /\ \A v \in Unit : slot[v] = "failed" => u < v BY <1>1, RacedIsGoing, TypeFacts
  <1>3. Broken' BY <1>1 DEF Broken
  <1>4. FirstBroken' = u BY <1>1, <1>2, <1>3 DEF FirstBroken
  <1>5. u < FirstBroken
    <2>1. CASE Broken
      <3>1. PICK v \in Unit : slot[v] = "failed" BY <2>1 DEF Broken
      <3>2. u < v /\ v = count - 1 BY <1>2, <3>1, TypeFacts DEF IInv, FailedIsLast
      <3> QED BY <2>1, <3>2 DEF FirstBroken
    <2>2. CASE ~Broken BY <1>1, <1>2, <2>2, TypeFacts DEF FirstBroken
    <2> QED BY <2>1, <2>2
  <1>6. Handed = head /\ Handed' = head /\ u \in head .. Count - 1 BY <1>1, <1>2, TypeFacts DEF Handed
  <1> QED BY <1>1, <1>4, <1>5, <1>6 DEF Promised!Break, Handed, FirstBroken, Broken

LEMMA PopHands == ASSUME IInv, Pop PROVE Promised!Hand \/ Promised!End
  <1>1. /\ outcome = "none" /\ head < started /\ slot[head] \in {"ok", "failed"} /\ head' = head + 1
        /\ slot' = [slot EXCEPT ![head] = "idle"] /\ outcome' = IF slot[head] = "failed" THEN "failed" ELSE "none"
        /\ UNCHANGED count
    BY DEF Pop
  <1>2. head \in Unit /\ head < count /\ head \in Nat /\ count <= Count BY <1>1, TypeFacts
  <1>3. CASE slot[head] = "failed"
    <2>1. head + 1 = count BY <1>2, <1>3 DEF IInv, FailedIsLast
    <2>2. Handed = head /\ Handed' = head BY <1>1, <1>2, <1>3 DEF Handed
    <2>3. Broken BY <1>2, <1>3 DEF Broken
    <2>4. FirstBroken = head /\ FirstBroken' = head BY <1>1, <1>2, <1>3, <2>1, <2>3 DEF FirstBroken
    <2>5. head < Count BY <1>2, TypeFacts
    <2> QED BY <1>1, <1>3, <2>2, <2>4, <2>5 DEF Promised!End, Handed, FirstBroken, Broken
  <1>4. CASE slot[head] = "ok"
    <2>1. Handed = head /\ Handed' = head + 1 /\ outcome' = outcome BY <1>1, <1>4 DEF Handed
    <2>2. \A u \in Unit : slot'[u] = "failed" <=> slot[u] = "failed"
      BY <1>1, <1>2, <1>4 DEF IInv, RequestsCounted, TypeOK
    <2>3. FirstBroken' = FirstBroken BY <1>1, <2>1, <2>2 DEF FirstBroken, Broken
    <2>4. head < FirstBroken
      <3>1. CASE Broken
        <4>1. PICK v \in Unit : slot[v] = "failed" BY <3>1 DEF Broken
        <4>2. v = count - 1 /\ v # head BY <1>4, <4>1, TypeFacts DEF IInv, FailedIsLast
        <4> QED BY <1>2, <3>1, <4>2, TypeFacts DEF FirstBroken
      <3>2. CASE ~Broken BY <1>1, <1>2, <3>2, TypeFacts DEF FirstBroken
      <3> QED BY <3>1, <3>2
    <2> QED BY <1>1, <2>1, <2>3, <2>4 DEF Promised!Hand, Handed, FirstBroken, Broken
  <1> QED BY <1>1, <1>3, <1>4

LEMMA LoopEnds == ASSUME IInv, IsDone \/ Cancel PROVE Promised!End
  <1>1. /\ outcome = "none" /\ UNCHANGED <<head, count, slot>>
        /\ (outcome' = "done" /\ head = count) \/ outcome' = "cancelled"
    BY DEF IsDone, Cancel
  <1>2. Handed = head /\ Handed' = head /\ FirstBroken' = FirstBroken BY <1>1 DEF Handed, FirstBroken, Broken
  <1>3. head = count => count = Count
    <2>1. SUFFICES ASSUME head = count, count < Count PROVE FALSE BY TypeFacts
    <2>2. count > 0 /\ slot[count - 1] = "failed" /\ count - 1 \in Unit BY <1>1, <2>1, TypeFacts DEF IInv, FailedIsLast
    <2>3. count - 1 \in head .. started - 1 BY <2>2 DEF IInv, RequestsCounted
    <2> QED BY <2>1, <2>3, TypeFacts
  <1> QED BY <1>1, <1>2, <1>3 DEF Promised!End, Handed, FirstBroken, Broken

LEMMA StepHandsOut == IInv /\ IInv' /\ [Next]_vars => [Promised!Next]_(Promised!vars)
  <1> SUFFICES ASSUME IInv, IInv', [Next]_vars PROVE [Promised!Next]_(Promised!vars) OBVIOUS
  <1>1. ASSUME UNCHANGED <<head, outcome>>, Broken' <=> Broken, Broken \/ outcome = "failed" => count' = count
        PROVE  [Promised!Next]_(Promised!vars)
    BY <1>1, StaysPromised DEF Promised!vars, Handed, FirstBroken, Broken
  <1>2. CASE Launch \/ Hedge
    <2>1. /\ UNCHANGED <<head, outcome, count>>
          /\ \E u \in Unit, s \in {"fetching", "hedged"} : slot' = [slot EXCEPT ![u] = s] /\ slot[u] # "failed"
      <3>1. CASE Launch
        <4>1. started \in Unit BY <3>1, TypeFacts DEF Launch, CanLaunch
        <4>2. slot[started] = "idle" BY <4>1, TypeFacts DEF IInv, RequestsCounted
        <4> QED BY <3>1, <4>1, <4>2 DEF Launch
      <3>2. CASE Hedge
        <4>1. head \in Unit BY <3>2, TypeFacts DEF Hedge
        <4> QED BY <3>2, <4>1 DEF Hedge
      <3> QED BY <1>2, <3>1, <3>2
    <2>2. Broken' <=> Broken BY <2>1 DEF Broken, IInv, RequestsCounted, TypeOK
    <2> QED BY <1>1, <2>1, <2>2
  <1>3. CASE Pop BY <1>3, PopHands DEF Promised!Next
  <1>4. CASE IsDone \/ Cancel BY <1>4, LoopEnds DEF Promised!Next
  <1>5. ASSUME NEW u \in Unit, Poll(u) \/ FirstEnds(u) \/ SecondEnds(u) PROVE [Promised!Next]_(Promised!vars)
    <2>1. CASE TakeUp(u) \/ FirstEnds(u) \/ SecondEnds(u) \/ FinishDropped(u)
      <3>1. UNCHANGED <<head, outcome, count, slot>> BY <2>1 DEF TakeUp, FirstEnds, SecondEnds, FinishDropped
      <3>2. Broken' <=> Broken BY <3>1 DEF Broken
      <3> QED BY <1>1, <3>1, <3>2
    <2>2. CASE Finish(u)
      <3>1. UNCHANGED <<head, outcome, count>> /\ slot' = [slot EXCEPT ![u] = "ok"] BY <2>2 DEF Finish
      <3>2. slot[u] # "failed" BY <2>2, RacedIsGoing DEF Finish
      <3>3. Broken' <=> Broken BY <3>1, <3>2 DEF Broken, IInv, RequestsCounted, TypeOK
      <3> QED BY <1>1, <3>1, <3>3
    <2>3. CASE FinishFailed(u) BY <2>3, FailureBreaks DEF Promised!Next
    <2> QED BY <1>5, <2>1, <2>2, <2>3 DEF Poll
  <1>6. CASE UNCHANGED vars
    <2>1. UNCHANGED <<head, outcome, count, slot>> BY <1>6 DEF vars
    <2>2. Broken' <=> Broken BY <2>1 DEF Broken
    <2> QED BY <1>1, <2>1, <2>2
  <1> QED BY <1>2, <1>3, <1>4, <1>5, <1>6 DEF Next

(* Whatever order they arrive in, units are handed out in theirs, each once; a failure ends the loop   *)
(* right after the units before it (hls.rs: InOrder::pop, finish); and a unit is given up only when    *)
(* each request made for it has failed (race).                                                         *)
THEOREM AlwaysInOrder == Spec => DeliversInOrder
  <1>1. Spec => HandsOutInOrder
    <2>1. Init => Promised!Init BY DEF Init, Promised!Init
    <2> QED BY <2>1, StepHandsOut, Invariance, PTL DEF Spec, HandsOutInOrder, Promised!Spec
  <1>2. Spec => GivesUpLast
    <2> DEFINE Last == \A u \in Unit :
                 slot'[u] = "failed" /\ slot[u] # "failed" => first[u] = "failed" /\ second[u] \notin {"going", "ok"}
    <2>1. IInv /\ [Next]_vars => [Last]_vars
      <3> SUFFICES ASSUME IInv, Next PROVE Last OBVIOUS
      <3>1. CASE Launch \/ Hedge \/ Pop \/ IsDone \/ Cancel
        BY <3>1 DEF Launch, Hedge, Pop, IsDone, Cancel, IInv, RequestsCounted, TypeOK
      <3>2. ASSUME NEW u \in Unit, Poll(u) \/ FirstEnds(u) \/ SecondEnds(u) PROVE Last
        <4>1. CASE FinishFailed(u)
          <5>1. first[u] = "failed" /\ second[u] \notin {"going", "ok"} BY <4>1 DEF FinishFailed, Raced
          <5>2. \A v \in Unit : slot'[v] = "failed" /\ slot[v] # "failed" => v = u BY <4>1 DEF FinishFailed
          <5> QED BY <5>1, <5>2
        <4>2. CASE ~FinishFailed(u)
          BY <3>2, <4>2 DEF Poll, TakeUp, FirstEnds, SecondEnds, Finish, FinishDropped, IInv, RequestsCounted, TypeOK
        <4> QED BY <4>1, <4>2
      <3> QED BY <3>1, <3>2 DEF Next
    <2> QED BY <2>1, Invariance, PTL DEF Spec, GivesUpLast
  <1> QED BY <1>1, <1>2 DEF DeliversInOrder

-----------------------------------------------------------------------------
(***************************************************************************)
(* The files of the tracks the window's segments go to, for any number of  *)
(* tracks, streams and segments: a StreamWriter beside the window.         *)
(*                                                                         *)
(* Safe resuming is not inductive alone.  A save puts the run's stream and *)
(* a count into the state, so the .part must hold that many segments of    *)
(* the run's own.  The first of them may be an earlier run's: they are its *)
(* own too, since it took the track over only if the state named its       *)
(* stream, or if the segments it compared agree, and streams with one      *)
(* segment in common have all of them (Content).  The others are, because  *)
(* the queue holds the ones that come next.  And the count is durable when *)
(* the state is replaced: it is of segments written before the sync.       *)
(***************************************************************************)
CONSTANTS Tracks, Length, Streams, Content, WriteQueue, Fsync, Junk, None, Budget
VARIABLES run, spent, left, queue, closed, writer, saver, part, durable, state, final

S == INSTANCE StreamWriter

RunSet == [pc : {"off", "opening", "naming", "starting", "running", "stopping", "ended"}, track : Tracks, stream : Streams]
WriterPCs ==
  {"off", "hashing", "writing", "joining", "failing", "deciding", "flushing", "renaming", "removing", "syncing", "replacing", "returned", "failed"}
WriterSet == [pc : WriterPCs, held : Nat, saved : Nat, hashed : BOOLEAN]
SaverSet == [pc : {"off", "idle", "syncing", "replacing", "failed"}, held : Nat]
StateSet == [stream : Streams, held : Nat]

(* Tracks are numbers, contents too, and streams, contents and nothing are told apart. *)
Distinct ==
  /\ Tracks \subseteq Nat /\ 1 \in Tracks
  /\ Length \in [Tracks -> Nat] /\ WriteQueue \in Nat
  /\ IsFiniteSet(Streams) /\ Streams # {}
  /\ Content \in [Streams -> 1 .. Cardinality(Streams)]
  /\ None \notin S!Contents \cup StateSet

(* A writer that has not returned: before it renames its .part, and after. *)
Busy(t) == ~S!Returned(t) /\ writer[t].pc # "removing"

(* The first n segments of t's .part are the run's. *)
Ours(t, n) == n <= Len(part[t]) /\ \A i \in 1 .. n : part[t][i] = S!Segment(run.stream, i)

(* t's state names a stream with the run's segments. *)
NamesOurs(t) == state[t] # None /\ Content[state[t].stream] = Content[run.stream]

Typed ==
  /\ run \in RunSet
  /\ left \in [Tracks -> Nat] /\ queue \in [Tracks -> S!Contents] /\ closed \in [Tracks -> BOOLEAN]
  /\ writer \in [Tracks -> WriterSet] /\ saver \in [Tracks -> SaverSet]
  /\ part \in [Tracks -> S!Contents \cup {None}] /\ final \in [Tracks -> S!Contents \cup {None}]
  /\ durable \in [Tracks -> Nat] /\ state \in [Tracks -> StateSet \cup {None}]
  /\ \A t \in Tracks : /\ left[t] <= Length[t] /\ Len(queue[t]) <= WriteQueue
                       /\ writer[t].saved <= writer[t].held /\ writer[t].held <= Length[t]
                       /\ state[t] # None => state[t].held <= Length[t]

(* What a state says survives, and a .part that nobody has named is with its state. *)
Kept(t) ==
  /\ part[t] # None => durable[t] <= Len(part[t])
  /\ part[t] # None /\ state[t] # None =>
       state[t].held <= durable[t] /\ \A i \in 1 .. state[t].held : part[t][i] = S!Segment(state[t].stream, i)
  /\ part[t] = None /\ final[t] = None => state[t] = None

Named(t) ==
  final[t] # None =>
    /\ part[t] = None /\ ~Busy(t)
    /\ \E s \in Streams : final[t] = S!Whole(Content[s], t)

Saving(t) ==
  saver[t].pc \in {"syncing", "replacing"} =>
    /\ writer[t].pc \in {"writing", "joining", "failing"}
    /\ saver[t].held = writer[t].saved
    /\ saver[t].pc = "replacing" => saver[t].held <= durable[t]

(* What a writer has written is the run's, and what it is given is what comes next. *)
Writing(t) ==
  Busy(t) =>
    /\ run.pc # "off" /\ part[t] # None /\ NamesOurs(t)
    /\ state[t].held <= writer[t].saved
    /\ Ours(t, writer[t].held)
    /\ writer[t].pc # "failing" => Len(part[t]) = writer[t].held
    /\ writer[t].held + Len(queue[t]) = Length[t] - left[t]
    /\ \A i \in 1 .. Len(queue[t]) : queue[t][i] = S!Segment(run.stream, writer[t].held + i)
    /\ writer[t].pc \in {"flushing", "renaming"} => writer[t].held = Length[t]
    /\ writer[t].pc = "replacing" => writer[t].held <= durable[t]

Removing(t) == writer[t].pc = "removing" => run.pc # "off" /\ final[t] # None

(* Tracks a run has yet to open are as it found them, and may be taken over; the one it opens is cut. *)
Opening(t) ==
  run.pc \in {"opening", "naming", "starting"} /\ run.track <= t =>
    /\ S!Returned(t)
    /\ final[t] = None /\ (run.track < t \/ run.pc = "opening") => S!Usable(run.stream, t) /\ left[t] = Length[t] - S!ResumeFrom(t)
    /\ run.track = t =>
         /\ final[t] = None
         /\ run.pc = "naming" => left[t] = Length[t]
         /\ run.pc \in {"naming", "starting"} => part[t] # None /\ Len(part[t]) = Length[t] - left[t] /\ Ours(t, Length[t] - left[t])
         /\ run.pc = "starting" => NamesOurs(t) /\ state[t].held = Length[t] - left[t]

Stopped(t) == run.pc = "off" => S!Returned(t)

TrackInv(t) == Kept(t) /\ Named(t) /\ Saving(t) /\ Writing(t) /\ Removing(t) /\ Opening(t) /\ Stopped(t)

TracksInv == Typed /\ \A t \in Tracks : TrackInv(t)

-----------------------------------------------------------------------------
Item == {Content[s] : s \in Streams} \X Nat \cup {Junk}

LEMMA StreamItems ==
  ASSUME Distinct
  PROVE  /\ S!Contents = Seq(Item) /\ Junk \in Item
         /\ \A s \in Streams, i \in Nat : S!Segment(s, i) \in Item
         /\ <<>> \in S!Contents
         /\ \A p \in S!Contents : p # None
  <1>1. S!Contents = Seq(Item) BY DEF S!Contents, Item
  <1> QED BY <1>1 DEF Item, S!Segment, Distinct

(* What t's track consists of is as it was. *)
Same(t) ==
  /\ left'[t] = left[t] /\ queue'[t] = queue[t] /\ closed'[t] = closed[t] /\ writer'[t] = writer[t] /\ saver'[t] = saver[t]
  /\ part'[t] = part[t] /\ durable'[t] = durable[t] /\ state'[t] = state[t] /\ final'[t] = final[t]

LEMMA SameTrack == ASSUME NEW t \in Tracks, run' = run, Same(t), TrackInv(t) PROVE TrackInv(t)'
  <1>1. Kept(t)' BY DEF Same, TrackInv, Kept, S!Segment
  <1>2. Named(t)' BY DEF Same, TrackInv, Named, Busy, S!Returned, S!Whole
  <1>3. Saving(t)' BY DEF Same, TrackInv, Saving
  <1>4. Writing(t)' BY DEF Same, TrackInv, Writing, Busy, S!Returned, NamesOurs, Ours, S!Segment
  <1>5. Removing(t)' /\ Stopped(t)' BY DEF Same, TrackInv, Removing, Stopped, S!Returned
  <1>6. Opening(t)' BY DEF Same, TrackInv, Opening, S!Returned, NamesOurs, Ours, S!Segment, S!Usable, S!Resumable, S!Matches, S!ResumeFrom
  <1> QED BY <1>1, <1>2, <1>3, <1>4, <1>5, <1>6 DEF TrackInv

(* A step of one track's threads. *)
LEMMA OwnStep ==
  ASSUME TracksInv, NEW t \in Tracks, run' = run, \A o \in Tracks \ {t} : Same(o), Typed', TrackInv(t)'
  PROVE  TracksInv'
  <1>1. ASSUME NEW o \in Tracks PROVE TrackInv(o)'
    <2>1. CASE o = t BY <2>1
    <2>2. CASE o # t BY <2>2, SameTrack DEF TracksInv
    <2> QED BY <2>1, <2>2
  <1> QED BY <1>1 DEF TracksInv

(* What a track at work leaves to show of its step. *)
LEMMA AtWork ==
  ASSUME TracksInv, NEW t \in Tracks, run' = run, ~S!Returned(t)
  PROVE  Opening(t)' /\ Stopped(t)' /\ run.pc # "off"
  <1>1. Opening(t) /\ Stopped(t) BY DEF TracksInv, TrackInv
  <1>2. ~(run.pc \in {"opening", "naming", "starting"} /\ run.track <= t) BY <1>1 DEF Opening
  <1> QED BY <1>1, <1>2 DEF Opening, Stopped

LEMMA StreamInit == ASSUME Distinct, S!Init PROVE TracksInv
  <1>1. (CHOOSE s \in Streams : TRUE) \in Streams BY DEF Distinct
  <1>2. S!NoWriter \in WriterSet /\ S!NoSaver \in SaverSet BY DEF S!NoWriter, S!NoSaver, WriterSet, WriterPCs, SaverSet
  <1>3. run \in RunSet BY <1>1 DEF S!Init, RunSet, Distinct
  <1>4. Typed
    <2>1. \A t \in Tracks : /\ left[t] <= Length[t] /\ Len(queue[t]) <= WriteQueue
                            /\ writer[t].saved <= writer[t].held /\ writer[t].held <= Length[t]
                            /\ state[t] # None => state[t].held <= Length[t]
      BY DEF S!Init, Distinct, S!NoWriter
    <2> QED BY <1>2, <1>3, <2>1, StreamItems DEF S!Init, Typed, Distinct
  <1>5. ASSUME NEW t \in Tracks PROVE TrackInv(t)
    BY DEF S!Init, TrackInv, Kept, Named, Saving, Writing, Removing, Opening, Stopped, Busy, S!Returned, S!NoWriter, S!NoSaver
  <1> QED BY <1>4, <1>5 DEF TracksInv

-----------------------------------------------------------------------------
(* The types of one track, as each step finds them. *)
LEMMA At1 ==
  ASSUME Distinct, TracksInv, NEW t \in Tracks
  PROVE  /\ left[t] \in Nat /\ queue[t] \in Seq(Item) /\ closed[t] \in BOOLEAN /\ writer[t] \in WriterSet /\ saver[t] \in SaverSet
         /\ part[t] \in Seq(Item) \cup {None} /\ final[t] \in Seq(Item) \cup {None} /\ durable[t] \in Nat
         /\ state[t] \in StateSet \cup {None} /\ run \in RunSet
         /\ left[t] <= Length[t] /\ Len(queue[t]) <= WriteQueue /\ Length[t] \in Nat
         /\ writer[t].saved <= writer[t].held /\ writer[t].held <= Length[t] /\ writer[t].saved \in Nat /\ writer[t].held \in Nat
         /\ state[t] # None => state[t].held <= Length[t] /\ state[t].held \in Nat /\ state[t].stream \in Streams
         /\ part[t] # None => part[t] \in Seq(Item) /\ Len(part[t]) \in Nat
         /\ Kept(t) /\ Named(t) /\ Saving(t) /\ Writing(t) /\ Removing(t) /\ Opening(t) /\ Stopped(t)
  <1>1. left[t] \in Nat /\ queue[t] \in Seq(Item) /\ closed[t] \in BOOLEAN /\ writer[t] \in WriterSet /\ saver[t] \in SaverSet
         /\ part[t] \in Seq(Item) \cup {None} /\ final[t] \in Seq(Item) \cup {None} /\ durable[t] \in Nat
         /\ state[t] \in StateSet \cup {None} /\ run \in RunSet
         /\ left[t] <= Length[t] /\ Len(queue[t]) <= WriteQueue /\ Length[t] \in Nat
         /\ writer[t].saved <= writer[t].held /\ writer[t].held <= Length[t]
    BY StreamItems DEF TracksInv, Typed, Distinct
  <1>2. writer[t].saved \in Nat /\ writer[t].held \in Nat BY <1>1 DEF WriterSet, WriterPCs
  <1>3. state[t] # None => state[t].held <= Length[t] /\ state[t].held \in Nat /\ state[t].stream \in Streams
    <2>1. state[t] # None => state[t].held <= Length[t] BY DEF TracksInv, Typed
    <2> QED BY <1>1, <2>1 DEF StateSet
  <1>4. part[t] # None => part[t] \in Seq(Item) /\ Len(part[t]) \in Nat BY <1>1
  <1> QED BY <1>1, <1>2, <1>3, <1>4 DEF TracksInv, TrackInv

LEMMA HandsOver == ASSUME Distinct, TracksInv, NEW t \in Tracks, S!HandOver(t) PROVE TracksInv'
  <1> DEFINE next == S!Segment(run.stream, Length[t] - left[t] + 1)
  <1>1. /\ run.pc = "running" /\ left[t] > 0 /\ ~S!Returned(t) /\ Len(queue[t]) < WriteQueue
        /\ queue' = [queue EXCEPT ![t] = Append(@, next)] /\ left' = [left EXCEPT ![t] = @ - 1]
        /\ UNCHANGED <<run, spent, closed, writer, saver, S!files>>
    BY DEF S!HandOver, S!IsNext
  <1>2. run.stream \in Streams /\ next \in Item BY At1, StreamItems DEF RunSet
  <1>3. left[t] - 1 \in Nat /\ left[t] - 1 <= Length[t] BY <1>1, At1
  <1> HIDE DEF next
  <1>4. Append(queue[t], next) \in Seq(Item) /\ Len(Append(queue[t], next)) = Len(queue[t]) + 1 /\ Len(queue[t]) \in Nat
        /\ \A i \in 1 .. Len(queue[t]) : Append(queue[t], next)[i] = queue[t][i]
        /\ Append(queue[t], next)[Len(queue[t]) + 1] = next
    BY <1>2, At1, AppendProperties
  <1>5. \A o \in Tracks \ {t} : Same(o) BY <1>1 DEF TracksInv, Typed, Same, S!files
  <1>6. queue'[t] = Append(queue[t], next) /\ left'[t] = left[t] - 1 BY <1>1 DEF TracksInv, Typed
  <1>7. Typed'
    <2>1. queue' \in [Tracks -> S!Contents] /\ left' \in [Tracks -> Nat] BY <1>1, <1>3, <1>4, StreamItems DEF TracksInv, Typed
    <2>2. \A o \in Tracks : left'[o] <= Length[o] /\ Len(queue'[o]) <= WriteQueue
      <3> SUFFICES ASSUME NEW o \in Tracks PROVE left'[o] <= Length[o] /\ Len(queue'[o]) <= WriteQueue OBVIOUS
      <3>1. CASE o = t BY <3>1, <1>1, <1>3, <1>4, <1>6 DEF Distinct
      <3>2. CASE o # t BY <3>2, <1>5 DEF Same, TracksInv, Typed
      <3> QED BY <3>1, <3>2
    <2> QED BY <1>1, <2>1, <2>2 DEF TracksInv, Typed, S!files
  <1>8. Opening(t)' /\ Stopped(t)' BY <1>1, AtWork
  <1>9. Kept(t)' /\ Named(t)' /\ Saving(t)' /\ Removing(t)'
    BY <1>1, At1 DEF Kept, Named, Saving, Removing, Busy, S!Returned, S!Segment, S!Whole, S!files
  <1>10. Writing(t)'
    <2>1. CASE ~Busy(t) BY <1>1, <2>1 DEF Writing, Busy, S!Returned
    <2>2. CASE Busy(t)
      <3>1. /\ writer[t].held + Len(queue[t]) = Length[t] - left[t]
            /\ \A i \in 1 .. Len(queue[t]) : queue[t][i] = S!Segment(run.stream, writer[t].held + i)
        BY <2>2, At1 DEF Writing
      <3>2. next = S!Segment(run.stream, writer[t].held + (Len(queue[t]) + 1))
        <4>1. Length[t] - left[t] + 1 = writer[t].held + (Len(queue[t]) + 1) BY <1>4, <3>1, At1
        <4> QED BY <4>1 DEF next
      <3>3. writer[t].held + Len(queue'[t]) = Length[t] - left'[t]
        <4>1. writer[t].held \in Nat /\ Length[t] \in Nat /\ left[t] \in Nat BY At1
        <4>2. Len(queue'[t]) = Len(queue[t]) + 1 /\ Len(queue[t]) \in Nat BY <1>4, <1>6, Zenon
        <4>3. left'[t] = left[t] - 1 BY <1>6
        <4>4. writer[t].held + Len(queue[t]) = Length[t] - left[t] BY <3>1
        <4>6. Len(queue[t]) \in Nat BY <4>2
        <4>7. writer[t].held + (Len(queue[t]) + 1) = Length[t] - (left[t] - 1)
          <5> DEFINE h == writer[t].held
                     q == Len(queue[t])
                     n == Length[t]
                     l == left[t]
          <5>1. h \in Nat /\ q \in Nat /\ n \in Nat /\ l \in Nat /\ h + q = n - l BY <4>1, <4>4, <4>6
          <5> HIDE DEF h, q, n, l
          <5>2. h + (q + 1) = n - (l - 1) BY <5>1
          <5> QED BY <5>2 DEF h, q, n, l
        <4> QED BY <4>2, <4>3, <4>7, Zenon
      <3>4. \A i \in 1 .. Len(queue'[t]) : queue'[t][i] = S!Segment(run.stream, writer[t].held + i)
        BY <1>4, <1>6, <3>1, <3>2
      <3> QED BY <1>1, <2>2, <3>3, <3>4, At1 DEF Writing, Ours, NamesOurs, S!Segment, S!files
    <2> QED BY <2>1, <2>2
  <1> QED BY <1>1, <1>5, <1>7, <1>8, <1>9, <1>10, OwnStep DEF TrackInv

-----------------------------------------------------------------------------
(* A writer that only goes on, or returns. *)
LEMMA WriterGoesOn ==
  ASSUME Distinct, TracksInv, NEW t \in Tracks, NEW new \in WriterSet, Busy(t),
         writer' = [writer EXCEPT ![t] = new], UNCHANGED <<run, left, queue, closed, saver, S!files>>,
         new.held = writer[t].held, new.saved = writer[t].saved, new.pc # "removing",
         saver[t].pc \in {"syncing", "replacing"} => new.pc \in {"writing", "joining", "failing"},
         new.pc \in {"failing", "returned", "failed"} \/ writer[t].pc # "failing",
         new.pc \in {"flushing", "renaming"} => writer[t].held = Length[t],
         new.pc = "replacing" => writer[t].held <= durable[t]
  PROVE  TracksInv'
  <1>1. writer'[t] = new /\ \A o \in Tracks \ {t} : Same(o) BY DEF TracksInv, Typed, Same, S!files
  <1>2. Typed'
    <2>1. writer' \in [Tracks -> WriterSet] BY DEF TracksInv, Typed
    <2>2. \A o \in Tracks : writer'[o].saved <= writer'[o].held /\ writer'[o].held <= Length[o]
      <3> SUFFICES ASSUME NEW o \in Tracks PROVE writer'[o].saved <= writer'[o].held /\ writer'[o].held <= Length[o] OBVIOUS
      <3>1. CASE o = t BY <1>1, <3>1, At1
      <3>2. CASE o # t BY <1>1, <3>2, At1 DEF Same
      <3> QED BY <3>1, <3>2
    <2> QED BY <2>1, <2>2 DEF TracksInv, Typed, S!files
  <1>3. Opening(t)' /\ Stopped(t)' BY AtWork DEF Busy
  <1>4. Kept(t)' BY At1 DEF Kept, S!Segment, S!files
  <1>5. Named(t)' BY At1 DEF Named, S!files
  <1>6. Saving(t)' /\ Removing(t)' BY <1>1, At1 DEF Saving, Removing, S!files
  <1>7. Writing(t)'
    <2>1. Writing(t) BY At1
    <2>2. Ours(t, writer[t].held) /\ NamesOurs(t) /\ run.pc # "off" /\ part[t] # None /\ state[t].held <= writer[t].saved
          /\ (writer[t].pc # "failing" => Len(part[t]) = writer[t].held)
          /\ writer[t].held + Len(queue[t]) = Length[t] - left[t]
          /\ \A i \in 1 .. Len(queue[t]) : queue[t][i] = S!Segment(run.stream, writer[t].held + i)
      BY <2>1 DEF Writing
    <2>3. Ours(t, writer[t].held)' /\ NamesOurs(t)' BY <1>1, <2>2 DEF Ours, NamesOurs, S!Segment, S!files
    <2>4. ~(new.pc \in {"failing", "returned", "failed"}) => Len(part[t]) = writer[t].held BY <2>2
    <2> QED BY <1>1, <2>2, <2>3, <2>4 DEF Writing, Busy, S!Returned, S!Segment, S!files
  <1> QED BY <1>1, <1>2, <1>3, <1>4, <1>5, <1>6, <1>7, OwnStep DEF TrackInv

(* Threads of a writer's pc. *)
LEMMA WriterAt ==
  ASSUME Distinct, TracksInv, NEW t \in Tracks, NEW pc \in WriterPCs
  PROVE  /\ [writer[t] EXCEPT !.pc = pc] \in WriterSet
         /\ [writer[t] EXCEPT !.pc = pc].pc = pc
         /\ [writer[t] EXCEPT !.pc = pc].held = writer[t].held /\ [writer[t] EXCEPT !.pc = pc].saved = writer[t].saved
         /\ S!WriterTo(t, pc) => writer' = [writer EXCEPT ![t] = [writer[t] EXCEPT !.pc = pc]]
  <1>1. writer[t] \in WriterSet BY At1
  <1>2. [writer[t] EXCEPT !.pc = pc] \in WriterSet BY <1>1 DEF WriterSet, WriterPCs
  <1>3. /\ [writer[t] EXCEPT !.pc = pc].pc = pc
        /\ [writer[t] EXCEPT !.pc = pc].held = writer[t].held /\ [writer[t] EXCEPT !.pc = pc].saved = writer[t].saved
    BY <1>1 DEF WriterSet, WriterPCs
  <1>4. S!WriterTo(t, pc) => writer' = [writer EXCEPT ![t] = [writer[t] EXCEPT !.pc = pc]] BY DEF S!WriterTo
  <1> QED BY <1>2, <1>3, <1>4

LEMMA WriterTurns ==
  ASSUME Distinct, TracksInv, NEW t \in Tracks, NEW pc \in WriterPCs, Busy(t),
         S!WriterTo(t, pc), UNCHANGED <<run, left, queue, closed, saver, S!files>>, pc # "removing",
         saver[t].pc \in {"syncing", "replacing"} => pc \in {"writing", "joining", "failing"},
         pc \in {"failing", "returned", "failed"} \/ writer[t].pc # "failing",
         pc \in {"flushing", "renaming"} => writer[t].held = Length[t],
         pc = "replacing" => writer[t].held <= durable[t]
  PROVE  TracksInv'
  <1> DEFINE new == [writer[t] EXCEPT !.pc = pc]
  <1>1. new \in WriterSet /\ new.pc = pc /\ new.held = writer[t].held /\ new.saved = writer[t].saved /\ writer' = [writer EXCEPT ![t] = new]
    BY WriterAt, Zenon
  <1> HIDE DEF new
  <1> QED BY <1>1, WriterGoesOn

LEMMA HashesPart == ASSUME Distinct, TracksInv, NEW t \in Tracks, S!HashPart(t) PROVE TracksInv'
  <1>1. PICK through \in BOOLEAN : writer' = [writer EXCEPT ![t].pc = "writing", ![t].hashed = through] BY DEF S!HashPart
  <1>2. writer[t].pc = "hashing" /\ UNCHANGED <<run, left, queue, closed, saver, S!files>> BY DEF S!HashPart, S!At, S!feed
  <1>3. writer[t] \in WriterSet BY At1
  <1> DEFINE new == [writer[t] EXCEPT !.pc = "writing", !.hashed = through]
  <1>4. new \in WriterSet /\ new.pc = "writing" /\ new.held = writer[t].held /\ new.saved = writer[t].saved BY <1>3 DEF WriterSet, WriterPCs
  <1>5. writer' = [writer EXCEPT ![t] = new] BY <1>1
  <1> HIDE DEF new
  <1>6. Busy(t) BY <1>2 DEF Busy, S!Returned
  <1> QED BY <1>2, <1>4, <1>5, <1>6, WriterGoesOn

LEMMA WriterEnds ==
  ASSUME Distinct, TracksInv, NEW t \in Tracks, S!EndOfSegments(t) \/ S!JoinSaver(t) \/ S!Decide(t) \/ S!WriterFails(t)
  PROVE  TracksInv'
  <1>1. UNCHANGED <<run, left, queue, closed, saver, S!files>> BY DEF S!EndOfSegments, S!JoinSaver, S!Decide, S!WriterFails, S!feed
  <1>2. saver[t].pc \in {"syncing", "replacing"} => writer[t].pc \in {"writing", "joining", "failing"} BY At1 DEF Saving
  <1>3. CASE S!EndOfSegments(t)
    <2>1. writer[t].pc = "writing" /\ S!WriterTo(t, "joining") BY <1>3 DEF S!EndOfSegments, S!At
    <2>2. Busy(t) /\ "joining" \in WriterPCs BY <2>1 DEF Busy, S!Returned, WriterPCs
    <2> QED BY <1>1, <2>1, <2>2, WriterTurns
  <1>4. CASE S!JoinSaver(t)
    <2>1. writer[t].pc \in {"joining", "failing"} /\ saver[t].pc \in {"idle", "failed"} BY <1>4 DEF S!JoinSaver, S!At
    <2>2. PICK pc \in {"failed", "deciding"} : S!WriterTo(t, pc) /\ (writer[t].pc = "failing" => pc = "failed")
      BY <1>4 DEF S!JoinSaver, S!At
    <2>3. Busy(t) /\ pc \in WriterPCs BY <2>1, <2>2 DEF Busy, S!Returned, WriterPCs
    <2> QED BY <1>1, <2>1, <2>2, <2>3, WriterTurns
  <1>5. CASE S!Decide(t)
    <2>1. writer[t].pc = "deciding" BY <1>5 DEF S!Decide, S!At
    <2>2. PICK pc \in {"flushing", "renaming", "syncing", "returned"} :
            S!WriterTo(t, pc) /\ (pc \in {"flushing", "renaming"} => writer[t].held = Length[t])
      BY <1>5 DEF S!Decide
    <2>3. Busy(t) /\ pc \in WriterPCs BY <2>1, <2>2 DEF Busy, S!Returned, WriterPCs
    <2>4. ~(saver[t].pc \in {"syncing", "replacing"}) BY <1>2, <2>1
    <2> QED BY <1>1, <2>1, <2>2, <2>3, <2>4, WriterTurns
  <1>6. CASE S!WriterFails(t)
    <2>1. writer[t].pc \in {"hashing", "flushing", "syncing", "renaming", "replacing"} /\ S!WriterTo(t, "failed") BY <1>6 DEF S!WriterFails
    <2>2. Busy(t) /\ "failed" \in WriterPCs BY <2>1 DEF Busy, S!Returned, WriterPCs
    <2> QED BY <1>1, <1>2, <2>1, <2>2, WriterTurns
  <1> QED BY <1>3, <1>4, <1>5, <1>6

-----------------------------------------------------------------------------
(* What is true of a track at work. *)
LEMMA WhileBusy ==
  ASSUME Distinct, TracksInv, NEW t \in Tracks, Busy(t)
  PROVE  /\ run.pc # "off" /\ run.stream \in Streams /\ part[t] \in Seq(Item) /\ part[t] # None /\ Len(part[t]) \in Nat
         /\ durable[t] \in Nat /\ durable[t] <= Len(part[t]) /\ final[t] = None
         /\ NamesOurs(t) /\ state[t] \in StateSet /\ state[t].held \in Nat /\ state[t].held <= writer[t].saved
         /\ state[t].held <= durable[t] /\ (\A i \in 1 .. state[t].held : part[t][i] = S!Segment(state[t].stream, i))
         /\ writer[t].held <= Len(part[t]) /\ (\A i \in 1 .. writer[t].held : part[t][i] = S!Segment(run.stream, i))
         /\ writer[t].pc # "failing" => Len(part[t]) = writer[t].held
  <1>1. /\ run.pc # "off" /\ part[t] # None /\ NamesOurs(t) /\ state[t].held <= writer[t].saved
        /\ Ours(t, writer[t].held)
        /\ writer[t].pc # "failing" => Len(part[t]) = writer[t].held
    BY At1 DEF Writing
  <1>2. run.stream \in Streams /\ part[t] \in Seq(Item) /\ Len(part[t]) \in Nat /\ durable[t] \in Nat
    BY <1>1, At1 DEF RunSet
  <1>3. state[t] \in StateSet /\ state[t].held \in Nat BY <1>1, At1 DEF NamesOurs
  <1>4. durable[t] <= Len(part[t]) /\ state[t].held <= durable[t] /\ \A i \in 1 .. state[t].held : part[t][i] = S!Segment(state[t].stream, i)
    BY <1>1, At1 DEF Kept, NamesOurs
  <1>5. final[t] = None BY <1>1, At1 DEF Named
  <1> QED BY <1>1, <1>2, <1>3, <1>4, <1>5 DEF Ours

LEMMA SavingBusy ==
  ASSUME Distinct, TracksInv, NEW t \in Tracks, saver[t].pc \in {"syncing", "replacing"}
  PROVE  /\ Busy(t) /\ writer[t].pc \in {"writing", "joining", "failing"} /\ saver[t].held = writer[t].saved
         /\ saver[t].pc = "replacing" => saver[t].held <= durable[t]
  BY At1 DEF Saving, Busy, S!Returned

LEMMA SaverSyncs == ASSUME Distinct, TracksInv, NEW t \in Tracks, S!SaverSync(t) PROVE TracksInv'
  <1>1. /\ saver[t].pc = "syncing" /\ durable' = [durable EXCEPT ![t] = Len(part[t])] /\ saver' = [saver EXCEPT ![t].pc = "replacing"]
        /\ UNCHANGED <<run, left, queue, closed, writer, part, state, final>>
    BY DEF S!SaverSync, S!feed
  <1>2. Busy(t) /\ writer[t].pc \in {"writing", "joining", "failing"} /\ saver[t].held = writer[t].saved BY <1>1, SavingBusy
  <1>3. \A o \in Tracks \ {t} : Same(o) BY <1>1 DEF TracksInv, Typed, Same
  <1>4. durable'[t] = Len(part[t]) /\ saver'[t].held = saver[t].held BY <1>1 DEF TracksInv, Typed, SaverSet
  <1>5. Typed'
    <2>1. durable' \in [Tracks -> Nat] BY <1>1, <1>2, WhileBusy DEF TracksInv, Typed
    <2>2. saver' \in [Tracks -> SaverSet] BY <1>1 DEF TracksInv, Typed, SaverSet
    <2> QED BY <1>1, <2>1, <2>2 DEF TracksInv, Typed
  <1>6. Opening(t)' /\ Stopped(t)' BY <1>1, <1>2, AtWork DEF Busy
  <1>7. Kept(t)' BY <1>1, <1>2, <1>4, WhileBusy DEF Kept, S!Segment
  <1>8. Named(t)' /\ Removing(t)' BY <1>1, At1 DEF Named, Removing, Busy, S!Returned, S!Whole
  <1>9. Saving(t)'
    <2>1. saver[t].held <= Len(part[t])
      <3>1. writer[t].saved <= writer[t].held /\ writer[t].held <= Len(part[t]) /\ writer[t].saved \in Nat /\ writer[t].held \in Nat /\ Len(part[t]) \in Nat
        BY <1>2, At1, WhileBusy
      <3> QED BY <1>2, <3>1
    <2> QED BY <1>1, <1>2, <1>4, <2>1 DEF Saving
  <1>10. Writing(t)' BY <1>1, <1>2, At1 DEF Writing, Busy, S!Returned, Ours, NamesOurs, S!Segment
  <1> QED BY <1>1, <1>3, <1>5, <1>6, <1>7, <1>8, <1>9, <1>10, OwnStep DEF TrackInv

LEMMA SaverReplaces == ASSUME Distinct, TracksInv, NEW t \in Tracks, S!SaverReplace(t) PROVE TracksInv'
  <1> DEFINE new == [stream |-> run.stream, held |-> saver[t].held]
  <1>1. /\ saver[t].pc = "replacing" /\ state' = [state EXCEPT ![t] = new] /\ saver' = [saver EXCEPT ![t] = [pc |-> "idle", held |-> 0]]
        /\ UNCHANGED <<run, left, queue, closed, writer, part, durable, final>>
    BY DEF S!SaverReplace, S!feed
  <1>2. /\ Busy(t) /\ writer[t].pc \in {"writing", "joining", "failing"} /\ saver[t].held = writer[t].saved /\ saver[t].held <= durable[t]
    BY <1>1, SavingBusy
  <1>3. \A o \in Tracks \ {t} : Same(o) BY <1>1 DEF TracksInv, Typed, Same
  <1>4. writer[t].saved \in Nat /\ writer[t].saved <= writer[t].held /\ writer[t].held <= Length[t] /\ writer[t].held \in Nat BY At1
  <1>5. new \in StateSet /\ new.stream = run.stream /\ new.held = writer[t].saved BY <1>2, <1>4, WhileBusy DEF StateSet
  <1>6. new # None BY <1>5 DEF Distinct
  <1> HIDE DEF new
  <1>7. state'[t] = new /\ saver'[t].pc = "idle" BY <1>1 DEF TracksInv, Typed
  <1>8. Typed'
    <2>1. state' \in [Tracks -> StateSet \cup {None}] BY <1>1, <1>5 DEF TracksInv, Typed
    <2>2. [pc |-> "idle", held |-> 0] \in SaverSet BY DEF SaverSet
    <2>3. saver' \in [Tracks -> SaverSet] BY <1>1, <2>2 DEF TracksInv, Typed
    <2>4. \A o \in Tracks : state'[o] # None => state'[o].held <= Length[o]
      <3> SUFFICES ASSUME NEW o \in Tracks, state'[o] # None PROVE state'[o].held <= Length[o] OBVIOUS
      <3>0. Length[t] \in Nat BY At1
      <3>1. CASE o = t BY <1>4, <1>5, <1>7, <3>0, <3>1
      <3>2. CASE o # t BY <1>3, <3>2, At1 DEF Same
      <3> QED BY <3>1, <3>2
    <2> QED BY <1>1, <2>1, <2>3, <2>4 DEF TracksInv, Typed
  <1>9. Opening(t)' /\ Stopped(t)' BY <1>1, <1>2, AtWork DEF Busy
  <1>10. Kept(t)'
    <2>1. \A i \in 1 .. writer[t].held : part[t][i] = S!Segment(run.stream, i) BY <1>2, WhileBusy
    <2>2. \A i \in 1 .. writer[t].saved : part[t][i] = S!Segment(run.stream, i) BY <1>4, <2>1
    <2>3. durable[t] <= Len(part[t]) /\ part[t] # None BY <1>2, WhileBusy
    <2> QED BY <1>1, <1>2, <1>5, <1>7, <2>2, <2>3 DEF Kept, S!Segment
  <1>11. Named(t)' /\ Removing(t)' BY <1>1, At1 DEF Named, Removing, Busy, S!Returned, S!Whole
  <1>12. Saving(t)' BY <1>7 DEF Saving
  <1>13. Writing(t)'
    <2>1. Writing(t) BY At1
    <2>2. NamesOurs(t)' /\ state'[t].held <= writer'[t].saved BY <1>1, <1>4, <1>5, <1>6, <1>7 DEF NamesOurs
    <2> QED BY <1>1, <1>2, <2>1, <2>2 DEF Writing, Busy, S!Returned, Ours, S!Segment
  <1> QED BY <1>1, <1>3, <1>8, <1>9, <1>10, <1>11, <1>12, <1>13, OwnStep DEF TrackInv

LEMMA SaverStopped == ASSUME Distinct, TracksInv, NEW t \in Tracks, S!SaverFails(t) PROVE TracksInv'
  <1>1. /\ saver[t].pc \in {"syncing", "replacing"} /\ saver' = [saver EXCEPT ![t] = [pc |-> "failed", held |-> 0]]
        /\ UNCHANGED <<run, left, queue, closed, writer, S!files>>
    BY DEF S!SaverFails, S!feed
  <1>2. Busy(t) BY <1>1, SavingBusy
  <1>3. (\A o \in Tracks \ {t} : Same(o)) /\ saver'[t].pc = "failed" BY <1>1 DEF TracksInv, Typed, Same, S!files
  <1>4. Typed'
    <2>1. [pc |-> "failed", held |-> 0] \in SaverSet BY DEF SaverSet
    <2>2. saver' \in [Tracks -> SaverSet] BY <1>1, <2>1 DEF TracksInv, Typed
    <2> QED BY <1>1, <2>2 DEF TracksInv, Typed, S!files
  <1>5. Opening(t)' /\ Stopped(t)' BY <1>1, <1>2, AtWork DEF Busy
  <1>6. Kept(t)' /\ Named(t)' /\ Removing(t)' BY <1>1, At1 DEF Kept, Named, Removing, Busy, S!Returned, S!Whole, S!Segment, S!files
  <1>7. Saving(t)' BY <1>3 DEF Saving
  <1>8. Writing(t)' BY <1>1, At1 DEF Writing, Busy, S!Returned, Ours, NamesOurs, S!Segment, S!files
  <1> QED BY <1>1, <1>3, <1>4, <1>5, <1>6, <1>7, <1>8, OwnStep DEF TrackInv

-----------------------------------------------------------------------------
LEMMA Syncs == ASSUME Distinct, TracksInv, NEW t \in Tracks, S!Sync(t) PROVE TracksInv'
  <1>1. /\ writer[t].pc \in {"flushing", "syncing"} /\ durable' = [durable EXCEPT ![t] = Len(part[t])]
        /\ UNCHANGED <<run, left, queue, closed, saver, part, state, final>>
    BY DEF S!Sync, S!At, S!feed
  <1>2. PICK pc \in {"renaming", "replacing"} : S!WriterTo(t, pc) /\ (pc = "renaming" => writer[t].pc = "flushing") BY <1>1 DEF S!Sync, S!At
  <1>3. Busy(t) BY <1>1 DEF Busy, S!Returned
  <1>4. writer[t] \in WriterSet /\ ~(saver[t].pc \in {"syncing", "replacing"}) BY <1>1, At1 DEF Saving
  <1>5. /\ writer' \in [Tracks -> WriterSet] /\ writer'[t].pc = pc /\ writer'[t].held = writer[t].held /\ writer'[t].saved = writer[t].saved
        /\ \A o \in Tracks \ {t} : writer'[o] = writer[o]
    BY <1>2, <1>4 DEF TracksInv, Typed, S!WriterTo, WriterSet, WriterPCs
  <1>6. durable'[t] = Len(part[t]) /\ \A o \in Tracks \ {t} : Same(o) BY <1>1, <1>5 DEF TracksInv, Typed, Same
  <1>7. Typed'
    <2>1. durable' \in [Tracks -> Nat] BY <1>1, <1>3, WhileBusy DEF TracksInv, Typed
    <2>2. \A o \in Tracks : writer'[o].saved <= writer'[o].held /\ writer'[o].held <= Length[o]
      <3> SUFFICES ASSUME NEW o \in Tracks PROVE writer'[o].saved <= writer'[o].held /\ writer'[o].held <= Length[o] OBVIOUS
      <3>1. CASE o = t BY <1>5, <3>1, At1
      <3>2. CASE o # t BY <1>5, <3>2, At1
      <3> QED BY <3>1, <3>2
    <2> QED BY <1>1, <1>5, <2>1, <2>2 DEF TracksInv, Typed
  <1>8. Opening(t)' /\ Stopped(t)' BY <1>1, <1>3, AtWork DEF Busy
  <1>9. Kept(t)' BY <1>1, <1>3, <1>6, WhileBusy DEF Kept, S!Segment
  <1>10. Named(t)' /\ Removing(t)' /\ Saving(t)' BY <1>1, <1>2, <1>3, <1>4, <1>5, WhileBusy DEF Named, Removing, Saving
  <1>11. Writing(t)'
    <2>1. Writing(t) BY At1
    <2>2. NamesOurs(t)' /\ Ours(t, writer[t].held)' BY <1>1, <1>3, <1>5, <2>1 DEF Writing, NamesOurs, Ours, S!Segment
    <2>3. writer[t].held <= durable'[t] BY <1>3, <1>6, WhileBusy
    <2> QED BY <1>1, <1>2, <1>3, <1>5, <2>1, <2>2, <2>3 DEF Writing, S!Segment
  <1> QED BY <1>1, <1>6, <1>7, <1>8, <1>9, <1>10, <1>11, OwnStep DEF TrackInv

(* A writer that returns has nothing left to show but what is in its files. *)
LEMMA SavesState == ASSUME Distinct, TracksInv, NEW t \in Tracks, S!SaveState(t) PROVE TracksInv'
  <1> DEFINE new == [stream |-> run.stream, held |-> writer[t].held]
  <1>1. /\ writer[t].pc = "replacing" /\ state' = [state EXCEPT ![t] = new] /\ S!WriterTo(t, "returned")
        /\ UNCHANGED <<run, left, queue, closed, saver, part, durable, final>>
    BY DEF S!SaveState, S!At, S!feed
  <1>2. Busy(t) BY <1>1 DEF Busy, S!Returned
  <1>3. writer[t] \in WriterSet /\ ~(saver[t].pc \in {"syncing", "replacing"}) BY <1>1, At1 DEF Saving
  <1>4. writer[t].held \in Nat /\ writer[t].held <= Length[t] /\ writer[t].held <= durable[t] BY <1>1, <1>2, At1 DEF Writing
  <1>5. new \in StateSet /\ new.stream = run.stream /\ new.held = writer[t].held BY <1>2, <1>4, WhileBusy DEF StateSet
  <1>6. new # None BY <1>5 DEF Distinct
  <1> HIDE DEF new
  <1>7. /\ writer' \in [Tracks -> WriterSet] /\ writer'[t].pc = "returned" /\ writer'[t].held = writer[t].held /\ writer'[t].saved = writer[t].saved
        /\ \A o \in Tracks \ {t} : writer'[o] = writer[o]
    BY <1>1, <1>3 DEF TracksInv, Typed, S!WriterTo, WriterSet, WriterPCs
  <1>8. state'[t] = new /\ \A o \in Tracks \ {t} : Same(o) BY <1>1, <1>7 DEF TracksInv, Typed, Same
  <1>9. Typed'
    <2>1. state' \in [Tracks -> StateSet \cup {None}] BY <1>1, <1>5 DEF TracksInv, Typed
    <2>2. \A o \in Tracks : /\ writer'[o].saved <= writer'[o].held /\ writer'[o].held <= Length[o]
                            /\ state'[o] # None => state'[o].held <= Length[o]
      <3> SUFFICES ASSUME NEW o \in Tracks
                   PROVE  /\ writer'[o].saved <= writer'[o].held /\ writer'[o].held <= Length[o]
                          /\ state'[o] # None => state'[o].held <= Length[o]
        OBVIOUS
      <3>1. CASE o = t BY <1>4, <1>5, <1>7, <1>8, <3>1, At1
      <3>2. CASE o # t BY <1>7, <1>8, <3>2, At1 DEF Same
      <3> QED BY <3>1, <3>2
    <2> QED BY <1>1, <1>7, <2>1, <2>2 DEF TracksInv, Typed
  <1>10. Opening(t)' /\ Stopped(t)' BY <1>1, <1>2, AtWork DEF Busy
  <1>11. Kept(t)' BY <1>1, <1>2, <1>4, <1>5, <1>8, WhileBusy DEF Kept, S!Segment
  <1>12. Named(t)' /\ Removing(t)' /\ Saving(t)' /\ Writing(t)'
    BY <1>1, <1>2, <1>3, <1>7, WhileBusy DEF Named, Removing, Saving, Writing, Busy, S!Returned
  <1> QED BY <1>1, <1>8, <1>9, <1>10, <1>11, <1>12, OwnStep DEF TrackInv

LEMMA RemovesState == ASSUME Distinct, TracksInv, NEW t \in Tracks, S!RemoveState(t) PROVE TracksInv'
  <1>1. /\ writer[t].pc = "removing" /\ state' = [state EXCEPT ![t] = None] /\ S!WriterTo(t, "returned")
        /\ UNCHANGED <<run, left, queue, closed, saver, part, durable, final>>
    BY DEF S!RemoveState, S!At, S!feed
  <1>2. ~S!Returned(t) /\ ~Busy(t) BY <1>1 DEF Busy, S!Returned
  <1>3. writer[t] \in WriterSet /\ ~(saver[t].pc \in {"syncing", "replacing"}) BY <1>1, At1 DEF Saving
  <1>4. final[t] # None /\ part[t] = None BY <1>1, At1 DEF Removing, Named
  <1>5. /\ writer' \in [Tracks -> WriterSet] /\ writer'[t].pc = "returned" /\ writer'[t].held = writer[t].held /\ writer'[t].saved = writer[t].saved
        /\ \A o \in Tracks \ {t} : writer'[o] = writer[o]
    BY <1>1, <1>3 DEF TracksInv, Typed, S!WriterTo, WriterSet, WriterPCs
  <1>6. state'[t] = None /\ \A o \in Tracks \ {t} : Same(o) BY <1>1, <1>5 DEF TracksInv, Typed, Same
  <1>7. Typed'
    <2>1. state' \in [Tracks -> StateSet \cup {None}] BY <1>1 DEF TracksInv, Typed
    <2>2. \A o \in Tracks : /\ writer'[o].saved <= writer'[o].held /\ writer'[o].held <= Length[o]
                            /\ state'[o] # None => state'[o].held <= Length[o]
      <3> SUFFICES ASSUME NEW o \in Tracks
                   PROVE  /\ writer'[o].saved <= writer'[o].held /\ writer'[o].held <= Length[o]
                          /\ state'[o] # None => state'[o].held <= Length[o]
        OBVIOUS
      <3>1. CASE o = t BY <1>5, <1>6, <3>1, At1
      <3>2. CASE o # t BY <1>5, <1>6, <3>2, At1 DEF Same
      <3> QED BY <3>1, <3>2
    <2> QED BY <1>1, <1>5, <2>1, <2>2 DEF TracksInv, Typed
  <1>8. Opening(t)' /\ Stopped(t)' BY <1>1, <1>2, AtWork
  <1>9. Kept(t)' BY <1>1, <1>4, <1>6 DEF Kept
  <1>10. Named(t)' BY <1>1, <1>5, At1 DEF Named, Busy, S!Returned, S!Whole
  <1>11. Removing(t)' /\ Saving(t)' /\ Writing(t)' BY <1>1, <1>3, <1>5 DEF Removing, Saving, Writing, Busy, S!Returned
  <1> QED BY <1>1, <1>6, <1>7, <1>8, <1>9, <1>10, <1>11, OwnStep DEF TrackInv

(* A renamed .part is whole. *)
LEMMA RenamesWhole ==
  ASSUME Distinct, TracksInv, NEW t \in Tracks, writer[t].pc = "renaming"
  PROVE  Busy(t) /\ part[t] = S!Whole(Content[run.stream], t) /\ writer[t].held = Length[t]
  <1>1. Busy(t) BY DEF Busy, S!Returned
  <1>2. writer[t].held = Length[t] /\ Len(part[t]) = Length[t] BY <1>1, At1, WhileBusy DEF Writing
  <1>3. part[t] \in Seq(Item) /\ \A i \in 1 .. Length[t] : part[t][i] = <<Content[run.stream], i>> BY <1>1, <1>2, WhileBusy DEF S!Segment
  <1>4. part[t] = [i \in 1 .. Len(part[t]) |-> part[t][i]] BY <1>3, IsASeq
  <1>5. part[t] = [i \in 1 .. Length[t] |-> <<Content[run.stream], i>>] BY <1>2, <1>3, <1>4
  <1> QED BY <1>1, <1>2, <1>5 DEF S!Whole

LEMMA Renames == ASSUME Distinct, TracksInv, NEW t \in Tracks, S!Rename(t) PROVE TracksInv'
  <1>1. /\ writer[t].pc = "renaming" /\ final' = [final EXCEPT ![t] = part[t]] /\ part' = [part EXCEPT ![t] = None]
        /\ durable' = [durable EXCEPT ![t] = 0] /\ S!WriterTo(t, "removing")
        /\ UNCHANGED <<run, left, queue, closed, saver, state>>
    BY DEF S!Rename, S!At, S!feed
  <1>2. Busy(t) /\ part[t] = S!Whole(Content[run.stream], t) BY <1>1, RenamesWhole
  <1>3. writer[t] \in WriterSet /\ ~(saver[t].pc \in {"syncing", "replacing"}) BY <1>1, At1 DEF Saving
  <1>4. part[t] \in S!Contents /\ part[t] # None /\ run.stream \in Streams /\ run.pc # "off" BY <1>2, WhileBusy, StreamItems
  <1>5. /\ writer' \in [Tracks -> WriterSet] /\ writer'[t].pc = "removing" /\ writer'[t].held = writer[t].held /\ writer'[t].saved = writer[t].saved
        /\ \A o \in Tracks \ {t} : writer'[o] = writer[o]
    BY <1>1, <1>3 DEF TracksInv, Typed, S!WriterTo, WriterSet, WriterPCs
  <1>6. final'[t] = part[t] /\ part'[t] = None /\ \A o \in Tracks \ {t} : Same(o) BY <1>1, <1>5 DEF TracksInv, Typed, Same
  <1>7. Typed'
    <2>1. final' \in [Tracks -> S!Contents \cup {None}] /\ part' \in [Tracks -> S!Contents \cup {None}] /\ durable' \in [Tracks -> Nat]
      BY <1>1, <1>4 DEF TracksInv, Typed
    <2>2. \A o \in Tracks : writer'[o].saved <= writer'[o].held /\ writer'[o].held <= Length[o]
      <3> SUFFICES ASSUME NEW o \in Tracks PROVE writer'[o].saved <= writer'[o].held /\ writer'[o].held <= Length[o] OBVIOUS
      <3>1. CASE o = t BY <1>5, <3>1, At1
      <3>2. CASE o # t BY <1>5, <3>2, At1
      <3> QED BY <3>1, <3>2
    <2> QED BY <1>1, <1>5, <2>1, <2>2 DEF TracksInv, Typed
  <1>8. Opening(t)' /\ Stopped(t)' BY <1>1, <1>2, AtWork DEF Busy
  <1>9. Kept(t)' BY <1>4, <1>6 DEF Kept
  <1>10. Named(t)' BY <1>1, <1>2, <1>4, <1>5, <1>6 DEF Named, Busy, S!Whole
  <1>11. Removing(t)' /\ Saving(t)' /\ Writing(t)' BY <1>1, <1>3, <1>4, <1>5, <1>6 DEF Removing, Saving, Writing, Busy
  <1> QED BY <1>1, <1>6, <1>7, <1>8, <1>9, <1>10, <1>11, OwnStep DEF TrackInv

-----------------------------------------------------------------------------
(* A .part that grows by x. *)
LEMMA Grows ==
  ASSUME Distinct, TracksInv, NEW t \in Tracks, Busy(t), NEW x \in Item
  PROVE  /\ Append(part[t], x) \in S!Contents /\ Append(part[t], x) # None
         /\ Len(Append(part[t], x)) = Len(part[t]) + 1
         /\ \A i \in 1 .. Len(part[t]) : Append(part[t], x)[i] = part[t][i]
         /\ Append(part[t], x)[Len(part[t]) + 1] = x
  <1>1. part[t] \in Seq(Item) BY WhileBusy
  <1> QED BY <1>1, AppendProperties, StreamItems

LEMMA WritesJunk == ASSUME Distinct, TracksInv, NEW t \in Tracks, S!WriteFails(t) PROVE TracksInv'
  <1>1. /\ writer[t].pc = "writing" /\ part' = [part EXCEPT ![t] = Append(@, Junk)] /\ S!WriterTo(t, "failing")
        /\ UNCHANGED <<run, left, queue, closed, saver, durable, state, final>>
    BY DEF S!WriteFails, S!At, S!feed
  <1>2. Busy(t) BY <1>1 DEF Busy, S!Returned
  <1> DEFINE longer == Append(part[t], Junk)
  <1>3. /\ longer \in S!Contents /\ longer # None /\ Len(longer) = Len(part[t]) + 1 /\ Len(part[t]) \in Nat
        /\ \A i \in 1 .. Len(part[t]) : longer[i] = part[t][i]
    BY <1>2, Grows, WhileBusy, StreamItems
  <1>4. part' = [part EXCEPT ![t] = longer] BY <1>1
  <1> HIDE DEF longer
  <1>5. writer[t] \in WriterSet BY At1
  <1>6. /\ writer' \in [Tracks -> WriterSet] /\ writer'[t].pc = "failing" /\ writer'[t].held = writer[t].held /\ writer'[t].saved = writer[t].saved
        /\ \A o \in Tracks \ {t} : writer'[o] = writer[o]
    BY <1>1, <1>5 DEF TracksInv, Typed, S!WriterTo, WriterSet, WriterPCs
  <1>7. part'[t] = longer /\ \A o \in Tracks \ {t} : Same(o) BY <1>1, <1>4, <1>6 DEF TracksInv, Typed, Same
  <1>8. Typed'
    <2>1. part' \in [Tracks -> S!Contents \cup {None}] BY <1>3, <1>4 DEF TracksInv, Typed
    <2>2. \A o \in Tracks : writer'[o].saved <= writer'[o].held /\ writer'[o].held <= Length[o]
      <3> SUFFICES ASSUME NEW o \in Tracks PROVE writer'[o].saved <= writer'[o].held /\ writer'[o].held <= Length[o] OBVIOUS
      <3>1. CASE o = t BY <1>6, <3>1, At1
      <3>2. CASE o # t BY <1>6, <3>2, At1
      <3> QED BY <3>1, <3>2
    <2> QED BY <1>1, <1>6, <2>1, <2>2 DEF TracksInv, Typed
  <1>9. Opening(t)' /\ Stopped(t)' BY <1>1, <1>2, AtWork DEF Busy
  <1>10. Kept(t)'
    <2>1. /\ durable[t] <= Len(part[t]) /\ durable[t] \in Nat /\ state[t].held \in Nat /\ state[t].held <= durable[t]
          /\ \A i \in 1 .. state[t].held : part[t][i] = S!Segment(state[t].stream, i)
      BY <1>2, WhileBusy
    <2>2. durable[t] <= Len(longer) BY <1>3, <2>1
    <2>3. \A i \in 1 .. state[t].held : longer[i] = S!Segment(state[t].stream, i) BY <1>3, <2>1
    <2> QED BY <1>1, <1>3, <1>7, <2>1, <2>2, <2>3 DEF Kept, S!Segment
  <1>11. Named(t)' /\ Removing(t)' BY <1>1, <1>2, <1>6, WhileBusy DEF Named, Removing
  <1>12. Saving(t)' BY <1>1, <1>6, At1 DEF Saving
  <1>13. Writing(t)'
    <2>1. Writing(t) BY At1
    <2>2. Ours(t, writer[t].held)'
      <3>1. writer[t].held <= Len(part[t]) /\ writer[t].held \in Nat /\ \A i \in 1 .. writer[t].held : part[t][i] = S!Segment(run.stream, i)
        BY <1>2, At1, WhileBusy
      <3>2. writer[t].held <= Len(longer) /\ \A i \in 1 .. writer[t].held : longer[i] = S!Segment(run.stream, i) BY <1>3, <3>1
      <3> QED BY <1>1, <1>6, <1>7, <3>2 DEF Ours, S!Segment
    <2> QED BY <1>1, <1>2, <1>3, <1>6, <1>7, <2>1, <2>2 DEF Writing, NamesOurs, S!Segment
  <1> QED BY <1>1, <1>7, <1>8, <1>9, <1>10, <1>11, <1>12, <1>13, OwnStep DEF TrackInv

(* What a segment more leaves of the writer and the saver. *)
LEMMA WriteMoves ==
  ASSUME Distinct, TracksInv, NEW t \in Tracks, S!Write(t)
  PROVE  /\ writer' \in [Tracks -> WriterSet] /\ saver' \in [Tracks -> SaverSet]
         /\ \A o \in Tracks \ {t} : writer'[o] = writer[o] /\ saver'[o] = saver[o]
         /\ writer'[t].pc \in {"writing", "joining"} /\ writer'[t].held = writer[t].held + 1
         /\ writer'[t].saved \in {writer[t].saved, writer[t].held + 1}
         /\ saver'[t].pc \in {"syncing", "replacing"} =>
              /\ saver'[t].held = writer'[t].saved
              /\ saver'[t].pc = "replacing" => saver[t].pc = "replacing" /\ writer'[t].saved = writer[t].saved
  <1>1. writer[t] \in WriterSet /\ writer[t].pc = "writing" /\ writer[t].held \in Nat /\ saver[t] \in SaverSet BY At1 DEF S!Write, S!At
  <1>2. writer \in [Tracks -> WriterSet] /\ saver \in [Tracks -> SaverSet] BY DEF TracksInv, Typed
  <1>3. saver[t].pc \in {"syncing", "replacing"} => saver[t].held = writer[t].saved BY At1 DEF Saving
  <1> DEFINE held == writer[t].held + 1
  <1>4. held \in Nat BY <1>1
  <1>5. CASE writer' = [writer EXCEPT ![t].held = held] /\ UNCHANGED saver
    <2>1. [writer[t] EXCEPT !.held = held] \in WriterSet BY <1>1, <1>4 DEF WriterSet, WriterPCs
    <2>2. writer' = [writer EXCEPT ![t] = [writer[t] EXCEPT !.held = held]] BY <1>5
    <2>3. writer'[t].pc = "writing" /\ writer'[t].held = held /\ writer'[t].saved = writer[t].saved
      BY <1>1, <1>2, <2>2 DEF WriterSet, WriterPCs
    <2> QED BY <1>2, <1>3, <1>5, <2>1, <2>2, <2>3
  <1>6. CASE writer' = [writer EXCEPT ![t].held = held, ![t].saved = held] /\ saver' = [saver EXCEPT ![t] = [pc |-> "syncing", held |-> held]]
    <2>1. [writer[t] EXCEPT !.held = held, !.saved = held] \in WriterSet BY <1>1, <1>4 DEF WriterSet, WriterPCs
    <2>2. writer' = [writer EXCEPT ![t] = [writer[t] EXCEPT !.held = held, !.saved = held]] BY <1>2, <1>6
    <2>3. writer'[t].pc = "writing" /\ writer'[t].held = held /\ writer'[t].saved = held BY <1>1, <1>2, <2>2 DEF WriterSet, WriterPCs
    <2>4. [pc |-> "syncing", held |-> held] \in SaverSet BY <1>4 DEF SaverSet
    <2>5. saver' \in [Tracks -> SaverSet] /\ saver'[t].pc = "syncing" /\ saver'[t].held = held /\ \A o \in Tracks \ {t} : saver'[o] = saver[o]
      BY <1>2, <1>6, <2>4
    <2> QED BY <1>2, <2>1, <2>2, <2>3, <2>5
  <1>7. CASE saver[t].pc = "failed" /\ writer' = [writer EXCEPT ![t].held = held, ![t].pc = "joining"] /\ UNCHANGED saver
    <2>1. [writer[t] EXCEPT !.held = held, !.pc = "joining"] \in WriterSet BY <1>1, <1>4 DEF WriterSet, WriterPCs
    <2>2. writer' = [writer EXCEPT ![t] = [writer[t] EXCEPT !.held = held, !.pc = "joining"]] BY <1>2, <1>7
    <2>3. writer'[t].pc = "joining" /\ writer'[t].held = held /\ writer'[t].saved = writer[t].saved
      BY <1>1, <1>2, <2>2 DEF WriterSet, WriterPCs
    <2> QED BY <1>2, <1>7, <2>1, <2>2, <2>3
  <1> QED BY <1>5, <1>6, <1>7 DEF S!Write

LEMMA Writes == ASSUME Distinct, TracksInv, NEW t \in Tracks, S!Write(t) PROVE TracksInv'
  <1>1. /\ writer[t].pc = "writing" /\ writer[t].held < Length[t] /\ queue[t] # <<>>
        /\ queue' = [queue EXCEPT ![t] = Tail(@)] /\ part' = [part EXCEPT ![t] = Append(@, Head(queue[t]))]
        /\ UNCHANGED <<run, left, closed, durable, state, final>>
    BY DEF S!Write, S!At
  <1>2. Busy(t) BY <1>1 DEF Busy, S!Returned
  <1>3. /\ queue[t] \in Seq(Item) /\ Len(queue[t]) \in Nat \ {0} /\ Tail(queue[t]) \in Seq(Item) /\ Len(Tail(queue[t])) = Len(queue[t]) - 1
        /\ Head(queue[t]) = queue[t][1] /\ Head(queue[t]) \in Item
        /\ \A i \in 1 .. Len(queue[t]) - 1 : Tail(queue[t])[i] = queue[t][i + 1]
    BY <1>1, At1, HeadTailProperties, ElementOfSeq, EmptySeq, LenProperties
  <1> DEFINE next == Head(queue[t])
             rest == Tail(queue[t])
             longer == Append(part[t], next)
  <1>4. /\ longer \in S!Contents /\ longer # None /\ Len(longer) = Len(part[t]) + 1 /\ Len(part[t]) \in Nat
        /\ \A i \in 1 .. Len(part[t]) : longer[i] = part[t][i]
        /\ longer[Len(part[t]) + 1] = next
    BY <1>2, <1>3, Grows, WhileBusy
  <1>5. part' = [part EXCEPT ![t] = longer] /\ queue' = [queue EXCEPT ![t] = rest] BY <1>1
  <1>6. /\ writer[t].held \in Nat /\ Len(part[t]) = writer[t].held /\ \A i \in 1 .. writer[t].held : part[t][i] = S!Segment(run.stream, i)
    BY <1>1, <1>2, At1, WhileBusy
  <1>7. /\ writer[t].held + Len(queue[t]) = Length[t] - left[t]
        /\ \A i \in 1 .. Len(queue[t]) : queue[t][i] = S!Segment(run.stream, writer[t].held + i)
    BY <1>2, At1 DEF Writing
  <1>8. next = S!Segment(run.stream, writer[t].held + 1) BY <1>3, <1>7
  <1>9. writer[t].held + 1 + Len(rest) = Length[t] - left[t]
    <2>1. Len(rest) = Len(queue[t]) - 1 /\ Len(queue[t]) \in Nat /\ writer[t].held \in Nat /\ Length[t] \in Nat /\ left[t] \in Nat
      BY <1>3, At1
    <2>2. \A h, q, n, l \in Nat : h + q = n - l => h + 1 + (q - 1) = n - l OBVIOUS
    <2> QED BY <1>7, <2>1, <2>2
  <1>10. \A i \in 1 .. Len(rest) : rest[i] = S!Segment(run.stream, writer[t].held + 1 + i)
    <2> SUFFICES ASSUME NEW i \in 1 .. Len(rest) PROVE rest[i] = S!Segment(run.stream, writer[t].held + 1 + i) OBVIOUS
    <2>1. i \in 1 .. Len(queue[t]) - 1 /\ i + 1 \in 1 .. Len(queue[t]) BY <1>3
    <2>2. rest[i] = queue[t][i + 1] BY <1>3, <2>1
    <2>3. queue[t][i + 1] = S!Segment(run.stream, writer[t].held + (i + 1)) BY <1>7, <2>1
    <2>4. writer[t].held + (i + 1) = writer[t].held + 1 + i BY <1>6, <2>1
    <2> QED BY <2>2, <2>3, <2>4
  <1>11. Len(longer) = writer[t].held + 1 /\ \A i \in 1 .. writer[t].held + 1 : longer[i] = S!Segment(run.stream, i)
    <2> SUFFICES ASSUME NEW i \in 1 .. writer[t].held + 1 PROVE longer[i] = S!Segment(run.stream, i) BY <1>4, <1>6
    <2>1. CASE i = writer[t].held + 1 BY <1>4, <1>6, <1>8, <2>1
    <2>2. CASE i # writer[t].held + 1
      <3>1. i \in 1 .. writer[t].held BY <1>6, <2>2
      <3> QED BY <1>4, <1>6, <3>1
    <2> QED BY <2>1, <2>2
  <1>12. rest \in S!Contents /\ Len(rest) \in Nat /\ Len(rest) <= WriteQueue /\ WriteQueue \in Nat
    <2>1. rest \in Seq(Item) /\ Len(rest) = Len(queue[t]) - 1 /\ Len(queue[t]) \in Nat \ {0} BY <1>3
    <2>2. Len(queue[t]) <= WriteQueue /\ WriteQueue \in Nat BY At1 DEF Distinct
    <2>3. rest \in S!Contents BY <2>1, StreamItems
    <2> HIDE DEF rest
    <2> QED BY <2>1, <2>2, <2>3
  <1> HIDE DEF next, rest, longer
  <1>13. part'[t] = longer /\ queue'[t] = rest /\ \A o \in Tracks \ {t} : Same(o) BY <1>1, <1>5, WriteMoves DEF TracksInv, Typed, Same
  <1>14. Typed'
    <2>1. part' \in [Tracks -> S!Contents \cup {None}] /\ queue' \in [Tracks -> S!Contents] BY <1>4, <1>5, <1>12 DEF TracksInv, Typed
    <2>2. \A o \in Tracks : writer'[o].saved <= writer'[o].held /\ writer'[o].held <= Length[o] /\ Len(queue'[o]) <= WriteQueue
      <3> SUFFICES ASSUME NEW o \in Tracks PROVE writer'[o].saved <= writer'[o].held /\ writer'[o].held <= Length[o] /\ Len(queue'[o]) <= WriteQueue
        OBVIOUS
      <3>1. CASE o = t
        <4>1. writer[t].saved \in Nat /\ writer[t].held \in Nat /\ writer[t].saved <= writer[t].held /\ Length[t] \in Nat BY At1
        <4>2. writer'[t].held = writer[t].held + 1 /\ writer'[t].saved \in {writer[t].saved, writer[t].held + 1} BY WriteMoves
        <4> QED BY <1>1, <1>12, <1>13, <3>1, <4>1, <4>2
      <3>2. CASE o # t BY <1>13, <3>2, At1 DEF Same
      <3> QED BY <3>1, <3>2
    <2> QED BY <1>1, <2>1, <2>2, WriteMoves DEF TracksInv, Typed
  <1>15. Opening(t)' /\ Stopped(t)' BY <1>1, <1>2, AtWork DEF Busy
  <1>16. Kept(t)'
    <2>1. /\ durable[t] <= Len(part[t]) /\ durable[t] \in Nat /\ state[t].held \in Nat /\ state[t].held <= durable[t]
          /\ \A i \in 1 .. state[t].held : part[t][i] = S!Segment(state[t].stream, i)
      BY <1>2, WhileBusy
    <2>2. durable[t] <= Len(longer) BY <1>4, <2>1
    <2>3. \A i \in 1 .. state[t].held : longer[i] = S!Segment(state[t].stream, i) BY <1>4, <2>1
    <2> QED BY <1>1, <1>4, <1>13, <2>1, <2>2, <2>3 DEF Kept, S!Segment
  <1>17. Named(t)' /\ Removing(t)' BY <1>1, <1>2, WhileBusy, WriteMoves DEF Named, Removing
  <1>18. Saving(t)'
    <2>1. Saving(t) BY At1
    <2> QED BY <1>1, <2>1, WriteMoves DEF Saving
  <1>19. Writing(t)'
    <2>1. Writing(t) BY At1
    <2>2. writer'[t].held = writer[t].held + 1 /\ writer'[t].pc \in {"writing", "joining"} BY WriteMoves
    <2>3. Ours(t, writer[t].held)' BY <1>1, <1>6, <1>11, <1>13, <2>2 DEF Ours, S!Segment
    <2>4. state[t].held <= writer'[t].saved
      <3>1. state[t].held \in Nat /\ state[t].held <= writer[t].saved /\ writer[t].saved \in Nat /\ writer[t].saved <= writer[t].held
        BY <1>2, At1, WhileBusy
      <3> QED BY <1>6, <3>1, WriteMoves
    <2>5. writer'[t].held + Len(queue'[t]) = Length[t] - left[t] BY <1>9, <1>13, <2>2
    <2>6. \A i \in 1 .. Len(queue'[t]) : queue'[t][i] = S!Segment(run.stream, writer'[t].held + i) BY <1>10, <1>13, <2>2
    <2>7. Len(part'[t]) = writer'[t].held BY <1>11, <1>13, <2>2
    <2>8. run.pc # "off" /\ NamesOurs(t)' BY <1>1, <1>2, WhileBusy DEF NamesOurs
    <2> QED BY <1>1, <1>4, <1>13, <2>2, <2>3, <2>4, <2>5, <2>6, <2>7, <2>8 DEF Writing, S!Segment
  <1> QED BY <1>1, <1>13, <1>14, <1>15, <1>16, <1>17, <1>18, <1>19, OwnStep DEF TrackInv

-----------------------------------------------------------------------------
LEMMA ForemostOf == ASSUME Distinct, NEW set \in SUBSET Tracks, set # {} PROVE S!Foremost(set) \in set
  <1> DEFINE R == {ss \in Nat \X Nat : ss[1] < ss[2]}
  <1>1. IsWellFoundedOn(R, Nat)
    <2>1. R = OpToRel(<, Nat) BY Zenon DEF OpToRel
    <2> QED BY NatLessThanWellFounded, <2>1, Zenon
  <1>2. set \subseteq Nat BY DEF Distinct
  <1>3. PICK m \in set : \A k \in set : ~(<<k, m>> \in R) BY <1>1, <1>2, WFMin
  <1>4. \A k \in set : m <= k
    <2> SUFFICES ASSUME NEW k \in set PROVE m <= k OBVIOUS
    <2>1. m \in Nat /\ k \in Nat /\ ~(<<k, m>> \in R) BY <1>2, <1>3
    <2>2. ~(k < m) BY <2>1
    <2> QED BY <2>1, <2>2
  <1> QED BY <1>4 DEF S!Foremost

(* The run comes to an end, or to its next start. *)
LEMMA RunEnds == ASSUME Distinct, TracksInv, S!Stop \/ S!Joined \/ S!Dropped \/ S!RunAgain PROVE TracksInv'
  <1>1. PICK pc \in {"stopping", "ended", "off"} : run' = [run EXCEPT !.pc = pc] /\ (pc = "off" => \A t \in Tracks : S!Returned(t))
    BY DEF S!Stop, S!Joined, S!Dropped, S!RunAgain
  <1>2. UNCHANGED <<left, queue, writer, saver, S!files>> /\ closed' \in [Tracks -> BOOLEAN]
    <2>1. CASE S!Stop
      <3>1. \A t \in Tracks : (left[t] > 0) \in BOOLEAN OBVIOUS
      <3>2. [t \in Tracks |-> left[t] > 0] \in [Tracks -> BOOLEAN] BY <3>1, Zenon
      <3> QED BY <2>1, <3>2 DEF S!Stop
    <2>2. CASE S!Joined \/ S!Dropped BY <2>2 DEF S!Joined, S!Dropped
    <2>3. CASE S!RunAgain BY <2>3 DEF S!RunAgain, S!feed, TracksInv, Typed
    <2> QED BY <2>1, <2>2, <2>3
  <1>3. run \in RunSet BY DEF TracksInv, Typed
  <1>4. run' \in RunSet /\ run'.pc = pc /\ run'.stream = run.stream /\ run'.track = run.track BY <1>1, <1>3 DEF RunSet
  <1>5. run.pc # "off"
    BY DEF S!Stop, S!Joined, S!Dropped, S!RunAgain
  <1>6. Typed' BY <1>2, <1>4 DEF TracksInv, Typed, S!files
  <1>7. ASSUME NEW t \in Tracks PROVE TrackInv(t)'
    <2>1. Kept(t)' /\ Named(t)' /\ Saving(t)' BY <1>2, At1 DEF Kept, Named, Saving, Busy, S!Returned, S!Segment, S!Whole, S!files
    <2>2. Removing(t)' BY <1>1, <1>2, <1>4, At1 DEF Removing, S!Returned, S!files
    <2>3. Writing(t)' BY <1>1, <1>2, <1>4, At1 DEF Writing, Busy, S!Returned, Ours, NamesOurs, S!Segment, S!files
    <2>4. Opening(t)' BY <1>4 DEF Opening
    <2>5. Stopped(t)' BY <1>1, <1>2, <1>4 DEF Stopped, S!Returned
    <2> QED BY <2>1, <2>2, <2>3, <2>4, <2>5 DEF TrackInv
  <1> QED BY <1>6, <1>7 DEF TracksInv

LEMMA Prepares == ASSUME Distinct, TracksInv, S!Prepare PROVE TracksInv'
  <1>1. PICK s \in Streams : /\ \A t \in S!ToFetch : S!Usable(s, t)
                             /\ run' = [pc |-> "opening", track |-> S!Foremost(S!ToFetch), stream |-> s]
    BY DEF S!Prepare
  <1>2. /\ run.pc = "off" /\ left' = [t \in Tracks |-> IF t \in S!ToFetch THEN Length[t] - S!ResumeFrom(t) ELSE 0]
        /\ UNCHANGED <<queue, closed, writer, saver, S!files>>
    BY DEF S!Prepare
  <1>3. S!Foremost(S!ToFetch) \in S!ToFetch /\ S!ToFetch \subseteq Tracks BY ForemostOf DEF S!Prepare, S!ToFetch
  <1>4. run' \in RunSet /\ run'.pc = "opening" /\ run'.track \in S!ToFetch /\ run'.stream = s BY <1>1, <1>3 DEF RunSet
  <1>5. ASSUME NEW t \in Tracks PROVE S!ResumeFrom(t) \in 0 .. Length[t] /\ Length[t] \in Nat
    BY At1 DEF S!ResumeFrom, S!Resumable
  <1>6. \A t \in Tracks : left'[t] \in Nat /\ left'[t] <= Length[t] BY <1>2, <1>5
  <1>7. Typed'
    <2>1. left' \in [Tracks -> Nat] BY <1>2, <1>6
    <2> QED BY <1>2, <1>4, <1>6, <2>1 DEF TracksInv, Typed, S!files
  <1>8. ASSUME NEW t \in Tracks PROVE TrackInv(t)'
    <2>1. S!Returned(t) /\ S!Returned(t)' BY <1>2, At1 DEF Stopped, S!Returned
    <2>2. Kept(t)' /\ Named(t)' /\ Saving(t)' BY <1>2, At1 DEF Kept, Named, Saving, Busy, S!Returned, S!Segment, S!Whole, S!files
    <2>3. Removing(t)' /\ Writing(t)' /\ Stopped(t)' BY <1>4, <2>1 DEF Removing, Writing, Stopped, Busy, S!Returned
    <2>4. Opening(t)'
      <3>1. final[t] = None => t \in S!ToFetch BY DEF S!ToFetch
      <3>2. final[t] = None => S!Usable(s, t) /\ left'[t] = Length[t] - S!ResumeFrom(t) BY <1>1, <1>2, <3>1
      <3>3. final[t] = None => S!Usable(run.stream, t)' /\ left'[t] = Length[t] - S!ResumeFrom(t)'
        BY <1>2, <1>4, <3>2 DEF S!Usable, S!Resumable, S!Matches, S!ResumeFrom, S!Segment, S!files
      <3>4. run'.track = t => final[t] = None BY <1>4 DEF S!ToFetch
      <3> QED BY <1>2, <1>4, <2>1, <3>3, <3>4 DEF Opening, S!files
    <2> QED BY <2>2, <2>3, <2>4 DEF TrackInv
  <1> QED BY <1>7, <1>8 DEF TracksInv

(* A track the run does not open now. *)
LEMMA OtherTrack ==
  ASSUME Distinct, TracksInv, NEW t \in Tracks, Same(t), run' \in RunSet, run'.stream = run.stream, run.pc # "off", run'.pc # "off",
         \/ ~(run'.pc \in {"opening", "naming", "starting"})
         \/ /\ run.pc \in {"opening", "naming", "starting"} /\ run'.pc \in {"opening", "naming", "starting"}
            /\ run'.track <= t => run.track < t
            /\ run'.track = t => final[t] = None /\ run'.pc = "opening"
  PROVE  TrackInv(t)'
  <1>1. Kept(t)' /\ Named(t)' /\ Saving(t)' BY At1 DEF Same, Kept, Named, Saving, Busy, S!Returned, S!Segment, S!Whole
  <1>2. Removing(t)' /\ Stopped(t)' BY At1 DEF Same, Removing, Stopped
  <1>3. Writing(t)' BY At1 DEF Same, Writing, Busy, S!Returned, Ours, NamesOurs, S!Segment
  <1>4. Opening(t)'
    <2>1. CASE ~(run'.pc \in {"opening", "naming", "starting"} /\ run'.track <= t) BY <2>1 DEF Opening
    <2>2. CASE run'.pc \in {"opening", "naming", "starting"} /\ run'.track <= t
      <3>1. run.track < t /\ run.pc \in {"opening", "naming", "starting"} /\ run.track <= t
        <4>1. run.track < t /\ run.pc \in {"opening", "naming", "starting"} BY <2>2
        <4>2. run.track \in Nat /\ t \in Nat BY At1 DEF Distinct, RunSet
        <4> QED BY <4>1, <4>2
      <3>2. S!Returned(t) /\ (final[t] = None => S!Usable(run.stream, t) /\ left[t] = Length[t] - S!ResumeFrom(t)) BY <3>1, At1 DEF Opening
      <3>3. S!Returned(t)' /\ (final[t] = None => S!Usable(run.stream, t)' /\ left'[t] = Length[t] - S!ResumeFrom(t)')
        BY <3>2 DEF Same, S!Returned, S!Usable, S!Resumable, S!Matches, S!ResumeFrom, S!Segment
      <3> QED BY <2>2, <3>3 DEF Opening, Same
    <2> QED BY <2>1, <2>2
  <1> QED BY <1>1, <1>2, <1>3, <1>4 DEF TrackInv

-----------------------------------------------------------------------------
(* What a run finds of the track it opens: only segments that are its own, which is all the state holds. *)
LEMMA FoundParts ==
  ASSUME Distinct, TracksInv, NEW t \in Tracks, run.pc = "opening", run.track = t
  PROVE  /\ S!Returned(t) /\ final[t] = None /\ Length[t] - left[t] = S!ResumeFrom(t) /\ S!ResumeFrom(t) \in Nat /\ S!ResumeFrom(t) <= Length[t]
         /\ part[t] = None => S!ResumeFrom(t) = 0 /\ state[t] = None
         /\ part[t] # None => /\ S!ResumeFrom(t) <= Len(part[t])
                              /\ IF state[t] = None THEN S!ResumeFrom(t) = 0 ELSE S!ResumeFrom(t) = state[t].held /\ S!ResumeFrom(t) <= durable[t]
         /\ S!ResumeFrom(t) > 0 => part[t] # None /\ NamesOurs(t)
         /\ \A i \in 1 .. S!ResumeFrom(t) : part[t][i] = S!Segment(run.stream, i)
  <1>1. run.track \in Nat /\ run.track <= t BY At1 DEF RunSet, Distinct
  <1>2. S!Returned(t) /\ final[t] = None /\ S!Usable(run.stream, t) /\ left[t] = Length[t] - S!ResumeFrom(t) BY <1>1, At1 DEF Opening
  <1>3. S!ResumeFrom(t) \in Nat /\ S!ResumeFrom(t) <= Length[t] /\ Length[t] - left[t] = S!ResumeFrom(t)
    <2>1. S!ResumeFrom(t) \in Nat /\ S!ResumeFrom(t) <= Length[t] /\ Length[t] \in Nat BY At1 DEF S!ResumeFrom, S!Resumable
    <2>2. \A n, r \in Nat : n - (n - r) = r OBVIOUS
    <2> QED BY <1>2, <2>1, <2>2
  <1>4. part[t] = None => S!ResumeFrom(t) = 0 /\ state[t] = None BY <1>2, At1 DEF Kept, S!ResumeFrom, S!Resumable
  <1>5. ASSUME part[t] # None, state[t] # None PROVE S!ResumeFrom(t) = state[t].held /\ state[t].held <= durable[t] /\ state[t].held <= Len(part[t])
    <2>1. /\ state[t].held \in Nat /\ state[t].held <= durable[t] /\ durable[t] \in Nat /\ durable[t] <= Len(part[t]) /\ Len(part[t]) \in Nat
          /\ state[t].held <= Length[t] /\ Length[t] \in Nat
      BY <1>5, At1 DEF Kept
    <2>2. state[t].held <= Len(part[t]) BY <2>1
    <2>3. state[t].held # 0 => S!Resumable(t) BY <1>5, <2>1, <2>2 DEF S!Resumable
    <2>4. state[t].held = 0 => ~S!Resumable(t) BY DEF S!Resumable
    <2> QED BY <2>1, <2>2, <2>3, <2>4 DEF S!ResumeFrom
  <1>6. state[t] = None => S!ResumeFrom(t) = 0 BY DEF S!ResumeFrom, S!Resumable
  <1>7. ASSUME S!ResumeFrom(t) > 0
        PROVE  part[t] # None /\ NamesOurs(t) /\ \A i \in 1 .. S!ResumeFrom(t) : part[t][i] = S!Segment(run.stream, i)
    <2>1. part[t] # None /\ state[t] # None /\ S!ResumeFrom(t) = state[t].held /\ S!Resumable(t) BY <1>7, <1>3 DEF S!ResumeFrom, S!Resumable
    <2>2. \A i \in 1 .. state[t].held : part[t][i] = S!Segment(state[t].stream, i) BY <2>1, At1 DEF Kept
    <2>3. Content[state[t].stream] = Content[run.stream]
      <3>1. CASE state[t].stream = run.stream BY <3>1
      <3>2. CASE S!Matches(run.stream, t)
        <4>1. part[t][1] = S!Segment(run.stream, 1) BY <3>2 DEF S!Matches
        <4>2. part[t][1] = S!Segment(state[t].stream, 1) BY <1>3, <1>7, <2>1, <2>2
        <4> QED BY <4>1, <4>2 DEF S!Segment
      <3> QED BY <1>2, <2>1, <3>1, <3>2 DEF S!Usable
    <2> QED BY <2>1, <2>2, <2>3 DEF NamesOurs, S!Segment
  <1>8. \A i \in 1 .. S!ResumeFrom(t) : part[t][i] = S!Segment(run.stream, i) BY <1>3, <1>7
  <1>9. part[t] # None => S!ResumeFrom(t) <= Len(part[t]) BY <1>3, <1>5, <1>6, At1
  <1> QED BY <1>2, <1>3, <1>4, <1>5, <1>6, <1>7, <1>8, <1>9

LEMMA OpensPart == ASSUME Distinct, TracksInv, S!OpenPart PROVE TracksInv'
  <1>a. PICK t \in Tracks : t = run.track BY DEF TracksInv, Typed, RunSet
  <1>1. t \in Tracks /\ run.pc = "opening" /\ run \in RunSet BY DEF S!OpenPart, TracksInv, Typed
  <1>b. PICK n \in Nat : n = S!ResumeFrom(t) BY <1>a, <1>1, FoundParts
  <1> DEFINE cut == IF part[t] = None THEN <<>> ELSE SubSeq(part[t], 1, n)
             pc == IF n = 0 THEN "naming" ELSE "starting"
  <1>2. /\ S!Returned(t) /\ final[t] = None /\ Length[t] - left[t] = n /\ n \in Nat /\ n <= Length[t]
        /\ part[t] = None => n = 0 /\ state[t] = None
        /\ part[t] # None => /\ n <= Len(part[t])
                             /\ IF state[t] = None THEN n = 0 ELSE n = state[t].held /\ n <= durable[t]
        /\ n > 0 => part[t] # None /\ NamesOurs(t)
        /\ \A i \in 1 .. n : part[t][i] = S!Segment(run.stream, i)
    BY <1>a, <1>1, <1>b, FoundParts
  <1>3. /\ part' = [part EXCEPT ![t] = cut] /\ durable' = [durable EXCEPT ![t] = IF @ < n THEN @ ELSE n]
        /\ run' = [run EXCEPT !.pc = pc] /\ UNCHANGED <<left, queue, closed, writer, saver, state, final>>
    BY <1>a, <1>2 DEF S!OpenPart, S!feed
  <1>4. cut \in S!Contents /\ cut # None /\ Len(cut) = n /\ \A i \in 1 .. n : cut[i] = part[t][i]
    <2>1. CASE part[t] = None
      <3>1. cut = <<>> /\ n = 0 BY <1>2, <2>1
      <3>2. Len(<<>>) = 0 /\ <<>> \in S!Contents /\ <<>> # None BY StreamItems
      <3> HIDE DEF cut
      <3> QED BY <3>1, <3>2
    <2>2. CASE part[t] # None
      <3>1. part[t] \in Seq(Item) /\ n <= Len(part[t]) /\ n \in Nat BY <1>1, <1>2, <2>2, At1
      <3>2. n <= Len(part[t]) + 1 /\ Len(part[t]) \in Nat /\ 1 \in 1 .. Len(part[t]) + 1 /\ n \in 0 .. Len(part[t]) BY <3>1, LenProperties
      <3>3. SubSeq(part[t], 1, n) \in Seq(Item) /\ Len(SubSeq(part[t], 1, n)) = n /\ \A i \in 1 .. n : SubSeq(part[t], 1, n)[i] = part[t][i]
        BY <3>1, <3>2
      <3> QED BY <2>2, <3>3, StreamItems
    <2> QED BY <2>1, <2>2
  <1>5. durable'[t] \in Nat /\ durable'[t] <= n /\ (state[t] # None => durable'[t] = n)
    <2>1. durable \in [Tracks -> Nat] /\ durable[t] \in Nat BY <1>1 DEF TracksInv, Typed
    <2>2. durable'[t] = IF durable[t] < n THEN durable[t] ELSE n BY <1>1, <1>3, <2>1
    <2>3. state[t] # None => n <= durable[t] BY <1>2
    <2> QED BY <1>2, <2>1, <2>2, <2>3
  <1>6. /\ part'[t] = cut /\ (\A o \in Tracks \ {t} : Same(o)) /\ durable' \in [Tracks -> Nat]
    <2>1. durable' \in [Tracks -> Nat]
      <3>1. (IF durable[t] < n THEN durable[t] ELSE n) \in Nat BY <1>1, <1>2 DEF TracksInv, Typed
      <3> QED BY <1>3, <3>1 DEF TracksInv, Typed
    <2> HIDE DEF cut
    <2> QED BY <1>1, <1>3, <2>1 DEF TracksInv, Typed, Same
  <1> HIDE DEF cut
  <1>7. run' \in RunSet /\ run'.pc = pc /\ run'.track = t /\ run'.stream = run.stream /\ pc \in {"naming", "starting"}
    BY <1>a, <1>1, <1>3 DEF RunSet
  <1>8. Typed'
    <2>1. part' \in [Tracks -> S!Contents \cup {None}] BY <1>3, <1>4 DEF TracksInv, Typed
    <2> QED BY <1>3, <1>6, <1>7, <2>1 DEF TracksInv, Typed
  <1>9. TrackInv(t)'
    <2>1. S!Returned(t)' /\ ~Busy(t)' /\ writer'[t].pc # "removing" BY <1>2, <1>3 DEF S!Returned, Busy
    <2>2. Kept(t)'
      <3>1. part'[t] # None /\ durable'[t] <= Len(part'[t]) BY <1>4, <1>5, <1>6
      <3>2. state[t] # None => part[t] # None /\ state[t].held = n BY <1>2
      <3>3. state[t] # None => state[t].held <= durable'[t] BY <1>2, <1>5, <3>2
      <3>4. ASSUME state[t] # None, NEW i \in 1 .. state[t].held PROVE part'[t][i] = S!Segment(state[t].stream, i)
        <4>1. part[t][i] = S!Segment(state[t].stream, i) BY <1>1, <3>2, <3>4, At1 DEF Kept
        <4> QED BY <1>4, <1>6, <3>2, <3>4, <4>1
      <3> QED BY <1>3, <3>1, <3>3, <3>4 DEF Kept, S!Segment
    <2>3. Named(t)' /\ Removing(t)' /\ Writing(t)' /\ Stopped(t)' BY <1>2, <1>3, <2>1 DEF Named, Removing, Writing, Stopped
    <2>4. Saving(t)' BY <1>1, <1>2, <1>3, At1 DEF Saving, S!Returned
    <2>5. Opening(t)'
      <3>1. n = 0 => left'[t] = Length[t]
        <4>1. left[t] \in Nat /\ Length[t] \in Nat BY <1>1, At1
        <4> QED BY <1>2, <1>3, <4>1
      <3>2. Ours(t, Length[t] - left[t])'
        <4>1. \A i \in 1 .. n : part'[t][i] = S!Segment(run.stream, i) BY <1>2, <1>4, <1>6
        <4>2. Length[t] - left'[t] = n /\ n <= Len(part'[t]) BY <1>2, <1>3, <1>4, <1>6
        <4> QED BY <1>7, <4>1, <4>2 DEF Ours, S!Segment
      <3>3. pc = "starting" => NamesOurs(t)' /\ state'[t].held = Length[t] - left'[t]
        <4>1. pc = "starting" => n > 0 BY <1>2
        <4>2. pc = "starting" => NamesOurs(t) /\ state[t].held = n BY <1>2, <4>1 DEF NamesOurs
        <4> QED BY <1>2, <1>3, <1>7, <4>2 DEF NamesOurs
      <3>4. part'[t] # None /\ Len(part'[t]) = Length[t] - left'[t] BY <1>2, <1>3, <1>4, <1>6
      <3>5. ~(t < t) BY <1>1, At1 DEF Distinct
      <3> QED BY <1>2, <1>3, <1>7, <2>1, <3>1, <3>2, <3>3, <3>4, <3>5 DEF Opening
    <2> QED BY <2>2, <2>3, <2>4, <2>5 DEF TrackInv
  <1>10. ASSUME NEW o \in Tracks PROVE TrackInv(o)'
    <2>1. CASE o = t BY <1>9, <2>1
    <2>2. CASE o # t
      <3>1. t \in Nat /\ o \in Nat BY <1>1 DEF Distinct
      <3>2. run'.track <= o => run.track < o BY <1>a, <1>7, <2>2, <3>1
      <3> QED BY <1>1, <1>6, <1>7, <2>2, <3>2, OtherTrack
    <2> QED BY <2>1, <2>2
  <1> QED BY <1>8, <1>10 DEF TracksInv

LEMMA NamesStream == ASSUME Distinct, TracksInv, S!NameStream PROVE TracksInv'
  <1>a. PICK t \in Tracks : t = run.track BY DEF TracksInv, Typed, RunSet
  <1> DEFINE new == [stream |-> run.stream, held |-> 0]
  <1>1. t \in Tracks /\ run.pc = "naming" /\ run \in RunSet /\ run.stream \in Streams BY DEF S!NameStream, TracksInv, Typed, RunSet
  <1>2. t \in Nat /\ t <= t BY <1>1 DEF Distinct
  <1>3. /\ S!Returned(t) /\ final[t] = None /\ left[t] = Length[t]
        /\ part[t] # None /\ Len(part[t]) = Length[t] - left[t] /\ Ours(t, Length[t] - left[t])
    BY <1>a, <1>1, <1>2, At1 DEF Opening
  <1>4. state' = [state EXCEPT ![t] = new] /\ run' = [run EXCEPT !.pc = "starting"]
        /\ UNCHANGED <<left, queue, closed, writer, saver, part, durable, final>>
    BY <1>a DEF S!NameStream, S!feed
  <1>5. Length[t] - left[t] = 0 /\ Length[t] \in Nat /\ durable[t] \in Nat
    <2>1. Length[t] \in Nat /\ durable[t] \in Nat BY <1>1, At1
    <2> QED BY <1>3, <2>1
  <1>6. new \in StateSet /\ new # None /\ new.stream = run.stream /\ new.held = 0
    <2>1. new \in StateSet BY <1>1 DEF StateSet
    <2> QED BY <2>1 DEF Distinct
  <1> HIDE DEF new
  <1>7. state' \in [Tracks -> StateSet \cup {None}] /\ state'[t] = new /\ \A o \in Tracks \ {t} : Same(o)
    BY <1>1, <1>4, <1>6 DEF TracksInv, Typed, Same
  <1>8. run' \in RunSet /\ run'.pc = "starting" /\ run'.track = t /\ run'.stream = run.stream BY <1>a, <1>1, <1>4 DEF RunSet
  <1>9. Typed'
    <2>1. \A o \in Tracks : state'[o] # None => state'[o].held <= Length[o]
      <3> SUFFICES ASSUME NEW o \in Tracks, state'[o] # None PROVE state'[o].held <= Length[o] OBVIOUS
      <3>1. CASE o = t BY <1>5, <1>6, <1>7, <3>1
      <3>2. CASE o # t BY <1>7, <3>2, At1 DEF Same
      <3> QED BY <3>1, <3>2
    <2> QED BY <1>4, <1>7, <1>8, <2>1 DEF TracksInv, Typed
  <1>10. TrackInv(t)'
    <2>1. S!Returned(t)' /\ ~Busy(t)' /\ writer'[t].pc # "removing" BY <1>3, <1>4 DEF S!Returned, Busy
    <2>2. Kept(t)'
      <3>1. part[t] # None => durable[t] <= Len(part[t]) BY <1>1, At1 DEF Kept
      <3> QED BY <1>3, <1>4, <1>5, <1>6, <1>7, <3>1 DEF Kept, S!Segment
    <2>3. Named(t)' /\ Removing(t)' /\ Writing(t)' /\ Stopped(t)' BY <1>3, <1>4, <2>1 DEF Named, Removing, Writing, Stopped
    <2>4. Saving(t)' BY <1>1, <1>3, <1>4, At1 DEF Saving, S!Returned
    <2>5. Opening(t)'
      <3>1. NamesOurs(t)' /\ state'[t].held = Length[t] - left'[t] BY <1>4, <1>5, <1>6, <1>7, <1>8 DEF NamesOurs
      <3>2. Ours(t, Length[t] - left[t])' BY <1>3, <1>4, <1>8 DEF Ours, S!Segment
      <3>3. ~(t < t) BY <1>2
      <3> QED BY <1>3, <1>4, <1>8, <2>1, <3>1, <3>2, <3>3 DEF Opening
    <2> QED BY <2>2, <2>3, <2>4, <2>5 DEF TrackInv
  <1>11. ASSUME NEW o \in Tracks PROVE TrackInv(o)'
    <2>1. CASE o = t BY <1>10, <2>1
    <2>2. CASE o # t
      <3>1. t \in Nat /\ o \in Nat BY <1>1 DEF Distinct
      <3>2. run'.track <= o => run.track < o BY <1>a, <1>8, <2>2, <3>1
      <3> QED BY <1>1, <1>7, <1>8, <2>2, <3>2, OtherTrack
    <2> QED BY <2>1, <2>2
  <1> QED BY <1>9, <1>11 DEF TracksInv

LEMMA StartsWriter == ASSUME Distinct, TracksInv, S!StartWriter PROVE TracksInv'
  <1>a. PICK t \in Tracks : t = run.track BY DEF TracksInv, Typed, RunSet
  <1>b. PICK n : n = Length[t] - left[t] OBVIOUS
  <1> DEFINE new == [pc |-> "hashing", held |-> n, saved |-> n, hashed |-> FALSE]
             others == {o \in S!ToFetch : t < o}
  <1>1. t \in Tracks /\ run.pc = "starting" /\ run \in RunSet /\ run.stream \in Streams BY DEF S!StartWriter, TracksInv, Typed, RunSet
  <1>2. t \in Nat /\ t <= t BY <1>1 DEF Distinct
  <1>3. /\ S!Returned(t) /\ final[t] = None
        /\ part[t] # None /\ Len(part[t]) = n /\ Ours(t, n) /\ NamesOurs(t) /\ state[t].held = n
    BY <1>a, <1>b, <1>1, <1>2, At1 DEF Opening
  <1>4. n \in Nat /\ n <= Length[t]
    <2>1. left[t] \in Nat /\ Length[t] \in Nat /\ left[t] <= Length[t] BY <1>1, At1
    <2> QED BY <1>b, <2>1
  <1>5. /\ writer' = [writer EXCEPT ![t] = new] /\ saver' = [saver EXCEPT ![t] = [pc |-> "idle", held |-> 0]]
        /\ queue' = [queue EXCEPT ![t] = <<>>] /\ closed' = [closed EXCEPT ![t] = FALSE]
        /\ run' = IF others = {} THEN [run EXCEPT !.pc = "running"] ELSE [run EXCEPT !.pc = "opening", !.track = S!Foremost(others)]
        /\ UNCHANGED <<left, S!files>>
    BY <1>a, <1>b DEF S!StartWriter
  <1>6. new \in WriterSet /\ [pc |-> "idle", held |-> 0] \in SaverSet /\ new.pc = "hashing" /\ new.held = n /\ new.saved = n
    BY <1>4 DEF WriterSet, WriterPCs, SaverSet
  <1>7. /\ run' \in RunSet /\ run'.stream = run.stream /\ run'.pc \in {"running", "opening"}
        /\ run'.pc = "opening" => run'.track \in Tracks /\ t < run'.track /\ final[run'.track] = None
    <2>1. CASE others = {}
      <3>1. run' = [run EXCEPT !.pc = "running"] BY <1>5, <2>1
      <3> QED BY <1>1, <3>1 DEF RunSet
    <2>2. CASE others # {}
      <3>1. S!Foremost(others) \in others BY <2>2, ForemostOf DEF S!ToFetch
      <3>2. S!Foremost(others) \in Tracks /\ t < S!Foremost(others) /\ final[S!Foremost(others)] = None BY <3>1 DEF S!ToFetch
      <3>3. run' = [run EXCEPT !.pc = "opening", !.track = S!Foremost(others)] BY <1>5, <2>2
      <3> QED BY <1>1, <3>2, <3>3 DEF RunSet
    <2> QED BY <2>1, <2>2
  <1> HIDE DEF new, others
  <1>8. /\ writer' \in [Tracks -> WriterSet] /\ saver' \in [Tracks -> SaverSet] /\ queue' \in [Tracks -> S!Contents] /\ closed' \in [Tracks -> BOOLEAN]
        /\ writer'[t] = new /\ saver'[t].pc = "idle" /\ queue'[t] = <<>> /\ \A o \in Tracks \ {t} : Same(o)
    BY <1>1, <1>5, <1>6, StreamItems DEF TracksInv, Typed, Same, S!files
  <1>9. Typed'
    <2>1. \A o \in Tracks : writer'[o].saved <= writer'[o].held /\ writer'[o].held <= Length[o] /\ Len(queue'[o]) <= WriteQueue
      <3> SUFFICES ASSUME NEW o \in Tracks PROVE writer'[o].saved <= writer'[o].held /\ writer'[o].held <= Length[o] /\ Len(queue'[o]) <= WriteQueue
        OBVIOUS
      <3>1. CASE o = t
        <4>1. writer'[o].saved <= writer'[o].held /\ writer'[o].held <= Length[o] BY <1>4, <1>6, <1>8, <3>1
        <4>2. Len(queue'[o]) = 0 /\ WriteQueue \in Nat BY <1>8, <3>1 DEF Distinct
        <4> QED BY <4>1, <4>2
      <3>2. CASE o # t BY <1>8, <3>2, At1 DEF Same
      <3> QED BY <3>1, <3>2
    <2> QED BY <1>5, <1>7, <1>8, <2>1 DEF TracksInv, Typed, S!files
  <1>10. TrackInv(t)'
    <2>1. writer'[t].pc = "hashing" /\ Busy(t)' BY <1>6, <1>8 DEF S!Returned, Busy
    <2>2. Kept(t)' BY <1>1, <1>5, At1 DEF Kept, S!Segment, S!files
    <2>3. Named(t)' /\ Removing(t)' /\ Stopped(t)' BY <1>3, <1>5, <1>7, <2>1 DEF Named, Removing, Stopped, S!files
    <2>4. Saving(t)' BY <1>8 DEF Saving
    <2>5. Opening(t)'
      <3>1. ~(run'.pc \in {"opening", "naming", "starting"} /\ run'.track <= t)
        <4>1. run'.pc = "opening" => run'.track \in Nat /\ t < run'.track BY <1>7 DEF Distinct
        <4> QED BY <1>2, <1>7, <4>1
      <3> QED BY <3>1 DEF Opening
    <2>6. Writing(t)'
      <3>1. NamesOurs(t)' /\ Ours(t, n)' BY <1>3, <1>5, <1>7 DEF NamesOurs, Ours, S!Segment, S!files
      <3>2. Ours(t, writer[t].held)' BY <1>3, <1>5, <1>6, <1>7, <1>8 DEF Ours, S!Segment, S!files
      <3>3. state'[t].held <= writer'[t].saved BY <1>3, <1>4, <1>5, <1>6, <1>8 DEF S!files
      <3>4. Len(part'[t]) = writer'[t].held BY <1>3, <1>5, <1>6, <1>8 DEF S!files
      <3>5. writer'[t].held + Len(queue'[t]) = Length[t] - left'[t]
        <4>1. writer'[t].held = n /\ Len(queue'[t]) = 0 BY <1>6, <1>8
        <4>2. n + 0 = n BY <1>4
        <4> QED BY <1>b, <1>5, <4>1, <4>2
      <3>6. \A i \in 1 .. Len(queue'[t]) : queue'[t][i] = S!Segment(run'.stream, writer'[t].held + i)
        <4>1. Len(queue'[t]) = 0 BY <1>8
        <4> QED BY <4>1
      <3> QED BY <1>3, <1>5, <1>7, <2>1, <3>1, <3>2, <3>3, <3>4, <3>5, <3>6 DEF Writing, S!Segment, S!files
    <2> QED BY <2>2, <2>3, <2>4, <2>5, <2>6 DEF TrackInv
  <1>11. ASSUME NEW o \in Tracks PROVE TrackInv(o)'
    <2>1. CASE o = t BY <1>10, <2>1
    <2>2. CASE o # t
      <3>1. CASE run'.pc = "running" BY <1>1, <1>7, <1>8, <2>2, <3>1, OtherTrack
      <3>2. CASE run'.pc = "opening"
        <4>1. t \in Nat /\ o \in Nat /\ run'.track \in Nat /\ t < run'.track BY <1>1, <1>7, <3>2 DEF Distinct
        <4>2. run'.track <= o => run.track < o BY <1>a, <4>1
        <4>3. run'.track = o => final[o] = None BY <1>7, <3>2
        <4> QED BY <1>1, <1>7, <1>8, <2>2, <3>2, <4>2, <4>3, OtherTrack
      <3> QED BY <1>7, <3>1, <3>2
    <2> QED BY <2>1, <2>2
  <1> QED BY <1>9, <1>11 DEF TracksInv

-----------------------------------------------------------------------------
(* What a start afresh does: everything but the files is gone. *)
LEMMA Begins ==
  ASSUME Distinct, TracksInv, S!Afresh, part' \in [Tracks -> S!Contents \cup {None}], durable' \in [Tracks -> Nat],
         \A t \in Tracks : Kept(t)' /\ (part[t] = None => part'[t] = None)
  PROVE  TracksInv'
  <1>1. /\ run' = [run EXCEPT !.pc = "off"] /\ queue' = [t \in Tracks |-> <<>>] /\ closed' = [t \in Tracks |-> TRUE]
        /\ writer' = [t \in Tracks |-> S!NoWriter] /\ saver' = [t \in Tracks |-> S!NoSaver] /\ UNCHANGED <<left, state, final>>
    BY DEF S!Afresh
  <1>2. run' \in RunSet /\ run'.pc = "off"
    <2>1. run \in RunSet BY DEF TracksInv, Typed
    <2> QED BY <1>1, <2>1 DEF RunSet
  <1>3. Typed'
    <2>1. S!NoWriter \in WriterSet /\ S!NoSaver \in SaverSet BY DEF S!NoWriter, S!NoSaver, WriterSet, WriterPCs, SaverSet
    <2>2. \A t \in Tracks : /\ left'[t] <= Length[t] /\ Len(queue'[t]) <= WriteQueue
                            /\ writer'[t].saved <= writer'[t].held /\ writer'[t].held <= Length[t]
                            /\ state'[t] # None => state'[t].held <= Length[t]
      BY <1>1, At1 DEF Distinct, S!NoWriter
    <2>3. queue' \in [Tracks -> S!Contents] /\ writer' \in [Tracks -> WriterSet] /\ saver' \in [Tracks -> SaverSet] /\ closed' \in [Tracks -> BOOLEAN]
      BY <1>1, <2>1, StreamItems
    <2> QED BY <1>1, <1>2, <2>2, <2>3 DEF TracksInv, Typed
  <1>4. ASSUME NEW t \in Tracks PROVE TrackInv(t)'
    <2>1. writer'[t].pc = "off" /\ saver'[t].pc = "off" BY <1>1 DEF S!NoWriter, S!NoSaver
    <2>2. Named(t)'
      <3>1. Named(t) BY At1
      <3> QED BY <1>1, <2>1, <3>1 DEF Named, Busy, S!Returned, S!Whole
    <2> QED BY <1>2, <2>1, <2>2 DEF TrackInv, Saving, Writing, Removing, Opening, Stopped, Busy, S!Returned
  <1> QED BY <1>3, <1>4 DEF TracksInv

LEMMA ProcessLeaves == ASSUME Distinct, TracksInv, S!ProcessDies PROVE TracksInv'
  <1>1. S!Afresh /\ part' = part /\ durable' = durable /\ state' = state /\ final' = final BY DEF S!ProcessDies, S!Afresh
  <1>2. \A t \in Tracks : Kept(t)' BY <1>1, At1 DEF Kept, S!Segment
  <1>3. part \in [Tracks -> S!Contents \cup {None}] /\ durable \in [Tracks -> Nat] BY DEF TracksInv, Typed
  <1> QED BY <1>1, <1>2, <1>3, Begins

(* A machine failure leaves what was durable. *)
LEMMA Survives ==
  ASSUME Distinct, TracksInv, NEW t \in Tracks, NEW left_over \in S!Survivals(t)
  PROVE  /\ part[t] = None => left_over = None
         /\ part[t] # None => /\ left_over \in S!Contents /\ left_over # None /\ Len(left_over) \in Nat /\ durable[t] <= Len(left_over)
                              /\ \A i \in 1 .. durable[t] : left_over[i] = part[t][i]
  <1>1. CASE part[t] = None BY <1>1 DEF S!Survivals
  <1>2. CASE part[t] # None
    <2>1. PICK m \in durable[t] .. Len(part[t]) : \E lost \in SUBSET (durable[t] + 1 .. m) :
               left_over = [i \in 1 .. m |-> IF i \in lost THEN Junk ELSE part[t][i]]
      BY <1>2 DEF S!Survivals
    <2>8. PICK lost \in SUBSET (durable[t] + 1 .. m) : left_over = [i \in 1 .. m |-> IF i \in lost THEN Junk ELSE part[t][i]] BY <2>1
    <2>2. durable[t] \in Nat /\ part[t] \in Seq(Item) /\ Len(part[t]) \in Nat BY <1>2, At1
    <2>3. m \in Nat /\ durable[t] <= m /\ m <= Len(part[t]) BY <2>1, <2>2
    <2>4. ASSUME NEW i \in 1 .. m PROVE (IF i \in lost THEN Junk ELSE part[t][i]) \in Item
      <3>1. i \in 1 .. Len(part[t]) BY <2>2, <2>3
      <3>2. part[t][i] \in Item BY <2>2, <3>1, ElementOfSeq
      <3> QED BY <3>2, StreamItems
    <2>5. left_over \in [1 .. m -> Item] BY <2>8, <2>4
    <2>6. left_over \in Seq(Item) /\ Len(left_over) = m BY <2>3, <2>5, SeqDef, LenProperties
    <2>7. ASSUME NEW i \in 1 .. durable[t] PROVE left_over[i] = part[t][i]
      <3>1. i \in 1 .. m /\ ~(i \in durable[t] + 1 .. m) BY <2>2, <2>3
      <3> QED BY <2>8, <3>1
    <2> QED BY <1>2, <2>3, <2>6, <2>7, StreamItems
  <1> QED BY <1>1, <1>2

LEMMA MachineLeaves == ASSUME Distinct, TracksInv, S!MachineFails PROVE TracksInv'
  <1>1. /\ S!Afresh /\ state' = state /\ final' = final
        /\ \A t \in Tracks : part'[t] \in S!Survivals(t)
        /\ durable' = [t \in Tracks |-> IF part'[t] = None THEN 0 ELSE Len(part'[t])]
    BY DEF S!MachineFails, S!Afresh
  <1>2. DOMAIN part' = Tracks /\ part' = [t \in Tracks |-> part'[t]] BY DEF S!MachineFails
  <1>3. ASSUME NEW t \in Tracks
        PROVE  part'[t] \in S!Contents \cup {None} /\ durable'[t] \in Nat /\ Kept(t)' /\ (part[t] = None => part'[t] = None)
    <2>1. CASE part[t] = None
      <3>1. part'[t] = None BY <1>1, <2>1, Survives
      <3> QED BY <1>1, <2>1, <3>1, At1 DEF Kept
    <2>2. CASE part[t] # None
      <3>1. /\ part'[t] \in S!Contents /\ part'[t] # None /\ Len(part'[t]) \in Nat /\ durable[t] <= Len(part'[t])
            /\ \A i \in 1 .. durable[t] : part'[t][i] = part[t][i]
        BY <1>1, <2>2, Survives
      <3>2. durable'[t] = Len(part'[t]) BY <1>1, <3>1
      <3>3. durable[t] \in Nat BY At1
      <3>4. ASSUME state[t] # None
            PROVE  state[t].held <= durable'[t] /\ \A i \in 1 .. state[t].held : part'[t][i] = S!Segment(state[t].stream, i)
        <4>1. state[t].held \in Nat /\ state[t].held <= durable[t] /\ \A i \in 1 .. state[t].held : part[t][i] = S!Segment(state[t].stream, i)
          BY <2>2, <3>4, At1 DEF Kept
        <4> QED BY <3>1, <3>2, <3>3, <4>1
      <3>5. Kept(t)' BY <1>1, <2>2, <3>1, <3>2, <3>4 DEF Kept, S!Segment
      <3> QED BY <2>2, <3>1, <3>2, <3>5
    <2> QED BY <2>1, <2>2
  <1>4. durable' \in [Tracks -> Nat] /\ part' \in [Tracks -> S!Contents \cup {None}] BY <1>1, <1>2, <1>3
  <1> QED BY <1>1, <1>3, <1>4, Begins

-----------------------------------------------------------------------------
(* The download's own step, or one of a track's threads. *)
RunStep == S!Loop \/ S!ProcessDies \/ S!MachineFails
OneTrack(t) == S!HandOver(t) \/ S!WriterStep(t) \/ S!WriteFails(t) \/ S!WriterFails(t) \/ S!SaverStep(t) \/ S!SaverFails(t)

LEMMA StreamNext == Distinct /\ TracksInv /\ [S!Next]_(S!vars) => TracksInv'
  <1> SUFFICES ASSUME Distinct, TracksInv, [S!Next]_(S!vars) PROVE TracksInv' OBVIOUS
  <1>1. CASE UNCHANGED S!vars
    <2>1. run' = run /\ \A t \in Tracks : Same(t) BY <1>1 DEF S!vars, S!feed, S!files, Same
    <2>2. Typed' BY <1>1 DEF S!vars, S!feed, S!files, TracksInv, Typed
    <2>3. \A t \in Tracks : TrackInv(t)' BY <2>1, SameTrack DEF TracksInv
    <2> QED BY <2>2, <2>3 DEF TracksInv
  <1>2. CASE RunStep BY <1>2, Prepares, OpensPart, NamesStream, StartsWriter, RunEnds, ProcessLeaves, MachineLeaves DEF RunStep, S!Loop
  <1>3. ASSUME NEW t \in Tracks, OneTrack(t) PROVE TracksInv'
    BY <1>3, HandsOver, HashesPart, Writes, WriterEnds, Syncs, Renames, RemovesState, SavesState, WritesJunk, SaverSyncs, SaverReplaces,
       SaverStopped
    DEF OneTrack, S!WriterStep, S!SaverStep
  <1> QED BY <1>1, <1>2, <1>3 DEF S!Next, S!Finished, RunStep, OneTrack

LEMMA AlwaysTracked == ASSUME Distinct PROVE S!Spec => []TracksInv
  <1>1. S!Init => TracksInv BY StreamInit
  <1>2. TracksInv /\ [S!Next]_(S!vars) => TracksInv' BY StreamNext
  <1> QED BY <1>1, <1>2, PTL DEF S!Spec

LEMMA TypesHold == ASSUME Distinct, TracksInv PROVE S!TypeOK
  <1>1. run.pc \in {"off", "opening", "naming", "starting", "running", "stopping", "ended"} /\ run.track \in Tracks /\ run.stream \in Streams
    BY DEF TracksInv, Typed, RunSet
  <1>2. ASSUME NEW t \in Tracks
        PROVE  /\ left[t] \in 0 .. Length[t]
               /\ queue[t] \in S!Contents /\ Len(queue[t]) <= WriteQueue
               /\ closed[t] \in BOOLEAN
               /\ writer[t].saved \in 0 .. writer[t].held /\ writer[t].held \in 0 .. Length[t]
               /\ part[t] \in S!Contents \cup {None} /\ final[t] \in S!Contents \cup {None}
               /\ durable[t] \in Nat
               /\ state[t] # None => state[t].stream \in Streams /\ state[t].held \in 0 .. Length[t]
    BY At1, StreamItems
  <1>3. ASSUME NEW t \in Tracks
        PROVE  /\ writer[t].pc \in {"off", "hashing", "writing", "joining", "failing", "deciding", "flushing", "renaming",
                                     "removing", "syncing", "replacing", "returned", "failed"}
               /\ saver[t].pc \in {"off", "idle", "syncing", "replacing", "failed"}
    BY DEF TracksInv, Typed, WriterSet, WriterPCs, SaverSet
  <1> QED BY <1>1, <1>2, <1>3 DEF S!TypeOK

(* Whatever ends a run, the machine failing too, the segments a track's state counts are there, of one   *)
(* stream and in order: the next run may go on after them (hls.rs: write_segments, ResumeState::save).   *)
THEOREM StreamResumeIsSafe == ASSUME Distinct PROVE S!Spec => [](S!TypeOK /\ S!ResumeIsSafe)
  <1>1. ASSUME Distinct, TracksInv PROVE S!TypeOK /\ S!ResumeIsSafe
    <2>1. S!ResumeIsSafe BY <1>1 DEF TracksInv, TrackInv, Kept, S!ResumeIsSafe
    <2> QED BY <1>1, <2>1, TypesHold
  <1> QED BY <1>1, AlwaysTracked, PTL

(* A track's finished file is the whole of it, of one stream (hls.rs: write_segments, which renames). *)
THEOREM StreamFinalIsWhole == ASSUME Distinct PROVE S!Spec => []S!FinalIsWhole
  <1>1. ASSUME TracksInv PROVE S!FinalIsWhole
    BY <1>1 DEF TracksInv, TrackInv, Named, S!FinalIsWhole
  <1> QED BY <1>1, AlwaysTracked, PTL

-----------------------------------------------------------------------------
(* What the abstract download says of t. *)
Recorded(t) == IF state[t] = None THEN 0 ELSE Content[state[t].stream]
SafeSegments(t) == IF part[t] # None /\ state[t] # None /\ state[t].held <= durable[t] THEN 1 .. state[t].held ELSE {}
Delivered(t) == IF final[t] = None THEN None ELSE [i \in DOMAIN final[t] |-> final[t][i][1]]

LEMMA SeenSame ==
  ASSUME NEW t \in Tracks, run'.stream = run.stream, Recorded(t)' = Recorded(t), SafeSegments(t)' = SafeSegments(t), Delivered(t)' = Delivered(t)
  PROVE  UNCHANGED S!Promise(t)!vars
  BY DEF S!Promise!vars, Recorded, SafeSegments, Delivered

LEMMA SafeIs ==
  ASSUME TracksInv, NEW t \in Tracks
  PROVE  SafeSegments(t) = IF part[t] # None /\ state[t] # None THEN 1 .. state[t].held ELSE {}
  BY DEF TracksInv, TrackInv, Kept, SafeSegments

LEMMA SafeNext ==
  ASSUME TracksInv', NEW t \in Tracks
  PROVE  SafeSegments(t)' = IF part'[t] # None /\ state'[t] # None THEN 1 .. state'[t].held ELSE {}
  BY DEF TracksInv, TrackInv, Kept, SafeSegments

(* A step that leaves t's state and its finished file as they are, and its .part there. *)
LEMMA TrackRests ==
  ASSUME TracksInv, TracksInv', NEW t \in Tracks, run'.stream = run.stream, state'[t] = state[t], final'[t] = final[t],
         (part'[t] = None <=> part[t] = None) \/ state[t] = None
  PROVE  [S!Promise(t)!Next]_(S!Promise(t)!vars)
  <1>1. Recorded(t)' = Recorded(t) /\ Delivered(t)' = Delivered(t) BY DEF Recorded, Delivered
  <1>2. SafeSegments(t)' = IF part'[t] # None /\ state'[t] # None THEN 1 .. state'[t].held ELSE {} BY SafeNext
  <1>3. SafeSegments(t)' = SafeSegments(t) BY <1>2, SafeIs
  <1> QED BY <1>1, <1>3, SeenSame

(* The instance counts streams as this module does. *)
LEMMA Counted == S!Cardinality(Streams) = Cardinality(Streams)
  BY DEF S!Cardinality, Cardinality

LEMMA Numbered ==
  ASSUME Distinct, NEW s \in Streams
  PROVE  Content[s] \in 1 .. Cardinality(Streams) /\ Cardinality(Streams) \in Nat /\ Content[s] # 0
  <1>1. Content[s] \in 1 .. Cardinality(Streams) /\ Cardinality(Streams) \in Nat BY FS_CardinalityType DEF Distinct
  <1> QED BY <1>1

LEMMA PreparePublishes == ASSUME Distinct, TracksInv, TracksInv', S!Prepare, NEW t \in Tracks PROVE [S!Promise(t)!Next]_(S!Promise(t)!vars)
  <1>1. UNCHANGED S!files /\ run.stream \in Streams /\ run'.stream \in Streams BY DEF S!Prepare, TracksInv, Typed, RunSet
  <1>2. Recorded(t)' = Recorded(t) /\ SafeSegments(t)' = SafeSegments(t) /\ Delivered(t)' = Delivered(t)
    BY <1>1 DEF Recorded, SafeSegments, Delivered, S!files
  <1>3. CASE Content[run'.stream] = Content[run.stream] BY <1>2, <1>3 DEF S!Promise!vars, Recorded, SafeSegments, Delivered
  <1>4. CASE Content[run'.stream] # Content[run.stream]
    <2>1. Content[run'.stream] \in 1 .. Cardinality(Streams) BY <1>1, Numbered
    <2>2. S!Promise(t)!Publish BY <1>2, <1>4, <2>1, Counted DEF S!Promise!Publish, Recorded, SafeSegments, Delivered
    <2> QED BY <2>2 DEF S!Promise!Next
  <1> QED BY <1>3, <1>4

(* A state is replaced under which nothing is safe. *)
LEMMA Renamed ==
  ASSUME NEW t \in Tracks, run'.stream = run.stream, SafeSegments(t) = {}, SafeSegments(t)' = {}, final'[t] = final[t],
         Recorded(t)' \in 0 .. Cardinality(Streams)
  PROVE  [S!Promise(t)!Next]_(S!Promise(t)!vars)
  <1>1. Delivered(t)' = Delivered(t) BY DEF Delivered
  <1>2. S!Promise(t)!Record BY <1>1, Counted DEF S!Promise!Record, Recorded, SafeSegments, Delivered
  <1> QED BY <1>2 DEF S!Promise!Next

LEMMA NameRecords == ASSUME Distinct, TracksInv, TracksInv', S!NameStream, NEW t \in Tracks PROVE [S!Promise(t)!Next]_(S!Promise(t)!vars)
  <1>1. run.pc = "naming" /\ run.track \in Tracks /\ run.stream \in Streams /\ run.track \in Nat /\ run \in RunSet
    BY DEF S!NameStream, TracksInv, Typed, RunSet, Distinct
  <1>2. /\ state' = [state EXCEPT ![run.track] = [stream |-> run.stream, held |-> 0]] /\ run'.stream = run.stream
        /\ UNCHANGED <<part, final>>
    BY <1>1 DEF S!NameStream, RunSet
  <1>3. CASE t # run.track BY <1>2, <1>3, TrackRests DEF TracksInv, Typed
  <1>4. CASE t = run.track
    <2>1. part[t] # None /\ Len(part[t]) = Length[t] - left[t] /\ left[t] = Length[t] /\ Length[t] \in Nat BY <1>1, <1>4, At1 DEF Opening
    <2>2. Len(part[t]) = 0 BY <2>1
    <2>3. state[t] # None => state[t].held = 0
      <3> SUFFICES ASSUME state[t] # None PROVE state[t].held = 0 OBVIOUS
      <3>1. state[t].held \in Nat /\ state[t].held <= durable[t] /\ durable[t] \in Nat /\ durable[t] <= Len(part[t]) BY <2>1, At1 DEF Kept
      <3> QED BY <2>2, <3>1
    <2>4. 1 .. 0 = {} OBVIOUS
    <2>5. SafeSegments(t) = {} BY <2>3, <2>4 DEF SafeSegments
    <2>6. state'[t] = [stream |-> run.stream, held |-> 0] /\ state'[t] # None
      <3>1. state'[t] = [stream |-> run.stream, held |-> 0] BY <1>2, <1>4 DEF TracksInv, Typed
      <3>2. [stream |-> run.stream, held |-> 0] \in StateSet BY <1>1 DEF StateSet
      <3> QED BY <3>1, <3>2 DEF Distinct
    <2>7. SafeSegments(t)' = {} BY <2>4, <2>6 DEF SafeSegments
    <2>8. Recorded(t)' = Content[run.stream] BY <1>2, <2>6 DEF Recorded
    <2>9. Content[run.stream] \in 0 .. Cardinality(Streams) BY <1>1, Numbered
    <2> QED BY <1>2, <2>5, <2>7, <2>8, <2>9, Renamed
  <1> QED BY <1>3, <1>4

LEMMA RemovalRecords ==
  ASSUME Distinct, TracksInv, TracksInv', NEW o \in Tracks, S!RemoveState(o), NEW t \in Tracks
  PROVE  [S!Promise(t)!Next]_(S!Promise(t)!vars)
  <1>1. writer[o].pc = "removing" /\ state' = [state EXCEPT ![o] = None] /\ UNCHANGED <<run, part, final>> BY DEF S!RemoveState, S!At
  <1>2. CASE t # o BY <1>1, <1>2, TrackRests DEF TracksInv, Typed
  <1>3. CASE t = o
    <2>1. part[t] = None /\ state'[t] = None BY <1>1, <1>3, At1 DEF Removing, Named, TracksInv, Typed
    <2>2. SafeSegments(t) = {} /\ SafeSegments(t)' = {} /\ Recorded(t)' = 0 BY <1>1, <2>1 DEF SafeSegments, Recorded
    <2>3. 0 \in 0 .. Cardinality(Streams) BY FS_CardinalityType DEF Distinct
    <2> QED BY <1>1, <2>2, <2>3, Renamed
  <1> QED BY <1>2, <1>3

(* t's state now says it holds more. *)
LEMMA SavesMore ==
  ASSUME Distinct, TracksInv, TracksInv', NEW t \in Tracks, Busy(t), run' = run, UNCHANGED <<part, final>>, NEW held \in Nat,
         state'[t] = [stream |-> run.stream, held |-> held], state[t].held <= held, held <= Length[t]
  PROVE  [S!Promise(t)!Next]_(S!Promise(t)!vars)
  <1>1. /\ part[t] # None /\ run.stream \in Streams /\ state[t] # None /\ Content[state[t].stream] = Content[run.stream]
        /\ state[t].held \in Nat /\ Length[t] \in Nat
    BY WhileBusy, At1 DEF NamesOurs
  <1>2. state'[t] # None
    <2>1. [stream |-> run.stream, held |-> held] \in StateSet BY <1>1 DEF StateSet
    <2> QED BY <2>1 DEF Distinct
  <1>3. SafeSegments(t) = 1 .. state[t].held BY <1>1, SafeIs
  <1>4. SafeSegments(t)' = 1 .. held
    <2>1. SafeSegments(t)' = IF part'[t] # None /\ state'[t] # None THEN 1 .. state'[t].held ELSE {} BY SafeNext
    <2> QED BY <1>1, <1>2, <2>1
  <1>5. SafeSegments(t) \subseteq SafeSegments(t)' /\ SafeSegments(t)' \subseteq 1 .. Length[t] BY <1>1, <1>3, <1>4
  <1>6. Recorded(t) # 0 /\ Recorded(t)' = Recorded(t) BY <1>1, <1>2, Numbered DEF Recorded
  <1>7. Delivered(t)' = Delivered(t) BY DEF Delivered
  <1>8. S!Promise(t)!Save BY <1>5, <1>6, <1>7 DEF S!Promise!Save, Recorded, SafeSegments, Delivered
  <1> QED BY <1>8 DEF S!Promise!Next

LEMMA SaveSaves ==
  ASSUME Distinct, TracksInv, TracksInv', NEW o \in Tracks, S!SaverReplace(o) \/ S!SaveState(o), NEW t \in Tracks
  PROVE  [S!Promise(t)!Next]_(S!Promise(t)!vars)
  <1>1. PICK held : /\ state' = [state EXCEPT ![o] = [stream |-> run.stream, held |-> held]]
                    /\ \/ S!SaverReplace(o) /\ held = saver[o].held
                       \/ S!SaveState(o) /\ held = writer[o].held
    BY DEF S!SaverReplace, S!SaveState
  <1>2. UNCHANGED <<run, part, final>> BY DEF S!SaverReplace, S!SaveState
  <1>3. Busy(o) /\ held \in Nat /\ state[o].held <= held /\ held <= Length[o]
    <2>1. CASE S!SaverReplace(o) /\ held = saver[o].held
      <3>1. Busy(o) /\ held = writer[o].saved BY <2>1, SavingBusy DEF S!SaverReplace
      <3> QED BY <3>1, WhileBusy, At1
    <2>2. CASE S!SaveState(o) /\ held = writer[o].held
      <3>1. Busy(o) BY <2>2 DEF S!SaveState, S!At, Busy, S!Returned
      <3>2. state[o].held \in Nat /\ state[o].held <= writer[o].saved BY <3>1, WhileBusy
      <3>3. writer[o].saved \in Nat /\ writer[o].held \in Nat /\ writer[o].saved <= writer[o].held /\ writer[o].held <= Length[o] BY At1
      <3> QED BY <2>2, <3>1, <3>2, <3>3
    <2> QED BY <1>1, <2>1, <2>2
  <1>4. CASE t # o BY <1>1, <1>2, <1>4, TrackRests DEF TracksInv, Typed
  <1>5. CASE t = o
    <2>1. state'[t] = [stream |-> run.stream, held |-> held] BY <1>1, <1>5 DEF TracksInv, Typed
    <2> QED BY <1>2, <1>3, <1>5, <2>1, SavesMore
  <1> QED BY <1>4, <1>5

LEMMA RenameDelivers ==
  ASSUME Distinct, TracksInv, TracksInv', NEW o \in Tracks, S!Rename(o), NEW t \in Tracks
  PROVE  [S!Promise(t)!Next]_(S!Promise(t)!vars)
  <1>1. /\ writer[o].pc = "renaming" /\ final' = [final EXCEPT ![o] = part[o]] /\ part' = [part EXCEPT ![o] = None] /\ UNCHANGED <<run, state>>
    BY DEF S!Rename, S!At
  <1>2. CASE t # o BY <1>1, <1>2, TrackRests DEF TracksInv, Typed
  <1>3. CASE t = o
    <2>1. Busy(t) /\ part[t] = S!Whole(Content[run.stream], t) BY <1>1, <1>3, RenamesWhole
    <2>2. part[t] # None /\ run.stream \in Streams /\ state[t] # None /\ Content[state[t].stream] = Content[run.stream]
      BY <2>1, WhileBusy DEF NamesOurs
    <2>3. final'[t] = S!Whole(Content[run.stream], t) /\ final'[t] # None /\ part'[t] = None BY <1>1, <1>3, <2>1, <2>2 DEF TracksInv, Typed
    <2>4. Recorded(t) = Content[run.stream] /\ Recorded(t)' = Recorded(t) /\ Recorded(t) # 0 BY <1>1, <2>2, Numbered DEF Recorded
    <2>5. SafeSegments(t)' = {} BY <2>3 DEF SafeSegments
    <2>6. Delivered(t)' = [i \in 1 .. Length[t] |-> Recorded(t)]
      <3>1. DOMAIN final'[t] = 1 .. Length[t] /\ \A i \in 1 .. Length[t] : final'[t][i][1] = Content[run.stream] BY <2>3 DEF S!Whole
      <3>2. Delivered(t)' = [i \in DOMAIN final'[t] |-> final'[t][i][1]] BY <2>3 DEF Delivered
      <3> QED BY <2>4, <3>1, <3>2
    <2>7. S!Promise(t)!Deliver BY <1>1, <2>4, <2>5, <2>6 DEF S!Promise!Deliver, Recorded, SafeSegments, Delivered
    <2> QED BY <2>7 DEF S!Promise!Next
  <1> QED BY <1>2, <1>3

LEMMA OpenRests == ASSUME Distinct, TracksInv, TracksInv', S!OpenPart, NEW t \in Tracks PROVE [S!Promise(t)!Next]_(S!Promise(t)!vars)
  <1>1. run \in RunSet /\ run.track \in Tracks /\ run.pc = "opening" BY DEF S!OpenPart, TracksInv, Typed, RunSet
  <1>2. run'.stream = run.stream /\ UNCHANGED <<state, final>> BY <1>1 DEF S!OpenPart, RunSet
  <1>3. CASE t # run.track
    <2>1. part'[t] = part[t] BY <1>1, <1>3 DEF S!OpenPart, TracksInv, Typed
    <2> QED BY <1>2, <2>1, TrackRests
  <1>4. CASE t = run.track
    <2>1. part[t] = None => state[t] = None BY <1>1, <1>4, FoundParts
    <2>2. part'[t] # None
      <3>1. part' = [part EXCEPT ![t] = IF part[t] = None THEN <<>> ELSE SubSeq(part[t], 1, Length[t] - left[t])] BY <1>4 DEF S!OpenPart
      <3>2. part[t] # None => part[t] \in Seq(Item) /\ Length[t] - left[t] \in Nat /\ Length[t] - left[t] <= Len(part[t])
        BY <1>1, <1>4, FoundParts, At1
      <3>3. part[t] # None => SubSeq(part[t], 1, Length[t] - left[t]) \in Seq(Item)
        <4>1. ASSUME NEW n \in Nat, part[t] \in Seq(Item), n <= Len(part[t]) PROVE SubSeq(part[t], 1, n) \in Seq(Item)
          <5>1. Len(part[t]) \in Nat BY <4>1
          <5> QED BY <4>1, <5>1
        <4> QED BY <3>2, <4>1
      <3>4. part'[t] \in Seq(Item)
        <4>1. part'[t] = IF part[t] = None THEN <<>> ELSE SubSeq(part[t], 1, Length[t] - left[t]) BY <3>1 DEF TracksInv, Typed
        <4>2. <<>> \in Seq(Item) BY StreamItems
        <4> QED BY <3>3, <4>1, <4>2
      <3> QED BY <3>4, StreamItems
    <2> QED BY <1>2, <2>1, <2>2, TrackRests
  <1> QED BY <1>3, <1>4

(* The other steps. *)
LEMMA FilesRest ==
  ASSUME TracksInv, TracksInv', UNCHANGED S!files, run'.stream = run.stream, NEW t \in Tracks
  PROVE  [S!Promise(t)!Next]_(S!Promise(t)!vars)
  BY TrackRests DEF S!files

LEMMA StepKeepsPromise ==
  ASSUME Distinct, TracksInv, TracksInv', [S!Next]_(S!vars), NEW t \in Tracks
  PROVE  [S!Promise(t)!Next]_(S!Promise(t)!vars)
  <1>1. run \in RunSet BY DEF TracksInv, Typed
  <1>2. CASE UNCHANGED S!vars BY <1>2, FilesRest DEF S!vars
  <1>3. CASE S!StartWriter \/ S!Stop \/ S!Joined \/ S!Dropped \/ S!RunAgain \/ S!ProcessDies
    <2>1. UNCHANGED S!files BY <1>3 DEF S!StartWriter, S!Stop, S!Joined, S!Dropped, S!RunAgain, S!ProcessDies, S!Afresh, S!files
    <2>2. run'.stream = run.stream
      <3>1. CASE S!Stop \/ S!Joined \/ S!Dropped \/ S!RunAgain \/ S!ProcessDies
        BY <1>1, <3>1 DEF S!Stop, S!Joined, S!Dropped, S!RunAgain, S!ProcessDies, S!Afresh, RunSet
      <3>2. CASE S!StartWriter BY <1>1, <3>2 DEF S!StartWriter, RunSet
      <3> QED BY <1>3, <3>1, <3>2
    <2> QED BY <2>1, <2>2, FilesRest
  <1>4. CASE S!MachineFails
    <2>1. run'.stream = run.stream /\ UNCHANGED <<state, final>> BY <1>1, <1>4 DEF S!MachineFails, S!Afresh, RunSet
    <2>2. part'[t] \in S!Survivals(t) BY <1>4 DEF S!MachineFails
    <2>3. part'[t] = None <=> part[t] = None BY <2>2, Survives
    <2> QED BY <2>1, <2>3, TrackRests
  <1>5. ASSUME NEW o \in Tracks, OneTrack(o) PROVE [S!Promise(t)!Next]_(S!Promise(t)!vars)
    <2>1. CASE S!HandOver(o) \/ S!HashPart(o) \/ S!EndOfSegments(o) \/ S!JoinSaver(o) \/ S!Decide(o) \/ S!WriterFails(o) \/ S!SaverFails(o)
      <3>1. UNCHANGED <<run, S!files>>
        BY <2>1 DEF S!HandOver, S!HashPart, S!EndOfSegments, S!JoinSaver, S!Decide, S!WriterFails, S!SaverFails
      <3> QED BY <3>1, FilesRest
    <2>2. CASE S!Write(o) \/ S!WriteFails(o)
      <3>1. writer[o].pc = "writing" /\ UNCHANGED <<run, state, final>> BY <2>2 DEF S!Write, S!WriteFails, S!At
      <3>2. Busy(o) /\ part[o] # None BY <3>1, WhileBusy DEF Busy, S!Returned
      <3>3. writer'[o].pc \in {"writing", "joining", "failing"}
        <4>1. CASE S!Write(o) BY <4>1, WriteMoves
        <4>2. CASE S!WriteFails(o) BY <4>2, At1 DEF S!WriteFails, S!WriterTo, TracksInv, Typed, WriterSet, WriterPCs
        <4> QED BY <2>2, <4>1, <4>2
      <3>4. part'[o] # None
        <4>1. Busy(o)' BY <3>3 DEF Busy, S!Returned
        <4> QED BY <4>1 DEF TracksInv, TrackInv, Writing
      <3>5. t # o => part'[t] = part[t] BY <2>2 DEF S!Write, S!WriteFails, TracksInv, Typed
      <3> QED BY <3>1, <3>2, <3>4, <3>5, TrackRests
    <2>3. CASE S!Sync(o) \/ S!SaverSync(o)
      <3>1. UNCHANGED <<run, part, state, final>> BY <2>3 DEF S!Sync, S!SaverSync
      <3> QED BY <3>1, TrackRests
    <2> QED BY <1>5, <2>1, <2>2, <2>3, RenameDelivers, RemovalRecords, SaveSaves DEF OneTrack, S!WriterStep, S!SaverStep
  <1> QED BY <1>2, <1>3, <1>4, <1>5, PreparePublishes, OpenRests, NameRecords DEF S!Next, S!Loop, S!Finished, OneTrack

(* Across runs, crashes, dropped downloads and rotated links every track keeps what Transfer promises of *)
(* a download (hls.rs: prepare, download_tracks, write_segments).                                        *)
THEOREM StreamKeepsPromise == ASSUME Distinct PROVE S!Spec => S!KeepsPromise
  <1>1. ASSUME S!Init, NEW t \in Tracks PROVE S!Promise(t)!Init
    <2>1. run.stream \in Streams BY <1>1, StreamInit DEF TracksInv, Typed, RunSet
    <2> QED BY <1>1, <2>1, Numbered, Counted DEF S!Init, S!Promise!Init
  <1>2. S!Init => \A t \in Tracks : S!Promise(t)!Init BY <1>1
  <1>3. TracksInv /\ TracksInv' /\ [S!Next]_(S!vars) => [\A t \in Tracks : [S!Promise(t)!Next]_(S!Promise(t)!vars)]_(S!vars)
    BY StepKeepsPromise
  <1> QED BY <1>2, <1>3, AlwaysTracked, PTL DEF S!Spec, S!KeepsPromise
=============================================================================
