-------------------------- MODULE MirrorPolicyProofs --------------------------
(***************************************************************************)
(* The mirrors of a download, for any workers, mirrors, chunks and bounds: *)
(* connections are counted right, and a mirror is dropped for its own URL. *)
(*                                                                         *)
(* Then, of what mirrors are asked to mend: no repair loses good bytes, or *)
(* says of a file or a .part what is not so.                               *)
(***************************************************************************)
EXTENDS MirrorPolicy, Sequences, FiniteSetTheorems, TLAPS

(* Somebody works, on mirrors and chunks told apart from none. *)
Proper ==
  /\ IsFiniteSet(Workers) /\ Workers # {}
  /\ Early \subseteq Mirrors /\ None \notin Mirrors \cup Chunks
  /\ MaxBad \in Nat /\ MaxRetries \in Nat /\ Channel \in Nat
  /\ Budgets \subseteq [World -> Nat]

Attempts(m) == {w \in Workers : Attempting(w) /\ worker[w].mirror = m}

(* Refusals of a mirror's own URL that are not settled yet. *)
Pending(m) ==
  {w \in Workers : worker[w].at = "over" /\ worker[w].res \in {"bad", "denied"} /\ worker[w].url = "own" /\ worker[w].mirror = m}

(* A worker that is at something has a mirror, and one that asked a chunk; that it was redirected is that it asked *)
(* the target, and there an answer is not bad.                                                                    *)
Attached ==
  \A w \in Workers :
    /\ worker[w].at # "idle" => worker[w].mirror \in joined
    /\ Attempting(w) => worker[w].chunk \in Chunks /\ (worker[w].redirected <=> worker[w].url = "target")
    /\ worker[w].at = "over" /\ worker[w].res = "bad" => worker[w].url = "own"

(* A mirror has its redirect target to fall back from exactly while it asks it. *)
Fallbacks == \A m \in Mirrors : mirror[m].fallback <=> mirror[m].url = "target"

(* No more bad answers count than the mirror's own URL gave. *)
Deserved == \A m \in Mirrors : refused[m] = MaxBad \/ mirror[m].bad + Cardinality(Pending(m)) <= refused[m]

Bounded == refused \in [Mirrors -> 0 .. MaxBad] /\ left \in [World -> Nat] /\ Early \subseteq joined

Inv == TypeOK /\ Bounded /\ Attached /\ Fallbacks /\ InFlightIsTrue /\ Deserved /\ DroppedForItsOwn

-----------------------------------------------------------------------------
LEMMA OneMore ==
  ASSUME IsFiniteSet(Workers), NEW A \in SUBSET Workers, NEW w \in Workers \ A
  PROVE  Cardinality(A \cup {w}) = Cardinality(A) + 1 /\ Cardinality(A) \in Nat
  BY FS_Subset, FS_AddElement, FS_CardinalityType

LEMMA OneLess ==
  ASSUME IsFiniteSet(Workers), NEW A \in SUBSET Workers, NEW w \in A
  PROVE  Cardinality(A \ {w}) = Cardinality(A) - 1 /\ Cardinality(A) \in Nat \ {0}
  <1>1. IsFiniteSet(A) BY FS_Subset
  <1>2. Cardinality(A \ {w}) = Cardinality(A) - 1 BY <1>1, FS_RemoveElement
  <1>3. Cardinality(A \ {w}) \in Nat /\ Cardinality(A) \in Nat BY <1>1, FS_Subset, FS_CardinalityType
  <1> QED BY <1>2, <1>3

LEMMA AtMostAll ==
  ASSUME IsFiniteSet(Workers), NEW A \in SUBSET Workers
  PROVE  Cardinality(A) \in 0 .. Cardinality(Workers) /\ Cardinality(Workers) \in Nat
  BY FS_Subset, FS_CardinalityType

LEMMA SomeCap == ASSUME Proper PROVE NoCap \in Nat /\ 1 <= NoCap
  <1>1. Cardinality(Workers) \in Nat /\ Cardinality(Workers) # 0 BY FS_CardinalityType, FS_EmptySet DEF Proper
  <1> QED BY <1>1 DEF NoCap

LEMMA NewMirror ==
  ASSUME NEW m
  PROVE  /\ New(m).inFlight = 0 /\ New(m).bad = 0 /\ New(m).active = TRUE
         /\ New(m).fallback <=> New(m).url = "target"
  <1>1. New(m).inFlight = 0 /\ New(m).bad = 0 /\ New(m).active = TRUE BY Zenon DEF New
  <1>2. New(m).fallback = (m \in Redirected) BY Zenon DEF New
  <1>3. New(m).url = IF m \in Redirected THEN "target" ELSE "own" BY Zenon DEF New
  <1> QED BY <1>1, <1>2, <1>3

LEMMA MirrorInit == ASSUME Proper, Init PROVE Inv
  <1>1. NoCap \in Nat /\ 1 <= NoCap BY SomeCap
  <1>2. \A w \in Workers : worker[w] = Idle BY DEF Init
  <1>3. \A m \in Mirrors : mirror[m] = New(m) BY DEF Init
  <1>4. \A m \in Mirrors : Attempts(m) = {} /\ Pending(m) = {} BY <1>2 DEF Attempts, Pending, Attempting, Idle
  <1>5. Cardinality({}) = 0 BY FS_EmptySet
  <1>6. TypeOK
    <2>1. Cardinality(Workers) \in Nat BY <1>1 DEF NoCap
    <2>2. Idle \in [at : {"idle", "slot", "sent", "body", "over"}, mirror : Mirrors \cup {None}, url : {"own", "target"},
                    redirected : BOOLEAN, chunk : Chunks \cup {None}, revoked : BOOLEAN,
                    res : {"none", "ok", "transient", "throttled", "denied", "bad", "fatal"}]
      BY DEF Idle
    <2>3. \A m \in Mirrors : New(m) \in [url : {"own", "target"}, fallback : BOOLEAN, inFlight : 0 .. Cardinality(Workers),
                                         bad : Nat, active : BOOLEAN, cap : 1 .. NoCap, cooling : BOOLEAN]
      BY <1>1, <2>1 DEF New
    <2>4. tries \in [Chunks -> 0 .. MaxRetries] /\ answered \in [Mirrors -> 0 .. Channel] BY DEF Init, Proper
    <2> QED BY <2>2, <2>3, <2>4 DEF Init, TypeOK, Proper
  <1>7. Bounded BY DEF Bounded, Init, Proper
  <1>8. Attached BY <1>2 DEF Attached, Attempting, Idle
  <1>9. Fallbacks
    <2> SUFFICES ASSUME NEW m \in Mirrors PROVE mirror[m].fallback <=> mirror[m].url = "target" BY DEF Fallbacks
    <2> QED BY <1>3, NewMirror
  <1>10. InFlightIsTrue 
    <2> SUFFICES ASSUME NEW m \in Mirrors PROVE mirror[m].inFlight = Cardinality(Attempts(m)) BY DEF InFlightIsTrue, Attempts
    <2> QED BY <1>3, <1>4, <1>5, NewMirror
  <1>11. Deserved
    <2>1. \A m \in Mirrors : mirror[m].bad = 0 /\ refused[m] = 0 BY <1>3, NewMirror DEF Init
    <2> QED BY <1>4, <1>5, <2>1 DEF Deserved
  <1>12. DroppedForItsOwn BY <1>3, NewMirror DEF DroppedForItsOwn, Init
  <1> QED BY <1>6, <1>7, <1>8, <1>9, <1>10, <1>11, <1>12 DEF Inv

-----------------------------------------------------------------------------
(* What a mirror and an attempt are of. *)
MirrorSet ==
  [url : {"own", "target"}, fallback : BOOLEAN, inFlight : 0 .. Cardinality(Workers), bad : Nat, active : BOOLEAN,
   cap : 1 .. NoCap, cooling : BOOLEAN]
WorkerSet ==
  [at : {"idle", "slot", "sent", "body", "over"}, mirror : Mirrors \cup {None}, url : {"own", "target"},
   redirected : BOOLEAN, chunk : Chunks \cup {None}, revoked : BOOLEAN,
   res : {"none", "ok", "transient", "throttled", "denied", "bad", "fatal"}]

LEMMA Sets == TypeOK => mirror \in [Mirrors -> MirrorSet] /\ worker \in [Workers -> WorkerSet] /\ joined \subseteq Mirrors
  BY DEF TypeOK, MirrorSet, WorkerSet

(* What is left to show of a step that changes no count: the workers' attempts stay, and no refusal is new. *)
Steady ==
  /\ \A w \in Workers : /\ Attempting(w)' <=> Attempting(w)
                        /\ Attempting(w) => worker'[w].mirror = worker[w].mirror
                        /\ w \in Workers /\ worker'[w].at = "over" /\ worker'[w].res \in {"bad", "denied"} =>
                             worker[w].at = "over" /\ worker'[w].res = worker[w].res /\ worker'[w].url = worker[w].url
  /\ refused' = refused
  /\ \A m \in Mirrors : /\ mirror'[m].inFlight = mirror[m].inFlight
                        /\ mirror'[m].bad <= mirror[m].bad
                        /\ (mirror'[m].active <=> mirror[m].active)
  /\ fatal' = fatal

LEMMA SteadyCounts ==
  ASSUME Proper, Inv, Steady, TypeOK', Bounded'
  PROVE  InFlightIsTrue' /\ Deserved' /\ DroppedForItsOwn'
  <1>1. ASSUME NEW m \in Mirrors PROVE Attempts(m)' = Attempts(m) /\ Pending(m)' \subseteq Pending(m)
    <2>1. Attempts(m)' = Attempts(m) BY DEF Steady, Attempts
    <2>2. Pending(m)' \subseteq Pending(m)
      <3> SUFFICES ASSUME NEW w \in Pending(m)' PROVE w \in Pending(m) OBVIOUS
      <3>1. w \in Workers /\ worker'[w].at = "over" /\ worker'[w].res \in {"bad", "denied"} /\ worker'[w].url = "own" /\ worker'[w].mirror = m
        BY DEF Pending
      <3>2. worker[w].at = "over" /\ worker'[w].res = worker[w].res /\ worker'[w].url = worker[w].url BY <3>1 DEF Steady
      <3>3. worker'[w].mirror = worker[w].mirror BY <3>1, <3>2 DEF Steady, Attempting
      <3> QED BY <3>1, <3>2, <3>3 DEF Pending
    <2> QED BY <2>1, <2>2
  <1>2. InFlightIsTrue' BY <1>1 DEF Steady, Inv, InFlightIsTrue, Attempts
  <1>3. ASSUME NEW m \in Mirrors PROVE refused'[m] = MaxBad \/ mirror'[m].bad + Cardinality(Pending(m)') <= refused'[m]
    <2>1. IsFiniteSet(Pending(m)) BY FS_Subset DEF Pending, Proper
    <2>2. Cardinality(Pending(m)') <= Cardinality(Pending(m)) /\ Cardinality(Pending(m)) \in Nat /\ Cardinality(Pending(m)') \in Nat
      BY <1>1, <2>1, FS_Subset, FS_CardinalityType
    <2>3. mirror'[m].bad <= mirror[m].bad /\ mirror[m].bad \in Nat /\ mirror'[m].bad \in Nat /\ refused[m] \in Nat /\ refused'[m] = refused[m]
      BY DEF Steady, Inv, TypeOK, Bounded, Proper
    <2>4. refused[m] = MaxBad \/ mirror[m].bad + Cardinality(Pending(m)) <= refused[m] BY DEF Inv, Deserved
    <2> HIDE DEF Inv, Steady
    <2> QED BY <2>2, <2>3, <2>4
  <1>4. Deserved' BY <1>3 DEF Deserved
  <1>5. DroppedForItsOwn' BY DEF Steady, Inv, DroppedForItsOwn, Proper, Bounded, TypeOK
  <1> QED BY <1>2, <1>4, <1>5

(* The types again, of the parts a step may change. *)
LEMMA Retyped ==
  ASSUME joined' \subseteq Mirrors, probing' \subseteq Mirrors \ joined', mirror' \in [Mirrors -> MirrorSet], worker' \in [Workers -> WorkerSet],
         free' \subseteq Chunks, completed' \subseteq Chunks, tries' \in [Chunks -> 0 .. MaxRetries], answered' \in [Mirrors -> 0 .. Channel],
         fatal' \in {"none", "fatal", "retries", "mirrors"}, outcome' \in {"none", "done", "failed", "cancelled"}
  PROVE  TypeOK'
  BY DEF TypeOK, MirrorSet, WorkerSet

LEMMA SpendsLess == ASSUME left \in [World -> Nat], NEW what \in World, Spend(what) PROVE left' \in [World -> Nat]
  BY DEF Spend

LEMMA Advances ==
  ASSUME NEW a \in WorkerSet, NEW at \in {"body", "over"}, NEW res \in {"ok", "transient", "throttled", "denied", "bad", "fatal"}
  PROVE  [a EXCEPT !.at = at] \in WorkerSet /\ [a EXCEPT !.at = at, !.res = res] \in WorkerSet
  BY DEF WorkerSet

(* A worker's own steps between a mirror's answer and its verdict, and those without a mirror's. *)
LEMMA AttemptsGoOn ==
  ASSUME Proper, Inv, NEW w \in Workers, TakeSlot(w) \/ NoJob(w) \/ Answered(w) \/ Received(w) \/ Interrupted(w)
  PROVE  Inv'
  <1>1. /\ mirror \in [Mirrors -> MirrorSet] /\ worker \in [Workers -> WorkerSet] /\ joined \subseteq Mirrors
        /\ refused \in [Mirrors -> 0 .. MaxBad] /\ left \in [World -> Nat] /\ Early \subseteq joined
    BY Sets DEF Inv, Bounded
  <1>2. WorkerSet = [at : {"idle", "slot", "sent", "body", "over"}, mirror : Mirrors \cup {None}, url : {"own", "target"},
                     redirected : BOOLEAN, chunk : Chunks \cup {None}, revoked : BOOLEAN,
                     res : {"none", "ok", "transient", "throttled", "denied", "bad", "fatal"}] BY DEF WorkerSet
  <1>3. /\ free \subseteq Chunks /\ completed \subseteq Chunks /\ tries \in [Chunks -> 0 .. MaxRetries] /\ answered \in [Mirrors -> 0 .. Channel]
        /\ probing \subseteq Mirrors \ joined /\ fatal \in {"none", "fatal", "retries", "mirrors"}
        /\ outcome \in {"none", "done", "failed", "cancelled"} /\ MaxRetries \in Nat /\ Channel \in Nat
    BY DEF Inv, TypeOK, Proper
  <1>4. Idle \in WorkerSet BY <1>2 DEF Idle
  <1>5. /\ mirror' = mirror /\ joined' = joined /\ probing' = probing /\ free' = free /\ completed' = completed
        /\ fatal' = fatal /\ outcome' = outcome /\ refused' = refused
    BY DEF TakeSlot, NoJob, Answered, Received, Interrupted
  <1>6. worker[w] \in WorkerSet /\ \A v \in Workers \ {w} : worker'[v] = worker[v]
    BY <1>1 DEF TakeSlot, NoJob, Answered, Received, Interrupted, Over
  <1>7. /\ Attempting(w) => worker[w].chunk \in Chunks /\ worker[w].mirror \in joined /\ (worker[w].redirected <=> worker[w].url = "target")
    BY DEF Inv, Attached, Attempting
  <1> DEFINE Goal == /\ worker' \in [Workers -> WorkerSet]
                     /\ worker'[w].at # "idle" => worker'[w].mirror \in joined
                     /\ worker'[w].at \in {"sent", "body", "over"} <=> worker[w].at \in {"sent", "body", "over"}
                     /\ worker[w].at \in {"sent", "body", "over"} =>
                          /\ worker'[w].mirror = worker[w].mirror /\ worker'[w].chunk = worker[w].chunk /\ worker'[w].url = worker[w].url
                          /\ worker'[w].redirected = worker[w].redirected
                     /\ ~(worker'[w].at = "over" /\ worker'[w].res \in {"bad", "denied"})
                     /\ tries' \in [Chunks -> 0 .. MaxRetries] /\ answered' \in [Mirrors -> 0 .. Channel] /\ left' \in [World -> Nat]
  <1>8. ASSUME TakeSlot(w) PROVE Goal
    <2>1. PICK m \in joined : worker' = [worker EXCEPT ![w] = [Idle EXCEPT !.at = "slot", !.mirror = m, !.url = mirror[m].url]]
      BY <1>8 DEF TakeSlot
    <2>2. m \in Mirrors /\ mirror[m].url \in {"own", "target"} BY <1>1 DEF MirrorSet
    <2> DEFINE taken == [Idle EXCEPT !.at = "slot", !.mirror = m, !.url = mirror[m].url]
    <2>3. taken \in WorkerSet /\ taken.at = "slot" /\ taken.mirror = m BY <1>2, <2>2 DEF Idle
    <2>4. worker'[w] = taken /\ worker' \in [Workers -> WorkerSet] BY <1>1, <2>1, <2>3
    <2> HIDE DEF taken
    <2>5. worker[w].at = "idle" /\ tries' = tries /\ answered' = answered /\ left' = left BY <1>8 DEF TakeSlot
    <2>6. worker'[w].at # "idle" => worker'[w].mirror \in joined BY <2>3, <2>4
    <2>7. worker'[w].at \in {"sent", "body", "over"} <=> worker[w].at \in {"sent", "body", "over"} BY <2>3, <2>4, <2>5
    <2>8. ~(worker'[w].at = "over" /\ worker'[w].res \in {"bad", "denied"}) BY <2>3, <2>4
    <2>9. tries' \in [Chunks -> 0 .. MaxRetries] /\ answered' \in [Mirrors -> 0 .. Channel] /\ left' \in [World -> Nat] BY <1>1, <1>3, <2>5
    <2>10. worker[w].at \notin {"sent", "body", "over"} BY <2>5
    <2> QED BY <2>4, <2>6, <2>7, <2>8, <2>9, <2>10
  <1>9. ASSUME NoJob(w) PROVE Goal
    <2>1. worker'[w] = Idle /\ worker' \in [Workers -> WorkerSet] /\ worker[w].at = "slot" BY <1>1, <1>4, <1>9 DEF NoJob
    <2>2. tries' = tries /\ answered' = answered /\ left' = left BY <1>9 DEF NoJob
    <2> QED BY <1>1, <1>3, <2>1, <2>2 DEF Idle
  <1>10. ASSUME Answered(w) PROVE Goal
    <2>1. worker' = [worker EXCEPT ![w].at = "body"] /\ worker[w].at = "sent" /\ tries' = tries /\ left' = left BY <1>10 DEF Answered
    <2>2. worker' \in [Workers -> WorkerSet]
      <3>1. [worker[w] EXCEPT !.at = "body"] \in WorkerSet BY <1>1, Advances
      <3>2. worker' = [worker EXCEPT ![w] = [worker[w] EXCEPT !.at = "body"]] BY <1>1, <2>1
      <3> QED BY <1>1, <3>1, <3>2
    <2>3. worker[w].mirror \in Mirrors BY <1>1, <1>7, <2>1 DEF Attempting
    <2>4. answered' \in [Mirrors -> 0 .. Channel] BY <1>3, <1>10, <2>3 DEF Answered
    <2> QED BY <1>1, <1>2, <1>3, <1>6, <1>7, <2>1, <2>2, <2>4 DEF Attempting
  <1>11. ASSUME Received(w) \/ Interrupted(w) PROVE Goal
    <2>1. PICK res \in {"ok", "transient"} : worker' = [worker EXCEPT ![w].at = "over", ![w].res = res]
      BY <1>11 DEF Received, Interrupted, Over
    <2>2. worker[w].at \in {"sent", "body"} BY <1>11 DEF Received, Interrupted
    <2>3. worker' \in [Workers -> WorkerSet]
      <3>1. [worker[w] EXCEPT !.at = "over", !.res = res] \in WorkerSet BY <1>1, Advances
      <3>2. worker' = [worker EXCEPT ![w] = [worker[w] EXCEPT !.at = "over", !.res = res]] BY <1>1, <2>1
      <3> QED BY <1>1, <3>1, <3>2
    <2>4. answered' = answered BY <1>11 DEF Received, Interrupted
    <2>5. tries' \in [Chunks -> 0 .. MaxRetries] /\ left' \in [World -> Nat]
      BY <1>1, <1>3, <1>7, <1>11, <2>2, SpendsLess DEF Received, Interrupted, World, Attempting
    <2> QED BY <1>1, <1>2, <1>3, <1>6, <1>7, <2>1, <2>2, <2>3, <2>4, <2>5 DEF Attempting
  <1>12. Goal BY <1>8, <1>9, <1>10, <1>11
  <1> HIDE DEF Goal
  <1>13. TypeOK' /\ Bounded' BY <1>1, <1>3, <1>5, <1>12, Retyped DEF Bounded, Goal
  <1>14. Steady
    <2>1. ASSUME NEW v \in Workers
          PROVE  /\ Attempting(v)' <=> Attempting(v)
                 /\ Attempting(v) => worker'[v].mirror = worker[v].mirror
                 /\ worker'[v].at = "over" /\ worker'[v].res \in {"bad", "denied"} =>
                      worker[v].at = "over" /\ worker'[v].res = worker[v].res /\ worker'[v].url = worker[v].url
      BY <1>6, <1>12 DEF Goal, Attempting
    <2>2. \A m \in Mirrors : mirror[m].bad <= mirror[m].bad BY <1>1 DEF MirrorSet
    <2> QED BY <1>5, <2>1, <2>2 DEF Steady
  <1>15. Attached'
    <2> SUFFICES ASSUME NEW v \in Workers
                 PROVE  /\ worker'[v].at # "idle" => worker'[v].mirror \in joined
                        /\ Attempting(v)' => worker'[v].chunk \in Chunks /\ (worker'[v].redirected <=> worker'[v].url = "target")
                        /\ worker'[v].at = "over" /\ worker'[v].res = "bad" => worker'[v].url = "own"
      BY <1>5 DEF Attached
    <2>1. CASE v = w BY <1>7, <1>12, <2>1 DEF Goal, Attempting
    <2>2. CASE v # w BY <1>6, <2>2 DEF Inv, Attached, Attempting
    <2> QED BY <2>1, <2>2
  <1>16. Fallbacks' BY <1>5 DEF Inv, Fallbacks
  <1> QED BY <1>13, <1>14, <1>15, <1>16, SteadyCounts DEF Inv

(* The engine hears, a mirror cools down or joins, and the download ends. *)
LEMMA EngineGoesOn ==
  ASSUME Proper, Inv, (\E m \in Mirrors : CoolsDown(m) \/ Hear(m) \/ Admit(m)) \/ End \/ Cancel \/ UNCHANGED vars
  PROVE  Inv'
  <1>1. /\ mirror \in [Mirrors -> MirrorSet] /\ worker \in [Workers -> WorkerSet] /\ joined \subseteq Mirrors
        /\ refused \in [Mirrors -> 0 .. MaxBad] /\ left \in [World -> Nat] /\ Early \subseteq joined
    BY Sets DEF Inv, Bounded
  <1>2. NoCap \in Nat /\ 1 <= NoCap BY SomeCap
  <1>3. /\ free \subseteq Chunks /\ completed \subseteq Chunks /\ tries \in [Chunks -> 0 .. MaxRetries] /\ answered \in [Mirrors -> 0 .. Channel]
        /\ probing \subseteq Mirrors \ joined /\ fatal \in {"none", "fatal", "retries", "mirrors"}
        /\ outcome \in {"none", "done", "failed", "cancelled"} /\ Channel \in Nat
    BY DEF Inv, TypeOK, Proper
  <1>4. /\ worker' = worker /\ free' = free /\ completed' = completed /\ tries' = tries /\ fatal' = fatal /\ refused' = refused
        /\ left' \in [World -> Nat]
    BY <1>1, SpendsLess DEF CoolsDown, Hear, Admit, End, Cancel, vars, World
  <1>5. /\ joined \subseteq joined' /\ joined' \subseteq Mirrors /\ probing' \subseteq Mirrors \ joined'
        /\ outcome' \in {"none", "done", "failed", "cancelled"} /\ answered' \in [Mirrors -> 0 .. Channel]
    <2>1. CASE \E m \in Mirrors : Admit(m) BY <1>1, <1>3, <2>1 DEF Admit
    <2>2. CASE \E m \in Mirrors : Hear(m)
      <3>1. PICK m \in Mirrors : answered[m] > 0 /\ answered' = [answered EXCEPT ![m] = @ - 1] BY <2>2 DEF Hear
      <3>2. answered[m] - 1 \in 0 .. Channel BY <1>3, <3>1
      <3> QED BY <1>1, <1>3, <2>2, <3>1, <3>2 DEF Hear
    <2>3. CASE (\E m \in Mirrors : CoolsDown(m)) \/ End \/ Cancel \/ UNCHANGED vars
      BY <1>1, <1>3, <2>3 DEF CoolsDown, End, Cancel, vars
    <2> QED BY <2>1, <2>2, <2>3
  <1> DEFINE Kept == /\ mirror' \in [Mirrors -> MirrorSet]
                     /\ \A m \in Mirrors : /\ mirror'[m].inFlight = mirror[m].inFlight /\ mirror'[m].bad <= mirror[m].bad
                                           /\ (mirror'[m].active <=> mirror[m].active)
                                           /\ (mirror'[m].fallback <=> mirror[m].fallback) /\ mirror'[m].url = mirror[m].url
  <1>6. Kept
    <2>1. CASE mirror' = mirror
      <3>1. \A m \in Mirrors : mirror[m].bad <= mirror[m].bad BY <1>1 DEF MirrorSet
      <3> QED BY <1>1, <2>1, <3>1
    <2>2. ASSUME NEW m \in Mirrors, CoolsDown(m) PROVE Kept
      <3>1. mirror' = [mirror EXCEPT ![m].cooling = FALSE] BY <2>2 DEF CoolsDown
      <3>2. mirror' \in [Mirrors -> MirrorSet]
        <4>1. mirror' = [mirror EXCEPT ![m] = [mirror[m] EXCEPT !.cooling = FALSE]] BY <1>1, <3>1
        <4>2. [mirror[m] EXCEPT !.cooling = FALSE] \in MirrorSet BY <1>1 DEF MirrorSet
        <4> QED BY <1>1, <4>1, <4>2
      <3>3. \A n \in Mirrors : mirror'[n].inFlight = mirror[n].inFlight /\ mirror'[n].bad <= mirror[n].bad /\ mirror'[n].url = mirror[n].url
        BY <1>1, <3>1 DEF MirrorSet
      <3>4. \A n \in Mirrors : mirror'[n].active <=> mirror[n].active BY <1>1, <3>1 DEF MirrorSet
      <3>5. \A n \in Mirrors : mirror'[n].fallback <=> mirror[n].fallback BY <1>1, <3>1 DEF MirrorSet
      <3> QED BY <3>2, <3>3, <3>4, <3>5
    <2>3. ASSUME NEW m \in Mirrors, Hear(m) PROVE Kept
      <3>1. mirror' = [mirror EXCEPT ![m].bad = 0, ![m].cap = IF @ < NoCap THEN @ + 1 ELSE @] BY <2>3 DEF Hear
      <3>2. mirror[m].cap \in 1 .. NoCap /\ mirror[m].bad \in Nat BY <1>1 DEF MirrorSet
      <3>3. PICK c \in 1 .. NoCap : c = IF mirror[m].cap < NoCap THEN mirror[m].cap + 1 ELSE mirror[m].cap BY <1>2, <3>2
      <3>4. mirror' \in [Mirrors -> MirrorSet]
        <4>1. mirror' = [mirror EXCEPT ![m] = [mirror[m] EXCEPT !.bad = 0, !.cap = c]] BY <1>1, <3>1, <3>3
        <4>2. [mirror[m] EXCEPT !.bad = 0, !.cap = c] \in MirrorSet BY <1>1 DEF MirrorSet
        <4> QED BY <1>1, <4>1, <4>2
      <3>5. \A n \in Mirrors : mirror'[n].inFlight = mirror[n].inFlight /\ mirror'[n].bad <= mirror[n].bad /\ mirror'[n].url = mirror[n].url
        BY <1>1, <3>1, <3>2 DEF MirrorSet
      <3>6. \A n \in Mirrors : mirror'[n].active <=> mirror[n].active BY <1>1, <3>1 DEF MirrorSet
      <3>7. \A n \in Mirrors : mirror'[n].fallback <=> mirror[n].fallback BY <1>1, <3>1 DEF MirrorSet
      <3> QED BY <3>4, <3>5, <3>6, <3>7
    <2> QED BY <2>1, <2>2, <2>3 DEF CoolsDown, Hear, Admit, End, Cancel, vars
  <1>7. TypeOK' /\ Bounded' BY <1>1, <1>3, <1>4, <1>5, <1>6, Retyped DEF Bounded
  <1>8. Steady BY <1>4, <1>6 DEF Steady, Attempting
  <1>9. Attached' BY <1>4, <1>5 DEF Inv, Attached, Attempting
  <1>10. Fallbacks' BY <1>6 DEF Inv, Fallbacks
  <1> QED BY <1>7, <1>8, <1>9, <1>10, SteadyCounts DEF Inv

-----------------------------------------------------------------------------
(* next_job: one connection more. *)
LEMMA Sends ==
  ASSUME Proper, Inv, NEW w \in Workers, NEW c \in Chunks, worker[w].at = "slot", StillUsable(w), Send(w, c),
         UNCHANGED <<joined, probing, completed, tries, answered, fatal, outcome, refused>>, free' \subseteq Chunks, left' \in [World -> Nat]
  PROVE  Inv'
  <1>1. /\ mirror \in [Mirrors -> MirrorSet] /\ worker \in [Workers -> WorkerSet] /\ joined \subseteq Mirrors
        /\ refused \in [Mirrors -> 0 .. MaxBad] /\ left \in [World -> Nat] /\ Early \subseteq joined
    BY Sets DEF Inv, Bounded
  <1>2. WorkerSet = [at : {"idle", "slot", "sent", "body", "over"}, mirror : Mirrors \cup {None}, url : {"own", "target"},
                     redirected : BOOLEAN, chunk : Chunks \cup {None}, revoked : BOOLEAN,
                     res : {"none", "ok", "transient", "throttled", "denied", "bad", "fatal"}] BY DEF WorkerSet
  <1> PICK m \in Mirrors : m = worker[w].mirror BY <1>1 DEF Inv, Attached
  <1>3. m \in joined /\ mirror[m].url = worker[w].url BY DEF StillUsable, Usable
  <1>4. mirror' = [mirror EXCEPT ![m].inFlight = @ + 1] BY DEF Send
  <1>5. mirror[m].fallback \in BOOLEAN /\ worker[w] \in WorkerSet BY <1>1 DEF MirrorSet
  <1> DEFINE sent == [worker[w] EXCEPT !.at = "sent", !.redirected = mirror[m].fallback, !.chunk = c]
  <1>6. /\ sent \in WorkerSet /\ sent.at = "sent" /\ sent.mirror = m /\ sent.url = worker[w].url /\ sent.chunk = c
        /\ sent.redirected <=> mirror[m].fallback
    BY <1>2, <1>5
  <1>7. worker'[w] = sent BY DEF Send
  <1> HIDE DEF sent
  <1>8. ASSUME NEW v \in Workers \ {w}
        PROVE  /\ worker'[v] \in WorkerSet /\ worker'[v].at = worker[v].at /\ worker'[v].mirror = worker[v].mirror
               /\ worker'[v].url = worker[v].url /\ worker'[v].chunk = worker[v].chunk /\ worker'[v].res = worker[v].res
               /\ worker'[v].redirected <=> worker[v].redirected
    <2>1. worker[v] \in WorkerSet BY <1>1
    <2>2. PICK r \in BOOLEAN : r <=> (worker[v].revoked \/ worker[v].chunk = c) BY <1>2, <2>1
    <2>3. (worker[v].revoked \/ worker[v].chunk = c) = r BY <2>2
    <2>4. worker'[v] = [worker[v] EXCEPT !.revoked = r] BY <2>3 DEF Send
    <2> QED BY <1>2, <2>1, <2>4
  <1>9. worker' \in [Workers -> WorkerSet]
    <2>1. \A v \in Workers : worker'[v] \in WorkerSet BY <1>6, <1>7, <1>8
    <2>2. worker' = [v \in Workers |-> worker'[v]] BY DEF Send
    <2> QED BY <2>1, <2>2
  <1>10. /\ \A v \in Workers \ {w} : Attempting(v)' <=> Attempting(v)
         /\ Attempting(w)' /\ ~Attempting(w)
    BY <1>6, <1>7, <1>8 DEF Attempting
  <1>11. Attempts(m)' = Attempts(m) \cup {w} /\ \A n \in Mirrors \ {m} : Attempts(n)' = Attempts(n)
    BY <1>6, <1>7, <1>8, <1>10 DEF Attempts
  <1>12. \A n \in Mirrors : Pending(n)' = Pending(n)
    BY <1>6, <1>7, <1>8 DEF Pending
  <1>13. /\ \A n \in Mirrors \ {m} : mirror'[n] = mirror[n]
         /\ mirror'[m].inFlight = mirror[m].inFlight + 1
         /\ \A n \in Mirrors : mirror'[n].bad = mirror[n].bad /\ mirror'[n].url = mirror[n].url
    BY <1>1, <1>4 DEF MirrorSet
  <1>14. \A n \in Mirrors : mirror'[n].fallback <=> mirror[n].fallback BY <1>1, <1>4 DEF MirrorSet
  <1>15. \A n \in Mirrors : mirror'[n].active <=> mirror[n].active BY <1>1, <1>4 DEF MirrorSet
  <1>16. mirror[m].inFlight = Cardinality(Attempts(m)) BY DEF Inv, InFlightIsTrue, Attempts
  <1>17. mirror[m].inFlight + 1 = Cardinality(Attempts(m)')
    <2>1. Attempts(m) \subseteq Workers /\ w \notin Attempts(m) BY <1>10 DEF Attempts
    <2> QED BY <1>11, <1>16, <2>1, OneMore DEF Proper
  <1>18. InFlightIsTrue'
    <2> SUFFICES ASSUME NEW n \in Mirrors PROVE mirror'[n].inFlight = Cardinality(Attempts(n)') BY DEF InFlightIsTrue, Attempts
    <2>1. mirror[n].inFlight = Cardinality(Attempts(n)) BY DEF Inv, InFlightIsTrue, Attempts
    <2>2. CASE n = m BY <1>13, <1>17, <2>2
    <2>3. CASE n # m BY <1>11, <1>13, <2>1, <2>3
    <2> QED BY <2>2, <2>3
  <1>19. mirror' \in [Mirrors -> MirrorSet]
    <2>1. Attempts(m)' \in SUBSET Workers BY DEF Attempts
    <2>2. mirror[m].inFlight + 1 \in 0 .. Cardinality(Workers)
      <3> DEFINE A == Attempts(m)'
      <3>1. A \in SUBSET Workers BY <2>1
      <3> HIDE DEF A
      <3>2. Cardinality(A) \in 0 .. Cardinality(Workers) BY <3>1, AtMostAll DEF Proper
      <3> QED BY <1>17, <3>2 DEF A
    <2> QED BY <1>1, <1>4, <2>2 DEF MirrorSet
  <1>20. TypeOK' BY <1>1, <1>9, <1>19, Retyped DEF Inv, TypeOK
  <1>21. Bounded' BY DEF Inv, Bounded
  <1>22. Fallbacks' BY <1>13, <1>14 DEF Inv, Fallbacks
  <1>23. Deserved' BY <1>12, <1>13 DEF Inv, Deserved
  <1>24. DroppedForItsOwn' BY <1>1, <1>15 DEF Inv, DroppedForItsOwn
  <1>25. Attached'
    <2> SUFFICES ASSUME NEW v \in Workers
                 PROVE  /\ worker'[v].at # "idle" => worker'[v].mirror \in joined
                        /\ Attempting(v)' => worker'[v].chunk \in Chunks /\ (worker'[v].redirected <=> worker'[v].url = "target")
                        /\ worker'[v].at = "over" /\ worker'[v].res = "bad" => worker'[v].url = "own"
      BY DEF Attached
    <2>1. CASE v = w BY <1>3, <1>6, <1>7, <2>1 DEF Inv, Fallbacks, Attempting
    <2>2. CASE v # w BY <1>8, <2>2 DEF Inv, Attached, Attempting
    <2> QED BY <2>1, <2>2
  <1> QED BY <1>18, <1>20, <1>21, <1>22, <1>23, <1>24, <1>25 DEF Inv

LEMMA JobsBegin == ASSUME Proper, Inv, NEW w \in Workers, NextJob(w) \/ TakeOver(w) PROVE Inv'
  <1>1. free \subseteq Chunks /\ left \in [World -> Nat] BY DEF Inv, TypeOK, Bounded
  <1>2. CASE NextJob(w)
    <2>1. PICK c \in free : Send(w, c) /\ free' = free \ {c} BY <1>2 DEF NextJob
    <2>2. /\ UNCHANGED <<joined, probing, completed, tries, answered, fatal, outcome, refused>> /\ left' \in [World -> Nat]
          /\ worker[w].at = "slot" /\ StillUsable(w)
      BY <1>1, <1>2 DEF NextJob
    <2> QED BY <1>1, <2>1, <2>2, Sends
  <1>3. CASE TakeOver(w)
    <2>1. PICK v \in Workers : worker[v].at \in {"sent", "body"} /\ Send(w, worker[v].chunk) BY <1>3 DEF TakeOver
    <2>2. worker[v].chunk \in Chunks BY <2>1 DEF Inv, Attached, Attempting
    <2>3. left' \in [World -> Nat] BY <1>1, <1>3, SpendsLess DEF TakeOver, World
    <2>4. /\ UNCHANGED <<joined, probing, completed, tries, answered, fatal, outcome, refused>> /\ free' = free
          /\ worker[w].at = "slot" /\ StillUsable(w)
      BY <1>3 DEF TakeOver
    <2> QED BY <1>1, <2>1, <2>2, <2>3, <2>4, Sends
  <1> QED BY <1>2, <1>3

-----------------------------------------------------------------------------
(* check_response: a refusal counts for its mirror's own URL as it is given, and against the mirror as it is settled. *)
LEMMA Refuses == ASSUME Proper, Inv, NEW w \in Workers, Refused(w) PROVE Inv'
  <1>1. /\ mirror \in [Mirrors -> MirrorSet] /\ worker \in [Workers -> WorkerSet] /\ joined \subseteq Mirrors
        /\ refused \in [Mirrors -> 0 .. MaxBad] /\ left \in [World -> Nat] /\ Early \subseteq joined /\ MaxBad \in Nat
    BY Sets DEF Inv, Bounded, Proper
  <1>2. WorkerSet = [at : {"idle", "slot", "sent", "body", "over"}, mirror : Mirrors \cup {None}, url : {"own", "target"},
                     redirected : BOOLEAN, chunk : Chunks \cup {None}, revoked : BOOLEAN,
                     res : {"none", "ok", "transient", "throttled", "denied", "bad", "fatal"}] BY DEF WorkerSet
  <1>3. /\ worker[w].at = "sent" /\ worker[w].mirror \in joined /\ worker[w].chunk \in Chunks
        /\ worker[w].redirected <=> worker[w].url = "target"
    BY DEF Refused, Inv, Attached, Attempting
  <1> PICK m \in Mirrors : m = worker[w].mirror BY <1>1, <1>3
  <1>4. PICK res \in Verdicts(w) : /\ worker' = [worker EXCEPT ![w].at = "over", ![w].res = res]
                                   /\ refused' = IF res \in {"bad", "denied"} /\ worker[w].url = "own"
                                                 THEN [refused EXCEPT ![m] = IF @ < MaxBad THEN @ + 1 ELSE @] ELSE refused
    BY DEF Refused, Over
  <1>5. res \in {"transient", "throttled", "denied", "bad", "fatal"} /\ (res = "bad" => worker[w].url = "own")
    <2>1. worker[w].url \in {"own", "target"} BY <1>1, <1>2
    <2> QED BY <1>3, <2>1 DEF Verdicts
  <1>6. /\ worker' \in [Workers -> WorkerSet] /\ worker'[w].at = "over" /\ worker'[w].res = res
        /\ worker'[w].mirror = m /\ worker'[w].url = worker[w].url /\ worker'[w].chunk = worker[w].chunk
        /\ worker'[w].redirected <=> worker[w].redirected
        /\ \A v \in Workers \ {w} : worker'[v] = worker[v]
    <2>1. worker[w] \in WorkerSet BY <1>1
    <2>2. worker'[w] = [worker[w] EXCEPT !.at = "over", !.res = res] BY <1>1, <1>4
    <2>3. worker'[w] \in WorkerSet BY <1>2, <1>5, <2>1, <2>2
    <2>4. worker' \in [Workers -> WorkerSet] BY <1>1, <1>4, <2>3
    <2> QED BY <1>1, <1>2, <1>4, <2>1, <2>2, <2>4
  <1>7. \A v \in Workers : Attempting(v)' <=> Attempting(v) BY <1>3, <1>6 DEF Attempting
  <1>8. UNCHANGED <<joined, probing, mirror, free, completed, tries, answered, fatal, outcome, left>> BY DEF Refused
  <1>9. refused' \in [Mirrors -> 0 .. MaxBad] /\ \A n \in Mirrors : refused[n] = MaxBad => refused'[n] = MaxBad
    <2>1. refused[m] \in 0 .. MaxBad BY <1>1
    <2>2. (IF refused[m] < MaxBad THEN refused[m] + 1 ELSE refused[m]) \in 0 .. MaxBad BY <1>1, <2>1
    <2> QED BY <1>1, <1>4, <2>1, <2>2
  <1>10. TypeOK' BY <1>1, <1>6, <1>8, Retyped DEF Inv, TypeOK
  <1>11. Bounded' BY <1>8, <1>9 DEF Inv, Bounded
  <1>12. InFlightIsTrue' BY <1>3, <1>6, <1>7, <1>8 DEF Inv, InFlightIsTrue
  <1>13. Fallbacks' BY <1>8 DEF Inv, Fallbacks
  <1>14. DroppedForItsOwn' BY <1>1, <1>8, <1>9 DEF Inv, DroppedForItsOwn
  <1>15. Attached' BY <1>3, <1>5, <1>6, <1>7, <1>8 DEF Inv, Attached, Attempting
  <1>16. Deserved'
    <2> DEFINE own == res \in {"bad", "denied"} /\ worker[w].url = "own"
    <2>1. w \notin Pending(m) /\ (\A n \in Mirrors : Pending(n) \in SUBSET Workers) BY <1>3 DEF Pending
    <2>2. Pending(m)' = IF own THEN Pending(m) \cup {w} ELSE Pending(m)
      <3>1. \A v \in Workers \ {w} : v \in Pending(m)' <=> v \in Pending(m) BY <1>6 DEF Pending
      <3>2. w \in Pending(m)' <=> own BY <1>6 DEF Pending
      <3>3. Pending(m)' \subseteq Workers BY DEF Pending
      <3> HIDE DEF own
      <3> QED BY <2>1, <3>1, <3>2, <3>3
    <2>3. \A n \in Mirrors \ {m} : Pending(n)' = Pending(n) BY <1>3, <1>6 DEF Pending
    <2>4. \A n \in Mirrors \ {m} : refused'[n] = refused[n] BY <1>1, <1>4
    <2>5. refused'[m] = IF own /\ refused[m] < MaxBad THEN refused[m] + 1 ELSE refused[m] BY <1>1, <1>4
    <2>6. Cardinality(Pending(m) \cup {w}) = Cardinality(Pending(m)) + 1 /\ Cardinality(Pending(m)) \in Nat
      BY <2>1, OneMore DEF Proper
    <2>7. refused[m] \in 0 .. MaxBad /\ mirror[m].bad \in Nat BY <1>1 DEF MirrorSet
    <2>8. refused[m] = MaxBad \/ mirror[m].bad + Cardinality(Pending(m)) <= refused[m] BY DEF Inv, Deserved
    <2> HIDE DEF own
    <2>9. refused'[m] = MaxBad \/ mirror[m].bad + Cardinality(Pending(m)') <= refused'[m]
      <3>1. CASE own BY <1>1, <2>2, <2>5, <2>6, <2>7, <2>8, <3>1
      <3>2. CASE ~own BY <2>2, <2>5, <2>8, <3>2
      <3> QED BY <3>1, <3>2
    <2>10. ASSUME NEW n \in Mirrors \ {m} PROVE refused'[n] = MaxBad \/ mirror[n].bad + Cardinality(Pending(n)') <= refused'[n]
      BY <2>3, <2>4 DEF Inv, Deserved
    <2> QED BY <1>8, <2>9, <2>10 DEF Deserved
  <1> QED BY <1>10, <1>11, <1>12, <1>13, <1>14, <1>15, <1>16 DEF Inv

-----------------------------------------------------------------------------
(* What settling w's attempt makes of its mirror m, and of the others nothing. *)
Judged(w, m) ==
  /\ mirror' \in [Mirrors -> MirrorSet]
  /\ \A n \in Mirrors \ {m} : mirror'[n] = mirror[n]
  /\ mirror'[m].inFlight = mirror[m].inFlight - 1
  /\ mirror'[m].fallback <=> mirror'[m].url = "target"
  /\ \/ mirror'[m].bad = mirror[m].bad /\ (mirror'[m].active <=> mirror[m].active)
     \/ /\ mirror'[m].bad = mirror[m].bad + 1 /\ w \in Pending(m)
        /\ mirror'[m].active <=> mirror[m].active /\ mirror[m].bad + 1 < MaxBad

LEMMA Settles ==
  ASSUME Proper, Inv, NEW w \in Workers, worker[w].at = "over", worker' = [worker EXCEPT ![w] = Idle], Judged(w, worker[w].mirror),
         UNCHANGED <<joined, probing, answered, outcome, refused, left>>,
         free' \subseteq Chunks, completed' \subseteq Chunks, tries' \in [Chunks -> 0 .. MaxRetries],
         fatal' \in {"none", "fatal", "retries", "mirrors"},
         fatal' = "mirrors" => fatal = "mirrors" \/ \A n \in joined : ~mirror'[n].active
  PROVE  Inv'
  <1>1. /\ mirror \in [Mirrors -> MirrorSet] /\ worker \in [Workers -> WorkerSet] /\ joined \subseteq Mirrors
        /\ refused \in [Mirrors -> 0 .. MaxBad] /\ Early \subseteq joined /\ MaxBad \in Nat
    BY Sets DEF Inv, Bounded, Proper
  <1> PICK m \in Mirrors : m = worker[w].mirror BY <1>1 DEF Inv, Attached
  <1>2. Judged(w, m) OBVIOUS
  <1>3. Idle \in WorkerSet BY DEF Idle, WorkerSet
  <1>4. worker' \in [Workers -> WorkerSet] /\ worker'[w] = Idle /\ \A v \in Workers \ {w} : worker'[v] = worker[v] BY <1>1, <1>3
  <1>5. ~Attempting(w)' /\ Attempting(w) /\ \A v \in Workers \ {w} : Attempting(v)' <=> Attempting(v) BY <1>4 DEF Attempting, Idle
  <1>6. Attempts(m)' = Attempts(m) \ {w} /\ w \in Attempts(m) /\ \A n \in Mirrors \ {m} : Attempts(n)' = Attempts(n)
    BY <1>4, <1>5 DEF Attempts
  <1>7. Pending(m)' = Pending(m) \ {w} /\ \A n \in Mirrors \ {m} : Pending(n)' = Pending(n)
    BY <1>4 DEF Pending, Idle
  <1>8. TypeOK' BY <1>1, <1>2, <1>4, Retyped DEF Inv, TypeOK, Judged
  <1>9. Bounded' BY DEF Inv, Bounded
  <1>10. InFlightIsTrue'
    <2> SUFFICES ASSUME NEW n \in Mirrors PROVE mirror'[n].inFlight = Cardinality(Attempts(n)') BY DEF InFlightIsTrue, Attempts
    <2>1. mirror[n].inFlight = Cardinality(Attempts(n)) BY DEF Inv, InFlightIsTrue, Attempts
    <2>2. CASE n = m
      <3>1. Attempts(m) \in SUBSET Workers BY DEF Attempts
      <3>2. Cardinality(Attempts(m) \ {w}) = Cardinality(Attempts(m)) - 1 BY <1>6, <3>1, OneLess DEF Proper
      <3> QED BY <1>2, <1>6, <2>1, <2>2, <3>2 DEF Judged
    <2>3. CASE n # m BY <1>2, <1>6, <2>1, <2>3 DEF Judged
    <2> QED BY <2>2, <2>3
  <1>11. Attached' BY <1>4, <1>5 DEF Inv, Attached, Attempting, Idle
  <1>12. Fallbacks' BY <1>2 DEF Inv, Fallbacks, Judged
  <1>13. Deserved'
    <2> SUFFICES ASSUME NEW n \in Mirrors PROVE refused[n] = MaxBad \/ mirror'[n].bad + Cardinality(Pending(n)') <= refused[n]
      BY DEF Deserved
    <2>1. refused[n] = MaxBad \/ mirror[n].bad + Cardinality(Pending(n)) <= refused[n] BY DEF Inv, Deserved
    <2>2. CASE n # m BY <1>2, <1>7, <2>1, <2>2 DEF Judged
    <2>3. CASE n = m
      <3>1. Pending(m) \in SUBSET Workers BY DEF Pending
      <3>2. mirror[m].bad \in Nat /\ refused[m] \in Nat BY <1>1 DEF MirrorSet
      <3>3. CASE w \in Pending(m)
        <4>1. Cardinality(Pending(m) \ {w}) = Cardinality(Pending(m)) - 1 /\ Cardinality(Pending(m)) \in Nat
          BY <3>1, <3>3, OneLess DEF Proper
        <4>2. mirror'[m].bad <= mirror[m].bad + 1 /\ mirror'[m].bad \in Nat BY <1>2, <3>2 DEF Judged
        <4>3. Cardinality(Pending(m)') = Cardinality(Pending(m)) - 1 BY <1>7, <4>1
        <4>4. refused[m] = MaxBad \/ mirror[m].bad + Cardinality(Pending(m)) <= refused[m] BY <2>1, <2>3
        <4>5. refused[m] = MaxBad \/ mirror'[m].bad + (Cardinality(Pending(m)) - 1) <= refused[m] BY <3>2, <4>1, <4>2, <4>4
        <4> QED BY <2>3, <4>3, <4>5
      <3>4. CASE w \notin Pending(m)
        <4>1. Pending(m) \ {w} = Pending(m) BY <3>4
        <4>2. mirror'[m].bad = mirror[m].bad BY <1>2, <3>4 DEF Judged
        <4> QED BY <1>7, <2>1, <2>3, <4>1, <4>2
      <3> QED BY <3>3, <3>4
    <2> QED BY <2>2, <2>3
  <1>14. \A n \in Mirrors : ~mirror'[n].active => refused[n] = MaxBad
    <2> SUFFICES ASSUME NEW n \in Mirrors, ~mirror'[n].active, mirror[n].active PROVE refused[n] = MaxBad
      BY DEF Inv, DroppedForItsOwn
    <2>1. n = m /\ w \in Pending(m) /\ ~(mirror[m].bad + 1 < MaxBad) BY <1>2 DEF Judged
    <2>2. Pending(m) \in SUBSET Workers BY DEF Pending
    <2>3. Cardinality(Pending(m)) \in Nat \ {0} BY <2>1, <2>2, OneLess DEF Proper
    <2>4. refused[m] = MaxBad \/ mirror[m].bad + Cardinality(Pending(m)) <= refused[m] BY DEF Inv, Deserved
    <2>5. mirror[m].bad \in Nat /\ refused[m] \in 0 .. MaxBad BY <1>1 DEF MirrorSet
    <2> QED BY <1>1, <2>1, <2>3, <2>4, <2>5
  <1>15. \A n \in Mirrors : mirror'[n].active => mirror[n].active BY <1>2 DEF Judged
  <1>16. DroppedForItsOwn' BY <1>1, <1>14, <1>15 DEF Inv, DroppedForItsOwn
  <1> QED BY <1>8, <1>9, <1>10, <1>11, <1>12, <1>13, <1>16 DEF Inv

(* mark_failed *)
LEMMA MarksFailed ==
  ASSUME Proper, Inv, NEW c \in Chunks, NEW counts \in BOOLEAN, MarkFailed(c, counts)
  PROVE  free' \subseteq Chunks /\ tries' \in [Chunks -> 0 .. MaxRetries] /\ fatal' \in {fatal, "retries"}
  <1>1. free \subseteq Chunks /\ tries \in [Chunks -> 0 .. MaxRetries] /\ MaxRetries \in Nat BY DEF Inv, TypeOK, Proper
  <1>2. CASE counts /\ tries[c] = MaxRetries BY <1>1, <1>2 DEF MarkFailed, Abort
  <1>3. CASE ~(counts /\ tries[c] = MaxRetries)
    <2>1. (IF counts THEN tries[c] + 1 ELSE tries[c]) \in 0 .. MaxRetries BY <1>1, <1>3
    <2> QED BY <1>1, <1>3, <2>1 DEF MarkFailed
  <1> QED BY <1>2, <1>3

(* The mirrors without w's attempt. *)
LEMMA Releases ==
  ASSUME Proper, Inv, NEW w \in Workers, worker[w].at = "over"
  PROVE  /\ worker[w].mirror \in Mirrors /\ worker[w].chunk \in Chunks
         /\ Released(w) \in [Mirrors -> MirrorSet]
         /\ \A n \in Mirrors \ {worker[w].mirror} : Released(w)[n] = mirror[n]
         /\ Released(w)[worker[w].mirror] = [mirror[worker[w].mirror] EXCEPT !.inFlight = @ - 1]
         /\ mirror[worker[w].mirror].inFlight - 1 \in 0 .. Cardinality(Workers)
  <1>1. mirror \in [Mirrors -> MirrorSet] /\ joined \subseteq Mirrors BY Sets DEF Inv
  <1> PICK m \in Mirrors : m = worker[w].mirror BY <1>1 DEF Inv, Attached
  <1>2. worker[w].chunk \in Chunks BY DEF Inv, Attached, Attempting
  <1>3. w \in Attempts(m) /\ Attempts(m) \in SUBSET Workers /\ mirror[m].inFlight = Cardinality(Attempts(m))
    BY DEF Attempts, Attempting, Inv, InFlightIsTrue
  <1>4. Cardinality(Attempts(m)) \in Nat \ {0} BY <1>3, OneLess DEF Proper
  <1>5. Cardinality(Attempts(m)) \in 0 .. Cardinality(Workers) /\ Cardinality(Workers) \in Nat BY <1>3, AtMostAll DEF Proper
  <1>6. mirror[m].inFlight - 1 \in 0 .. Cardinality(Workers) BY <1>3, <1>4, <1>5
  <1>7. Released(w) = [mirror EXCEPT ![m].inFlight = @ - 1] BY DEF Released
  <1>8. Released(w) \in [Mirrors -> MirrorSet] BY <1>1, <1>6, <1>7 DEF MirrorSet
  <1> QED BY <1>1, <1>2, <1>6, <1>7, <1>8

(* A mirror that only has one connection less. *)
LEMMA JustReleased ==
  ASSUME Proper, Inv, NEW w \in Workers, worker[w].at = "over", mirror' = Released(w)
  PROVE  Judged(w, worker[w].mirror)
  <1> PICK m \in Mirrors : m = worker[w].mirror BY Releases
  <1>1. mirror[m] \in MirrorSet /\ (mirror[m].fallback <=> mirror[m].url = "target") BY Sets DEF Inv, Fallbacks
  <1>2. mirror'[m] = [mirror[m] EXCEPT !.inFlight = @ - 1] BY Releases
  <1>3. mirror'[m].inFlight = mirror[m].inFlight - 1 /\ mirror'[m].bad = mirror[m].bad /\ mirror'[m].url = mirror[m].url
    BY <1>1, <1>2 DEF MirrorSet
  <1>4. mirror'[m].fallback <=> mirror[m].fallback BY <1>1, <1>2 DEF MirrorSet
  <1>5. mirror'[m].active <=> mirror[m].active BY <1>1, <1>2 DEF MirrorSet
  <1> QED BY <1>1, <1>3, <1>4, <1>5, Releases DEF Judged

(* record_failure *)
LEMMA FailuresAreJudged ==
  ASSUME Proper, Inv, NEW w \in Workers, worker[w].at = "over",
         RecordFailure(worker[w].mirror, Released(w), worker[w].url, worker[w].chunk, worker[w].res)
  PROVE  /\ Judged(w, worker[w].mirror)
         /\ free' \subseteq Chunks /\ tries' \in [Chunks -> 0 .. MaxRetries] /\ fatal' \in {"none", "fatal", "retries", "mirrors"}
         /\ fatal' = "mirrors" => fatal = "mirrors" \/ \A n \in joined : ~mirror'[n].active
  <1> PICK m \in Mirrors : m = worker[w].mirror BY Releases
  <1> PICK c \in Chunks : c = worker[w].chunk BY Releases
  <1> DEFINE released == Released(w)
             url == worker[w].url
             res == worker[w].res
             denied == res = "denied" /\ ~FormerUrl(m, url)
  <1>1. /\ mirror[m] \in MirrorSet /\ (mirror[m].fallback <=> mirror[m].url = "target")
        /\ free \subseteq Chunks /\ tries \in [Chunks -> 0 .. MaxRetries] /\ fatal \in {"none", "fatal", "retries", "mirrors"}
    BY Sets DEF Inv, Fallbacks, TypeOK
  <1>2. /\ released \in [Mirrors -> MirrorSet] /\ (\A n \in Mirrors \ {m} : released[n] = mirror[n])
        /\ released[m] = [mirror[m] EXCEPT !.inFlight = @ - 1]
    BY Releases
  <1>3. /\ released[m] \in MirrorSet /\ released[m].inFlight = mirror[m].inFlight - 1 /\ released[m].bad = mirror[m].bad
        /\ released[m].url = mirror[m].url /\ released[m].cap = mirror[m].cap
        /\ released[m].fallback <=> mirror[m].fallback
        /\ released[m].active <=> mirror[m].active
    <2>1. released[m].inFlight = mirror[m].inFlight - 1 /\ released[m].bad = mirror[m].bad
          /\ released[m].url = mirror[m].url /\ released[m].cap = mirror[m].cap BY <1>1, <1>2 DEF MirrorSet
    <2>2. released[m].fallback <=> mirror[m].fallback BY <1>1, <1>2 DEF MirrorSet
    <2>3. released[m].active <=> mirror[m].active BY <1>1, <1>2 DEF MirrorSet
    <2> QED BY <1>2, <2>1, <2>2, <2>3
  <1>4. mirror' = released => Judged(w, m) BY JustReleased
  <1> HIDE DEF released
  <1>5. ASSUME NEW counts \in BOOLEAN, MarkFailed(c, counts)
        PROVE  /\ free' \subseteq Chunks /\ tries' \in [Chunks -> 0 .. MaxRetries] /\ fatal' \in {"none", "fatal", "retries", "mirrors"}
               /\ fatal' = "mirrors" => fatal = "mirrors"
    BY <1>1, <1>5, MarksFailed
  <1> DEFINE Goal == /\ Judged(w, m)
                     /\ free' \subseteq Chunks /\ tries' \in [Chunks -> 0 .. MaxRetries] /\ fatal' \in {"none", "fatal", "retries", "mirrors"}
                     /\ fatal' = "mirrors" => fatal = "mirrors" \/ \A n \in joined : ~mirror'[n].active
  <1>6. ASSUME res = "fatal", Abort("fatal"), mirror' = released, UNCHANGED <<free, tries>> PROVE Goal
    BY <1>1, <1>4, <1>6 DEF Abort
  <1>7. ASSUME mirror' = released, NEW counts \in BOOLEAN, MarkFailed(c, counts) PROVE Goal BY <1>4, <1>5, <1>7
  <1>8. ASSUME mirror' = [released EXCEPT ![m].url = "own", ![m].fallback = FALSE], MarkFailed(c, FALSE) PROVE Goal
    <2>1. mirror'[m] = [released[m] EXCEPT !.url = "own", !.fallback = FALSE] /\ \A n \in Mirrors \ {m} : mirror'[n] = released[n]
      BY <1>2, <1>3, <1>8 DEF MirrorSet
    <2>2. mirror' \in [Mirrors -> MirrorSet] BY <1>2, <1>3, <1>8 DEF MirrorSet
    <2>3. mirror'[m].inFlight = released[m].inFlight /\ mirror'[m].bad = released[m].bad /\ mirror'[m].url = "own"
      BY <1>3, <2>1 DEF MirrorSet
    <2>4. mirror'[m].active <=> released[m].active BY <1>3, <2>1 DEF MirrorSet
    <2>5. ~mirror'[m].fallback BY <1>3, <2>1 DEF MirrorSet
    <2>6. Judged(w, m) BY <1>2, <1>3, <2>1, <2>2, <2>3, <2>4, <2>5 DEF Judged
    <2> QED BY <1>5, <1>8, <2>6
  <1>9. ASSUME res = "bad" \/ (denied /\ ~mirror[m].fallback),
               mirror' = [released EXCEPT ![m].bad = @ + 1, ![m].active = @ /\ mirror[m].bad + 1 < MaxBad],
               IF \A n \in joined : ~mirror'[n].active THEN Abort("mirrors") /\ UNCHANGED <<free, tries>> ELSE MarkFailed(c, FALSE)
        PROVE  Goal
    <2>1. PICK on \in BOOLEAN : on <=> (released[m].active /\ mirror[m].bad + 1 < MaxBad) OBVIOUS
    <2>2. mirror[m].bad \in Nat BY <1>1 DEF MirrorSet
    <2>3. mirror' = [released EXCEPT ![m].bad = @ + 1, ![m].active = on]
      <3>1. (released[m].active /\ mirror[m].bad + 1 < MaxBad) = on BY <2>1
      <3> QED BY <1>9, <3>1
    <2>4. mirror'[m] = [released[m] EXCEPT !.bad = @ + 1, !.active = on] /\ \A n \in Mirrors \ {m} : mirror'[n] = released[n]
      BY <1>2, <1>3, <2>3 DEF MirrorSet
    <2>5. mirror' \in [Mirrors -> MirrorSet]
      <3>1. PICK b \in Nat : b = released[m].bad + 1 BY <1>3, <2>2
      <3>2. mirror' = [released EXCEPT ![m].bad = b, ![m].active = on] BY <2>3, <3>1
      <3> DEFINE dropped == [released[m] EXCEPT !.bad = b, !.active = on]
      <3>3. dropped \in MirrorSet BY <1>3 DEF MirrorSet
      <3>4. mirror' = [released EXCEPT ![m] = dropped] BY <1>2, <3>2
      <3> HIDE DEF dropped
      <3> QED BY <1>2, <3>3, <3>4
    <2>6. mirror'[m].inFlight = released[m].inFlight /\ mirror'[m].bad = released[m].bad + 1 /\ mirror'[m].url = released[m].url
      BY <1>3, <2>4 DEF MirrorSet
    <2>7. mirror'[m].active <=> on BY <1>3, <2>4 DEF MirrorSet
    <2>8. mirror'[m].fallback <=> released[m].fallback BY <1>3, <2>4 DEF MirrorSet
    <2>9. w \in Pending(m)
      <3>1. url = "own"
        <4>1. CASE res = "bad" BY <4>1 DEF Inv, Attached
        <4>2. CASE denied /\ ~mirror[m].fallback
          <5>1. url = mirror[m].url /\ mirror[m].url # "target" BY <1>1, <4>2 DEF FormerUrl
          <5> QED BY <1>1, <5>1 DEF MirrorSet
        <4> QED BY <1>9, <4>1, <4>2
      <3> QED BY <1>9, <3>1 DEF Pending
    <2>10. Judged(w, m) BY <1>1, <1>2, <1>3, <2>1, <2>4, <2>5, <2>6, <2>7, <2>8, <2>9 DEF Judged
    <2>11. CASE \A n \in joined : ~mirror'[n].active BY <1>1, <1>9, <2>10, <2>11 DEF Abort
    <2>12. CASE ~(\A n \in joined : ~mirror'[n].active) BY <1>5, <1>9, <2>10, <2>12
    <2> QED BY <2>11, <2>12
  <1>10. ASSUME NEW k \in 1 .. NoCap, NEW cools \in BOOLEAN, mirror' = [released EXCEPT ![m].cap = k, ![m].cooling = cools],
                NEW counts \in BOOLEAN, MarkFailed(c, counts)
         PROVE  Goal
    <2>1. mirror'[m] = [released[m] EXCEPT !.cap = k, !.cooling = cools] /\ \A n \in Mirrors \ {m} : mirror'[n] = released[n]
      BY <1>2, <1>3, <1>10 DEF MirrorSet
    <2>2. mirror' \in [Mirrors -> MirrorSet] BY <1>2, <1>3, <1>10 DEF MirrorSet
    <2>3. mirror'[m].inFlight = released[m].inFlight /\ mirror'[m].bad = released[m].bad /\ mirror'[m].url = released[m].url
      BY <1>3, <2>1 DEF MirrorSet
    <2>4. mirror'[m].active <=> released[m].active BY <1>3, <2>1 DEF MirrorSet
    <2>5. mirror'[m].fallback <=> released[m].fallback BY <1>3, <2>1 DEF MirrorSet
    <2>6. Judged(w, m) BY <1>1, <1>2, <1>3, <2>1, <2>2, <2>3, <2>4, <2>5 DEF Judged
    <2> QED BY <1>5, <1>10, <2>6
  <1>11. ASSUME ~ThrottledAlone(released[m].inFlight),
                mirror' = [released EXCEPT ![m].cap = IF 0 < released[m].inFlight /\ released[m].inFlight < @ THEN released[m].inFlight ELSE @],
                MarkFailed(c, FALSE)
         PROVE  Goal
    <2>1. released[m].inFlight \in Nat /\ released[m].cap \in 1 .. NoCap /\ released[m].cooling \in BOOLEAN
      <3>1. Cardinality(Workers) \in Nat BY FS_CardinalityType DEF Proper
      <3> QED BY <1>3, <3>1 DEF MirrorSet
    <2>2. NoCap \in Nat BY SomeCap
    <2>3. PICK k \in 1 .. NoCap : k = IF 0 < released[m].inFlight /\ released[m].inFlight < released[m].cap
                                       THEN released[m].inFlight ELSE released[m].cap
      BY <2>1, <2>2
    <2>4. mirror' = [released EXCEPT ![m].cap = k] BY <1>11, <2>3
    <2>5. [released EXCEPT ![m].cap = k] = [released EXCEPT ![m].cap = k, ![m].cooling = released[m].cooling]
      BY <1>2, <1>3, <2>1 DEF MirrorSet
    <2> QED BY <1>10, <1>11, <2>1, <2>4, <2>5
  <1>12. ASSUME mirror' = [released EXCEPT ![m].cap = 1, ![m].cooling = TRUE], MarkFailed(c, TRUE) PROVE Goal
    <2>1. 1 \in 1 .. NoCap BY SomeCap
    <2> QED BY <1>10, <1>12, <2>1
  <1>13. RecordFailure(m, released, url, c, res) BY DEF released
  <1> QED BY <1>6, <1>7, <1>8, <1>9, <1>11, <1>12, <1>13 DEF RecordFailure

LEMMA Finishes == ASSUME Proper, Inv, NEW w \in Workers, Finish(w) PROVE Inv'
  <1>1. worker[w].at = "over" /\ worker' = [worker EXCEPT ![w] = Idle] /\ UNCHANGED <<joined, probing, answered, outcome, refused, left>>
    BY DEF Finish, Settle, Stop
  <1>2. /\ free \subseteq Chunks /\ completed \subseteq Chunks /\ tries \in [Chunks -> 0 .. MaxRetries]
        /\ fatal \in {"none", "fatal", "retries", "mirrors"}
    BY DEF Inv, TypeOK
  <1>3. worker[w].chunk \in Chunks BY <1>1, Releases
  <1> DEFINE Goal == /\ Judged(w, worker[w].mirror)
                     /\ free' \subseteq Chunks /\ completed' \subseteq Chunks /\ tries' \in [Chunks -> 0 .. MaxRetries]
                     /\ fatal' \in {"none", "fatal", "retries", "mirrors"}
                     /\ fatal' = "mirrors" => fatal = "mirrors" \/ \A n \in joined : ~mirror'[n].active
  <1>4. ASSUME Stop(w) PROVE Goal BY <1>1, <1>2, <1>4, JustReleased DEF Stop
  <1>5. ASSUME Settle(w), worker[w].revoked PROVE Goal BY <1>1, <1>2, <1>5, JustReleased DEF Settle, Abort
  <1>6. ASSUME Settle(w), ~worker[w].revoked, worker[w].res = "ok" PROVE Goal BY <1>1, <1>2, <1>3, <1>6, JustReleased DEF Settle
  <1>7. ASSUME Settle(w), ~worker[w].revoked, worker[w].res # "ok" PROVE Goal
    <2>1. RecordFailure(worker[w].mirror, Released(w), worker[w].url, worker[w].chunk, worker[w].res) /\ completed' = completed
      BY <1>7 DEF Settle
    <2> QED BY <1>1, <1>2, <2>1, FailuresAreJudged
  <1>8. Goal BY <1>4, <1>5, <1>6, <1>7 DEF Finish
  <1> QED BY <1>1, <1>8, Settles

LEMMA MirrorNext == ASSUME Proper, Inv, [Next]_vars PROVE Inv'
  <1>1. CASE UNCHANGED vars BY <1>1, EngineGoesOn
  <1>2. ASSUME NEW w \in Workers, TakeSlot(w) \/ NoJob(w) \/ Answered(w) \/ Received(w) \/ Interrupted(w) PROVE Inv' BY <1>2, AttemptsGoOn
  <1>3. ASSUME NEW w \in Workers, NextJob(w) \/ TakeOver(w) PROVE Inv' BY <1>3, JobsBegin
  <1>4. ASSUME NEW w \in Workers, Refused(w) PROVE Inv' BY <1>4, Refuses
  <1>5. ASSUME NEW w \in Workers, Finish(w) PROVE Inv' BY <1>5, Finishes
  <1>6. ASSUME NEW m \in Mirrors, CoolsDown(m) \/ Hear(m) \/ Admit(m) PROVE Inv' BY <1>6, EngineGoesOn
  <1>7. CASE End \/ Cancel BY <1>7, EngineGoesOn
  <1> QED BY <1>1, <1>2, <1>3, <1>4, <1>5, <1>6, <1>7 DEF Next, Attempt

LEMMA MirrorInductive == ASSUME Proper PROVE Spec => []Inv
  <1>1. Init => Inv BY MirrorInit
  <1>2. Inv /\ [Next]_vars => Inv' BY MirrorNext
  <1> QED BY <1>1, <1>2, PTL DEF Spec

-----------------------------------------------------------------------------
(* A mirror's connections are counted right, whoever takes a chunk over from whom, whatever the verdict and *)
(* however the download ends: every attempt counts itself once and gives that back once (mirror.rs,         *)
(* in_flight; worker.rs, next_job, conclude).                                                               *)
THEOREM ConnectionsCounted == ASSUME Proper PROVE Spec => [](TypeOK /\ InFlightIsTrue)
  <1>1. Spec => []Inv BY MirrorInductive
  <1>2. Inv => TypeOK /\ InFlightIsTrue BY DEF Inv
  <1> QED BY <1>1, <1>2, PTL

(* A mirror is dropped only after MaxBad bad answers of its own URL, however late those of the target it was *)
(* redirected to are settled, and the download gives up on its mirrors only once it has dropped each it      *)
(* started with (worker.rs, record_failure, at_redirect_target).                                             *)
THEOREM OnlyDeserved == ASSUME Proper PROVE Spec => []DroppedForItsOwn
  <1>1. Spec => []Inv BY MirrorInductive
  <1>2. Inv => DroppedForItsOwn BY DEF Inv
  <1> QED BY <1>1, <1>2, PTL

-----------------------------------------------------------------------------
(***************************************************************************)
(* Repairs of a file, for any pieces, versions and mirrors, beside another *)
(* download of it, any number of times, with crashes, failing calls, data  *)
(* that is damaged and versions that are published in between (Repair).    *)
(*                                                                         *)
(* Whoever changes the .part, its state or the name has the claim, and of  *)
(* each place where it may be it is said what lies there then, so that     *)
(* what it, or whoever comes after a crash, goes by is true.  The others   *)
(* rely on no more than that a file that lies at its name stays there.     *)
(***************************************************************************)
CONSTANTS Pieces, Versions, Links, Honors, Rounds, Bad, Hole, Budget
VARIABLES file, part, state, volatile, aside, claim, history, hashed, remote, repair, engine, chances

P == INSTANCE Repair WITH left <- chances

(* What may happen, each as often as Budget says. *)
Events == {"repair", "other", "crash", "publish", "fail", "corrupt"}

(* Versions have numbers, the first of them 1, and damage and holes are of none; there is a link; and None is not *)
(* anything that may lie where it says that nothing does.                                                         *)
Mendable ==
  /\ Versions \subseteq Nat \ {0} /\ 1 \in Versions
  /\ Bad \notin Versions /\ Hole \notin Versions /\ Bad # Hole
  /\ Links \in Seq(P!Mirrors) /\ Links # <<>> /\ Honors \subseteq P!Mirrors
  /\ Budget \in [Events -> Nat]
  /\ None \notin [Pieces -> P!Content] /\ None \notin [tag : Versions \cup {0}, done : SUBSET Pieces]
  /\ None \notin {"own", "other", "repair"}

RepairPCs ==
  {"idle", "claim", "prepare", "move", "open", "check", "read", "look", "engine", "keep", "inPlace", "tidy"}
EnginePCs == {"idle", "probe", "plan", "aside", "stale", "save", "open", "fetch", "renamed", "record"}

(* Where the repair, or an engine, holds the claim on the name. *)
Mending == {"prepare", "move", "open", "check", "inPlace", "tidy"}
Writing == {"stale", "save", "open", "fetch", "renamed"}

StateSet == [tag : Versions \cup {0}, done : SUBSET Pieces]
EntrySet == [hash : [Pieces -> P!Content], tag : Versions, pieces : BOOLEAN]
RepairSet ==
  [at : RepairPCs, path : {"file", "part"}, missing : SUBSET Pieces, tag : Versions \cup {0}, done : SUBSET Pieces,
   usable : SUBSET P!Mirrors, seen : [P!Mirrors -> Versions \cup {0}], recorded : EntrySet \cup {None}, before : BOOLEAN]
EngineSet ==
  [at : EnginePCs, links : SUBSET P!Mirrors, version : Versions \cup {0}, done : SUBSET Pieces, hash : P!Data, round : Nat]

TypedRepair ==
  /\ file \in P!Data /\ part \in P!Data /\ state \in StateSet \cup {None} /\ volatile \subseteq Pieces
  /\ aside \in {"none", "saved", "started", "copy"} /\ claim \in {"own", "other", "repair", None}
  /\ history \in EntrySet /\ hashed \in BOOLEAN /\ remote \in [P!Mirrors -> Versions]
  /\ repair \in RepairSet /\ engine \in [P!Engines -> EngineSet] /\ chances \in [Events -> Nat]

(* The claim says who is at work, the repair's engine runs for the repair, and a download that gave its claim up *)
(* for good has its entry written before anybody claims the name.                                                *)
Claimed ==
  /\ claim = "repair" <=> repair.at \in Mending
  /\ \A e \in P!Engines : claim = e <=> engine[e].at \in Writing
  /\ \A e \in P!Engines : engine[e].at = "record" => claim = None
  /\ repair.at = "engine" <=> engine["own"].at # "idle"

(* The version a state speaks of: the one it names, or else the metalink's. *)
VersionOf(tag) == IF tag = 0 THEN 1 ELSE tag

(* Those that have a metalink's hashes deal with the first version alone. *)
HeldByHashes ==
  /\ hashed => \A m \in P!Mirrors : remote[m] = 1
  /\ state # None /\ state.tag = 0 => hashed

DiskRight(p, s, v) ==
  p # None => s # None /\ s.done \cap v = {} /\ \A q \in s.done : p[q] \in {VersionOf(s.tag), Bad}

(* Only the file that was cut short has holes. *)
FileRight(f, h) == f # None /\ P!Holes(f) # {} => h.tag = 1 /\ \A q \in Pieces : f[q] \in {1, Bad, Hole}

EntryRight(h) == \A q \in Pieces : h.hash[q] \in {h.tag, Bad}

(* Of the file f, the part p, its state s and the entry h, what the repair r relies on where it is. *)
RepairRight(f, p, s, h, r) ==
  /\ r.at \in {"claim", "prepare"} /\ r.path = "file" =>
       f # None /\ \A q \in Pieces \ r.missing : f[q] \in {h.tag, Bad, Hole}
  /\ r.at = "move" =>
       /\ f # None /\ p = None /\ s = [tag |-> r.tag, done |-> r.done] /\ r.tag \in Versions
       /\ r.done = Pieces \ (r.missing \cup P!Holes(f)) /\ \A q \in r.done : f[q] \in {r.tag, Bad}
  /\ r.at = "open" => s = [tag |-> r.tag, done |-> r.done] /\ (p = None => r.done = {})
  /\ r.at \in {"check", "inPlace"} =>
       p # None /\ s # None /\ s.tag = r.tag /\ s.done \subseteq r.done /\ \A q \in r.done : p[q] \in {VersionOf(r.tag), Bad}
  /\ r.at = "tidy" => p = None
  /\ \A m \in P!Mirrors : r.seen[m] # 0 => r.at \in {"inPlace", "tidy"} /\ r.tag \in {0, r.seen[m]}
  /\ r.at \in {"read", "look", "engine", "keep"} => r.usable \subseteq Honors /\ r.usable # {}
  /\ r.at \in {"look", "engine", "keep"} => r.recorded \in EntrySet /\ EntryRight(r.recorded)
  /\ r.at = "keep" => f # None /\ P!Holes(f) = {}

(* The same of an engine x. *)
EngineRight(f, p, s, hd, x) ==
  /\ hd \/ x.links \subseteq Honors
  /\ x.at \notin {"idle", "probe"} => x.version \in Versions /\ (hd => x.version = 1)
  /\ x.at \in {"stale", "save", "open", "fetch"} => f = None
  /\ x.at \in {"stale", "renamed"} => p = None
  /\ x.at = "save" =>
       IF p = None THEN x.done = {} ELSE s # None /\ s.done = x.done /\ s.tag \in {0, x.version}
  /\ x.at = "open" => s = [tag |-> x.version, done |-> x.done] /\ (p = None => x.done = {})
  /\ x.at = "fetch" =>
       p # None /\ s # None /\ s.tag = x.version /\ s.done \subseteq x.done /\ \A q \in x.done : p[q] \in {x.version, Bad}
  /\ x.at \in {"renamed", "record"} => f = x.hash /\ f # None /\ \A q \in Pieces : f[q] \in {x.version, Bad}

(* A download saved under the next name before is known to the repair's engine. *)
AsideKnown == aside = "saved" /\ repair.at = "engine" => repair.before

EnginesRight == \A e \in P!Engines : EngineRight(file, part, state, hashed, engine[e])

MendInv ==
  /\ TypedRepair /\ Claimed /\ HeldByHashes /\ DiskRight(part, state, volatile) /\ FileRight(file, history)
  /\ EntryRight(history) /\ RepairRight(file, part, state, history, repair) /\ EnginesRight /\ AsideKnown

(* As long as nothing else happens there is one version, and history vouches for damage only while the repair's own *)
(* engine has just entered it.                                                                                      *)
Alone == \A what \in {"crash", "other", "publish"} : chances[what] = Budget[what]
Clean(h) == Bad \notin {h.hash[q] : q \in Pieces}

AloneRight ==
  /\ engine["other"].at = "idle" /\ \A m \in P!Mirrors : remote[m] = 1
  /\ history.tag = 1 /\ (state # None => state.tag = 1)
  /\ engine["own"].at \notin {"idle", "probe"} => engine["own"].version = 1
  /\ repair.at \notin {"idle", "claim", "prepare"} => repair.tag = 1
  /\ repair.at # "keep" => Clean(history)
  /\ repair.at \in {"look", "engine", "keep"} => Clean(repair.recorded) /\ repair.recorded.tag = 1

OneVersionAlone == (\A what \in Events : chances[what] <= Budget[what]) /\ (Alone => AloneRight)

-----------------------------------------------------------------------------
LEMMA FirstVersion ==
  ASSUME Mendable
  PROVE  /\ 1 \in Versions /\ 0 \notin Versions /\ \A tag \in Versions : VersionOf(tag) = tag
         /\ VersionOf(0) = 1 /\ \A tag \in Versions \cup {0} : VersionOf(tag) \in Versions
         /\ Bad \notin Versions /\ Hole \notin Versions /\ Bad # Hole /\ {1, Bad, Hole} \subseteq P!Content
  BY DEF Mendable, VersionOf, P!Content

LEMMA NoneIsNone ==
  ASSUME Mendable
  PROVE  None \notin [Pieces -> P!Content] /\ None \notin StateSet /\ None \notin {"own", "other", "repair"}
  BY DEF Mendable, StateSet

LEMMA TheMirrors ==
  ASSUME Mendable
  PROVE  /\ Len(Links) \in Nat \ {0} /\ \A i \in 1 .. Len(Links) : Links[i] \in P!Mirrors
         /\ \A i \in DOMAIN Links : Links[i] \in P!Mirrors
         /\ \A n \in Nat : (n % Len(Links)) + 1 \in 1 .. Len(Links)
  <1>1. Len(Links) \in Nat \ {0} BY DEF Mendable
  <1>2. DOMAIN Links = 1 .. Len(Links) BY DEF Mendable
  <1>3. \A i \in DOMAIN Links : Links[i] \in P!Mirrors BY DEF P!Mirrors
  <1>4. \A n \in Nat : (n % Len(Links)) + 1 \in 1 .. Len(Links) BY <1>1
  <1> QED BY <1>1, <1>2, <1>3, <1>4

LEMMA NoRepairIs ==
  ASSUME Mendable
  PROVE  P!NoRepair \in RepairSet /\ P!NoRepair.at = "idle" /\ P!NoRepair.tag = 0 /\ P!NoRepair.done = {}
  <1>1. [m \in P!Mirrors |-> 0] \in [P!Mirrors -> Versions \cup {0}] OBVIOUS
  <1> QED BY <1>1 DEF P!NoRepair, RepairSet, RepairPCs

LEMMA NoEngineIs ==
  ASSUME Mendable
  PROVE  /\ P!NoEngine \in EngineSet /\ P!NoEngine.at = "idle" /\ P!NoEngine.version = 0 /\ P!NoEngine.done = {}
         /\ P!NoEngine.links = {}
  BY DEF P!NoEngine, EngineSet, EnginePCs, P!Data

(* Nothing is relied on by those that do nothing. *)
LEMMA RestIsRight ==
  ASSUME Mendable, NEW f, NEW p, NEW s, NEW h, NEW hd
  PROVE  RepairRight(f, p, s, h, P!NoRepair) /\ EngineRight(f, p, s, hd, P!NoEngine)
  <1>1. \A m \in P!Mirrors : P!NoRepair.seen[m] = 0 BY DEF P!NoRepair
  <1> QED BY <1>1, NoRepairIs, NoEngineIs DEF RepairRight, EngineRight

(* An engine that does not hold the claim relies only on the file staying where it is. *)
LEMMA EngineStays ==
  ASSUME NEW f, NEW p, NEW s, NEW hd, NEW x, NEW g, NEW q, NEW t, EngineRight(f, p, s, hd, x),
         x.at \notin Writing, x.at = "record" /\ f # None => g = f
  PROVE  EngineRight(g, q, t, hd, x)
  BY DEF EngineRight, Writing

(* So does the repair. *)
LEMMA RepairStays ==
  ASSUME NEW f, NEW p, NEW s, NEW h, NEW r, NEW g, NEW q, NEW t, RepairRight(f, p, s, h, r),
         r.at \notin Mending, f # None => g = f
  PROVE  RepairRight(g, q, t, h, r)
  BY DEF RepairRight, Mending

(* A step of an engine, that has the claim or needs none, keeps the invariant if what it leaves is right. *)
LEMMA EngineSteps ==
  ASSUME Mendable, MendInv, NEW e \in P!Engines, NEW x \in EngineSet, NEW r \in RepairSet,
         claim \in {e, None}, engine' = [engine EXCEPT ![e] = x], repair' = r, UNCHANGED <<hashed, remote>>,
         TypedRepair', FileRight(file', history'), EntryRight(history'), DiskRight(part', state', volatile'),
         state' # None /\ state'.tag = 0 => hashed,
         claim' = IF x.at \in Writing THEN e ELSE None,
         file # None => file' = file, x.at \in Writing => engine[e].at \in Writing \/ file = None,
         EngineRight(file', part', state', hashed, x), r.at \notin Mending,
         RepairRight(file', part', state', history', r),
         r.at = "engine" <=> (IF e = "own" THEN x ELSE engine["own"]).at # "idle", AsideKnown'
  PROVE  MendInv'
  <1>1. engine \in [P!Engines -> EngineSet] BY DEF MendInv, TypedRepair
  <1>2. engine'[e] = x /\ \A o \in P!Engines : o # e => engine'[o] = engine[o] BY <1>1
  <1>3. \A o \in P!Engines : o # e => engine[o].at \notin Writing /\ o # claim'
    BY NoneIsNone DEF MendInv, Claimed, P!Engines
  <1>4. e # None BY NoneIsNone DEF P!Engines
  <1>5. Claimed'
    <2>1. claim' = "repair" <=> r.at \in Mending BY NoneIsNone DEF P!Engines
    <2>2. \A o \in P!Engines : claim' = o <=> engine'[o].at \in Writing BY <1>2, <1>3, <1>4
    <2>3. ASSUME NEW o \in P!Engines, engine'[o].at = "record" PROVE claim' = None
      <3>1. CASE o = e BY <3>1, <2>3, <1>2 DEF Writing
      <3>2. CASE o # e
        <4>1. engine[o].at = "record" /\ claim = None BY <3>2, <2>3, <1>2 DEF MendInv, Claimed
        <4>2. engine[e].at \notin Writing BY <4>1, <1>4 DEF MendInv, Claimed
        <4>3. file # None BY <4>1 DEF MendInv, EnginesRight, EngineRight
        <4> QED BY <4>2, <4>3
      <3> QED BY <3>1, <3>2
    <2>4. repair'.at = "engine" <=> engine'["own"].at # "idle" BY <1>2 DEF P!Engines
    <2> QED BY <2>1, <2>2, <2>3, <2>4 DEF Claimed
  <1>6. EnginesRight'
    <2> SUFFICES ASSUME NEW o \in P!Engines PROVE EngineRight(file', part', state', hashed, engine'[o])
      BY DEF EnginesRight
    <2>1. CASE o = e BY <2>1, <1>2
    <2>2. CASE o # e
      <3>1. EngineRight(file, part, state, hashed, engine[o]) BY DEF MendInv, EnginesRight
      <3>2. EngineRight(file', part', state', hashed, engine[o]) BY <3>1, <2>2, <1>3, EngineStays
      <3> QED BY <3>2, <2>2, <1>2
    <2> QED BY <2>1, <2>2
  <1>7. HeldByHashes' BY DEF MendInv, HeldByHashes
  <1> QED BY <1>5, <1>6, <1>7 DEF MendInv

(* So does one of the repair. *)
LEMMA RepairSteps ==
  ASSUME Mendable, MendInv, NEW r \in RepairSet,
         claim \in {"repair", None}, repair' = r, UNCHANGED <<engine, hashed, remote>>,
         TypedRepair', FileRight(file', history'), EntryRight(history'), DiskRight(part', state', volatile'),
         state' # None /\ state'.tag = 0 => hashed,
         claim' = IF r.at \in Mending THEN "repair" ELSE None,
         file' = file \/ repair.at \in Mending,
         r.at \in Mending => repair.at \in Mending \/ \A e \in P!Engines : engine[e].at # "record",
         RepairRight(file', part', state', history', r),
         r.at = "engine" <=> repair.at = "engine", AsideKnown'
  PROVE  MendInv'
  <1>1. \A o \in P!Engines : engine[o].at \notin Writing /\ o # claim'
    BY NoneIsNone DEF MendInv, Claimed, P!Engines
  <1>2. repair.at \in Mending => \A o \in P!Engines : engine[o].at # "record"
    BY NoneIsNone DEF MendInv, Claimed
  <1>3. Claimed'
    <2>1. claim' = "repair" <=> r.at \in Mending BY NoneIsNone
    <2>2. \A o \in P!Engines : claim' = o <=> engine'[o].at \in Writing BY <1>1
    <2>3. ASSUME NEW o \in P!Engines, engine'[o].at = "record" PROVE claim' = None BY <2>3, <1>2
    <2>4. repair'.at = "engine" <=> engine'["own"].at # "idle" BY DEF MendInv, Claimed
    <2> QED BY <2>1, <2>2, <2>3, <2>4 DEF Claimed
  <1>4. EnginesRight'
    <2> SUFFICES ASSUME NEW o \in P!Engines PROVE EngineRight(file', part', state', hashed, engine[o])
      BY DEF EnginesRight
    <2>1. EngineRight(file, part, state, hashed, engine[o]) BY DEF MendInv, EnginesRight
    <2> QED BY <2>1, <1>1, <1>2, EngineStays
  <1>5. HeldByHashes' BY DEF MendInv, HeldByHashes
  <1> QED BY <1>3, <1>4, <1>5 DEF MendInv

(* Steps that leave the disk and the claim to others. *)
LEMMA StepsBeside ==
  ASSUME Mendable, MendInv, NEW r \in RepairSet, NEW E \in [P!Engines -> EngineSet],
         UNCHANGED <<file, part, state, volatile, claim, hashed, remote>>, repair' = r, engine' = E,
         aside' \in {"none", "saved", "started", "copy"}, chances' \in [Events -> Nat],
         history' \in EntrySet, EntryRight(history'), FileRight(file, history'),
         r.at \in Mending <=> repair.at \in Mending, RepairRight(file, part, state, history', r),
         \A e \in P!Engines : \/ E[e] = engine[e]
                              \/ /\ E[e].at \notin Writing \cup {"record"} /\ engine[e].at \notin Writing
                                 /\ EngineRight(file, part, state, hashed, E[e]),
         r.at = "engine" <=> E["own"].at # "idle", AsideKnown'
  PROVE  MendInv'
  <1>1. TypedRepair' BY DEF MendInv, TypedRepair
  <1>2. Claimed'
    <2>1. claim' = "repair" <=> repair'.at \in Mending BY DEF MendInv, Claimed
    <2>2. \A o \in P!Engines : claim' = o <=> engine'[o].at \in Writing BY DEF MendInv, Claimed
    <2>3. ASSUME NEW o \in P!Engines, engine'[o].at = "record" PROVE claim' = None BY <2>3 DEF MendInv, Claimed
    <2> QED BY <2>1, <2>2, <2>3 DEF Claimed
  <1>3. EnginesRight' BY DEF MendInv, EnginesRight
  <1>4. HeldByHashes' BY DEF MendInv, HeldByHashes
  <1> QED BY <1>1, <1>2, <1>3, <1>4 DEF MendInv

-----------------------------------------------------------------------------
LEMMA Verifies == ASSUME Mendable, MendInv, P!Verify PROVE MendInv'
  <1>1. PICK r \in RepairSet : /\ repair' = r /\ r.at = "claim" /\ r.tag = 0 /\ r.seen = P!NoRepair.seen
                               /\ r.missing = (IF P!Gaps # {} THEN P!Gaps ELSE P!Damaged) /\ r.missing # {}
                               /\ r.path = IF file # None THEN "file" ELSE "part"
    <2>1. P!Gaps \subseteq Pieces /\ P!Damaged \subseteq Pieces BY DEF P!Gaps, P!Damaged, P!Holes
    <2>2. PICK m : m = (IF P!Gaps # {} THEN P!Gaps ELSE P!Damaged) OBVIOUS
    <2>3. m \subseteq Pieces /\ m # {} /\ repair' = [P!NoRepair EXCEPT !.at = "claim", !.missing = m, !.path = IF file # None THEN "file" ELSE "part"]
      BY <2>1, <2>2 DEF P!Verify
    <2>4. repair' \in RepairSet /\ repair'.at = "claim" /\ repair'.tag = 0 /\ repair'.missing = m /\ repair'.seen = P!NoRepair.seen
          /\ repair'.path = IF file # None THEN "file" ELSE "part"
      BY <2>3, NoRepairIs DEF RepairSet, RepairPCs
    <2> QED BY <2>2, <2>3, <2>4
  <1>2. ASSUME file # None PROVE \A q \in Pieces \ r.missing : file[q] \in {history.tag, Bad, Hole}
    <2>1. file \in [Pieces -> P!Content] BY <1>2 DEF MendInv, TypedRepair, P!Data
    <2>2. CASE P!Gaps # {}
      <3>1. P!Holes(file) # {} BY <2>2, <1>2 DEF P!Gaps
      <3> QED BY <3>1, <1>2, <2>1 DEF MendInv, FileRight
    <2>3. CASE P!Gaps = {}
      <3>1. history.pieces /\ P!Damaged # {} BY <2>3, <1>1 DEF P!Damaged
      <3>2. \A q \in Pieces \ r.missing : file[q] = history.hash[q] BY <3>1, <1>1, <2>3, <1>2 DEF P!Damaged
      <3> QED BY <3>2 DEF MendInv, EntryRight
    <2> QED BY <2>2, <2>3
  <1>3. RepairRight(file, part, state, history, r)
    <2>1. \A m \in P!Mirrors : r.seen[m] = 0 BY <1>1 DEF P!NoRepair
    <2> QED BY <1>1, <1>2, <2>1 DEF RepairRight
  <1>4. chances' \in [Events -> Nat] BY DEF P!Verify, P!May, MendInv, TypedRepair, Events
  <1>5. engine["own"].at = "idle" /\ repair.at = "idle" BY DEF P!Verify, MendInv, Claimed
  <1>6. engine \in [P!Engines -> EngineSet] /\ history \in EntrySet /\ aside \in {"none", "saved", "started", "copy"}
    BY DEF MendInv, TypedRepair
  <1>7. EntryRight(history) /\ FileRight(file, history) BY DEF MendInv
  <1>8. AsideKnown' BY <1>1 DEF AsideKnown
  <1>9. r.at \in Mending <=> repair.at \in Mending BY <1>1, <1>5 DEF Mending
  <1>10. UNCHANGED <<file, part, state, volatile, claim, hashed, remote, aside, history, engine>>
    BY DEF P!Verify, P!disk, P!world
  <1>11. r.at = "engine" <=> engine["own"].at # "idle" BY <1>1, <1>5
  <1> HIDE DEF MendInv
  <1> QED BY <1>1, <1>3, <1>4, <1>6, <1>7, <1>8, <1>9, <1>10, <1>11, StepsBeside

LEMMA ClaimsForRepair == ASSUME Mendable, MendInv, P!Claim PROVE MendInv'
  <1>1. PICK r : r = [repair EXCEPT !.at = "prepare"] OBVIOUS
  <1>2. repair \in RepairSet /\ repair.at = "claim" BY DEF MendInv, TypedRepair, P!Claim
  <1>3. r \in RepairSet /\ r.at = "prepare" /\ r.path = repair.path /\ r.missing = repair.missing /\ r.tag = repair.tag
        /\ r.seen = repair.seen
    BY <1>1, <1>2 DEF RepairSet, RepairPCs
  <1>4. repair' = r /\ claim' = "repair" /\ claim = None /\ UNCHANGED <<file, part, state, volatile, aside, history, hashed, remote, engine, chances>>
    BY <1>1 DEF P!Claim, P!RepairIs, P!disk, P!world
  <1>5. \A e \in P!Engines : engine[e].at # "record" BY DEF P!Claim, P!At
  <1>6. RepairRight(file, part, state, history, repair) BY DEF MendInv
  <1>7. RepairRight(file', part', state', history', r) BY <1>2, <1>3, <1>4, <1>6 DEF RepairRight
  <1>8. TypedRepair' /\ AsideKnown' BY <1>3, <1>4 DEF MendInv, TypedRepair, AsideKnown
  <1>9. FileRight(file', history') /\ EntryRight(history') /\ DiskRight(part', state', volatile') /\ (state' # None /\ state'.tag = 0 => hashed)
    BY <1>4 DEF MendInv, HeldByHashes
  <1>10. claim' = IF r.at \in Mending THEN "repair" ELSE None BY <1>3, <1>4 DEF Mending
  <1> HIDE DEF MendInv
  <1> QED BY <1>2, <1>3, <1>4, <1>5, <1>7, <1>8, <1>9, <1>10, RepairSteps

(* The repair is over, with or without the claim, and may have changed the state last. *)
LEMMA RepairEnds ==
  ASSUME Mendable, MendInv, repair' = P!NoRepair, repair.at # "engine",
         UNCHANGED <<file, part, volatile, aside, history, hashed, remote, engine>>, chances' \in [Events -> Nat],
         \/ repair.at \notin Mending /\ UNCHANGED <<state, claim>>
         \/ repair.at \in Mending /\ claim' = None /\ state' \in StateSet \cup {None}
            /\ DiskRight(part, state', volatile) /\ (state' # None /\ state'.tag = 0 => hashed)
  PROVE  MendInv'
  <1>1. P!NoRepair \in RepairSet /\ P!NoRepair.at = "idle" BY NoRepairIs
  <1>2. P!NoRepair.at \notin Mending BY <1>1 DEF Mending
  <1>3. RepairRight(file', part', state', history', P!NoRepair) BY RestIsRight
  <1>4. AsideKnown' BY <1>1 DEF AsideKnown
  <1>5. TypedRepair' BY <1>1, NoneIsNone DEF MendInv, TypedRepair
  <1>6. FileRight(file', history') /\ EntryRight(history') BY DEF MendInv
  <1>7. CASE repair.at \in Mending
    <2>1. claim = "repair" /\ claim' = None /\ DiskRight(part', state', volatile') /\ (state' # None /\ state'.tag = 0 => hashed)
      BY <1>7 DEF MendInv, Claimed
    <2> HIDE DEF MendInv
    <2> QED BY <2>1, <1>1, <1>2, <1>3, <1>4, <1>5, <1>6, <1>7, RepairSteps
  <1>8. CASE repair.at \notin Mending
    <2>1. engine \in [P!Engines -> EngineSet] /\ history' \in EntrySet /\ aside' \in {"none", "saved", "started", "copy"}
      BY DEF MendInv, TypedRepair
    <2>2. P!NoRepair.at = "engine" <=> engine["own"].at # "idle" BY <1>1 DEF MendInv, Claimed
    <2>3. UNCHANGED <<state, claim>> BY <1>8
    <2> HIDE DEF MendInv
    <2> QED BY <2>1, <2>2, <2>3, <1>1, <1>2, <1>3, <1>4, <1>6, <1>8, StepsBeside
  <1> QED BY <1>7, <1>8

LEMMA Chances == ASSUME MendInv, NEW what \in Events, P!May(what) PROVE chances' \in [Events -> Nat]
  BY DEF P!May, MendInv, TypedRepair

LEMMA RepairGivesUp ==
  ASSUME Mendable, MendInv,
         P!StillDownloaded \/ P!Refused \/ P!MoveFails \/ P!NoMirror \/ P!SyncFails \/ P!Tidy \/ P!Kept
  PROVE  MendInv'
  <1>1. chances \in [Events -> Nat] /\ repair \in RepairSet /\ DiskRight(part, state, volatile) /\ HeldByHashes
        /\ state \in StateSet \cup {None} /\ RepairRight(file, part, state, history, repair)
    BY DEF MendInv, TypedRepair
  <1> USE DEF Mending, P!disk, P!world
  <1>2. CASE P!StillDownloaded BY <1>2, <1>1, RepairEnds DEF P!StillDownloaded
  <1>3. CASE P!Refused BY <1>3, <1>1, RepairEnds DEF P!Refused, HeldByHashes
  <1>4. CASE P!MoveFails
    <2>1. chances' \in [Events -> Nat] BY <1>4, Chances DEF P!MoveFails, Events
    <2>2. part = None /\ repair.at = "move" BY <1>4, <1>1 DEF P!MoveFails, RepairRight
    <2>3. DiskRight(part, None, volatile) BY <2>2 DEF DiskRight
    <2> QED BY <1>4, <2>1, <2>2, <2>3, RepairEnds DEF P!MoveFails
  <1>5. CASE P!NoMirror
    <2>1. chances' \in [Events -> Nat] BY <1>5, <1>1, Chances DEF P!NoMirror, P!Answering, Events
    <2> QED BY <1>5, <1>1, <2>1, RepairEnds DEF P!NoMirror, HeldByHashes
  <1>6. CASE P!SyncFails
    <2>1. chances' \in [Events -> Nat] BY <1>6, Chances DEF P!SyncFails, Events
    <2> QED BY <1>6, <1>1, <2>1, RepairEnds DEF P!SyncFails, HeldByHashes
  <1>7. CASE P!Tidy
    <2>1. part = None /\ repair.at = "tidy" BY <1>7, <1>1 DEF P!Tidy, RepairRight
    <2>2. DiskRight(part, None, volatile) BY <2>1 DEF DiskRight
    <2> QED BY <1>7, <1>1, <2>1, <2>2, RepairEnds DEF P!Tidy
  <1>8. CASE P!Kept
    <2>1. repair.at = "inPlace" /\ claim = "repair" BY <1>8 DEF P!Kept, MendInv, Claimed
    <2>2. PICK s : s = [tag |-> repair.tag, done |-> repair.done] OBVIOUS
    <2>3. s \in StateSet /\ s.tag = repair.tag /\ s.done = repair.done /\ state' = s BY <2>2, <1>1, <1>8 DEF StateSet, RepairSet, P!Kept
    <2>4. part # None /\ state # None /\ state.tag = repair.tag /\ \A q \in repair.done : part[q] \in {VersionOf(repair.tag), Bad}
      BY <2>1, <1>1 DEF RepairRight
    <2>5. DiskRight(part, s, {}) BY <2>3, <2>4, NoneIsNone DEF DiskRight
    <2>6. s.tag = 0 => hashed BY <2>3, <2>4, <1>1 DEF HeldByHashes
    <2>7. chances' \in [Events -> Nat] BY <1>8, <1>1, Chances DEF P!Kept, P!Ends, Events
    <2>8. repair' = P!NoRepair /\ claim' = None /\ volatile' = {}
          /\ UNCHANGED <<file, part, aside, history, hashed, remote, engine>> BY <1>8 DEF P!Kept, P!Synced
    <2>9. TypedRepair' BY <1>1, <2>3, <2>7, <2>8, NoRepairIs, NoneIsNone DEF MendInv, TypedRepair
    <2>10. FileRight(file', history') /\ EntryRight(history') /\ repair.at \in Mending /\ repair.at # "engine" BY <2>1, <2>8 DEF MendInv
    <2>11. AsideKnown' BY <2>8, NoRepairIs DEF AsideKnown
    <2>12. RepairRight(file', part', state', history', P!NoRepair) BY RestIsRight
    <2>13. P!NoRepair \in RepairSet /\ P!NoRepair.at \notin Mending /\ ~(P!NoRepair.at = "engine") BY NoRepairIs
    <2> HIDE DEF MendInv, Mending
    <2> QED BY <2>1, <2>3, <2>5, <2>6, <2>8, <2>9, <2>10, <2>11, <2>12, <2>13, RepairSteps
  <1> QED BY <1>2, <1>3, <1>4, <1>5, <1>6, <1>7, <1>8

(* Preparing writes the state of what the repair goes by: the pieces it trusts, of the .part or of the file. *)
LEMMA TrustsRightly ==
  ASSUME Mendable, MendInv, repair.at = "prepare"
  PROVE  /\ P!Known.tag \in Versions \cup {0} /\ P!Trusted \subseteq Pieces \ repair.missing /\ (P!Known.tag = 0 => hashed)
         /\ P!OnPart => DiskRight(part, [tag |-> P!Known.tag, done |-> P!Trusted], volatile)
         /\ P!OnPart /\ part = None => P!Trusted = {}
         /\ P!OnPart /\ part # None => P!Trusted = state.done \ repair.missing
         /\ ~P!OnPart =>
              /\ file # None /\ P!Known.tag \in Versions
              /\ P!Trusted = Pieces \ (repair.missing \cup P!Holes(file)) /\ \A q \in P!Trusted : file[q] \in {P!Known.tag, Bad}
  <1>1. history \in EntrySet /\ state \in StateSet \cup {None} /\ DiskRight(part, state, volatile) /\ HeldByHashes
        /\ RepairRight(file, part, state, history, repair) /\ file \in P!Data /\ repair \in RepairSet
    BY DEF MendInv, TypedRepair
  <1>2. history.tag \in Versions /\ 0 \notin Versions BY <1>1, FirstVersion DEF EntrySet
  <1>3. ~P!OnPart => repair.path = "file" BY <1>1 DEF P!OnPart, RepairSet
  <1>4. ~P!OnPart => file # None /\ \A q \in Pieces \ repair.missing : file[q] \in {history.tag, Bad, Hole}
    BY <1>1, <1>3 DEF RepairRight
  <1>5. CASE P!OnPart
    <2>1. CASE part = None
      <3>1. P!Trusted = {} BY <1>5, <2>1 DEF P!Trusted
      <3>2. P!Known.tag \in Versions \cup {0} /\ (P!Known.tag = 0 => hashed)
        BY <1>1, <1>2 DEF P!Known, StateSet, HeldByHashes
      <3>3. DiskRight(part, [tag |-> P!Known.tag, done |-> P!Trusted], volatile) BY <2>1 DEF DiskRight
      <3> QED BY <1>5, <2>1, <3>1, <3>2, <3>3
    <2>2. CASE part # None
      <3>1. state # None /\ state \in StateSet BY <1>1, <2>2 DEF DiskRight
      <3>2. P!Known = state BY <3>1, <1>5 DEF P!Known
      <3>3. P!Trusted = state.done \ repair.missing BY <3>2, <1>5, <2>2 DEF P!Trusted
      <3>4. state.tag \in Versions \cup {0} /\ state.done \subseteq Pieces /\ (state.tag = 0 => hashed) BY <1>1, <3>1 DEF StateSet, HeldByHashes
      <3>5. PICK s : s = [tag |-> state.tag, done |-> state.done \ repair.missing] OBVIOUS
      <3>6. s.tag = state.tag /\ s.done \subseteq state.done /\ s # None
        <4>1. s \in StateSet BY <3>4, <3>5 DEF StateSet
        <4> QED BY <4>1, <3>5, NoneIsNone
      <3>7. DiskRight(part, s, volatile) BY <3>6, <1>1 DEF DiskRight
      <3> QED BY <1>5, <2>2, <3>2, <3>3, <3>4, <3>5, <3>7
    <2> QED BY <2>1, <2>2
  <1>6. CASE ~P!OnPart
    <2>1. P!Known.tag = history.tag /\ P!Known.done = Pieces BY <1>6 DEF P!Known
    <2>2. P!Trusted = Pieces \ (repair.missing \cup P!Holes(file)) BY <1>4, <1>6, <2>1 DEF P!Trusted
    <2>3. \A q \in P!Trusted : file[q] \in {history.tag, Bad} BY <2>2, <1>4, <1>6 DEF P!Holes
    <2> QED BY <1>2, <1>4, <1>6, <2>1, <2>2, <2>3
  <1> QED BY <1>5, <1>6

LEMMA Prepares == ASSUME Mendable, MendInv, P!Prepare PROVE MendInv'
  <1>1. repair.at = "prepare" /\ repair \in RepairSet /\ claim = "repair" BY DEF P!Prepare, MendInv, TypedRepair, Claimed, Mending
  <1>2. PICK tag, done : tag = P!Known.tag /\ done = P!Trusted OBVIOUS
  <1>3. PICK s : s = [tag |-> tag, done |-> done] OBVIOUS
  <1>4. PICK at : at = IF P!OnPart \/ file = None THEN "open" ELSE "move" OBVIOUS
  <1>5. PICK r : r = [repair EXCEPT !.at = at, !.tag = tag, !.done = done] OBVIOUS
  <1>6. tag \in Versions \cup {0} /\ done \subseteq Pieces /\ (tag = 0 => hashed) BY <1>1, <1>2, TrustsRightly
  <1>7. s \in StateSet /\ s.tag = tag /\ s.done = done BY <1>3, <1>6 DEF StateSet
  <1>8. \A m \in P!Mirrors : repair.seen[m] = 0 BY <1>1 DEF MendInv, RepairRight
  <1>9. r \in RepairSet /\ r.at = at /\ r.tag = tag /\ r.done = done /\ r.missing = repair.missing /\ r.seen = repair.seen
    BY <1>1, <1>4, <1>5, <1>6 DEF RepairSet, RepairPCs
  <1>10. state' = s /\ repair' = r /\ (P!OnPart \/ part = None)
         /\ UNCHANGED <<file, part, volatile, aside, claim, history, hashed, remote, engine, chances>>
    BY <1>2, <1>3, <1>4, <1>5 DEF P!Prepare, P!world
  <1>11. TypedRepair' BY <1>7, <1>9, <1>10 DEF MendInv, TypedRepair
  <1>12. DiskRight(part, s, volatile)
    <2>1. CASE P!OnPart BY <2>1, <1>1, <1>2, <1>3, TrustsRightly
    <2>2. CASE part = None BY <2>2 DEF DiskRight
    <2> QED BY <2>1, <2>2, <1>10

  <1>13. RepairRight(file, part, s, history, r)
    <2>1. CASE at = "open"
      <3>1. part = None => done = {}
        <4>1. ~P!OnPart => file # None BY <1>1, TrustsRightly
        <4>2. P!OnPart BY <4>1, <2>1, <1>4
        <4> QED BY <4>2, <1>1, <1>2, TrustsRightly
      <3> QED BY <2>1, <3>1, <1>3, <1>8, <1>9 DEF RepairRight
    <2>2. CASE at = "move"
      <3>1. ~P!OnPart /\ part = None BY <2>2, <1>4, <1>10
      <3>2. file # None /\ tag \in Versions /\ done = Pieces \ (repair.missing \cup P!Holes(file)) /\ \A q \in done : file[q] \in {tag, Bad}
        BY <3>1, <1>1, <1>2, TrustsRightly
      <3> QED BY <2>2, <3>1, <3>2, <1>3, <1>8, <1>9 DEF RepairRight
    <2> QED BY <2>1, <2>2, <1>4
  <1>14. AsideKnown' BY <1>4, <1>9, <1>10 DEF AsideKnown
  <1>15. FileRight(file', history') /\ EntryRight(history') BY <1>10 DEF MendInv
  <1>16. r.at \in Mending /\ repair.at \in Mending /\ r.at # "engine" /\ repair.at # "engine" BY <1>1, <1>4, <1>9 DEF Mending
  <1>17. state' # None /\ state'.tag = 0 => hashed BY <1>6, <1>7, <1>10
  <1> HIDE DEF MendInv
  <1> QED BY <1>1, <1>9, <1>10, <1>11, <1>12, <1>13, <1>14, <1>15, <1>16, <1>17, RepairSteps

LEMMA Moves == ASSUME Mendable, MendInv, P!Move PROVE MendInv'
  <1>1. repair.at = "move" /\ repair \in RepairSet /\ claim = "repair" /\ RepairRight(file, part, state, history, repair)
        /\ HeldByHashes /\ file \in P!Data /\ state \in StateSet \cup {None}
    BY DEF P!Move, MendInv, TypedRepair, Claimed, Mending
  <1>2. PICK r : r = [repair EXCEPT !.at = "open"] OBVIOUS
  <1>3. r \in RepairSet /\ r.at = "open" /\ r.tag = repair.tag /\ r.done = repair.done /\ r.seen = repair.seen
    BY <1>1, <1>2 DEF RepairSet, RepairPCs
  <1>4. part' = file /\ file' = None /\ volatile' = {} /\ repair' = r
        /\ UNCHANGED <<state, aside, claim, history, hashed, remote, engine, chances>>
    BY <1>2 DEF P!Move, P!RepairIs, P!world
  <1>5. file # None /\ state = [tag |-> repair.tag, done |-> repair.done] /\ repair.tag \in Versions /\ \A q \in repair.done : file[q] \in {repair.tag, Bad}
    BY <1>1 DEF RepairRight
  <1>6. state \in StateSet /\ state # None /\ state.tag = repair.tag /\ state.done = repair.done
    BY <1>1, <1>5, NoneIsNone DEF StateSet, RepairSet
  <1>7. DiskRight(file, state, {}) BY <1>5, <1>6, FirstVersion DEF DiskRight
  <1>8. RepairRight(None, file, state, history, r) BY <1>1, <1>3, <1>5 DEF RepairRight
  <1>9. TypedRepair' BY <1>3, <1>4 DEF MendInv, TypedRepair, P!Data
  <1>10. AsideKnown' BY <1>3, <1>4 DEF AsideKnown
  <1>11. FileRight(file', history') /\ EntryRight(history') BY <1>4 DEF MendInv, FileRight
  <1>12. r.at \in Mending /\ repair.at \in Mending /\ r.at # "engine" /\ repair.at # "engine" BY <1>1, <1>3 DEF Mending
  <1>13. state' # None /\ state'.tag = 0 => hashed BY <1>1, <1>4 DEF HeldByHashes
  <1> HIDE DEF MendInv
  <1> QED BY <1>1, <1>3, <1>4, <1>7, <1>8, <1>9, <1>10, <1>11, <1>12, <1>13, RepairSteps

(* A .part that is created has only holes. *)
LEMMA Created ==
  ASSUME Mendable, MendInv, NEW p, NEW v, p = (IF part = None THEN P!Empty ELSE part), v = (IF part = None THEN {} ELSE volatile)
  PROVE  /\ p \in P!Data /\ p # None /\ v \subseteq Pieces /\ (part # None => p = part /\ v = volatile)
         /\ (part = None => v = {})
  <1>1. P!Empty \in [Pieces -> P!Content] BY FirstVersion DEF P!Empty, P!Whole
  <1> QED BY <1>1, NoneIsNone DEF MendInv, TypedRepair, P!Data

LEMMA Opens == ASSUME Mendable, MendInv, P!Open PROVE MendInv'
  <1>1. repair.at = "open" /\ repair \in RepairSet /\ claim = "repair" /\ RepairRight(file, part, state, history, repair)
        /\ HeldByHashes /\ DiskRight(part, state, volatile) /\ state \in StateSet \cup {None}
    BY DEF P!Open, MendInv, TypedRepair, Claimed, Mending
  <1>2. PICK at : at = IF file # None THEN "inPlace" ELSE "check" OBVIOUS
  <1>3. PICK r : r = [repair EXCEPT !.at = at, !.usable = P!Mirrors] OBVIOUS
  <1>4. r \in RepairSet /\ r.at = at /\ r.tag = repair.tag /\ r.done = repair.done /\ r.seen = repair.seen
    BY <1>1, <1>2, <1>3 DEF RepairSet, RepairPCs
  <1>5. PICK p, v : p = (IF part = None THEN P!Empty ELSE part) /\ v = (IF part = None THEN {} ELSE volatile) OBVIOUS
  <1>6. part' = p /\ volatile' = v /\ repair' = r
        /\ UNCHANGED <<file, state, aside, claim, history, hashed, remote, engine, chances>>
    BY <1>2, <1>3, <1>5 DEF P!Open, P!world
  <1>7. state = [tag |-> repair.tag, done |-> repair.done] /\ (part = None => repair.done = {}) BY <1>1 DEF RepairRight
  <1>8. state \in StateSet /\ state # None /\ state.tag = repair.tag /\ state.done = repair.done
    BY <1>1, <1>7, NoneIsNone DEF StateSet, RepairSet
  <1>9. p \in P!Data /\ p # None /\ v \subseteq Pieces /\ (part # None => p = part /\ v = volatile) BY <1>5, Created
  <1>10. DiskRight(p, state, v) BY <1>1, <1>7, <1>8, <1>9 DEF DiskRight
  <1>11. RepairRight(file, p, state, history, r)
    <2>1. \A q \in repair.done : p[q] \in {VersionOf(repair.tag), Bad} BY <1>8, <1>9, <1>10 DEF DiskRight
    <2> QED BY <2>1, <1>1, <1>2, <1>4, <1>8, <1>9 DEF RepairRight
  <1>12. TypedRepair' BY <1>4, <1>6, <1>9 DEF MendInv, TypedRepair
  <1>13. AsideKnown' BY <1>2, <1>4, <1>6 DEF AsideKnown
  <1>14. FileRight(file', history') /\ EntryRight(history') BY <1>6 DEF MendInv
  <1>15. r.at \in Mending /\ repair.at \in Mending /\ r.at # "engine" /\ repair.at # "engine" BY <1>1, <1>2, <1>4 DEF Mending
  <1>16. state' # None /\ state'.tag = 0 => hashed BY <1>1, <1>6 DEF HeldByHashes
  <1> HIDE DEF MendInv
  <1> QED BY <1>1, <1>4, <1>6, <1>10, <1>11, <1>12, <1>13, <1>14, <1>15, <1>16, RepairSteps

LEMMA MirrorsAnswer ==
  ASSUME MendInv, NEW out, P!Answering(out) PROVE chances' \in [Events -> Nat]
  BY Chances DEF P!Answering, MendInv, TypedRepair, Events

LEMMA HandsOver == ASSUME Mendable, MendInv, P!HandOver PROVE MendInv'
  <1>1. repair.at = "check" /\ repair \in RepairSet /\ claim = "repair" /\ RepairRight(file, part, state, history, repair)
        /\ HeldByHashes /\ DiskRight(part, state, volatile)
    BY DEF P!HandOver, MendInv, TypedRepair, Claimed, Mending
  <1>2. PICK out : /\ P!Answering(out)
                   /\ \E i \in DOMAIN Links : Links[i] \in P!Held(out) /\ repair' = [repair EXCEPT !.at = "read", !.usable = {Links[i]}]
    BY DEF P!HandOver
  <1>3. PICK i \in DOMAIN Links : Links[i] \in P!Held(out) /\ repair' = [repair EXCEPT !.at = "read", !.usable = {Links[i]}]
    BY <1>2
  <1>4. PICK m : m = Links[i] OBVIOUS
  <1>5. m \in Honors /\ m \in P!Mirrors BY <1>3, <1>4 DEF P!Held, P!Serving
  <1>6. PICK r : r = [repair EXCEPT !.at = "read", !.usable = {m}] OBVIOUS
  <1>7. r \in RepairSet /\ r.at = "read" /\ r.usable = {m} /\ r.seen = repair.seen BY <1>1, <1>5, <1>6 DEF RepairSet, RepairPCs
  <1>8. repair' = r /\ claim' = None /\ UNCHANGED <<file, part, state, volatile, aside, history, hashed, remote, engine>>
    BY <1>3, <1>4, <1>6 DEF P!HandOver, P!disk, P!world
  <1>9. chances' \in [Events -> Nat] BY <1>2, MirrorsAnswer
  <1>10. TypedRepair' BY <1>7, <1>8, <1>9 DEF MendInv, TypedRepair
  <1>11. RepairRight(file, part, state, history, r) BY <1>1, <1>5, <1>7 DEF RepairRight
  <1>12. AsideKnown' BY <1>7, <1>8 DEF AsideKnown
  <1>13. FileRight(file', history') /\ EntryRight(history') BY <1>8 DEF MendInv
  <1>14. r.at \notin Mending /\ repair.at \in Mending /\ r.at # "engine" /\ repair.at # "engine" BY <1>1, <1>7 DEF Mending
  <1>15. state' # None /\ state'.tag = 0 => hashed BY <1>1, <1>8 DEF HeldByHashes
  <1> HIDE DEF MendInv
  <1> QED BY <1>1, <1>7, <1>8, <1>10, <1>11, <1>12, <1>13, <1>14, <1>15, RepairSteps

(* Within the repair in place and before it, where the state may stay as it is. *)
LEMMA InPlaceSteps ==
  ASSUME Mendable, MendInv, NEW r \in RepairSet, NEW p \in P!Data, NEW v \in SUBSET Pieces,
         repair.at \in {"check", "inPlace"}, repair' = r, r.at = "inPlace", part' = p, volatile' = v, p # None,
         UNCHANGED <<file, state, aside, claim, history, hashed, remote, engine>>, chances' \in [Events -> Nat],
         r.tag = repair.tag, repair.done \subseteq r.done, v \cap state.done = {},
         \A q \in r.done : p[q] \in {VersionOf(r.tag), Bad},
         \A m \in P!Mirrors : r.seen[m] # 0 => r.tag \in {0, r.seen[m]}
  PROVE  MendInv'
  <1>1. claim = "repair" /\ RepairRight(file, part, state, history, repair) /\ HeldByHashes
    BY DEF MendInv, Claimed, Mending
  <1>2. state # None /\ state.tag = repair.tag /\ state.done \subseteq repair.done BY <1>1 DEF RepairRight
  <1>3. DiskRight(p, state, v) BY <1>2 DEF DiskRight
  <1>4. RepairRight(file, p, state, history, r) BY <1>2 DEF RepairRight
  <1>5. TypedRepair' BY DEF MendInv, TypedRepair
  <1>6. AsideKnown' BY DEF AsideKnown
  <1>7. FileRight(file', history') /\ EntryRight(history') BY DEF MendInv
  <1>8. r.at \in Mending /\ repair.at \in Mending /\ r.at # "engine" /\ repair.at # "engine" BY DEF Mending
  <1>9. state' # None /\ state'.tag = 0 => hashed BY <1>1 DEF HeldByHashes
  <1> HIDE DEF MendInv
  <1> QED BY <1>1, <1>3, <1>4, <1>5, <1>6, <1>7, <1>8, <1>9, RepairSteps

LEMMA WorksInPlace ==
  ASSUME Mendable, MendInv, repair.at \in {"check", "inPlace"}
  PROVE  /\ repair \in RepairSet /\ part \in P!Data /\ part # None /\ volatile \subseteq Pieces /\ chances \in [Events -> Nat]
         /\ state # None /\ state.tag = repair.tag /\ state.done \subseteq repair.done /\ state.done \cap volatile = {}
         /\ (repair.tag = 0 => hashed) /\ \A q \in repair.done : part[q] \in {VersionOf(repair.tag), Bad}
         /\ \A m \in P!Mirrors : repair.seen[m] # 0 => repair.tag \in {0, repair.seen[m]}
  BY DEF MendInv, TypedRepair, RepairRight, DiskRight, HeldByHashes

LEMMA GoesInPlace == ASSUME Mendable, MendInv, P!InPlace \/ \E m \in P!Mirrors : P!WrongVersion(m) PROVE MendInv'
  <1>1. CASE P!InPlace
    <2>1. repair.at = "check" BY <1>1 DEF P!InPlace
    <2>2. PICK out : P!Answering(out) /\ repair' = [repair EXCEPT !.at = "inPlace", !.usable = P!Serving(out)] BY <1>1 DEF P!InPlace
    <2>3. PICK u : u = P!Serving(out) /\ u \subseteq P!Mirrors BY DEF P!Serving
    <2>4. PICK r : r = [repair EXCEPT !.at = "inPlace", !.usable = u] OBVIOUS
    <2>5. r \in RepairSet /\ r.at = "inPlace" /\ r.tag = repair.tag /\ r.done = repair.done /\ r.seen = repair.seen
      BY <2>1, <2>3, <2>4, WorksInPlace DEF RepairSet, RepairPCs
    <2>6. repair' = r /\ UNCHANGED <<file, part, state, volatile, aside, claim, history, hashed, remote, engine>>
      BY <1>1, <2>2, <2>3, <2>4 DEF P!InPlace, P!disk, P!world
    <2>7. chances' \in [Events -> Nat] BY <2>2, MirrorsAnswer
    <2> HIDE DEF MendInv
    <2> QED BY <2>1, <2>5, <2>6, <2>7, WorksInPlace, InPlaceSteps
  <1>2. ASSUME NEW m \in P!Mirrors, P!WrongVersion(m) PROVE MendInv'
    <2>1. repair.at = "inPlace" BY <1>2 DEF P!WrongVersion
    <2>2. PICK r : r = [repair EXCEPT !.usable = @ \ {m}] OBVIOUS
    <2>3. r \in RepairSet /\ r.at = "inPlace" /\ r.tag = repair.tag /\ r.done = repair.done /\ r.seen = repair.seen
      BY <2>1, <2>2, WorksInPlace DEF RepairSet, RepairPCs
    <2>4. repair' = r /\ UNCHANGED <<file, part, state, volatile, aside, claim, history, hashed, remote, engine, chances>>
      BY <1>2, <2>2 DEF P!WrongVersion, P!disk, P!world
    <2> HIDE DEF MendInv
    <2> QED BY <2>1, <2>3, <2>4, WorksInPlace, InPlaceSteps
  <1> QED BY <1>1, <1>2

(* What arrives is of the version asked for, or damaged. *)
LEMMA ArrivesRightly ==
  ASSUME Mendable, MendInv, part # None, NEW q \in Pieces, NEW version \in Versions, P!Arrives(q, version)
  PROVE  /\ part' \in P!Data /\ part' # None /\ part'[q] \in {version, Bad} /\ \A o \in Pieces : o # q => part'[o] = part[o]
         /\ volatile' = volatile \cup {q} /\ chances' \in [Events -> Nat]
  <1>1. part \in [Pieces -> P!Content] /\ chances \in [Events -> Nat] BY DEF MendInv, TypedRepair, P!Data
  <1>2. version \in P!Content /\ Bad \in P!Content BY DEF P!Content
  <1>3. part' \in [Pieces -> P!Content] /\ part'[q] \in {version, Bad} /\ \A o \in Pieces : o # q => part'[o] = part[o]
    BY <1>1, <1>2 DEF P!Arrives
  <1>4. chances' \in [Events -> Nat] BY <1>1, Chances DEF P!Arrives, Events
  <1>5. volatile' = volatile \cup {q} BY DEF P!Arrives
  <1> QED BY <1>3, <1>4, <1>5, NoneIsNone DEF P!Data

LEMMA FetchesInPlace ==
  ASSUME Mendable, MendInv, NEW q \in Pieces, NEW m \in P!Mirrors, P!FetchRange(q, m) PROVE MendInv'
  <1>1. repair.at = "inPlace" /\ q \notin repair.done /\ P!Same(m) /\ P!Arrives(q, remote[m]) /\ remote[m] \in Versions
    BY DEF P!FetchRange, P!NextGap, MendInv, TypedRepair
  <1>2. PICK r : r = [repair EXCEPT !.done = @ \cup {q}, !.seen[m] = remote[m]] OBVIOUS
  <1>3. r \in RepairSet /\ r.at = "inPlace" /\ r.tag = repair.tag /\ r.done = repair.done \cup {q}
        /\ r.seen = [repair.seen EXCEPT ![m] = remote[m]] /\ repair.seen \in [P!Mirrors -> Versions \cup {0}]
    BY <1>1, <1>2, WorksInPlace DEF RepairSet, RepairPCs
  <1>4. part' \in P!Data /\ part' # None /\ part'[q] \in {remote[m], Bad} /\ (\A o \in Pieces : o # q => part'[o] = part[o])
        /\ volatile' = volatile \cup {q} /\ chances' \in [Events -> Nat]
    BY <1>1, WorksInPlace, ArrivesRightly
  <1>5. repair.tag \in {0, remote[m]}
    BY <1>1, WorksInPlace DEF P!Same, P!Matches
  <1>6. VersionOf(repair.tag) = remote[m]
    <2>1. hashed => remote[m] = 1 BY DEF MendInv, HeldByHashes
    <2> QED BY <1>1, <1>5, <2>1, WorksInPlace, FirstVersion
  <1>7. \A o \in r.done : part'[o] \in {VersionOf(r.tag), Bad}
    <2>1. repair.done \subseteq Pieces BY <1>1, WorksInPlace DEF RepairSet
    <2> QED BY <2>1, <1>1, <1>3, <1>4, <1>6, WorksInPlace
  <1>8. \A o \in P!Mirrors : r.seen[o] # 0 => r.tag \in {0, r.seen[o]} BY <1>1, <1>3, <1>5, WorksInPlace
  <1>9. volatile' \cap state.done = {} /\ volatile' \in SUBSET Pieces BY <1>1, <1>4, WorksInPlace
  <1>10. repair' = r /\ UNCHANGED <<file, state, aside, claim, history, hashed, remote, engine>>
    BY <1>2 DEF P!FetchRange, P!world
  <1>11. repair.done \subseteq r.done BY <1>3
  <1> HIDE DEF MendInv
  <1> QED BY <1>1, <1>3, <1>4, <1>7, <1>8, <1>9, <1>10, <1>11, InPlaceSteps

LEMMA IsRepaired == ASSUME Mendable, MendInv, P!Repaired PROVE MendInv'
  <1>1. repair.at = "inPlace" /\ repair.done = Pieces /\ file = None /\ claim = "repair" /\ HeldByHashes /\ repair \in RepairSet
    BY DEF P!Repaired, MendInv, TypedRepair, Claimed, Mending
  <1>2. PICK r : r = [repair EXCEPT !.at = "tidy"] OBVIOUS
  <1>3. r \in RepairSet /\ r.at = "tidy" /\ r.tag = repair.tag /\ r.seen = repair.seen
    BY <1>1, <1>2 DEF RepairSet, RepairPCs
  <1>4. file' = part /\ part' = None /\ volatile' = {} /\ repair' = r
        /\ UNCHANGED <<state, aside, claim, history, hashed, remote, engine, chances>>
    BY <1>2 DEF P!Repaired, P!RepairIs, P!world
  <1>5. part # None /\ (repair.tag = 0 => hashed) /\ (\A q \in Pieces : part[q] \in {VersionOf(repair.tag), Bad})
        /\ (\A m \in P!Mirrors : repair.seen[m] # 0 => repair.tag \in {0, repair.seen[m]})
    BY <1>1, WorksInPlace
  <1>6. VersionOf(repair.tag) \in Versions BY <1>1, FirstVersion DEF RepairSet
  <1>7. P!Holes(part) = {} BY <1>5, <1>6, FirstVersion DEF P!Holes
  <1>8. FileRight(part, history) BY <1>7 DEF FileRight
  <1>9. RepairRight(part, None, state, history, r) BY <1>3, <1>5 DEF RepairRight
  <1>10. DiskRight(None, state, {}) BY DEF DiskRight
  <1>11. TypedRepair' BY <1>3, <1>4 DEF MendInv, TypedRepair, P!Data
  <1>12. AsideKnown' BY <1>3, <1>4 DEF AsideKnown
  <1>13. EntryRight(history') BY <1>4 DEF MendInv
  <1>14. r.at \in Mending /\ repair.at \in Mending /\ r.at # "engine" /\ repair.at # "engine" BY <1>1, <1>3 DEF Mending
  <1>15. state' # None /\ state'.tag = 0 => hashed BY <1>1, <1>4 DEF HeldByHashes
  <1> HIDE DEF MendInv
  <1> QED BY <1>1, <1>3, <1>4, <1>8, <1>9, <1>10, <1>11, <1>12, <1>13, <1>14, <1>15, RepairSteps

(* Between the check and the end of its engine the repair holds no claim. *)
LEMMA ReadsHistory == ASSUME Mendable, MendInv, P!ReadHistory PROVE MendInv'
  <1>1. repair.at = "read" /\ repair \in RepairSet /\ RepairRight(file, part, state, history, repair) /\ history \in EntrySet
        /\ EntryRight(history) /\ FileRight(file, history) /\ engine \in [P!Engines -> EngineSet]
        /\ aside \in {"none", "saved", "started", "copy"} /\ chances \in [Events -> Nat]
    BY DEF P!ReadHistory, MendInv, TypedRepair
  <1>2. PICK r : r = [repair EXCEPT !.at = "look", !.recorded = history] OBVIOUS
  <1>3. r \in RepairSet /\ r.at = "look" /\ r.seen = repair.seen /\ r.usable = repair.usable /\ r.recorded = history
    BY <1>1, <1>2 DEF RepairSet, RepairPCs
  <1>4. repair' = r /\ UNCHANGED <<file, part, state, volatile, aside, claim, history, hashed, remote, engine, chances>>
    BY <1>2 DEF P!ReadHistory, P!disk, P!world
  <1>5. RepairRight(file, part, state, history, r) BY <1>1, <1>3 DEF RepairRight
  <1>6. AsideKnown' BY <1>3, <1>4 DEF AsideKnown
  <1>7. r.at \notin Mending /\ repair.at \notin Mending /\ (r.at = "engine" <=> engine["own"].at # "idle")
    BY <1>1, <1>3 DEF Mending, MendInv, Claimed
  <1> HIDE DEF MendInv
  <1> QED BY <1>1, <1>3, <1>4, <1>5, <1>6, <1>7, StepsBeside

LEMMA StartsEngine == ASSUME Mendable, MendInv, P!StartEngine PROVE MendInv'
  <1>1. repair.at = "look" /\ repair \in RepairSet /\ RepairRight(file, part, state, history, repair) /\ history \in EntrySet
        /\ EntryRight(history) /\ FileRight(file, history) /\ engine \in [P!Engines -> EngineSet]
        /\ aside \in {"none", "saved", "started", "copy"} /\ chances \in [Events -> Nat] /\ engine["own"].at = "idle"
    BY DEF P!StartEngine, MendInv, TypedRepair, Claimed
  <1>2. PICK b : b = (aside # "none") /\ b \in BOOLEAN OBVIOUS
  <1>3. PICK r : r = [repair EXCEPT !.at = "engine", !.before = b] OBVIOUS
  <1>4. r \in RepairSet /\ r.at = "engine" /\ r.seen = repair.seen /\ r.usable = repair.usable /\ r.recorded = repair.recorded /\ r.before = b
    BY <1>1, <1>2, <1>3 DEF RepairSet, RepairPCs
  <1>5. repair.usable \subseteq Honors /\ repair.usable \subseteq P!Mirrors BY <1>1 DEF RepairRight, RepairSet
  <1>6. PICK x : x = [P!NoEngine EXCEPT !.at = "probe", !.links = repair.usable] OBVIOUS
  <1>7. x \in EngineSet /\ x.at = "probe" /\ x.links = repair.usable BY <1>5, <1>6, NoEngineIs DEF EngineSet, EnginePCs
  <1>8. PICK E : E = [engine EXCEPT !["own"] = x] OBVIOUS
  <1>9. E \in [P!Engines -> EngineSet] /\ E["own"] = x /\ \A e \in P!Engines : e # "own" => E[e] = engine[e]
    BY <1>1, <1>7, <1>8 DEF P!Engines
  <1>10. repair' = r /\ engine' = E /\ UNCHANGED <<file, part, state, volatile, aside, claim, history, hashed, remote, chances>>
    BY <1>2, <1>3, <1>6, <1>8 DEF P!StartEngine, P!disk, P!world
  <1>11. EngineRight(file, part, state, hashed, x) BY <1>5, <1>7 DEF EngineRight
  <1>12. x.at \notin Writing \cup {"record"} /\ engine["own"].at \notin Writing BY <1>1, <1>7 DEF Writing
  <1>13. \A e \in P!Engines : \/ E[e] = engine[e]
                              \/ /\ E[e].at \notin Writing \cup {"record"} /\ engine[e].at \notin Writing
                                 /\ EngineRight(file, part, state, hashed, E[e])
    BY <1>9, <1>11, <1>12
  <1>14. RepairRight(file, part, state, history, r) BY <1>1, <1>4 DEF RepairRight
  <1>15. AsideKnown' BY <1>2, <1>4, <1>10 DEF AsideKnown
  <1>16. r.at \notin Mending /\ repair.at \notin Mending /\ (r.at = "engine" <=> E["own"].at # "idle")
    BY <1>1, <1>4, <1>7, <1>9 DEF Mending
  <1> HIDE DEF MendInv
  <1> QED BY <1>1, <1>4, <1>9, <1>10, <1>13, <1>14, <1>15, <1>16, StepsBeside

LEMMA KeepsHash == ASSUME Mendable, MendInv, P!KeepHash PROVE MendInv'
  <1>1. repair.at = "keep" /\ RepairRight(file, part, state, history, repair) /\ history \in EntrySet
        /\ EntryRight(history) /\ engine \in [P!Engines -> EngineSet]
        /\ aside \in {"none", "saved", "started", "copy"} /\ chances \in [Events -> Nat] /\ engine["own"].at = "idle"
    BY DEF P!KeepHash, MendInv, TypedRepair, Claimed
  <1>2. repair.recorded \in EntrySet /\ EntryRight(repair.recorded) /\ P!Holes(file) = {} BY <1>1 DEF RepairRight
  <1>3. history' \in EntrySet /\ EntryRight(history') BY <1>1, <1>2 DEF P!KeepHash, P!Entry
  <1>4. FileRight(file, history') BY <1>2 DEF FileRight
  <1>5. repair' = P!NoRepair /\ UNCHANGED <<file, part, state, volatile, aside, claim, hashed, remote, engine, chances>>
    BY DEF P!KeepHash, P!disk, P!world
  <1>6. RepairRight(file, part, state, history', P!NoRepair) BY RestIsRight
  <1>7. P!NoRepair \in RepairSet /\ P!NoRepair.at = "idle" BY NoRepairIs
  <1>8. AsideKnown' BY <1>5, <1>7 DEF AsideKnown
  <1>9. P!NoRepair.at \notin Mending /\ repair.at \notin Mending BY <1>1, <1>7 DEF Mending
  <1> HIDE DEF MendInv
  <1> QED BY <1>1, <1>3, <1>4, <1>5, <1>6, <1>7, <1>8, <1>9, StepsBeside

-----------------------------------------------------------------------------
(* An engine starts, finds its way or stops, while the disk is others'. *)
LEMMA EngineBeside ==
  ASSUME Mendable, MendInv, NEW e \in P!Engines, NEW x \in EngineSet, engine' = [engine EXCEPT ![e] = x],
         UNCHANGED <<file, part, state, volatile, claim, history, hashed, remote, repair>>,
         aside' \in {"none", "saved", "started", "copy"}, aside' = "saved" => aside = "saved", chances' \in [Events -> Nat],
         x.at \notin Writing \cup {"record"}, engine[e].at \notin Writing, EngineRight(file, part, state, hashed, x),
         e = "own" => (x.at = "idle" <=> engine[e].at = "idle")
  PROVE  MendInv'
  <1>1. engine \in [P!Engines -> EngineSet] /\ repair \in RepairSet /\ history \in EntrySet /\ EntryRight(history)
        /\ FileRight(file, history) /\ RepairRight(file, part, state, history, repair) /\ AsideKnown
    BY DEF MendInv, TypedRepair
  <1>2. engine' \in [P!Engines -> EngineSet] /\ engine'[e] = x /\ \A o \in P!Engines : o # e => engine'[o] = engine[o] BY <1>1
  <1>3. \A o \in P!Engines : \/ engine'[o] = engine[o]
                             \/ /\ engine'[o].at \notin Writing \cup {"record"} /\ engine[o].at \notin Writing
                                /\ EngineRight(file, part, state, hashed, engine'[o])
    BY <1>2
  <1>4. repair.at = "engine" <=> engine'["own"].at # "idle" BY <1>2 DEF MendInv, Claimed, P!Engines
  <1>5. AsideKnown' BY <1>1 DEF AsideKnown
  <1>6. PICK E : E = engine' OBVIOUS
  <1> HIDE DEF MendInv
  <1> QED BY <1>1, <1>2, <1>3, <1>4, <1>5, <1>6, StepsBeside

(* The same where it is over: the repair goes on, or is over too. *)
LEMMA EngineOverBeside ==
  ASSUME Mendable, MendInv, NEW e \in P!Engines, NEW next, P!Over(e, next), engine[e].at \notin Writing \cup {"idle"},
         UNCHANGED <<file, part, state, volatile, claim, history, hashed, remote, chances>>,
         aside' \in {"none", "saved", "started", "copy"}, aside' = "saved" => aside = "saved",
         next = "keep" => file # None /\ P!Holes(file) = {}
  PROVE  MendInv'
  <1>1. engine \in [P!Engines -> EngineSet] /\ repair \in RepairSet /\ history \in EntrySet /\ EntryRight(history)
        /\ FileRight(file, history) /\ RepairRight(file, part, state, history, repair) /\ AsideKnown /\ chances \in [Events -> Nat]
    BY DEF MendInv, TypedRepair
  <1>2. engine' = [engine EXCEPT ![e] = P!NoEngine] BY DEF P!Over
  <1>3. P!NoEngine \in EngineSet /\ P!NoEngine.at = "idle" BY NoEngineIs
  <1>4. P!NoEngine.at \notin Writing \cup {"record"} BY <1>3 DEF Writing
  <1>5. EngineRight(file, part, state, hashed, P!NoEngine) BY RestIsRight
  <1>6. CASE e = "other"
    <2>1. repair' = repair BY <1>6 DEF P!Over
    <2> HIDE DEF MendInv
    <2> QED BY <1>1, <1>2, <1>3, <1>4, <1>5, <1>6, <2>1, EngineBeside
  <1>7. CASE e = "own"
    <2>1. repair.at = "engine" BY <1>7 DEF MendInv, Claimed
    <2>2. PICK r : r = IF next = "keep" THEN [repair EXCEPT !.at = "keep"] ELSE P!NoRepair OBVIOUS
    <2>3. repair' = r BY <2>2, <1>7 DEF P!Over
    <2>4. r \in RepairSet /\ r.at \in {"idle", "keep"} /\ RepairRight(file, part, state, history, r)
      <3>1. CASE next = "keep"
        <4>1. r = [repair EXCEPT !.at = "keep"] BY <3>1, <2>2
        <4>2. r \in RepairSet /\ r.at = "keep" /\ r.seen = repair.seen /\ r.usable = repair.usable /\ r.recorded = repair.recorded
          BY <4>1, <1>1 DEF RepairSet, RepairPCs
        <4> QED BY <4>2, <3>1, <2>1, <1>1 DEF RepairRight
      <3>2. CASE next # "keep" BY <3>2, <2>2, NoRepairIs, RestIsRight
      <3> QED BY <3>1, <3>2
    <2>5. engine' \in [P!Engines -> EngineSet] /\ engine'[e] = P!NoEngine /\ \A o \in P!Engines : o # e => engine'[o] = engine[o]
      BY <1>1, <1>2, <1>3
    <2>6. \A o \in P!Engines : \/ engine'[o] = engine[o]
                               \/ /\ engine'[o].at \notin Writing \cup {"record"} /\ engine[o].at \notin Writing
                                  /\ EngineRight(file, part, state, hashed, engine'[o])
      BY <2>5, <1>4, <1>5
    <2>7. ~(r.at = "engine") /\ ~(engine'["own"].at # "idle") BY <2>4, <2>5, <1>3, <1>7
    <2>8. r.at \notin Mending /\ repair.at \notin Mending BY <2>1, <2>4 DEF Mending
    <2>9. AsideKnown' BY <2>3, <2>4 DEF AsideKnown
    <2>10. PICK E : E = engine' OBVIOUS
    <2>11. repair' = r /\ engine' = E /\ chances' \in [Events -> Nat] /\ UNCHANGED history BY <1>1, <2>3, <2>10
    <2> HIDE DEF MendInv
    <2> QED BY <1>1, <2>4, <2>5, <2>6, <2>7, <2>8, <2>9, <2>10, <2>11, StepsBeside
  <1> QED BY <1>6, <1>7 DEF P!Engines

LEMMA StartsOther == ASSUME Mendable, MendInv, P!StartOther PROVE MendInv'
  <1>1. engine \in [P!Engines -> EngineSet] /\ aside \in {"none", "saved", "started", "copy"} BY DEF MendInv, TypedRepair
  <1>2. engine["other"].at = "idle" /\ "other" \in P!Engines BY DEF P!StartOther, P!At, P!Engines
  <1>3. Honors \subseteq P!Mirrors BY DEF Mendable
  <1>4. PICK x : x = [P!NoEngine EXCEPT !.at = "probe", !.links = IF hashed THEN P!Mirrors ELSE Honors] OBVIOUS
  <1>5. x \in EngineSet /\ x.at = "probe" /\ (hashed \/ x.links \subseteq Honors) BY <1>3, <1>4, NoEngineIs DEF EngineSet, EnginePCs
  <1>6. EngineRight(file, part, state, hashed, x) BY <1>5 DEF EngineRight
  <1>7. engine' = [engine EXCEPT !["other"] = x]
        /\ UNCHANGED <<file, part, state, volatile, aside, claim, history, hashed, remote, repair>>
    BY <1>4 DEF P!StartOther, P!disk, P!world
  <1>8. chances' \in [Events -> Nat] BY Chances DEF P!StartOther, Events
  <1>9. x.at \notin Writing \cup {"record"} /\ engine["other"].at \notin Writing BY <1>2, <1>5 DEF Writing
  <1> HIDE DEF MendInv
  <1> QED BY <1>1, <1>2, <1>5, <1>6, <1>7, <1>8, <1>9, EngineBeside

LEMMA Probes == ASSUME Mendable, MendInv, NEW e \in P!Engines, P!Probe(e) PROVE MendInv'
  <1>1. engine \in [P!Engines -> EngineSet] /\ aside \in {"none", "saved", "started", "copy"} /\ engine[e].at = "probe"
        /\ remote \in [P!Mirrors -> Versions] /\ EngineRight(file, part, state, hashed, engine[e]) /\ HeldByHashes
        /\ chances \in [Events -> Nat]
    BY DEF MendInv, TypedRepair, P!Probe, P!At, EnginesRight
  <1>2. PICK m \in engine[e].links : engine' = [engine EXCEPT ![e].at = "plan", ![e].version = remote[m]] BY DEF P!Probe
  <1>3. m \in P!Mirrors /\ remote[m] \in Versions /\ (hashed => remote[m] = 1) BY <1>1, <1>2 DEF EngineSet, HeldByHashes
  <1>4. PICK x : x = [engine[e] EXCEPT !.at = "plan", !.version = remote[m]] OBVIOUS
  <1>5. x \in EngineSet /\ x.at = "plan" /\ x.version = remote[m] /\ x.links = engine[e].links
    BY <1>1, <1>3, <1>4 DEF EngineSet, EnginePCs
  <1>6. engine' = [engine EXCEPT ![e] = x] BY <1>1, <1>2, <1>4
  <1>7. EngineRight(file, part, state, hashed, x) BY <1>1, <1>3, <1>5 DEF EngineRight
  <1>8. UNCHANGED <<file, part, state, volatile, aside, claim, history, hashed, remote, repair, chances>>
    BY DEF P!Probe, P!disk, P!world
  <1>9. x.at \notin Writing \cup {"record", "idle"} /\ engine[e].at \notin Writing \cup {"idle"} BY <1>1, <1>5 DEF Writing
  <1> HIDE DEF MendInv
  <1> QED BY <1>1, <1>5, <1>6, <1>7, <1>8, <1>9, EngineBeside

LEMMA PlansBeside ==
  ASSUME Mendable, MendInv, NEW e \in P!Engines, P!Done(e) \/ P!GoAside(e) PROVE MendInv'
  <1>1. engine \in [P!Engines -> EngineSet] /\ aside \in {"none", "saved", "started", "copy"} /\ engine[e].at = "plan"
        /\ EngineRight(file, part, state, hashed, engine[e]) /\ chances \in [Events -> Nat]
    BY DEF MendInv, TypedRepair, P!Done, P!GoAside, P!At, EnginesRight
  <1>2. engine[e].at \notin Writing \cup {"idle"} BY <1>1 DEF Writing
  <1>3. UNCHANGED <<file, part, state, volatile, claim, history, hashed, remote, chances>>
    BY DEF P!Done, P!GoAside, P!disk, P!world
  <1>4. CASE P!Done(e)
    <2>1. P!Over(e, "keep") /\ aside' = aside /\ file # None /\ P!Holes(file) = {} BY <1>4 DEF P!Done, P!AlreadyDone
    <2> HIDE DEF MendInv
    <2> QED BY <1>1, <1>2, <1>3, <2>1, EngineOverBeside
  <1>5. CASE P!GoAside(e)
    <2>1. CASE e = "other"
      <3>1. P!Over(e, "error") /\ aside' = aside BY <1>5, <2>1 DEF P!GoAside
      <3> HIDE DEF MendInv
      <3> QED BY <1>1, <1>2, <1>3, <3>1, EngineOverBeside
    <2>2. CASE e = "own"
      <3>1. PICK x : x = [engine[e] EXCEPT !.at = "aside"] OBVIOUS
      <3>2. x \in EngineSet /\ x.at = "aside" /\ x.version = engine[e].version /\ x.links = engine[e].links
        BY <1>1, <3>1 DEF EngineSet, EnginePCs
      <3>3. engine' = [engine EXCEPT ![e] = x] /\ repair' = repair /\ aside' = (IF aside = "none" THEN "started" ELSE aside)
        BY <1>1, <1>5, <2>2, <3>1 DEF P!GoAside, P!EngineIs
      <3>4. EngineRight(file, part, state, hashed, x) BY <1>1, <3>2 DEF EngineRight
      <3>5. x.at \notin Writing \cup {"record", "idle"} BY <3>2 DEF Writing
      <3>6. aside' \in {"none", "saved", "started", "copy"} /\ (aside' = "saved" => aside = "saved") BY <1>1, <3>3
      <3> HIDE DEF MendInv
      <3> QED BY <1>1, <1>2, <1>3, <3>2, <3>3, <3>4, <3>5, <3>6, EngineBeside
    <2> QED BY <2>1, <2>2 DEF P!Engines
  <1> QED BY <1>4, <1>5

LEMMA LeavesAside == ASSUME Mendable, MendInv, P!StopAside \/ P!CopyAside PROVE MendInv'
  <1>1. aside \in {"none", "saved", "started", "copy"} /\ engine["own"].at = "aside" /\ "own" \in P!Engines
    BY DEF MendInv, TypedRepair, P!StopAside, P!CopyAside, P!At, P!Engines
  <1>2. engine["own"].at \notin Writing \cup {"idle"} BY <1>1 DEF Writing
  <1>3. UNCHANGED <<file, part, state, volatile, claim, history, hashed, remote, chances>> /\ P!Over("own", "error")
    BY DEF P!StopAside, P!CopyAside, P!disk, P!world
  <1>4. aside' \in {"none", "saved", "started", "copy"} /\ (aside' = "saved" => aside = "saved")
    BY <1>1 DEF P!StopAside, P!CopyAside, P!Remains
  <1> HIDE DEF MendInv
  <1> QED BY <1>1, <1>2, <1>3, <1>4, EngineOverBeside

-----------------------------------------------------------------------------
(* An engine with the claim, or that takes it, changes what lies there. *)
LEMMA EngineWrites ==
  ASSUME Mendable, MendInv, NEW e \in P!Engines, NEW x \in EngineSet, claim \in {e, None}, engine[e].at # "idle",
         engine' = [engine EXCEPT ![e] = x], x.at # "idle", UNCHANGED <<hashed, remote, repair, aside, history>>,
         file' \in P!Data, part' \in P!Data, state' \in StateSet \cup {None}, volatile' \subseteq Pieces,
         chances' \in [Events -> Nat], FileRight(file', history), DiskRight(part', state', volatile'),
         state' # None /\ state'.tag = 0 => hashed,
         claim' = IF x.at \in Writing THEN e ELSE None,
         file # None => file' = file, x.at \in Writing => engine[e].at \in Writing \/ file = None,
         EngineRight(file', part', state', hashed, x)
  PROVE  MendInv'
  <1>1. engine \in [P!Engines -> EngineSet] /\ repair \in RepairSet /\ EntryRight(history)
        /\ RepairRight(file, part, state, history, repair) /\ AsideKnown
    BY DEF MendInv, TypedRepair
  <1>2. engine' \in [P!Engines -> EngineSet] /\ engine'[e] = x /\ \A o \in P!Engines : o # e => engine'[o] = engine[o] BY <1>1
  <1>3. repair.at \notin Mending BY NoneIsNone DEF MendInv, Claimed, P!Engines
  <1>4. TypedRepair' BY <1>2, NoneIsNone DEF MendInv, TypedRepair, P!Engines
  <1>5. repair.at = "engine" <=> (IF e = "own" THEN x ELSE engine["own"]).at # "idle" BY DEF MendInv, Claimed
  <1>6. AsideKnown' BY <1>1 DEF AsideKnown
  <1>7. RepairRight(file', part', state', history', repair) BY <1>1, <1>3, RepairStays
  <1>8. FileRight(file', history') /\ EntryRight(history') BY <1>1
  <1> HIDE DEF MendInv
  <1> QED BY <1>1, <1>3, <1>4, <1>5, <1>6, <1>7, <1>8, EngineSteps

(* The same where it stops, and leaves the claim. *)
LEMMA EngineStopsWriting ==
  ASSUME Mendable, MendInv, NEW e \in P!Engines, NEW next, P!Over(e, next), engine[e].at \in Writing \cup {"record"},
         UNCHANGED <<hashed, remote, aside, file>>,
         part' \in P!Data, state' \in StateSet \cup {None}, volatile' \subseteq Pieces, history' \in EntrySet,
         chances' \in [Events -> Nat], FileRight(file, history'), EntryRight(history'), DiskRight(part', state', volatile'),
         state' # None /\ state'.tag = 0 => hashed, claim' = None,
         history' = history \/ (file # None /\ \A q \in Pieces : file[q] \in {history'.tag, Bad}),
         next = "keep" => file # None /\ P!Holes(file) = {}
  PROVE  MendInv'
  <1>1. engine \in [P!Engines -> EngineSet] /\ repair \in RepairSet
        /\ RepairRight(file, part, state, history, repair) /\ AsideKnown
    BY DEF MendInv, TypedRepair
  <1>2. claim \in {e, None} BY NoneIsNone DEF MendInv, Claimed, P!Engines
  <1>3. repair.at \notin Mending BY <1>2, NoneIsNone DEF MendInv, Claimed, P!Engines
  <1>4. engine' = [engine EXCEPT ![e] = P!NoEngine] BY DEF P!Over
  <1>5. P!NoEngine \in EngineSet /\ P!NoEngine.at = "idle" /\ P!NoEngine.at \notin Writing BY NoEngineIs DEF Writing
  <1>6. EngineRight(file', part', state', hashed, P!NoEngine) BY RestIsRight
  <1>7. engine[e].at # "idle" BY DEF Writing
  <1>8. e = "own" => repair.at = "engine" BY <1>7 DEF MendInv, Claimed
  <1>9. PICK r : r = IF e = "other" THEN repair ELSE IF next = "keep" THEN [repair EXCEPT !.at = "keep"] ELSE P!NoRepair OBVIOUS
  <1>10. repair' = r BY <1>9 DEF P!Over
  <1>11. /\ r \in RepairSet /\ r.at \notin Mending /\ RepairRight(file', part', state', history', r)
         /\ (r.at = "engine" <=> (IF e = "own" THEN P!NoEngine ELSE engine["own"]).at # "idle")
         /\ (aside = "saved" /\ r.at = "engine" => r.before)
    <2>1. CASE e = "other"
      <3>1. r = repair BY <2>1, <1>9
      <3>2. repair.at = "engine" <=> engine["own"].at # "idle" BY DEF MendInv, Claimed
      <3>3. RepairRight(file', part', state', history', repair)
        <4>1. CASE history' = history BY <4>1, <1>1, <1>3, RepairStays
        <4>2. CASE file # None /\ \A q \in Pieces : file[q] \in {history'.tag, Bad} BY <4>2, <1>1, <1>3 DEF RepairRight, Mending
        <4> QED BY <4>1, <4>2
      <3> QED BY <2>1, <3>1, <3>2, <3>3, <1>1, <1>3 DEF AsideKnown
    <2>2. CASE e # "other"
      <3>1. e = "own" /\ repair.at = "engine" BY <2>2, <1>8 DEF P!Engines
      <3>2. CASE next = "keep"
        <4>1. r = [repair EXCEPT !.at = "keep"] BY <3>2, <2>2, <1>9
        <4>2. r \in RepairSet /\ r.at = "keep" /\ r.seen = repair.seen /\ r.usable = repair.usable /\ r.recorded = repair.recorded
          BY <4>1, <1>1 DEF RepairSet, RepairPCs
        <4>3. RepairRight(file', part', state', history', r) BY <4>2, <3>1, <3>2, <1>1 DEF RepairRight
        <4> QED BY <3>1, <4>2, <4>3, <1>5 DEF Mending
      <3>3. CASE next # "keep"
        <4>1. r = P!NoRepair BY <3>3, <2>2, <1>9
        <4>2. r \in RepairSet /\ r.at = "idle" /\ RepairRight(file', part', state', history', r) BY <4>1, NoRepairIs, RestIsRight
        <4> QED BY <3>1, <4>2, <1>5 DEF Mending
      <3> QED BY <3>2, <3>3
    <2> QED BY <2>1, <2>2
  <1>12. engine' \in [P!Engines -> EngineSet] BY <1>1, <1>4, <1>5
  <1>13. TypedRepair' BY <1>10, <1>11, <1>12 DEF MendInv, TypedRepair
  <1>14. AsideKnown' BY <1>10, <1>11 DEF AsideKnown
  <1>15. FileRight(file', history') /\ EntryRight(history') OBVIOUS
  <1> HIDE DEF MendInv
  <1> QED BY <1>2, <1>4, <1>5, <1>6, <1>10, <1>11, <1>13, <1>14, <1>15, EngineSteps

(* The engine takes the claim: it resumes, begins, or has the .part of another version go. *)
LEMMA TakesTheName ==
  ASSUME Mendable, MendInv, NEW e \in P!Engines, P!Resume(e) \/ P!Fresh(e) \/ P!Stale(e) PROVE MendInv'
  <1>1. engine \in [P!Engines -> EngineSet] /\ engine[e].at = "plan" /\ EngineRight(file, part, state, hashed, engine[e])
        /\ chances \in [Events -> Nat] /\ file \in P!Data /\ part \in P!Data /\ state \in StateSet \cup {None}
        /\ volatile \subseteq Pieces /\ DiskRight(part, state, volatile) /\ FileRight(file, history) /\ HeldByHashes
    BY DEF MendInv, TypedRepair, P!Resume, P!Fresh, P!Stale, P!At, EnginesRight
  <1>2. claim = None /\ file = None /\ claim' = e
        /\ UNCHANGED <<file, state, aside, history, hashed, remote, repair, chances>>
    BY DEF P!Resume, P!Fresh, P!Stale, P!Taken, P!disk, P!world
  <1>3. FileRight(file', history) /\ state' \in StateSet \cup {None} /\ (state' # None /\ state'.tag = 0 => hashed)
        /\ file' \in P!Data /\ chances' \in [Events -> Nat] /\ file' = file
    BY <1>1, <1>2 DEF HeldByHashes
  <1>4. CASE P!Resume(e)
    <2>1. part # None /\ P!Matches(state.tag, engine[e].version) /\ state # None
      BY <1>1, <1>4 DEF P!Resume, DiskRight
    <2>2. PICK x : x = [engine[e] EXCEPT !.at = "save", !.done = state.done] OBVIOUS
    <2>3. x \in EngineSet /\ x.at = "save" /\ x.done = state.done /\ x.version = engine[e].version /\ x.links = engine[e].links
      BY <1>1, <2>1, <2>2 DEF EngineSet, EnginePCs, StateSet
    <2>4. engine' = [engine EXCEPT ![e] = x] BY <1>1, <1>4, <2>2 DEF P!Resume, P!Begin
    <2>5. UNCHANGED <<part, volatile>> BY <1>4 DEF P!Resume, P!disk
    <2>6. EngineRight(file', part', state', hashed, x) BY <1>1, <1>2, <2>1, <2>3, <2>5 DEF EngineRight, P!Matches
    <2>7. x.at \in Writing /\ x.at # "idle" /\ engine[e].at # "idle" BY <1>1, <2>3 DEF Writing
    <2>8. DiskRight(part', state', volatile') BY <1>1, <1>2, <2>5
    <2> HIDE DEF MendInv
    <2> QED BY <1>1, <1>2, <1>3, <2>3, <2>4, <2>5, <2>6, <2>7, <2>8, EngineWrites
  <1>5. CASE P!Fresh(e)
    <2>1. part = None BY <1>5 DEF P!Fresh
    <2>2. PICK x : x = [engine[e] EXCEPT !.at = "save", !.done = {}] OBVIOUS
    <2>3. x \in EngineSet /\ x.at = "save" /\ x.done = {} /\ x.version = engine[e].version /\ x.links = engine[e].links
      BY <1>1, <2>2 DEF EngineSet, EnginePCs
    <2>4. engine' = [engine EXCEPT ![e] = x] BY <1>1, <1>5, <2>2 DEF P!Fresh, P!Begin
    <2>5. UNCHANGED <<part, volatile>> BY <1>5 DEF P!Fresh, P!disk
    <2>6. EngineRight(file', part', state', hashed, x) BY <1>1, <1>2, <2>1, <2>3, <2>5 DEF EngineRight
    <2>7. x.at \in Writing /\ x.at # "idle" /\ engine[e].at # "idle" BY <1>1, <2>3 DEF Writing
    <2>8. DiskRight(part', state', volatile') BY <1>1, <1>2, <2>5
    <2> HIDE DEF MendInv
    <2> QED BY <1>1, <1>2, <1>3, <2>3, <2>4, <2>5, <2>6, <2>7, <2>8, EngineWrites
  <1>6. CASE P!Stale(e)
    <2>1. part' = None /\ volatile' = {} BY <1>6 DEF P!Stale
    <2>2. PICK x : x = [engine[e] EXCEPT !.at = "stale"] OBVIOUS
    <2>3. x \in EngineSet /\ x.at = "stale" /\ x.version = engine[e].version /\ x.links = engine[e].links
      BY <1>1, <2>2 DEF EngineSet, EnginePCs
    <2>4. engine' = [engine EXCEPT ![e] = x] BY <1>1, <1>6, <2>2 DEF P!Stale, P!EngineIs
    <2>5. EngineRight(file', part', state', hashed, x) BY <1>1, <1>2, <2>1, <2>3 DEF EngineRight
    <2>6. x.at \in Writing /\ x.at # "idle" /\ engine[e].at # "idle" BY <1>1, <2>3 DEF Writing
    <2>7. DiskRight(part', state', volatile') BY <2>1 DEF DiskRight
    <2>8. part' \in P!Data /\ volatile' \subseteq Pieces BY <2>1 DEF P!Data
    <2> HIDE DEF MendInv
    <2> QED BY <1>1, <1>2, <1>3, <2>3, <2>4, <2>5, <2>6, <2>7, <2>8, EngineWrites
  <1> QED BY <1>4, <1>5, <1>6

(* What an engine at work on the .part knows. *)
LEMMA WorksOnPart ==
  ASSUME Mendable, MendInv, NEW e \in P!Engines, engine[e].at \in {"stale", "save", "open", "fetch", "renamed"}
  PROVE  /\ engine \in [P!Engines -> EngineSet] /\ EngineRight(file, part, state, hashed, engine[e])
         /\ chances \in [Events -> Nat] /\ file \in P!Data /\ part \in P!Data /\ state \in StateSet \cup {None}
         /\ volatile \subseteq Pieces /\ DiskRight(part, state, volatile) /\ FileRight(file, history) /\ HeldByHashes
         /\ claim = e /\ engine[e].at \in Writing /\ engine[e].at # "idle" /\ engine[e].version \in Versions /\ engine[e].done \subseteq Pieces
         /\ engine[e] \in EngineSet
  BY DEF MendInv, TypedRepair, EnginesRight, Claimed, Writing, EngineRight, EngineSet

(* The state an engine saves names the version it probed. *)
LEMMA SavedState ==
  ASSUME Mendable, NEW version \in Versions, NEW done \in SUBSET Pieces, NEW s, s = [tag |-> version, done |-> done]
  PROVE  s \in StateSet /\ s # None /\ s.tag = version /\ s.done = done /\ VersionOf(s.tag) = version /\ s.tag # 0
  BY NoneIsNone, FirstVersion DEF StateSet

LEMMA ClearsState == ASSUME Mendable, MendInv, NEW e \in P!Engines, P!StaleState(e) PROVE MendInv'
  <1>1. engine[e].at = "stale" BY DEF P!StaleState, P!At
  <1>2. PICK x : x = [engine[e] EXCEPT !.at = "save", !.done = {}] OBVIOUS
  <1>3. x \in EngineSet /\ x.at = "save" /\ x.done = {} /\ x.version = engine[e].version /\ x.links = engine[e].links
    BY <1>1, <1>2, WorksOnPart DEF EngineSet, EnginePCs
  <1>4. engine' = [engine EXCEPT ![e] = x] BY <1>1, <1>2, WorksOnPart DEF P!StaleState, P!Begin
  <1>5. state' = None /\ UNCHANGED <<file, part, volatile, aside, claim, history, hashed, remote, repair, chances>>
    BY DEF P!StaleState, P!world
  <1>6. part = None /\ file = None BY <1>1, WorksOnPart DEF EngineRight
  <1>7. EngineRight(file', part', state', hashed, x) BY <1>1, <1>3, <1>5, <1>6, WorksOnPart DEF EngineRight
  <1>8. DiskRight(part', state', volatile') BY <1>5, <1>6 DEF DiskRight
  <1>9. x.at \in Writing /\ x.at # "idle" BY <1>3 DEF Writing
  <1> HIDE DEF MendInv
  <1> QED BY <1>1, <1>3, <1>4, <1>5, <1>7, <1>8, <1>9, WorksOnPart, EngineWrites

LEMMA Saves == ASSUME Mendable, MendInv, NEW e \in P!Engines, P!Save(e) PROVE MendInv'
  <1>1. engine[e].at = "save" BY DEF P!Save, P!At
  <1>2. PICK x : x = [engine[e] EXCEPT !.at = "open"] OBVIOUS
  <1>3. x \in EngineSet /\ x.at = "open" /\ x.done = engine[e].done /\ x.version = engine[e].version /\ x.links = engine[e].links
    BY <1>1, <1>2, WorksOnPart DEF EngineSet, EnginePCs
  <1>4. engine' = [engine EXCEPT ![e] = x] BY <1>1, <1>2, WorksOnPart DEF P!Save, P!EngineIs
  <1>5. PICK s : s = [tag |-> engine[e].version, done |-> engine[e].done] OBVIOUS
  <1>6. state' = s /\ UNCHANGED <<file, part, volatile, aside, claim, history, hashed, remote, repair, chances>>
    BY <1>5 DEF P!Save, P!world
  <1>7. s \in StateSet /\ s # None /\ s.tag = engine[e].version /\ s.done = engine[e].done /\ VersionOf(s.tag) = engine[e].version /\ s.tag # 0
    BY <1>1, <1>5, WorksOnPart, SavedState
  <1>8. EngineRight(file, part, s, hashed, x) BY <1>1, <1>3, <1>5, WorksOnPart DEF EngineRight
  <1>9. DiskRight(part, s, volatile)
    <2>1. CASE part = None BY <2>1 DEF DiskRight
    <2>2. CASE part # None
      <3>1. state # None /\ state.done = engine[e].done /\ state.tag \in {0, engine[e].version} /\ engine[e].version \in Versions /\ (hashed => engine[e].version = 1)
        BY <2>2, <1>1, WorksOnPart DEF EngineRight
      <3>2. VersionOf(state.tag) = engine[e].version
        <4>1. state.tag = 0 => hashed BY <3>1, <1>1, WorksOnPart DEF HeldByHashes
        <4> QED BY <4>1, <3>1, FirstVersion
      <3>3. DiskRight(part, state, volatile) BY <1>1, WorksOnPart
      <3> QED BY <3>1, <3>2, <3>3, <1>7, <2>2 DEF DiskRight
    <2> QED BY <2>1, <2>2
  <1>10. x.at \in Writing /\ x.at # "idle" BY <1>3 DEF Writing
  <1> HIDE DEF MendInv
  <1> QED BY <1>1, <1>3, <1>4, <1>6, <1>7, <1>8, <1>9, <1>10, WorksOnPart, EngineWrites

LEMMA Creates == ASSUME Mendable, MendInv, NEW e \in P!Engines, P!Create(e) PROVE MendInv'
  <1>1. engine[e].at = "open" BY DEF P!Create, P!At
  <1>2. PICK x : x = [engine[e] EXCEPT !.at = "fetch"] OBVIOUS
  <1>3. x \in EngineSet /\ x.at = "fetch" /\ x.done = engine[e].done /\ x.version = engine[e].version /\ x.links = engine[e].links
    BY <1>1, <1>2, WorksOnPart DEF EngineSet, EnginePCs
  <1>4. engine' = [engine EXCEPT ![e] = x] BY <1>1, <1>2, WorksOnPart DEF P!Create, P!EngineIs
  <1>5. PICK p, v : p = (IF part = None THEN P!Empty ELSE part) /\ v = (IF part = None THEN {} ELSE volatile) OBVIOUS
  <1>6. part' = p /\ volatile' = v /\ UNCHANGED <<file, state, aside, claim, history, hashed, remote, repair, chances>>
    BY <1>5 DEF P!Create, P!world
  <1>7. p \in P!Data /\ p # None /\ v \subseteq Pieces /\ (part # None => p = part /\ v = volatile) BY <1>5, Created
  <1>8. state = [tag |-> engine[e].version, done |-> engine[e].done] /\ (part = None => engine[e].done = {})
    BY <1>1, WorksOnPart DEF EngineRight
  <1>9. state \in StateSet /\ state # None /\ state.tag = engine[e].version /\ state.done = engine[e].done /\ VersionOf(state.tag) = engine[e].version
    BY <1>1, <1>8, WorksOnPart, SavedState
  <1>10. DiskRight(p, state, v)
    <2>1. DiskRight(part, state, volatile) BY <1>1, WorksOnPart
    <2> QED BY <2>1, <1>7, <1>8, <1>9 DEF DiskRight
  <1>11. \A q \in engine[e].done : p[q] \in {engine[e].version, Bad} BY <1>7, <1>9, <1>10 DEF DiskRight
  <1>12. EngineRight(file, p, state, hashed, x) BY <1>1, <1>3, <1>7, <1>9, <1>11, WorksOnPart DEF EngineRight
  <1>13. x.at \in Writing /\ x.at # "idle" BY <1>3 DEF Writing
  <1>14. state # None /\ state.tag = 0 => hashed BY <1>1, WorksOnPart DEF HeldByHashes
  <1> HIDE DEF MendInv
  <1> QED BY <1>1, <1>3, <1>4, <1>6, <1>7, <1>9, <1>10, <1>12, <1>13, <1>14, WorksOnPart, EngineWrites

LEMMA Fetches ==
  ASSUME Mendable, MendInv, NEW e \in P!Engines, NEW q \in Pieces, NEW m \in P!Mirrors, P!Fetch(e, q, m) PROVE MendInv'
  <1>1. engine[e].at = "fetch" BY DEF P!Fetch, P!At
  <1>2. PICK version : version = engine[e].version OBVIOUS
  <1>3. version \in Versions BY <1>1, <1>2, WorksOnPart
  <1>4. part # None /\ state # None /\ state.tag = version /\ state.done \subseteq engine[e].done
        /\ (\A o \in engine[e].done : part[o] \in {version, Bad}) /\ (hashed => version = 1) /\ (hashed \/ engine[e].links \subseteq Honors)
    BY <1>1, <1>2, WorksOnPart DEF EngineRight
  <1>5. q \notin engine[e].done /\ remote[m] = version
    <2>1. hashed => remote[m] = 1 BY DEF MendInv, HeldByHashes
    <2> QED BY <2>1, <1>2, <1>4 DEF P!Fetch
  <1>6. P!Arrives(q, version) BY <1>5 DEF P!Fetch
  <1>7. part' \in P!Data /\ part' # None /\ part'[q] \in {version, Bad} /\ (\A o \in Pieces : o # q => part'[o] = part[o])
        /\ volatile' = volatile \cup {q} /\ chances' \in [Events -> Nat]
    BY <1>3, <1>4, <1>6, ArrivesRightly
  <1>8. PICK x : x = [engine[e] EXCEPT !.done = @ \cup {q}] OBVIOUS
  <1>9. x \in EngineSet /\ x.at = "fetch" /\ x.done = engine[e].done \cup {q} /\ x.version = version /\ x.links = engine[e].links
    BY <1>1, <1>2, <1>8, WorksOnPart DEF EngineSet
  <1>10. engine' = [engine EXCEPT ![e] = x] BY <1>1, <1>8, WorksOnPart DEF P!Fetch
  <1>11. UNCHANGED <<file, state, aside, claim, history, hashed, remote, repair>> BY DEF P!Fetch, P!world
  <1>12. \A o \in x.done : part'[o] \in {version, Bad}
    <2>1. engine[e].done \subseteq Pieces BY <1>1, WorksOnPart
    <2> QED BY <2>1, <1>4, <1>5, <1>7, <1>9
  <1>13. file = None BY <1>1, WorksOnPart DEF EngineRight
  <1>14. EngineRight(file, part', state, hashed, x) BY <1>4, <1>7, <1>9, <1>12, <1>13, <1>3 DEF EngineRight
  <1>15. DiskRight(part', state, volatile')
    <2>1. DiskRight(part, state, volatile) /\ state.done \subseteq Pieces BY <1>1, <1>4, WorksOnPart DEF StateSet
    <2>2. q \notin state.done BY <1>4, <1>5
    <2> QED BY <2>1, <2>2, <1>4, <1>7 DEF DiskRight
  <1>16. x.at \in Writing /\ x.at # "idle" BY <1>9 DEF Writing
  <1>17. state # None /\ state.tag = 0 => hashed BY <1>1, WorksOnPart DEF HeldByHashes
  <1>18. volatile' \subseteq Pieces BY <1>1, <1>7, WorksOnPart
  <1> HIDE DEF MendInv
  <1> QED BY <1>1, <1>7, <1>9, <1>10, <1>11, <1>14, <1>15, <1>16, <1>17, <1>18, WorksOnPart, EngineWrites

(* The state a download writes, with what it has. *)
LEMMA StateOfDownload ==
  ASSUME Mendable, MendInv, NEW e \in P!Engines, engine[e].at = "fetch",
         NEW s, s = [tag |-> engine[e].version, done |-> engine[e].done]
  PROVE  /\ s \in StateSet /\ s # None /\ s.tag = engine[e].version /\ s.done = engine[e].done /\ s.tag # 0
         /\ DiskRight(part, s, {}) /\ EngineRight(file, part, s, hashed, engine[e])
  <1>1. s \in StateSet /\ s # None /\ s.tag = engine[e].version /\ s.done = engine[e].done /\ VersionOf(s.tag) = engine[e].version /\ s.tag # 0
    BY WorksOnPart, SavedState
  <1>2. EngineRight(file, part, state, hashed, engine[e]) BY WorksOnPart
  <1>3. part # None /\ \A q \in engine[e].done : part[q] \in {engine[e].version, Bad} BY <1>2 DEF EngineRight
  <1>4. DiskRight(part, s, {}) BY <1>1, <1>3 DEF DiskRight
  <1>5. EngineRight(file, part, s, hashed, engine[e]) BY <1>1, <1>2 DEF EngineRight
  <1> QED BY <1>1, <1>4, <1>5

LEMMA Persists == ASSUME Mendable, MendInv, NEW e \in P!Engines, P!Persist(e) PROVE MendInv'
  <1>1. engine[e].at = "fetch" BY DEF P!Persist, P!At
  <1>2. PICK s : s = [tag |-> engine[e].version, done |-> engine[e].done] OBVIOUS
  <1>3. state' = s /\ volatile' = {} /\ UNCHANGED <<file, part, aside, claim, history, hashed, remote, repair, engine, chances>>
    BY <1>2 DEF P!Persist, P!world
  <1>4. s \in StateSet /\ s.tag # 0 /\ DiskRight(part, s, {}) /\ EngineRight(file, part, s, hashed, engine[e])
    BY <1>1, <1>2, StateOfDownload
  <1>5. PICK x : x = engine[e] OBVIOUS
  <1>6. engine' = [engine EXCEPT ![e] = x] /\ x \in EngineSet /\ x.at = "fetch" BY <1>1, <1>3, <1>5, WorksOnPart
  <1>7. x.at \in Writing BY <1>6 DEF Writing
  <1> HIDE DEF MendInv
  <1> QED BY <1>1, <1>3, <1>4, <1>5, <1>6, <1>7, WorksOnPart, EngineWrites

LEMMA StopsFetching == ASSUME Mendable, MendInv, NEW e \in P!Engines, P!Stops(e) PROVE MendInv'
  <1>1. engine[e].at = "fetch" BY DEF P!Stops, P!At
  <1>2. PICK s : s = [tag |-> engine[e].version, done |-> engine[e].done] OBVIOUS
  <1>3. state' = s /\ volatile' = {} /\ claim' = None /\ P!Over(e, "error") /\ UNCHANGED <<file, part, aside, history, hashed, remote>>
    BY <1>2 DEF P!Stops, P!world
  <1>4. s \in StateSet /\ s.tag # 0 /\ DiskRight(part, s, {}) BY <1>1, <1>2, StateOfDownload
  <1>5. chances' \in [Events -> Nat] BY <1>1, WorksOnPart, Chances DEF P!Stops, Events
  <1>6. history \in EntrySet /\ EntryRight(history) BY DEF MendInv, TypedRepair
  <1>7. engine[e].at \in Writing BY <1>1 DEF Writing
  <1> HIDE DEF MendInv
  <1> QED BY <1>1, <1>3, <1>4, <1>5, <1>6, <1>7, WorksOnPart, EngineStopsWriting

(* Pieces that fail are fetched again, for those that pass the hashes. *)
LEMMA FetchesAgain == ASSUME Mendable, MendInv, NEW e \in P!Engines, P!Refetch(e) PROVE MendInv'
  <1>1. engine[e].at = "fetch" /\ e = "other" /\ hashed BY DEF P!Refetch, P!At, P!Failing
  <1>2. P!Passing(e) \subseteq Pieces /\ \A q \in P!Passing(e) : part[q] = 1 BY <1>1 DEF P!Passing, P!Failing
  <1>3. PICK s : s = [tag |-> 0, done |-> P!Passing(e)] OBVIOUS
  <1>4. s \in StateSet /\ s.tag = 0 /\ s.done = P!Passing(e) BY <1>2, <1>3 DEF StateSet
  <1>5. s # None BY <1>4, NoneIsNone
  <1>6. DiskRight(part, s, {}) BY <1>2, <1>4, <1>5, FirstVersion DEF DiskRight
  <1>7. state' = s /\ volatile' = {} /\ claim' = None /\ P!NextRound(e)
        /\ UNCHANGED <<file, part, aside, history, hashed, remote, repair, chances>>
    BY <1>3 DEF P!Refetch, P!world
  <1>8. PICK n : n = engine[e].round + 1 OBVIOUS
  <1>9. n \in Nat
    <2>1. engine[e] \in EngineSet BY <1>1, WorksOnPart
    <2>2. engine[e].round \in Nat BY <2>1 DEF EngineSet
    <2> QED BY <2>2, <1>8
  <1>10. CASE n > Rounds
    <2>1. P!Over(e, "error") BY <1>1, <1>7, <1>8, <1>10 DEF P!NextRound, P!Over
    <2>2. history \in EntrySet /\ EntryRight(history) BY DEF MendInv, TypedRepair
    <2>3. engine[e].at \in Writing BY <1>1 DEF Writing
    <2> HIDE DEF MendInv
    <2> QED BY <1>1, <1>4, <1>6, <1>7, <2>1, <2>2, <2>3, WorksOnPart, EngineStopsWriting
  <1>11. CASE ~(n > Rounds)
    <2>1. PICK l : l = Links[(n % Len(Links)) + 1] OBVIOUS
    <2>2. l \in P!Mirrors BY <1>9, <2>1, TheMirrors
    <2>3. PICK x : x = [P!NoEngine EXCEPT !.at = "probe", !.round = n, !.links = {l}] OBVIOUS
    <2>4. x \in EngineSet /\ x.at = "probe" BY <1>9, <2>2, <2>3, NoEngineIs DEF EngineSet, EnginePCs
    <2>5. engine' = [engine EXCEPT ![e] = x] BY <1>7, <1>8, <1>11, <2>1, <2>3 DEF P!NextRound
    <2>6. EngineRight(file, part, s, hashed, x) BY <1>1, <2>4 DEF EngineRight
    <2>7. x.at \notin Writing BY <2>4 DEF Writing
    <2> HIDE DEF MendInv
    <2> QED BY <1>1, <1>4, <1>6, <1>7, <2>4, <2>5, <2>6, <2>7, WorksOnPart, EngineWrites
  <1> QED BY <1>10, <1>11

LEMMA WholePart ==
  ASSUME Mendable, MendInv, NEW e \in P!Engines, engine[e].at = "fetch", engine[e].done = Pieces
  PROVE  part # None /\ P!Holes(part) = {} /\ engine[e].version \in Versions /\ \A q \in Pieces : part[q] \in {engine[e].version, Bad}
  <1>1. part # None /\ engine[e].version \in Versions /\ \A q \in Pieces : part[q] \in {engine[e].version, Bad}
    BY WorksOnPart DEF EngineRight
  <1> QED BY <1>1, FirstVersion DEF P!Holes

LEMMA Finalizes == ASSUME Mendable, MendInv, NEW e \in P!Engines, P!Finalize(e) PROVE MendInv'
  <1>1. engine[e].at = "fetch" /\ engine[e].done = Pieces /\ file = None BY DEF P!Finalize, P!At
  <1>2. PICK x : x = [engine[e] EXCEPT !.at = "renamed", !.done = {}, !.hash = part] OBVIOUS
  <1>3. x \in EngineSet /\ x.at = "renamed" /\ x.hash = part /\ x.version = engine[e].version /\ x.links = engine[e].links
    BY <1>1, <1>2, WorksOnPart DEF EngineSet, EnginePCs
  <1>4. engine' = [engine EXCEPT ![e] = x] BY <1>1, <1>2, WorksOnPart DEF P!Finalize
  <1>5. file' = part /\ part' = None /\ volatile' = {} /\ UNCHANGED <<state, aside, claim, history, hashed, remote, repair, chances>>
    BY DEF P!Finalize, P!world
  <1>6. EngineRight(part, None, state, hashed, x) BY <1>1, <1>3, WholePart, WorksOnPart DEF EngineRight
  <1>7. FileRight(part, history) BY <1>1, WholePart DEF FileRight
  <1>8. DiskRight(None, state, {}) BY DEF DiskRight
  <1>9. x.at \in Writing /\ x.at # "idle" BY <1>3 DEF Writing
  <1>10. None \in P!Data BY DEF P!Data
  <1>11. state # None /\ state.tag = 0 => hashed BY <1>1, WorksOnPart DEF HeldByHashes
  <1> HIDE DEF MendInv
  <1> QED BY <1>1, <1>3, <1>4, <1>5, <1>6, <1>7, <1>8, <1>9, <1>10, <1>11, WorksOnPart, EngineWrites

LEMMA HasName == ASSUME Mendable, MendInv, NEW e \in P!Engines, P!Renamed(e) PROVE MendInv'
  <1>1. engine[e].at = "renamed" BY DEF P!Renamed, P!At
  <1>2. PICK x : x = [engine[e] EXCEPT !.at = "record"] OBVIOUS
  <1>3. x \in EngineSet /\ x.at = "record" /\ x.hash = engine[e].hash /\ x.version = engine[e].version /\ x.links = engine[e].links
    BY <1>1, <1>2, WorksOnPart DEF EngineSet, EnginePCs
  <1>4. engine' = [engine EXCEPT ![e] = x] BY <1>1, <1>2, WorksOnPart DEF P!Renamed, P!EngineIs
  <1>5. state' = None /\ claim' = None /\ UNCHANGED <<file, part, volatile, aside, history, hashed, remote, repair, chances>>
    BY DEF P!Renamed, P!world
  <1>6. EngineRight(file, part, None, hashed, x) BY <1>1, <1>3, WorksOnPart DEF EngineRight
  <1>7. part = None BY <1>1, WorksOnPart DEF EngineRight
  <1>8. DiskRight(part', state', volatile') BY <1>5, <1>7 DEF DiskRight
  <1>9. x.at \notin Writing /\ x.at # "idle" BY <1>3 DEF Writing
  <1> HIDE DEF MendInv
  <1> QED BY <1>1, <1>3, <1>4, <1>5, <1>6, <1>8, <1>9, WorksOnPart, EngineWrites

LEMMA Records == ASSUME Mendable, MendInv, NEW e \in P!Engines, P!Record(e) PROVE MendInv'
  <1>1. engine[e].at = "record" /\ engine \in [P!Engines -> EngineSet] /\ EngineRight(file, part, state, hashed, engine[e])
        /\ chances \in [Events -> Nat] /\ file \in P!Data /\ part \in P!Data /\ state \in StateSet \cup {None}
        /\ volatile \subseteq Pieces /\ DiskRight(part, state, volatile) /\ HeldByHashes /\ claim = None
    BY DEF P!Record, P!At, MendInv, TypedRepair, EnginesRight, Claimed
  <1>2. PICK h : h = [hash |-> engine[e].hash, tag |-> engine[e].version, pieces |-> TRUE] OBVIOUS
  <1>3. file = engine[e].hash /\ file # None /\ engine[e].version \in Versions /\ \A q \in Pieces : file[q] \in {engine[e].version, Bad}
    BY <1>1 DEF EngineRight
  <1>4. file \in [Pieces -> P!Content] BY <1>1, <1>3 DEF P!Data
  <1>5. h \in EntrySet /\ h.hash = file /\ h.tag = engine[e].version BY <1>2, <1>3, <1>4 DEF EntrySet
  <1>6. EntryRight(h) BY <1>3, <1>5 DEF EntryRight
  <1>7. P!Holes(file) = {} BY <1>3, FirstVersion DEF P!Holes
  <1>8. FileRight(file, h) BY <1>7 DEF FileRight
  <1>9. history' = h /\ P!Over(e, "keep")
        /\ UNCHANGED <<file, part, state, volatile, aside, claim, hashed, remote, chances>>
    BY <1>2 DEF P!Record, P!disk, P!world
  <1>10. state' # None /\ state'.tag = 0 => hashed BY <1>1, <1>9 DEF HeldByHashes
  <1>11. engine[e].at \in Writing \cup {"record"} BY <1>1
  <1>12. DiskRight(part', state', volatile') BY <1>1, <1>9
  <1> HIDE DEF MendInv
  <1> QED BY <1>1, <1>3, <1>5, <1>6, <1>7, <1>8, <1>9, <1>10, <1>11, <1>12, EngineStopsWriting

-----------------------------------------------------------------------------
LEMMA Crashes == ASSUME Mendable, MendInv, P!CrashRepair \/ P!CrashOther PROVE MendInv'
  <1>1. engine \in [P!Engines -> EngineSet] /\ repair \in RepairSet /\ claim \in {"own", "other", "repair", None}
        /\ RepairRight(file, part, state, history, repair) /\ AsideKnown
    BY DEF MendInv, TypedRepair
  <1>2. PICK e \in P!Engines : engine' = [engine EXCEPT ![e] = P!NoEngine]
    BY DEF P!CrashRepair, P!CrashOther, P!Engines
  <1>3. engine' \in [P!Engines -> EngineSet] /\ engine'[e] = P!NoEngine /\ \A o \in P!Engines : o # e => engine'[o] = engine[o]
    BY <1>1, <1>2, NoEngineIs
  <1>4. UNCHANGED <<file, part, state, volatile, aside, history, hashed, remote>> /\ chances' \in [Events -> Nat]
    BY Chances DEF P!CrashRepair, P!CrashOther, P!disk, P!world, Events
  <1>5. P!NoEngine.at = "idle" /\ P!NoRepair.at = "idle" /\ P!NoRepair \in RepairSet BY NoEngineIs, NoRepairIs
  <1>6. /\ repair' \in RepairSet /\ RepairRight(file, part, state, history, repair') /\ AsideKnown'
        /\ claim' \in {"own", "other", "repair", None} /\ Claimed'
    <2>1. CASE P!CrashRepair
      <3>1. repair' = P!NoRepair /\ claim' = (IF claim = "other" THEN claim ELSE None)
            /\ engine'["own"] = P!NoEngine /\ engine'["other"] = engine["other"]
        BY <2>1, <1>1 DEF P!CrashRepair, P!Engines
      <3>2. Claimed' BY <3>1, <1>5, NoneIsNone DEF MendInv, Claimed, Mending, Writing, P!Engines
      <3>3. AsideKnown' BY <3>1, <1>5 DEF AsideKnown
      <3>4. repair' \in RepairSet /\ RepairRight(file, part, state, history, repair') BY <3>1, <1>5, RestIsRight
      <3> QED BY <3>1, <3>2, <3>3, <3>4
    <2>2. CASE P!CrashOther
      <3>1. repair' = repair /\ claim' = (IF claim = "other" THEN None ELSE claim)
            /\ engine'["other"] = P!NoEngine /\ engine'["own"] = engine["own"]
        BY <2>2, <1>1 DEF P!CrashOther, P!Engines
      <3>2. Claimed' BY <3>1, <1>5, NoneIsNone DEF MendInv, Claimed, Mending, Writing, P!Engines
      <3>3. AsideKnown' BY <3>1, <1>1, <1>4 DEF AsideKnown
      <3> QED BY <3>1, <3>2, <3>3, <1>1
    <2> QED BY <2>1, <2>2
  <1>7. TypedRepair' BY <1>3, <1>4, <1>6 DEF MendInv, TypedRepair
  <1>8. EnginesRight' BY <1>3, <1>4, RestIsRight DEF MendInv, EnginesRight
  <1>9. HeldByHashes' BY <1>4 DEF MendInv, HeldByHashes
  <1>10. RepairRight(file', part', state', history', repair') BY <1>4, <1>6
  <1>11. DiskRight(part', state', volatile') /\ FileRight(file', history') /\ EntryRight(history') BY <1>4 DEF MendInv
  <1> QED BY <1>6, <1>7, <1>8, <1>9, <1>10, <1>11 DEF MendInv

LEMMA Publishes == ASSUME Mendable, MendInv, NEW m \in P!Mirrors, P!Publish(m) PROVE MendInv'
  <1>1. ~hashed /\ remote' \in [P!Mirrors -> Versions] BY DEF P!Publish, MendInv, TypedRepair
  <1>2. UNCHANGED <<file, part, state, volatile, aside, claim, history, hashed, repair, engine>> /\ chances' \in [Events -> Nat]
    BY Chances DEF P!Publish, P!disk, Events
  <1>3. TypedRepair' BY <1>1, <1>2 DEF MendInv, TypedRepair
  <1>4. HeldByHashes' BY <1>1, <1>2 DEF MendInv, HeldByHashes
  <1>5. Claimed' /\ EnginesRight' /\ AsideKnown' BY <1>2 DEF MendInv, Claimed, EnginesRight, AsideKnown
  <1>6. RepairRight(file', part', state', history', repair') BY <1>2 DEF MendInv
  <1>7. DiskRight(part', state', volatile') /\ FileRight(file', history') /\ EntryRight(history') BY <1>2 DEF MendInv
  <1> QED BY <1>3, <1>4, <1>5, <1>6, <1>7 DEF MendInv

LEMMA DamagedAtFirst == ASSUME Mendable, P!Init PROVE MendInv
  <1>1. P!Whole(1) \in [Pieces -> P!Content] /\ \A q \in Pieces : P!Whole(1)[q] = 1 BY FirstVersion DEF P!Whole
  <1>2. history \in EntrySet /\ history.hash = P!Whole(1) /\ history.tag = 1 
    <2>1. PICK c : c = P!Complete OBVIOUS
    <2>2. c \in EntrySet /\ c.hash = P!Whole(1) /\ c.tag = 1 BY <1>1, <2>1, FirstVersion DEF P!Complete, EntrySet
    <2>3. history = c \/ history = [c EXCEPT !.pieces = FALSE] BY <2>1 DEF P!Init
    <2> QED BY <2>2, <2>3 DEF EntrySet
  <1>3. EntryRight(history) BY <1>1, <1>2 DEF EntryRight
  <1>4. file \in P!Data /\ part \in P!Data /\ state \in StateSet \cup {None} /\ volatile = {}
        /\ (file # None => \A q \in Pieces : file[q] \in {1, Bad, Hole}) /\ DiskRight(part, state, volatile)
        /\ (state # None => state.tag = 1)
    <2>1. CASE file \in [Pieces -> {1, Bad, Hole}] \ {P!Whole(1)} /\ part = None /\ state = None
      <3>1. file \in P!Data BY <2>1, FirstVersion DEF P!Data
      <3> QED BY <2>1, <3>1 DEF P!Init, P!Data, DiskRight
    <2>2. ASSUME file = None, NEW done \in SUBSET Pieces, part = [q \in Pieces |-> IF q \in done THEN 1 ELSE Hole],
                 state = [tag |-> 1, done |-> done]
          PROVE  <1>4!1
      <3>1. part \in [Pieces -> P!Content] /\ \A q \in done : part[q] = 1 BY <2>2, FirstVersion
      <3>2. state \in StateSet /\ state # None /\ state.tag = 1 /\ state.done = done /\ VersionOf(state.tag) = 1
        BY <2>2, FirstVersion, SavedState
      <3>3. volatile = {} BY DEF P!Init
      <3>4. DiskRight(part, state, volatile) BY <3>1, <3>2, <3>3 DEF DiskRight
      <3> QED BY <2>2, <3>1, <3>2, <3>3, <3>4 DEF P!Data
    <2> QED BY <2>1, <2>2 DEF P!Init
  <1>5. remote = [m \in P!Mirrors |-> 1] /\ repair = P!NoRepair /\ engine = [e \in P!Engines |-> P!NoEngine] /\ claim = None
        /\ chances = Budget /\ hashed \in BOOLEAN /\ aside \in {"none", "saved"}
    BY DEF P!Init
  <1>6. TypedRepair BY <1>2, <1>4, <1>5, NoRepairIs, NoEngineIs, FirstVersion DEF TypedRepair, Mendable
  <1>7. \A e \in P!Engines : engine[e] = P!NoEngine BY <1>5
  <1>8. Claimed BY <1>5, <1>7, NoRepairIs, NoEngineIs, NoneIsNone DEF Claimed, Mending, Writing, P!Engines
  <1>9. HeldByHashes BY <1>4, <1>5 DEF HeldByHashes
  <1>10. FileRight(file, history) BY <1>2, <1>4 DEF FileRight
  <1>11. RepairRight(file, part, state, history, repair) /\ EnginesRight BY <1>5, <1>7, RestIsRight DEF EnginesRight
  <1>12. AsideKnown BY <1>5, NoRepairIs DEF AsideKnown
  <1> QED BY <1>3, <1>4, <1>6, <1>8, <1>9, <1>10, <1>11, <1>12 DEF MendInv

LEMMA RepairStepIsRight == ASSUME Mendable, MendInv, P!Mend PROVE MendInv'
  <1> HIDE DEF MendInv
  <1> QED
    BY Verifies, ClaimsForRepair, RepairGivesUp, Prepares, Moves, Opens, HandsOver, GoesInPlace, ReadsHistory, StartsEngine, KeepsHash,
       FetchesInPlace, IsRepaired, LeavesAside DEF P!Mend

LEMMA EngineStepIsRight == ASSUME Mendable, MendInv, NEW e \in P!Engines, P!Engine(e) PROVE MendInv'
  BY Probes, PlansBeside, TakesTheName, ClearsState, Saves, Creates, Fetches, Persists, StopsFetching, FetchesAgain, Finalizes,
     HasName, Records DEF P!Engine

LEMMA MendNext == ASSUME Mendable, MendInv, [P!Next]_(P!vars) PROVE MendInv'
  <1>1. CASE P!Next BY <1>1, RepairStepIsRight, EngineStepIsRight, StartsOther, Crashes, Publishes DEF P!Next
  <1>2. CASE UNCHANGED P!vars
    <2>1. UNCHANGED <<file, part, state, volatile, aside, claim, history, hashed, remote, repair, engine, chances>>
      BY <1>2 DEF P!vars, P!disk, P!world
    <2>2. TypedRepair' /\ Claimed' /\ HeldByHashes' /\ EnginesRight' /\ AsideKnown'
      BY <2>1 DEF MendInv, TypedRepair, Claimed, HeldByHashes, EnginesRight, AsideKnown
    <2>3. DiskRight(part', state', volatile') /\ FileRight(file', history') /\ EntryRight(history')
          /\ RepairRight(file', part', state', history', repair')
      BY <2>1 DEF MendInv
    <2> QED BY <2>2, <2>3 DEF MendInv
  <1> QED BY <1>1, <1>2

LEMMA MendInductive == ASSUME Mendable PROVE P!Spec => []MendInv
  <1>1. P!Init => MendInv BY DamagedAtFirst
  <1>2. MendInv /\ [P!Next]_(P!vars) => MendInv' BY MendNext
  <1> QED BY <1>1, <1>2, PTL DEF P!Spec

(* Whatever repairs, their engines, another download and crashes do to a file, its .part and its state: what the state *)
(* records is in the .part, durably, and of no version but the one it names (verify.rs: prepare_repair, finish_repair; *)
(* digest.rs: refetch).                                                                                                *)
THEOREM RepairedStateIsTrue == ASSUME Mendable PROVE P!Spec => [](P!TypeOK /\ P!StateIsTrue)
  <1>1. MendInv => P!TypeOK
    BY DEF MendInv, TypedRepair, P!TypeOK, StateSet, P!Engines
  <1>2. ASSUME Mendable, MendInv PROVE P!StateIsTrue
    <2> SUFFICES ASSUME part # None, state # None
                 PROVE  /\ state.done \cap volatile = {}
                        /\ \A q \in state.done : part[q] \in IF state.tag = 0 THEN Versions \cup {Bad} ELSE {state.tag, Bad}
      BY DEF P!StateIsTrue
    <2> QED BY <1>2, FirstVersion DEF MendInv, DiskRight, VersionOf
  <1> QED BY <1>1, <1>2, MendInductive, PTL

-----------------------------------------------------------------------------
(* What a step may do to good bytes, and to the name. *)
KeepsGood ==
  /\ P!Good \subseteq P!Good' \cup repair.missing \/ P!GivenUp
  /\ file' \notin {file, None} => P!OneVersion(file')
  /\ aside = "saved" => aside' \in {"saved", "copy"}

LEMMA DiskUntouched ==
  ASSUME UNCHANGED <<file, part, state>>, aside = "saved" => aside' \in {"saved", "copy"} PROVE KeepsGood
  <1>1. P!Good' = P!Good BY DEF P!Good
  <1> QED BY <1>1 DEF KeepsGood

(* With no file, good bytes are those of the .part that its state records. *)
LEMMA PartGrows ==
  ASSUME UNCHANGED <<file, aside>>, part # None => part' # None,
         \/ file # None
         \/ part = None \/ state = None
         \/ /\ state' # None
            /\ \A q \in state.done \ repair.missing :
                 q \in Pieces /\ part[q] \in Versions => q \in state'.done /\ part'[q] = part[q]
  PROVE  KeepsGood
  <1>1. P!Good \subseteq P!Good' \cup repair.missing
    <2> SUFFICES ASSUME NEW q \in P!Good, q \notin repair.missing PROVE q \in P!Good' OBVIOUS
    <2> QED BY DEF P!Good
  <1> QED BY <1>1 DEF KeepsGood

LEMMA NamedWhole ==
  ASSUME UNCHANGED aside, file = None, file' = part, part # None, NEW version \in Versions,
         version \notin {Bad, Hole}, Bad # Hole,
         \A q \in Pieces : part[q] \in {version, Bad}
  PROVE  KeepsGood
  <1>1. P!Good \subseteq P!Good' BY DEF P!Good
  <1>2. P!OneVersion(part) BY DEF P!OneVersion, P!Holes
  <1> QED BY <1>1, <1>2 DEF KeepsGood

LEMMA RepairKeepsGood ==
  ASSUME Mendable, MendInv,
         P!Prepare \/ P!Move \/ P!MoveFails \/ P!Open \/ (\E q \in Pieces, m \in P!Mirrors : P!FetchRange(q, m)) \/ P!Repaired \/ P!Tidy \/ P!Kept
  PROVE  KeepsGood
  <1>1. RepairRight(file, part, state, history, repair) /\ repair \in RepairSet /\ state \in StateSet \cup {None}
    BY DEF MendInv, TypedRepair
  <1>2. CASE P!Prepare
    <2>1. repair.at = "prepare" /\ UNCHANGED <<file, part, aside>> /\ state' = [tag |-> P!Known.tag, done |-> P!Trusted]
      BY <1>2 DEF P!Prepare
    <2>2. state' \in StateSet /\ state'.done = P!Trusted
      <3>1. P!Known.tag \in Versions \cup {0} /\ P!Trusted \subseteq Pieces BY <2>1, TrustsRightly
      <3> QED BY <2>1, <3>1 DEF StateSet
    <2>3. state' # None BY <2>2, NoneIsNone
    <2>4. CASE P!OnPart
      <3>1. part # None => P!Trusted = state.done \ repair.missing BY <2>1, <2>4, TrustsRightly
      <3> QED BY <2>1, <2>2, <2>3, <3>1, PartGrows
    <2>5. CASE ~P!OnPart
      <3>1. file # None BY <2>1, <2>5, TrustsRightly
      <3> QED BY <2>1, <3>1, PartGrows
    <2> QED BY <2>4, <2>5
  <1>3. CASE P!Move
    <2>1. part' = file /\ file' = None /\ UNCHANGED <<state, aside>> /\ repair.at = "move" BY <1>3 DEF P!Move
    <2>2. PICK tag, done : tag = repair.tag /\ done = repair.done OBVIOUS
    <2>3. file # None /\ state = [tag |-> tag, done |-> done] /\ done = Pieces \ (repair.missing \cup P!Holes(file)) /\ tag \in Versions
      BY <2>1, <2>2, <1>1 DEF RepairRight
    <2>4. state # None /\ state.done = done BY <2>3, SavedState
    <2>5. P!Good \subseteq P!Good' \cup repair.missing
      <3> SUFFICES ASSUME NEW q \in P!Good, q \notin repair.missing PROVE q \in P!Good' OBVIOUS
      <3>1. q \in Pieces /\ file[q] \in Versions BY <2>3 DEF P!Good
      <3>2. q \notin P!Holes(file) BY <3>1, FirstVersion DEF P!Holes
      <3> QED BY <2>1, <2>3, <2>4, <3>1, <3>2 DEF P!Good
    <2> QED BY <2>1, <2>5 DEF KeepsGood
  <1>4. CASE P!MoveFails
    <2>1. file # None /\ UNCHANGED <<file, part, aside>> BY <1>4, <1>1 DEF P!MoveFails, RepairRight
    <2> QED BY <2>1, PartGrows
  <1>5. CASE P!Open
    <2>1. UNCHANGED <<file, state, aside>> /\ part' = (IF part = None THEN P!Empty ELSE part) BY <1>5 DEF P!Open
    <2> QED BY <2>1, PartGrows
  <1>6. ASSUME NEW q \in Pieces, NEW m \in P!Mirrors, P!FetchRange(q, m) PROVE KeepsGood
    <2>1. repair.at = "inPlace" /\ q \notin repair.done /\ UNCHANGED <<file, state, aside>> /\ P!Arrives(q, remote[m]) /\ remote[m] \in Versions
      BY <1>6 DEF P!FetchRange, P!NextGap, MendInv, TypedRepair
    <2>2. part' # None /\ \A o \in Pieces : o # q => part'[o] = part[o] BY <2>1, WorksInPlace, ArrivesRightly
    <2>3. state # None /\ state.done \subseteq repair.done BY <2>1, WorksInPlace
    <2> QED BY <2>1, <2>2, <2>3, PartGrows
  <1>7. CASE P!Repaired
    <2>1. repair.at = "inPlace" /\ repair.done = Pieces /\ file = None /\ file' = part /\ UNCHANGED aside BY <1>7 DEF P!Repaired
    <2>2. part # None /\ \A q \in Pieces : part[q] \in {VersionOf(repair.tag), Bad} BY <2>1, WorksInPlace
    <2>3. VersionOf(repair.tag) \in Versions BY <1>1, FirstVersion DEF RepairSet
    <2> QED BY <2>1, <2>2, <2>3, FirstVersion, NamedWhole
  <1>8. CASE P!Tidy
    <2>1. part = None /\ UNCHANGED <<file, part, aside>> BY <1>8, <1>1 DEF P!Tidy, RepairRight
    <2> QED BY <2>1, PartGrows
  <1>9. CASE P!Kept
    <2>1. repair.at = "inPlace" /\ UNCHANGED <<file, part, aside>> BY <1>9 DEF P!Kept
    <2>2. PICK s : s = [tag |-> repair.tag, done |-> repair.done] OBVIOUS
    <2>3. state' = s /\ s \in StateSet /\ s.done = repair.done BY <1>1, <1>9, <2>2 DEF P!Kept, StateSet, RepairSet
    <2>4. state # None /\ state.done \subseteq repair.done BY <2>1, WorksInPlace
    <2> QED BY <2>1, <2>3, <2>4, NoneIsNone, PartGrows
  <1> QED BY <1>2, <1>3, <1>4, <1>5, <1>6, <1>7, <1>8, <1>9

LEMMA EngineKeepsGood ==
  ASSUME Mendable, MendInv, NEW e \in P!Engines,
         P!Stale(e) \/ P!StaleState(e) \/ P!Save(e) \/ P!Create(e) \/ (\E q \in Pieces, m \in P!Mirrors : P!Fetch(e, q, m))
         \/ P!Persist(e) \/ P!Stops(e) \/ P!Refetch(e) \/ P!Finalize(e) \/ P!Renamed(e)
  PROVE  KeepsGood
  <1>1. EngineRight(file, part, state, hashed, engine[e]) /\ state \in StateSet \cup {None} /\ DiskRight(part, state, volatile)
    BY DEF MendInv, TypedRepair, EnginesRight
  <1>2. CASE P!Stale(e)
    <2>1. part # None /\ part' = None /\ claim' = e /\ UNCHANGED <<file, aside>> /\ ~P!Matches(state.tag, engine[e].version)
      BY <1>2 DEF P!Stale
    <2>2. state # None /\ engine[e].version # state.tag BY <1>1, <2>1 DEF DiskRight, P!Matches
    <2>3. P!GivenUp BY <2>1, <2>2 DEF P!GivenUp
    <2> QED BY <2>1, <2>3 DEF KeepsGood
  <1>3. CASE P!StaleState(e)
    <2>1. part = None /\ UNCHANGED <<file, part, aside>> BY <1>1, <1>3 DEF P!StaleState, P!At, EngineRight
    <2> QED BY <2>1, PartGrows
  <1>4. CASE P!Save(e)
    <2>1. engine[e].at = "save" /\ UNCHANGED <<file, part, aside>> BY <1>4 DEF P!Save, P!At
    <2>2. PICK s : s = [tag |-> engine[e].version, done |-> engine[e].done] OBVIOUS
    <2>3. state' = s BY <1>4, <2>2 DEF P!Save
    <2>4. s # None /\ s.done = engine[e].done BY <2>1, <2>2, WorksOnPart, SavedState
    <2>5. part = None \/ state.done = engine[e].done BY <1>1, <2>1 DEF EngineRight
    <2> QED BY <2>1, <2>3, <2>4, <2>5, PartGrows
  <1>5. CASE P!Create(e)
    <2>1. UNCHANGED <<file, state, aside>> /\ part' = (IF part = None THEN P!Empty ELSE part) BY <1>5 DEF P!Create
    <2> QED BY <2>1, PartGrows
  <1>6. ASSUME NEW q \in Pieces, NEW m \in P!Mirrors, P!Fetch(e, q, m) PROVE KeepsGood
    <2>1. engine[e].at = "fetch" /\ q \notin engine[e].done /\ UNCHANGED <<file, state, aside>> /\ P!Arrives(q, remote[m]) /\ remote[m] \in Versions
      BY <1>6 DEF P!Fetch, P!At, MendInv, TypedRepair
    <2>2. part # None /\ state # None /\ state.done \subseteq engine[e].done BY <2>1, <1>1 DEF EngineRight
    <2>3. part' # None /\ \A o \in Pieces : o # q => part'[o] = part[o] BY <2>1, <2>2, ArrivesRightly
    <2> QED BY <2>1, <2>2, <2>3, PartGrows
  <1>7. CASE P!Persist(e) \/ P!Stops(e)
    <2>1. engine[e].at = "fetch" /\ UNCHANGED <<file, part, aside>> BY <1>7 DEF P!Persist, P!Stops, P!At
    <2>2. PICK s : s = [tag |-> engine[e].version, done |-> engine[e].done] OBVIOUS
    <2>3. state' = s BY <1>7, <2>2 DEF P!Persist, P!Stops
    <2>4. s # None /\ s.done = engine[e].done BY <2>1, <2>2, WorksOnPart, SavedState
    <2>5. state.done \subseteq engine[e].done BY <1>1, <2>1 DEF EngineRight
    <2> QED BY <2>1, <2>3, <2>4, <2>5, PartGrows
  <1>8. CASE P!Refetch(e)
    <2>1. engine[e].at = "fetch" /\ e = "other" /\ hashed /\ UNCHANGED <<file, part, aside>>
          /\ state' = [tag |-> 0, done |-> P!Passing(e)]
      BY <1>8 DEF P!Refetch, P!At, P!Failing
    <2>2. P!Passing(e) = {q \in Pieces : part[q] = 1} BY <2>1 DEF P!Passing, P!Failing
    <2>3. state' \in StateSet /\ state'.done = P!Passing(e) BY <2>1, <2>2 DEF StateSet
    <2>4. state' # None BY <2>3, NoneIsNone
    <2>5. engine[e].version = 1 /\ state.done \subseteq engine[e].done /\ \A q \in engine[e].done : part[q] \in {1, Bad}
      BY <2>1, <1>1 DEF EngineRight
    <2> QED BY <2>1, <2>2, <2>3, <2>4, <2>5, FirstVersion, PartGrows
  <1>9. CASE P!Finalize(e)
    <2>1. engine[e].at = "fetch" /\ engine[e].done = Pieces /\ file = None /\ file' = part /\ UNCHANGED aside
      BY <1>9 DEF P!Finalize, P!At
    <2> QED BY <2>1, WholePart, FirstVersion, NamedWhole
  <1>10. CASE P!Renamed(e)
    <2>1. part = None /\ UNCHANGED <<file, part, aside>> BY <1>1, <1>10 DEF P!Renamed, P!At, EngineRight
    <2> QED BY <2>1, PartGrows
  <1> QED BY <1>2, <1>3, <1>4, <1>5, <1>6, <1>7, <1>8, <1>9, <1>10

LEMMA AsideKeepsGood ==
  ASSUME Mendable, MendInv, P!StopAside \/ P!CopyAside \/ \E e \in P!Engines : P!GoAside(e) PROVE KeepsGood
  <1>1. UNCHANGED <<file, part, state>> BY DEF P!StopAside, P!CopyAside, P!GoAside, P!disk
  <1>2. aside = "saved" => aside' \in {"saved", "copy"}
    <2>1. ASSUME P!StopAside, aside = "saved" PROVE aside' = "saved"
      <3>1. repair.at = "engine" BY <2>1 DEF P!StopAside, P!At, MendInv, Claimed
      <3>2. repair.before BY <3>1, <2>1 DEF MendInv, AsideKnown
      <3> QED BY <2>1, <3>2 DEF P!StopAside, P!Remains
    <2> QED BY <2>1 DEF P!CopyAside, P!GoAside
  <1> QED BY <1>1, <1>2, DiskUntouched

(* All other steps leave the disk alone. *)
LEMMA BesideKeepsGood ==
  ASSUME \/ P!Verify \/ P!Claim \/ P!StillDownloaded \/ P!Refused \/ P!NoMirror \/ P!HandOver \/ P!InPlace \/ P!ReadHistory
         \/ P!StartEngine \/ P!KeepHash \/ P!SyncFails \/ P!StartOther \/ P!CrashRepair \/ P!CrashOther
         \/ (\E m \in P!Mirrors : P!WrongVersion(m) \/ P!Publish(m))
         \/ (\E e \in P!Engines : P!Probe(e) \/ P!Done(e) \/ P!Resume(e) \/ P!Fresh(e) \/ P!Record(e))
  PROVE  KeepsGood
  <1>1. UNCHANGED <<file, part, state, aside>>
    BY DEF P!Verify, P!Claim, P!StillDownloaded, P!Refused, P!NoMirror, P!HandOver, P!InPlace, P!ReadHistory,
           P!StartEngine, P!KeepHash, P!SyncFails, P!StartOther, P!CrashRepair, P!CrashOther, P!WrongVersion, P!Publish,
           P!Probe, P!Done, P!Resume, P!Fresh, P!Record, P!disk
  <1> QED BY <1>1, DiskUntouched

LEMMA StepKeepsGood == ASSUME Mendable, MendInv, [P!Next]_(P!vars) PROVE KeepsGood
  <1> HIDE DEF MendInv, KeepsGood
  <1>1. CASE P!Mend BY <1>1, RepairKeepsGood, AsideKeepsGood, BesideKeepsGood DEF P!Mend
  <1>2. ASSUME NEW e \in P!Engines, P!Engine(e) PROVE KeepsGood
    BY <1>2, EngineKeepsGood, AsideKeepsGood, BesideKeepsGood DEF P!Engine
  <1>3. CASE P!StartOther \/ P!CrashRepair \/ P!CrashOther \/ \E m \in P!Mirrors : P!Publish(m) BY <1>3, BesideKeepsGood
  <1>4. CASE UNCHANGED P!vars
    <2>1. UNCHANGED <<file, part, state, aside>> BY <1>4 DEF P!vars, P!disk
    <2> QED BY <2>1, DiskUntouched
  <1> QED BY <1>1, <1>2, <1>3, <1>4 DEF P!Next

(* Repairs, engines and crashes, in any order: good bytes are given up only where a verification found them missing or the *)
(* server has another version, what takes the name is whole and of one version, and what was saved under the next name     *)
(* stays (verify.rs: repair_missing_ranges, repair_with_engine; engine.rs: plan_target).                                   *)
THEOREM RepairsLoseNothing == ASSUME Mendable PROVE P!Spec => P!NothingGoodLost
  <1>1. MendInv /\ [P!Next]_(P!vars) => KeepsGood BY StepKeepsGood
  <1>2. P!NothingGoodLost <=> [][KeepsGood]_(P!vars) BY DEF P!NothingGoodLost, KeepsGood
  <1>3. P!Spec => [][P!Next]_(P!vars) BY DEF P!Spec
  <1> QED BY <1>1, <1>2, <1>3, MendInductive, PTL

-----------------------------------------------------------------------------
(* What may happen happens less often each time. *)
LEMMA MayOnce ==
  ASSUME MendInv, NEW what \in Events, P!May(what)
  PROVE  (\A o \in Events : chances'[o] <= chances[o]) /\ chances'[what] < chances[what]
  BY DEF MendInv, TypedRepair, P!May

LEMMA ChancesFall ==
  ASSUME Mendable, MendInv, P!Next
  PROVE  /\ \A o \in Events : chances'[o] <= chances[o]
         /\ P!StartOther => chances'["other"] < chances["other"]
         /\ P!CrashRepair \/ P!CrashOther => chances'["crash"] < chances["crash"]
         /\ (\E m \in P!Mirrors : P!Publish(m)) => chances'["publish"] < chances["publish"]
  <1>1. chances \in [Events -> Nat] BY DEF MendInv, TypedRepair
  <1>2. \A o \in Events : chances[o] <= chances[o] BY <1>1
  <1>3. UNCHANGED chances \/ \E what \in Events : P!May(what)
    <2>1. ASSUME P!Mend PROVE UNCHANGED chances \/ \E what \in Events : P!May(what)
      BY <2>1
      DEF P!Mend, P!Verify, P!Claim, P!StillDownloaded, P!Prepare, P!Refused, P!Move, P!MoveFails, P!Open, P!NoMirror, P!HandOver,
          P!InPlace, P!ReadHistory, P!StartEngine, P!KeepHash, P!WrongVersion, P!FetchRange, P!Repaired, P!Tidy, P!Kept,
          P!SyncFails, P!StopAside, P!CopyAside, P!Answering, P!Arrives, P!Ends, Events
    <2>2. ASSUME NEW e \in P!Engines, P!Engine(e) PROVE UNCHANGED chances \/ \E what \in Events : P!May(what)
      BY <2>2
      DEF P!Engine, P!Probe, P!Done, P!GoAside, P!Resume, P!Fresh, P!Stale, P!StaleState, P!Save, P!Create, P!Fetch, P!Persist, P!Stops,
          P!Refetch, P!Finalize, P!Renamed, P!Record, P!Arrives, Events
    <2>3. ASSUME P!StartOther \/ P!CrashRepair \/ P!CrashOther \/ \E m \in P!Mirrors : P!Publish(m)
          PROVE  UNCHANGED chances \/ \E what \in Events : P!May(what)
      BY <2>3 DEF P!StartOther, P!CrashRepair, P!CrashOther, P!Publish, Events
    <2> QED BY <2>1, <2>2, <2>3 DEF P!Next
  <1>4. \A o \in Events : chances'[o] <= chances[o] BY <1>2, <1>3, MayOnce
  <1>5. P!StartOther => chances'["other"] < chances["other"] BY MayOnce DEF P!StartOther, Events
  <1>6. P!CrashRepair \/ P!CrashOther => chances'["crash"] < chances["crash"] BY MayOnce DEF P!CrashRepair, P!CrashOther, Events
  <1>7. (\E m \in P!Mirrors : P!Publish(m)) => chances'["publish"] < chances["publish"] BY MayOnce DEF P!Publish, Events
  <1> QED BY <1>4, <1>5, <1>6, <1>7

(* The steps of the repair that have to do neither with history nor with its engine. *)
LEMMA RepairAlone ==
  ASSUME Mendable, MendInv, AloneRight, P!Mend, ~P!StartEngine, ~P!KeepHash, ~P!StopAside, ~P!CopyAside, ~P!ReadHistory
  PROVE  AloneRight'
  <1>1. UNCHANGED <<engine, remote, history>>
    BY DEF P!Mend, P!Verify, P!Claim, P!StillDownloaded, P!Prepare, P!Refused, P!Move, P!MoveFails, P!Open, P!NoMirror, P!HandOver,
           P!InPlace, P!WrongVersion, P!FetchRange, P!Repaired, P!Tidy, P!Kept, P!SyncFails, P!world
  <1>2. repair.at # "keep" \/ P!Verify
    BY DEF P!Mend, P!Claim, P!StillDownloaded, P!Prepare, P!Refused, P!Move, P!MoveFails, P!Open, P!NoMirror, P!HandOver,
           P!InPlace, P!WrongVersion, P!FetchRange, P!Repaired, P!Tidy, P!Kept, P!SyncFails
  <1>3. repair \in RepairSet BY DEF MendInv, TypedRepair
  <1>4. repair.at # "keep"
    <2>1. P!Verify => repair.at = "idle" BY DEF P!Verify
    <2> QED BY <1>2, <2>1
  <1>5. repair'.at \notin {"look", "engine", "keep"} /\ (repair'.at \notin {"idle", "claim", "prepare"} => repair'.tag = 1)
    <2>1. CASE P!Verify \/ P!StillDownloaded \/ P!Refused \/ P!MoveFails \/ P!NoMirror \/ P!Tidy \/ P!Kept \/ P!SyncFails
      BY <2>1, NoRepairIs DEF P!Verify, P!StillDownloaded, P!Refused, P!MoveFails, P!NoMirror, P!Tidy, P!Kept, P!SyncFails, RepairSet
    <2>2. CASE P!Claim BY <2>2, <1>3 DEF P!Claim, P!RepairIs, RepairSet
    <2>3. CASE P!Prepare
      <3>1. P!Known.tag = 1 BY DEF AloneRight, P!Known
      <3>2. PICK tag, done, at : tag = P!Known.tag /\ done = P!Trusted /\ at = IF P!OnPart \/ file = None THEN "open" ELSE "move" OBVIOUS
      <3>3. repair' = [repair EXCEPT !.at = at, !.tag = tag, !.done = done] BY <2>3, <3>2 DEF P!Prepare
      <3> QED BY <1>3, <3>1, <3>2, <3>3 DEF RepairSet
    <2>4. CASE P!Move \/ P!Repaired BY <2>4, <1>3 DEF P!Move, P!Repaired, P!RepairIs, RepairSet, AloneRight
    <2>5. CASE P!Open BY <2>5, <1>3 DEF P!Open, RepairSet, AloneRight
    <2>6. CASE P!HandOver BY <2>6, <1>3 DEF P!HandOver, RepairSet, AloneRight
    <2>7. CASE P!InPlace BY <2>7, <1>3 DEF P!InPlace, RepairSet, AloneRight
    <2>8. CASE \E m \in P!Mirrors : P!WrongVersion(m) BY <2>8, <1>3 DEF P!WrongVersion, RepairSet, AloneRight
    <2>9. CASE \E m \in P!Mirrors, q \in Pieces : P!FetchRange(q, m) BY <2>9, <1>3 DEF P!FetchRange, RepairSet, AloneRight
    <2> QED BY <2>1, <2>2, <2>3, <2>4, <2>5, <2>6, <2>7, <2>8, <2>9 DEF P!Mend
  <1>6. state' # None => state'.tag = 1
    <2>1. CASE P!Prepare
      <3>1. P!Known.tag = 1 BY DEF AloneRight, P!Known
      <3>2. PICK tag, done : tag = P!Known.tag /\ done = P!Trusted OBVIOUS
      <3> QED BY <2>1, <3>1, <3>2 DEF P!Prepare
    <2>2. CASE P!Kept BY <2>2 DEF P!Kept, AloneRight
    <2>3. CASE P!MoveFails \/ P!Tidy BY <2>3 DEF P!MoveFails, P!Tidy
    <2>4. CASE ~P!Prepare /\ ~P!Kept /\ ~P!MoveFails /\ ~P!Tidy
      <3>1. UNCHANGED state
        BY <2>4 DEF P!Mend, P!Verify, P!Claim, P!StillDownloaded, P!Refused, P!Move, P!Open, P!NoMirror, P!HandOver,
           P!InPlace, P!WrongVersion, P!FetchRange, P!Repaired, P!SyncFails, P!disk
      <3> QED BY <3>1 DEF AloneRight
    <2> QED BY <2>1, <2>2, <2>3, <2>4
  <1>7. Clean(history') BY <1>1, <1>4 DEF AloneRight
  <1> QED BY <1>1, <1>5, <1>6, <1>7 DEF AloneRight

LEMMA HistoryAlone ==
  ASSUME Mendable, MendInv, AloneRight, P!ReadHistory \/ P!StartEngine \/ P!KeepHash PROVE AloneRight'
  <1>1. repair \in RepairSet /\ history \in EntrySet /\ engine \in [P!Engines -> EngineSet]
        /\ RepairRight(file, part, state, history, repair) /\ engine["own"].at # "record"
    BY DEF MendInv, TypedRepair, P!ReadHistory, P!StartEngine, P!KeepHash, Claimed
  <1>2. UNCHANGED <<remote, state>> /\ engine["other"].at = "idle" /\ (\A m \in P!Mirrors : remote[m] = 1) /\ (state # None => state.tag = 1)
    BY DEF P!ReadHistory, P!StartEngine, P!KeepHash, P!disk, P!world, AloneRight
  <1>3. CASE P!ReadHistory
    <2>1. repair.at = "read" /\ Clean(history) /\ history.tag = 1 /\ repair.tag = 1 BY <1>3 DEF P!ReadHistory, AloneRight
    <2>2. repair'.at = "look" /\ repair'.recorded = history /\ repair'.tag = repair.tag /\ UNCHANGED <<history, engine>>
      BY <1>1, <1>3 DEF P!ReadHistory, RepairSet
    <2>3. Clean(history') BY <2>1, <2>2
    <2> QED BY <1>2, <2>1, <2>2, <2>3 DEF AloneRight
  <1>4. CASE P!StartEngine
    <2>1. repair.at = "look" /\ Clean(history) /\ history.tag = 1 /\ repair.tag = 1 /\ Clean(repair.recorded) /\ repair.recorded.tag = 1
      BY <1>4 DEF P!StartEngine, AloneRight
    <2>2. repair'.at = "engine" /\ repair'.recorded = repair.recorded /\ repair'.tag = repair.tag /\ UNCHANGED history
      BY <1>1, <1>4 DEF P!StartEngine, RepairSet
    <2>3. engine'["other"] = engine["other"] BY <1>1, <1>4 DEF P!StartEngine, P!Engines
    <2>4. engine'["own"].at = "probe" BY <1>1, <1>4, NoEngineIs DEF P!StartEngine, P!Engines, EngineSet
    <2>5. Clean(history') BY <2>1, <2>2
    <2>6. Clean(repair'.recorded) BY <2>1, <2>2
    <2> QED BY <1>2, <2>1, <2>2, <2>3, <2>4, <2>5, <2>6 DEF AloneRight
  <1>5. CASE P!KeepHash
    <2>1. repair.at = "keep" /\ history.tag = 1 /\ repair.tag = 1 /\ Clean(repair.recorded) /\ repair.recorded.tag = 1
      BY <1>5 DEF P!KeepHash, AloneRight
    <2>2. repair.usable # {} /\ repair.usable \subseteq P!Mirrors BY <1>1, <2>1 DEF RepairRight, RepairSet
    <2>3. ~P!Outdated BY <1>2, <2>1, <2>2 DEF P!Outdated, P!Matches
    <2>4. history' = IF history.hash = repair.recorded.hash THEN history ELSE repair.recorded
      BY <1>5, <2>3 DEF P!KeepHash, P!Entry
    <2>5. history'.tag = 1 /\ Clean(history') BY <2>1, <2>4 DEF Clean
    <2>6. repair' = P!NoRepair /\ UNCHANGED engine BY <1>5 DEF P!KeepHash
    <2>7. repair'.at = "idle" BY <2>6, NoRepairIs
    <2>8. engine["own"].at = "idle" BY <2>1 DEF MendInv, Claimed
    <2> QED BY <1>2, <2>5, <2>6, <2>7, <2>8 DEF AloneRight
  <1> QED BY <1>3, <1>4, <1>5

(* The repair's engine, over. *)
LEMMA OverAlone ==
  ASSUME Mendable, MendInv, AloneRight, NEW next, P!Over("own", next), engine["own"].at # "idle", UNCHANGED remote,
         state' # None => state'.tag = 1, history'.tag = 1, history' = history \/ next = "keep"
  PROVE  AloneRight'
  <1>1. repair \in RepairSet /\ engine \in [P!Engines -> EngineSet] /\ repair.at = "engine" BY DEF MendInv, TypedRepair, Claimed
  <1>2. repair.tag = 1 /\ Clean(history) /\ Clean(repair.recorded) /\ repair.recorded.tag = 1 BY <1>1 DEF AloneRight
  <1>3. engine'["own"] = P!NoEngine /\ engine'["other"] = engine["other"] BY <1>1 DEF P!Over, P!Engines
  <1>4. CASE next = "keep"
    <2>1. repair'.at = "keep" /\ repair'.tag = 1 /\ repair'.recorded = repair.recorded BY <1>1, <1>2, <1>4 DEF P!Over, RepairSet
    <2>2. Clean(repair'.recorded) BY <1>2, <2>1
    <2> QED BY <1>2, <1>3, <2>1, <2>2, NoEngineIs DEF AloneRight
  <1>5. CASE next # "keep"
    <2>1. repair'.at = "idle" BY <1>5, NoRepairIs DEF P!Over
    <2>2. Clean(history') BY <1>2, <1>5
    <2> QED BY <1>2, <1>3, <2>1, <2>2, NoEngineIs DEF AloneRight
  <1> QED BY <1>4, <1>5

LEMMA EngineAlone ==
  ASSUME Mendable, MendInv, AloneRight, P!Engine("own") \/ P!StopAside \/ P!CopyAside PROVE AloneRight'
  <1>1. engine \in [P!Engines -> EngineSet] /\ engine["own"] \in EngineSet BY DEF MendInv, TypedRepair, P!Engines
  <1>2. engine["own"].at # "idle"
    BY DEF P!Engine, P!Probe, P!Done, P!GoAside, P!Resume, P!Fresh, P!Stale, P!StaleState, P!Save, P!Create, P!Fetch, P!Persist, P!Stops,
           P!Refetch, P!Finalize, P!Renamed, P!Record, P!StopAside, P!CopyAside, P!At
  <1>3. UNCHANGED remote
    BY DEF P!Engine, P!Probe, P!Done, P!GoAside, P!Resume, P!Fresh, P!Stale, P!StaleState, P!Save, P!Create, P!Fetch, P!Persist, P!Stops,
           P!Refetch, P!Finalize, P!Renamed, P!Record, P!StopAside, P!CopyAside, P!world
  <1>4. history.tag = 1 /\ (state # None => state.tag = 1) /\ (\A m \in P!Mirrors : remote[m] = 1)
        /\ (engine["own"].at # "probe" => engine["own"].version = 1)
    BY <1>2 DEF AloneRight
  <1>5. CASE P!StopAside \/ P!CopyAside \/ P!Done("own")
    <2>1. UNCHANGED <<state, history>> /\ \E next \in {"keep", "error"} : P!Over("own", next)
      BY <1>5 DEF P!StopAside, P!CopyAside, P!Done, P!disk
    <2> QED BY <1>2, <1>3, <1>4, <2>1, OverAlone
  <1>6. CASE P!Stops("own")
    <2>1. P!Over("own", "error") /\ UNCHANGED history /\ state' = [tag |-> engine["own"].version, done |-> engine["own"].done]
          /\ engine["own"].at = "fetch"
      BY <1>6 DEF P!Stops, P!At
    <2>2. state'.tag = 1 BY <1>4, <2>1
    <2> QED BY <1>2, <1>3, <1>4, <2>1, <2>2, OverAlone
  <1>7. CASE P!Record("own")
    <2>1. P!Over("own", "keep") /\ UNCHANGED state /\ history'.tag = engine["own"].version /\ engine["own"].at = "record"
      BY <1>7 DEF P!Record, P!At, P!disk
    <2> QED BY <1>2, <1>3, <1>4, <2>1, OverAlone
  <1>8. CASE /\ P!Engine("own") /\ ~P!Done("own") /\ ~P!Stops("own") /\ ~P!Record("own")
    <2>1. ~P!Refetch("own") BY DEF P!Refetch, P!Failing
    <2>2. UNCHANGED <<history, repair>>
      BY <1>8, <2>1 DEF P!Engine, P!Probe, P!GoAside, P!Resume, P!Fresh, P!Stale, P!StaleState, P!Save, P!Create, P!Fetch, P!Persist,
           P!Finalize, P!Renamed
    <2>3. state' # None => state'.tag = 1
      <3>1. CASE P!Save("own") \/ P!Persist("own")
        <4>1. engine["own"].at \in {"save", "fetch"} /\ state' = [tag |-> engine["own"].version, done |-> engine["own"].done]
          BY <3>1 DEF P!Save, P!Persist, P!At
        <4> QED BY <4>1, <1>4
      <3>2. CASE ~P!Save("own") /\ ~P!Persist("own")
        <4>1. state' = state \/ state' = None
          BY <1>8, <2>1, <3>2 DEF P!Engine, P!Probe, P!GoAside, P!Resume, P!Fresh, P!Stale, P!StaleState, P!Create, P!Fetch,
             P!Finalize, P!Renamed, P!disk
        <4> QED BY <4>1, <1>4
      <3> QED BY <3>1, <3>2
    <2>4. engine'["other"] = engine["other"] /\ engine'["own"].version = 1
      <3>1. CASE P!Probe("own")
        <4>1. PICK m \in engine["own"].links : engine' = [engine EXCEPT !["own"].at = "plan", !["own"].version = remote[m]]
          BY <3>1 DEF P!Probe
        <4>2. remote[m] = 1 BY <1>1, <1>4, <4>1 DEF EngineSet
        <4> QED BY <1>1, <4>1, <4>2 DEF P!Engines, EngineSet
      <3>2. CASE ~P!Probe("own")
        <4>1. engine["own"].at # "probe"
          BY <1>8, <3>2 DEF P!Engine, P!GoAside, P!Resume, P!Fresh, P!Stale, P!StaleState, P!Save, P!Create, P!Fetch, P!Persist,
             P!Refetch, P!Finalize, P!Renamed, P!At
        <4>2. engine'["other"] = engine["other"] /\ engine'["own"].version = engine["own"].version
          <5>1. CASE P!GoAside("own") \/ P!Stale("own") \/ P!Save("own") \/ P!Create("own") \/ P!Renamed("own") \/ P!Persist("own")
            BY <1>1, <5>1 DEF P!GoAside, P!Stale, P!Save, P!Create, P!Renamed, P!Persist, P!EngineIs, P!Engines, EngineSet
          <5>2. CASE P!Resume("own") \/ P!Fresh("own") \/ P!StaleState("own")
            BY <1>1, <5>2 DEF P!Resume, P!Fresh, P!StaleState, P!Begin, P!Engines, EngineSet
          <5>3. CASE \E q \in Pieces, m \in P!Mirrors : P!Fetch("own", q, m) BY <1>1, <5>3 DEF P!Fetch, P!Engines, EngineSet
          <5>4. CASE P!Finalize("own") BY <1>1, <5>4 DEF P!Finalize, P!Engines, EngineSet
          <5> QED BY <1>8, <2>1, <3>2, <5>1, <5>2, <5>3, <5>4 DEF P!Engine
        <4> QED BY <4>1, <4>2, <1>4
      <3> QED BY <3>1, <3>2
    <2>5. Clean(history) <=> Clean(history') BY <2>2
    <2>6. repair.at = "engine" BY <1>2 DEF MendInv, Claimed
    <2> QED BY <1>3, <1>4, <2>2, <2>3, <2>4, <2>5, <2>6 DEF AloneRight
  <1> QED BY <1>5, <1>6, <1>7, <1>8

LEMMA AloneNext == ASSUME Mendable, MendInv, OneVersionAlone, [P!Next]_(P!vars) PROVE OneVersionAlone'
  <1>1. chances \in [Events -> Nat] /\ chances' \in [Events -> Nat] /\ Budget \in [Events -> Nat]
    BY MendNext DEF MendInv, TypedRepair, Mendable
  <1>2. CASE P!Next
    <2>1. \A o \in Events : chances'[o] <= Budget[o]
      <3>1. \A o \in Events : chances[o] <= Budget[o] /\ chances'[o] <= chances[o] BY <1>2, ChancesFall DEF OneVersionAlone
      <3> QED BY <1>1, <3>1
    <2>2. ASSUME Alone' PROVE AloneRight'
      <3>1. \A o \in {"crash", "other", "publish"} : chances'[o] = Budget[o] /\ chances'[o] <= chances[o] /\ chances[o] <= Budget[o] /\ o \in Events
        BY <1>2, <2>2, ChancesFall DEF OneVersionAlone, Alone, Events
      <3>2. \A o \in {"crash", "other", "publish"} : chances[o] = Budget[o] /\ ~(chances'[o] < chances[o]) BY <1>1, <3>1
      <3>3. AloneRight BY <3>2 DEF OneVersionAlone, Alone
      <3>4. ~P!StartOther /\ ~P!CrashRepair /\ ~P!CrashOther /\ ~\E m \in P!Mirrors : P!Publish(m) BY <1>2, <3>2, ChancesFall
      <3>5. ~P!Engine("other")
        <4>1. engine["other"].at = "idle" BY <3>3 DEF AloneRight
        <4> QED BY <4>1
          DEF P!Engine, P!Probe, P!Done, P!GoAside, P!Resume, P!Fresh, P!Stale, P!StaleState, P!Save, P!Create, P!Fetch, P!Persist, P!Stops,
              P!Refetch, P!Finalize, P!Renamed, P!Record, P!At
      <3>6. P!Mend \/ P!Engine("own") BY <1>2, <3>4, <3>5 DEF P!Next, P!Engines
      <3> QED BY <3>3, <3>6, RepairAlone, HistoryAlone, EngineAlone
    <2> QED BY <2>1, <2>2 DEF OneVersionAlone
  <1>3. CASE UNCHANGED P!vars
    <2>1. UNCHANGED <<state, history, remote, repair, engine, chances>> BY <1>3 DEF P!vars, P!disk, P!world
    <2>2. Clean(history) <=> Clean(history') BY <2>1
    <2>3. Clean(repair.recorded) <=> Clean(repair'.recorded) BY <2>1
    <2> QED BY <2>1, <2>2, <2>3 DEF OneVersionAlone, Alone, AloneRight
  <1> QED BY <1>2, <1>3

(* Unless something else happens at the same time, once a repair is over history does not vouch for damage the repair kept *)
(* or fetched: the hash that was recorded before stays (verify.rs: repair_with_engine, keep_recorded_hash).                *)
THEOREM DamageStaysKnown == ASSUME Mendable PROVE P!Spec => []P!DamageShows
  <1>1. ASSUME Mendable, P!Init PROVE OneVersionAlone
    <2>1. MendInv BY <1>1, DamagedAtFirst
    <2>2. chances = Budget /\ Budget \in [Events -> Nat] BY <1>1 DEF P!Init, Mendable
    <2>3. engine = [e \in P!Engines |-> P!NoEngine] /\ repair = P!NoRepair /\ remote = [m \in P!Mirrors |-> 1] BY <1>1 DEF P!Init
    <2>4. engine["own"].at = "idle" /\ engine["other"].at = "idle" /\ repair.at = "idle" BY <2>3, NoEngineIs, NoRepairIs DEF P!Engines
    <2>5. state # None => state.tag = 1 BY <1>1 DEF P!Init
    <2>6. history.tag = 1 /\ history.hash = P!Whole(1) BY <1>1 DEF P!Init, P!Complete
    <2>7. Clean(history) BY <2>6, FirstVersion DEF Clean, P!Whole
    <2>8. AloneRight BY <2>3, <2>4, <2>5, <2>6, <2>7 DEF AloneRight
    <2> QED BY <2>2, <2>8 DEF OneVersionAlone
  <1>2. MendInv /\ OneVersionAlone /\ [P!Next]_(P!vars) => OneVersionAlone' BY AloneNext
  <1>3. MendInv /\ OneVersionAlone => P!DamageShows
    <2> SUFFICES ASSUME OneVersionAlone, repair.at = "idle", \A what \in {"crash", "other", "publish"} : chances[what] = Budget[what]
                 PROVE  Bad \notin {history.hash[p] : p \in Pieces}
      BY DEF P!DamageShows
    <2> QED BY DEF OneVersionAlone, Alone, AloneRight, Clean
  <1>4. P!Spec => []OneVersionAlone BY <1>1, <1>2, MendInductive, PTL DEF P!Spec
  <1> QED BY <1>3, <1>4, MendInductive, PTL
===============================================================================
