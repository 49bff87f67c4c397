----------------------------- MODULE MirrorPolicy -----------------------------
(***************************************************************************)
(* The mirrors of one range download (mirror.rs) and what its workers do   *)
(* with them (worker.rs: take_slot to record_failure; ftp.rs, work).  A    *)
(* worker counts and fails an attempt itself; that a mirror answered it    *)
(* tells the engine, which counts it later.  Mirrors may join late.        *)
(*                                                                         *)
(* Scores are left out: any usable mirror may be the best one.  So are the *)
(* slots of hosts (HostBudget), and what RangeDownload says of chunks.     *)
(***************************************************************************)
EXTENDS Naturals, FiniteSets

CONSTANTS
  Workers,
  Mirrors,
  Early,       (* mirrors the download starts with                                *)
  Redirected,  (* mirrors whose probe was redirected: they have a fallback        *)
  Chunks,
  MaxBad,      (* MAX_BAD_RESPONSES                                               *)
  MaxRetries,  (* max_retries                                                     *)
  Channel,     (* room of the engine's channel                                    *)
  Budgets,     (* bounds of the model: how often what in World happens            *)
  None

World == {"takeover", "progress", "cancel"}

VARIABLES
  joined,    (* MirrorRacer.mirrors                                               *)
  probing,   (* mirrors whose probes are still out                                *)
  mirror,    (* Mirror                                                            *)
  worker,    (* each worker's attempt                                             *)
  free,      (* chunks nobody works on                                            *)
  completed, (* chunks                                                            *)
  tries,     (* attempts at each that counted                                     *)
  answered,  (* Ttfb events of each mirror the engine has yet to handle           *)
  fatal,     (* the manager's failure: none, or what it names                     *)
  outcome,
  refused,   (* bad answers each mirror's own URL gave, up to MaxBad              *)
  left

vars == <<joined, probing, mirror, worker, free, completed, tries, answered, fatal, outcome, refused, left>>

(* Operators named Faulty... are not part of the model: each is the definition after it with a *)
(* mistake the code could have made, to see that some property notices.                       *)

-----------------------------------------------------------------------------
(* max_connections starts at the most there are of anything; as many as there are workers is no cap. *)
NoCap == Cardinality(Workers)

New(m) ==
  [url |-> IF m \in Redirected THEN "target" ELSE "own", fallback |-> m \in Redirected,
   inFlight |-> 0, bad |-> 0, active |-> TRUE, cap |-> NoCap, cooling |-> FALSE]

(* score, not negative *)
Usable(m) == m \in joined /\ mirror[m].active /\ mirror[m].inFlight < mirror[m].cap /\ ~mirror[m].cooling

Idle == [at |-> "idle", mirror |-> None, url |-> "own", redirected |-> FALSE, chunk |-> None, revoked |-> FALSE, res |-> "none"]

Spend(what) == left[what] > 0 /\ left' = [left EXCEPT ![what] = @ - 1]

Attempting(w) == worker[w].at \in {"sent", "body", "over"}

-----------------------------------------------------------------------------
(* take_slot *)
TakeSlot(w) ==
  /\ outcome = "none"
  /\ worker[w].at = "idle"
  /\ \E m \in joined :
       /\ Usable(m)
       /\ worker' = [worker EXCEPT ![w] = [Idle EXCEPT !.at = "slot", !.mirror = m, !.url = mirror[m].url]]
  /\ UNCHANGED <<joined, probing, mirror, free, completed, tries, answered, fatal, outcome, refused, left>>

(* The mirror may have filled up, cooled down or gone back to its own URL since. *)
StillUsable(w) == Usable(worker[w].mirror) /\ mirror[worker[w].mirror].url = worker[w].url

(* next_job, with the request that follows it. *)
Send(w, c) ==
  LET m == worker[w].mirror IN
  /\ mirror' = [mirror EXCEPT ![m].inFlight = @ + 1]
  /\ worker' = [v \in Workers |->
       IF v = w THEN [worker[w] EXCEPT !.at = "sent", !.redirected = mirror[m].fallback, !.chunk = c]
       ELSE [worker[v] EXCEPT !.revoked = @ \/ worker[v].chunk = c]]

(* ... a chunk nobody works on, once its backoff is over *)
NextJob(w) ==
  /\ outcome = "none"
  /\ worker[w].at = "slot" /\ StillUsable(w)
  /\ \E c \in free : Send(w, c) /\ free' = free \ {c}
  /\ UNCHANGED <<joined, probing, completed, tries, answered, fatal, outcome, refused, left>>

(* ... or what is left of one whose connection is silent *)
TakeOver(w) ==
  /\ outcome = "none"
  /\ worker[w].at = "slot" /\ StillUsable(w)
  /\ Spend("takeover")
  /\ \E v \in Workers : worker[v].at \in {"sent", "body"} /\ ~worker[v].revoked /\ Send(w, worker[v].chunk)
  /\ UNCHANGED <<joined, probing, free, completed, tries, answered, fatal, outcome, refused>>

(* ... or nothing, for now. *)
NoJob(w) ==
  /\ worker[w].at = "slot"
  /\ ~StillUsable(w) \/ free = {} \/ outcome # "none"
  /\ worker' = [worker EXCEPT ![w] = Idle]
  /\ UNCHANGED <<joined, probing, mirror, free, completed, tries, answered, fatal, outcome, refused, left>>

-----------------------------------------------------------------------------
Over(w, res) == worker' = [worker EXCEPT ![w].at = "over", ![w].res = res]

(* check_response, then at_redirect_target: there only throttling and server errors are what they are. *)
Verdicts(w) == {"transient", "throttled", "denied"} \cup (IF worker[w].redirected THEN {} ELSE {"bad", "fatal"})

(* The mirror answers with what was asked for.  The engine hears of it, if its channel has room. *)
Answered(w) ==
  /\ worker[w].at = "sent"
  /\ worker' = [worker EXCEPT ![w].at = "body"]
  /\ LET m == worker[w].mirror IN answered' = [answered EXCEPT ![m] = IF @ < Channel THEN @ + 1 ELSE @]
  /\ UNCHANGED <<joined, probing, mirror, free, completed, tries, fatal, outcome, refused, left>>

(* ... or with something else, or not at all. *)
Refused(w) ==
  /\ worker[w].at = "sent"
  /\ \E res \in Verdicts(w) :
       /\ Over(w, res)
       /\ refused' = IF res \in {"bad", "denied"} /\ worker[w].url = "own"
                     THEN [refused EXCEPT ![worker[w].mirror] = IF @ < MaxBad THEN @ + 1 ELSE @] ELSE refused
  /\ UNCHANGED <<joined, probing, mirror, free, completed, tries, answered, fatal, outcome, left>>

(* receive ends: with the chunk in the file, or not, with something new in it or nothing. *)
Received(w) ==
  /\ worker[w].at = "body"
  /\ \/ \E res \in {"ok", "transient"} : Over(w, res) /\ UNCHANGED <<left, tries>>
     \/ Spend("progress") /\ Over(w, "transient") /\ tries' = [tries EXCEPT ![worker[w].chunk] = 0]
  /\ UNCHANGED <<joined, probing, mirror, free, completed, answered, fatal, outcome, refused>>

(* Another worker has taken the chunk over, or the download is over. *)
Interrupted(w) ==
  /\ worker[w].at \in {"sent", "body"}
  /\ worker[w].revoked \/ outcome # "none"
  /\ Over(w, "transient")
  /\ UNCHANGED <<joined, probing, mirror, free, completed, tries, answered, fatal, outcome, refused, left>>

-----------------------------------------------------------------------------
Abort(why) == fatal' = IF fatal = "none" THEN why ELSE fatal

(* mark_failed *)
MarkFailed(c, counts) ==
  IF counts /\ tries[c] = MaxRetries
  THEN Abort("retries") /\ UNCHANGED <<free, tries>>
  ELSE /\ tries' = [tries EXCEPT ![c] = IF counts THEN @ + 1 ELSE @]
       /\ free' = free \cup {c}
       /\ UNCHANGED fatal

(* Faulty: whoever refused, it counts. *)
FaultyFormerUrl(m, url) == FALSE

(* The refusal is of a target another attempt has already sent the mirror back from. *)
FormerUrl(m, url) == url # mirror[m].url

(* Faulty: being throttled costs nothing. *)
FaultyThrottledAlone(others) == FALSE

(* With no other connection being served, the server is busy. *)
ThrottledAlone(others) == others = 0

(* record_failure, of an attempt at c from `url`; `released` are the mirrors without it. *)
RecordFailure(m, released, url, c, res) ==
  LET others == released[m].inFlight
      denied == res = "denied" /\ ~FormerUrl(m, url) IN
  \/ res = "fatal" /\ Abort("fatal") /\ mirror' = released /\ UNCHANGED <<free, tries>>
  \/ res = "transient" /\ mirror' = released /\ MarkFailed(c, TRUE)
  \/ res = "denied" /\ ~denied /\ mirror' = released /\ MarkFailed(c, FALSE)
  \/ /\ denied /\ mirror[m].fallback
     /\ mirror' = [released EXCEPT ![m].url = "own", ![m].fallback = FALSE]
     /\ MarkFailed(c, FALSE)
  \/ /\ res = "bad" \/ (denied /\ ~mirror[m].fallback)
     /\ mirror' = [released EXCEPT ![m].bad = @ + 1, ![m].active = @ /\ mirror[m].bad + 1 < MaxBad]
     /\ IF \A n \in joined : ~mirror'[n].active
        THEN Abort("mirrors") /\ UNCHANGED <<free, tries>>
        ELSE MarkFailed(c, FALSE)
  \/ /\ res = "throttled" /\ ~ThrottledAlone(others)
     /\ mirror' = [released EXCEPT ![m].cap = IF 0 < others /\ others < @ THEN others ELSE @]
     /\ MarkFailed(c, FALSE)
  \/ /\ res = "throttled" /\ ThrottledAlone(others)
     /\ mirror' = [released EXCEPT ![m].cap = 1, ![m].cooling = TRUE]
     /\ MarkFailed(c, TRUE)

Released(w) == [mirror EXCEPT ![worker[w].mirror].inFlight = @ - 1]

(* settle: nothing more is to be done for a chunk another worker has. *)
Settle(w) ==
  LET a == worker[w] IN
  /\ outcome = "none"
  /\ a.at = "over"
  /\ worker' = [worker EXCEPT ![w] = Idle]
  /\ IF a.revoked
     THEN /\ mirror' = Released(w)
          /\ IF a.res = "fatal" THEN Abort("fatal") ELSE UNCHANGED fatal
          /\ UNCHANGED <<free, completed, tries>>
     ELSE IF a.res = "ok"
     THEN mirror' = Released(w) /\ completed' = completed \cup {a.chunk} /\ UNCHANGED <<free, tries, fatal>>
     ELSE RecordFailure(a.mirror, Released(w), a.url, a.chunk, a.res) /\ UNCHANGED completed
  /\ UNCHANGED <<joined, probing, answered, outcome, refused, left>>

(* Faulty: the worker just stops. *)
FaultyStop(w) ==
  /\ outcome # "none"
  /\ worker[w].at = "over"
  /\ worker' = [worker EXCEPT ![w] = Idle]
  /\ UNCHANGED <<joined, probing, mirror, free, completed, tries, answered, fatal, outcome, refused, left>>

(* conclude, once the download is over. *)
Stop(w) ==
  /\ outcome # "none"
  /\ worker[w].at = "over"
  /\ mirror' = Released(w)
  /\ worker' = [worker EXCEPT ![w] = Idle]
  /\ UNCHANGED <<joined, probing, free, completed, tries, answered, fatal, outcome, refused, left>>

(* The mirror's cooldown is over. *)
CoolsDown(m) ==
  /\ mirror[m].cooling
  /\ mirror' = [mirror EXCEPT ![m].cooling = FALSE]
  /\ UNCHANGED <<joined, probing, worker, free, completed, tries, answered, fatal, outcome, refused, left>>

-----------------------------------------------------------------------------
(* The engine's loop.  handle: an answer of the mirror, however long ago *)
Hear(m) ==
  /\ outcome = "none"
  /\ answered[m] > 0
  /\ answered' = [answered EXCEPT ![m] = @ - 1]
  /\ mirror' = [mirror EXCEPT ![m].bad = 0, ![m].cap = IF @ < NoCap THEN @ + 1 ELSE @]
  /\ UNCHANGED <<joined, probing, worker, free, completed, tries, fatal, outcome, refused, left>>

(* admit: a late mirror joins, or does not serve the file or answer *)
Admit(m) ==
  /\ outcome = "none"
  /\ m \in probing
  /\ probing' = probing \ {m}
  /\ joined' \in {joined, joined \cup {m}}
  /\ UNCHANGED <<mirror, worker, free, completed, tries, answered, fatal, outcome, refused, left>>

(* The end: every chunk is there, or one cannot be had; *)
End ==
  /\ outcome = "none"
  /\ \/ completed = Chunks /\ outcome' = "done"
     \/ fatal # "none" /\ outcome' = "failed"
  /\ UNCHANGED <<joined, probing, mirror, worker, free, completed, tries, answered, fatal, refused, left>>

(* ... or the user cancels. *)
Cancel ==
  /\ outcome = "none"
  /\ Spend("cancel")
  /\ outcome' = "cancelled"
  /\ UNCHANGED <<joined, probing, mirror, worker, free, completed, tries, answered, fatal, refused>>

Init ==
  /\ joined = Early /\ probing = Mirrors \ Early
  /\ mirror = [m \in Mirrors |-> New(m)]
  /\ worker = [w \in Workers |-> Idle]
  /\ free = Chunks /\ completed = {}
  /\ tries = [c \in Chunks |-> 0]
  /\ answered = [m \in Mirrors |-> 0]
  /\ fatal = "none" /\ outcome = "none"
  /\ refused = [m \in Mirrors |-> 0]
  /\ left \in Budgets

Attempt(w) == Answered(w) \/ Refused(w) \/ Received(w) \/ Interrupted(w)
Finish(w) == Settle(w) \/ Stop(w)

Next ==
  \/ \E w \in Workers : TakeSlot(w) \/ NextJob(w) \/ TakeOver(w) \/ NoJob(w) \/ Attempt(w) \/ Finish(w)
  \/ \E m \in Mirrors : CoolsDown(m) \/ Hear(m) \/ Admit(m)
  \/ End \/ Cancel

Spec == Init /\ [][Next]_vars

(* Workers go on, an attempt ends (the stall timeout), a cooldown too, and so do probes; and the engine is *)
(* told of every end.  Nothing makes a connection fall silent or the user cancel.                          *)
FairSpec ==
  /\ Spec
  /\ \A w \in Workers :
       /\ WF_vars(TakeSlot(w)) /\ WF_vars(NextJob(w)) /\ WF_vars(NoJob(w)) /\ WF_vars(Attempt(w)) /\ WF_vars(Finish(w))
  /\ \A m \in Mirrors : WF_vars(CoolsDown(m)) /\ WF_vars(Hear(m)) /\ WF_vars(Admit(m))
  /\ WF_vars(End)

-----------------------------------------------------------------------------
TypeOK ==
  /\ joined \subseteq Mirrors /\ probing \subseteq Mirrors \ joined
  /\ mirror \in [Mirrors ->
       [url : {"own", "target"}, fallback : BOOLEAN, inFlight : 0 .. Cardinality(Workers), bad : Nat, active : BOOLEAN,
        cap : 1 .. NoCap, cooling : BOOLEAN]]
  /\ worker \in [Workers ->
       [at : {"idle", "slot", "sent", "body", "over"}, mirror : Mirrors \cup {None}, url : {"own", "target"},
        redirected : BOOLEAN, chunk : Chunks \cup {None}, revoked : BOOLEAN,
        res : {"none", "ok", "transient", "throttled", "denied", "bad", "fatal"}]]
  /\ free \subseteq Chunks /\ completed \subseteq Chunks
  /\ tries \in [Chunks -> 0 .. MaxRetries]
  /\ answered \in [Mirrors -> 0 .. Channel]
  /\ fatal \in {"none", "fatal", "retries", "mirrors"} /\ outcome \in {"none", "done", "failed", "cancelled"}

(* A mirror's connections are counted right, through takeovers, late verdicts and the end, or it would be *)
(* passed over or asked beyond its cap for good (mirror.rs: in_flight).                                   *)
InFlightIsTrue == \A m \in Mirrors : mirror[m].inFlight = Cardinality({w \in Workers : Attempting(w) /\ worker[w].mirror = m})

(* A mirror is dropped for what its own URL answered, at least MaxBad times, never for late answers of the *)
(* target it has been sent back from, and the download gives up on its mirrors only once each is dropped   *)
(* (worker.rs: record_failure, at_redirect_target).                                                        *)
DroppedForItsOwn ==
  /\ \A m \in Mirrors : ~mirror[m].active => refused[m] = MaxBad
  /\ fatal = "mirrors" => \A m \in Early : ~mirror[m].active

(* However mirrors throttle, refuse and redirect, the download ends. *)
Ends == <>(outcome # "none")
===============================================================================
