------------------------------- MODULE Recording -------------------------------
(***************************************************************************)
(* A buffer recording ("Capture from start") of one frame of a tab, under  *)
(* one key: what the page's hook copies (content/hook.js) goes through the *)
(* frame's bridge (content/bridge.js) to the extension's background        *)
(* (background.js), which runs the tasks of a key one after the other and  *)
(* hands the chunks to the app (recording.rs).                             *)
(*                                                                         *)
(* The page is reloaded: documents are numbered in order, and each numbers *)
(* its recordings anew, so all of them come under the same key.  Messages  *)
(* of one document arrive in order, those of two in any order.  A call to  *)
(* the app may fail before or after the app has got it, or have it done    *)
(* after the caller has given up.  The background may be ended and started *)
(* again at any time, with what it had stored; so may the app.             *)
(*                                                                         *)
(* Left out: tracks and parts (one stream of chunks stands for them), the  *)
(* size below which the app keeps no recording, the page's own recorder,   *)
(* and downloads through the page, which use keys of their own.  The       *)
(* browser names documents, as Chrome does: where the background has to    *)
(* tell them by their URLs, a reload is the same document.                 *)
(***************************************************************************)
EXTENDS Naturals, FiniteSets, Sequences, SequencesExt

CONSTANTS
  Documents, (* how many documents the frame loads                         *)
  Length,    (* of each, how many chunks it records at most              *)
  Budgets,   (* sets of how often the world may do something               *)
  None

VARIABLES
  doc,       (* the document the frame shows                               *)
  recorded,  (* chunks its hook has copied                                 *)
  capturing, (* capturing, with the stream not ended                       *)
  open,      (* openMs of its bridge has the recording                     *)
  relayed,   (* the bridge's queue                                         *)
  channel,   (* messages of each document on their way to the background   *)
  navigated, (* the tab's onUpdated is still to come                       *)
  tab,       (* tabQueues: tasks on the state of the tab                   *)
  after,     (* what is to follow such tasks                               *)
  capture,   (* the document the tab's state lets record                   *)
  tasks,     (* recQueues: the tasks of the key                            *)
  step,      (* how far the first of them is                               *)
  rec,       (* recs[key]                                                  *)
  stored,    (* ... in the browser's storage                               *)
  timers,    (* recordings REC_STOP closes 5 s later                       *)
  recording, (* the app's recordings, by the chunk they were started for   *)
  posts,     (* requests nobody waits for                                  *)
  killed,    (* the background has been ended in between                   *)
  counted,   (* chunks the background knows the app has                    *)
  left       (* what the world may still do                                *)

page == <<doc, recorded, capturing, open, relayed, navigated>>
background == <<tab, after, capture, tasks, step, rec, stored, timers, killed>>
vars == <<page, channel, background, recording, posts, counted, left>>

(* Operators named Faulty... are not part of the model: each is the definition after it with a *)
(* mistake the code could have made, to see that some property notices.                       *)

-----------------------------------------------------------------------------
World == {"stop", "error", "restart", "kill"}
Chunks == UNION {{d} \X (1 .. Length[d]) : d \in 1 .. Documents}

Spend(what) == left[what] > 0 /\ left' = [left EXCEPT ![what] = @ - 1]
Idle == [at |-> "idle", id |-> None]

Chunk(c) == [cmd |-> "chunk", of |-> c]
Finish == [cmd |-> "finish", of |-> None]

-----------------------------------------------------------------------------
(* The page.  record: the player appends to its buffer. *)
Record ==
  /\ capturing /\ recorded < Length[doc]
  /\ recorded' = recorded + 1
  /\ relayed' = Append(relayed, Chunk(<<doc, recorded + 1>>))
  /\ open' = TRUE
  /\ UNCHANGED <<doc, capturing, navigated, channel, background, recording, posts, counted, left>>

(* end: the stream ends, or the stop button's message comes *)
EndStream ==
  /\ capturing
  /\ capturing' = FALSE
  /\ relayed' = IF recorded > 0 THEN Append(relayed, Finish) ELSE relayed
  /\ UNCHANGED <<doc, recorded, open, navigated, channel, background, recording, posts, counted, left>>

Sends(d, msgs) == channel' = [channel EXCEPT ![d] = @ \o msgs]

(* relay: the next message of the bridge's queue is encoded. *)
Relay ==
  /\ relayed # <<>>
  /\ relayed' = Tail(relayed)
  /\ open' = (open /\ Head(relayed) # Finish)
  /\ IF open THEN Sends(doc, <<Head(relayed)>>) ELSE UNCHANGED channel
  /\ UNCHANGED <<doc, recorded, capturing, navigated, background, recording, posts, counted, left>>

(* pagehide, and the next document: its hook captures if the user has armed the tab. *)
Reload ==
  /\ doc < Documents
  /\ doc' = doc + 1
  /\ recorded' = 0 /\ relayed' = <<>> /\ open' = FALSE
  /\ navigated' \in BOOLEAN
  /\ capturing' \in BOOLEAN
  /\ channel' = [d \in 1 .. Documents |->
       CASE d = doc /\ open -> Append(channel[d], Finish)
         [] d = doc + 1 /\ capturing' -> <<[cmd |-> "active", of |-> None]>>
         [] OTHER -> channel[d]]
  /\ UNCHANGED <<background, recording, posts, counted, left>>

-----------------------------------------------------------------------------
(* finishTabRecordings *)
FinishOpen(more) == tasks' = IF rec # None THEN Append(more, Finish) ELSE more

(* onUpdated comes before anything of the new document. *)
Navigated ==
  /\ navigated
  /\ navigated' = FALSE
  /\ FinishOpen(tasks)
  /\ UNCHANGED <<doc, recorded, capturing, open, relayed, channel, tab, after, capture, step, rec, stored, timers, killed,
                 recording, posts, counted, left>>

(* REC_ACTIVE, REC_CHUNK or REC_END arrives. *)
Arrives(d) ==
  /\ channel[d] # <<>>
  /\ d = doc => ~navigated
  /\ channel' = [channel EXCEPT ![d] = Tail(@)]
  /\ LET msg == Head(channel[d]) IN
       IF msg.cmd = "active"
       THEN tab' = Append(tab, [do |-> "grant", to |-> d]) /\ UNCHANGED tasks
       ELSE tasks' = Append(tasks, msg) /\ UNCHANGED tab
  /\ UNCHANGED <<page, after, capture, step, rec, stored, timers, killed, recording, posts, counted, left>>

(* REC_STOP: the user wants no more of it. *)
StopRecording ==
  /\ Spend("stop")
  /\ tab' = Append(tab, [do |-> "revoke", to |-> None])
  /\ UNCHANGED <<doc, recorded, capturing, open, relayed, navigated, channel, after, capture, tasks, step, rec, stored, timers, killed,
                 recording, posts, counted>>

(* The next task on the tab's state: REC_ACTIVE's (of a tab that is armed, or not), REC_STOP's. *)
TabTask ==
  /\ tab # <<>>
  /\ Head(tab).do # "read"
  /\ tab' = Tail(tab)
  /\ \/ capture' = Head(tab).to /\ after' = after \cup {Head(tab)}
     \/ Head(tab).do = "grant" /\ UNCHANGED <<capture, after>>
  /\ UNCHANGED <<page, channel, tasks, step, rec, stored, timers, killed, recording, posts, counted, left>>

(* Buffer recordings of the document before are complete. *)
AfterGrant ==
  /\ \E a \in after :
       /\ a.do = "grant"
       /\ after' = after \ {a}
       /\ IF rec # None /\ rec.doc # a.to THEN FinishOpen(tasks) ELSE UNCHANGED tasks
  /\ UNCHANGED <<page, channel, tab, capture, step, rec, stored, timers, killed, recording, posts, counted, left>>

(* Faulty: it trusts the page to end. *)
FaultyAfterRevoke ==
  /\ \E a \in after : a.do = "revoke" /\ after' = after \ {a}
  /\ UNCHANGED <<page, channel, tab, capture, tasks, step, rec, stored, timers, killed, recording, posts, counted, left>>

(* The recording open now is closed in 5 s, if it still is. *)
AfterRevoke ==
  /\ \E a \in after : a.do = "revoke" /\ after' = after \ {a}
  /\ timers' = IF rec # None THEN timers \cup {rec.first} ELSE timers
  /\ UNCHANGED <<page, channel, tab, capture, tasks, step, rec, stored, killed, recording, posts, counted, left>>

Timer ==
  /\ \E c \in timers : timers' = timers \ {c} /\ tasks' = Append(tasks, [cmd |-> "close", of |-> c])
  /\ UNCHANGED <<page, channel, tab, after, capture, step, rec, stored, killed, recording, posts, counted, left>>

-----------------------------------------------------------------------------
(* The tasks of the key. *)
Over == tasks' = Tail(tasks) /\ step' = Idle

Forget == rec' = None /\ stored' = None

(* closeRecording, up to its call. *)
Close ==
  /\ Forget
  /\ IF rec.app # None THEN step' = [at |-> "closing", id |-> rec.app] /\ UNCHANGED tasks ELSE Over

(* What finishRecording and REC_STOP queued; a later recording has the same key. *)
CloseTask ==
  /\ tasks # <<>> /\ step = Idle
  /\ Head(tasks).cmd \in {"finish", "close"}
  /\ IF rec # None /\ (Head(tasks).cmd = "close" => rec.first = Head(tasks).of) THEN Close ELSE Over /\ UNCHANGED <<rec, stored>>
  /\ UNCHANGED <<page, channel, tab, after, capture, timers, killed, recording, posts, counted, left>>

(* Faulty: the key alone says whose recording it is. *)
FaultyAnothers(d) == FALSE

(* A recording of an earlier document is complete. *)
Anothers(d) == rec # None /\ rec.doc # d

Asks == step' = [at |-> "asking", id |-> None] /\ tab' = Append(tab, [do |-> "read", to |-> None])

(* onRecChunk, in the queue *)
ChunkTask ==
  /\ tasks # <<>> /\ step = Idle
  /\ Head(tasks).cmd = "chunk"
  /\ LET d == Head(tasks).of[1] IN
       \/ /\ Anothers(d) /\ rec.app # None
          /\ Forget /\ step' = [at |-> "closing", id |-> rec.app] /\ UNCHANGED <<tasks, tab>>
       \/ Anothers(d) /\ rec.app = None /\ Forget /\ Asks /\ UNCHANGED tasks
       \/ rec = None /\ Asks /\ UNCHANGED <<tasks, rec, stored>>
       \/ /\ rec # None /\ ~Anothers(d) /\ rec.app = None
          /\ Over /\ UNCHANGED <<tab, rec, stored>>
       \/ /\ rec # None /\ ~Anothers(d) /\ rec.app # None
          /\ step' = [at |-> "calling", id |-> rec.app] /\ UNCHANGED <<tasks, tab, rec, stored>>
  /\ UNCHANGED <<page, channel, after, capture, timers, killed, recording, posts, counted, left>>

(* mayRecord's answer, in the tab's queue *)
MayRecord ==
  /\ tab # <<>> /\ Head(tab).do = "read"
  /\ tab' = Tail(tab)
  /\ LET c == Head(tasks).of IN
       IF capture = c[1]
       THEN /\ rec' = [app |-> None, doc |-> c[1], first |-> c, some |-> FALSE]
            /\ step' = [at |-> "starting", id |-> None]
            /\ UNCHANGED tasks
       ELSE Over /\ UNCHANGED rec
  /\ UNCHANGED <<page, channel, after, capture, stored, timers, killed, recording, posts, counted, left>>

-----------------------------------------------------------------------------
(* The app, which does one request at a time. *)
Holds(id, content) == recording' = [recording EXCEPT ![id].content = content]
Ends(id, how) == recording' = [recording EXCEPT ![id].at = how]

(* /record/start: from here on the first chunk's recording is the app's too, if the call went well. *)
StartCall ==
  /\ step.at = "starting"
  /\ LET c == Head(tasks).of IN
       \/ /\ recording' = [recording EXCEPT ![c] = [at |-> "open", content |-> <<>>]]
          /\ rec' = [rec EXCEPT !.app = c] /\ stored' = rec'
          /\ step' = [at |-> "calling", id |-> c]
          /\ UNCHANGED <<tasks, left>>
       \/ /\ Spend("error")
          /\ Over /\ stored' = rec
          /\ UNCHANGED <<rec, recording>>
  /\ UNCHANGED <<page, channel, tab, after, capture, timers, killed, posts, counted>>

(* /record/.../chunk does what it is to. *)
ChunkStored ==
  /\ step.at = "calling"
  /\ recording[step.id].at = "open"
  /\ LET c == Head(tasks).of IN
       /\ Holds(step.id, Append(recording[step.id].content, c))
       /\ counted' = counted \cup {c}
  /\ rec' = [rec EXCEPT !.some = TRUE] /\ stored' = rec'
  /\ Over
  /\ UNCHANGED <<page, channel, tab, after, capture, timers, killed, posts, left>>

(* Faulty: what was recorded goes with the chunk that failed. *)
FaultyGivesUp == "abort"

(* With what reached the app, or nothing. *)
GivesUp == IF rec.some THEN "finish" ELSE "abort"

(* It fails, or seems to: nothing after this chunk can be joined. *)
ChunkFails ==
  /\ step.at = "calling"
  /\ IF recording[step.id].at = "open" THEN Spend("error") ELSE UNCHANGED left
  /\ posts' = posts \cup {[id |-> step.id, do |-> "chunk", of |-> Head(tasks).of], [id |-> step.id, do |-> GivesUp, of |-> None]}
  /\ rec' = [rec EXCEPT !.app = None] /\ stored' = rec'
  /\ Over
  /\ UNCHANGED <<page, channel, tab, after, capture, timers, killed, recording, counted>>

(* /record/.../finish; a failure is only logged. *)
FinishCall ==
  /\ step.at = "closing"
  /\ \/ /\ IF recording[step.id].at = "open" THEN Ends(step.id, "finished") ELSE UNCHANGED recording
        /\ UNCHANGED <<posts, left>>
     \/ /\ Spend("error")
        /\ posts' = posts \cup {[id |-> step.id, do |-> "finish", of |-> None]}
        /\ UNCHANGED recording
  /\ IF Head(tasks).cmd = "chunk" THEN Asks /\ UNCHANGED tasks ELSE Over /\ UNCHANGED tab
  /\ UNCHANGED <<page, channel, after, capture, rec, stored, timers, killed, counted>>

(* What nobody waits for arrives, if it does; a chunk may be cut short. *)
Posted ==
  /\ \E p \in posts :
       /\ posts' = posts \ {p}
       /\ IF recording[p.id].at # "open"
          THEN UNCHANGED recording
          ELSE IF p.do = "chunk"
          THEN \E whole \in BOOLEAN :
                 Holds(p.id, Append(recording[p.id].content, IF whole THEN p.of ELSE <<p.of[1], p.of[2], "torn">>))
          ELSE Ends(p.id, IF p.do = "finish" THEN "finished" ELSE "aborted")
  /\ UNCHANGED <<page, channel, background, counted, left>>

(* close_stale: nothing came for long, and another recording needs the room. *)
CloseStale ==
  /\ Spend("restart")
  /\ \E c \in Chunks : recording[c].at = "open" /\ Ends(c, "finished")
  /\ UNCHANGED <<page, channel, background, posts, counted>>

(* The app ends and is started again. *)
AppRestarts ==
  /\ Spend("restart")
  /\ recording' = [c \in Chunks |-> IF recording[c].at = "open" THEN [recording[c] EXCEPT !.at = "left"] ELSE recording[c]]
  /\ posts' = {}
  /\ UNCHANGED <<page, channel, background, counted>>

(* recover *)
Recover ==
  /\ \E c \in Chunks : recording[c].at = "left" /\ Ends(c, "finished")
  /\ UNCHANGED <<page, channel, background, posts, counted, left>>

(* The browser ends the background; the next event starts it, and it goes on from what it stored. *)
WorkerKilled ==
  /\ Spend("kill")
  /\ posts' = posts \cup (CASE step.at = "calling" -> {[id |-> step.id, do |-> "chunk", of |-> Head(tasks).of]}
                            [] step.at = "closing" -> {[id |-> step.id, do |-> "finish", of |-> None]}
                            [] OTHER -> {})
  /\ rec' = stored
  /\ tab' = <<>> /\ after' = {} /\ tasks' = <<>> /\ step' = Idle /\ timers' = {}
  /\ killed' = TRUE
  /\ UNCHANGED <<page, channel, capture, stored, recording, counted>>

-----------------------------------------------------------------------------
(* The user has armed the tab, and the first document has said that it captures. *)
Init ==
  /\ doc = 1 /\ recorded = 0 /\ capturing = TRUE /\ open = FALSE /\ relayed = <<>>
  /\ channel = [d \in 1 .. Documents |-> <<>>]
  /\ navigated = FALSE
  /\ tab = <<>> /\ after = {} /\ capture = 1
  /\ tasks = <<>> /\ step = Idle /\ rec = None /\ stored = None /\ timers = {} /\ killed = FALSE
  /\ recording = [c \in Chunks |-> [at |-> "none", content |-> <<>>]]
  /\ posts = {} /\ counted = {}
  /\ left \in Budgets

Page == Record \/ EndStream \/ Relay \/ Reload
Background ==
  \/ Navigated \/ (\E d \in 1 .. Documents : Arrives(d)) \/ StopRecording \/ TabTask \/ AfterGrant \/ AfterRevoke \/ Timer
  \/ CloseTask \/ ChunkTask \/ MayRecord \/ WorkerKilled
App == StartCall \/ ChunkStored \/ ChunkFails \/ FinishCall \/ Posted \/ CloseStale \/ AppRestarts \/ Recover

Next == Page \/ Background \/ App

Spec == Init /\ [][Next]_vars

-----------------------------------------------------------------------------
Task == [cmd : {"chunk", "finish", "close"}, of : Chunks \cup {None}]
TabTasks == [do : {"grant", "revoke", "read"}, to : 1 .. Documents \cup {None}]
Recs == [app : Chunks \cup {None}, doc : 1 .. Documents, first : Chunks, some : BOOLEAN] \cup {None}

TypeOK ==
  /\ doc \in 1 .. Documents /\ recorded \in 0 .. Length[doc]
  /\ capturing \in BOOLEAN /\ open \in BOOLEAN /\ navigated \in BOOLEAN /\ killed \in BOOLEAN
  /\ \A d \in 1 .. Documents : Range(channel[d]) \subseteq Task \cup {[cmd |-> "active", of |-> None]}
  /\ Range(relayed) \subseteq Task /\ Range(tasks) \subseteq Task
  /\ Range(tab) \subseteq TabTasks /\ after \subseteq TabTasks
  /\ capture \in 1 .. Documents \cup {None}
  /\ step.at \in {"idle", "asking", "closing", "starting", "calling"} /\ step.id \in Chunks \cup {None}
  /\ rec \in Recs /\ stored \in Recs
  /\ timers \subseteq Chunks /\ counted \subseteq Chunks
  /\ \A c \in Chunks : recording[c].at \in {"none", "open", "left", "finished", "aborted"}
  /\ posts \subseteq [id : Chunks, do : {"chunk", "finish", "abort"}, of : Chunks \cup {None}]

(* Which chunk it is, or was cut from. *)
Whole(c) == <<c[1], c[2]>>

(* A recording holds chunks of one document, from the one it was started for on, without a hole, and whole *)
(* but the last; unless the background was ended in the middle of a call (background.js: onRecChunk).       *)
Unbroken ==
  ~killed => \A c \in Chunks :
    LET held == recording[c].content IN
    \A i \in 1 .. Len(held) : /\ Whole(held[i]) = <<c[1], c[2] + i - 1>>
                              /\ i < Len(held) => held[i] = Whole(held[i])

(* No chunk is in two recordings, or twice in one. *)
OnceOnly ==
  \A c, other \in Chunks : \A i \in 1 .. Len(recording[c].content), j \in 1 .. Len(recording[other].content) :
    Whole(recording[c].content[i]) = Whole(recording[other].content[j]) => c = other /\ i = j

(* What the app said it has is never thrown away. *)
CountedIsKept ==
  \A c \in Chunks : recording[c].at = "aborted" => Range(recording[c].content) \cap counted = {}

(* A recording of a document that may not record, or no longer, is about to be closed: by what follows the *)
(* user's stop or the next document's start, by what is queued, or by a timer (REC_ACTIVE, REC_STOP).       *)
ClosedOnceRevoked ==
  ~killed /\ rec # None /\ rec.doc # capture =>
    \/ \E a \in after : a.do = "revoke" \/ a.to # rec.doc
    \/ rec.first \in timers
    \/ \E i \in 1 .. Len(tasks) : tasks[i].cmd = "finish" \/ tasks[i] = [cmd |-> "close", of |-> rec.first]
=============================================================================
