---------------------------- MODULE StreamWriter ----------------------------
(***************************************************************************)
(* The files of a stream's tracks (hls.rs: prepare, download_tracks,       *)
(* write_segments, ResumeState).  Segments come in order, track after      *)
(* track, as HandOut promises of the window; a thread per track appends    *)
(* them to its .part, and one more saves how many of them it holds, one    *)
(* save at a time.  A run may stop, be dropped, or die at any step.        *)
(*                                                                         *)
(* A file is a sequence of segments, each of a stream, or Junk.  Two       *)
(* streams whose links differ only in their queries may have the same      *)
(* segments (a rotated token) or others.                                   *)
(***************************************************************************)
EXTENDS Naturals, Sequences, FiniteSets

CONSTANTS
  Tracks,       (* 1 .. how many                                     *)
  Length,       (* segments of each                                  *)
  Streams,      (* playlists the link may list, alike but for queries *)
  Content,      (* whose segments each lists                         *)
  WriteQueue,   (* segments a writer's queue holds                   *)
  Fsync,        (* fsync_on_complete                                 *)
  Junk, None,
  Budget        (* bounds of the model: runs, disk errors            *)

VARIABLES
  run,       (* the download: where it is, its stream                    *)
  spent,     (* how much of each budget                                  *)
  left,      (* segments of each track not handed to its writer yet      *)
  queue,     (* the channel to each writer                               *)
  closed,    (* its sender is gone                                       *)
  writer,    (* write_segments                                           *)
  saver,     (* its thread that saves                                    *)
  part,      (* the .part, None without one                              *)
  durable,   (* segments of it a machine failure leaves                  *)
  state,     (* the .hlsstate: a stream and how many segments            *)
  final      (* the finished file                                        *)

feed == <<left, queue, closed>>
files == <<part, durable, state, final>>
vars == <<run, spent, feed, writer, saver, files>>

Spend(what) == spent[what] < Budget[what] /\ spent' = [spent EXCEPT ![what] = @ + 1]
Segment(s, i) == <<Content[s], i>>
Whole(c, t) == [i \in 1 .. Length[t] |-> <<c, i>>]

NoWriter == [pc |-> "off", held |-> 0, saved |-> 0, hashed |-> FALSE]
NoSaver == [pc |-> "off", held |-> 0]
Returned(t) == writer[t].pc \in {"off", "returned", "failed"}

-----------------------------------------------------------------------------
(* prepare: what a run of stream s takes over of a track; the name is left alone if that is another's. *)
Resumable(t) == part[t] # None /\ state[t] # None /\ state[t].held \in 1 .. Length[t] /\ state[t].held <= Len(part[t])
Matches(s, t) ==
  /\ Len(part[t]) >= state[t].held
  /\ \A i \in {1, state[t].held} : part[t][i] = Segment(s, i)

(* Faulty: links alike but for their queries are taken for one stream. *)
FaultyUsable(s, t) == part[t] = None \/ state[t] # None

Usable(s, t) ==
  \/ part[t] = None
  \/ state[t] # None /\ state[t].stream = s
  \/ Resumable(t) /\ Matches(s, t)

ResumeFrom(t) == IF Resumable(t) THEN state[t].held ELSE 0

(* fetch_tracks: a track an earlier run finished is not downloaded again. *)
ToFetch == {t \in Tracks : final[t] = None}
Foremost(set) == CHOOSE t \in set : \A o \in set : t <= o

Prepare ==
  /\ run.pc = "off"
  /\ ToFetch # {}
  /\ \E s \in Streams :
       /\ \A t \in ToFetch : Usable(s, t)
       /\ run' = [pc |-> "opening", track |-> Foremost(ToFetch), stream |-> s]
  /\ left' = [t \in Tracks |-> IF t \in ToFetch THEN Length[t] - ResumeFrom(t) ELSE 0]
  /\ UNCHANGED <<spent, queue, closed, writer, saver, files>>

(* download_tracks, per track: the .part is cut to what it holds ... *)
OpenPart ==
  /\ run.pc = "opening"
  /\ LET t == run.track
         n == Length[t] - left[t]
     IN  /\ part' = [part EXCEPT ![t] = IF @ = None THEN <<>> ELSE SubSeq(@, 1, n)]
         /\ durable' = [durable EXCEPT ![t] = IF @ < n THEN @ ELSE n]
         /\ run' = [run EXCEPT !.pc = IF n = 0 THEN "naming" ELSE "starting"]
  /\ UNCHANGED <<spent, feed, writer, saver, state, final>>

(* ... a new one names its stream ... *)
NameStream ==
  /\ run.pc = "naming"
  /\ state' = [state EXCEPT ![run.track] = [stream |-> run.stream, held |-> 0]]
  /\ run' = [run EXCEPT !.pc = "starting"]
  /\ UNCHANGED <<spent, feed, writer, saver, part, durable, final>>

(* ... and its writer starts. *)
StartWriter ==
  /\ run.pc = "starting"
  /\ LET t == run.track
         n == Length[t] - left[t]
     IN  /\ writer' = [writer EXCEPT ![t] = [pc |-> "hashing", held |-> n, saved |-> n, hashed |-> FALSE]]
         /\ saver' = [saver EXCEPT ![t] = [pc |-> "idle", held |-> 0]]
         /\ queue' = [queue EXCEPT ![t] = <<>>]
         /\ closed' = [closed EXCEPT ![t] = FALSE]
         /\ LET others == {o \in ToFetch : t < o}
            IN run' = IF others = {} THEN [run EXCEPT !.pc = "running"] ELSE [run EXCEPT !.pc = "opening", !.track = Foremost(others)]
  /\ UNCHANGED <<spent, left, files>>

-----------------------------------------------------------------------------
(* The loop: the next segment goes to its track's writer. *)
IsNext(t) == left[t] > 0 /\ \A o \in Tracks : o < t => left[o] = 0

HandOver(t) ==
  /\ run.pc = "running"
  /\ IsNext(t)
  /\ ~Returned(t) /\ Len(queue[t]) < WriteQueue
  /\ queue' = [queue EXCEPT ![t] = Append(@, Segment(run.stream, Length[t] - left[t] + 1))]
  /\ left' = [left EXCEPT ![t] = @ - 1]
  /\ UNCHANGED <<run, spent, closed, writer, saver, files>>

(* Faulty: every queue is closed. *)
FaultyStop ==
  /\ run.pc = "running"
  /\ run' = [run EXCEPT !.pc = "stopping"]
  /\ closed' = [t \in Tracks |-> TRUE]
  /\ UNCHANGED <<spent, left, queue, writer, saver, files>>

(* It ends: nothing is left, a segment failed, the user cancelled, or a writer is gone. The queues of  *)
(* tracks with segments left are closed.                                                               *)
Stop ==
  /\ run.pc = "running"
  /\ run' = [run EXCEPT !.pc = "stopping"]
  /\ closed' = [t \in Tracks |-> left[t] > 0]
  /\ UNCHANGED <<spent, left, queue, writer, saver, files>>

Joined ==
  /\ run.pc = "stopping"
  /\ \A t \in Tracks : Returned(t)
  /\ run' = [run EXCEPT !.pc = "ended"]
  /\ closed' = [t \in Tracks |-> TRUE]
  /\ UNCHANGED <<spent, left, queue, writer, saver, files>>

(* The download's future is dropped, or opening a track fails: its writers are told, and run on. *)
Dropped ==
  /\ run.pc \in {"opening", "naming", "starting", "running", "stopping"}
  /\ Spend("drop")
  /\ run' = [run EXCEPT !.pc = "ended"]
  /\ closed' = [t \in Tracks |-> TRUE]
  /\ UNCHANGED <<left, queue, writer, saver, files>>

(* Its writers keep the claims on the names until they return; then the download may run again. *)
RunAgain ==
  /\ run.pc = "ended"
  /\ \A t \in Tracks : Returned(t)
  /\ Spend("run")
  /\ run' = [run EXCEPT !.pc = "off"]
  /\ UNCHANGED <<feed, writer, saver, files>>

-----------------------------------------------------------------------------
At(t, pc) == writer[t].pc = pc
WriterTo(t, pc) == writer' = [writer EXCEPT ![t].pc = pc]

(* hash_part: through what an earlier run wrote, unless the download stops meanwhile. *)
HashPart(t) ==
  /\ At(t, "hashing")
  /\ \E through \in BOOLEAN :
       /\ through \/ (closed[t] /\ writer[t].held > 0)
       /\ writer' = [writer EXCEPT ![t].pc = "writing", ![t].hashed = through]
  /\ UNCHANGED <<run, spent, feed, saver, files>>

(* A segment is appended, and the saver is given the count if that is due and it waits for one. *)
Write(t) ==
  /\ At(t, "writing") /\ writer[t].held < Length[t]
  /\ queue[t] # <<>>
  /\ queue' = [queue EXCEPT ![t] = Tail(@)]
  /\ part' = [part EXCEPT ![t] = Append(@, Head(queue[t]))]
  /\ LET held == writer[t].held + 1
     IN \/ /\ writer' = [writer EXCEPT ![t].held = held]
           /\ UNCHANGED saver
        \/ /\ saver[t].pc = "idle"
           /\ writer' = [writer EXCEPT ![t].held = held, ![t].saved = held]
           /\ saver' = [saver EXCEPT ![t] = [pc |-> "syncing", held |-> held]]
        \/ /\ saver[t].pc = "failed"
           /\ writer' = [writer EXCEPT ![t].held = held, ![t].pc = "joining"]
           /\ UNCHANGED saver
  /\ UNCHANGED <<run, spent, left, closed, durable, state, final>>

WriteFails(t) ==
  /\ At(t, "writing") /\ writer[t].held < Length[t]
  /\ queue[t] # <<>>
  /\ Spend("diskError")
  /\ part' = [part EXCEPT ![t] = Append(@, Junk)]
  /\ WriterTo(t, "failing")
  /\ UNCHANGED <<run, feed, saver, durable, state, final>>

EndOfSegments(t) ==
  /\ At(t, "writing")
  /\ writer[t].held = Length[t] \/ (queue[t] = <<>> /\ closed[t])
  /\ WriterTo(t, "joining")
  /\ UNCHANGED <<run, spent, feed, saver, files>>

(* The saver (ResumeState::save): the segments reach the disk, then the state is replaced. *)
FaultySaverSync(t) ==
  /\ saver[t].pc = "syncing"
  /\ saver' = [saver EXCEPT ![t].pc = "replacing"]
  /\ UNCHANGED <<run, spent, feed, writer, files>>

SaverSync(t) ==
  /\ saver[t].pc = "syncing"
  /\ durable' = [durable EXCEPT ![t] = Len(part[t])]
  /\ saver' = [saver EXCEPT ![t].pc = "replacing"]
  /\ UNCHANGED <<run, spent, feed, writer, part, state, final>>

SaverReplace(t) ==
  /\ saver[t].pc = "replacing"
  /\ state' = [state EXCEPT ![t] = [stream |-> run.stream, held |-> saver[t].held]]
  /\ saver' = [saver EXCEPT ![t] = [pc |-> "idle", held |-> 0]]
  /\ UNCHANGED <<run, spent, feed, writer, part, durable, final>>

SaverFails(t) ==
  /\ saver[t].pc \in {"syncing", "replacing"}
  /\ Spend("diskError")
  /\ saver' = [saver EXCEPT ![t] = [pc |-> "failed", held |-> 0]]
  /\ UNCHANGED <<run, feed, writer, files>>

JoinSaver(t) ==
  /\ At(t, "joining") \/ At(t, "failing")
  /\ saver[t].pc \in {"idle", "failed"}
  /\ WriterTo(t, IF At(t, "failing") \/ saver[t].pc = "failed" THEN "failed" ELSE "deciding")
  /\ UNCHANGED <<run, spent, feed, saver, files>>

(* Faulty: a track whose writer was told to stop is taken for whole. *)
FaultyDecide(t) ==
  /\ At(t, "deciding")
  /\ WriterTo(t, IF writer[t].hashed THEN IF Fsync THEN "flushing" ELSE "renaming"
                 ELSE IF writer[t].held > writer[t].saved THEN "syncing"
                 ELSE "returned")
  /\ UNCHANGED <<run, spent, feed, saver, files>>

Decide(t) ==
  /\ At(t, "deciding")
  /\ WriterTo(t, IF writer[t].hashed /\ writer[t].held = Length[t] /\ ~closed[t]
                 THEN IF Fsync THEN "flushing" ELSE "renaming"
                 ELSE IF writer[t].held > writer[t].saved THEN "syncing"
                 ELSE "returned")
  /\ UNCHANGED <<run, spent, feed, saver, files>>

Sync(t) ==
  /\ At(t, "flushing") \/ At(t, "syncing")
  /\ durable' = [durable EXCEPT ![t] = Len(part[t])]
  /\ WriterTo(t, IF At(t, "flushing") THEN "renaming" ELSE "replacing")
  /\ UNCHANGED <<run, spent, feed, saver, part, state, final>>

Rename(t) ==
  /\ At(t, "renaming")
  /\ final' = [final EXCEPT ![t] = part[t]]
  /\ part' = [part EXCEPT ![t] = None]
  /\ durable' = [durable EXCEPT ![t] = 0]
  /\ WriterTo(t, "removing")
  /\ UNCHANGED <<run, spent, feed, saver, state>>

RemoveState(t) ==
  /\ At(t, "removing")
  /\ state' = [state EXCEPT ![t] = None]
  /\ WriterTo(t, "returned")
  /\ UNCHANGED <<run, spent, feed, saver, part, durable, final>>

SaveState(t) ==
  /\ At(t, "replacing")
  /\ state' = [state EXCEPT ![t] = [stream |-> run.stream, held |-> writer[t].held]]
  /\ WriterTo(t, "returned")
  /\ UNCHANGED <<run, spent, feed, saver, part, durable, final>>

WriterFails(t) ==
  /\ writer[t].pc \in {"hashing", "flushing", "syncing", "renaming", "replacing"}
  /\ Spend("diskError")
  /\ WriterTo(t, "failed")
  /\ UNCHANGED <<run, feed, saver, files>>

-----------------------------------------------------------------------------
(* The process dies, or the machine with it: then segments no sync made durable are there, are lost, or *)
(* are junk.                                                                                            *)
Afresh ==
  /\ run.pc # "off"
  /\ Spend("run")
  /\ run' = [run EXCEPT !.pc = "off"]
  /\ queue' = [t \in Tracks |-> <<>>] /\ closed' = [t \in Tracks |-> TRUE]
  /\ writer' = [t \in Tracks |-> NoWriter] /\ saver' = [t \in Tracks |-> NoSaver]
  /\ UNCHANGED <<left, state, final>>

ProcessDies == Afresh /\ UNCHANGED <<part, durable>>

Survivals(t) == IF part[t] = None THEN {None} ELSE
  UNION {{[i \in 1 .. m |-> IF i \in lost THEN Junk ELSE part[t][i]] : lost \in SUBSET (durable[t] + 1 .. m)} : m \in durable[t] .. Len(part[t])}

MachineFails ==
  /\ Afresh
  /\ part' \in {p \in [Tracks -> UNION {Survivals(t) : t \in Tracks}] : \A t \in Tracks : p[t] \in Survivals(t)}
  /\ durable' = [t \in Tracks |-> IF part'[t] = None THEN 0 ELSE Len(part'[t])]

(* Nothing is left to do, or the names hold what is another download's. *)
Finished ==
  /\ \/ run.pc = "ended" /\ \A t \in Tracks : Returned(t)
     \/ run.pc = "off" /\ (ToFetch = {} \/ \A s \in Streams : \E t \in ToFetch : ~Usable(s, t))
  /\ UNCHANGED vars

-----------------------------------------------------------------------------
Init ==
  /\ run = [pc |-> "off", track |-> 1, stream |-> CHOOSE s \in Streams : TRUE]
  /\ spent = [what \in {"run", "drop", "diskError"} |-> 0]
  /\ left = [t \in Tracks |-> Length[t]]
  /\ queue = [t \in Tracks |-> <<>>] /\ closed = [t \in Tracks |-> TRUE]
  /\ writer = [t \in Tracks |-> NoWriter] /\ saver = [t \in Tracks |-> NoSaver]
  /\ part = [t \in Tracks |-> None] /\ durable = [t \in Tracks |-> 0]
  /\ state = [t \in Tracks |-> None] /\ final = [t \in Tracks |-> None]

Loop == Prepare \/ OpenPart \/ NameStream \/ StartWriter \/ Stop \/ Joined \/ Dropped \/ RunAgain
WriterStep(t) ==
  \/ HashPart(t) \/ Write(t) \/ EndOfSegments(t) \/ JoinSaver(t) \/ Decide(t)
  \/ Sync(t) \/ Rename(t) \/ RemoveState(t) \/ SaveState(t)
SaverStep(t) == SaverSync(t) \/ SaverReplace(t)

Next ==
  \/ Loop \/ ProcessDies \/ MachineFails \/ Finished
  \/ \E t \in Tracks : HandOver(t) \/ WriterStep(t) \/ WriteFails(t) \/ WriterFails(t) \/ SaverStep(t) \/ SaverFails(t)

Spec == Init /\ [][Next]_vars

(* The threads run, and so does the loop that waits for them; nothing makes segments come. *)
FairSpec == Spec /\ WF_vars(Joined) /\ \A t \in Tracks : WF_vars(WriterStep(t)) /\ WF_vars(SaverStep(t))

-----------------------------------------------------------------------------
Contents == Seq({Content[s] : s \in Streams} \X Nat \cup {Junk})

TypeOK ==
  /\ run.pc \in {"off", "opening", "naming", "starting", "running", "stopping", "ended"}
  /\ run.track \in Tracks /\ run.stream \in Streams
  /\ \A t \in Tracks :
       /\ left[t] \in 0 .. Length[t]
       /\ queue[t] \in Contents /\ Len(queue[t]) <= WriteQueue
       /\ closed[t] \in BOOLEAN
       /\ writer[t].pc \in {"off", "hashing", "writing", "joining", "failing", "deciding", "flushing", "renaming",
                            "removing", "syncing", "replacing", "returned", "failed"}
       /\ writer[t].saved \in 0 .. writer[t].held /\ writer[t].held \in 0 .. Length[t]
       /\ saver[t].pc \in {"off", "idle", "syncing", "replacing", "failed"}
       /\ part[t] \in Contents \cup {None} /\ final[t] \in Contents \cup {None}
       /\ durable[t] \in Nat
       /\ state[t] # None => state[t].stream \in Streams /\ state[t].held \in 0 .. Length[t]

(* What the state says the .part holds would survive the machine failing now, and is that many segments *)
(* of one stream, in order: the next run may go on after them.                                           *)
ResumeIsSafe ==
  \A t \in Tracks : part[t] # None /\ state[t] # None =>
    /\ state[t].held <= durable[t]
    /\ \A i \in 1 .. state[t].held : part[t][i] = Segment(state[t].stream, i)

(* A finished file is the whole track, of one stream. *)
FinalIsWhole == \A t \in Tracks : final[t] # None => \E s \in Streams : final[t] = Whole(Content[s], t)

(* Across runs, crashes and rotated links a track keeps what Transfer promises of a download. *)
Promise(t) == INSTANCE Transfer WITH
  Bytes <- 1 .. Length[t],
  Versions <- Cardinality(Streams),
  server <- Content[run.stream],
  recorded <- IF state[t] = None THEN 0 ELSE Content[state[t].stream],
  safe <- IF part[t] # None /\ state[t] # None /\ state[t].held <= durable[t] THEN 1 .. state[t].held ELSE {},
  wrong <- FALSE,
  delivered <- IF final[t] = None THEN None ELSE [i \in DOMAIN final[t] |-> final[t][i][1]]
KeepsPromise ==
  /\ \A t \in Tracks : Promise(t)!Init
  /\ [][\A t \in Tracks : [Promise(t)!Next]_(Promise(t)!vars)]_vars

(* Once every segment of a track is with its writer, its file gets its name, although another track *)
(* fails or the user cancels, unless the disk fails or the download is dropped or dies.             *)
NamedOnceHandedOver ==
  \A t \in Tracks :
    run.pc = "stopping" /\ left[t] = 0 ~>
      final[t] # None \/ writer[t].pc = "failed" \/ spent["drop"] > 0 \/ run.pc = "off"
=============================================================================
