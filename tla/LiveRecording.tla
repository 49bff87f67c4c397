----------------------------- MODULE LiveRecording -----------------------------
(***************************************************************************)
(* Recording a live stream (hls.rs, HlsEngine::record): each round reads   *)
(* what every track's playlist lists now, takes what is new, and appends   *)
(* it to the track's file in the order it is listed.  Meanwhile the server *)
(* lists newer segments, drops older ones, refuses some, and may restart,  *)
(* which numbers its segments from the start again.                        *)
(*                                                                         *)
(* A segment is the moment of the stream it holds, of a second's length,   *)
(* by which playlists date it.  A round's segments are handed over as      *)
(* HandOut promises.                                                       *)
(***************************************************************************)
EXTENDS Naturals, Sequences, SequencesExt, FiniteSets

CONSTANTS
  Tracks,      (* 1 .. the number of tracks; the first leads                 *)
  Length,      (* moments of the stream                                      *)
  Window,      (* how many segments a playlist lists                         *)
  Ads,         (* moments that are ads, left out                             *)
  First,       (* what the server's numbers start after, before a restart    *)
  Lead,        (* LIVE_START_SEGMENTS                                        *)
  MaxGone,     (* MAX_GONE_IN_A_ROW                                          *)
  Limits,      (* record_seconds: how many segments, or None                 *)
  None,
  Budget       (* bounds of the model: restarts, refused segments            *)

Moments == 1 .. Length

VARIABLES
  newest,      (* the newest moment each track has listed                    *)
  base,        (* the moment the current numbers start after                 *)
  live,        (* whether the stream goes on                                 *)
  limit,       (* of this recording                                          *)
  listings,    (* as last read                                               *)
  at,          (* where the loop is                                          *)
  track,       (* the track read next                                        *)
  from,        (* where the recording starts                                 *)
  last,        (* per track the segment taken last                           *)
  broken,      (* whether a gap comes before the next                        *)
  taken,       (* how many it took                                           *)
  batch,       (* taken and not handed over                                  *)
  fresh,       (* whether the round brought something                        *)
  gone,        (* refused in a row                                           *)
  until,       (* where the limit ends the recording                         *)
  written,     (* the file: moments                                          *)
  breaks,      (* and how many of them come before each discontinuity        *)
  end,         (* why it ended                                               *)
  seen,        (* history: moments listed to a round, per track, ...         *)
  skipped,     (* ... and those the server refused                           *)
  left         (* of the budget                                              *)

server == <<newest, base, live>>
round == <<from, last, broken, taken, fresh, until>>
files == <<written, breaks, gone>>
loop == <<round, limit, listings, at, track, batch, end>>
vars == <<server, loop, files, seen, skipped, left>>

May(what) == left[what] > 0 /\ left' = [left EXCEPT ![what] = @ - 1]

Number(m) == IF base = 0 THEN First + m ELSE m - base

-----------------------------------------------------------------------------
(* Tracks are listed at most a segment apart. *)
Publish(t) ==
  /\ live /\ newest[t] < Length
  /\ \A u \in Tracks : newest[t] <= newest[u]
  /\ newest' = [newest EXCEPT ![t] = @ + 1]
  /\ UNCHANGED <<base, live, loop, files, seen, skipped, left>>

(* Numbers go back below every number before. *)
Restart ==
  /\ live /\ base = 0
  /\ May("restart")
  /\ \A t \in Tracks : newest[t] = newest[1]
  /\ newest[1] > 0
  /\ base' = newest[1]
  /\ UNCHANGED <<newest, live, loop, files, seen, skipped>>

StreamEnds ==
  /\ live /\ \A t \in Tracks : newest[t] = newest[1]
  /\ live' = FALSE
  /\ UNCHANGED <<newest, base, loop, files, seen, skipped, left>>

Oldest(t) == IF newest[t] - base > Window THEN newest[t] - Window + 1 ELSE base + 1
Listed(t) == SetToSortSeq((Oldest(t) .. newest[t]) \ Ads, <)

(* An ad is left out, and what is listed after it follows a gap (LiveSources.listings). *)
Listing(t) ==
  [segments |-> [i \in DOMAIN Listed(t) |->
                   LET m == Listed(t)[i] IN
                     [moment |-> m, number |-> Number(m), discontinuity |-> m - 1 \in Ads /\ m > Oldest(t)]],
   ended |-> ~live]

(* One playlist after the other, while the server goes on. *)
Read ==
  /\ at = "read"
  /\ listings' = [listings EXCEPT ![track] = Listing(track)]
  /\ IF track + 1 \in Tracks THEN track' = track + 1 /\ at' = at ELSE track' = 1 /\ at' = "take"
  /\ UNCHANGED <<server, round, limit, batch, end, files, seen, skipped, left>>

-----------------------------------------------------------------------------
(* start_from: among the newest of what the first track lists, the oldest, or a time it still lists. *)
Starts ==
  LET listed == listings[1].segments IN
  IF from # None THEN {from}
  ELSE IF listed = <<>> THEN {None}
  ELSE {listed[IF Len(listed) > Lead THEN Len(listed) - Lead + 1 ELSE 1].moment, Head(listed).moment, Last(listed).moment}

(* Numbers that went back: the server restarted. *)
FaultyRestarted(t) == FALSE
Restarted(t) ==
  LET listed == listings[t].segments IN
    listed # <<>> /\ last[t] # None /\ Last(listed).number < last[t].number

Before(t) == IF Restarted(t) THEN None ELSE last[t]

FaultyIsNew(t, s, start) == IF Before(t) = None THEN s.moment >= start ELSE s.number >= Before(t).number
IsNew(t, s, start) == IF Before(t) = None THEN s.moment >= start ELSE s.number > Before(t).number
New(t, start) == SelectSeq(listings[t].segments, LAMBDA s : IsNew(t, s, start))

(* The first track takes what the limit leaves it, which is where the others end too. *)
LeadTakes(start) ==
  LET new == New(1, start) IN
    IF limit = None \/ taken[1] + Len(new) <= limit THEN new ELSE SubSeq(new, 1, limit - taken[1])

Until(start) ==
  IF limit # None /\ LeadTakes(start) # <<>> /\ taken[1] + Len(LeadTakes(start)) = limit
  THEN Last(LeadTakes(start)).moment + 1 ELSE until

Takes(t, start) ==
  IF t = 1 THEN LeadTakes(start)
  ELSE SelectSeq(New(t, start), LAMBDA s : Until(start) = None \/ s.moment < Until(start))

(* Segments left the playlist before this round read it: not the next number, and well after the last one's end. *)
IsGap(before, s) == before # None /\ s.number # before.number + 1 /\ s.moment > before.moment + 1

Breaks(t, before, s, first) ==
  s.discontinuity \/ IsGap(before, s) \/ (first /\ (broken[t] \/ Restarted(t)))

Batch(t, start) ==
  LET takes == Takes(t, start) IN
    [i \in DOMAIN takes |->
      [track |-> t, moment |-> takes[i].moment,
       breaks |-> Breaks(t, IF i = 1 THEN Before(t) ELSE takes[i - 1], takes[i], i = 1),
       newest |-> takes[i] = Last(listings[t].segments)]]

Take ==
  /\ at = "take"
  /\ \E start \in Starts :
       /\ from' = start
       /\ IF start = None THEN UNCHANGED <<last, broken, taken, until, batch, seen>>
          ELSE /\ batch' = FlattenSeq([t \in Tracks |-> Batch(t, start)])
               /\ last' = [t \in Tracks |-> IF Takes(t, start) = <<>> THEN Before(t) ELSE Last(Takes(t, start))]
               /\ broken' = [t \in Tracks |-> Takes(t, start) = <<>> /\ (broken[t] \/ Restarted(t))]
               /\ taken' = [t \in Tracks |-> taken[t] + Len(Takes(t, start))]
               /\ until' = Until(start)
               /\ seen' = [t \in Tracks |-> seen[t] \cup {s.moment : s \in ToSet(listings[t].segments)}]
  /\ fresh' = (batch' # <<>>)
  /\ at' = "fetch"
  /\ UNCHANGED <<server, limit, listings, track, end, files, skipped, left>>

-----------------------------------------------------------------------------
(* Appended in order, each as it is handed over; the file's size may be all that was asked for, or all the disk has. *)
FaultyWrite(s) ==
  /\ written' = [written EXCEPT ![s.track] = Append(@, s.moment)]
  /\ breaks' = IF s.breaks THEN [breaks EXCEPT ![s.track] = @ \cup {Len(written'[s.track])}] ELSE breaks

Write(s) ==
  /\ written' = [written EXCEPT ![s.track] = Append(@, s.moment)]
  /\ breaks' = IF s.breaks /\ written[s.track] # <<>>
               THEN [breaks EXCEPT ![s.track] = @ \cup {Len(written[s.track])}] ELSE breaks

Recorded ==
  /\ at = "fetch" /\ batch # <<>>
  /\ Write(Head(batch))
  /\ gone' = [gone EXCEPT ![Head(batch).track] = 0]
  /\ batch' = Tail(batch)
  /\ \/ UNCHANGED <<at, end>>
     \/ at' = "over" /\ end' = "full"
  /\ UNCHANGED <<server, round, limit, listings, track, seen, skipped, left>>

(* A segment the server no longer has is skipped; too many in a row, the newest among them, and it refuses them. *)
Gone ==
  /\ at = "fetch" /\ batch # <<>>
  /\ May("gone")
  /\ LET s == Head(batch) IN
       /\ skipped' = [skipped EXCEPT ![s.track] = @ \cup {s.moment}]
       /\ gone' = [gone EXCEPT ![s.track] = @ + 1]
       /\ IF gone'[s.track] >= MaxGone /\ s.newest THEN at' = "over" /\ end' = "refused" ELSE UNCHANGED <<at, end>>
  /\ batch' = Tail(batch)
  /\ UNCHANGED <<server, round, limit, listings, track, written, breaks, seen>>

(* Read again, unless there is nothing more to come, or nothing came for too long. *)
RoundEnds ==
  /\ at = "fetch" /\ batch = <<>>
  /\ IF until # None THEN at' = "over" /\ end' = "time"
     ELSE IF \A t \in Tracks : listings[t].ended THEN at' = "over" /\ end' = "stream"
     ELSE \/ at' = "read" /\ end' = end
          \/ at' = "over" /\ end' = IF fresh THEN "full" ELSE "idle"
  /\ UNCHANGED <<server, round, limit, listings, track, batch, files, seen, skipped, left>>

(* It is stopped; or the start asked for is not listed, a playlist is not answered, a segment, its init  *)
(* section or the file fails.                                                                             *)
BreaksOff ==
  /\ at # "over"
  /\ at' = "over" /\ end' = "brokenOff"
  /\ UNCHANGED <<server, round, limit, listings, track, batch, files, seen, skipped, left>>

-----------------------------------------------------------------------------
NothingListed == [segments |-> <<>>, ended |-> FALSE]

Init ==
  /\ newest = [t \in Tracks |-> 0] /\ base = 0 /\ live = TRUE
  /\ limit \in Limits
  /\ listings = [t \in Tracks |-> NothingListed] /\ at = "read" /\ track = 1
  /\ from = None /\ last = [t \in Tracks |-> None] /\ broken = [t \in Tracks |-> FALSE]
  /\ taken = [t \in Tracks |-> 0] /\ fresh = FALSE /\ until = None
  /\ batch = <<>> /\ end = None
  /\ written = [t \in Tracks |-> <<>>] /\ breaks = [t \in Tracks |-> {}] /\ gone = [t \in Tracks |-> 0]
  /\ seen = [t \in Tracks |-> {}] /\ skipped = [t \in Tracks |-> {}]
  /\ left = Budget

Next ==
  \/ \E t \in Tracks : Publish(t)
  \/ Restart \/ StreamEnds
  \/ Read \/ Take \/ Recorded \/ Gone \/ RoundEnds \/ BreaksOff

Spec == Init /\ [][Next]_vars

-----------------------------------------------------------------------------
TypeOK ==
  /\ at \in {"read", "take", "fetch", "over"}
  /\ end \in {None, "time", "stream", "idle", "full", "refused", "brokenOff"}
  /\ written \in [Tracks -> Seq(Moments)] /\ breaks \in [Tracks -> SUBSET Moments]
  /\ taken \in [Tracks -> Nat] /\ gone \in [Tracks -> Nat]
  /\ seen \in [Tracks -> SUBSET Moments] /\ skipped \in [Tracks -> SUBSET Moments]

Waiting(t) == {batch[i].moment : i \in {j \in DOMAIN batch : batch[j].track = t}}

(* What a playlist listed to the recorder, from the start on, is in the track's file once and in order, but what  *)
(* the server refused; nothing is left out for a restart, for ads or for what was read late.  Only a limit ends  *)
(* it, exactly where the first track has that much (hls.rs: record, LiveSources::listings).                       *)
EveryListedOnce ==
  \A t \in Tracks :
    LET kept == ToSet(written[t]) \cup skipped[t] \cup Waiting(t)
        listed == {m \in seen[t] : m >= from}
    IN /\ \A i, j \in DOMAIN written[t] : i < j => written[t][i] < written[t][j]
       /\ kept \subseteq listed
       /\ {m \in listed : until # None => m < until} \subseteq kept
       /\ t = 1 /\ limit # None => Cardinality(kept) <= limit /\ (until # None <=> Cardinality(kept) = limit)

(* Where a file joins two segments that do not follow each other in the stream, or were numbered anew, a          *)
(* discontinuity is noted, and nowhere else; but next to a segment that was refused (hls.rs: record).             *)
JoinsAreMarked ==
  \A t \in Tracks : \A i \in 1 .. Len(written[t]) - 1 :
    LET a == written[t][i]
        b == written[t][i + 1]
        joined == b # a + 1 \/ (base # 0 /\ a <= base /\ base < b)
    IN  (a + 1) .. (b - 1) \cap skipped[t] = {} => (i \in breaks[t] <=> joined)
===============================================================================
