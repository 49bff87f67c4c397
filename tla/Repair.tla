-------------------------------- MODULE Repair --------------------------------
(***************************************************************************)
(* Mending a file: a verification finds pieces missing or damaged, and a   *)
(* repair (verify.rs: repair_missing_ranges) takes the file back to its    *)
(* .part, has those pieces fetched, by the download engine where a mirror  *)
(* can be held to its version and by itself otherwise, and gives it its    *)
(* name again.  Beside it another download of the same links, in a process *)
(* of its own, which by a metalink knows the hashes of the pieces and      *)
(* fetches those that fail again (digest.rs: finish, refetch).             *)
(*                                                                         *)
(* A server names each version of the file by an ETag. The old layout's    *)
(* state beside a file is TargetNames', and what an engine does within a   *)
(* download RangeDownload's: here it fetches piece by piece.               *)
(***************************************************************************)
EXTENDS Naturals, Sequences

CONSTANTS
  Pieces,     (* 1 .. n: the pieces of the file                              *)
  Versions,   (* 1 .. v: the file on the server                              *)
  Links,      (* the mirrors, in the order of their links                    *)
  Honors,     (* those that honor If-Range                                   *)
  Rounds,     (* REFETCH_ROUNDS                                              *)
  Bad, Hole,  (* bytes of no version, bytes never written                    *)
  None,
  Budget      (* bounds of the model: how often what may happen              *)

Mirrors == {Links[i] : i \in DOMAIN Links}
Content == Versions \cup {Bad, Hole}
Engines == {"own", "other"}   (* the engine of the repair, and the other download *)

VARIABLES
  file,      (* what lies at the name: a content of each piece, or None       *)
  part,      (* the same of its .part                                         *)
  state,     (* the .part's resume state: its version (0: not said), and done *)
  volatile,  (* pieces of the .part written since it was last synced          *)
  aside,     (* the next name: a .part saved there before or started by the   *)
             (* repair's engine, a copy it saved there                        *)
  claim,     (* who holds the claim on the name                               *)
  history,   (* the entry of the file: its hash, ETag, whether piece hashes   *)
  hashed,    (* the other download has a metalink's piece hashes              *)
  remote,    (* the version each mirror serves                                *)
  repair,    (* where the repair is, and what it knows                        *)
  engine,    (* the same of each engine                                       *)
  left       (* of the budget                                                 *)

disk == <<file, part, state, volatile>>
world == <<hashed, remote>>
vars == <<disk, aside, claim, history, world, repair, engine, left>>

May(what) == left[what] > 0 /\ left' = [left EXCEPT ![what] = @ - 1]

Whole(version) == [p \in Pieces |-> version]
Empty == Whole(Hole)
Holes(data) == {p \in Pieces : data[p] = Hole}

(* Version::matches, validators_compatible: a version that is not known is any. *)
Matches(tag, version) == tag \in {0, version}

NoRepair == [at |-> "idle", path |-> "file", missing |-> {}, tag |-> 0, done |-> {}, usable |-> {},
             seen |-> [m \in Mirrors |-> 0], recorded |-> None, before |-> FALSE]
NoEngine == [at |-> "idle", links |-> {}, version |-> 0, done |-> {}, hash |-> None, round |-> 0]

RepairIs(to) == repair' = [repair EXCEPT !.at = to]
At(e, where) == engine[e].at = where
EngineIs(e, to) == engine' = [engine EXCEPT ![e].at = to]

-----------------------------------------------------------------------------
(* verify_build_file: what is missing by the state, by the size, or by the piece hashes in history. *)
Gaps ==
  IF file # None THEN Holes(file)
  ELSE IF state # None THEN Pieces \ state.done ELSE Pieces

Damaged ==
  IF ~history.pieces THEN {}
  ELSE {p \in Pieces : (IF file # None THEN file ELSE part)[p] # history.hash[p]}

Verify ==
  /\ repair.at = "idle"
  /\ May("repair")
  /\ file # None \/ part # None
  /\ LET missing == IF Gaps # {} THEN Gaps ELSE Damaged IN
       /\ missing # {}
       /\ repair' = [NoRepair EXCEPT !.at = "claim", !.missing = missing,
                                     !.path = IF file # None THEN "file" ELSE "part"]
  /\ UNCHANGED <<disk, aside, claim, history, world, engine>>

(* A download gives up its claim just before history has its entry: nothing starts in between here. *)
Claim ==
  /\ repair.at = "claim"
  /\ claim = None /\ \A e \in Engines : ~At(e, "record")
  /\ claim' = "repair"
  /\ RepairIs("prepare")
  /\ UNCHANGED <<disk, aside, history, world, engine, left>>

StillDownloaded ==
  /\ repair.at = "claim"
  /\ claim # None
  /\ repair' = NoRepair
  /\ UNCHANGED <<disk, aside, claim, history, world, engine, left>>

(* The .part is what is mended if it was verified, or lies there without a file. *)
OnPart == repair.path = "part" \/ (file = None /\ part # None)

(* A damaged file has no state: everything but what is missing is taken as present. *)
Known ==
  IF OnPart /\ state # None THEN state
  ELSE [tag |-> history.tag, done |-> Pieces]

FaultyTrusted == Known.done

Trusted ==
  LET data == IF OnPart THEN part ELSE file IN
  IF data = None THEN {} ELSE Known.done \ (repair.missing \cup IF OnPart THEN {} ELSE Holes(data))

(* The state first: a crash before the rename leaves no more than a stray state. *)
Prepare ==
  /\ repair.at = "prepare"
  /\ OnPart \/ part = None
  /\ state' = [tag |-> Known.tag, done |-> Trusted]
  /\ repair' = [repair EXCEPT !.at = IF OnPart \/ file = None THEN "open" ELSE "move", !.tag = Known.tag, !.done = Trusted]
  /\ UNCHANGED <<file, part, volatile, aside, claim, history, world, engine, left>>

Refused ==
  /\ repair.at = "prepare"
  /\ ~OnPart /\ part # None
  /\ claim' = None
  /\ repair' = NoRepair
  /\ UNCHANGED <<disk, aside, history, world, engine, left>>

Move ==
  /\ repair.at = "move"
  /\ part' = file
  /\ file' = None
  /\ volatile' = {}
  /\ RepairIs("open")
  /\ UNCHANGED <<state, aside, claim, history, world, engine, left>>

MoveFails ==
  /\ repair.at = "move"
  /\ May("fail")
  /\ state' = None
  /\ claim' = None
  /\ repair' = NoRepair
  /\ UNCHANGED <<file, part, volatile, aside, history, world, engine>>

(* DiskWriter::open_or_create; the engine would save beside a file that is there. *)
Open ==
  /\ repair.at = "open"
  /\ part' = IF part = None THEN Empty ELSE part
  /\ volatile' = IF part = None THEN {} ELSE volatile
  /\ repair' = [repair EXCEPT !.at = IF file # None THEN "inPlace" ELSE "check", !.usable = Mirrors]
  /\ UNCHANGED <<file, state, aside, claim, history, world, engine, left>>

-----------------------------------------------------------------------------
(* VersionCheck::mirrors: those that show they serve the version recorded. *)
Serving(out) == {m \in Mirrors \ out : Matches(repair.tag, remote[m])}

FaultyHeld(out) == Serving(out)
Held(out) == Serving(out) \cap Honors

Answering(out) == out \subseteq Mirrors /\ IF out = {} THEN UNCHANGED left ELSE May("fail")

NoMirror ==
  /\ repair.at = "check"
  /\ \E out \in SUBSET Mirrors : Answering(out) /\ Serving(out) = {}
  /\ claim' = None
  /\ repair' = NoRepair
  /\ UNCHANGED <<disk, aside, history, world, engine>>

(* The engine gets the first that honors If-Range, and takes the claim itself. *)
HandOver ==
  /\ repair.at = "check"
  /\ \E out \in SUBSET Mirrors :
       /\ Answering(out)
       /\ \E i \in DOMAIN Links :
            /\ Links[i] \in Held(out)
            /\ \A j \in 1 .. i - 1 : Links[j] \notin Held(out)
            /\ repair' = [repair EXCEPT !.at = "read", !.usable = {Links[i]}]
  /\ claim' = None
  /\ UNCHANGED <<disk, aside, history, world, engine>>

InPlace ==
  /\ repair.at = "check"
  /\ \E out \in SUBSET Mirrors :
       /\ Answering(out)
       /\ Serving(out) # {} /\ Held(out) = {}
       /\ repair' = [repair EXCEPT !.at = "inPlace", !.usable = Serving(out)]
  /\ UNCHANGED <<disk, aside, claim, history, world, engine>>

ReadHistory ==
  /\ repair.at = "read"
  /\ repair' = [repair EXCEPT !.at = "look", !.recorded = history]
  /\ UNCHANGED <<disk, aside, claim, history, world, engine, left>>

(* names_beside, and the engine starts. *)
StartEngine ==
  /\ repair.at = "look"
  /\ repair' = [repair EXCEPT !.at = "engine", !.before = aside # "none"]
  /\ engine' = [engine EXCEPT !["own"] = [NoEngine EXCEPT !.at = "probe", !.links = repair.usable]]
  /\ UNCHANGED <<disk, aside, claim, history, world, left>>

(* keep_recorded_hash, once the engine is done with the file: another hash in history gives way to  *)
(* the one recorded, unless the mirror shows that it serves another version now.                     *)
Outdated == \A m \in repair.usable : ~Matches(repair.tag, remote[m])

FaultyEntry == history
Entry == IF history.hash = repair.recorded.hash \/ Outdated THEN history ELSE repair.recorded

KeepHash ==
  /\ repair.at = "keep"
  /\ history' = Entry
  /\ repair' = NoRepair
  /\ UNCHANGED <<disk, aside, claim, world, engine, left>>

-----------------------------------------------------------------------------
(* repair_in_place: piece by piece, each mirror held to the version it served first. *)
NextGap(p) == p \in Pieces \ repair.done /\ \A q \in Pieces \ repair.done : p <= q

FaultySame(m) == TRUE
Same(m) == IF repair.seen[m] = 0 THEN Matches(repair.tag, remote[m]) ELSE repair.seen[m] = remote[m]

Arrives(p, version) ==
  /\ \/ UNCHANGED left /\ part' = [part EXCEPT ![p] = version]
     \/ May("corrupt") /\ part' = [part EXCEPT ![p] = Bad]
  /\ volatile' = volatile \cup {p}

FetchRange(p, m) ==
  /\ repair.at = "inPlace"
  /\ NextGap(p) /\ m \in repair.usable
  /\ Same(m)
  /\ Arrives(p, remote[m])
  /\ repair' = [repair EXCEPT !.done = @ \cup {p}, !.seen[m] = remote[m]]
  /\ UNCHANGED <<file, state, aside, claim, history, world, engine>>

WrongVersion(m) ==
  /\ repair.at = "inPlace"
  /\ repair.done # Pieces /\ m \in repair.usable
  /\ ~Same(m)
  /\ repair' = [repair EXCEPT !.usable = @ \ {m}]
  /\ UNCHANGED <<disk, aside, claim, history, world, engine, left>>

(* finish_repair: synced; then the name, if the file is complete and the name free, or the state. *)
Repaired ==
  /\ repair.at = "inPlace"
  /\ repair.done = Pieces /\ file = None
  /\ file' = part
  /\ part' = None
  /\ volatile' = {}
  /\ RepairIs("tidy")
  /\ UNCHANGED <<state, aside, claim, history, world, engine, left>>

Tidy ==
  /\ repair.at = "tidy"
  /\ state' = None
  /\ claim' = None
  /\ repair' = NoRepair
  /\ UNCHANGED <<file, part, volatile, aside, history, world, engine, left>>

Synced == {}

(* Cancelled, out of attempts or mirrors, or complete where a file lies. *)
Ends == \/ repair.usable = {} /\ UNCHANGED left
        \/ repair.done = Pieces /\ file # None /\ UNCHANGED left
        \/ repair.done # Pieces /\ May("fail")

Kept ==
  /\ repair.at = "inPlace"
  /\ Ends
  /\ volatile' = Synced
  /\ state' = [tag |-> repair.tag, done |-> repair.done]
  /\ claim' = None
  /\ repair' = NoRepair
  /\ UNCHANGED <<file, part, aside, history, world, engine>>

SyncFails ==
  /\ repair.at = "inPlace"
  /\ May("fail")
  /\ claim' = None
  /\ repair' = NoRepair
  /\ UNCHANGED <<disk, aside, history, world, engine>>

-----------------------------------------------------------------------------
(* The engine, for the repair and for the other download. *)

StartOther ==
  /\ At("other", "idle")
  /\ May("other")
  /\ engine' = [engine EXCEPT !["other"] = [NoEngine EXCEPT !.at = "probe", !.links = IF hashed THEN Mirrors ELSE Honors]]
  /\ UNCHANGED <<disk, aside, claim, history, world, repair>>

(* What comes after the engine: the repair goes on, or is over. *)
Over(e, next) ==
  /\ engine' = [engine EXCEPT ![e] = NoEngine]
  /\ repair' = IF e = "other" THEN repair ELSE IF next = "keep" THEN [repair EXCEPT !.at = "keep"] ELSE NoRepair

Probe(e) ==
  /\ At(e, "probe")
  /\ \E m \in engine[e].links : engine' = [engine EXCEPT ![e].at = "plan", ![e].version = remote[m]]
  /\ UNCHANGED <<disk, aside, claim, history, world, repair, left>>

(* already_downloaded: of the size, and history saw it finish. *)
AlreadyDone == file # None /\ Holes(file) = {}

Done(e) ==
  /\ At(e, "plan")
  /\ AlreadyDone
  /\ Over(e, "keep")
  /\ UNCHANGED <<disk, aside, claim, history, world, left>>

(* plan_target goes to the next name where the name is claimed, or taken, or its .part somebody else's. *)
Taken == claim # None \/ file # None \/ (part # None /\ state = None)

GoAside(e) ==
  /\ At(e, "plan")
  /\ ~AlreadyDone /\ Taken
  /\ IF e = "other" THEN Over(e, "error") /\ UNCHANGED aside
     ELSE /\ EngineIs(e, "aside")
          /\ aside' = IF aside = "none" THEN "started" ELSE aside
          /\ UNCHANGED repair
  /\ UNCHANGED <<disk, claim, history, world, left>>

(* The repair stops an engine that shows another name, and removes what it started there. *)
FaultyRemains == "none"
Remains == IF repair.before THEN aside ELSE "none"

StopAside ==
  /\ At("own", "aside")
  /\ aside' = Remains
  /\ Over("own", "error")
  /\ UNCHANGED <<disk, claim, history, world, left>>

(* Before that was seen, it had the whole file. *)
CopyAside ==
  /\ At("own", "aside")
  /\ aside' = "copy"
  /\ Over("own", "error")
  /\ UNCHANGED <<disk, claim, history, world, left>>

Begin(e, done) == engine' = [engine EXCEPT ![e].at = "save", ![e].done = done]

Resume(e) ==
  /\ At(e, "plan")
  /\ ~Taken /\ part # None
  /\ Matches(state.tag, engine[e].version)
  /\ claim' = e
  /\ Begin(e, state.done)
  /\ UNCHANGED <<disk, aside, history, world, repair, left>>

Fresh(e) ==
  /\ At(e, "plan")
  /\ ~Taken /\ part = None
  /\ claim' = e
  /\ Begin(e, {})
  /\ UNCHANGED <<disk, aside, history, world, repair, left>>

(* Bytes of another version go, then their state. *)
Stale(e) ==
  /\ At(e, "plan")
  /\ ~Taken /\ part # None
  /\ ~Matches(state.tag, engine[e].version)
  /\ claim' = e
  /\ part' = None
  /\ volatile' = {}
  /\ EngineIs(e, "stale")
  /\ UNCHANGED <<file, state, aside, history, world, repair, left>>

StaleState(e) ==
  /\ At(e, "stale")
  /\ state' = None
  /\ Begin(e, {})
  /\ UNCHANGED <<file, part, volatile, aside, claim, history, world, repair, left>>

Save(e) ==
  /\ At(e, "save")
  /\ state' = [tag |-> engine[e].version, done |-> engine[e].done]
  /\ EngineIs(e, "open")
  /\ UNCHANGED <<file, part, volatile, aside, claim, history, world, repair, left>>

Create(e) ==
  /\ At(e, "open")
  /\ part' = IF part = None THEN Empty ELSE part
  /\ volatile' = IF part = None THEN {} ELSE volatile
  /\ EngineIs(e, "fetch")
  /\ UNCHANGED <<file, state, aside, claim, history, world, repair, left>>

(* Only If-Range holds a mirror to the version probed; what ends a download saves first. *)
Fetch(e, p, m) ==
  /\ At(e, "fetch")
  /\ p \in Pieces \ engine[e].done /\ m \in engine[e].links
  /\ remote[m] = engine[e].version \/ m \notin Honors
  /\ Arrives(p, remote[m])
  /\ engine' = [engine EXCEPT ![e].done = @ \cup {p}]
  /\ UNCHANGED <<file, state, aside, claim, history, world, repair>>

Persist(e) ==
  /\ At(e, "fetch")
  /\ engine[e].done # state.done
  /\ state' = [tag |-> engine[e].version, done |-> engine[e].done]
  /\ volatile' = {}
  /\ UNCHANGED <<file, part, aside, claim, history, world, repair, engine, left>>

Stops(e) ==
  /\ At(e, "fetch")
  /\ engine[e].done # Pieces
  /\ \/ UNCHANGED left /\ \A m \in engine[e].links : m \in Honors /\ remote[m] # engine[e].version
     \/ May("fail")
  /\ state' = [tag |-> engine[e].version, done |-> engine[e].done]
  /\ volatile' = {}
  /\ claim' = None
  /\ Over(e, "error")
  /\ UNCHANGED <<file, part, aside, history, world>>

(* The finished file against the metalink's hashes, the first version's. *)
Failing(e) == IF e = "other" /\ hashed THEN {p \in Pieces : part[p] # 1} ELSE {}

(* DownloadEngine::run: once more, from one mirror, another than the round before. *)
NextRound(e) ==
  LET round == engine[e].round + 1 IN
    engine' = [engine EXCEPT ![e] =
      IF round > Rounds THEN NoEngine
      ELSE [NoEngine EXCEPT !.at = "probe", !.round = round, !.links = {Links[(round % Len(Links)) + 1]}]]

Passing(e) == Pieces \ Failing(e)

Refetch(e) ==
  /\ At(e, "fetch")
  /\ engine[e].done = Pieces /\ Failing(e) # {}
  /\ volatile' = {}
  /\ claim' = None
  /\ state' = [tag |-> 0, done |-> Passing(e)]
  /\ NextRound(e)
  /\ UNCHANGED <<file, part, aside, history, world, repair, left>>

Finalize(e) ==
  /\ At(e, "fetch")
  /\ engine[e].done = Pieces /\ Failing(e) = {}
  /\ file = None
  /\ file' = part
  /\ part' = None
  /\ volatile' = {}
  /\ engine' = [engine EXCEPT ![e].at = "renamed", ![e].done = {}, ![e].hash = part]
  /\ UNCHANGED <<state, aside, claim, history, world, repair, left>>

Renamed(e) ==
  /\ At(e, "renamed")
  /\ state' = None
  /\ claim' = None
  /\ EngineIs(e, "record")
  /\ UNCHANGED <<file, part, volatile, aside, history, world, repair, left>>

(* record_completed *)
Record(e) ==
  /\ At(e, "record")
  /\ history' = [hash |-> engine[e].hash, tag |-> engine[e].version, pieces |-> TRUE]
  /\ Over(e, "keep")
  /\ UNCHANGED <<disk, aside, claim, world, left>>

-----------------------------------------------------------------------------
(* The server publishes another version of the file, mirror by mirror. *)
Publish(m) ==
  /\ ~hashed
  /\ May("publish")
  /\ \E version \in Versions \ {remote[m]} : remote' = [remote EXCEPT ![m] = version]
  /\ UNCHANGED <<disk, aside, claim, history, hashed, repair, engine>>

(* The process of the repair and its engine ends, or that of the other download. *)
CrashRepair ==
  /\ repair.at # "idle"
  /\ May("crash")
  /\ repair' = NoRepair
  /\ engine' = [engine EXCEPT !["own"] = NoEngine]
  /\ claim' = IF claim = "other" THEN claim ELSE None
  /\ UNCHANGED <<disk, aside, history, world>>

CrashOther ==
  /\ ~At("other", "idle")
  /\ May("crash")
  /\ engine' = [engine EXCEPT !["other"] = NoEngine]
  /\ claim' = IF claim = "other" THEN None ELSE claim
  /\ UNCHANGED <<disk, aside, history, world, repair>>

-----------------------------------------------------------------------------
Complete == [hash |-> Whole(1), tag |-> 1, pieces |-> TRUE]

(* A finished file that was damaged or cut short since; or a download that was stopped. *)
Init ==
  /\ history \in {Complete, [Complete EXCEPT !.pieces = FALSE]}
  /\ \/ /\ file \in [Pieces -> {1, Bad, Hole}] \ {Whole(1)}
        /\ \A p, q \in Pieces : file[p] = Hole /\ p < q => file[q] = Hole
        /\ part = None /\ state = None
     \/ /\ file = None
        /\ \E done \in SUBSET Pieces :
             /\ part = [p \in Pieces |-> IF p \in done THEN 1 ELSE Hole]
             /\ state = [tag |-> 1, done |-> done]
  /\ volatile = {}
  /\ aside \in {"none", "saved"}
  /\ claim = None
  /\ hashed \in BOOLEAN
  /\ remote = [m \in Mirrors |-> 1]
  /\ repair = NoRepair
  /\ engine = [e \in Engines |-> NoEngine]
  /\ left = Budget

Mend ==
  \/ Verify \/ Claim \/ StillDownloaded \/ Prepare \/ Refused \/ Move \/ MoveFails \/ Open
  \/ NoMirror \/ HandOver \/ InPlace \/ ReadHistory \/ StartEngine \/ KeepHash
  \/ \E m \in Mirrors : WrongVersion(m) \/ \E p \in Pieces : FetchRange(p, m)
  \/ Repaired \/ Tidy \/ Kept \/ SyncFails \/ StopAside \/ CopyAside

Engine(e) ==
  \/ Probe(e) \/ Done(e) \/ GoAside(e) \/ Resume(e) \/ Fresh(e) \/ Stale(e) \/ StaleState(e) \/ Save(e) \/ Create(e)
  \/ \E p \in Pieces, m \in Mirrors : Fetch(e, p, m)
  \/ Persist(e) \/ Stops(e) \/ Refetch(e) \/ Finalize(e) \/ Renamed(e) \/ Record(e)

Next ==
  \/ Mend
  \/ StartOther \/ \E e \in Engines : Engine(e)
  \/ CrashRepair \/ CrashOther \/ \E m \in Mirrors : Publish(m)

Spec == Init /\ [][Next]_vars

-----------------------------------------------------------------------------
Data == {None} \cup [Pieces -> Content]

TypeOK ==
  /\ file \in Data /\ part \in Data
  /\ state = None \/ (state.tag \in Versions \cup {0} /\ state.done \subseteq Pieces)
  /\ volatile \subseteq Pieces
  /\ aside \in {"none", "saved", "started", "copy"}
  /\ claim \in Engines \cup {"repair", None}
  /\ hashed \in BOOLEAN /\ remote \in [Mirrors -> Versions]

(* What a state records of a .part that lies there is in it, durably, and none of it of another version *)
(* than the state names, whatever the repair, the engines and crashes did to both (verify.rs:            *)
(* prepare_repair, finish_repair; digest.rs: refetch).                                                   *)
StateIsTrue ==
  part # None /\ state # None =>
    /\ state.done \cap volatile = {}
    /\ \A p \in state.done : part[p] \in IF state.tag = 0 THEN Versions \cup {Bad} ELSE {state.tag, Bad}

(* Unless something else happens at the same time, history does not vouch for a damaged file once the   *)
(* repair is over: the hash it had before stays where the repair kept or fetched damaged bytes           *)
(* (keep_recorded_hash).                                                                                 *)
DamageShows ==
  /\ repair.at = "idle"
  /\ \A what \in {"crash", "other", "publish"} : left[what] = Budget[what]
  => Bad \notin {history.hash[p] : p \in Pieces}

(* Good bytes that lie at the name, or that the state of the .part records. *)
Good ==
  {p \in Pieces : \/ file # None /\ file[p] \in Versions
                  \/ file = None /\ part # None /\ state # None /\ p \in state.done /\ part[p] \in Versions}

(* Good bytes are given up only where a verification found them missing, or the server has another     *)
(* version; what takes the name is complete, and of one version; and what another download saved under  *)
(* the next name is not removed (repair_missing_ranges, repair_with_engine, plan_target).               *)
GivenUp == part' = None /\ \E e \in Engines : claim' = e /\ state # None /\ engine[e].version # state.tag

OneVersion(data) ==
  /\ Holes(data) = {}
  /\ \E version \in Versions : \A p \in Pieces : data[p] \in {version, Bad}

NothingGoodLost ==
  [][/\ Good \subseteq Good' \cup repair.missing \/ GivenUp
     /\ file' \notin {file, None} => OneVersion(file')
     /\ aside = "saved" => aside' \in {"saved", "copy"}]_vars
===============================================================================
