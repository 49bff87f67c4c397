------------------------------- MODULE DiskHashes -------------------------------
(***************************************************************************)
(* Hashing a file while it is written (storage.rs, Hashes). Writers hash   *)
(* each block's bytes from memory as they come in order, and read back the *)
(* rest of a block they complete; a follower reads the written prefix for  *)
(* a checksum's other digest, and hashes the blocks nobody has; a digest   *)
(* joins it and reads only what is left.                                   *)
(*                                                                         *)
(* A hash is what was hashed, in order: the hash of other bytes is another *)
(* one. A write holds one value in all its bytes.                          *)
(***************************************************************************)
EXTENDS Naturals, Sequences, FiniteSets

CONSTANTS
  Size,       (* bytes of the file                                            *)
  Block,      (* bytes of a block                                             *)
  Step,       (* most the follower reads at once, at least a block            *)
  Writers,    (* threads that write                                           *)
  Values,     (* what a write may hold                                        *)
  Hole,       (* what a byte never written holds                              *)
  MaxWrites   (* bound of the model: writes                                   *)

Bytes == 0 .. Size - 1
Least(a, b) == IF a < b THEN a ELSE b
Most(a, b) == IF a < b THEN b ELSE a
Blocks == 0 .. (Size - 1) \div Block
From(b) == b * Block
To(b) == Least(From(b) + Block, Size)

VARIABLES
  disk,      (* the file                                                      *)
  writer,    (* what each thread is at                                        *)
  writes,    (* writes so far                                                 *)
  written,   (* HashState.written                                             *)
  block,     (* HashState.blocks                                              *)
  followed,  (* HashState.followed                                            *)
  refollow,  (* HashState.refollow                                            *)
  stopped,   (* HashState.stopped                                             *)
  follower,  (* the prefix hasher                                             *)
  digest     (* what the last digest was of, until the next write             *)

hashes == <<written, block, followed, refollow, stopped>>
vars == <<disk, writer, writes, hashes, follower, digest>>

Contents(a, b) == [i \in 1 .. b - a |-> disk[a + i - 1]]
Nothing == <<>>

(* End of the written prefix. *)
Prefix(set) == CHOOSE n \in 0 .. Size : 0 .. n - 1 \subseteq set /\ n \notin set

IdleWriter == [pc |-> "idle", from |-> 0, to |-> 0, value |-> Hole, jobs |-> <<>>, hashed |-> Nothing]

(* The condition `changed` is signalled. *)
Woken == IF follower.pc = "waiting" THEN [follower EXCEPT !.pc = "looking"] ELSE follower

-----------------------------------------------------------------------------
(* write_chunk_slice. What overlaps while it runs must hold the same bytes. *)
BeginWrite(w) == \E from \in Bytes, to \in 1 .. Size, v \in Values :
  /\ writer[w].pc = "idle"
  /\ follower.digesting = FALSE
  /\ writes < MaxWrites
  /\ from < to
  /\ \A o \in Writers : writer[o].pc # "idle" /\ writer[o].from < to /\ from < writer[o].to => writer[o].value = v
  /\ writes' = writes + 1
  /\ writer' = [writer EXCEPT ![w] =
       [pc |-> "writing", from |-> from, to |-> to, value |-> v, jobs |-> <<>>, hashed |-> Nothing]]
  /\ digest' = Nothing
  /\ UNCHANGED <<disk, hashes, follower>>

WriteBytes(w) ==
  /\ writer[w].pc = "writing"
  /\ disk' = [b \in Bytes |-> IF b \in writer[w].from .. writer[w].to - 1 THEN writer[w].value ELSE disk[b]]
  /\ writer' = [writer EXCEPT ![w].pc = "written"]
  /\ UNCHANGED <<writes, hashes, follower, digest>>

Touched(w) == {b \in Blocks : From(b) < writer[w].to /\ writer[w].from < To(b)}
Covers(set, b) == From(b) .. To(b) - 1 \subseteq set

(* wrote, under the lock: the bytes count as written, hashes of the blocks they are in are void, and *)
(* their heads are taken out.                                                                        *)
FaultyWrote(w) ==
  /\ writer[w].pc = "written"
  /\ written' = written \cup (writer[w].from .. writer[w].to - 1)
  /\ refollow' = (refollow \/ writer[w].to <= followed)
  /\ block' = [b \in Blocks |-> IF b \notin Touched(w) THEN block[b] ELSE
       [version |-> block[b].version + 1, hash |-> Nothing, hashing |-> Covers(written', b), head |-> Nothing]]
  /\ LET job == [i \in 1 .. Cardinality(Touched(w)) |-> (writer[w].from \div Block) + i - 1]
     IN writer' = [writer EXCEPT ![w].pc = "hashing", ![w].jobs =
          [i \in DOMAIN job |-> [block |-> job[i], version |-> block'[job[i]].version,
                                 complete |-> block'[job[i]].hashing, head |-> block[job[i]].head]]]
  /\ follower' = IF Prefix(written') > Prefix(written) THEN Woken ELSE follower
  /\ UNCHANGED <<disk, writes, followed, stopped, digest>>

FaultyWroteQuietly(w) ==
  /\ writer[w].pc = "written"
  /\ written' = written \cup (writer[w].from .. writer[w].to - 1)
  /\ refollow' = (refollow \/ writer[w].from < followed)
  /\ block' = [b \in Blocks |-> IF b \notin Touched(w) THEN block[b] ELSE
       [version |-> block[b].version + 1, hash |-> Nothing, hashing |-> Covers(written', b), head |-> Nothing]]
  /\ LET job == [i \in 1 .. Cardinality(Touched(w)) |-> (writer[w].from \div Block) + i - 1]
     IN writer' = [writer EXCEPT ![w].pc = "hashing", ![w].jobs =
          [i \in DOMAIN job |-> [block |-> job[i], version |-> block'[job[i]].version,
                                 complete |-> block'[job[i]].hashing, head |-> block[job[i]].head]]]
  /\ follower' = IF writer[w].from = Prefix(written) THEN Woken ELSE follower
  /\ UNCHANGED <<disk, writes, followed, stopped, digest>>

Wrote(w) ==
  /\ writer[w].pc = "written"
  /\ written' = written \cup (writer[w].from .. writer[w].to - 1)
  /\ refollow' = (refollow \/ writer[w].from < followed)
  /\ block' = [b \in Blocks |-> IF b \notin Touched(w) THEN block[b] ELSE
       [version |-> block[b].version + 1, hash |-> Nothing, hashing |-> Covers(written', b), head |-> Nothing]]
  /\ LET job == [i \in 1 .. Cardinality(Touched(w)) |-> (writer[w].from \div Block) + i - 1]
     IN writer' = [writer EXCEPT ![w].pc = "hashing", ![w].jobs =
          [i \in DOMAIN job |-> [block |-> job[i], version |-> block'[job[i]].version,
                                 complete |-> block'[job[i]].hashing, head |-> block[job[i]].head]]]
  /\ follower' = IF Prefix(written') > Prefix(written) THEN Woken ELSE follower
  /\ UNCHANGED <<disk, writes, followed, stopped, digest>>

(* What a write adds to a block's head: it goes on from the head unless it rewrites some of it. *)
FaultyGoneOn(x, job) ==
  LET b == job.block
      from == Most(x.from, From(b))
      piece == [i \in 1 .. Least(x.to, To(b)) - from |-> x.value]
  IN IF From(b) + Len(job.head) = from THEN job.head \o piece ELSE job.head

GoneOn(x, job) ==
  LET b == job.block
      from == Most(x.from, From(b))
      piece == [i \in 1 .. Least(x.to, To(b)) - from |-> x.value]
      head == IF From(b) + Len(job.head) <= from THEN job.head ELSE Nothing
  IN IF From(b) + Len(head) = from THEN head \o piece ELSE head

(* Without the lock: hashes on, and reads back the rest of a block written in full. *)
HashBlock(w) ==
  /\ writer[w].pc = "hashing" /\ writer[w].jobs # <<>>
  /\ LET job == Head(writer[w].jobs)
         head == GoneOn(writer[w], job)
     IN writer' = [writer EXCEPT ![w].pc = "keeping", ![w].hashed =
          IF job.complete THEN head \o Contents(From(job.block) + Len(head), To(job.block)) ELSE head]
  /\ UNCHANGED <<disk, writes, hashes, follower, digest>>

(* The rest cannot be read. *)
ReadBackFails(w) ==
  /\ writer[w].pc = "hashing" /\ writer[w].jobs # <<>>
  /\ Head(writer[w].jobs).complete
  /\ writer' = [writer EXCEPT ![w].pc = "keeping", ![w].hashed = Nothing]
  /\ UNCHANGED <<disk, writes, hashes, follower, digest>>

(* Under the lock again: kept unless the block was written again. *)
FaultyKept(job, hashed) ==
  IF job.complete THEN [block[job.block] EXCEPT !.hash = hashed, !.hashing = FALSE]
  ELSE [block[job.block] EXCEPT !.head = hashed]

Kept(job, hashed) ==
  IF block[job.block].version # job.version THEN block[job.block]
  ELSE IF job.complete THEN [block[job.block] EXCEPT !.hash = hashed, !.hashing = FALSE]
  ELSE [block[job.block] EXCEPT !.head = hashed]

KeepHash(w) ==
  /\ writer[w].pc = "keeping"
  /\ LET job == Head(writer[w].jobs)
     IN block' = [block EXCEPT ![job.block] = Kept(job, writer[w].hashed)]
  /\ writer' = [writer EXCEPT ![w].pc = "hashing", ![w].jobs = Tail(@), ![w].hashed = Nothing]
  /\ UNCHANGED <<disk, writes, written, followed, refollow, stopped, follower, digest>>

EndWrite(w) ==
  /\ writer[w].pc = "hashing" /\ writer[w].jobs = <<>>
  /\ writer' = [writer EXCEPT ![w] = IdleWriter]
  /\ UNCHANGED <<disk, writes, hashes, follower, digest>>

-----------------------------------------------------------------------------
(* follow: as far as the prefix is written, in whole blocks. *)
FollowEnd ==
  LET end == Least(Prefix(written), Len(follower.prefix) + Step)
  IN IF end < Size THEN end - (end % Block) ELSE end

Unhashed(a, b) == {i \in Blocks : a <= From(i) /\ From(i) < b /\ block[i].hash = Nothing /\ ~block[i].hashing}

FollowStop ==
  /\ follower.pc = "looking"
  /\ stopped \/ Len(follower.prefix) >= Size
  /\ follower' = [follower EXCEPT !.pc = "done"]
  /\ UNCHANGED <<disk, writer, writes, hashes, digest>>

FollowPick ==
  /\ follower.pc = "looking"
  /\ ~stopped /\ Len(follower.prefix) < FollowEnd
  /\ followed' = FollowEnd
  /\ follower' = [follower EXCEPT !.pc = "reading", !.end = FollowEnd,
       !.unhashed = {<<i, block[i].version>> : i \in Unhashed(Len(follower.prefix), FollowEnd)}]
  /\ UNCHANGED <<disk, writer, writes, written, block, refollow, stopped, digest>>

FollowWait ==
  /\ follower.pc = "looking"
  /\ ~stopped /\ Len(follower.prefix) < Size /\ FollowEnd <= Len(follower.prefix)
  /\ follower' = [follower EXCEPT !.pc = "waiting"]
  /\ UNCHANGED <<disk, writer, writes, hashes, digest>>

FollowRead ==
  /\ follower.pc = "reading"
  /\ follower' = [follower EXCEPT !.pc = "hashing", !.data = Contents(Len(follower.prefix), follower.end)]
  /\ UNCHANGED <<disk, writer, writes, hashes, digest>>

FollowReadFails ==
  /\ follower.pc = "reading"
  /\ follower' = [follower EXCEPT !.pc = "done"]
  /\ UNCHANGED <<disk, writer, writes, hashes, digest>>

(* hash_read: one of the blocks nobody hashed, kept unless written since. *)
FollowHash ==
  /\ follower.pc = "hashing"
  /\ \E u \in follower.unhashed :
       /\ block' = IF block[u[1]].version # u[2] THEN block ELSE [block EXCEPT ![u[1]].hash =
            SubSeq(follower.data, From(u[1]) - Len(follower.prefix) + 1, To(u[1]) - Len(follower.prefix))]
       /\ follower' = [follower EXCEPT !.unhashed = @ \ {u}]
  /\ UNCHANGED <<disk, writer, writes, written, followed, refollow, stopped, digest>>

FollowOn ==
  /\ follower.pc = "hashing" /\ follower.unhashed = {}
  /\ follower' = [follower EXCEPT !.pc = "looking", !.prefix = @ \o follower.data, !.data = Nothing, !.end = 0]
  /\ UNCHANGED <<disk, writer, writes, hashes, digest>>

-----------------------------------------------------------------------------
(* digest, when nobody writes: the follower is stopped and joined; what it read is dropped if it was *)
(* written again since.                                                                              *)
StopFollower ==
  /\ \A w \in Writers : writer[w].pc = "idle"
  /\ ~follower.digesting
  /\ digest = Nothing
  /\ stopped' = TRUE
  /\ follower' = [Woken EXCEPT !.digesting = TRUE]
  /\ UNCHANGED <<disk, writer, writes, written, block, followed, refollow, digest>>

FaultyFollowedTo == follower.prefix
FollowedTo == IF refollow THEN Nothing ELSE follower.prefix

(* The digest goes on from there, hashing blocks nobody has on the way, and reads back the others. A *)
(* second one has no follower to go on from.                                                         *)
Merged(b) == IF block[b].hash = Nothing THEN Contents(From(b), To(b)) ELSE block[b].hash

Digest ==
  /\ follower.digesting
  /\ follower.pc \in {"done", "joined"}
  /\ digest' = [blocks |-> [b \in Blocks |-> Merged(b)],
                extra |-> FollowedTo \o Contents(Len(FollowedTo), Size)]
  /\ block' = [b \in Blocks |-> [block[b] EXCEPT !.hash = Merged(b)]]
  /\ follower' = [follower EXCEPT !.pc = "joined", !.prefix = Nothing, !.unhashed = {}, !.end = 0, !.digesting = FALSE]
  /\ UNCHANGED <<disk, writer, writes, written, followed, refollow, stopped>>

-----------------------------------------------------------------------------
(* track_digest: what an earlier run wrote counts as written. *)
Init ==
  /\ written \in SUBSET Bytes
  /\ disk = [b \in Bytes |-> IF b \in written THEN CHOOSE v \in Values : TRUE ELSE Hole]
  /\ writer = [w \in Writers |-> IdleWriter]
  /\ writes = 0
  /\ block = [b \in Blocks |-> [version |-> 0, hash |-> Nothing, hashing |-> FALSE, head |-> Nothing]]
  /\ followed = 0
  /\ refollow = FALSE
  /\ stopped = FALSE
  /\ follower = [pc |-> "looking", prefix |-> Nothing, end |-> 0, unhashed |-> {}, data |-> Nothing, digesting |-> FALSE]
  /\ digest = Nothing

Write(w) == WriteBytes(w) \/ Wrote(w) \/ HashBlock(w) \/ ReadBackFails(w) \/ KeepHash(w) \/ EndWrite(w)
Follow == FollowStop \/ FollowPick \/ FollowWait \/ FollowRead \/ FollowReadFails \/ FollowHash \/ FollowOn

Next == Follow \/ StopFollower \/ Digest \/ \E w \in Writers : BeginWrite(w) \/ Write(w)

Spec == Init /\ [][Next]_vars

(* Threads run; nobody has to write or to ask for a digest, which, begun, goes on. *)
FairSpec == Spec /\ WF_vars(Follow) /\ WF_vars(Digest) /\ \A w \in Writers : WF_vars(Write(w))

-----------------------------------------------------------------------------
Contained(s, n) == s \in Seq(Values \cup {Hole}) /\ Len(s) <= n

TypeOK ==
  /\ disk \in [Bytes -> Values \cup {Hole}]
  /\ \A w \in Writers : /\ writer[w].pc \in {"idle", "writing", "written", "hashing", "keeping"}
                        /\ writer[w].from \in 0 .. Size /\ writer[w].to \in 0 .. Size
                        /\ Contained(writer[w].hashed, Block)
  /\ writes \in 0 .. MaxWrites
  /\ written \subseteq Bytes
  /\ \A b \in Blocks : /\ block[b].version \in 0 .. MaxWrites
                       /\ block[b].hashing \in BOOLEAN
                       /\ block[b].hash = Nothing \/ (Contained(block[b].hash, Block) /\ Len(block[b].hash) = To(b) - From(b))
                       /\ Contained(block[b].head, Block)
  /\ followed \in 0 .. Size
  /\ refollow \in BOOLEAN /\ stopped \in BOOLEAN
  /\ follower.pc \in {"looking", "waiting", "reading", "hashing", "done", "joined"}
  /\ Contained(follower.prefix, Size)

Overwriting(a, b) == \E w \in Writers : writer[w].pc = "written" /\ writer[w].from < b /\ a < writer[w].to

(* A block's hash is of what the block holds, though it was put together from writes that raced, came *)
(* in any order or again with other bytes, and from reads in between; only until a write under way is *)
(* recorded may it be older (storage.rs: wrote, hash_read).                                           *)
HashIsOfBlock ==
  \A b \in Blocks : block[b].hash # Nothing /\ ~Overwriting(From(b), To(b)) => block[b].hash = Contents(From(b), To(b))

(* So is a head of the block's first bytes: what hashes on from it hashes the block. *)
HeadIsOfBlock ==
  \A b \in Blocks : ~Overwriting(From(b), From(b) + Len(block[b].head))
                      => block[b].head = Contents(From(b), From(b) + Len(block[b].head))

(* A block counts as being hashed only while a writer is at it, which will keep that hash or say that *)
(* there is none: otherwise the follower would leave it to the end for ever.                          *)
HashingIsUnderWay ==
  \A b \in Blocks : block[b].hashing =>
    \E w \in Writers : \E i \in DOMAIN writer[w].jobs :
      writer[w].jobs[i].block = b /\ writer[w].jobs[i].version = block[b].version

(* What the blocks are known by is right, whenever it is asked for. *)
BlocksAreKnown == HashIsOfBlock /\ HeadIsOfBlock /\ HashingIsUnderWay

(* The digest of a download that is done is of the file, by every algorithm, also after pieces were *)
(* written again and it was taken a second time: it condemns or clears what is on the disk.         *)
DigestIsOfFile ==
  digest # Nothing => /\ \A b \in Blocks : digest.blocks[b] = Contents(From(b), To(b))
                      /\ digest.extra = Contents(0, Size)

(* Once everything is written, the prefix hasher gets to the end of it, unless it is stopped or cannot *)
(* read, and a digest under way ends: no signal for it is lost (storage.rs: changed).                  *)
FollowsToTheEnd ==
  /\ written = Bytes ~> Len(follower.prefix) = Size \/ stopped \/ follower.pc = "done"
  /\ follower.digesting ~> ~follower.digesting
==============================================================================
