---------------------------- MODULE NameLockProofs ----------------------------
(***************************************************************************)
(* A claim on an output name excludes every other, for any number of       *)
(* claimers, files, attempts and crashes, with and without Windows'        *)
(* refusals; and it is what NameOwner promises. Then, of what is written   *)
(* under a claimed name: its hashes and its digest are of the file.        *)
(***************************************************************************)
EXTENDS NameLock, Integers, Sequences, FiniteSets, FiniteSetTheorems, SequenceTheorems, WellFoundedInduction, TLAPS

Inv == TypeOK /\ LockInv

(* Two holders have the lock of one file, the one at the path. *)
LEMMA OneHolder ==
  ASSUME LockInv
  PROVE  MutualExclusion
BY DEF LockInv, MutualExclusion, Holders

LEMMA InitInv == Init => Inv
BY LockAssumption DEF Init, Inv, TypeOK, LockInv, Holders, PC

(* The steps inside try_take keep the invariant. *)
LEMMA TryingInv ==
  ASSUME LockAssumption, Inv, NEW c \in Claimers,
         TryTake(c) \/ Open(c) \/ OpenDenied(c) \/ GiveUp(c)
  PROVE  Inv'
<1> USE DEF Inv, TypeOK, LockInv, Holders, PC, Goto
<1>1. CASE TryTake(c)
  BY <1>1, LockAssumption DEF TryTake, LockAssumption
<1>2. CASE Open(c)
  <2>1. PICK f \in IF at = NoFile THEN Unused ELSE {at} :
          at' = f /\ handle' = [handle EXCEPT ![c] = f]
    BY <1>2 DEF Open
  <2>2. f \in Files /\ (at # NoFile => f = at)
    BY DEF Unused
  <2>3. at # NoFile \/ Holders = {}
    BY LockAssumption DEF LockAssumption
  <2>4. c \notin locked
    BY <1>2 DEF Open
  <2>5. TypeOK'
    BY <1>2, <2>1, <2>2 DEF Open, LockAssumption
  <2>6. LockInv'
    BY <1>2, <2>1, <2>2, <2>3, <2>4 DEF Open
  <2> QED BY <2>5, <2>6
<1>3. CASE OpenDenied(c)
  BY <1>3, LockAssumption DEF OpenDenied, LockAssumption
<1>4. CASE GiveUp(c)
  BY <1>4 DEF GiveUp
<1> QED BY <1>1, <1>2, <1>3, <1>4

(* So do locking, being refused, and checking the path again. *)
LEMMA LockingInv ==
  ASSUME Inv, NEW c \in Claimers,
         TryLock(c) \/ WouldBlock(c) \/ Confirm(c) \/ Mislocked(c)
  PROVE  Inv'
<1> USE DEF Inv, TypeOK, LockInv, Holders, PC, Goto
<1>1. CASE TryLock(c)
  BY <1>1 DEF TryLock, Contended
<1>2. CASE WouldBlock(c)
  BY <1>2 DEF WouldBlock, Close
<1>3. CASE Confirm(c)
  BY <1>3 DEF Confirm, IsFileAt
<1>4. CASE Mislocked(c)
  BY <1>4 DEF Mislocked, Close
<1> QED BY <1>1, <1>2, <1>3, <1>4

(* And letting go, and dying at any point. The holder that deletes the file is the only one. *)
LEMMA DroppingInv ==
  ASSUME LockAssumption, Inv, NEW c \in Claimers, Unlink(c) \/ Unlock(c) \/ Crash(c)
  PROVE  Inv'
<1>0. MutualExclusion
  BY OneHolder DEF Inv
<1> USE DEF Inv, TypeOK, LockInv, Holders, PC, Goto
<1>1. CASE Unlink(c)
  BY <1>0, <1>1 DEF Unlink, MutualExclusion
<1>2. CASE Unlock(c)
  BY <1>2 DEF Unlock, Close
<1>3. CASE Crash(c)
  BY <1>3, LockAssumption DEF Crash, Close, LockAssumption
<1> QED BY <1>1, <1>2, <1>3

LEMMA NextInv == LockAssumption /\ Inv /\ [Next]_vars => Inv'
<1> SUFFICES ASSUME LockAssumption, Inv, [Next]_vars PROVE Inv'
  OBVIOUS
<1>1. CASE UNCHANGED vars
  BY <1>1 DEF vars, Inv, TypeOK, LockInv, Holders
<1>2. CASE Next
  <2>1. PICK c \in Claimers : GoOn(c) \/ TryTake(c) \/ OpenDenied(c) \/ Unlink(c) \/ Crash(c)
    BY <1>2 DEF Next
  <2>2. CASE TryTake(c) \/ Open(c) \/ OpenDenied(c) \/ GiveUp(c)
    BY <2>2, TryingInv
  <2>3. CASE TryLock(c) \/ WouldBlock(c) \/ Confirm(c) \/ Mislocked(c)
    BY <2>3, LockingInv
  <2>4. CASE Unlink(c) \/ Unlock(c) \/ Crash(c)
    BY <2>4, DroppingInv
  <2> QED BY <2>1, <2>2, <2>3, <2>4 DEF GoOn
<1> QED BY <1>1, <1>2

LEMMA Invariance == Spec => []Inv
BY InitInv, NextInv, LockAssumption, PTL DEF Spec

(* try_take, is_file_at and the drop of a Claim: every variable keeps its type. *)
THEOREM LockTypeCorrect == Spec => []TypeOK
BY Invariance, PTL DEF Inv

(* Who holds the claim has the lock of the file at the path of the name. *)
THEOREM AlwaysLockInv == Spec => []LockInv
BY Invariance, PTL DEF Inv

(* "Exclusive ownership of an output name for a whole download" (engine.rs:4835). *)
THEOREM AlwaysExclusive == Spec => []MutualExclusion
<1>1. Inv => MutualExclusion
  BY OneHolder DEF Inv
<1> QED BY <1>1, Invariance, PTL

-----------------------------------------------------------------------------
(* Confirming a lock makes an owner of a name nobody owned. *)
LEMMA ConfirmTakes ==
  ASSUME Inv, NEW c \in Claimers, Confirm(c)
  PROVE  Owner!Take
<1>1. Holders = {}
  BY DEF Inv, LockInv, Holders, Confirm, IsFileAt
<1>2. Holders' = {c}
  BY <1>1 DEF Inv, TypeOK, Holders, Confirm, Goto
<1> QED BY <1>1, <1>2 DEF Owner!Take

(* Deleting the lock file, or dying with the claim, leaves the name without an owner. *)
LEMMA HolderLeaves ==
  ASSUME Inv, NEW c \in Holders, Goto(c, "dropping") \/ Goto(c, "idle")
  PROVE  Owner!Leave
<1>1. \A d \in Holders : d = c
  BY OneHolder DEF Inv, MutualExclusion
<1>2. Holders' = {}
  BY <1>1 DEF Inv, TypeOK, Holders, Goto
<1> QED BY <1>2 DEF Owner!Leave

(* Every step maps to a step of the owner or leaves it alone. *)
LEMMA StepRefines == Inv /\ [Next]_vars => [Owner!Next]_Holders
<1> SUFFICES ASSUME Inv, [Next]_vars PROVE Owner!Next \/ UNCHANGED Holders
  OBVIOUS
<1>1. CASE UNCHANGED vars
  BY <1>1 DEF vars, Holders
<1>2. CASE Next
  <2>1. PICK c \in Claimers : GoOn(c) \/ TryTake(c) \/ OpenDenied(c) \/ Unlink(c) \/ Crash(c)
    BY <1>2 DEF Next
  <2>2. CASE Confirm(c)
    BY <2>2, ConfirmTakes DEF Owner!Next
  <2>3. CASE (Unlink(c) \/ Crash(c)) /\ c \in Holders
    BY <2>3, HolderLeaves DEF Owner!Next, Unlink, Crash
  <2>4. CASE Crash(c) /\ c \notin Holders
    BY <2>4 DEF Crash, Goto, Holders, Inv, TypeOK
  <2>5. CASE TryTake(c) \/ Open(c) \/ OpenDenied(c) \/ GiveUp(c)
    BY <2>5 DEF TryTake, Open, OpenDenied, GiveUp, Goto, Holders, Inv, TypeOK
  <2>6. CASE TryLock(c) \/ WouldBlock(c) \/ Mislocked(c) \/ Unlock(c)
    BY <2>6 DEF TryLock, WouldBlock, Mislocked, Unlock, Goto, Holders, Inv, TypeOK
  <2>7. Unlink(c) => c \in Holders
    BY DEF Unlink, Holders
  <2> QED BY <2>1, <2>2, <2>3, <2>4, <2>5, <2>6, <2>7 DEF GoOn
<1> QED BY <1>1, <1>2

(* A Claim is what NameOwner promises: taken only from nobody, and let go before it is taken. *)
THEOREM ClaimIsOwnership == Spec => ImplementsOwner
<1>1. Init => Owner!Init
  BY DEF Init, Owner!Init, Holders
<1> QED BY <1>1, StepRefines, Invariance, PTL DEF Spec, ImplementsOwner, Owner!Spec

-----------------------------------------------------------------------------
(***************************************************************************)
(* Hashing a file while it is written: the hash and the head of every      *)
(* block, what writers and the follower carry, and the digest, are of what *)
(* the disk holds, for any file, blocks, writers, values and writes.       *)
(*                                                                         *)
(* What follows is about values (a disk, the writers, the blocks), so that *)
(* it serves before and after a step alike.                                *)
(***************************************************************************)
CONSTANTS Size, Block, Step, Writers, Values, Hole, MaxWrites
VARIABLES disk, writer, writes, written, block, followed, refollow, stopped, follower, digest

D == INSTANCE DiskHashes

Datum == Values \cup {Hole}
Text == Seq(Datum)

(* A file has bytes, its blocks too, and a write holds something. *)
Sized ==
  /\ Size \in Nat \ {0} /\ Block \in Nat \ {0} /\ Step \in Nat
  /\ Values # {}

WritingPCs == {"idle", "writing", "written", "hashing", "keeping"}
FollowingPCs == {"looking", "waiting", "reading", "hashing", "done", "joined"}
JobSet == [block : D!Blocks, version : Nat, complete : BOOLEAN, head : Text]
WritingSet == [pc : WritingPCs, from : Nat, to : Nat, value : Datum, jobs : Seq(JobSet), hashed : Text]
BlockSet == [version : Nat, hash : Text, hashing : BOOLEAN, head : Text]
FollowingSet == [pc : FollowingPCs, prefix : Text, end : Nat, unhashed : SUBSET (D!Blocks \X Nat),
                 data : Text, digesting : BOOLEAN]
Disks == [D!Bytes -> Datum]
Writings == [Writers -> WritingSet]
BlockMaps == [D!Blocks -> BlockSet]

TypedHashes ==
  /\ disk \in Disks /\ writer \in Writings
  /\ written \subseteq D!Bytes /\ block \in BlockMaps /\ followed \in Nat /\ refollow \in BOOLEAN
  /\ follower \in FollowingSet

(* No write of bytes a up to c is on the disk but not yet recorded. *)
Quiet(W, a, c) == \A w \in Writers : W[w].pc = "written" => ~(W[w].from < c /\ a < W[w].to)

(* The text is what the disk holds from byte a on, unless a write to it is about to be recorded. *)
Right(d, W, text, a) == Quiet(W, a, a + Len(text)) => \A i \in 1 .. Len(text) : text[i] = d[a + i - 1]

(* What x, a writer, took a block out for: while nobody wrote to the block since, its head is right *)
(* up to x's bytes.                                                                                 *)
JobFits(d, W, B, x, j) ==
  /\ x.from < D!To(j.block) /\ D!From(j.block) < x.to
  /\ j.version <= B[j.block].version
  /\ j.version = B[j.block].version =>
       /\ B[j.block].hashing => j.complete
       /\ D!From(j.block) + Len(j.head) <= D!Most(x.from, D!From(j.block)) => Right(d, W, j.head, D!From(j.block))

(* What x is about to keep. *)
KeepFits(d, W, B, x) ==
  /\ x.jobs # <<>>
  /\ D!From(x.jobs[1].block) + Len(x.hashed) <= D!To(x.jobs[1].block)
  /\ x.jobs[1].version = B[x.jobs[1].block].version =>
       /\ x.jobs[1].complete => x.hashed = <<>> \/ D!From(x.jobs[1].block) + Len(x.hashed) = D!To(x.jobs[1].block)
       /\ Right(d, W, x.hashed, D!From(x.jobs[1].block))

WriterFits(d, W, B, x) ==
  /\ x.pc # "idle" => x.from < x.to /\ x.to <= Size
  /\ x.pc \in {"written", "hashing", "keeping"} => \A b \in x.from .. x.to - 1 : d[b] = x.value
  /\ x.pc \in {"idle", "writing", "written"} => x.jobs = <<>>
  /\ \A i \in DOMAIN x.jobs : JobFits(d, W, B, x, x.jobs[i])
  /\ x.pc = "keeping" => KeepFits(d, W, B, x)

(* Writes at once to one place are of the same bytes. *)
Agree(x, y) == x.pc # "idle" /\ y.pc # "idle" /\ x.from < y.to /\ y.from < x.to => x.value = y.value

UnderWay(W, B, b) ==
  B[b].hashing => \E w \in Writers : \E i \in DOMAIN W[w].jobs : W[w].jobs[i].block = b /\ W[w].jobs[i].version = B[b].version

BlockFits(d, W, B, b) ==
  /\ B[b].hash # <<>> => D!From(b) + Len(B[b].hash) = D!To(b) /\ Right(d, W, B[b].hash, D!From(b))
  /\ D!From(b) + Len(B[b].head) <= D!To(b) /\ Right(d, W, B[b].head, D!From(b))

(* The piece of what the follower f read that is block i's. *)
PieceOf(f, i) == SubSeq(f.data, D!From(i) - Len(f.prefix) + 1, D!To(i) - Len(f.prefix))

FollowerFits(d, W, B, f, fd, re) ==
  /\ Len(f.prefix) <= fd /\ fd <= Size
  /\ ~re => Right(d, W, f.prefix, 0)
  /\ f.pc \in {"reading", "hashing"} =>
       /\ f.end = fd
       /\ \A u \in f.unhashed : /\ Len(f.prefix) <= D!From(u[1]) /\ D!To(u[1]) <= f.end
                                /\ u[2] <= B[u[1]].version
  /\ f.pc = "hashing" =>
       /\ Len(f.prefix) + Len(f.data) = f.end
       /\ ~re => Right(d, W, f.data, Len(f.prefix))
       /\ \A u \in f.unhashed : u[2] = B[u[1]].version => Right(d, W, PieceOf(f, u[1]), D!From(u[1]))

(* Nobody writes while a digest is taken, nor since the last one was. *)
Digesting == follower.digesting \/ digest # <<>> => \A w \in Writers : writer[w].pc = "idle"

WritersFit == \A w \in Writers : WriterFits(disk, writer, block, writer[w])
Agreed == \A w, o \in Writers : Agree(writer[w], writer[o])
BlocksFit == \A b \in D!Blocks : BlockFits(disk, writer, block, b)
AreUnderWay == \A b \in D!Blocks : UnderWay(writer, block, b)
Following == FollowerFits(disk, writer, block, follower, followed, refollow)

HashesInv == TypedHashes /\ WritersFit /\ Agreed /\ BlocksFit /\ AreUnderWay /\ Following /\ Digesting /\ D!DigestIsOfFile

-----------------------------------------------------------------------------
(* Blocks: where they begin and end, which ones a write touches, and how far the prefix is written. *)

LEMMA Multiples ==
  ASSUME NEW m \in Nat, NEW n \in Nat, NEW k \in Nat \ {0}
  PROVE  /\ m * k \in Nat /\ n * k \in Nat
         /\ m <= n => m * k <= n * k
         /\ m < n => m * k + k <= n * k
OBVIOUS

LEMMA Quotients ==
  ASSUME NEW n \in Nat, NEW k \in Nat \ {0}
  PROVE  /\ n \div k \in Nat /\ n % k \in 0 .. k - 1
         /\ (n \div k) * k <= n /\ n < (n \div k) * k + k
         /\ n - (n % k) = (n \div k) * k
OBVIOUS

LEMMA BlockBounds ==
  ASSUME Sized, NEW b \in D!Blocks
  PROVE  /\ b \in Nat /\ D!From(b) \in Nat /\ D!To(b) \in Nat
         /\ D!From(b) < D!To(b) /\ D!To(b) <= Size
<1>1. Size \in Nat \ {0} /\ Block \in Nat \ {0} /\ Size - 1 \in Nat
  BY DEF Sized
<1>2. DEFINE q == (Size - 1) \div Block
<1>3. q \in Nat /\ q * Block <= Size - 1
  BY <1>1, Quotients
<1>4. b \in Nat /\ b <= q
  BY <1>3 DEF D!Blocks
<1>5. b * Block \in Nat /\ q * Block \in Nat /\ b * Block <= q * Block
  BY <1>1, <1>3, <1>4, Multiples
<1> HIDE DEF q
<1>6. D!From(b) \in Nat /\ D!From(b) < Size
  BY <1>1, <1>3, <1>5 DEF D!From
<1>7. D!To(b) \in Nat /\ D!From(b) < D!To(b) /\ D!To(b) <= Size
  BY <1>1, <1>6 DEF D!To, D!Least
<1> QED BY <1>4, <1>6, <1>7

LEMMA Within ==
  ASSUME Sized, NEW b \in Nat, NEW n \in 1 .. Size
  PROVE  b * Block < n <=> b <= (n - 1) \div Block
<1> DEFINE q == (n - 1) \div Block
<1>1. Block \in Nat \ {0} /\ n - 1 \in Nat /\ n \in Nat
  BY DEF Sized
<1>2. q \in Nat /\ q * Block <= n - 1 /\ n - 1 < q * Block + Block
  BY <1>1, Quotients
<1>3. b * Block \in Nat /\ q * Block \in Nat /\ (b <= q => b * Block <= q * Block) /\ (q < b => q * Block + Block <= b * Block)
  BY <1>1, <1>2, Multiples
<1> HIDE DEF q
<1>4. b * Block < n <=> b <= q
  BY <1>1, <1>2, <1>3
<1> QED BY <1>4 DEF q

(* What a write touches are the blocks from that of its first byte to that of its last. *)
LEMMA TouchedIs ==
  ASSUME Sized, NEW w, writer[w].from \in Nat, writer[w].to \in Nat, writer[w].from < writer[w].to, writer[w].to <= Size
  PROVE  /\ D!Touched(w) = (writer[w].from \div Block) .. ((writer[w].to - 1) \div Block)
         /\ writer[w].from \div Block \in Nat /\ (writer[w].to - 1) \div Block \in Nat
         /\ writer[w].from \div Block <= (writer[w].to - 1) \div Block
<1> PICK f \in Nat, t \in Nat : f = writer[w].from /\ t = writer[w].to
  OBVIOUS
<1> DEFINE lo == f \div Block
           hi == (t - 1) \div Block
<1>1. Size \in Nat \ {0} /\ Block \in Nat \ {0} /\ f < t /\ t <= Size /\ t - 1 \in Nat /\ Size - 1 \in Nat
  BY DEF Sized
<1>2. lo \in Nat /\ hi \in Nat /\ lo * Block <= f /\ f < lo * Block + Block
  BY <1>1, Quotients
<1>3. ASSUME NEW b \in Nat
      PROVE  /\ D!From(b) < t <=> b <= hi
             /\ f < D!From(b) + Block <=> lo <= b
             /\ b <= hi => b \in D!Blocks
  <2>1. b * Block \in Nat /\ lo * Block \in Nat
        /\ (b < lo => b * Block + Block <= lo * Block) /\ (lo <= b => lo * Block <= b * Block)
    BY <1>1, <1>2, Multiples
  <2>2. D!From(b) < t <=> b <= hi
    BY <1>1, Within DEF D!From
  <2>3. b * Block < Size <=> b <= (Size - 1) \div Block
    BY <1>1, Within
  <2> HIDE DEF lo, hi
  <2>4. f < D!From(b) + Block <=> lo <= b
    BY <1>1, <1>2, <2>1 DEF D!From
  <2>5. b <= hi => b * Block < Size
    BY <1>1, <2>1, <2>2 DEF D!From
  <2>6. b <= hi => b \in D!Blocks
    <3> DEFINE q == (Size - 1) \div Block
    <3>1. q \in Nat
      BY <1>1, Quotients
    <3>2. b <= hi => b <= q
      BY <2>3, <2>5
    <3> HIDE DEF q
    <3>3. b <= hi => b \in 0 .. q
      BY <3>1, <3>2
    <3> QED BY <3>3 DEF q, D!Blocks
  <2> QED BY <2>2, <2>4, <2>6
<1>4. lo <= hi
  <2>1. D!From(lo) < t
    BY <1>1, <1>2, Multiples DEF D!From
  <2> QED BY <2>1, <1>2, <1>3
<1> HIDE DEF lo, hi
<1>5. ASSUME NEW b \in D!Blocks
      PROVE  f < D!To(b) <=> lo <= b
  <2>1. b \in Nat /\ D!From(b) \in Nat
    BY BlockBounds
  <2> QED BY <2>1, <1>1, <1>3 DEF D!To, D!Least
<1>6. \A b : b \in D!Touched(w) <=> b \in lo .. hi
  <2>1. \A b : b \in D!Touched(w) <=> b \in D!Blocks /\ D!From(b) < t /\ f < D!To(b)
    BY DEF D!Touched
  <2>2. \A b \in D!Blocks : b \in Nat
    BY BlockBounds
  <2> QED BY <2>1, <2>2, <1>2, <1>3, <1>5
<1>7. D!Touched(w) = lo .. hi
  BY <1>6
<1> QED BY <1>2, <1>4, <1>7 DEF lo, hi

LEMMA CountsAlike == ASSUME NEW S PROVE D!Cardinality(S) = Cardinality(S)
BY DEF D!Cardinality, Cardinality

(* A write has a job for each block it touches. *)
LEMMA JobsAreTouched ==
  ASSUME Sized, NEW w, writer[w].from \in Nat, writer[w].to \in Nat, writer[w].from < writer[w].to, writer[w].to <= Size
  PROVE  /\ D!Cardinality(D!Touched(w)) \in Nat
         /\ \A i \in 1 .. D!Cardinality(D!Touched(w)) : (writer[w].from \div Block) + i - 1 \in D!Touched(w)
         /\ \A b \in D!Touched(w) : \E i \in 1 .. D!Cardinality(D!Touched(w)) : b = (writer[w].from \div Block) + i - 1
<1> DEFINE lo == writer[w].from \div Block
           hi == (writer[w].to - 1) \div Block
<1>1. D!Touched(w) = lo .. hi /\ lo \in Nat /\ hi \in Nat /\ lo <= hi
  BY TouchedIs
<1> HIDE DEF lo, hi
<1>2. Cardinality(lo .. hi) = hi - lo + 1
  BY <1>1, FS_Interval
<1>3. D!Cardinality(D!Touched(w)) = hi - lo + 1
  BY <1>1, <1>2, CountsAlike
<1>4. \A i \in 1 .. hi - lo + 1 : lo + i - 1 \in lo .. hi
  BY <1>1
<1>5. \A b \in lo .. hi : b - lo + 1 \in 1 .. hi - lo + 1 /\ b = lo + (b - lo + 1) - 1
  BY <1>1
<1> PICK n \in Nat : n = D!Cardinality(D!Touched(w)) /\ n = hi - lo + 1
  BY <1>1, <1>3
<1>6. \A i \in 1 .. n : lo + i - 1 \in D!Touched(w)
  BY <1>1, <1>4
<1>7. \A b \in D!Touched(w) : \E i \in 1 .. n : b = lo + i - 1
  BY <1>1, <1>5
<1> QED BY <1>6, <1>7 DEF lo

(* There is an end to the written prefix. *)
LEMMA PrefixEnds ==
  ASSUME Sized, NEW set, set \subseteq D!Bytes
  PROVE  D!Prefix(set) \in 0 .. Size
<1>1. Size \in Nat
  BY DEF Sized
<1> DEFINE R == {ss \in Nat \X Nat : ss[1] < ss[2]}
           T == {n \in Nat : n \notin set}
<1>2. IsWellFoundedOn(R, Nat)
  <2>1. R = OpToRel(<, Nat)
    BY Zenon DEF OpToRel
  <2> QED BY NatLessThanWellFounded, <2>1, Zenon
<1>3. Size \in T
  BY <1>1 DEF D!Bytes
<1>4. PICK n \in T : \A y \in T : ~(<<y, n>> \in R)
  <2>1. T \subseteq Nat /\ T # {}
    BY <1>3
  <2> HIDE DEF R, T
  <2> QED BY <1>2, <2>1, WFMin
<1>5. n \in Nat /\ n \notin set /\ \A y \in Nat : y < n => y \in set
  BY <1>4
<1>6. n <= Size
  BY <1>1, <1>3, <1>5
<1>7. \E m \in 0 .. Size : 0 .. m - 1 \subseteq set /\ m \notin set
  BY <1>1, <1>5, <1>6
<1>8. D!Prefix(set) = CHOOSE m \in 0 .. Size : 0 .. m - 1 \subseteq set /\ m \notin set
  BY DEF D!Prefix
<1> QED BY <1>7, <1>8

(* The follower goes on up to the end of the file or of a block. *)
LEMMA FollowEnds ==
  ASSUME Sized, written \subseteq D!Bytes, Len(follower.prefix) \in Nat
  PROVE  /\ D!FollowEnd \in Nat /\ D!FollowEnd <= Size
         /\ \A b \in D!Blocks : D!From(b) < D!FollowEnd => D!To(b) <= D!FollowEnd
<1>1. Size \in Nat /\ Block \in Nat \ {0} /\ Step \in Nat
  BY DEF Sized
<1>2. PICK p \in 0 .. Size : p = D!Prefix(written)
  BY PrefixEnds
<1>3. PICK n \in Nat : n = D!Least(p, Len(follower.prefix) + Step) /\ n <= Size
  BY <1>1, <1>2 DEF D!Least
<1>4. D!FollowEnd = IF n < Size THEN n - (n % Block) ELSE n
  BY <1>2, <1>3 DEF D!FollowEnd
<1>5. CASE n < Size
  <2> DEFINE q == n \div Block
  <2>1. q \in Nat /\ q * Block \in Nat /\ q * Block <= n /\ n - (n % Block) = q * Block
    BY <1>1, Quotients, Multiples
  <2>2. D!FollowEnd = q * Block
    BY <1>4, <1>5, <2>1
  <2> HIDE DEF q
  <2>3. ASSUME NEW b \in D!Blocks, D!From(b) < q * Block
        PROVE  D!To(b) <= q * Block
    <3>1. b \in Nat /\ b * Block \in Nat
      BY BlockBounds, <1>1, Multiples
    <3>2. q <= b => q * Block <= b * Block
      BY <1>1, <2>1, <3>1, Multiples
    <3>3. b < q => b * Block + Block <= q * Block
      BY <1>1, <2>1, <3>1, Multiples
    <3>4. b * Block + Block <= q * Block
      BY <1>1, <2>1, <2>3, <3>1, <3>2, <3>3 DEF D!From
    <3> QED BY <1>1, <2>1, <3>1, <3>4 DEF D!To, D!From, D!Least
  <2> QED BY <1>1, <1>3, <1>5, <2>1, <2>2, <2>3
<1>6. CASE ~(n < Size)
  BY <1>1, <1>3, <1>4, <1>6, BlockBounds
<1> QED BY <1>5, <1>6

-----------------------------------------------------------------------------
(* What is right stays so, and right pieces make a right whole. *)

LEMMA QuietWithin ==
  ASSUME NEW W \in Writings, NEW a \in Nat, NEW c \in Nat, NEW a2 \in Nat, NEW c2 \in Nat,
         Quiet(W, a, c), a <= a2, c2 <= c
  PROVE  Quiet(W, a2, c2)
<1>1. \A w \in Writers : W[w].from \in Nat /\ W[w].to \in Nat
  BY DEF Writings, WritingSet
<1> QED BY <1>1 DEF Quiet

(* From d and the writers W to e and V: bytes a up to c stay, and no write to them is recorded. *)
Stays(d, W, e, V, a, c) == Quiet(V, a, c) => Quiet(W, a, c) /\ \A i \in a .. c - 1 : e[i] = d[i]

LEMMA TextIs ==
  ASSUME NEW t \in Text
  PROVE  Len(t) \in Nat /\ DOMAIN t = 1 .. Len(t) /\ \A i \in 1 .. Len(t) : t[i] \in Datum
BY DEF Text

LEMMA RightStays ==
  ASSUME NEW d, NEW W, NEW e, NEW V, NEW t \in Text, NEW a \in Nat,
         Right(d, W, t, a), Stays(d, W, e, V, a, a + Len(t))
  PROVE  Right(e, V, t, a)
<1>1. PICK n \in Nat : n = Len(t)
  BY TextIs
<1>2. \A i \in 1 .. n : a + i - 1 \in a .. a + n - 1
  BY <1>1
<1> QED BY <1>1, <1>2 DEF Right, Stays

(* A text of no bytes is right anywhere. *)
LEMMA NothingIsRight ==
  ASSUME NEW d, NEW W, NEW a
  PROVE  Right(d, W, <<>>, a) /\ <<>> \in Text /\ Len(<<>>) = 0
BY DEF Right, Text

LEMMA RightWhole ==
  ASSUME NEW d, NEW W \in Writings, NEW t \in Text, NEW u \in Text, NEW a \in Nat,
         Right(d, W, t, a), Right(d, W, u, a + Len(t))
  PROVE  t \o u \in Text /\ Len(t \o u) = Len(t) + Len(u) /\ Right(d, W, t \o u, a)
<1>1. PICK m \in Nat, n \in Nat : m = Len(t) /\ n = Len(u)
  BY TextIs
<1>2. /\ t \o u \in Text /\ Len(t \o u) = m + n
      /\ \A i \in 1 .. m + n : (t \o u)[i] = IF i <= m THEN t[i] ELSE u[i - m]
  BY <1>1, ConcatProperties DEF Text
<1>3. ASSUME Quiet(W, a, a + (m + n)), NEW i \in 1 .. m + n
      PROVE  (t \o u)[i] = d[a + i - 1]
  <2>1. Quiet(W, a, a + m) /\ Quiet(W, a + m, (a + m) + n)
    BY <1>1, <1>3, QuietWithin
  <2>2. CASE i <= m
    BY <1>1, <1>2, <2>1, <2>2 DEF Right
  <2>3. CASE ~(i <= m)
    <3>1. i - m \in 1 .. n /\ (a + m) + (i - m) - 1 = a + i - 1
      BY <1>1, <2>3
    <3>2. u[i - m] = d[(a + m) + (i - m) - 1]
      BY <1>1, <2>1, <3>1 DEF Right
    <3> QED BY <1>2, <2>3, <3>1, <3>2
  <2> QED BY <2>2, <2>3
<1> QED BY <1>1, <1>2, <1>3 DEF Right

(* What d holds from byte a up to c. *)
ReadOf(d, a, c) == [i \in 1 .. c - a |-> d[a + i - 1]]

LEMMA ContentsRead == \A a, c : D!Contents(a, c) = ReadOf(disk, a, c)
BY DEF D!Contents, ReadOf

(* What is read from the disk is right. *)
LEMMA ReadIsRight ==
  ASSUME Sized, NEW d \in Disks, NEW W, NEW a \in Nat, NEW c \in Nat, a <= c, c <= Size,
         NEW t, t = ReadOf(d, a, c)
  PROVE  t \in Text /\ Len(t) = c - a /\ Right(d, W, t, a)
<1>1. Size \in Nat /\ c - a \in Nat
  BY DEF Sized
<1>2. \A i \in 1 .. c - a : d[a + i - 1] \in Datum
  BY <1>1 DEF Disks, D!Bytes
<1>3. t \in Text /\ Len(t) = c - a
  BY <1>1, <1>2, IsASeq DEF Text, ReadOf
<1> QED BY <1>1, <1>3 DEF Right, ReadOf

(* A piece of a text that begins at byte a, from byte m up to n. *)
LEMMA PieceIs ==
  ASSUME NEW t \in Text, NEW a \in Nat, NEW m \in Nat, NEW n \in Nat, a <= m, m < n, n <= a + Len(t)
  PROVE  /\ SubSeq(t, m - a + 1, n - a) \in Text
         /\ Len(SubSeq(t, m - a + 1, n - a)) = n - m
         /\ \A i \in 1 .. n - m : m - a + i \in 1 .. Len(t) /\ SubSeq(t, m - a + 1, n - a)[i] = t[m - a + i]
<1>1. PICK k \in Nat : k = Len(t)
  BY TextIs
<1>2. PICK p \in 1 .. k, q \in 1 .. k : p = m - a + 1 /\ q = n - a /\ p <= q
  BY <1>1
<1> DEFINE s == SubSeq(t, p, q)
<1>3. s \in Text /\ Len(s) = q - p + 1 /\ \A i \in 1 .. q - p + 1 : s[i] = t[p + i - 1]
  <2>1. t \in Seq(Datum) /\ p \in 1 .. Len(t) + 1 /\ q \in p - 1 .. Len(t)
    BY <1>1, <1>2 DEF Text
  <2>2. s \in Seq(Datum) /\ Len(s) = IF p <= q THEN q - p + 1 ELSE 0
    BY <2>1, SubSeqProperties
  <2>3. \A i \in 1 .. q - p + 1 : s[i] = t[p + i - 1]
    BY <2>1, SubSeqProperties
  <2> QED BY <1>2, <2>2, <2>3 DEF Text
<1> HIDE DEF s
<1>4. q - p + 1 = n - m /\ \A i \in 1 .. n - m : p + i - 1 = m - a + i /\ m - a + i \in 1 .. k
  BY <1>1, <1>2
<1>5. \A i \in 1 .. n - m : s[i] = t[m - a + i]
  BY <1>3, <1>4
<1> QED BY <1>1, <1>2, <1>3, <1>4, <1>5 DEF s

LEMMA RightPiece ==
  ASSUME NEW d, NEW W, NEW t \in Text, NEW a \in Nat, \A i \in 1 .. Len(t) : t[i] = d[a + i - 1],
         NEW m \in Nat, NEW n \in Nat, a <= m, m < n, n <= a + Len(t)
  PROVE  Right(d, W, SubSeq(t, m - a + 1, n - a), m)
<1> DEFINE s == SubSeq(t, m - a + 1, n - a)
<1>1. Len(s) = n - m /\ \A i \in 1 .. n - m : m - a + i \in 1 .. Len(t) /\ s[i] = t[m - a + i]
  BY PieceIs
<1>2. \A i \in 1 .. n - m : a + (m - a + i) - 1 = m + i - 1
  OBVIOUS
<1> HIDE DEF s
<1> QED BY <1>1, <1>2 DEF Right, s

-----------------------------------------------------------------------------
(* A step passes a block by, or outdates what was taken out of it. *)
Passes(d, W, B, e, V, C, b) ==
  \/ B[b].version < C[b].version
  \/ /\ C[b].version = B[b].version
     /\ C[b].hashing => B[b].hashing
     /\ \A a, c \in Nat : D!From(b) <= a /\ c <= D!To(b) => Stays(d, W, e, V, a, c)

LEMMA JobStays ==
  ASSUME Sized, NEW B \in BlockMaps, NEW C \in BlockMaps, NEW d, NEW W, NEW e, NEW V,
         NEW x \in WritingSet, NEW j \in JobSet, JobFits(d, W, B, x, j), Passes(d, W, B, e, V, C, j.block)
  PROVE  JobFits(e, V, C, x, j)
<1> PICK b \in D!Blocks : b = j.block
  BY DEF JobSet
<1> PICK t \in Text, v \in Nat : t = j.head /\ v = j.version
  BY DEF JobSet
<1>1. /\ D!From(b) \in Nat /\ D!To(b) \in Nat /\ D!From(b) < D!To(b)
      /\ x.from \in Nat /\ Len(t) \in Nat /\ B[b].version \in Nat /\ C[b].version \in Nat
  BY BlockBounds, TextIs DEF WritingSet, BlockMaps, BlockSet
<1>2. x.from < D!To(b) /\ D!From(b) < x.to /\ v <= B[b].version
  BY DEF JobFits
<1>3. CASE B[b].version < C[b].version
  <2>1. v < C[b].version /\ v # C[b].version
    BY <1>1, <1>2, <1>3
  <2> QED BY <1>1, <1>2, <2>1 DEF JobFits
<1>4. CASE /\ C[b].version = B[b].version
           /\ C[b].hashing => B[b].hashing
           /\ \A a, c \in Nat : D!From(b) <= a /\ c <= D!To(b) => Stays(d, W, e, V, a, c)
  <2>1. ASSUME v = C[b].version
        PROVE  /\ C[b].hashing => j.complete
               /\ D!From(b) + Len(t) <= D!Most(x.from, D!From(b)) => Right(e, V, t, D!From(b))
    <3>1. /\ B[b].hashing => j.complete
          /\ D!From(b) + Len(t) <= D!Most(x.from, D!From(b)) => Right(d, W, t, D!From(b))
      BY <1>4, <2>1 DEF JobFits
    <3>2. ASSUME D!From(b) + Len(t) <= D!Most(x.from, D!From(b))
          PROVE  Right(e, V, t, D!From(b))
      <4>1. D!From(b) + Len(t) <= D!To(b) /\ D!From(b) + Len(t) \in Nat
        BY <1>1, <1>2, <3>2 DEF D!Most
      <4>2. Stays(d, W, e, V, D!From(b), D!From(b) + Len(t))
        BY <1>1, <1>4, <4>1
      <4> QED BY <1>1, <3>1, <3>2, <4>2, RightStays
    <3> QED BY <1>4, <3>1, <3>2
  <2> QED BY <1>2, <1>4, <2>1 DEF JobFits
<1> QED BY <1>3, <1>4 DEF Passes

LEMMA KeepStays ==
  ASSUME Sized, NEW B \in BlockMaps, NEW C \in BlockMaps, NEW d, NEW W, NEW e, NEW V,
         NEW x \in WritingSet, KeepFits(d, W, B, x),
         x.jobs[1].version <= B[x.jobs[1].block].version, Passes(d, W, B, e, V, C, x.jobs[1].block)
  PROVE  KeepFits(e, V, C, x)
<1>1. x.jobs # <<>> /\ x.jobs \in Seq(JobSet) /\ x.hashed \in Text
  BY DEF KeepFits, WritingSet
<1>2. PICK j \in JobSet : j = x.jobs[1]
  BY <1>1
<1> PICK b \in D!Blocks : b = j.block
  BY DEF JobSet
<1>3. PICK t \in Text : t = x.hashed
  BY <1>1
<1>4. /\ D!From(b) \in Nat /\ D!To(b) \in Nat /\ Len(t) \in Nat /\ j.version \in Nat
      /\ B[b].version \in Nat /\ C[b].version \in Nat
  BY BlockBounds, TextIs DEF JobSet, BlockMaps, BlockSet
<1>5. /\ D!From(b) + Len(t) <= D!To(b)
      /\ j.version = B[b].version =>
           /\ j.complete => t = <<>> \/ D!From(b) + Len(t) = D!To(b)
           /\ Right(d, W, t, D!From(b))
  BY <1>2, <1>3 DEF KeepFits
<1>6. ASSUME j.version = C[b].version
      PROVE  /\ j.complete => t = <<>> \/ D!From(b) + Len(t) = D!To(b)
             /\ Right(e, V, t, D!From(b))
  <2>1. /\ C[b].version = B[b].version
        /\ \A a, c \in Nat : D!From(b) <= a /\ c <= D!To(b) => Stays(d, W, e, V, a, c)
    <3>1. ~(B[b].version < C[b].version)
      BY <1>2, <1>4, <1>6
    <3> QED BY <1>2, <3>1 DEF Passes
  <2>2. Stays(d, W, e, V, D!From(b), D!From(b) + Len(t))
    <3>1. D!From(b) + Len(t) \in Nat
      BY <1>4
    <3> QED BY <1>4, <1>5, <2>1, <3>1
  <2> QED BY <1>4, <1>5, <1>6, <2>1, <2>2, RightStays
<1> QED BY <1>1, <1>2, <1>3, <1>5, <1>6 DEF KeepFits

(* A writer that does nothing itself still fits. *)
LEMMA WriterStays ==
  ASSUME Sized, NEW B \in BlockMaps, NEW C \in BlockMaps, NEW d, NEW W, NEW e, NEW V,
         NEW x \in WritingSet, WriterFits(d, W, B, x),
         x.pc \in {"written", "hashing", "keeping"} => \A b \in x.from .. x.to - 1 : e[b] = x.value,
         \A b \in D!Blocks : Passes(d, W, B, e, V, C, b)
  PROVE  WriterFits(e, V, C, x)
<1>1. x.jobs \in Seq(JobSet) /\ \A i \in DOMAIN x.jobs : x.jobs[i] \in JobSet /\ x.jobs[i].block \in D!Blocks
  <2>1. x.jobs \in Seq(JobSet)
    BY DEF WritingSet
  <2>2. \A i \in DOMAIN x.jobs : x.jobs[i] \in JobSet
    BY <2>1
  <2>3. \A j \in JobSet : j.block \in D!Blocks
    BY DEF JobSet
  <2> QED BY <2>1, <2>2, <2>3
<1>2. \A i \in DOMAIN x.jobs : JobFits(d, W, B, x, x.jobs[i])
  BY DEF WriterFits
<1>3. \A i \in DOMAIN x.jobs : JobFits(e, V, C, x, x.jobs[i])
  BY <1>1, <1>2, JobStays
<1>4. ASSUME x.pc = "keeping"
      PROVE  KeepFits(e, V, C, x)
  <2>1. KeepFits(d, W, B, x) /\ x.jobs # <<>>
    BY <1>4 DEF WriterFits, KeepFits
  <2>2. 1 \in DOMAIN x.jobs
    BY <1>1, <2>1
  <2>3. x.jobs[1].version <= B[x.jobs[1].block].version
    BY <1>2, <2>2 DEF JobFits
  <2> QED BY <1>1, <2>1, <2>2, <2>3, KeepStays
<1> QED BY <1>3, <1>4 DEF WriterFits

LEMMA BlockStays ==
  ASSUME Sized, NEW B \in BlockMaps, NEW C, NEW d, NEW W, NEW e, NEW V,
         NEW b \in D!Blocks, BlockFits(d, W, B, b), C[b].hash = B[b].hash, C[b].head = B[b].head,
         \A a, c \in Nat : D!From(b) <= a /\ c <= D!To(b) => Stays(d, W, e, V, a, c)
  PROVE  BlockFits(e, V, C, b)
<1>1. PICK h \in Text, t \in Text : h = B[b].hash /\ t = B[b].head
  BY DEF BlockMaps, BlockSet
<1>2. D!From(b) \in Nat /\ D!To(b) \in Nat /\ Len(h) \in Nat /\ Len(t) \in Nat
  BY BlockBounds, TextIs
<1>3. ASSUME NEW u \in Text, Len(u) \in Nat, D!From(b) + Len(u) <= D!To(b), Right(d, W, u, D!From(b))
      PROVE  Right(e, V, u, D!From(b))
  <2>1. D!From(b) + Len(u) \in Nat
    BY <1>2, <1>3
  <2>2. Stays(d, W, e, V, D!From(b), D!From(b) + Len(u))
    BY <1>2, <1>3, <2>1
  <2> QED BY <1>2, <1>3, <2>2, RightStays
<1>4. D!From(b) + Len(t) <= D!To(b) /\ Right(e, V, t, D!From(b))
  BY <1>1, <1>2, <1>3 DEF BlockFits
<1>5. h # <<>> => D!From(b) + Len(h) = D!To(b) /\ Right(e, V, h, D!From(b))
  <2>1. h # <<>> => D!From(b) + Len(h) = D!To(b) /\ Right(d, W, h, D!From(b))
    BY <1>1 DEF BlockFits
  <2>2. D!From(b) + Len(h) = D!To(b) => D!From(b) + Len(h) <= D!To(b)
    BY <1>2
  <2> QED BY <1>2, <1>3, <2>1, <2>2
<1> QED BY <1>1, <1>4, <1>5 DEF BlockFits

LEMMA PieceLength ==
  ASSUME Sized, NEW f \in FollowingSet, NEW b \in D!Blocks,
         Len(f.prefix) <= D!From(b), D!To(b) <= Len(f.prefix) + Len(f.data)
  PROVE  PieceOf(f, b) \in Text /\ D!From(b) + Len(PieceOf(f, b)) = D!To(b)
<1>1. PICK t \in Text, p \in Nat, m \in Nat, n \in Nat :
        t = f.data /\ p = Len(f.prefix) /\ m = D!From(b) /\ n = D!To(b) /\ m < n
  BY BlockBounds, TextIs DEF FollowingSet
<1>2. p <= m /\ m < n /\ n <= p + Len(t)
  BY <1>1
<1>3. SubSeq(t, m - p + 1, n - p) \in Text /\ Len(SubSeq(t, m - p + 1, n - p)) = n - m
  BY <1>2, PieceIs
<1>4. PieceOf(f, b) = SubSeq(t, m - p + 1, n - p)
  BY <1>1 DEF PieceOf
<1>5. PieceOf(f, b) \in Text /\ Len(PieceOf(f, b)) = n - m
  BY <1>3, <1>4, Zenon
<1>6. m + Len(PieceOf(f, b)) = n
  BY <1>5
<1> QED BY <1>1, <1>5, <1>6

(* So does a follower that does nothing itself. *)
LEMMA FollowerStays ==
  ASSUME Sized, NEW B \in BlockMaps, NEW C \in BlockMaps, NEW d, NEW W, NEW e, NEW V, NEW f \in FollowingSet,
         NEW fd \in Nat, NEW re, NEW se, FollowerFits(d, W, B, f, fd, re),
         \A b \in D!Blocks : Passes(d, W, B, e, V, C, b),
         ~se => ~re /\ \A a, c \in Nat : c <= fd => Stays(d, W, e, V, a, c)
  PROVE  FollowerFits(e, V, C, f, fd, se)
<1>1. PICK t \in Text, u \in Text, E \in Nat : t = f.prefix /\ u = f.data /\ E = f.end
  BY DEF FollowingSet
<1>2. Len(t) \in Nat /\ Len(u) \in Nat
  BY TextIs
<1>3. \A v \in f.unhashed : v[1] \in D!Blocks /\ v[2] \in Nat
  BY DEF FollowingSet
<1>4. \A b \in D!Blocks : /\ D!From(b) \in Nat /\ D!To(b) \in Nat /\ D!From(b) < D!To(b)
                          /\ B[b].version \in Nat /\ C[b].version \in Nat
  BY BlockBounds DEF BlockMaps, BlockSet
<1>5. Len(t) <= fd /\ fd <= Size
  BY <1>1 DEF FollowerFits
<1>6. ~se => Right(e, V, t, 0)
  <2>1. ~se => Right(d, W, t, 0) /\ Stays(d, W, e, V, 0, 0 + Len(t))
    BY <1>1, <1>2, <1>5 DEF FollowerFits
  <2> QED BY <2>1, RightStays
<1>7. ASSUME f.pc \in {"reading", "hashing"}
      PROVE  /\ E = fd
             /\ \A v \in f.unhashed : Len(t) <= D!From(v[1]) /\ D!To(v[1]) <= E /\ v[2] <= C[v[1]].version
  <2>1. /\ E = fd
        /\ \A v \in f.unhashed : Len(t) <= D!From(v[1]) /\ D!To(v[1]) <= E /\ v[2] <= B[v[1]].version
    BY <1>1, <1>7 DEF FollowerFits
  <2>2. \A b \in D!Blocks : B[b].version <= C[b].version
    BY <1>4 DEF Passes
  <2> QED BY <1>3, <1>4, <2>1, <2>2
<1>8. ASSUME f.pc = "hashing"
      PROVE  /\ Len(t) + Len(u) = E
             /\ ~se => Right(e, V, u, Len(t))
             /\ \A v \in f.unhashed : v[2] = C[v[1]].version => Right(e, V, PieceOf(f, v[1]), D!From(v[1]))
  <2>1. /\ Len(t) + Len(u) = E /\ E = fd
        /\ ~re => Right(d, W, u, Len(t))
        /\ \A v \in f.unhashed : v[2] = B[v[1]].version => Right(d, W, PieceOf(f, v[1]), D!From(v[1]))
    BY <1>1, <1>8 DEF FollowerFits
  <2>2. ~se => Right(e, V, u, Len(t))
    <3>1. Len(t) + Len(u) \in Nat /\ Len(t) + Len(u) <= fd
      BY <1>2, <2>1
    <3>2. ~se => Right(d, W, u, Len(t)) /\ Stays(d, W, e, V, Len(t), Len(t) + Len(u))
      BY <1>2, <2>1, <3>1
    <3> QED BY <1>2, <3>2, RightStays
  <2>3. ASSUME NEW v \in f.unhashed, v[2] = C[v[1]].version
        PROVE  Right(e, V, PieceOf(f, v[1]), D!From(v[1]))
    <3> PICK b \in D!Blocks : b = v[1]
      BY <1>3
    <3>1. v[2] <= B[b].version /\ Len(t) <= D!From(b) /\ D!To(b) <= E
      BY <1>1, <1>8 DEF FollowerFits
    <3>2. ~(B[b].version < C[b].version)
      BY <1>3, <1>4, <2>3, <3>1
    <3>3. /\ C[b].version = B[b].version
          /\ \A a, c \in Nat : D!From(b) <= a /\ c <= D!To(b) => Stays(d, W, e, V, a, c)
      BY <3>2 DEF Passes
    <3>4. PICK s \in Text : s = PieceOf(f, b) /\ D!From(b) + Len(s) = D!To(b)
      <4>1. D!To(b) <= Len(t) + Len(u)
        BY <1>1, <2>1, <3>1
      <4> QED BY <1>1, <3>1, <4>1, PieceLength
    <3>5. Right(d, W, s, D!From(b))
      BY <2>1, <2>3, <3>3, <3>4
    <3>6. Stays(d, W, e, V, D!From(b), D!From(b) + Len(s))
      BY <1>4, <3>3, <3>4
    <3>7. Right(e, V, s, D!From(b))
      BY <1>4, <3>5, <3>6, RightStays
    <3> QED BY <3>4, <3>7
  <2> QED BY <2>1, <2>2, <2>3
<1> QED BY <1>1, <1>5, <1>6, <1>7, <1>8 DEF FollowerFits

-----------------------------------------------------------------------------
(* One step of each kind. *)

(* The disk stays, and what waits to be recorded waits on. *)
LEMMA Unmoved ==
  ASSUME NEW d, NEW W, NEW V,
         \A w \in Writers : W[w].pc = "written" => V[w].pc = "written" /\ V[w].from = W[w].from /\ V[w].to = W[w].to,
         NEW a, NEW c
  PROVE  Stays(d, W, d, V, a, c)
BY DEF Stays, Quiet

LEMMA PassedBy ==
  ASSUME NEW d, NEW W, NEW V, NEW B, NEW b,
         \A w \in Writers : W[w].pc = "written" => V[w].pc = "written" /\ V[w].from = W[w].from /\ V[w].to = W[w].to
  PROVE  Passes(d, W, B, d, V, B, b)
BY Unmoved DEF Passes

(* A step of one writer that neither writes nor records. *)
LEMMA OneWriter ==
  ASSUME Sized, HashesInv, writer' \in Writings, UNCHANGED <<disk, block, follower, followed, refollow>>,
         NEW w \in Writers, \A o \in Writers : o # w => writer'[o] = writer[o],
         writer[w].pc # "written", WriterFits(disk, writer', block, writer'[w])
  PROVE  WritersFit' /\ BlocksFit' /\ Following'
<1> USE DEF HashesInv
<1>1. \A o \in Writers : writer[o].pc = "written" =>
        writer'[o].pc = "written" /\ writer'[o].from = writer[o].from /\ writer'[o].to = writer[o].to
  OBVIOUS
<1>2. /\ \A a, c \in Nat : Stays(disk, writer, disk, writer', a, c)
      /\ \A b \in D!Blocks : Passes(disk, writer, block, disk, writer', block, b)
  BY <1>1, Unmoved, PassedBy
<1>3. block \in BlockMaps /\ follower \in FollowingSet /\ followed \in Nat /\ \A o \in Writers : writer[o] \in WritingSet
  BY DEF TypedHashes, Writings
<1>4. ASSUME NEW o \in Writers
      PROVE  WriterFits(disk', writer', block', writer'[o])
  <2>1. CASE o = w
    BY <2>1
  <2>2. CASE o # w
    <3> PICK x \in WritingSet : x = writer[o]
      BY <1>3
    <3>1. WriterFits(disk, writer, block, x)
      BY DEF WritersFit
    <3>2. x.pc \in {"written", "hashing", "keeping"} => \A b \in x.from .. x.to - 1 : disk[b] = x.value
      BY <3>1 DEF WriterFits
    <3>3. WriterFits(disk, writer', block, x)
      BY <1>2, <1>3, <3>1, <3>2, WriterStays
    <3> QED BY <2>2, <3>3
  <2> QED BY <2>1, <2>2
<1>5. ASSUME NEW b \in D!Blocks
      PROVE  BlockFits(disk', writer', block', b)
  <2>1. BlockFits(disk, writer, block, b)
    BY DEF BlocksFit
  <2>2. BlockFits(disk, writer', block, b)
    BY <1>2, <1>3, <2>1, BlockStays
  <2> QED BY <2>2
<1>6. FollowerFits(disk', writer', block', follower', followed', refollow')
  <2>1. FollowerFits(disk, writer, block, follower, followed, refollow)
    BY DEF Following
  <2>2. FollowerFits(disk, writer', block, follower, followed, refollow)
    BY <1>2, <1>3, <2>1, FollowerStays
  <2> QED BY <2>2
<1> QED BY <1>4, <1>5, <1>6 DEF WritersFit, BlocksFit, Following

LEMMA DigestStays ==
  ASSUME D!DigestIsOfFile, UNCHANGED <<disk, digest>>
  PROVE  D!DigestIsOfFile'
BY DEF D!DigestIsOfFile, D!Contents

LEMMA NoDigest ==
  ASSUME digest' = <<>>
  PROVE  D!DigestIsOfFile'
BY DEF D!DigestIsOfFile, D!Nothing

LEMMA BeginWriteFits ==
  ASSUME Sized, HashesInv, NEW w \in Writers, D!BeginWrite(w)
  PROVE  HashesInv'
<1> USE DEF HashesInv
<1>0. PICK from \in D!Bytes, to \in 1 .. Size, v \in Values :
        /\ writer[w].pc = "idle" /\ follower.digesting = FALSE /\ from < to
        /\ \A o \in Writers : writer[o].pc # "idle" /\ writer[o].from < to /\ from < writer[o].to => writer[o].value = v
        /\ writer' = [writer EXCEPT ![w] =
             [pc |-> "writing", from |-> from, to |-> to, value |-> v, jobs |-> <<>>, hashed |-> <<>>]]
        /\ digest' = <<>>
        /\ UNCHANGED <<disk, follower, written, block, followed, refollow>>
  <2>1. PICK from \in D!Bytes, to \in 1 .. Size, v \in Values :
          /\ writer[w].pc = "idle" /\ follower.digesting = FALSE /\ writes < MaxWrites /\ from < to
          /\ \A o \in Writers : writer[o].pc # "idle" /\ writer[o].from < to /\ from < writer[o].to => writer[o].value = v
          /\ writes' = writes + 1
          /\ writer' = [writer EXCEPT ![w] =
               [pc |-> "writing", from |-> from, to |-> to, value |-> v, jobs |-> <<>>, hashed |-> D!Nothing]]
          /\ digest' = D!Nothing
          /\ UNCHANGED <<disk, D!hashes, follower>>
    BY ZenonT(60) DEF D!BeginWrite
  <2>2. UNCHANGED <<disk, follower, written, block, followed, refollow>>
    BY <2>1 DEF D!hashes
  <2> QED BY <2>1, <2>2 DEF D!Nothing
<1>1. Size \in Nat /\ from \in Nat /\ to \in Nat /\ to <= Size /\ v \in Datum
  BY DEF Sized, D!Bytes, Datum
<1>2. /\ writer \in Writings /\ \A o \in Writers : o # w => writer'[o] = writer[o]
      /\ writer'[w] = [pc |-> "writing", from |-> from, to |-> to, value |-> v, jobs |-> <<>>, hashed |-> <<>>]
  BY <1>0 DEF TypedHashes, Writings
<1>3. writer' \in Writings
  <2>1. <<>> \in Seq(JobSet) /\ <<>> \in Text
    BY DEF Text
  <2>2. writer'[w] \in WritingSet
    BY <1>1, <1>2, <2>1 DEF WritingSet, WritingPCs
  <2> QED BY <1>0, <1>2, <2>2 DEF Writings
<1>4. TypedHashes'
  BY <1>0, <1>3 DEF TypedHashes
<1>5. WriterFits(disk, writer', block, writer'[w])
  BY <1>0, <1>1, <1>2 DEF WriterFits
<1>6. WritersFit' /\ BlocksFit' /\ Following'
  BY <1>0, <1>2, <1>3, <1>5, OneWriter
<1>7. Agreed'
  BY <1>0, <1>2 DEF Agreed, Agree
<1>8. AreUnderWay'
  <2>1. writer[w].jobs = <<>>
    BY <1>0 DEF WritersFit, WriterFits
  <2>2. \A o \in Writers : writer'[o].jobs = writer[o].jobs
    BY <1>2, <2>1
  <2> QED BY <1>0, <2>2 DEF AreUnderWay, UnderWay
<1>9. Digesting' /\ D!DigestIsOfFile'
  BY <1>0, NoDigest DEF Digesting
<1> QED BY <1>4, <1>6, <1>7, <1>8, <1>9

LEMMA EndWriteFits ==
  ASSUME Sized, HashesInv, NEW w \in Writers, D!EndWrite(w)
  PROVE  HashesInv'
<1> USE DEF HashesInv
<1>0. /\ writer[w].pc = "hashing" /\ writer[w].jobs = <<>>
      /\ writer' = [writer EXCEPT ![w] = D!IdleWriter]
      /\ UNCHANGED <<disk, follower, written, block, followed, refollow, digest>>
  BY DEF D!EndWrite, D!hashes
<1>1. D!IdleWriter = [pc |-> "idle", from |-> 0, to |-> 0, value |-> Hole, jobs |-> <<>>, hashed |-> <<>>]
  BY DEF D!IdleWriter, D!Nothing
<1>2. /\ writer \in Writings /\ \A o \in Writers : o # w => writer'[o] = writer[o]
      /\ writer'[w] = D!IdleWriter
  BY <1>0 DEF TypedHashes, Writings
<1>3. writer' \in Writings
  <2>1. <<>> \in Seq(JobSet) /\ <<>> \in Text
    BY DEF Text
  <2>2. writer'[w] \in WritingSet
    BY <1>1, <1>2, <2>1 DEF WritingSet, WritingPCs, Datum
  <2> QED BY <1>0, <1>2, <2>2 DEF Writings
<1>4. TypedHashes'
  BY <1>0, <1>3 DEF TypedHashes
<1>5. WriterFits(disk, writer', block, writer'[w])
  BY <1>0, <1>1, <1>2 DEF WriterFits
<1>6. WritersFit' /\ BlocksFit' /\ Following'
  BY <1>0, <1>2, <1>3, <1>5, OneWriter
<1>7. Agreed'
  BY <1>0, <1>1, <1>2 DEF Agreed, Agree
<1>8. AreUnderWay'
  <2>1. \A o \in Writers : writer'[o].jobs = writer[o].jobs
    BY <1>0, <1>1, <1>2
  <2> QED BY <1>0, <2>1 DEF AreUnderWay, UnderWay
<1>9. Digesting'
  BY <1>0, <1>1, <1>2 DEF Digesting
<1>10. D!DigestIsOfFile'
  BY <1>0, DigestStays
<1> QED BY <1>4, <1>6, <1>7, <1>8, <1>9, <1>10

LEMMA WriteBytesFits ==
  ASSUME Sized, HashesInv, NEW w \in Writers, D!WriteBytes(w)
  PROVE  HashesInv'
<1> USE DEF HashesInv
<1>0. /\ writer[w].pc = "writing"
      /\ disk' = [b \in D!Bytes |-> IF b \in writer[w].from .. writer[w].to - 1 THEN writer[w].value ELSE disk[b]]
      /\ writer' = [writer EXCEPT ![w].pc = "written"]
      /\ UNCHANGED <<follower, written, block, followed, refollow, digest>>
  BY DEF D!WriteBytes, D!hashes
<1> PICK p \in WritingSet : p = writer[w]
  BY DEF TypedHashes, Writings
<1>1. Size \in Nat /\ p.from \in Nat /\ p.to \in Nat /\ p.value \in Datum /\ p.from < p.to /\ p.to <= Size /\ p.jobs = <<>>
  BY <1>0 DEF Sized, WritingSet, WritersFit, WriterFits
<1>2. /\ writer \in Writings /\ disk \in Disks /\ block \in BlockMaps /\ follower \in FollowingSet /\ followed \in Nat
      /\ \A o \in Writers : writer[o] \in WritingSet
  BY DEF TypedHashes, Writings
<1>3. /\ \A o \in Writers : o # w => writer'[o] = writer[o]
      /\ \A o \in Writers : /\ writer'[o].from = writer[o].from /\ writer'[o].to = writer[o].to
                            /\ writer'[o].value = writer[o].value /\ writer'[o].jobs = writer[o].jobs
      /\ writer'[w] = [p EXCEPT !.pc = "written"] /\ writer'[w].pc = "written"
  BY <1>0, <1>2 DEF Writings, WritingSet
<1>4. writer' \in Writings
  <2>1. writer'[w] \in WritingSet
    BY <1>3 DEF WritingSet, WritingPCs
  <2> QED BY <1>0, <1>2, <1>3, <2>1 DEF Writings
<1>5. disk' \in Disks
  BY <1>0, <1>1, <1>2 DEF Disks
<1>6. ASSUME NEW a \in Nat, NEW c \in Nat, c <= Size
      PROVE  Stays(disk, writer, disk', writer', a, c)
  <2> SUFFICES ASSUME Quiet(writer', a, c)
               PROVE  Quiet(writer, a, c) /\ \A i \in a .. c - 1 : disk'[i] = disk[i]
    BY DEF Stays
  <2>1. ~(p.from < c /\ a < p.to)
    BY <1>3 DEF Quiet
  <2>2. Quiet(writer, a, c)
    BY <1>0, <1>3 DEF Quiet
  <2>3. ASSUME NEW i \in a .. c - 1
        PROVE  disk'[i] = disk[i]
    <3>1. i \in D!Bytes /\ i \notin p.from .. p.to - 1
      BY <1>1, <1>6, <2>1 DEF D!Bytes
    <3> QED BY <1>0, <3>1
  <2> QED BY <2>2, <2>3
<1>7. ASSUME NEW b \in D!Blocks
      PROVE  /\ \A a, c \in Nat : D!From(b) <= a /\ c <= D!To(b) => Stays(disk, writer, disk', writer', a, c)
             /\ Passes(disk, writer, block, disk', writer', block, b)
  <2>1. D!To(b) \in Nat /\ D!To(b) <= Size
    BY BlockBounds
  <2>2. \A c \in Nat : c <= D!To(b) => c <= Size
    BY <1>1, <2>1
  <2>3. \A a, c \in Nat : D!From(b) <= a /\ c <= D!To(b) => Stays(disk, writer, disk', writer', a, c)
    BY <1>6, <2>2
  <2> QED BY <2>3 DEF Passes
<1>8. TypedHashes'
  BY <1>0, <1>4, <1>5 DEF TypedHashes
<1>9. ASSUME NEW o \in Writers
      PROVE  WriterFits(disk', writer', block', writer'[o])
  <2> PICK x \in WritingSet : x = writer[o]
    BY <1>2
  <2>1. WriterFits(disk, writer, block, x)
    BY DEF WritersFit
  <2>2. CASE o = w
    <3>1. \A b \in p.from .. p.to - 1 : disk'[b] = p.value
      BY <1>0, <1>1 DEF D!Bytes
    <3>2. /\ writer'[w].from = p.from /\ writer'[w].to = p.to /\ writer'[w].value = p.value
          /\ writer'[w].jobs = <<>> /\ DOMAIN <<>> = {}
      BY <1>1, <1>3
    <3> QED BY <1>1, <1>3, <2>2, <3>1, <3>2 DEF WriterFits
  <2>3. CASE o # w
    <3>1. ASSUME x.pc \in {"written", "hashing", "keeping"}, NEW b \in x.from .. x.to - 1
          PROVE  disk'[b] = x.value
      <4>1. disk[b] = x.value /\ x.from < x.to /\ x.to <= Size /\ x.from \in Nat /\ x.to \in Nat
        BY <2>1, <3>1 DEF WriterFits, WritingSet
      <4>2. b \in D!Bytes
        BY <1>1, <4>1 DEF D!Bytes
      <4>3. b \in p.from .. p.to - 1 => p.value = x.value
        BY <1>0, <1>1, <3>1, <4>1 DEF Agreed, Agree
      <4> QED BY <1>0, <4>1, <4>2, <4>3
    <3>2. WriterFits(disk', writer', block, x)
      BY <1>2, <1>7, <2>1, <3>1, WriterStays
    <3> QED BY <1>0, <1>3, <2>3, <3>2
  <2> QED BY <2>2, <2>3
<1>10. ASSUME NEW b \in D!Blocks
       PROVE  BlockFits(disk', writer', block', b)
  <2>1. BlockFits(disk, writer, block, b)
    BY DEF BlocksFit
  <2>2. BlockFits(disk', writer', block, b)
    BY <1>2, <1>7, <2>1, BlockStays
  <2> QED BY <1>0, <2>2
<1>11. FollowerFits(disk', writer', block', follower', followed', refollow')
  <2>1. FollowerFits(disk, writer, block, follower, followed, refollow)
    BY DEF Following
  <2>2. followed <= Size
    BY <2>1 DEF FollowerFits
  <2>3. \A c \in Nat : c <= followed => c <= Size
    BY <1>1, <1>2, <2>2
  <2>4. \A a, c \in Nat : c <= followed => Stays(disk, writer, disk', writer', a, c)
    BY <1>6, <2>3
  <2>5. FollowerFits(disk', writer', block, follower, followed, refollow)
    BY <1>2, <1>7, <2>1, <2>4, FollowerStays
  <2> QED BY <1>0, <2>5
<1>12. WritersFit' /\ BlocksFit' /\ Following'
  BY <1>9, <1>10, <1>11 DEF WritersFit, BlocksFit, Following
<1>13. Agreed'
  BY <1>0, <1>3 DEF Agreed, Agree
<1>14. AreUnderWay'
  BY <1>0, <1>3 DEF AreUnderWay, UnderWay
<1>15. Digesting' /\ D!DigestIsOfFile'
  BY <1>0, NoDigest DEF Digesting
<1> QED BY <1>8, <1>12, <1>13, <1>14, <1>15

(* Being woken changes only where the follower is. *)
LEMMA WokenFits ==
  ASSUME NEW B, NEW d, NEW W, NEW f \in FollowingSet, NEW g, NEW fd, NEW re, FollowerFits(d, W, B, f, fd, re),
         g = f \/ (f.pc = "waiting" /\ g = [f EXCEPT !.pc = "looking"])
  PROVE  g \in FollowingSet /\ g.digesting = f.digesting /\ FollowerFits(d, W, B, g, fd, re)
<1>1. CASE g = f
  BY <1>1
<1>2. CASE f.pc = "waiting" /\ g = [f EXCEPT !.pc = "looking"]
  <2>1. g \in FollowingSet /\ g.pc = "looking" /\ g.prefix = f.prefix /\ g.digesting = f.digesting
    BY <1>2 DEF FollowingSet, FollowingPCs
  <2> QED BY <2>1 DEF FollowerFits
<1> QED BY <1>1, <1>2

(* What recording a write changes. *)
LEMMA Recorded ==
  ASSUME Sized, HashesInv, NEW w \in Writers, D!Wrote(w)
  PROVE  \E p \in WritingSet, n \in Nat : \E job \in [1 .. n -> D!Touched(w)], jobs \in Seq(JobSet) :
           /\ p = writer[w] /\ p.pc = "written" /\ p.from < p.to /\ p.to <= Size /\ p.jobs = <<>>
           /\ block' \in BlockMaps
           /\ \A b \in D!Blocks \ D!Touched(w) : block'[b] = block[b]
           /\ \A b \in D!Touched(w) : /\ block'[b].version = block[b].version + 1
                                      /\ block'[b].hash = <<>> /\ block'[b].head = <<>>
           /\ \A b \in D!Touched(w) : \E i \in 1 .. n : b = job[i]
           /\ writer' = [writer EXCEPT ![w] = [p EXCEPT !.pc = "hashing", !.jobs = jobs]]
           /\ Len(jobs) = n /\ DOMAIN jobs = 1 .. n
           /\ \A i \in 1 .. n : jobs[i] = [block |-> job[i], version |-> block'[job[i]].version,
                                           complete |-> block'[job[i]].hashing, head |-> block[job[i]].head]
           /\ written' \subseteq D!Bytes
           /\ refollow' = (refollow \/ p.from < followed)
           /\ follower' = follower \/ (follower.pc = "waiting" /\ follower' = [follower EXCEPT !.pc = "looking"])
           /\ UNCHANGED <<disk, followed, digest>>
<1> USE DEF HashesInv
<1>0. /\ writer[w].pc = "written"
      /\ written' = written \cup (writer[w].from .. writer[w].to - 1)
      /\ refollow' = (refollow \/ writer[w].from < followed)
      /\ block' = [b \in D!Blocks |-> IF b \notin D!Touched(w) THEN block[b] ELSE
           [version |-> block[b].version + 1, hash |-> <<>>, hashing |-> D!Covers(written', b), head |-> <<>>]]
      /\ follower' = follower \/ (follower.pc = "waiting" /\ follower' = [follower EXCEPT !.pc = "looking"])
      /\ UNCHANGED <<disk, followed, digest>>
  BY DEF D!Wrote, D!Nothing, D!Woken
<1> DEFINE n == D!Cardinality(D!Touched(w))
           job == [i \in 1 .. n |-> (writer[w].from \div Block) + i - 1]
           jobs == [i \in DOMAIN job |-> [block |-> job[i], version |-> block'[job[i]].version,
                                          complete |-> block'[job[i]].hashing, head |-> block[job[i]].head]]
<1>1. writer' = [writer EXCEPT ![w].pc = "hashing", ![w].jobs = jobs]
  BY DEF D!Wrote
<1> PICK p \in WritingSet : p = writer[w]
  BY DEF TypedHashes, Writings
<1>2. Size \in Nat /\ p.from \in Nat /\ p.to \in Nat /\ p.from < p.to /\ p.to <= Size /\ p.jobs = <<>>
  BY <1>0 DEF Sized, WritingSet, WritersFit, WriterFits
<1>3. /\ n \in Nat
      /\ \A i \in 1 .. n : (writer[w].from \div Block) + i - 1 \in D!Touched(w)
      /\ \A b \in D!Touched(w) : \E i \in 1 .. n : b = (writer[w].from \div Block) + i - 1
  BY <1>2, JobsAreTouched
<1>4. job \in [1 .. n -> D!Touched(w)] /\ \A b \in D!Touched(w) : \E i \in 1 .. n : b = job[i]
  <2> HIDE DEF n
  <2> QED BY <1>3
<1>5. D!Touched(w) \subseteq D!Blocks
  BY DEF D!Touched
<1>6. block' \in BlockMaps
  <2>1. block \in BlockMaps /\ <<>> \in Text
    BY DEF TypedHashes, Text
  <2>2. \A b \in D!Blocks : D!Covers(written', b) \in BOOLEAN
    BY DEF D!Covers
  <2>3. \A b \in D!Blocks : block'[b] \in BlockSet
    <3> SUFFICES ASSUME NEW b \in D!Blocks
                 PROVE  block'[b] \in BlockSet
      OBVIOUS
    <3>1. block[b] \in BlockSet
      BY <2>1 DEF BlockMaps
    <3>2. CASE b \notin D!Touched(w)
      BY <1>0, <3>1, <3>2
    <3>3. CASE b \in D!Touched(w)
      <4>1. block'[b] = [version |-> block[b].version + 1, hash |-> <<>>, hashing |-> D!Covers(written', b), head |-> <<>>]
        BY <1>0, <3>3
      <4> QED BY <2>1, <2>2, <3>1, <4>1 DEF BlockSet
    <3> QED BY <3>2, <3>3
  <2> QED BY <1>0, <2>3 DEF BlockMaps
<1>7. /\ \A b \in D!Blocks \ D!Touched(w) : block'[b] = block[b]
      /\ \A b \in D!Touched(w) : /\ block'[b].version = block[b].version + 1
                                 /\ block'[b].hash = <<>> /\ block'[b].head = <<>>
  BY <1>0, <1>5
<1> HIDE DEF n, job
<1>8. jobs = [i \in 1 .. n |-> [block |-> job[i], version |-> block'[job[i]].version,
                                complete |-> block'[job[i]].hashing, head |-> block[job[i]].head]]
  BY <1>4
<1>9. jobs \in Seq(JobSet) /\ Len(jobs) = n /\ DOMAIN jobs = 1 .. n
      /\ \A i \in 1 .. n : jobs[i] = [block |-> job[i], version |-> block'[job[i]].version,
                                      complete |-> block'[job[i]].hashing, head |-> block[job[i]].head]
  <2>1. ASSUME NEW i \in 1 .. n
        PROVE  [block |-> job[i], version |-> block'[job[i]].version,
                complete |-> block'[job[i]].hashing, head |-> block[job[i]].head] \in JobSet
    <3>1. job[i] \in D!Blocks
      BY <1>4, <1>5
    <3>2. block'[job[i]] \in BlockSet /\ block[job[i]] \in BlockSet
      BY <1>6, <3>1 DEF BlockMaps, TypedHashes
    <3> QED BY <3>1, <3>2 DEF JobSet, BlockSet
  <2> HIDE DEF jobs
  <2> QED BY <1>3, <1>8, <2>1
<1> HIDE DEF jobs
<1>10. writer' = [writer EXCEPT ![w] = [p EXCEPT !.pc = "hashing", !.jobs = jobs]]
  BY <1>1
<1>11. written' \subseteq D!Bytes
  BY <1>0, <1>2 DEF TypedHashes, D!Bytes
<1> QED BY <1>0, <1>2, <1>3, <1>4, <1>6, <1>7, <1>9, <1>10, <1>11

LEMMA WroteFits ==
  ASSUME Sized, HashesInv, NEW w \in Writers, D!Wrote(w)
  PROVE  HashesInv'
<1> USE DEF HashesInv
<1>p. PICK p \in WritingSet, n \in Nat : \E job \in [1 .. n -> D!Touched(w)], jobs \in Seq(JobSet) :
           /\ p = writer[w] /\ p.pc = "written" /\ p.from < p.to /\ p.to <= Size /\ p.jobs = <<>>
           /\ block' \in BlockMaps
           /\ \A b \in D!Blocks \ D!Touched(w) : block'[b] = block[b]
           /\ \A b \in D!Touched(w) : /\ block'[b].version = block[b].version + 1
                                      /\ block'[b].hash = <<>> /\ block'[b].head = <<>>
           /\ \A b \in D!Touched(w) : \E i \in 1 .. n : b = job[i]
           /\ writer' = [writer EXCEPT ![w] = [p EXCEPT !.pc = "hashing", !.jobs = jobs]]
           /\ Len(jobs) = n /\ DOMAIN jobs = 1 .. n
           /\ \A i \in 1 .. n : jobs[i] = [block |-> job[i], version |-> block'[job[i]].version,
                                           complete |-> block'[job[i]].hashing, head |-> block[job[i]].head]
           /\ written' \subseteq D!Bytes
           /\ refollow' = (refollow \/ p.from < followed)
           /\ follower' = follower \/ (follower.pc = "waiting" /\ follower' = [follower EXCEPT !.pc = "looking"])
           /\ UNCHANGED <<disk, followed, digest>>
  BY Recorded
<1>0. PICK job \in [1 .. n -> D!Touched(w)], jobs \in Seq(JobSet) :
           /\ p = writer[w] /\ p.pc = "written" /\ p.from < p.to /\ p.to <= Size /\ p.jobs = <<>>
           /\ block' \in BlockMaps
           /\ \A b \in D!Blocks \ D!Touched(w) : block'[b] = block[b]
           /\ \A b \in D!Touched(w) : /\ block'[b].version = block[b].version + 1
                                      /\ block'[b].hash = <<>> /\ block'[b].head = <<>>
           /\ \A b \in D!Touched(w) : \E i \in 1 .. n : b = job[i]
           /\ writer' = [writer EXCEPT ![w] = [p EXCEPT !.pc = "hashing", !.jobs = jobs]]
           /\ Len(jobs) = n /\ DOMAIN jobs = 1 .. n
           /\ \A i \in 1 .. n : jobs[i] = [block |-> job[i], version |-> block'[job[i]].version,
                                           complete |-> block'[job[i]].hashing, head |-> block[job[i]].head]
           /\ written' \subseteq D!Bytes
           /\ refollow' = (refollow \/ p.from < followed)
           /\ follower' = follower \/ (follower.pc = "waiting" /\ follower' = [follower EXCEPT !.pc = "looking"])
           /\ UNCHANGED <<disk, followed, digest>>
  BY <1>p
<1>1. Size \in Nat /\ p.from \in Nat /\ p.to \in Nat /\ p.value \in Datum
  BY <1>0 DEF Sized, WritingSet
<1>2. /\ writer \in Writings /\ block \in BlockMaps /\ follower \in FollowingSet /\ followed \in Nat
      /\ \A o \in Writers : writer[o] \in WritingSet
  BY DEF TypedHashes, Writings
<1>3. /\ \A o \in Writers : o # w => writer'[o] = writer[o]
      /\ writer'[w] = [p EXCEPT !.pc = "hashing", !.jobs = jobs]
  BY <1>0, <1>2 DEF Writings
<1>4. /\ writer'[w].pc = "hashing" /\ writer'[w].from = p.from /\ writer'[w].to = p.to /\ writer'[w].value = p.value
      /\ writer'[w].jobs = jobs /\ writer'[w] \in WritingSet
  <2>1. "hashing" \in WritingPCs
    BY DEF WritingPCs
  <2> QED BY <1>3, <2>1 DEF WritingSet
<1>5. writer' \in Writings
  BY <1>0, <1>2, <1>3, <1>4 DEF Writings
<1>6. \A b \in D!Blocks : b \in D!Touched(w) <=> D!From(b) < p.to /\ p.from < D!To(b)
  BY <1>0 DEF D!Touched
<1>7. ASSUME NEW a \in Nat, NEW c \in Nat, ~(p.from < c /\ a < p.to)
      PROVE  Stays(disk, writer, disk, writer', a, c)
  <2>1. Quiet(writer', a, c) => Quiet(writer, a, c)
    BY <1>0, <1>3, <1>7 DEF Quiet
  <2> QED BY <2>1 DEF Stays
<1>8. ASSUME NEW b \in D!Blocks, b \notin D!Touched(w), NEW a \in Nat, NEW c \in Nat, D!From(b) <= a, c <= D!To(b)
      PROVE  Stays(disk, writer, disk, writer', a, c)
  <2>1. D!From(b) \in Nat /\ D!To(b) \in Nat
    BY BlockBounds
  <2>2. ~(p.from < c /\ a < p.to)
    BY <1>1, <1>6, <1>8, <2>1
  <2> QED BY <1>7, <2>2
<1>9. ASSUME NEW b \in D!Blocks
      PROVE  Passes(disk, writer, block, disk, writer', block', b)
  <2>1. CASE b \in D!Touched(w)
    <3>1. block[b].version \in Nat /\ block'[b].version = block[b].version + 1
      BY <1>0, <1>2, <2>1 DEF BlockMaps, BlockSet
    <3> QED BY <3>1 DEF Passes
  <2>2. CASE b \notin D!Touched(w)
    <3>1. block'[b] = block[b]
      BY <1>0, <2>2
    <3> QED BY <1>8, <2>2, <3>1 DEF Passes
  <2> QED BY <2>1, <2>2
<1>10. \A b \in D!Blocks : BlockFits(disk, writer, block, b)
  BY DEF BlocksFit
<1>11. ASSUME NEW i \in 1 .. n
       PROVE  JobFits(disk, writer', block', writer'[w], jobs[i])
  <2> PICK b \in D!Touched(w) : b = job[i]
    BY <1>0
  <2>1. b \in D!Blocks /\ D!From(b) < p.to /\ p.from < D!To(b) /\ D!From(b) \in Nat
    BY <1>6, BlockBounds DEF D!Touched
  <2> PICK t \in Text : t = block[b].head
    BY <1>2, <2>1 DEF BlockMaps, BlockSet
  <2>2. jobs[i] = [block |-> b, version |-> block'[b].version, complete |-> block'[b].hashing, head |-> t]
    BY <1>0
  <2>3. jobs[i].block = b /\ jobs[i].version = block'[b].version /\ jobs[i].complete = block'[b].hashing /\ jobs[i].head = t
    BY <2>2
  <2>4. ASSUME D!From(b) + Len(t) <= D!Most(p.from, D!From(b))
        PROVE  Right(disk, writer', t, D!From(b))
    <3>1. Len(t) \in Nat
      BY TextIs
    <3>2. CASE Len(t) = 0
      BY <3>2 DEF Right
    <3>3. CASE Len(t) # 0
      <4>1. ~(p.from < D!From(b) + Len(t) /\ D!From(b) < p.to) /\ D!From(b) + Len(t) \in Nat
        BY <1>1, <2>1, <2>4, <3>1, <3>3 DEF D!Most
      <4>2. Stays(disk, writer, disk, writer', D!From(b), D!From(b) + Len(t))
        BY <1>7, <2>1, <4>1
      <4>3. Right(disk, writer, t, D!From(b))
        BY <1>10, <2>1 DEF BlockFits
      <4> QED BY <2>1, <4>2, <4>3, RightStays
    <3> QED BY <3>2, <3>3
  <2>5. block'[b].version \in Nat
    BY <1>0, <2>1 DEF BlockMaps, BlockSet
  <2> QED BY <1>4, <2>1, <2>3, <2>4, <2>5 DEF JobFits
<1>12. ASSUME NEW o \in Writers
       PROVE  WriterFits(disk', writer', block', writer'[o])
  <2> PICK x \in WritingSet : x = writer[o]
    BY <1>2
  <2>1. WriterFits(disk, writer, block, x)
    BY DEF WritersFit
  <2>2. CASE o = w
    <3>1. \A b \in p.from .. p.to - 1 : disk[b] = p.value
      BY <1>0, <2>1, <2>2 DEF WriterFits
    <3>2. DOMAIN jobs = 1 .. n /\ p.from < p.to /\ p.to <= Size /\ disk' = disk
      BY <1>0
    <3> QED BY <1>4, <1>11, <2>2, <3>1, <3>2 DEF WriterFits
  <2>3. CASE o # w
    <3>1. x.pc \in {"written", "hashing", "keeping"} => \A b \in x.from .. x.to - 1 : disk[b] = x.value
      BY <2>1 DEF WriterFits
    <3>2. WriterFits(disk, writer', block', x)
      <4>1. block' \in BlockMaps
        BY <1>0
      <4> QED BY <1>2, <1>9, <2>1, <3>1, <4>1, WriterStays
    <3> QED BY <1>0, <1>3, <2>3, <3>2
  <2> QED BY <2>2, <2>3
<1>13. ASSUME NEW b \in D!Blocks
       PROVE  BlockFits(disk', writer', block', b)
  <2>1. CASE b \in D!Touched(w)
    <3>1. block'[b].hash = <<>> /\ block'[b].head = <<>> /\ D!From(b) \in Nat /\ D!From(b) <= D!To(b)
      BY <1>0, <2>1, BlockBounds
    <3> QED BY <3>1, NothingIsRight DEF BlockFits
  <2>2. CASE b \notin D!Touched(w)
    <3>1. block'[b] = block[b] /\ BlockFits(disk, writer, block, b)
      BY <1>0, <1>10, <2>2
    <3>2. \A a, c \in Nat : D!From(b) <= a /\ c <= D!To(b) => Stays(disk, writer, disk, writer', a, c)
      BY <1>8, <2>2
    <3>3. BlockFits(disk, writer', block', b)
      BY <1>2, <3>1, <3>2, BlockStays
    <3> QED BY <1>0, <3>3
  <2> QED BY <2>1, <2>2
<1>14. follower' \in FollowingSet /\ follower'.digesting = follower.digesting
       /\ FollowerFits(disk', writer', block', follower', followed', refollow')
  <2>1. FollowerFits(disk, writer, block, follower, followed, refollow)
    BY DEF Following
  <2>2. ~refollow' => ~refollow /\ \A a, c \in Nat : c <= followed => Stays(disk, writer, disk, writer', a, c)
    <3>1. SUFFICES ASSUME ~refollow', NEW a \in Nat, NEW c \in Nat, c <= followed
                   PROVE  Stays(disk, writer, disk, writer', a, c)
      BY <1>0
    <3>2. ~(p.from < followed)
      BY <1>0, <3>1
    <3>3. ~(p.from < c /\ a < p.to)
      BY <1>1, <1>2, <3>1, <3>2
    <3> QED BY <1>7, <3>1, <3>3
  <2>3. FollowerFits(disk, writer', block', follower, followed, refollow')
    BY <1>0, <1>2, <1>9, <2>1, <2>2, FollowerStays
  <2>4. follower' \in FollowingSet /\ follower'.digesting = follower.digesting
        /\ FollowerFits(disk, writer', block', follower', followed, refollow')
    <3>1. follower' = follower \/ (follower.pc = "waiting" /\ follower' = [follower EXCEPT !.pc = "looking"])
      BY <1>0
    <3> QED BY <1>2, <2>3, <3>1, WokenFits
  <2> QED BY <1>0, <2>4
<1>15. TypedHashes'
  <2>1. refollow' \in BOOLEAN
    BY <1>0 DEF TypedHashes
  <2> QED BY <1>0, <1>2, <1>5, <1>14, <2>1 DEF TypedHashes
<1>16. WritersFit' /\ BlocksFit' /\ Following'
  BY <1>12, <1>13, <1>14 DEF WritersFit, BlocksFit, Following
<1>17. Agreed'
  <2>1. \A o \in Writers : /\ writer'[o].from = writer[o].from /\ writer'[o].to = writer[o].to
                           /\ writer'[o].value = writer[o].value /\ (writer'[o].pc = "idle" <=> writer[o].pc = "idle")
    BY <1>0, <1>3, <1>4
  <2> QED BY <2>1 DEF Agreed, Agree
<1>18. ASSUME NEW b \in D!Blocks
       PROVE  UnderWay(writer', block', b)
  <2>1. CASE b \in D!Touched(w)
    <3>1. PICK i \in 1 .. n : b = job[i]
      BY <1>0, <2>1
    <3>2. jobs[i].block = b /\ jobs[i].version = block'[b].version
      BY <1>0, <3>1
    <3>3. i \in DOMAIN writer'[w].jobs /\ writer'[w].jobs[i] = jobs[i]
      BY <1>0, <1>4
    <3> QED BY <3>2, <3>3 DEF UnderWay
  <2>2. CASE b \notin D!Touched(w)
    <3> SUFFICES ASSUME block'[b].hashing
                 PROVE  \E o \in Writers : \E i \in DOMAIN writer'[o].jobs :
                          writer'[o].jobs[i].block = b /\ writer'[o].jobs[i].version = block'[b].version
      BY DEF UnderWay
    <3>1. block'[b] = block[b]
      BY <1>0, <2>2
    <3>2. PICK o \in Writers : \E i \in DOMAIN writer[o].jobs :
            writer[o].jobs[i].block = b /\ writer[o].jobs[i].version = block[b].version
      BY <3>1 DEF AreUnderWay, UnderWay
    <3>3. o # w
      <4>1. writer[w].jobs = <<>> /\ DOMAIN <<>> = {}
        BY <1>0
      <4> QED BY <3>2, <4>1
    <3> QED BY <1>3, <3>1, <3>2, <3>3
  <2> QED BY <2>1, <2>2
<1>19. AreUnderWay'
  BY <1>18 DEF AreUnderWay
<1>20. digest = <<>> /\ ~follower.digesting
  BY <1>0 DEF Digesting
<1>21. Digesting' /\ D!DigestIsOfFile'
  <2>1. digest' = <<>> /\ ~follower'.digesting
    BY <1>0, <1>14, <1>20
  <2> QED BY <2>1, NoDigest DEF Digesting
<1> QED BY <1>15, <1>16, <1>17, <1>19, <1>21

LEMMA UpTo ==
  ASSUME NEW a \in Nat, NEW c \in Nat, NEW k \in Nat, NEW q \in Nat, NEW n \in Int, k = a + q, n = q + (c - k)
  PROVE  a + n = c
OBVIOUS

(* Going on from a right head makes a right text. *)
LEMMA GoneOnFits ==
  ASSUME Sized, NEW d \in Disks, NEW W \in Writings, NEW B \in BlockMaps, NEW x \in WritingSet, NEW j \in JobSet,
         JobFits(d, W, B, x, j), x.from < x.to, x.to <= Size, \A b \in x.from .. x.to - 1 : d[b] = x.value
  PROVE  /\ D!GoneOn(x, j) \in Text
         /\ D!From(j.block) + Len(D!GoneOn(x, j)) <= D!To(j.block)
         /\ j.version = B[j.block].version => Right(d, W, D!GoneOn(x, j), D!From(j.block))
<1> PICK b \in D!Blocks, t \in Text : b = j.block /\ t = j.head
  BY DEF JobSet
<1> PICK a \in Nat, c \in Nat, xf \in Nat, xt \in Nat : a = D!From(b) /\ c = D!To(b) /\ xf = x.from /\ xt = x.to
  BY BlockBounds DEF WritingSet
<1>1. Size \in Nat /\ a < c /\ c <= Size /\ xf < c /\ a < xt /\ xf < xt /\ Len(t) \in Nat
  BY BlockBounds, TextIs DEF Sized, JobFits
<1>2. PICK m \in Nat, n \in Nat : m = D!Most(xf, a) /\ n = D!Least(xt, c)
  BY DEF D!Most, D!Least
<1>3. a <= m /\ xf <= m /\ m < n /\ n <= c /\ n <= xt
  BY <1>1, <1>2 DEF D!Most, D!Least
<1> DEFINE piece == [i \in 1 .. n - m |-> x.value]
           h == IF a + Len(t) <= m THEN t ELSE <<>>
<1>4. D!GoneOn(x, j) = IF a + Len(h) = m THEN h \o piece ELSE h
  BY <1>2 DEF D!GoneOn, D!Nothing
<1>5. h \in Text /\ Len(h) \in Nat /\ a + Len(h) <= m /\ (j.version = B[b].version => Right(d, W, h, a))
  <2>1. CASE a + Len(t) <= m
    <3>1. j.version = B[b].version => Right(d, W, t, a)
      BY <1>2, <2>1 DEF JobFits
    <3> QED BY <1>1, <2>1, <3>1
  <2>2. CASE ~(a + Len(t) <= m)
    BY <1>3, <2>2, NothingIsRight
  <2> QED BY <2>1, <2>2
<1>6. piece \in Text /\ Len(piece) = n - m /\ Right(d, W, piece, m)
  <2>1. n - m \in Nat /\ x.value \in Datum
    BY <1>3 DEF WritingSet
  <2>2. piece \in Text /\ Len(piece) = n - m
    BY <2>1 DEF Text
  <2>3. \A i \in 1 .. n - m : m + i - 1 \in xf .. xt - 1
    BY <1>3
  <2>4. \A i \in 1 .. n - m : piece[i] = d[m + i - 1]
    BY <2>3
  <2> HIDE DEF piece
  <2> QED BY <2>2, <2>4 DEF Right
<1> HIDE DEF h, piece
<1>7. CASE a + Len(h) = m
  <2>1. h \o piece \in Text /\ Len(h \o piece) = Len(h) + (n - m)
    BY <1>5, <1>6, ConcatProperties DEF Text
  <2>2. a + Len(h \o piece) <= c
    BY <1>3, <1>5, <1>7, <2>1
  <2>3. j.version = B[b].version => Right(d, W, h \o piece, a)
    BY <1>5, <1>6, <1>7, RightWhole
  <2> QED BY <1>4, <1>7, <2>1, <2>2, <2>3
<1>8. CASE a + Len(h) # m
  <2>1. a + Len(h) <= c
    BY <1>3, <1>5
  <2> QED BY <1>4, <1>5, <1>8, <2>1
<1> QED BY <1>7, <1>8

KeepingOf(p, h) == [p EXCEPT !.pc = "keeping", !.hashed = h]

LEMMA KeepingOne ==
  ASSUME NEW p \in WritingSet, NEW h \in Text, NEW y, y = KeepingOf(p, h)
  PROVE  /\ y.pc = "keeping" /\ y.from = p.from /\ y.to = p.to /\ y.value = p.value
         /\ y.jobs = p.jobs /\ y.hashed = h /\ y \in WritingSet
BY DEF KeepingOf, WritingSet, WritingPCs

(* What w hashed of the block at hand may be kept. *)
Keepable(w, h) ==
  /\ D!From(writer[w].jobs[1].block) + Len(h) <= D!To(writer[w].jobs[1].block)
  /\ writer[w].jobs[1].version = block[writer[w].jobs[1].block].version =>
       /\ writer[w].jobs[1].complete => h = <<>> \/ D!From(writer[w].jobs[1].block) + Len(h) = D!To(writer[w].jobs[1].block)
       /\ Right(disk, writer, h, D!From(writer[w].jobs[1].block))

(* It does no more than hash that. *)
Hashed(w, h) ==
  /\ writer[w].pc = "hashing" /\ writer[w].jobs # <<>>
  /\ writer' = [writer EXCEPT ![w].pc = "keeping", ![w].hashed = h]
  /\ UNCHANGED <<disk, follower, written, block, followed, refollow, digest>>

(* A writer that has hashed something right is to keep it. *)
LEMMA ToKeep ==
  ASSUME Sized, HashesInv, NEW w \in Writers, NEW h \in Text, Keepable(w, h), Hashed(w, h)
  PROVE  HashesInv'
<1> USE DEF HashesInv
<1> PICK p \in WritingSet : p = writer[w]
  BY DEF TypedHashes, Writings
<1>0. p.pc = "hashing" /\ p.jobs # <<>> /\ UNCHANGED <<disk, follower, written, block, followed, refollow, digest>>
  BY DEF Hashed
<1>1. /\ writer \in Writings /\ block \in BlockMaps /\ p.jobs \in Seq(JobSet)
      /\ \A o \in Writers : o # w => writer'[o] = writer[o]
      /\ writer'[w] = KeepingOf(p, h)
  BY DEF Hashed, KeepingOf, TypedHashes, Writings, WritingSet
<1>2. /\ writer'[w].pc = "keeping" /\ writer'[w].from = p.from /\ writer'[w].to = p.to /\ writer'[w].value = p.value
      /\ writer'[w].jobs = p.jobs /\ writer'[w].hashed = h /\ writer'[w] \in WritingSet
  <2>1. writer'[w] = KeepingOf(p, h)
    BY <1>1
  <2> QED BY <2>1, KeepingOne
<1>3. writer' \in Writings
  <2>1. writer' = [o \in Writers |-> writer'[o]]
    BY <1>1 DEF Hashed, Writings
  <2>2. \A o \in Writers : writer[o] \in WritingSet
    BY <1>1 DEF Writings
  <2>3. \A o \in Writers : writer'[o] \in WritingSet
    BY <1>1, <1>2, <2>2
  <2> QED BY <2>1, <2>3 DEF Writings
<1>4. TypedHashes'
  BY <1>0, <1>3 DEF TypedHashes
<1>5. \A o \in Writers : writer[o].pc = "written" =>
        writer'[o].pc = "written" /\ writer'[o].from = writer[o].from /\ writer'[o].to = writer[o].to
  BY <1>0, <1>1
<1>6. /\ \A a, c \in Nat : Stays(disk, writer, disk, writer', a, c)
      /\ \A b \in D!Blocks : Passes(disk, writer, block, disk, writer', block, b)
  BY <1>5, Unmoved, PassedBy
<1>7. WriterFits(disk, writer, block, p)
  BY DEF WritersFit
<1>8. ASSUME NEW i \in DOMAIN p.jobs
      PROVE  JobFits(disk, writer', block, writer'[w], p.jobs[i])
  <2> PICK j \in JobSet : j = p.jobs[i]
    <3>1. p.jobs \in Seq(JobSet)
      BY <1>1
    <3> QED BY <3>1
  <2>1. j.block \in D!Blocks
    BY DEF JobSet
  <2>2. JobFits(disk, writer, block, p, j)
    BY <1>7 DEF WriterFits
  <2>3. JobFits(disk, writer', block, p, j)
    BY <1>1, <1>6, <2>1, <2>2, JobStays
  <2> QED BY <1>2, <2>3 DEF JobFits
<1>9. KeepFits(disk, writer', block, writer'[w])
  <2> PICK j \in JobSet : j = p.jobs[1]
    <3>1. p.jobs \in Seq(JobSet) /\ p.jobs # <<>>
      BY <1>0, <1>1
    <3> QED BY <3>1
  <2>1. j.block \in D!Blocks /\ D!From(j.block) \in Nat /\ D!From(j.block) + Len(h) \in Nat
    BY BlockBounds, TextIs DEF JobSet
  <2>2. Stays(disk, writer, disk, writer', D!From(j.block), D!From(j.block) + Len(h))
    BY <1>6, <2>1
  <2>3. j.version = block[j.block].version =>
           /\ j.complete => h = <<>> \/ D!From(j.block) + Len(h) = D!To(j.block)
           /\ Right(disk, writer', h, D!From(j.block))
    BY <2>1, <2>2, RightStays DEF Keepable
  <2>4. D!From(j.block) + Len(h) <= D!To(j.block)
    BY DEF Keepable
  <2> QED BY <1>0, <1>2, <2>3, <2>4 DEF KeepFits
<1>10. WriterFits(disk, writer', block, writer'[w])
  BY <1>0, <1>2, <1>7, <1>8, <1>9 DEF WriterFits
<1>11. WritersFit' /\ BlocksFit' /\ Following'
  BY <1>0, <1>1, <1>3, <1>10, OneWriter
<1>12. \A o \in Writers : /\ writer'[o].from = writer[o].from /\ writer'[o].to = writer[o].to
                          /\ writer'[o].value = writer[o].value /\ (writer'[o].pc = "idle" <=> writer[o].pc = "idle")
                          /\ writer'[o].jobs = writer[o].jobs
  BY <1>0, <1>1, <1>2
<1>13. Agreed' /\ Digesting'
  <2>1. Agreed'
    BY <1>12 DEF Agreed, Agree
  <2>2. Digesting'
    BY <1>0, <1>12 DEF Digesting
  <2> QED BY <2>1, <2>2
<1>14. AreUnderWay'
  BY <1>0, <1>12 DEF AreUnderWay, UnderWay
<1>15. D!DigestIsOfFile'
  BY <1>0, DigestStays
<1> QED BY <1>4, <1>11, <1>13, <1>14, <1>15

LEMMA HashBlockFits ==
  ASSUME Sized, HashesInv, NEW w \in Writers, D!HashBlock(w)
  PROVE  HashesInv'
<1> USE DEF HashesInv
<1> PICK p \in WritingSet : p = writer[w]
  BY DEF TypedHashes, Writings
<1>1. /\ p.pc = "hashing" /\ p.jobs # <<>> /\ p.jobs \in Seq(JobSet) /\ disk \in Disks
      /\ writer \in Writings /\ block \in BlockMaps
      /\ UNCHANGED <<disk, follower, written, block, followed, refollow, digest>>
  BY DEF D!HashBlock, D!hashes, WritingSet, TypedHashes
<1>2. PICK j \in JobSet : j = p.jobs[1] /\ j = Head(p.jobs) /\ 1 \in DOMAIN p.jobs
  BY <1>1
<1>3. /\ JobFits(disk, writer, block, p, j) /\ p.from < p.to /\ p.to <= Size
      /\ \A b \in p.from .. p.to - 1 : disk[b] = p.value
  BY <1>1, <1>2 DEF WritersFit, WriterFits
<1>4. PICK g \in Text : /\ g = D!GoneOn(p, j)
                        /\ D!From(j.block) + Len(g) <= D!To(j.block)
                        /\ j.version = block[j.block].version => Right(disk, writer, g, D!From(j.block))
  BY <1>1, <1>3, GoneOnFits
<1> PICK a \in Nat, c \in Nat : a = D!From(j.block) /\ c = D!To(j.block) /\ c <= Size
  BY BlockBounds DEF JobSet
<1>5. PICK k \in Nat : k = a + Len(g) /\ Len(g) \in Nat
  BY TextIs
<1> DEFINE r == D!Contents(k, c)
           h == IF j.complete THEN g \o r ELSE g
<1>6. writer' = [writer EXCEPT ![w].pc = "keeping", ![w].hashed = h]
  BY <1>2, <1>4, <1>5 DEF D!HashBlock
<1>7. r \in Text /\ Len(r) = c - k /\ Right(disk, writer, r, k)
  <2>1. r = ReadOf(disk, k, c)
    BY ContentsRead
  <2>2. k <= c
    BY <1>4, <1>5
  <2> HIDE DEF r
  <2> QED BY <1>1, <2>1, <2>2, ReadIsRight
<1> HIDE DEF r
<1>8. /\ h \in Text /\ a + Len(h) <= c
      /\ j.version = block[j.block].version =>
           /\ j.complete => h = <<>> \/ a + Len(h) = c
           /\ Right(disk, writer, h, a)
  <2>1. CASE j.complete
    <3>1. g \o r \in Text /\ Len(g \o r) = Len(g) + Len(r)
      BY <1>7, ConcatProperties DEF Text
    <3>2. a + Len(g \o r) = c
      <4>1. PICK q \in Nat, n \in Int : q = Len(g) /\ n = Len(g \o r) /\ k = a + q /\ n = q + (c - k)
        BY <1>5, <1>7, <3>1
      <4>2. k = a + q /\ n = q + (c - k)
        BY <4>1, Zenon
      <4>3. a + n = c
        BY <4>2, UpTo
      <4> QED BY <4>1, <4>3, Zenon
    <3>3. j.version = block[j.block].version => Right(disk, writer, g \o r, a)
      BY <1>1, <1>4, <1>5, <1>7, RightWhole
    <3> QED BY <2>1, <3>1, <3>2, <3>3
  <2>2. CASE ~j.complete
    BY <1>4, <2>2
  <2> QED BY <2>1, <2>2
<1> HIDE DEF h
<1>9. Keepable(w, h)
  BY <1>2, <1>8 DEF Keepable
<1>10. Hashed(w, h)
  BY <1>1, <1>6 DEF Hashed
<1> QED BY <1>8, <1>9, <1>10, ToKeep

LEMMA ReadBackFailsFits ==
  ASSUME Sized, HashesInv, NEW w \in Writers, D!ReadBackFails(w)
  PROVE  HashesInv'
<1> USE DEF HashesInv
<1> PICK p \in WritingSet : p = writer[w]
  BY DEF TypedHashes, Writings
<1>1. /\ p.pc = "hashing" /\ p.jobs # <<>> /\ p.jobs \in Seq(JobSet)
      /\ writer' = [writer EXCEPT ![w].pc = "keeping", ![w].hashed = <<>>]
      /\ UNCHANGED <<disk, follower, written, block, followed, refollow, digest>>
  BY DEF D!ReadBackFails, D!hashes, D!Nothing, WritingSet
<1>2. p.jobs[1] \in JobSet
  BY <1>1
<1>3. D!From(p.jobs[1].block) \in Nat /\ D!From(p.jobs[1].block) + 0 <= D!To(p.jobs[1].block)
  BY <1>2, BlockBounds DEF JobSet
<1>4. Right(disk, writer, <<>>, D!From(p.jobs[1].block)) /\ <<>> \in Text /\ Len(<<>>) = 0
  BY NothingIsRight
<1>5. Keepable(w, <<>>)
  BY <1>3, <1>4 DEF Keepable
<1>6. Hashed(w, <<>>)
  BY <1>1 DEF Hashed
<1> QED BY <1>4, <1>5, <1>6, ToKeep

DoneWith(p) == [p EXCEPT !.pc = "hashing", !.jobs = Tail(@), !.hashed = <<>>]

LEMMA KeptOne ==
  ASSUME NEW p \in WritingSet, NEW y, y = DoneWith(p), p.jobs # <<>>
  PROVE  /\ y.pc = "hashing" /\ y.from = p.from /\ y.to = p.to /\ y.value = p.value
         /\ y.jobs = Tail(p.jobs) /\ y \in WritingSet
         /\ DOMAIN p.jobs = 1 .. Len(p.jobs) /\ Len(p.jobs) \in Nat
         /\ DOMAIN y.jobs = 1 .. Len(p.jobs) - 1
         /\ \A i \in DOMAIN y.jobs : i + 1 \in DOMAIN p.jobs /\ y.jobs[i] = p.jobs[i + 1]
<1>1. p.jobs \in Seq(JobSet)
  BY DEF WritingSet
<1>2. Tail(p.jobs) \in Seq(JobSet) /\ Len(Tail(p.jobs)) = Len(p.jobs) - 1 /\ Len(p.jobs) \in Nat \ {0}
  BY <1>1
<1>3. \A i \in 1 .. Len(p.jobs) - 1 : Tail(p.jobs)[i] = p.jobs[i + 1]
  BY <1>1
<1>4. <<>> \in Text
  BY DEF Text
<1>5. /\ y.pc = "hashing" /\ y.from = p.from /\ y.to = p.to /\ y.value = p.value
      /\ y.jobs = Tail(p.jobs) /\ y \in WritingSet
  BY <1>2, <1>4 DEF DoneWith, WritingSet, WritingPCs
<1> QED BY <1>1, <1>2, <1>3, <1>5

(* D!Kept, of the blocks B. *)
KeptOf(B, j, h) ==
  IF B[j.block].version # j.version THEN B[j.block]
  ELSE IF j.complete THEN [B[j.block] EXCEPT !.hash = h, !.hashing = FALSE]
  ELSE [B[j.block] EXCEPT !.head = h]

(* What keeping a hash changes: the block's hash and whether it is being hashed, or its head. *)
LEMMA KeptBlock ==
  ASSUME Sized, NEW d, NEW W, NEW B \in BlockMaps, NEW C, NEW x \in WritingSet, NEW j \in JobSet, j = x.jobs[1],
         JobFits(d, W, B, x, j), KeepFits(d, W, B, x), BlockFits(d, W, B, j.block),
         C = KeptOf(B, j, x.hashed)
  PROVE  /\ C \in BlockSet /\ C.version = B[j.block].version
         /\ C.hashing => B[j.block].hashing /\ j.version # C.version
         /\ C.hash # <<>> => D!From(j.block) + Len(C.hash) = D!To(j.block) /\ Right(d, W, C.hash, D!From(j.block))
         /\ D!From(j.block) + Len(C.head) <= D!To(j.block) /\ Right(d, W, C.head, D!From(j.block))
<1> PICK b \in D!Blocks, t \in Text : b = j.block /\ t = x.hashed
  BY DEF JobSet, WritingSet
<1> PICK k \in BlockSet : k = B[b]
  BY DEF BlockMaps
<1>1. /\ k.hash # <<>> => D!From(b) + Len(k.hash) = D!To(b) /\ Right(d, W, k.hash, D!From(b))
      /\ D!From(b) + Len(k.head) <= D!To(b) /\ Right(d, W, k.head, D!From(b))
  BY DEF BlockFits
<1>2. j.version = k.version => (k.hashing => j.complete)
  BY DEF JobFits
<1>3. /\ D!From(b) + Len(t) <= D!To(b)
      /\ j.version = k.version => /\ j.complete => t = <<>> \/ D!From(b) + Len(t) = D!To(b)
                                  /\ Right(d, W, t, D!From(b))
  BY DEF KeepFits
<1>4. CASE k.version # j.version
  <2>1. C = k
    BY <1>4 DEF KeptOf
  <2> QED BY <1>1, <1>4, <2>1
<1>5. CASE k.version = j.version /\ j.complete
  <2>1. C = [k EXCEPT !.hash = t, !.hashing = FALSE]
    BY <1>5 DEF KeptOf
  <2>2. C \in BlockSet /\ C.version = k.version /\ C.hashing = FALSE /\ C.hash = t /\ C.head = k.head
    BY <2>1 DEF BlockSet
  <2> QED BY <1>1, <1>3, <1>5, <2>2
<1>6. CASE k.version = j.version /\ ~j.complete
  <2>1. C = [k EXCEPT !.head = t]
    BY <1>6 DEF KeptOf
  <2>2. C \in BlockSet /\ C.version = k.version /\ C.hashing = k.hashing /\ C.hash = k.hash /\ C.head = t
    BY <2>1 DEF BlockSet
  <2>3. ~k.hashing
    BY <1>2, <1>6
  <2> QED BY <1>1, <1>3, <1>6, <2>2, <2>3
<1> QED BY <1>4, <1>5, <1>6

(* What a step of KeepHash does, in parts. *)
KeepsOne(w, p, j, C) ==
  /\ p = writer[w] /\ p.pc = "keeping" /\ p.jobs # <<>> /\ j = p.jobs[1]
  /\ C = D!Kept(j, p.hashed)
  /\ block' = [block EXCEPT ![j.block] = C]
  /\ writer' = [writer EXCEPT ![w] = DoneWith(p)]
  /\ UNCHANGED <<disk, written, followed, refollow, follower, digest>>

LEMMA KeepHashFits ==
  ASSUME Sized, HashesInv, NEW w \in Writers, D!KeepHash(w)
  PROVE  HashesInv'
<1> USE DEF HashesInv
<1> PICK p \in WritingSet : p = writer[w]
  BY DEF TypedHashes, Writings
<1>1. /\ writer \in Writings /\ block \in BlockMaps /\ follower \in FollowingSet /\ followed \in Nat
      /\ \A o \in Writers : writer[o] \in WritingSet
      /\ p.jobs \in Seq(JobSet)
  BY DEF TypedHashes, Writings, WritingSet
<1>2. p.pc = "keeping" /\ WriterFits(disk, writer, block, p)
  BY DEF D!KeepHash, WritersFit
<1>3. KeepFits(disk, writer, block, p) /\ p.jobs # <<>>
  BY <1>2 DEF WriterFits, KeepFits
<1>4. PICK j \in JobSet : j = p.jobs[1] /\ j = Head(p.jobs) /\ 1 \in DOMAIN p.jobs
  BY <1>1, <1>3
<1> DEFINE C == D!Kept(j, p.hashed)
           y == DoneWith(p)
<1>5. KeepsOne(w, p, j, C)
  <2>1. /\ block' = [block EXCEPT ![j.block] = C]
        /\ writer' = [writer EXCEPT ![w].pc = "hashing", ![w].jobs = Tail(@), ![w].hashed = <<>>]
        /\ UNCHANGED <<disk, written, followed, refollow, follower, digest>>
    BY <1>4 DEF D!KeepHash, D!Nothing
  <2>2. writer' = [writer EXCEPT ![w] = y]
    BY <2>1 DEF DoneWith
  <2> QED BY <1>2, <1>3, <1>4, <2>1, <2>2 DEF KeepsOne
<1> PICK b \in D!Blocks : b = j.block
  BY DEF JobSet
<1>6. JobFits(disk, writer, block, p, j)
  BY <1>2, <1>4 DEF WriterFits
<1>7. /\ C \in BlockSet /\ C.version = block[b].version
      /\ C.hashing => block[b].hashing /\ j.version # C.version
      /\ C.hash # <<>> => D!From(b) + Len(C.hash) = D!To(b) /\ Right(disk, writer, C.hash, D!From(b))
      /\ D!From(b) + Len(C.head) <= D!To(b) /\ Right(disk, writer, C.head, D!From(b))
  <2>1. BlockFits(disk, writer, block, j.block)
    BY DEF BlocksFit
  <2>2. C = KeptOf(block, j, p.hashed)
    BY DEF D!Kept, KeptOf
  <2> HIDE DEF C
  <2>3. block \in BlockMaps /\ j = p.jobs[1] /\ KeepFits(disk, writer, block, p)
    BY <1>1, <1>3, <1>4
  <2>4. /\ C \in BlockSet /\ C.version = block[j.block].version
        /\ C.hashing => block[j.block].hashing /\ j.version # C.version
        /\ C.hash # <<>> => D!From(j.block) + Len(C.hash) = D!To(j.block) /\ Right(disk, writer, C.hash, D!From(j.block))
        /\ D!From(j.block) + Len(C.head) <= D!To(j.block) /\ Right(disk, writer, C.head, D!From(j.block))
    BY <1>6, <2>1, <2>2, <2>3, KeptBlock
  <2> QED BY <2>4
<1> HIDE DEF C
<1>8. /\ y.pc = "hashing" /\ y.from = p.from /\ y.to = p.to /\ y.value = p.value
      /\ y.jobs = Tail(p.jobs) /\ y \in WritingSet
      /\ DOMAIN p.jobs = 1 .. Len(p.jobs) /\ Len(p.jobs) \in Nat
      /\ DOMAIN y.jobs = 1 .. Len(p.jobs) - 1
      /\ \A i \in DOMAIN y.jobs : i + 1 \in DOMAIN p.jobs /\ y.jobs[i] = p.jobs[i + 1]
  <2>1. y = DoneWith(p) /\ p.jobs # <<>>
    BY <1>3
  <2> HIDE DEF y
  <2> QED BY <2>1, KeptOne
<1> HIDE DEF y
<1>9. /\ \A o \in Writers : o # w => writer'[o] = writer[o]
      /\ writer'[w] = y /\ writer' = [writer EXCEPT ![w] = y]
      /\ \A c \in D!Blocks : c # b => block'[c] = block[c]
      /\ block'[b] = C /\ block' = [block EXCEPT ![b] = C]
      /\ UNCHANGED <<disk, written, followed, refollow, follower, digest>>
  BY <1>1, <1>5 DEF KeepsOne, Writings, BlockMaps, y
<1>10. writer' \in Writings /\ block' \in BlockMaps
  BY <1>1, <1>7, <1>8, <1>9 DEF Writings, BlockMaps
<1>11. TypedHashes'
  BY <1>9, <1>10 DEF TypedHashes
<1>12. \A o \in Writers : writer[o].pc = "written" =>
        writer'[o].pc = "written" /\ writer'[o].from = writer[o].from /\ writer'[o].to = writer[o].to
  BY <1>2, <1>9
<1>13. \A a, c \in Nat : Stays(disk, writer, disk, writer', a, c)
  BY <1>12, Unmoved
<1>14. \A c \in D!Blocks : Passes(disk, writer, block, disk, writer', block', c)
  <2>1. \A c \in D!Blocks : block'[c].version = block[c].version /\ (block'[c].hashing => block[c].hashing)
    BY <1>7, <1>9
  <2> QED BY <1>13, <2>1 DEF Passes
<1>15. ASSUME NEW o \in Writers
       PROVE  WriterFits(disk', writer', block', writer'[o])
  <2> PICK x \in WritingSet : x = writer[o]
    BY <1>1
  <2>1. WriterFits(disk, writer, block, x)
    BY DEF WritersFit
  <2>2. x.pc \in {"written", "hashing", "keeping"} => \A c \in x.from .. x.to - 1 : disk[c] = x.value
    BY <2>1 DEF WriterFits
  <2>3. WriterFits(disk, writer', block', x)
    BY <1>1, <1>10, <1>14, <2>1, <2>2, WriterStays
  <2>4. CASE o # w
    BY <1>9, <2>3, <2>4
  <2>5. CASE o = w
    <3>1. WriterFits(disk, writer', block', p)
      BY <2>3, <2>5
    <3>2. \A i \in DOMAIN p.jobs : JobFits(disk, writer', block', p, p.jobs[i])
      BY <3>1 DEF WriterFits
    <3>3. \A i \in DOMAIN y.jobs : JobFits(disk, writer', block', p, y.jobs[i])
      BY <1>8, <3>2
    <3>4. \A i \in DOMAIN y.jobs : JobFits(disk, writer', block', y, y.jobs[i])
      BY <1>8, <3>3 DEF JobFits
    <3>5. p.from < p.to /\ p.to <= Size /\ \A c \in p.from .. p.to - 1 : disk[c] = p.value
      BY <1>2, <3>1 DEF WriterFits
    <3>6. WriterFits(disk, writer', block', y)
      BY <1>8, <3>4, <3>5 DEF WriterFits
    <3> QED BY <1>9, <2>5, <3>6
  <2> QED BY <2>4, <2>5
<1>16. ASSUME NEW c \in D!Blocks
       PROVE  BlockFits(disk', writer', block', c)
  <2>1. BlockFits(disk, writer, block', c)
    <3>1. CASE c = b
      <4>1. block'[c] = C
        BY <1>9, <3>1
      <4> QED BY <1>7, <3>1, <4>1 DEF BlockFits
    <3>2. CASE c # b
      <4>1. block'[c] = block[c] /\ BlockFits(disk, writer, block, c)
        BY <1>9, <3>2 DEF BlocksFit
      <4> QED BY <4>1 DEF BlockFits
    <3> QED BY <3>1, <3>2
  <2>2. BlockFits(disk, writer', block', c)
    BY <1>10, <1>13, <2>1, BlockStays
  <2> QED BY <1>9, <2>2
<1>17. FollowerFits(disk', writer', block', follower', followed', refollow')
  <2>1. FollowerFits(disk, writer, block, follower, followed, refollow)
    BY DEF Following
  <2>2. FollowerFits(disk, writer', block', follower, followed, refollow)
    BY <1>1, <1>10, <1>13, <1>14, <2>1, FollowerStays
  <2> QED BY <1>9, <2>2
<1>18. WritersFit' /\ BlocksFit' /\ Following'
  BY <1>15, <1>16, <1>17 DEF WritersFit, BlocksFit, Following
<1>19. Agreed'
  <2>1. \A o \in Writers : /\ writer'[o].from = writer[o].from /\ writer'[o].to = writer[o].to
                           /\ writer'[o].value = writer[o].value /\ (writer'[o].pc = "idle" <=> writer[o].pc = "idle")
    BY <1>2, <1>8, <1>9
  <2> QED BY <2>1 DEF Agreed, Agree
<1>20. ASSUME NEW c \in D!Blocks, block'[c].hashing
       PROVE  \E o \in Writers : \E i \in DOMAIN writer'[o].jobs :
                writer'[o].jobs[i].block = c /\ writer'[o].jobs[i].version = block'[c].version
  <2>1. block[c].hashing /\ block'[c].version = block[c].version /\ (c = b => j.version # block[c].version)
    BY <1>7, <1>9, <1>20
  <2>2. PICK o \in Writers : \E i \in DOMAIN writer[o].jobs :
          writer[o].jobs[i].block = c /\ writer[o].jobs[i].version = block[c].version
    BY <2>1 DEF AreUnderWay, UnderWay
  <2>3. PICK i \in DOMAIN writer[o].jobs :
          writer[o].jobs[i].block = c /\ writer[o].jobs[i].version = block[c].version
    BY <2>2
  <2>4. CASE o # w
    <3>1. writer'[o] = writer[o]
      BY <1>9, <2>4
    <3> QED BY <2>1, <2>3, <3>1
  <2>5. CASE o = w
    <3>1. i \in 1 .. Len(p.jobs) /\ p.jobs[i].block = c /\ p.jobs[i].version = block[c].version
      BY <1>8, <2>3, <2>5
    <3>2. i # 1
      BY <1>4, <2>1, <3>1
    <3>3. i - 1 \in DOMAIN y.jobs /\ y.jobs[i - 1] = p.jobs[i]
      <4>1. i - 1 \in 1 .. Len(p.jobs) - 1 /\ (i - 1) + 1 = i
        BY <1>8, <3>1, <3>2
      <4> QED BY <1>8, <4>1
    <3> QED BY <1>9, <2>1, <2>5, <3>1, <3>3
  <2> QED BY <2>4, <2>5
<1>21. AreUnderWay'
  BY <1>20 DEF AreUnderWay, UnderWay
<1>22. Digesting'
  BY <1>2, <1>8, <1>9 DEF Digesting
<1>23. D!DigestIsOfFile'
  BY <1>9, DigestStays
<1> QED BY <1>11, <1>18, <1>19, <1>21, <1>22, <1>23

-----------------------------------------------------------------------------
(* The follower, and the digest. *)

(* A step of the follower alone that hashes no block. *)
LEMMA FollowerAlone ==
  ASSUME HashesInv, UNCHANGED <<disk, writer, written, block, refollow, digest>>, followed' \in Nat,
         follower' \in FollowingSet, follower'.digesting = follower.digesting,
         FollowerFits(disk, writer, block, follower', followed', refollow)
  PROVE  HashesInv'
<1> USE DEF HashesInv
<1>1. TypedHashes'
  BY DEF TypedHashes
<1>2. WritersFit' /\ Agreed' /\ BlocksFit' /\ AreUnderWay'
  BY DEF WritersFit, Agreed, BlocksFit, AreUnderWay
<1>3. Following'
  BY DEF Following
<1>4. Digesting'
  BY DEF Digesting
<1>5. D!DigestIsOfFile'
  BY DigestStays
<1> QED BY <1>1, <1>2, <1>3, <1>4, <1>5

LEMMA RestingFits ==
  ASSUME NEW B, NEW d, NEW W, NEW f \in FollowingSet, NEW g, NEW fd, NEW re, FollowerFits(d, W, B, f, fd, re),
         NEW q \in {"looking", "waiting", "done"}, g = [f EXCEPT !.pc = q]
  PROVE  g \in FollowingSet /\ g.digesting = f.digesting /\ FollowerFits(d, W, B, g, fd, re)
<1>1. g \in FollowingSet /\ g.pc = q /\ g.prefix = f.prefix /\ g.digesting = f.digesting
  BY DEF FollowingSet, FollowingPCs
<1> QED BY <1>1 DEF FollowerFits

LEMMA FollowRestFits ==
  ASSUME Sized, HashesInv, D!FollowStop \/ D!FollowWait \/ D!FollowReadFails
  PROVE  HashesInv'
<1>1. PICK q \in {"looking", "waiting", "done"} : follower' = [follower EXCEPT !.pc = q]
  BY DEF D!FollowStop, D!FollowWait, D!FollowReadFails
<1>2. UNCHANGED <<disk, writer, written, block, followed, refollow, digest>>
  BY DEF D!FollowStop, D!FollowWait, D!FollowReadFails, D!hashes
<1>3. followed \in Nat /\ follower \in FollowingSet /\ FollowerFits(disk, writer, block, follower, followed, refollow)
  BY DEF HashesInv, TypedHashes, Following
<1>4. follower' \in FollowingSet /\ follower'.digesting = follower.digesting
      /\ FollowerFits(disk, writer, block, follower', followed, refollow)
  BY <1>1, <1>3, RestingFits
<1> QED BY <1>2, <1>3, <1>4, FollowerAlone

LEMMA FollowPickFits ==
  ASSUME Sized, HashesInv, D!FollowPick
  PROVE  HashesInv'
<1> PICK f \in FollowingSet : f = follower
  BY DEF HashesInv, TypedHashes
<1>1. Len(f.prefix) \in Nat
  BY TextIs DEF FollowingSet
<1>2. PICK e \in Nat : /\ e = D!FollowEnd /\ e <= Size
                       /\ \A b \in D!Blocks : D!From(b) < e => D!To(b) <= e
  <2>1. written \subseteq D!Bytes
    BY DEF HashesInv, TypedHashes
  <2> QED BY <1>1, <2>1, FollowEnds
<1> DEFINE U == {<<i, block[i].version>> : i \in D!Unhashed(Len(f.prefix), e)}
<1>3. /\ Len(f.prefix) < e /\ followed' = e
      /\ follower' = [f EXCEPT !.pc = "reading", !.end = e, !.unhashed = U]
      /\ UNCHANGED <<disk, writer, written, block, refollow, digest>>
  BY <1>2 DEF D!FollowPick
<1>4. \A b \in D!Blocks : block[b].version \in Nat
  BY DEF HashesInv, TypedHashes, BlockMaps, BlockSet
<1>5. ASSUME NEW u \in U
      PROVE  /\ u \in D!Blocks \X Nat /\ Len(f.prefix) <= D!From(u[1]) /\ D!To(u[1]) <= e
             /\ u[2] <= block[u[1]].version
  <2>1. PICK i \in D!Unhashed(Len(f.prefix), e) : u = <<i, block[i].version>>
    OBVIOUS
  <2>2. i \in D!Blocks /\ Len(f.prefix) <= D!From(i) /\ D!From(i) < e
    BY DEF D!Unhashed
  <2> QED BY <1>2, <1>4, <2>1, <2>2
<1>6. U \in SUBSET (D!Blocks \X Nat)
  BY <1>5
<1> HIDE DEF U
<1>7. /\ follower' \in FollowingSet /\ follower'.digesting = follower.digesting
      /\ follower'.prefix = f.prefix /\ follower'.pc = "reading" /\ follower'.end = e /\ follower'.unhashed = U
  BY <1>3, <1>6 DEF FollowingSet, FollowingPCs
<1>8. ~refollow => Right(disk, writer, f.prefix, 0)
  BY DEF HashesInv, Following, FollowerFits
<1>9. FollowerFits(disk, writer, block, follower', followed', refollow)
  BY <1>1, <1>2, <1>3, <1>5, <1>7, <1>8 DEF FollowerFits
<1> QED BY <1>3, <1>7, <1>9, FollowerAlone

LEMMA FollowReadFits ==
  ASSUME Sized, HashesInv, D!FollowRead
  PROVE  HashesInv'
<1> PICK f \in FollowingSet : f = follower
  BY DEF HashesInv, TypedHashes
<1>0. f.pc = "reading" /\ UNCHANGED <<disk, writer, written, block, followed, refollow, digest>>
  BY DEF D!FollowRead, D!hashes
<1>1. FollowerFits(disk, writer, block, f, followed, refollow) /\ disk \in Disks /\ followed \in Nat
  BY DEF HashesInv, TypedHashes, Following
<1>p. PICK m \in Nat, e \in Nat : m = Len(f.prefix) /\ e = f.end
  BY TextIs DEF FollowingSet
<1>2. /\ m <= e /\ e <= Size /\ e = followed
      /\ ~refollow => Right(disk, writer, f.prefix, 0)
      /\ \A u \in f.unhashed : m <= D!From(u[1]) /\ D!To(u[1]) <= e /\ u[2] <= block[u[1]].version
  BY <1>0, <1>1, <1>p DEF FollowerFits
<1> DEFINE t == D!Contents(m, e)
<1>3. follower' = [f EXCEPT !.pc = "hashing", !.data = t]
  BY <1>p DEF D!FollowRead
<1>4. t = ReadOf(disk, m, e)
  BY ContentsRead
<1> HIDE DEF t
<1>5. t \in Text /\ Len(t) = e - m /\ Right(disk, writer, t, m)
  <2>1. m <= e /\ e <= Size /\ disk \in Disks
    BY <1>1, <1>2
  <2> QED BY <1>4, <2>1, ReadIsRight
<1>6. \A i \in 1 .. Len(t) : t[i] = disk[m + i - 1]
  BY <1>4, <1>5 DEF ReadOf
<1>7. /\ follower' \in FollowingSet /\ follower'.digesting = follower.digesting /\ follower'.prefix = f.prefix
      /\ follower'.pc = "hashing" /\ follower'.end = e /\ follower'.unhashed = f.unhashed /\ follower'.data = t
  BY <1>3, <1>5, <1>p DEF FollowingSet, FollowingPCs
<1>8. ASSUME NEW u \in f.unhashed
      PROVE  Right(disk, writer, PieceOf(follower', u[1]), D!From(u[1]))
  <2> PICK a \in Nat, c \in Nat : a = D!From(u[1]) /\ c = D!To(u[1]) /\ a < c
    BY BlockBounds DEF FollowingSet
  <2>1. m <= a /\ c <= m + Len(t)
    BY <1>2, <1>5
  <2>2. PieceOf(follower', u[1]) = SubSeq(t, a - m + 1, c - m)
    BY <1>7, <1>p DEF PieceOf
  <2>3. Right(disk, writer, SubSeq(t, a - m + 1, c - m), a)
    BY <1>5, <1>6, <2>1, RightPiece
  <2> QED BY <2>2, <2>3
<1>9. m + Len(t) = e
  BY <1>2, <1>5
<1>10. FollowerFits(disk, writer, block, follower', followed, refollow)
  BY <1>1, <1>2, <1>5, <1>7, <1>8, <1>9, <1>p DEF FollowerFits
<1> QED BY <1>0, <1>1, <1>7, <1>10, FollowerAlone

LEMMA FollowOnFits ==
  ASSUME Sized, HashesInv, D!FollowOn
  PROVE  HashesInv'
<1> PICK f \in FollowingSet : f = follower
  BY DEF HashesInv, TypedHashes
<1>0. f.pc = "hashing" /\ UNCHANGED <<disk, writer, written, block, followed, refollow, digest>>
  BY DEF D!FollowOn, D!hashes
<1>1. FollowerFits(disk, writer, block, f, followed, refollow) /\ writer \in Writings /\ followed \in Nat
  BY DEF HashesInv, TypedHashes, Following
<1> PICK t \in Text, u \in Text : t = f.prefix /\ u = f.data
  BY DEF FollowingSet
<1>2. /\ Len(t) + Len(u) = followed /\ followed <= Size
      /\ ~refollow => Right(disk, writer, t, 0) /\ Right(disk, writer, u, Len(t))
  BY <1>0, <1>1 DEF FollowerFits
<1>3. Len(t) \in Nat /\ 0 + Len(t) = Len(t)
  BY TextIs
<1>4. t \o u \in Text /\ Len(t \o u) = Len(t) + Len(u)
  BY ConcatProperties DEF Text
<1>5. ~refollow => Right(disk, writer, t \o u, 0)
  BY <1>1, <1>2, <1>3, RightWhole
<1>6. follower' = [f EXCEPT !.pc = "looking", !.prefix = t \o u, !.data = <<>>, !.end = 0]
  BY DEF D!FollowOn, D!Nothing
<1> DEFINE v == t \o u
<1>7. v \in Text /\ Len(v) = followed /\ (~refollow => Right(disk, writer, v, 0))
      /\ follower' = [f EXCEPT !.pc = "looking", !.prefix = v, !.data = <<>>, !.end = 0]
  BY <1>2, <1>4, <1>5, <1>6, Zenon
<1> HIDE DEF v
<1>8. /\ follower' \in FollowingSet /\ follower'.digesting = follower.digesting
      /\ follower'.prefix = v /\ follower'.pc = "looking"
  <2>1. <<>> \in Text
    BY DEF Text
  <2> QED BY <1>7, <2>1 DEF FollowingSet, FollowingPCs
<1>9. FollowerFits(disk, writer, block, follower', followed, refollow)
  BY <1>1, <1>2, <1>7, <1>8 DEF FollowerFits
<1> QED BY <1>0, <1>1, <1>8, <1>9, FollowerAlone

(* A step that sets blocks' hashes, each to a right one. *)
LEMMA HashesOnly ==
  ASSUME Sized, HashesInv, block' \in BlockMaps, UNCHANGED <<disk, writer>>,
         \A b \in D!Blocks : /\ block'[b].version = block[b].version /\ block'[b].hashing = block[b].hashing
                             /\ block'[b].head = block[b].head
                             /\ block'[b].hash # block[b].hash =>
                                  /\ D!From(b) + Len(block'[b].hash) = D!To(b)
                                  /\ Right(disk, writer, block'[b].hash, D!From(b))
  PROVE  /\ WritersFit' /\ Agreed' /\ BlocksFit' /\ AreUnderWay'
         /\ FollowerFits(disk, writer, block', follower, followed, refollow)
<1> USE DEF HashesInv
<1>1. /\ \A a, c \in Nat : Stays(disk, writer, disk, writer, a, c)
      /\ \A b \in D!Blocks : Passes(disk, writer, block, disk, writer, block', b)
  BY Unmoved DEF Passes
<1>2. block \in BlockMaps /\ follower \in FollowingSet /\ followed \in Nat /\ \A o \in Writers : writer[o] \in WritingSet
  BY DEF TypedHashes, Writings
<1>3. WritersFit'
  <2> SUFFICES ASSUME NEW o \in Writers
               PROVE  WriterFits(disk', writer', block', writer'[o])
    BY DEF WritersFit
  <2> PICK x \in WritingSet : x = writer[o]
    BY <1>2
  <2>1. WriterFits(disk, writer, block, x)
    BY DEF WritersFit
  <2>2. x.pc \in {"written", "hashing", "keeping"} => \A c \in x.from .. x.to - 1 : disk[c] = x.value
    BY <2>1 DEF WriterFits
  <2>3. WriterFits(disk, writer, block', x)
    BY <1>1, <1>2, <2>1, <2>2, WriterStays
  <2> QED BY <2>3
<1>4. BlocksFit'
  <2> SUFFICES ASSUME NEW b \in D!Blocks
               PROVE  BlockFits(disk', writer', block', b)
    BY DEF BlocksFit
  <2>1. BlockFits(disk, writer, block, b)
    BY DEF BlocksFit
  <2>2. BlockFits(disk, writer, block', b)
    BY <2>1 DEF BlockFits
  <2> QED BY <2>2
<1>5. Agreed' /\ AreUnderWay'
  BY DEF Agreed, AreUnderWay, UnderWay
<1>6. FollowerFits(disk, writer, block', follower, followed, refollow)
  <2>1. FollowerFits(disk, writer, block, follower, followed, refollow)
    BY DEF Following
  <2> QED BY <1>1, <1>2, <2>1, FollowerStays
<1> QED BY <1>3, <1>4, <1>5, <1>6

LEMMA FollowHashFits ==
  ASSUME Sized, HashesInv, D!FollowHash
  PROVE  HashesInv'
<1> USE DEF HashesInv
<1> PICK f \in FollowingSet : f = follower
  BY DEF TypedHashes
<1>0. /\ f.pc = "hashing" /\ UNCHANGED <<disk, writer, written, followed, refollow, digest>>
      /\ block \in BlockMaps /\ followed \in Nat
  BY DEF D!FollowHash, TypedHashes
<1>1. PICK u \in f.unhashed :
        /\ block' = IF block[u[1]].version # u[2] THEN block ELSE [block EXCEPT ![u[1]].hash =
             SubSeq(f.data, D!From(u[1]) - Len(f.prefix) + 1, D!To(u[1]) - Len(f.prefix))]
        /\ follower' = [f EXCEPT !.unhashed = f.unhashed \ {u}]
  BY DEF D!FollowHash
<1> PICK b \in D!Blocks : b = u[1]
  BY DEF FollowingSet
<1> PICK h : h = PieceOf(f, b)
  OBVIOUS
<1>2. block' = IF block[b].version # u[2] THEN block ELSE [block EXCEPT ![b].hash = h]
  BY <1>1 DEF PieceOf
<1>3. FollowerFits(disk, writer, block, f, followed, refollow)
  BY DEF Following
<1>4. /\ u[2] = block[b].version => Right(disk, writer, h, D!From(b))
      /\ Len(f.prefix) <= D!From(b) /\ D!To(b) <= Len(f.prefix) + Len(f.data)
  BY <1>0, <1>3 DEF FollowerFits
<1>5. h \in Text /\ D!From(b) + Len(h) = D!To(b)
  BY <1>4, PieceLength
<1>6. /\ block' \in BlockMaps
      /\ \A c \in D!Blocks : /\ block'[c].version = block[c].version /\ block'[c].hashing = block[c].hashing
                             /\ block'[c].head = block[c].head
                             /\ block'[c].hash # block[c].hash =>
                                  /\ D!From(c) + Len(block'[c].hash) = D!To(c)
                                  /\ Right(disk, writer, block'[c].hash, D!From(c))
  <2>1. CASE block[b].version # u[2]
    BY <1>0, <1>2, <2>1
  <2>2. CASE block[b].version = u[2]
    <3>1. block' = [block EXCEPT ![b].hash = h]
      BY <1>2, <2>2
    <3>2. block[b] \in BlockSet
      BY <1>0 DEF BlockMaps
    <3>3. /\ block'[b] = [block[b] EXCEPT !.hash = h]
          /\ \A c \in D!Blocks : c # b => block'[c] = block[c]
      BY <1>0, <3>1 DEF BlockMaps
    <3>4. /\ block'[b].version = block[b].version /\ block'[b].hashing = block[b].hashing
          /\ block'[b].head = block[b].head /\ block'[b].hash = h /\ block'[b] \in BlockSet
      BY <1>5, <3>2, <3>3 DEF BlockSet
    <3>5. block' \in BlockMaps
      BY <1>0, <3>1, <3>3, <3>4 DEF BlockMaps
    <3>6. ASSUME NEW c \in D!Blocks
          PROVE  /\ block'[c].version = block[c].version /\ block'[c].hashing = block[c].hashing
                 /\ block'[c].head = block[c].head
                 /\ block'[c].hash # block[c].hash =>
                      /\ D!From(c) + Len(block'[c].hash) = D!To(c)
                      /\ Right(disk, writer, block'[c].hash, D!From(c))
      <4>1. CASE c = b
        BY <1>4, <1>5, <2>2, <3>4, <4>1
      <4>2. CASE c # b
        BY <3>3, <4>2
      <4> QED BY <4>1, <4>2
    <3> QED BY <3>5, <3>6
  <2> QED BY <2>1, <2>2
<1>7. /\ WritersFit' /\ Agreed' /\ BlocksFit' /\ AreUnderWay'
      /\ FollowerFits(disk, writer, block', f, followed, refollow)
  BY <1>0, <1>6, HashesOnly
<1>8. /\ follower' \in FollowingSet /\ follower'.digesting = f.digesting /\ follower'.pc = f.pc
      /\ follower'.prefix = f.prefix /\ follower'.end = f.end /\ follower'.data = f.data
      /\ follower'.unhashed \subseteq f.unhashed
  BY <1>1 DEF FollowingSet
<1>9. FollowerFits(disk, writer, block', follower', followed, refollow)
  <2>1. \A i : PieceOf(follower', i) = PieceOf(f, i)
    BY <1>8 DEF PieceOf
  <2> QED BY <1>7, <1>8, <2>1 DEF FollowerFits
<1>10. TypedHashes' /\ Following'
  BY <1>0, <1>6, <1>8, <1>9 DEF TypedHashes, Following
<1>11. Digesting'
  BY <1>0, <1>8 DEF Digesting
<1>12. D!DigestIsOfFile'
  BY <1>0, DigestStays
<1> QED BY <1>7, <1>10, <1>11, <1>12

LEMMA StopFollowerFits ==
  ASSUME Sized, HashesInv, D!StopFollower
  PROVE  HashesInv'
<1> USE DEF HashesInv
<1>0. /\ \A w \in Writers : writer[w].pc = "idle"
      /\ UNCHANGED <<disk, writer, written, block, followed, refollow, digest>>
      /\ follower' = [D!Woken EXCEPT !.digesting = TRUE]
  BY DEF D!StopFollower
<1>1. follower \in FollowingSet /\ FollowerFits(disk, writer, block, follower, followed, refollow)
  BY DEF TypedHashes, Following
<1>2. D!Woken = follower \/ (follower.pc = "waiting" /\ D!Woken = [follower EXCEPT !.pc = "looking"])
  BY DEF D!Woken
<1>3. PICK g \in FollowingSet : g = D!Woken /\ FollowerFits(disk, writer, block, g, followed, refollow)
  BY <1>1, <1>2, WokenFits
<1>4. follower' = [g EXCEPT !.digesting = TRUE]
  BY <1>0, <1>3
<1>5. /\ follower' \in FollowingSet /\ follower'.pc = g.pc /\ follower'.prefix = g.prefix /\ follower'.end = g.end
      /\ follower'.data = g.data /\ follower'.unhashed = g.unhashed
  BY <1>4 DEF FollowingSet
<1>6. FollowerFits(disk, writer, block, follower', followed, refollow)
  <2>1. \A i : PieceOf(follower', i) = PieceOf(g, i)
    BY <1>5 DEF PieceOf
  <2> QED BY <1>3, <1>5, <2>1 DEF FollowerFits
<1>7. TypedHashes' /\ Following'
  BY <1>0, <1>5, <1>6 DEF TypedHashes, Following
<1>8. WritersFit' /\ Agreed' /\ BlocksFit' /\ AreUnderWay'
  BY <1>0 DEF WritersFit, Agreed, BlocksFit, AreUnderWay
<1>9. Digesting'
  BY <1>0 DEF Digesting
<1>10. D!DigestIsOfFile'
  BY <1>0, DigestStays
<1> QED BY <1>7, <1>8, <1>9, <1>10

(* A right text nobody writes to is what is read there. *)
LEMMA RightIsRead ==
  ASSUME NEW d, NEW W, NEW t \in Text, NEW a \in Nat, NEW c \in Nat, a + Len(t) = c, Right(d, W, t, a), Quiet(W, a, c)
  PROVE  t = ReadOf(d, a, c)
<1>1. Len(t) = c - a /\ DOMAIN t = 1 .. Len(t) /\ t = [i \in DOMAIN t |-> t[i]]
  <2>1. Len(t) \in Nat /\ DOMAIN t = 1 .. Len(t) /\ t = [i \in DOMAIN t |-> t[i]]
    BY DEF Text
  <2> QED BY <2>1
<1>2. \A i \in 1 .. c - a : t[i] = d[a + i - 1]
  BY <1>1 DEF Right
<1> QED BY <1>1, <1>2 DEF ReadOf

LEMMA MergedIs ==
  ASSUME Sized, HashesInv, NEW b \in D!Blocks, Quiet(writer, D!From(b), D!To(b))
  PROVE  /\ D!Merged(b) = D!Contents(D!From(b), D!To(b))
         /\ D!Merged(b) \in Text /\ D!From(b) + Len(D!Merged(b)) = D!To(b) /\ Right(disk, writer, D!Merged(b), D!From(b))
<1> PICK a \in Nat, c \in Nat : a = D!From(b) /\ c = D!To(b) /\ a < c /\ c <= Size
  BY BlockBounds
<1>1. D!Contents(a, c) = ReadOf(disk, a, c)
  BY ContentsRead
<1>2. D!Merged(b) = D!Contents(a, c)
  <2>1. CASE block[b].hash = <<>>
    BY <2>1 DEF D!Merged, D!Nothing
  <2>2. CASE block[b].hash # <<>>
    <3> PICK h \in Text : h = block[b].hash
      BY DEF HashesInv, TypedHashes, BlockMaps, BlockSet
    <3>1. a + Len(h) = c /\ Right(disk, writer, h, a)
      BY <2>2 DEF HashesInv, BlocksFit, BlockFits
    <3>2. h = ReadOf(disk, a, c)
      BY <3>1, RightIsRead
    <3> QED BY <1>1, <2>2, <3>2 DEF D!Merged, D!Nothing
  <2> QED BY <2>1, <2>2
<1> DEFINE t == D!Contents(a, c)
<1>3. disk \in Disks
  BY DEF HashesInv, TypedHashes
<1> HIDE DEF t
<1>4. t \in Text /\ Len(t) = c - a /\ Right(disk, writer, t, a)
  <2>1. t = ReadOf(disk, a, c)
    BY <1>1 DEF t
  <2> QED BY <1>3, <2>1, ReadIsRight
<1>5. a + Len(t) = c
  BY <1>4
<1> QED BY <1>2, <1>4, <1>5 DEF t

LEMMA DigestFits ==
  ASSUME Sized, HashesInv, D!Digest
  PROVE  HashesInv'
<1> USE DEF HashesInv
<1> PICK f \in FollowingSet : f = follower
  BY DEF TypedHashes
<1>0. /\ f.digesting
      /\ digest' = [blocks |-> [b \in D!Blocks |-> D!Merged(b)],
                    extra |-> D!FollowedTo \o D!Contents(Len(D!FollowedTo), Size)]
      /\ block' = [b \in D!Blocks |-> [block[b] EXCEPT !.hash = D!Merged(b)]]
      /\ follower' = [f EXCEPT !.pc = "joined", !.prefix = <<>>, !.unhashed = {}, !.end = 0, !.digesting = FALSE]
      /\ UNCHANGED <<disk, writer, written, followed, refollow>>
  BY DEF D!Digest, D!Nothing
<1>1. /\ disk \in Disks /\ writer \in Writings /\ block \in BlockMaps /\ followed \in Nat /\ refollow \in BOOLEAN
      /\ \A w \in Writers : writer[w].pc = "idle"
  BY <1>0 DEF TypedHashes, Digesting
<1>2. \A a, c : Quiet(writer, a, c)
  BY <1>1 DEF Quiet
<1>3. \A b \in D!Blocks :
        /\ D!Merged(b) = D!Contents(D!From(b), D!To(b))
        /\ D!Merged(b) \in Text /\ D!From(b) + Len(D!Merged(b)) = D!To(b) /\ Right(disk, writer, D!Merged(b), D!From(b))
  BY <1>2, MergedIs
<1>4. \A b \in D!Blocks : /\ block'[b].version = block[b].version /\ block'[b].hashing = block[b].hashing
                          /\ block'[b].head = block[b].head /\ block'[b].hash = D!Merged(b) /\ block'[b] \in BlockSet
  <2> SUFFICES ASSUME NEW b \in D!Blocks
               PROVE  /\ block'[b].version = block[b].version /\ block'[b].hashing = block[b].hashing
                      /\ block'[b].head = block[b].head /\ block'[b].hash = D!Merged(b) /\ block'[b] \in BlockSet
    OBVIOUS
  <2> PICK h \in Text, k \in BlockSet : h = D!Merged(b) /\ k = block[b]
    BY <1>1, <1>3 DEF BlockMaps
  <2>1. block'[b] = [k EXCEPT !.hash = h]
    BY <1>0
  <2> QED BY <2>1 DEF BlockSet
<1>5. block' \in BlockMaps
  BY <1>0, <1>4 DEF BlockMaps
<1>6. WritersFit' /\ Agreed' /\ BlocksFit' /\ AreUnderWay'
  BY <1>0, <1>3, <1>4, <1>5, HashesOnly
<1>7. /\ follower' \in FollowingSet /\ follower'.pc = "joined" /\ follower'.prefix = <<>> /\ ~follower'.digesting
  <2>1. <<>> \in Text
    BY DEF Text
  <2> QED BY <1>0, <2>1 DEF FollowingSet, FollowingPCs
<1>8. FollowerFits(disk', writer', block', follower', followed', refollow')
  <2>1. followed <= Size
    BY DEF Following, FollowerFits
  <2>2. Right(disk, writer, <<>>, 0) /\ Len(<<>>) = 0
    BY NothingIsRight
  <2> QED BY <1>0, <1>1, <1>7, <2>1, <2>2 DEF FollowerFits
<1>9. TypedHashes' /\ Following'
  BY <1>0, <1>1, <1>5, <1>7, <1>8 DEF TypedHashes, Following
<1>10. Digesting'
  BY <1>0, <1>1 DEF Digesting
<1>11. D!FollowedTo \o D!Contents(Len(D!FollowedTo), Size) = D!Contents(0, Size)
  <2>1. PICK t \in Text : t = D!FollowedTo /\ Len(t) <= Size /\ Right(disk, writer, t, 0)
    <3>1. Len(f.prefix) <= followed /\ followed <= Size /\ (~refollow => Right(disk, writer, f.prefix, 0))
      BY DEF Following, FollowerFits
    <3>2. f.prefix \in Text /\ Len(f.prefix) \in Nat /\ Size \in Nat
      BY TextIs DEF FollowingSet, Sized
    <3>3. Len(f.prefix) <= Size
      BY <1>1, <3>1, <3>2
    <3>4. Right(disk, writer, <<>>, 0) /\ <<>> \in Text /\ Len(<<>>) = 0
      BY NothingIsRight
    <3> QED BY <3>1, <3>2, <3>3, <3>4 DEF D!FollowedTo, D!Nothing
  <2>2. PICK m \in Nat : m = Len(t) /\ m <= Size /\ Size \in Nat
    BY <2>1, TextIs DEF Sized
  <2> PICK u : u = D!Contents(m, Size)
    OBVIOUS
  <2>3. u = ReadOf(disk, m, Size)
    BY ContentsRead
  <2>4. u \in Text /\ Len(u) = Size - m /\ Right(disk, writer, u, 0 + m)
    <3>1. 0 + m = m /\ Size <= Size
      BY <2>2
    <3> QED BY <1>1, <2>2, <2>3, <3>1, ReadIsRight
  <2>5. t \o u \in Text /\ Len(t \o u) = Len(t) + Len(u) /\ Right(disk, writer, t \o u, 0)
    BY <1>1, <2>1, <2>2, <2>4, RightWhole
  <2>6. 0 + (m + (Size - m)) = Size
    BY <2>2
  <2>7. 0 + Len(t \o u) = Size
    BY <2>2, <2>4, <2>5, <2>6, Zenon
  <2>8. t \o u = ReadOf(disk, 0, Size)
    BY <1>2, <2>2, <2>5, <2>7, RightIsRead
  <2>9. D!Contents(0, Size) = ReadOf(disk, 0, Size)
    BY ContentsRead
  <2> QED BY <2>1, <2>2, <2>8, <2>9, Zenon
<1>12. D!DigestIsOfFile'
  <2>1. /\ \A b \in D!Blocks : digest'.blocks[b] = D!Contents(D!From(b), D!To(b))
        /\ digest'.extra = D!Contents(0, Size)
    BY <1>0, <1>3, <1>11
  <2>2. \A a, c : D!Contents(a, c)' = D!Contents(a, c)
    BY <1>0 DEF D!Contents
  <2> QED BY <2>1, <2>2 DEF D!DigestIsOfFile
<1> QED BY <1>6, <1>9, <1>10, <1>12

-----------------------------------------------------------------------------
LEMMA InitFits ==
  ASSUME Sized, D!Init
  PROVE  HashesInv
<1>0. PICK wr \in SUBSET D!Bytes : written = wr
  BY DEF D!Init
<1>1. /\ disk = [b \in D!Bytes |-> IF b \in wr THEN CHOOSE v \in Values : TRUE ELSE Hole]
      /\ writer = [w \in Writers |-> D!IdleWriter]
      /\ block = [b \in D!Blocks |-> [version |-> 0, hash |-> <<>>, hashing |-> FALSE, head |-> <<>>]]
      /\ followed = 0 /\ refollow = FALSE /\ digest = <<>>
      /\ follower = [pc |-> "looking", prefix |-> <<>>, end |-> 0, unhashed |-> {}, data |-> <<>>, digesting |-> FALSE]
  BY <1>0 DEF D!Init, D!Nothing
<1>2. D!IdleWriter = [pc |-> "idle", from |-> 0, to |-> 0, value |-> Hole, jobs |-> <<>>, hashed |-> <<>>]
  BY DEF D!IdleWriter, D!Nothing
<1>3. <<>> \in Text /\ <<>> \in Seq(JobSet) /\ Len(<<>>) = 0 /\ DOMAIN <<>> = {} /\ Size \in Nat
  BY DEF Text, Sized
<1>4. disk \in Disks
  <2>1. (CHOOSE v \in Values : TRUE) \in Datum /\ Hole \in Datum
    BY DEF Sized, Datum
  <2> QED BY <1>1, <2>1 DEF Disks
<1>5. writer \in Writings
  <2>1. D!IdleWriter \in WritingSet
    BY <1>2, <1>3 DEF WritingSet, WritingPCs, Datum
  <2> QED BY <1>1, <2>1 DEF Writings
<1>6. block \in BlockMaps
  BY <1>1, <1>3 DEF BlockMaps, BlockSet
<1>7. follower \in FollowingSet
  BY <1>1, <1>3 DEF FollowingSet, FollowingPCs
<1>8. TypedHashes
  BY <1>0, <1>1, <1>4, <1>5, <1>6, <1>7 DEF TypedHashes
<1>9. \A w \in Writers : writer[w].pc = "idle" /\ writer[w].jobs = <<>>
  BY <1>1, <1>2
<1>10. WritersFit
  BY <1>3, <1>9 DEF WritersFit, WriterFits
<1>11. Agreed /\ Digesting
  BY <1>9 DEF Agreed, Agree, Digesting
<1>12. BlocksFit
  <2> SUFFICES ASSUME NEW b \in D!Blocks
               PROVE  BlockFits(disk, writer, block, b)
    BY DEF BlocksFit
  <2>1. block[b].hash = <<>> /\ block[b].head = <<>> /\ D!From(b) + 0 <= D!To(b)
    BY <1>1, BlockBounds
  <2>2. Right(disk, writer, <<>>, D!From(b))
    BY NothingIsRight
  <2> QED BY <1>3, <2>1, <2>2 DEF BlockFits
<1>13. AreUnderWay
  BY <1>1 DEF AreUnderWay, UnderWay
<1>14. Following
  <2>1. Right(disk, writer, <<>>, 0)
    BY NothingIsRight
  <2>2. follower.pc = "looking" /\ follower.prefix = <<>>
    BY <1>1
  <2> QED BY <1>1, <1>3, <2>1, <2>2 DEF Following, FollowerFits
<1>15. D!DigestIsOfFile
  BY <1>1 DEF D!DigestIsOfFile, D!Nothing
<1> QED BY <1>8, <1>10, <1>11, <1>12, <1>13, <1>14, <1>15 DEF HashesInv

LEMMA StutterFits ==
  ASSUME HashesInv, UNCHANGED D!vars
  PROVE  HashesInv'
<1>1. UNCHANGED <<disk, writer, written, block, followed, refollow, follower, digest>>
  BY DEF D!vars, D!hashes
<1>2. D!DigestIsOfFile'
  BY <1>1, DigestStays DEF HashesInv
<1> QED BY <1>1, <1>2 DEF HashesInv, TypedHashes, WritersFit, Agreed, BlocksFit, AreUnderWay, Following, Digesting

LEMMA StepFits ==
  ASSUME Sized, HashesInv, [D!Next]_(D!vars)
  PROVE  HashesInv'
<1>1. CASE D!Follow
  BY <1>1, FollowRestFits, FollowPickFits, FollowReadFits, FollowHashFits, FollowOnFits DEF D!Follow
<1>2. CASE D!StopFollower
  BY <1>2, StopFollowerFits
<1>3. CASE D!Digest
  BY <1>3, DigestFits
<1>4. ASSUME NEW w \in Writers, D!BeginWrite(w) \/ D!Write(w)
      PROVE  HashesInv'
  BY <1>4, BeginWriteFits, WriteBytesFits, WroteFits, HashBlockFits, ReadBackFailsFits, KeepHashFits, EndWriteFits
     DEF D!Write
<1>5. CASE UNCHANGED D!vars
  BY <1>5, StutterFits
<1> QED BY <1>1, <1>2, <1>3, <1>4, <1>5 DEF D!Next

LEMMA HashesFollow == ASSUME Sized PROVE D!Spec => []HashesInv
<1>1. D!Init => HashesInv
  BY InitFits
<1>2. HashesInv /\ [D!Next]_(D!vars) => HashesInv'
  BY StepFits
<1> QED BY <1>1, <1>2, PTL DEF D!Spec

(* A block's hash is of what the block holds, and so is a head of its first bytes, except for a write   *)
(* that is yet to be recorded, and a block counts as being hashed only while a writer is at it, whatever *)
(* writes race, come in any order or again with other bytes (storage.rs: wrote, hash_read).              *)
THEOREM BlocksKnown == ASSUME Sized PROVE D!Spec => []D!BlocksAreKnown
<1>1. ASSUME Sized, HashesInv
      PROVE  D!BlocksAreKnown
  <2>1. \A a, c : ~D!Overwriting(a, c) => Quiet(writer, a, c)
    BY DEF D!Overwriting, Quiet
  <2>2. ASSUME NEW b \in D!Blocks
        PROVE  /\ block[b].hash # <<>> /\ ~D!Overwriting(D!From(b), D!To(b)) =>
                    block[b].hash = D!Contents(D!From(b), D!To(b))
               /\ ~D!Overwriting(D!From(b), D!From(b) + Len(block[b].head)) =>
                    block[b].head = D!Contents(D!From(b), D!From(b) + Len(block[b].head))
    <3>1. BlockFits(disk, writer, block, b)
      BY <1>1 DEF HashesInv, BlocksFit
    <3>2. PICK h \in Text, t \in Text : h = block[b].hash /\ t = block[b].head
      BY <1>1 DEF HashesInv, TypedHashes, BlockMaps, BlockSet
    <3>3. PICK a \in Nat, c \in Nat, n \in Nat : a = D!From(b) /\ c = D!To(b) /\ n = a + Len(t)
      BY <1>1, BlockBounds, TextIs
    <3>4. ASSUME h # <<>>, ~D!Overwriting(a, c)
          PROVE  h = D!Contents(a, c)
      <4>1. a + Len(h) = c /\ Right(disk, writer, h, a)
        BY <3>1, <3>2, <3>3, <3>4 DEF BlockFits
      <4>2. h = ReadOf(disk, a, c)
        BY <2>1, <3>4, <4>1, RightIsRead
      <4> QED BY <4>2, ContentsRead
    <3>5. ASSUME ~D!Overwriting(a, n)
          PROVE  t = D!Contents(a, n)
      <4>1. Right(disk, writer, t, a) /\ a + Len(t) = n
        BY <3>1, <3>2, <3>3 DEF BlockFits
      <4>2. t = ReadOf(disk, a, n)
        BY <2>1, <3>5, <4>1, RightIsRead
      <4> QED BY <4>2, ContentsRead
    <3> QED BY <3>2, <3>3, <3>4, <3>5
  <2>3. D!HashIsOfBlock
    BY <2>2 DEF D!HashIsOfBlock, D!Nothing
  <2>4. D!HeadIsOfBlock
    BY <2>2 DEF D!HeadIsOfBlock
  <2>5. D!HashingIsUnderWay
    BY <1>1 DEF HashesInv, AreUnderWay, UnderWay, D!HashingIsUnderWay
  <2> QED BY <2>3, <2>4, <2>5 DEF D!BlocksAreKnown
<1> QED BY <1>1, HashesFollow, PTL

(* The digest of a download is of the file on the disk, by every algorithm, also a second one after    *)
(* pieces were written again, from blocks' hashes made by racing writers and from a prefix hashed      *)
(* behind them (storage.rs: digest, follow).                                                           *)
THEOREM DigestsAreRight == ASSUME Sized PROVE D!Spec => []D!DigestIsOfFile
<1>1. HashesInv => D!DigestIsOfFile
  BY DEF HashesInv
<1> QED BY <1>1, HashesFollow, PTL
==============================================================================
