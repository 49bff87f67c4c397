--------------------------- MODULE TargetNamesProofs ---------------------------
(***************************************************************************)
(* TargetNames for any downloads, tools, addresses and bases: what each    *)
(* fetches into is its own (OwnsWhatItWrites), and nothing is replaced.    *)
(***************************************************************************)
EXTENDS TargetNames, TLAPS, SequenceTheorems, FiniteSetTheorems

(* Addresses, actors, names, what the user's files hold and nothing are told apart. *)
ToldApart ==
  /\ Url \in [Downloads -> Urls] /\ Base \in [Downloads -> Bases] /\ Shown \in [Bases -> Bases]
  /\ None \notin Urls \cup Actors \cup Names \cup {Mine} /\ Mine \notin Urls
  /\ Downloads \cap Tools = {}
  /\ IsFiniteSet(Bases) /\ MaxN \in Nat
  /\ Budgets \subseteq [World -> Nat]

-----------------------------------------------------------------------------
(* Names, as sequences. *)
LEMMA AppendToOne == ASSUME NEW b, NEW c PROVE Append(<<b>>, c) = <<b, c>>
  <1> DEFINE S == {b, c}
  <1>1. <<b>> \in Seq(S) /\ <<b, c>> \in Seq(S) /\ c \in S OBVIOUS
  <1>2. /\ Append(<<b>>, c) \in Seq(S) /\ Len(Append(<<b>>, c)) = Len(<<b>>) + 1
        /\ \A i \in 1 .. Len(<<b>>) : Append(<<b>>, c)[i] = <<b>>[i]
        /\ Append(<<b>>, c)[Len(<<b>>) + 1] = c
    BY <1>1, AppendProperties
  <1> HIDE DEF S
  <1>3. \A i \in 1 .. Len(<<b, c>>) : Append(<<b>>, c)[i] = <<b, c>>[i]
    BY <1>2
  <1>4. Len(<<b, c>>) = 2 /\ Len(<<b>>) = 1 OBVIOUS
  <1>5. Len(Append(<<b>>, c)) = Len(<<b, c>>) BY <1>2, <1>4
  <1>6. \A i \in 1 .. Len(Append(<<b>>, c)) : Append(<<b>>, c)[i] = <<b, c>>[i] BY <1>3, <1>5
  <1> QED BY <1>1, <1>2, <1>5, <1>6, SeqEqual, Zenon

LEMMA OtherFirst == ASSUME NEW b, NEW s, NEW c PROVE <<s>> \o Tail(<<b, c>>) = <<s, c>>
  <1>1. Tail(<<b, c>>) = <<c>>
    <2>1. <<b, c>> = Append(<<b>>, c) BY AppendToOne
    <2>2. Tail(Append(<<b>>, c)) = <<c>>
      <3> DEFINE S == {b, c}
      <3>1. <<b>> \in Seq(S) /\ <<b, c>> \in Seq(S) /\ <<c>> \in Seq(S) OBVIOUS
      <3>2. /\ Tail(<<b, c>>) \in Seq(S) /\ Len(Tail(<<b, c>>)) = 1 /\ Tail(<<b, c>>)[1] = c
        BY <3>1, HeadTailProperties
      <3> HIDE DEF S
      <3>3. Len(<<c>>) = 1 /\ Len(Tail(<<b, c>>)) = Len(<<c>>) BY <3>2
      <3>4. \A i \in 1 .. Len(Tail(<<b, c>>)) : Tail(<<b, c>>)[i] = <<c>>[i] BY <3>2
      <3> QED BY <2>1, <3>1, <3>2, <3>3, <3>4, SeqEqual, Zenon
    <2> QED BY <2>1, <2>2
  <1>2. <<s>> \o <<c>> = Append(<<s>>, c)
    <2>1. <<s>> \in Seq({s, c}) /\ c \in {s, c} OBVIOUS
    <2> QED BY <2>1, AppendIsConcat
  <1> QED BY <1>1, <1>2, AppendToOne

LEMMA OneTail == ASSUME NEW b, NEW s PROVE <<s>> \o Tail(<<b>>) = <<s>>
  <1> DEFINE S == {b, s}
  <1>1. <<b>> \in Seq(S) /\ <<s>> \in Seq(S) /\ <<>> \in Seq(S) OBVIOUS
  <1>2. Tail(<<b>>) \in Seq(S) /\ Len(Tail(<<b>>)) = 0 BY <1>1, HeadTailProperties
  <1> HIDE DEF S
  <1>3. Tail(<<b>>) = <<>> BY <1>2, EmptySeq
  <1> QED BY <1>1, <1>3, ConcatEmptySeq

LEMMA NumberedOnce == ASSUME NEW b \in Bases, MaxN \in Nat, NEW n \in 0 .. MaxN PROVE Numbered(<<b>>, n) \in Names
  <1>1. CASE n = 0 BY <1>1 DEF Numbered, Names
  <1>2. CASE n # 0
    <2>1. <<b, n>> \in Bases \X (1 .. MaxN) BY <1>2
    <2>2. Append(<<b>>, n) = <<b, n>> BY AppendToOne
    <2> QED BY <1>2, <2>1, <2>2 DEF Numbered, Names
  <1> QED BY <1>1, <1>2

LEMMA OtherBase ==
  ASSUME NEW b \in Bases, NEW s \in Bases, MaxN \in Nat, NEW n \in 0 .. MaxN
  PROVE  /\ <<s>> \o Tail(Numbered(<<b>>, n)) \in Names
         /\ s = b => <<s>> \o Tail(Numbered(<<b>>, n)) = Numbered(<<b>>, n)
  <1>1. CASE n = 0
    <2>1. Numbered(<<b>>, n) = <<b>> BY <1>1 DEF Numbered
    <2>2. <<s>> \o Tail(<<b>>) = <<s>> BY OneTail
    <2> QED BY <2>1, <2>2 DEF Names
  <1>2. CASE n # 0
    <2>1. <<s, n>> \in Bases \X (1 .. MaxN) BY <1>2
    <2>2. Numbered(<<b>>, n) = <<b, n>> BY <1>2, AppendToOne DEF Numbered
    <2>3. <<s>> \o Tail(<<b, n>>) = <<s, n>> BY OtherFirst
    <2> QED BY <2>1, <2>2, <2>3 DEF Names
  <1> QED BY <1>1, <1>2

LEMMA AtNames ==
  ASSUME ToldApart, TypeOK, NEW d \in Downloads
  PROVE  /\ At(d) \in Names /\ Named(d) \in Names
         /\ (\A b \in Bases : Shown[b] = b) => Named(d) = At(d)
  <1>1. Base[d] \in Bases /\ Shown[Base[d]] \in Bases /\ MaxN \in Nat /\ num[d] \in 0 .. MaxN BY DEF ToldApart, TypeOK
  <1>2. At(d) = Numbered(<<Base[d]>>, num[d]) /\ Named(d) = <<Shown[Base[d]]>> \o Tail(Numbered(<<Base[d]>>, num[d]))
    BY DEF At, Named
  <1> QED BY <1>1, <1>2, NumberedOnce, OtherBase

-----------------------------------------------------------------------------
(* Who is at it has chosen where to. *)
Targeted == \A d \in Downloads : pc[d] \in {"rename", "renamed", "done"} => target[d] \in Names

Typed == TypeOK /\ Targeted

LEMMA MaySpends ==
  ASSUME left \in [World -> Nat], NEW what \in World, May(what)
  PROVE  left' \in [World -> Nat] /\ \A w \in World : left'[w] <= left[w] /\ (w # what => left'[w] = left[w])
  BY DEF May

LEMMA TypedInit == ASSUME ToldApart, Init PROVE Typed
  <1>1. \A x \in Names : file[x] \in Urls \cup {Mine, None} BY DEF Init
  <1>2. legacy \in [Names -> Urls \cup {None}] BY <1>1 DEF Init
  <1>3. TypeOK BY <1>1, <1>2 DEF Init, TypeOK, ToldApart, PC
  <1>4. Targeted BY DEF Init, Targeted, Actors
  <1> QED BY <1>3, <1>4 DEF Typed

LEMMA TypedPlan == ASSUME ToldApart, Typed, NEW d \in Downloads, Start(d) \/ Plan(d) PROVE Typed'
  <1> USE DEF Typed, Targeted, TypeOK, disk, Goto
  <1>1. At(d) \in Names /\ d \in Actors /\ MaxN \in Nat /\ Url[d] \in Urls BY AtNames DEF Actors, ToldApart
  <1>2. PC = {"idle", "check", "claim", "look", "migrate", "part", "stale", "record", "open", "fetch",
              "choose", "rename", "wrong", "renamed", "done", "discard"} BY DEF PC
  <1>3. ASSUME NextName(d) PROVE /\ pc' \in [Actors -> PC] /\ num' \in [Downloads -> 0 .. MaxN] /\ pc'[d] \in {"check", "idle"}
                                 /\ \A e \in Downloads \ {d} : pc'[e] = pc[e]
    BY <1>1, <1>2, <1>3 DEF NextName, Actors
  <1>4. ASSUME Drop(At(d)) PROVE owner' \in [Names -> Actors \cup {None}] /\ locks' \subseteq Names
    BY <1>1, <1>4 DEF Drop
  <1>5. CASE Start(d) BY <1>1, <1>2, <1>5 DEF Start, Actors
  <1>6. CASE AlreadyDone(d) BY <1>1, <1>2, <1>6 DEF AlreadyDone, Actors
  <1>7. CASE NotDone(d) BY <1>1, <1>2, <1>7 DEF NotDone, Actors
  <1>8. CASE Claim(d) BY <1>1, <1>2, <1>8 DEF Claim, Actors
  <1>9. CASE Claimed(d) BY <1>1, <1>3, <1>9 DEF Claimed, NextName
  <1>10. CASE Taken(d) BY <1>1, <1>3, <1>4, <1>10 DEF Taken, NextName
  <1>11. CASE MigrateFile(d) BY <1>1, <1>2, <1>11 DEF MigrateFile, Actors
  <1>12. CASE MigrateState(d) BY <1>1, <1>2, <1>12 DEF MigrateState, Actors
  <1>13. CASE Free(d) BY <1>1, <1>2, <1>13 DEF Free, Actors
  <1>14. CASE PlanFetch(d) BY <1>1, <1>2, <1>14 DEF PlanFetch, Actors
  <1>15. CASE OthersPart(d) BY <1>1, <1>3, <1>4, <1>15 DEF OthersPart, NextName
  <1>16. CASE StalePart(d) BY <1>1, <1>2, <1>16, MaySpends DEF StalePart, Actors, World
  <1>17. CASE CannotResume(d) BY <1>1, <1>2, <1>4, <1>17 DEF CannotResume, Actors
  <1>18. CASE StaleState(d) BY <1>1, <1>2, <1>18 DEF StaleState, Actors
  <1> QED BY <1>5, <1>6, <1>7, <1>8, <1>9, <1>10, <1>11, <1>12, <1>13, <1>14, <1>15, <1>16, <1>17, <1>18 DEF Plan

LEMMA TypedFetch == ASSUME ToldApart, Typed, NEW d \in Downloads, Fetch(d) \/ Finalize(d) PROVE Typed'
  <1> USE DEF Typed, Targeted, TypeOK, disk, Goto
  <1>1. At(d) \in Names /\ Named(d) \in Names /\ d \in Actors /\ Url[d] \in Urls BY AtNames DEF Actors, ToldApart
  <1>2. PC = {"idle", "check", "claim", "look", "migrate", "part", "stale", "record", "open", "fetch",
              "choose", "rename", "wrong", "renamed", "done", "discard"} BY DEF PC
  <1>4. ASSUME Drop(At(d)) PROVE owner' \in [Names -> Actors \cup {None}] /\ locks' \subseteq Names
    BY <1>1, <1>4 DEF Drop
  <1>5. CASE Record(d) BY <1>1, <1>2, <1>5 DEF Record, Actors
  <1>6. CASE Open(d) BY <1>1, <1>2, <1>6 DEF Open, Actors
  <1>7. CASE Fail(d) BY <1>1, <1>2, <1>4, <1>7 DEF Fail, Actors
  <1>8. CASE Fetched(d) BY <1>1, <1>2, <1>8 DEF Fetched, Actors
  <1>9. CASE WrongPart(d) BY <1>1, <1>2, <1>9, MaySpends DEF WrongPart, Actors, World
  <1>10. CASE WrongState(d) BY <1>1, <1>2, <1>4, <1>10 DEF WrongState, Actors
  <1>11. CASE Choose(d)
    <2>1. \A x \in FreePath(Named(d)) : x \in Names BY DEF FreePath
    <2>2. target' \in [Downloads -> Names \cup {None}] /\ target'[d] \in Names /\ \A e \in Downloads \ {d} : target'[e] = target[e]
      BY <1>1, <1>11, <2>1 DEF Choose
    <2> QED BY <1>1, <1>2, <1>11, <2>2 DEF Choose, Actors
  <1>12. CASE Rename(d) BY <1>1, <1>2, <1>12 DEF Rename, Actors
  <1>13. CASE Finish(d) BY <1>1, <1>2, <1>4, <1>13 DEF Finish, Actors
  <1>14. CASE RecordCompleted(d) BY <1>1, <1>2, <1>14 DEF RecordCompleted, Actors
  <1> QED BY <1>5, <1>6, <1>7, <1>8, <1>9, <1>10, <1>11, <1>12, <1>13, <1>14 DEF Fetch, Finalize

LEMMA TypedNext == ASSUME ToldApart, Typed, [Next]_vars PROVE Typed'
  <1> USE DEF Typed, Targeted, TypeOK, disk, Goto
  <1>1. ASSUME NEW t \in Tools, DiscardPart(t) \/ DiscardState(t) PROVE Typed'
    <2>1. t \in Actors /\ t \notin Downloads BY DEF Actors, ToldApart
    <2>2. CASE DiscardPart(t) BY <2>1, <2>2 DEF DiscardPart, PC
    <2>3. CASE DiscardState(t) BY <2>1, <2>3 DEF DiscardState, Drop, PC
    <2> QED BY <1>1, <2>2, <2>3
  <1>2. ASSUME NEW a \in Actors, Crash(a) PROVE Typed'
    <2>1. left' \in [World -> Nat] BY <1>2, MaySpends DEF Crash, World
    <2> QED BY <1>2, <2>1 DEF Crash, PC, Actors
  <1>3. ASSUME User PROVE Typed'
    <2>1. left' \in [World -> Nat] BY <1>3, MaySpends DEF User, World
    <2> QED BY <1>3, <2>1 DEF User
  <1>4. CASE UNCHANGED vars BY <1>4 DEF vars
  <1> QED BY <1>1, <1>2, <1>3, <1>4, TypedPlan, TypedFetch DEF Next

-----------------------------------------------------------------------------
Working == {"look", "migrate", "part", "stale", "record", "open", "fetch", "choose", "rename", "wrong", "renamed"}

(* A download at work has the claim on the name it is at and no other; a tool that discards has one, and the *)
(* .part is gone.                                                                                            *)
Held ==
  /\ \A d \in Downloads : pc[d] \in Working => owner[At(d)] = d
  /\ \A x \in Names, d \in Downloads : owner[x] = d => pc[d] \in Working /\ x = At(d)
  /\ \A x \in Names, t \in Tools : owner[x] = t => pc[t] = "discard" /\ part[x] = None
  /\ \A x, y \in Names : owner[x] \in Tools /\ owner[y] = owner[x] => x = y

Owned == Typed /\ Held

(* A step of a download that keeps what it claims. *)
Keeps(d) ==
  /\ UNCHANGED <<owner, num>>
  /\ \A a \in Actors \ {d} : pc'[a] = pc[a]
  /\ pc[d] \in Working <=> pc'[d] \in Working
  /\ \A x \in Names : x # At(d) => part'[x] = part[x]
  /\ pc[d] \in Working \/ UNCHANGED part

(* ... or drops it. *)
Drops(d) ==
  /\ pc[d] \in Working /\ pc'[d] \notin Working
  /\ Drop(At(d))
  /\ \A a \in Actors \ {d} : pc'[a] = pc[a]
  /\ \A e \in Downloads \ {d} : num'[e] = num[e]
  /\ UNCHANGED part

(* ... or goes to another name. *)
Passes(d) ==
  /\ pc[d] \notin Working /\ pc'[d] \notin Working
  /\ \A a \in Actors \ {d} : pc'[a] = pc[a]
  /\ \A e \in Downloads \ {d} : num'[e] = num[e]
  /\ UNCHANGED <<owner, part>>

LEMMA HeldWhenKept == ASSUME ToldApart, Owned, NEW d \in Downloads, Keeps(d) PROVE Held'
  <1>1. \A e \in Downloads : At(e) \in Names /\ At(e)' = At(e) BY AtNames DEF Owned, Typed, Keeps, At
  <1>2. Downloads \cap Tools = {} /\ Downloads \subseteq Actors /\ Tools \subseteq Actors BY DEF ToldApart, Actors
  <1>3. \A e \in Downloads : pc'[e] \in Working <=> pc[e] \in Working BY <1>2 DEF Keeps
  <1>4. \A t \in Tools : pc'[t] = pc[t] BY <1>2 DEF Keeps
  <1>5. \A x \in Names : owner[x] \in Tools => part'[x] = part[x] BY <1>1, <1>2 DEF Keeps, Owned, Held
  <1> QED BY <1>1, <1>2, <1>3, <1>4, <1>5 DEF Keeps, Owned, Held

LEMMA HeldWhenDropped == ASSUME ToldApart, Owned, NEW d \in Downloads, Drops(d) PROVE Held'
  <1>1. \A e \in Downloads : At(e) \in Names BY AtNames DEF Owned, Typed
  <1>2. \A e \in Downloads \ {d} : At(e)' = At(e) BY DEF Drops, At
  <1>3. Downloads \cap Tools = {} /\ Downloads \subseteq Actors /\ Tools \subseteq Actors /\ None \notin Actors BY DEF ToldApart, Actors
  <1>4. owner[At(d)] = d BY DEF Drops, Owned, Held
  <1>5. \A x \in Names : owner'[x] = IF x = At(d) THEN None ELSE owner[x] BY DEF Drops, Drop, Owned, Typed, TypeOK
  <1>6. \A e \in Downloads \ {d} : pc'[e] = pc[e] BY <1>3 DEF Drops
  <1>7. \A t \in Tools : pc'[t] = pc[t] BY <1>3 DEF Drops
  <1>8. \A e \in Downloads \ {d} : pc[e] \in Working => owner[At(e)] = e /\ At(e) # At(d) BY <1>4 DEF Owned, Held
  <1>9. \A e \in Downloads : pc'[e] \in Working => owner'[At(e)'] = e
    BY <1>1, <1>2, <1>5, <1>6, <1>8 DEF Drops
  <1>10. \A x \in Names, e \in Downloads : owner'[x] = e => pc'[e] \in Working /\ x = At(e)'
    <2> SUFFICES ASSUME NEW x \in Names, NEW e \in Downloads, owner'[x] = e PROVE pc'[e] \in Working /\ x = At(e)'
      OBVIOUS
    <2>1. owner[x] = e /\ x # At(d) BY <1>3, <1>5
    <2>2. e # d BY <2>1 DEF Owned, Held
    <2> QED BY <1>2, <1>6, <2>1, <2>2 DEF Owned, Held
  <1>11. \A x \in Names : owner'[x] \in Tools => owner[x] = owner'[x] BY <1>3, <1>5
  <1> QED BY <1>7, <1>9, <1>10, <1>11 DEF Drops, Owned, Held

LEMMA HeldWhenPassed == ASSUME ToldApart, Owned, NEW d \in Downloads, Passes(d) PROVE Held'
  <1>1. \A e \in Downloads \ {d} : At(e)' = At(e) BY DEF Passes, At
  <1>2. Downloads \cap Tools = {} /\ Downloads \subseteq Actors /\ Tools \subseteq Actors BY DEF ToldApart, Actors
  <1>3. \A e \in Downloads : pc'[e] \in Working => e # d /\ pc[e] \in Working BY <1>2 DEF Passes
  <1>4. \A t \in Tools : pc'[t] = pc[t] BY <1>2 DEF Passes
  <1>5. \A x \in Names, e \in Downloads : owner[x] = e => e # d /\ pc'[e] = pc[e] BY <1>2 DEF Passes, Owned, Held
  <1> QED BY <1>1, <1>3, <1>4, <1>5 DEF Passes, Owned, Held

LEMMA HeldWhenClaimed == ASSUME ToldApart, Owned, NEW d \in Downloads, Claim(d) PROVE Held'
  <1>1. \A e \in Downloads : At(e) \in Names /\ At(e)' = At(e) BY AtNames DEF Owned, Typed, Claim, At
  <1>2. Downloads \cap Tools = {} /\ Downloads \subseteq Actors /\ Tools \subseteq Actors /\ None \notin Actors BY DEF ToldApart, Actors
  <1>3. \A x \in Names : owner'[x] = IF x = At(d) THEN d ELSE owner[x] BY DEF Claim, Owned, Typed, TypeOK
  <1>4. \A a \in Actors : pc'[a] = IF a = d THEN "look" ELSE pc[a] BY DEF Claim, Goto, Owned, Typed, TypeOK
  <1>5. pc[d] \notin Working /\ "look" \in Working BY DEF Claim, Working
  <1>6. \A e \in Downloads : pc'[e] \in Working => owner'[At(e)'] = e
    <2> SUFFICES ASSUME NEW e \in Downloads, pc'[e] \in Working, e # d PROVE owner'[At(e)] = e
      BY <1>1, <1>3
    <2>1. owner[At(e)] = e BY <1>2, <1>4 DEF Owned, Held
    <2>2. At(e) # At(d) BY <1>2, <2>1 DEF Claim
    <2> QED BY <1>1, <1>3, <2>1, <2>2
  <1>7. \A x \in Names, e \in Downloads : owner'[x] = e => pc'[e] \in Working /\ x = At(e)'
    BY <1>1, <1>2, <1>3, <1>4, <1>5 DEF Owned, Held
  <1>8. \A x \in Names : owner'[x] \in Tools => owner[x] = owner'[x] BY <1>2, <1>3
  <1>9. \A t \in Tools : pc'[t] = pc[t] BY <1>2, <1>4
  <1>10. UNCHANGED part BY DEF Claim, disk
  <1> QED BY <1>6, <1>7, <1>8, <1>9, <1>10 DEF Owned, Held

LEMMA HeldPlan == ASSUME ToldApart, Owned, NEW d \in Downloads, Start(d) \/ Plan(d) PROVE Held'
  <1>1. At(d) \in Names BY AtNames DEF Owned, Typed
  <1>2. pc \in [Actors -> PC] /\ num \in [Downloads -> 0 .. MaxN] /\ part \in [Names -> Urls \cup {Mine, None}] /\ d \in Actors
    BY DEF Owned, Typed, TypeOK, Actors
  <1> USE DEF Goto, Working, disk
  <1>3. CASE Start(d)
    <2> Passes(d) BY <1>2, <1>3 DEF Start, Passes
    <2> QED BY HeldWhenPassed
  <1>4. CASE AlreadyDone(d)
    <2> Passes(d) BY <1>2, <1>4 DEF AlreadyDone, Passes
    <2> QED BY HeldWhenPassed
  <1>5. CASE NotDone(d)
    <2> Passes(d) BY <1>2, <1>5 DEF NotDone, Passes
    <2> QED BY HeldWhenPassed
  <1>6. CASE Claimed(d)
    <2> Passes(d) BY <1>2, <1>6 DEF Claimed, NextName, Passes
    <2> QED BY HeldWhenPassed
  <1>7. CASE Taken(d)
    <2> Drops(d) BY <1>2, <1>7 DEF Taken, NextName, Drops
    <2> QED BY HeldWhenDropped
  <1>8. CASE MigrateFile(d)
    <2> Keeps(d) BY <1>1, <1>2, <1>8 DEF MigrateFile, Keeps
    <2> QED BY HeldWhenKept
  <1>9. CASE MigrateState(d)
    <2> Keeps(d) BY <1>2, <1>9 DEF MigrateState, Keeps
    <2> QED BY HeldWhenKept
  <1>10. CASE Free(d)
    <2> Keeps(d) BY <1>2, <1>10 DEF Free, Keeps
    <2> QED BY HeldWhenKept
  <1>11. CASE PlanFetch(d)
    <2> Keeps(d) BY <1>2, <1>11 DEF PlanFetch, Keeps
    <2> QED BY HeldWhenKept
  <1>12. CASE OthersPart(d)
    <2> Drops(d) BY <1>2, <1>12 DEF OthersPart, NextName, Drops
    <2> QED BY HeldWhenDropped
  <1>13. CASE StalePart(d)
    <2> Keeps(d) BY <1>1, <1>2, <1>13 DEF StalePart, Keeps
    <2> QED BY HeldWhenKept
  <1>14. CASE CannotResume(d)
    <2> Drops(d) BY <1>2, <1>14 DEF CannotResume, Drops
    <2> QED BY HeldWhenDropped
  <1>15. CASE StaleState(d)
    <2> Keeps(d) BY <1>2, <1>15 DEF StaleState, Keeps
    <2> QED BY HeldWhenKept
  <1> QED BY <1>3, <1>4, <1>5, <1>6, <1>7, <1>8, <1>9, <1>10, <1>11, <1>12, <1>13, <1>14, <1>15, HeldWhenClaimed DEF Plan

LEMMA HeldFetch == ASSUME ToldApart, Owned, NEW d \in Downloads, Fetch(d) \/ Finalize(d) PROVE Held'
  <1>1. At(d) \in Names BY AtNames DEF Owned, Typed
  <1>2. pc \in [Actors -> PC] /\ num \in [Downloads -> 0 .. MaxN] /\ part \in [Names -> Urls \cup {Mine, None}] /\ d \in Actors
    BY DEF Owned, Typed, TypeOK, Actors
  <1> USE DEF Goto, Working, disk
  <1>3. CASE Record(d)
    <2> Keeps(d) BY <1>2, <1>3 DEF Record, Keeps
    <2> QED BY HeldWhenKept
  <1>4. CASE Open(d)
    <2> Keeps(d) BY <1>1, <1>2, <1>4 DEF Open, Keeps
    <2> QED BY HeldWhenKept
  <1>5. CASE Fail(d)
    <2> Drops(d) BY <1>2, <1>5 DEF Fail, Drops
    <2> QED BY HeldWhenDropped
  <1>6. CASE Fetched(d)
    <2> Keeps(d) BY <1>2, <1>6 DEF Fetched, Keeps
    <2> QED BY HeldWhenKept
  <1>7. CASE WrongPart(d)
    <2> Keeps(d) BY <1>1, <1>2, <1>7 DEF WrongPart, Keeps
    <2> QED BY HeldWhenKept
  <1>8. CASE WrongState(d)
    <2> Drops(d) BY <1>2, <1>8 DEF WrongState, Drops
    <2> QED BY HeldWhenDropped
  <1>9. CASE Choose(d)
    <2> Keeps(d) BY <1>2, <1>9 DEF Choose, Keeps
    <2> QED BY HeldWhenKept
  <1>10. CASE Rename(d)
    <2> Keeps(d) BY <1>1, <1>2, <1>10 DEF Rename, Keeps
    <2> QED BY HeldWhenKept
  <1>11. CASE Finish(d)
    <2> Drops(d) BY <1>2, <1>11 DEF Finish, Drops
    <2> QED BY HeldWhenDropped
  <1>12. CASE RecordCompleted(d)
    <2> Passes(d) BY <1>2, <1>12 DEF RecordCompleted, Passes
    <2> QED BY HeldWhenPassed
  <1> QED BY <1>3, <1>4, <1>5, <1>6, <1>7, <1>8, <1>9, <1>10, <1>11, <1>12 DEF Fetch, Finalize

LEMMA HeldTool == ASSUME ToldApart, Owned, NEW t \in Tools, DiscardPart(t) \/ DiscardState(t) PROVE Held'
  <1>1. \A e \in Downloads : At(e) \in Names /\ At(e)' = At(e)
    BY AtNames DEF Owned, Typed, DiscardPart, DiscardState, At
  <1>2. Downloads \cap Tools = {} /\ Downloads \subseteq Actors /\ Tools \subseteq Actors /\ None \notin Actors BY DEF ToldApart, Actors
  <1>3. \A a \in Actors \ {t} : pc'[a] = pc[a] BY DEF DiscardPart, DiscardState, Goto, Owned, Typed, TypeOK
  <1>4. CASE DiscardPart(t)
    <2> PICK x \in Names : /\ pc[t] = "idle" /\ owner[x] = None
                           /\ owner' = [owner EXCEPT ![x] = t] /\ part' = [part EXCEPT ![x] = None] /\ Goto(t, "discard")
      BY <1>4 DEF DiscardPart
    <2>1. \A y \in Names : /\ owner'[y] = IF y = x THEN t ELSE owner[y]
                           /\ part'[y] = IF y = x THEN None ELSE part[y]
      BY DEF Owned, Typed, TypeOK
    <2>2. pc'[t] = "discard" BY <1>2 DEF Goto, Owned, Typed, TypeOK
    <2>3. \A y \in Names : owner[y] # t BY DEF Owned, Held
    <2>4. \A e \in Downloads : pc[e] \in Working => At(e) # x BY <1>2 DEF Owned, Held
    <2> QED BY <1>1, <1>2, <1>3, <2>1, <2>2, <2>3, <2>4 DEF Owned, Held
  <1>5. CASE DiscardState(t)
    <2> PICK x \in Names : pc[t] = "discard" /\ owner[x] = t /\ Drop(x) BY <1>5 DEF DiscardState
    <2>1. \A y \in Names : owner'[y] = IF y = x THEN None ELSE owner[y] BY DEF Drop, Owned, Typed, TypeOK
    <2>2. \A y \in Names : owner[y] = t => y = x BY DEF Owned, Held
    <2>3. \A e \in Downloads : pc[e] \in Working => At(e) # x BY <1>2 DEF Owned, Held
    <2>4. UNCHANGED part BY <1>5 DEF DiscardState
    <2> QED BY <1>1, <1>2, <1>3, <2>1, <2>2, <2>3, <2>4 DEF Owned, Held
  <1> QED BY <1>4, <1>5

LEMMA HeldCrash == ASSUME ToldApart, Owned, NEW a \in Actors, Crash(a) PROVE Held'
  <1>1. \A e \in Downloads : At(e) \in Names /\ At(e)' = At(e) BY AtNames DEF Owned, Typed, Crash, At
  <1>2. Downloads \cap Tools = {} /\ Downloads \subseteq Actors /\ Tools \subseteq Actors /\ None \notin Actors BY DEF ToldApart, Actors
  <1>3. \A b \in Actors : pc'[b] = IF b = a THEN "idle" ELSE pc[b] BY DEF Crash, Goto, Owned, Typed, TypeOK
  <1>4. \A x \in Names : owner'[x] = IF owner[x] = a THEN None ELSE owner[x] BY DEF Crash
  <1>5. "idle" \notin Working /\ UNCHANGED part BY DEF Working, Crash, disk
  <1>6. \A e \in Downloads : pc'[e] \in Working => owner'[At(e)'] = e
    <2> SUFFICES ASSUME NEW e \in Downloads, pc'[e] \in Working PROVE owner'[At(e)] = e BY <1>1
    <2>1. e # a /\ owner[At(e)] = e BY <1>2, <1>3, <1>5 DEF Owned, Held
    <2> QED BY <1>1, <1>4, <2>1
  <1>7. \A x \in Names, b \in Actors : owner'[x] = b => owner[x] = b /\ b # a BY <1>2, <1>4
  <1> QED BY <1>1, <1>2, <1>3, <1>5, <1>6, <1>7 DEF Owned, Held

LEMMA OwnedNext == ASSUME ToldApart, Owned, [Next]_vars PROVE Owned'
  <1>1. Typed' BY TypedNext DEF Owned
  <1>2. ASSUME owner' = owner, num' = num, pc' = pc, part' = part PROVE Held'
    <2>1. \A e \in Downloads : At(e)' = At(e) BY <1>2 DEF At
    <2> QED BY <1>2, <2>1 DEF Owned, Held
  <1>3. User => owner' = owner /\ num' = num /\ pc' = pc /\ part' = part BY DEF User
  <1>4. UNCHANGED vars => owner' = owner /\ num' = num /\ pc' = pc /\ part' = part BY DEF vars, disk
  <1>5. Held' BY <1>2, <1>3, <1>4, HeldPlan, HeldFetch, HeldTool, HeldCrash DEF Next
  <1> QED BY <1>1, <1>5 DEF Owned

LEMMA OwnedInit == ASSUME ToldApart, Init PROVE Owned
  <1>1. \A x \in Names : owner[x] = None BY DEF Init
  <1>2. None \notin Downloads \cup Tools /\ Downloads \subseteq Actors BY DEF ToldApart, Actors
  <1>3. \A d \in Downloads : pc[d] \notin Working BY <1>2 DEF Init, Working
  <1> QED BY <1>1, <1>2, <1>3, TypedInit DEF Owned, Held

(* Every state has the right types, and a name is claimed by at most the one that is at it (engine.rs: *)
(* plan_target, discard_partial).                                                                       *)
THEOREM NamesOwned == ASSUME ToldApart PROVE Spec => [](TypeOK /\ Held)
  <1>1. Owned => TypeOK /\ Held BY DEF Owned, Typed
  <1> QED BY <1>1, OwnedInit, OwnedNext, PTL DEF Spec

-----------------------------------------------------------------------------
(* What a download relies on at each of its steps, of the .part and the state at its name. *)
Relies(d) ==
  LET x == At(d) IN
  /\ pc[d] = "migrate" => part[x] = Url[d] /\ legacy[x] = Url[d]
  /\ pc[d] \in {"stale", "wrong", "renamed"} => part[x] = None
  /\ pc[d] \in {"record", "open"} => part[x] \in {None, Url[d]}
  /\ pc[d] = "record" => part[x] = None \/ state[x] = Url[d]
  /\ pc[d] = "open" => state[x] = Url[d]
  /\ pc[d] \in {"fetch", "choose", "rename"} => part[x] = Url[d] /\ state[x] = Url[d]

(* A .part's state is its own; only one migrated may be without. *)
Fits(x) ==
  part[x] # None => /\ state[x] \in {None, part[x]}
                    /\ left["legacy"] = 0 => state[x] = part[x]

(* There is nothing of the old layout. *)
NothingOld == \A x \in Names : legacy[x] = None

Claiming == {"migrate", "part", "stale", "record", "open", "fetch", "choose", "rename"}

(* ... or it is migrated with a state that fits: no address has come to lie at a name with a .part beside it. *)
OldFits ==
  /\ \A x \in Names : legacy[x] # None =>
       /\ \E b \in Bases : x = <<b>>
       /\ part[x] # None => file[x] \notin Urls
       /\ \A d \in Downloads : At(d) = x /\ pc[d] \in Claiming => file[x] \notin Urls
       /\ part[x] = None /\ file[x] = legacy[x] => state[x] \in {None, legacy[x]}
  /\ \A d \in Downloads : pc[d] = "rename" /\ target[d] # At(d) => legacy[target[d]] = None

(* No file is replaced, nor renamed for its contents. *)
NamesStay == Replaces = {} /\ \A b \in Bases : Shown[b] = b

Old == (left["legacy"] = 0 => NothingOld) /\ (NothingOld \/ (NamesStay /\ OldFits))

Safe == Owned /\ (\A d \in Downloads : Relies(d)) /\ (\A x \in Names : Fits(x)) /\ Old

(* A step of a download changes nothing at other names than the one it has. *)
AtItsName(d) ==
  /\ \A x \in Names : x # At(d) => part'[x] = part[x] /\ state'[x] = state[x] /\ legacy'[x] = legacy[x]
  /\ pc[d] \in Working \/ UNCHANGED <<part, state, legacy>>
  /\ \A a \in Actors \ {d} : pc'[a] = pc[a]
  /\ \A e \in Downloads \ {d} : num'[e] = num[e]
  /\ left'["legacy"] = left["legacy"]

LEMMA OthersUnharmed ==
  ASSUME ToldApart, Safe, NEW d \in Downloads, AtItsName(d)
  PROVE  /\ \A e \in Downloads \ {d} : Relies(e)'
         /\ \A x \in Names : Fits(x)' \/ x = At(d)
  <1>1. ASSUME NEW e \in Downloads \ {d} PROVE Relies(e)'
    <2>1. At(e) \in Names /\ At(e)' = At(e) /\ e \in Actors BY AtNames DEF Safe, Owned, Typed, AtItsName, At, Actors
    <2>2. pc'[e] = pc[e] BY <2>1 DEF AtItsName
    <2>3. CASE pc[e] \notin Working BY <2>2, <2>3 DEF Relies, Working
    <2>4. CASE pc[e] \in Working
      <3>1. At(e) # At(d) \/ pc[d] \notin Working BY <2>4 DEF Safe, Owned, Held
      <3>2. part'[At(e)] = part[At(e)] /\ state'[At(e)] = state[At(e)] /\ legacy'[At(e)] = legacy[At(e)]
        BY <2>1, <3>1 DEF AtItsName
      <3> QED BY <2>1, <2>2, <3>2 DEF Safe, Relies
    <2> QED BY <2>3, <2>4
  <1>2. ASSUME NEW x \in Names, x # At(d) PROVE Fits(x)'
    BY <1>2 DEF AtItsName, Safe, Fits
  <1> QED BY <1>1, <1>2

LEMMA SafePlan ==
  ASSUME ToldApart, Safe, NEW d \in Downloads, Start(d) \/ Plan(d)
  PROVE  (\A e \in Downloads : Relies(e)') /\ (\A x \in Names : Fits(x)')
  <1> PICK x \in Names : x = At(d) BY AtNames DEF Safe, Owned, Typed
  <1>1. x \in Names /\ d \in Actors /\ Url[d] \in Urls /\ Url[d] # None BY DEF Actors, ToldApart
  <1>2. /\ pc \in [Actors -> PC] /\ num \in [Downloads -> 0 .. MaxN] /\ part \in [Names -> Urls \cup {Mine, None}]
        /\ state \in [Names -> Urls \cup {None}] /\ legacy \in [Names -> Urls \cup {None}] /\ left \in [World -> Nat]
    BY DEF Safe, Owned, Typed, TypeOK
  <1>3. Relies(d) /\ Fits(x) /\ Old BY <1>1 DEF Safe
  <1>4. ASSUME AtItsName(d), Relies(d)', Fits(x)' PROVE (\A e \in Downloads : Relies(e)') /\ (\A y \in Names : Fits(y)')
    BY <1>4, OthersUnharmed
  <1> USE DEF Goto, disk
  <1>5. CASE Start(d)
    <2>1. AtItsName(d) BY <1>2, <1>5 DEF Start, AtItsName
    <2>2. pc'[d] = "check" BY <1>1, <1>2, <1>5 DEF Start
    <2>3. Relies(d)' /\ Fits(x)' BY <1>3, <1>5, <2>2 DEF Start, Relies, Fits
    <2> QED BY <1>4, <2>1, <2>3
  <1>6. CASE AlreadyDone(d) \/ NotDone(d) \/ Claim(d) \/ Claimed(d) \/ Taken(d) \/ OthersPart(d) \/ CannotResume(d)
    <2>1. AtItsName(d) BY <1>2, <1>6 DEF AlreadyDone, NotDone, Claim, Claimed, Taken, OthersPart, CannotResume, NextName, AtItsName
    <2>2. pc'[d] \in {"idle", "check", "claim", "look"}
      BY <1>1, <1>2, <1>6 DEF AlreadyDone, NotDone, Claim, Claimed, Taken, OthersPart, CannotResume, NextName
    <2>3. part' = part /\ state' = state /\ left' = left
      BY <1>6 DEF AlreadyDone, NotDone, Claim, Claimed, Taken, OthersPart, CannotResume, NextName
    <2>4. Relies(d)' BY <2>2 DEF Relies
    <2>5. Fits(x)' BY <1>3, <2>3 DEF Fits
    <2> QED BY <1>4, <2>1, <2>4, <2>5
  <1>7. CASE MigrateFile(d)
    <2>1. AtItsName(d) BY <1>1, <1>2, <1>7 DEF MigrateFile, AtItsName, Working
    <2>2. part[x] = None /\ file[x] = Url[d] /\ legacy[x] = Url[d] BY <1>7 DEF MigrateFile, IsLegacy
    <2>3. state[x] \in {None, Url[d]} /\ left["legacy"] # 0 BY <1>1, <1>3, <2>2 DEF Old, NothingOld, OldFits
    <2>4. part'[x] = Url[d] /\ state' = state /\ legacy' = legacy /\ left' = left /\ num' = num /\ pc'[d] = "migrate"
      BY <1>1, <1>2, <1>7, <2>2 DEF MigrateFile
    <2>5. At(d)' = x BY <2>4 DEF At
    <2>6. Relies(d)' BY <2>2, <2>4, <2>5 DEF Relies
    <2>7. Fits(x)' BY <2>3, <2>4 DEF Fits
    <2> QED BY <1>4, <2>1, <2>6, <2>7
  <1>8. CASE MigrateState(d)
    <2>1. AtItsName(d) BY <1>1, <1>2, <1>8 DEF MigrateState, AtItsName, Working
    <2>2. part[x] = Url[d] /\ legacy[x] = Url[d] BY <1>3, <1>8 DEF MigrateState, Relies
    <2>3. state'[x] = Url[d] /\ part' = part /\ left' = left /\ pc'[d] = "part" BY <1>1, <1>2, <1>8, <2>2 DEF MigrateState
    <2>4. Relies(d)' BY <2>3 DEF Relies
    <2>5. Fits(x)' BY <2>2, <2>3 DEF Fits
    <2> QED BY <1>4, <2>1, <2>4, <2>5
  <1>9. CASE Free(d)
    <2>1. AtItsName(d) BY <1>2, <1>9 DEF Free, AtItsName
    <2>2. pc'[d] = "part" BY <1>1, <1>2, <1>9 DEF Free
    <2>3. Relies(d)' /\ Fits(x)' BY <1>3, <1>9, <2>2 DEF Free, Relies, Fits
    <2> QED BY <1>4, <2>1, <2>3
  <1>10. CASE PlanFetch(d)
    <2>1. AtItsName(d) BY <1>2, <1>10 DEF PlanFetch, AtItsName
    <2>2. pc'[d] = "record" /\ part' = part /\ state' = state /\ left' = left /\ num' = num BY <1>1, <1>2, <1>10 DEF PlanFetch
    <2>3. part[x] = None \/ (part[x] = Url[d] /\ state[x] = Url[d]) BY <1>1, <1>3, <1>10 DEF PlanFetch, Ours, Fits
    <2>4. At(d)' = x BY <2>2 DEF At
    <2>5. Relies(d)' BY <2>2, <2>3, <2>4 DEF Relies
    <2>6. Fits(x)' BY <1>3, <2>2 DEF Fits
    <2> QED BY <1>4, <2>1, <2>5, <2>6
  <1>11. CASE StalePart(d)
    <2>1. AtItsName(d) BY <1>1, <1>2, <1>11 DEF StalePart, AtItsName, Working, May, World
    <2>2. pc'[d] = "stale" /\ part'[x] = None /\ num' = num BY <1>1, <1>2, <1>11 DEF StalePart
    <2>3. At(d)' = x BY <2>2 DEF At
    <2>4. Relies(d)' BY <2>2, <2>3 DEF Relies
    <2>5. Fits(x)' BY <2>2 DEF Fits
    <2> QED BY <1>4, <2>1, <2>4, <2>5
  <1>12. CASE StaleState(d)
    <2>1. AtItsName(d) BY <1>1, <1>2, <1>12 DEF StaleState, AtItsName, Working
    <2>2. pc'[d] = "record" /\ part' = part /\ num' = num BY <1>1, <1>2, <1>12 DEF StaleState
    <2>3. part[x] = None BY <1>3, <1>12 DEF StaleState, Relies
    <2>4. At(d)' = x BY <2>2 DEF At
    <2>5. Relies(d)' BY <2>2, <2>3, <2>4 DEF Relies
    <2>6. Fits(x)' BY <2>2, <2>3 DEF Fits
    <2> QED BY <1>4, <2>1, <2>5, <2>6
  <1> QED BY <1>5, <1>6, <1>7, <1>8, <1>9, <1>10, <1>11, <1>12 DEF Plan

LEMMA SafeFetch ==
  ASSUME ToldApart, Safe, NEW d \in Downloads, Fetch(d) \/ Finalize(d)
  PROVE  (\A e \in Downloads : Relies(e)') /\ (\A x \in Names : Fits(x)')
  <1> PICK x \in Names : x = At(d) BY AtNames DEF Safe, Owned, Typed
  <1>1. x \in Names /\ d \in Actors /\ Url[d] \in Urls /\ Url[d] # None BY DEF Actors, ToldApart
  <1>2. /\ pc \in [Actors -> PC] /\ num \in [Downloads -> 0 .. MaxN] /\ part \in [Names -> Urls \cup {Mine, None}]
        /\ state \in [Names -> Urls \cup {None}] /\ legacy \in [Names -> Urls \cup {None}] /\ left \in [World -> Nat]
    BY DEF Safe, Owned, Typed, TypeOK
  <1>3. Relies(d) /\ Fits(x) BY DEF Safe
  <1>4. ASSUME AtItsName(d), Relies(d)', Fits(x)' PROVE (\A e \in Downloads : Relies(e)') /\ (\A y \in Names : Fits(y)')
    BY <1>4, OthersUnharmed
  <1> USE DEF Goto, disk
  <1>5. CASE Record(d)
    <2>1. AtItsName(d) BY <1>1, <1>2, <1>5 DEF Record, AtItsName, Working
    <2>2. pc'[d] = "open" /\ state'[x] = Url[d] /\ part' = part /\ num' = num /\ left' = left BY <1>1, <1>2, <1>5 DEF Record
    <2>3. part[x] \in {None, Url[d]} BY <1>3, <1>5 DEF Record, Relies
    <2>4. At(d)' = x BY <2>2 DEF At
    <2>5. Relies(d)' BY <2>2, <2>3, <2>4 DEF Relies
    <2>6. Fits(x)' BY <2>2, <2>3 DEF Fits
    <2> QED BY <1>4, <2>1, <2>5, <2>6
  <1>6. CASE Open(d)
    <2>1. AtItsName(d) BY <1>1, <1>2, <1>6 DEF Open, AtItsName, Working
    <2>2. part[x] \in {None, Url[d]} /\ state[x] = Url[d] BY <1>3, <1>6 DEF Open, Relies
    <2>3. pc'[d] = "fetch" /\ state' = state /\ part'[x] = Url[d] /\ num' = num BY <1>1, <1>2, <1>6, <2>2 DEF Open
    <2>4. At(d)' = x BY <2>3 DEF At
    <2>5. Relies(d)' BY <2>2, <2>3, <2>4 DEF Relies
    <2>6. Fits(x)' BY <2>2, <2>3 DEF Fits
    <2> QED BY <1>4, <2>1, <2>5, <2>6
  <1>7. CASE Fail(d) \/ RecordCompleted(d)
    <2>1. AtItsName(d) BY <1>2, <1>7 DEF Fail, RecordCompleted, AtItsName
    <2>2. pc'[d] = "idle" /\ part' = part /\ state' = state /\ left' = left BY <1>1, <1>2, <1>7 DEF Fail, RecordCompleted
    <2>3. Relies(d)' BY <2>2 DEF Relies
    <2>4. Fits(x)' BY <1>3, <2>2 DEF Fits
    <2> QED BY <1>4, <2>1, <2>3, <2>4
  <1>8. CASE Fetched(d) \/ Choose(d)
    <2>1. AtItsName(d) BY <1>2, <1>8 DEF Fetched, Choose, AtItsName
    <2>2. /\ pc[d] \in {"fetch", "choose"} /\ pc'[d] \in {"choose", "rename"}
          /\ part' = part /\ state' = state /\ left' = left /\ num' = num
      BY <1>1, <1>2, <1>8 DEF Fetched, Choose
    <2>3. At(d)' = x BY <2>2 DEF At
    <2>4. Relies(d)' BY <1>3, <2>2, <2>3 DEF Relies
    <2>5. Fits(x)' BY <1>3, <2>2 DEF Fits
    <2> QED BY <1>4, <2>1, <2>4, <2>5
  <1>9. CASE WrongPart(d) \/ Rename(d)
    <2>1. AtItsName(d) BY <1>1, <1>2, <1>9 DEF WrongPart, Rename, AtItsName, Working, May, World
    <2>2. pc'[d] \in {"wrong", "renamed"} /\ part'[x] = None /\ num' = num BY <1>1, <1>2, <1>9 DEF WrongPart, Rename
    <2>3. At(d)' = x BY <2>2 DEF At
    <2>4. Relies(d)' BY <2>2, <2>3 DEF Relies
    <2>5. Fits(x)' BY <2>2 DEF Fits
    <2> QED BY <1>4, <2>1, <2>4, <2>5
  <1>10. CASE WrongState(d) \/ Finish(d)
    <2>1. AtItsName(d) BY <1>1, <1>2, <1>10 DEF WrongState, Finish, AtItsName, Working
    <2>2. pc'[d] \in {"idle", "done"} /\ part'[x] = part[x] BY <1>1, <1>2, <1>10 DEF WrongState, Finish
    <2>3. part[x] = None BY <1>3, <1>10 DEF WrongState, Finish, Relies
    <2>4. Relies(d)' BY <2>2 DEF Relies
    <2>5. Fits(x)' BY <2>2, <2>3 DEF Fits
    <2> QED BY <1>4, <2>1, <2>4, <2>5
  <1> QED BY <1>5, <1>6, <1>7, <1>8, <1>9, <1>10 DEF Fetch, Finalize

LEMMA SafeTool ==
  ASSUME ToldApart, Safe, NEW t \in Tools, DiscardPart(t) \/ DiscardState(t)
  PROVE  (\A e \in Downloads : Relies(e)') /\ (\A x \in Names : Fits(x)')
  <1>1. t \in Actors /\ t \notin Downloads /\ None \notin Actors /\ Downloads \subseteq Actors BY DEF Actors, ToldApart
  <1>2. /\ pc \in [Actors -> PC] /\ part \in [Names -> Urls \cup {Mine, None}] /\ state \in [Names -> Urls \cup {None}]
    BY DEF Safe, Owned, Typed, TypeOK
  <1>3. PICK x \in Names : /\ owner[x] \in {None, t}
                           /\ \A y \in Names \ {x} : part'[y] = part[y] /\ state'[y] = state[y]
                           /\ part'[x] = None
    <2>1. CASE DiscardPart(t) BY <1>2, <2>1 DEF DiscardPart
    <2>2. CASE DiscardState(t)
      <3> PICK x \in Names : owner[x] = t /\ state' = [state EXCEPT ![x] = None] /\ part' = part
        BY <2>2 DEF DiscardState
      <3>1. part[x] = None BY DEF Safe, Owned, Held
      <3> QED BY <1>2, <3>1
    <2> QED BY <2>1, <2>2
  <1>4. /\ legacy' = legacy /\ left' = left /\ num' = num /\ \A e \in Downloads : pc'[e] = pc[e]
    BY <1>1, <1>2 DEF DiscardPart, DiscardState, Goto
  <1>5. ASSUME NEW e \in Downloads PROVE Relies(e)'
    <2>1. At(e) \in Names /\ At(e)' = At(e) BY <1>4, AtNames DEF Safe, Owned, Typed, At
    <2>2. CASE pc[e] \notin Working BY <1>4, <2>2 DEF Relies, Working
    <2>3. CASE pc[e] \in Working
      <3>1. At(e) # x BY <1>1, <1>3, <2>3 DEF Safe, Owned, Held
      <3> QED BY <1>3, <1>4, <2>1, <3>1 DEF Safe, Relies
    <2> QED BY <2>2, <2>3
  <1>6. ASSUME NEW y \in Names PROVE Fits(y)' BY <1>3, <1>4 DEF Safe, Fits
  <1> QED BY <1>5, <1>6

LEMMA SafeElse ==
  ASSUME ToldApart, Safe, (\E a \in Actors : Crash(a)) \/ User \/ UNCHANGED vars
  PROVE  (\A e \in Downloads : Relies(e)') /\ (\A x \in Names : Fits(x)')
  <1>1. /\ part' = part /\ state' = state /\ legacy' = legacy /\ num' = num /\ left'["legacy"] = left["legacy"]
        /\ \A e \in Downloads : pc'[e] \in {pc[e], "idle"}
    <2>1. left \in [World -> Nat] /\ pc \in [Actors -> PC] /\ Downloads \subseteq Actors BY DEF Safe, Owned, Typed, TypeOK, Actors
    <2>2. CASE \E a \in Actors : Crash(a) BY <2>1, <2>2 DEF Crash, May, Goto, World, disk
    <2>3. CASE User BY <2>1, <2>3 DEF User, May, World
    <2>4. CASE UNCHANGED vars BY <2>4 DEF vars, disk
    <2> QED BY <2>2, <2>3, <2>4
  <1>2. ASSUME NEW e \in Downloads PROVE Relies(e)'
    <2>1. At(e)' = At(e) BY <1>1 DEF At
    <2> QED BY <1>1, <2>1 DEF Safe, Relies
  <1>3. ASSUME NEW x \in Names PROVE Fits(x)' BY <1>1 DEF Safe, Fits
  <1> QED BY <1>2, <1>3

-----------------------------------------------------------------------------
(* A step of a download that leaves what an older release left alone, or has seen that no such file is there. *)
Calm(d) ==
  /\ UNCHANGED file
  /\ \A x \in Names : legacy'[x] \in {legacy[x], None}
  /\ \A x \in Names : (x = At(d) /\ pc[d] \in Claiming) \/ (part'[x] = part[x] /\ state'[x] \in {state[x], None})
  /\ pc'[d] \in Claiming => pc[d] \in Claiming /\ num' = num
  /\ pc'[d] # "rename"
  /\ \A e \in Downloads \ {d} : pc'[e] = pc[e] /\ num'[e] = num[e] /\ target'[e] = target[e]

LEMMA OldWhenCalm == ASSUME ToldApart, Safe, OldFits, NEW d \in Downloads, Calm(d) PROVE OldFits'
  <1>1. \A e \in Downloads \ {d} : At(e)' = At(e) BY DEF Calm, At
  <1>2. pc'[d] \in Claiming => pc[d] \in Claiming /\ At(d)' = At(d) BY DEF Calm, At
  <1>3. \A e \in Downloads : pc'[e] \in Claiming => pc[e] \in Claiming /\ At(e)' = At(e) BY <1>1, <1>2 DEF Calm
  <1>4. ASSUME NEW x \in Names, legacy'[x] # None
        PROVE  /\ \E b \in Bases : x = <<b>>
               /\ part'[x] # None => file'[x] \notin Urls
               /\ \A e \in Downloads : At(e)' = x /\ pc'[e] \in Claiming => file'[x] \notin Urls
               /\ part'[x] = None /\ file'[x] = legacy'[x] => state'[x] \in {None, legacy'[x]}
    <2>1. legacy[x] = legacy'[x] /\ legacy[x] \in Urls BY <1>4 DEF Calm, Safe, Owned, Typed, TypeOK
    <2>2. file'[x] = file[x] BY DEF Calm
    <2>3. \A e \in Downloads : At(e)' = x /\ pc'[e] \in Claiming => file'[x] \notin Urls
      BY <1>3, <1>4, <2>1, <2>2 DEF OldFits
    <2>4. CASE x = At(d) /\ pc[d] \in Claiming BY <1>4, <2>1, <2>2, <2>3, <2>4 DEF OldFits
    <2>5. CASE part'[x] = part[x] /\ state'[x] \in {state[x], None} BY <1>4, <2>1, <2>2, <2>3, <2>5 DEF OldFits
    <2> QED BY <2>4, <2>5 DEF Calm
  <1>5. ASSUME NEW e \in Downloads, pc'[e] = "rename", target'[e] # At(e)' PROVE legacy'[target'[e]] = None
    <2>1. e # d /\ pc[e] = "rename" /\ target'[e] = target[e] /\ At(e)' = At(e) BY <1>1, <1>5 DEF Calm
    <2>2. target[e] \in Names BY <2>1 DEF Safe, Owned, Typed, Targeted
    <2> QED BY <1>5, <2>1, <2>2 DEF Calm, OldFits
  <1> QED BY <1>4, <1>5 DEF OldFits

LEMMA LongerNames ==
  ASSUME ToldApart, TypeOK, NEW d \in Downloads, NEW m \in 0 .. MaxN, NEW b
  PROVE  Numbered(At(d), m) = At(d) \/ Numbered(At(d), m) # <<b>>
  <1>1. CASE m = 0 BY <1>1 DEF Numbered
  <1>2. CASE m # 0
    <2>1. Numbered(At(d), m) = Append(At(d), m) BY <1>2 DEF Numbered
    <2> DEFINE S == {Base[d], num[d], m}
    <2>2. At(d) \in Seq(S) /\ Len(At(d)) \in {1, 2}
      <3>1. CASE num[d] = 0 BY <3>1 DEF At, Numbered
      <3>2. CASE num[d] # 0
        <4>1. At(d) = <<Base[d], num[d]>> BY <3>2, AppendToOne DEF At, Numbered
        <4> QED BY <4>1
      <3> QED BY <3>1, <3>2
    <2>3. m \in S OBVIOUS
    <2> HIDE DEF S
    <2>4. Len(Append(At(d), m)) = Len(At(d)) + 1 BY <2>2, <2>3, AppendProperties
    <2>5. Len(<<b>>) = 1 OBVIOUS
    <2> QED BY <2>1, <2>2, <2>4, <2>5
  <1> QED BY <1>1, <1>2

LEMMA OldChooses ==
  ASSUME ToldApart, Safe, NamesStay, OldFits, NEW d \in Downloads, Choose(d)
  PROVE  target'[d] = At(d) \/ legacy[target'[d]] = None
  <1>1. Named(d) = At(d) /\ At(d) \in Names BY AtNames DEF Safe, Owned, Typed, NamesStay
  <1>2. target'[d] \in Names /\ (target'[d] \in FreePath(At(d)) \/ target'[d] = At(d))
    <2>1. \A x \in FreePath(At(d)) : x \in Names BY DEF FreePath
    <2> QED BY <1>1, <2>1 DEF Choose, Safe, Owned, Typed, TypeOK
  <1>3. ASSUME target'[d] \in FreePath(At(d)), legacy[target'[d]] # None PROVE target'[d] = At(d)
    <2>1. PICK m \in 0 .. MaxN : target'[d] = Numbered(At(d), m) BY <1>3 DEF FreePath
    <2>2. PICK b \in Bases : target'[d] = <<b>> BY <1>2, <1>3 DEF OldFits
    <2> QED BY <2>1, <2>2, LongerNames DEF Safe, Owned, Typed
  <1> QED BY <1>2, <1>3

LEMMA OldDownloads ==
  ASSUME ToldApart, Safe, NamesStay, OldFits, NEW d \in Downloads, Start(d) \/ Plan(d) \/ Fetch(d) \/ Finalize(d)
  PROVE  OldFits'
  <1> PICK x \in Names : x = At(d) BY AtNames DEF Safe, Owned, Typed
  <1>1. x \in Names /\ d \in Actors /\ Downloads \subseteq Actors /\ Url[d] \in Urls /\ None \notin Urls /\ MaxN \in Nat
    BY DEF Actors, ToldApart
  <1>2. /\ pc \in [Actors -> PC] /\ num \in [Downloads -> 0 .. MaxN] /\ part \in [Names -> Urls \cup {Mine, None}]
        /\ file \in [Names -> Urls \cup {Mine, None}] /\ target \in [Downloads -> Names \cup {None}]
        /\ state \in [Names -> Urls \cup {None}] /\ legacy \in [Names -> Urls \cup {None}]
    BY DEF Safe, Owned, Typed, TypeOK
  <1>3. Claiming = {"migrate", "part", "stale", "record", "open", "fetch", "choose", "rename"} BY DEF Claiming
  <1>4. \A e \in Downloads : pc[e] \in Claiming /\ At(e) = x /\ pc[d] \in Working => e = d
    <2>1. Claiming \subseteq Working BY DEF Claiming, Working
    <2> QED BY <2>1 DEF Safe, Owned, Held
  <1> USE DEF Goto, disk
  <1>5. CASE Start(d)
    <2> Calm(d) BY <1>1, <1>2, <1>3, <1>5 DEF Start, Calm
    <2> QED BY OldWhenCalm
  <1>6. CASE AlreadyDone(d) \/ NotDone(d) \/ Claim(d) \/ Claimed(d) \/ Taken(d) \/ OthersPart(d) \/ CannotResume(d)
    <2> Calm(d) BY <1>1, <1>2, <1>3, <1>6
                DEF AlreadyDone, NotDone, Claim, Claimed, Taken, OthersPart, CannotResume, NextName, Calm
    <2> QED BY OldWhenCalm
  <1>7. CASE MigrateState(d) \/ PlanFetch(d) \/ StalePart(d) \/ StaleState(d)
    <2> Calm(d) BY <1>1, <1>2, <1>3, <1>7 DEF MigrateState, PlanFetch, StalePart, StaleState, Calm
    <2> QED BY OldWhenCalm
  <1>8. CASE Record(d) \/ Open(d) \/ Fetched(d) \/ WrongPart(d)
    <2> Calm(d) BY <1>1, <1>2, <1>3, <1>8 DEF Record, Open, Fetched, WrongPart, Calm
    <2> QED BY OldWhenCalm
  <1>9. CASE Fail(d) \/ WrongState(d) \/ Finish(d) \/ RecordCompleted(d)
    <2> Calm(d) BY <1>1, <1>2, <1>3, <1>9 DEF Fail, WrongState, Finish, RecordCompleted, Calm
    <2> QED BY OldWhenCalm
  <1>10. CASE MigrateFile(d) \/ Free(d)
    <2>1. /\ \A y \in Names : file'[y] = IF y = x THEN None ELSE file[y]
          /\ \A y \in Names \ {x} : part'[y] = part[y]
          /\ state' = state /\ legacy' = legacy /\ num' = num /\ target' = target
          /\ \A e \in Downloads : pc'[e] = pc[e] \/ (e = d /\ pc'[e] \in {"migrate", "part"})
      BY <1>1, <1>2, <1>10 DEF MigrateFile, Free, InTheWay, Replacing, NamesStay
    <2>2. \A e \in Downloads : At(e)' = At(e) BY <2>1 DEF At
    <2> QED BY <1>1, <1>3, <2>1, <2>2 DEF OldFits
  <1>11. CASE Choose(d)
    <2>1. /\ UNCHANGED <<file, part, state, legacy, num>>
          /\ pc[d] \in Claiming
          /\ \A e \in Downloads \ {d} : pc'[e] = pc[e] /\ target'[e] = target[e]
      BY <1>1, <1>2, <1>3, <1>11 DEF Choose
    <2>2. \A e \in Downloads : At(e)' = At(e) BY <2>1 DEF At
    <2>3. target'[d] = At(d) \/ legacy[target'[d]] = None BY <1>11, OldChooses
    <2> QED BY <2>1, <2>2, <2>3 DEF OldFits
  <1>12. CASE Rename(d)
    <2>1. /\ pc[d] = "rename" /\ part[x] = Url[d] /\ state[x] = Url[d] /\ target[d] \in Names
          /\ target[d] # x => legacy[target[d]] = None
      BY <1>12 DEF Rename, Safe, Relies, Owned, Typed, Targeted, OldFits
    <2>2. /\ \A y \in Names : file'[y] = IF y = target[d] THEN Url[d] ELSE file[y]
          /\ \A y \in Names : part'[y] = IF y = x THEN None ELSE part[y]
          /\ state' = state /\ legacy' = legacy /\ num' = num /\ target' = target /\ pc'[d] = "renamed"
          /\ \A e \in Downloads \ {d} : pc'[e] = pc[e]
      BY <1>1, <1>2, <1>12, <2>1 DEF Rename
    <2>3. \A e \in Downloads : At(e)' = At(e) BY <2>2 DEF At
    <2>4. \A e \in Downloads : At(e)' = x => pc'[e] \notin Claiming
      BY <1>3, <1>4, <2>1, <2>2, <2>3 DEF Working
    <2>5. file[x] \notin Urls \/ legacy[x] = None BY <1>3, <2>1 DEF OldFits
    <2>6. ASSUME NEW y \in Names, legacy'[y] # None
          PROVE  /\ \E b \in Bases : y = <<b>>
                 /\ part'[y] # None => file'[y] \notin Urls
                 /\ \A e \in Downloads : At(e)' = y /\ pc'[e] \in Claiming => file'[y] \notin Urls
                 /\ part'[y] = None /\ file'[y] = legacy'[y] => state'[y] \in {None, legacy'[y]}
      <3>1. CASE y = x BY <1>1, <1>2, <2>1, <2>2, <2>4, <2>5, <2>6, <3>1 DEF OldFits
      <3>2. CASE y # x
        <4>1. y # target[d] BY <2>1, <2>2, <2>6, <3>2
        <4>2. file'[y] = file[y] /\ part'[y] = part[y] /\ state'[y] = state[y] /\ legacy'[y] = legacy[y] BY <2>2, <3>2, <4>1
        <4>3. \A e \in Downloads : At(e)' = y /\ pc'[e] \in Claiming => At(e) = y /\ pc[e] \in Claiming
          BY <1>3, <2>2, <2>3
        <4> QED BY <2>6, <4>2, <4>3 DEF OldFits
      <3> QED BY <3>1, <3>2
    <2> QED BY <2>2, <2>3, <2>6 DEF OldFits
  <1> QED BY <1>5, <1>6, <1>7, <1>8, <1>9, <1>10, <1>11, <1>12 DEF Plan, Fetch, Finalize

LEMMA OldElse ==
  ASSUME ToldApart, Safe, NamesStay, OldFits,
         (\E t \in Tools : DiscardPart(t) \/ DiscardState(t)) \/ (\E a \in Actors : Crash(a)) \/ User \/ UNCHANGED vars
  PROVE  OldFits'
  <1>1. /\ Downloads \subseteq Actors /\ None \notin Urls /\ Mine \notin Urls /\ Downloads \cap Tools = {}
        /\ "idle" \notin Claiming /\ "discard" \notin Claiming
    BY DEF ToldApart, Actors, Claiming
  <1>2. /\ pc \in [Actors -> PC] /\ part \in [Names -> Urls \cup {Mine, None}] /\ file \in [Names -> Urls \cup {Mine, None}]
        /\ state \in [Names -> Urls \cup {None}] /\ legacy \in [Names -> Urls \cup {None}]
        /\ target \in [Downloads -> Names \cup {None}]
    BY DEF Safe, Owned, Typed, TypeOK
  <1> DEFINE Quiet == /\ legacy' = legacy /\ num' = num
                      /\ \A e \in Downloads : (pc'[e] = pc[e] /\ target'[e] = target[e]) \/ pc'[e] = "idle"
                      /\ \A x \in Names : file'[x] = file[x] \/ file'[x] \in {Mine, None}
                      /\ \A x \in Names : part'[x] \in {part[x], None} /\ state'[x] \in {state[x], None}
  <1>3. Quiet
    <2>1. ASSUME NEW t \in Tools, DiscardPart(t) \/ DiscardState(t) PROVE Quiet
      BY <1>1, <1>2, <2>1 DEF DiscardPart, DiscardState, Goto, Actors
    <2>2. ASSUME NEW a \in Actors, Crash(a) PROVE Quiet
      BY <1>1, <1>2, <2>2 DEF Crash, Goto, disk
    <2>3. CASE User BY <1>2, <2>3 DEF User
    <2>4. CASE UNCHANGED vars BY <2>4 DEF vars, disk
    <2> QED BY <2>1, <2>2, <2>3, <2>4
  <1>4. \A e \in Downloads : At(e)' = At(e) BY <1>3 DEF At
  <1>5. \A e \in Downloads : pc'[e] \in Claiming => pc'[e] = pc[e] /\ target'[e] = target[e] BY <1>1, <1>3
  <1>6. "rename" \in Claiming BY DEF Claiming
  <1>7. ASSUME NEW x \in Names, legacy'[x] # None
        PROVE  /\ \E b \in Bases : x = <<b>>
               /\ part'[x] # None => file'[x] \notin Urls
               /\ \A e \in Downloads : At(e)' = x /\ pc'[e] \in Claiming => file'[x] \notin Urls
               /\ part'[x] = None /\ file'[x] = legacy'[x] => state'[x] \in {None, legacy'[x]}
    <2>0. legacy'[x] \in Urls BY <1>1, <1>2, <1>3, <1>7
    <2>1. file'[x] \in Urls => file'[x] = file[x] BY <1>1, <1>3
    <2>2. part'[x] # None => part[x] # None BY <1>3
    <2>3. \A e \in Downloads : At(e)' = x /\ pc'[e] \in Claiming => file'[x] \notin Urls
      BY <1>3, <1>4, <1>5, <1>7, <2>1 DEF OldFits
    <2>4. ASSUME part'[x] = None, file'[x] = legacy'[x] PROVE state'[x] \in {None, legacy'[x]}
      <3>1. file[x] \in Urls /\ file[x] = legacy[x] BY <1>3, <2>0, <2>1, <2>4
      <3>2. part[x] = None BY <1>3, <1>7, <3>1 DEF OldFits
      <3> QED BY <1>3, <1>7, <3>1, <3>2 DEF OldFits
    <2> QED BY <1>3, <1>7, <2>1, <2>2, <2>3, <2>4 DEF OldFits
  <1>8. ASSUME NEW e \in Downloads, pc'[e] = "rename", target'[e] # At(e)' PROVE legacy'[target'[e]] = None
    BY <1>3, <1>4, <1>5, <1>6, <1>8 DEF OldFits
  <1> QED BY <1>7, <1>8 DEF OldFits

(* Nothing adds to what an older release left. *)
LEMMA NoMoreOld ==
  ASSUME ToldApart, Typed, [Next]_vars
  PROVE  left'["legacy"] = left["legacy"] /\ \A x \in Names : legacy'[x] \in {legacy[x], None}
  <1>1. left \in [World -> Nat] /\ legacy \in [Names -> Urls \cup {None}] BY DEF Typed, TypeOK
  <1>2. World = {"crash", "stale", "wrong", "user", "legacy"} BY DEF World
  <1> USE DEF disk, May
  <1>3. ASSUME NEW d \in Downloads, Start(d) \/ Plan(d) PROVE left'["legacy"] = left["legacy"] /\ \A x \in Names : legacy'[x] \in {legacy[x], None}
    BY <1>1, <1>2, <1>3 DEF Start, Plan, AlreadyDone, NotDone, Claim, Claimed, Taken, MigrateFile, MigrateState, Free, PlanFetch,
       OthersPart, StalePart, CannotResume, StaleState, NextName
  <1>4. ASSUME NEW d \in Downloads, Fetch(d) \/ Finalize(d) PROVE left'["legacy"] = left["legacy"] /\ \A x \in Names : legacy'[x] \in {legacy[x], None}
    BY <1>1, <1>2, <1>4 DEF Fetch, Record, Open, Fail, Fetched, Finalize, WrongPart, WrongState, Choose, Rename, Finish, RecordCompleted
  <1>5. ASSUME NEW t \in Tools, DiscardPart(t) \/ DiscardState(t) PROVE left' = left /\ legacy' = legacy
    BY <1>5 DEF DiscardPart, DiscardState
  <1>6. ASSUME NEW a \in Actors, Crash(a) PROVE left'["legacy"] = left["legacy"] /\ legacy' = legacy
    BY <1>1, <1>2, <1>6 DEF Crash
  <1>7. ASSUME User PROVE left'["legacy"] = left["legacy"] /\ legacy' = legacy
    BY <1>1, <1>2, <1>7 DEF User
  <1>8. CASE UNCHANGED vars BY <1>8 DEF vars
  <1> QED BY <1>3, <1>4, <1>5, <1>6, <1>7, <1>8 DEF Next

LEMMA OldNext == ASSUME ToldApart, Safe, [Next]_vars PROVE Old'
  <1>1. left'["legacy"] = left["legacy"] /\ \A x \in Names : legacy'[x] \in {legacy[x], None}
    BY NoMoreOld DEF Safe, Owned
  <1>2. NothingOld => NothingOld' BY <1>1 DEF NothingOld
  <1>3. NamesStay' <=> NamesStay BY DEF NamesStay
  <1>4. ASSUME NamesStay, OldFits PROVE OldFits'
    BY <1>4, OldDownloads, OldElse DEF Next
  <1> QED BY <1>1, <1>2, <1>3, <1>4 DEF Safe, Old

LEMMA SafeNext == ASSUME ToldApart, Safe, [Next]_vars PROVE Safe'
  <1>1. Owned' /\ Old' BY OwnedNext, OldNext DEF Safe
  <1>2. (\A d \in Downloads : Relies(d)') /\ (\A x \in Names : Fits(x)')
    BY SafePlan, SafeFetch, SafeTool, SafeElse DEF Next
  <1> QED BY <1>1, <1>2 DEF Safe

(* Downloads of an older release, or ones that replace a file or rename it for its contents, and not both. *)
Unmixed == NamesStay \/ \A B \in Budgets : B["legacy"] = 0

LEMMA NoUrlsAtFirst == ASSUME ToldApart, Init, left["legacy"] = 0 PROVE NothingOld
  <1> DEFINE Firsts == {<<b>> : b \in Bases}
             Lying == {x \in Names : file[x] \in Urls}
  <1>1. IsFiniteSet(Firsts)
    <2> DEFINE F == [b \in Bases |-> <<b>>]
    <2>1. F \in Surjection(Bases, Firsts) BY DEF Surjection
    <2> HIDE DEF F
    <2> QED BY <2>1, FS_Surjection DEF ToldApart
  <1>2. \A x \in Names : Len(x) <= 1 => x \in Firsts
    <2>1. ASSUME NEW b \in Bases, NEW n \in 1 .. MaxN PROVE Len(<<b, n>>) = 2 OBVIOUS
    <2>2. ASSUME NEW b \in Bases, NEW n \in 1 .. MaxN, NEW m \in 1 .. MaxN PROVE Len(<<b, n, m>>) = 3 OBVIOUS
    <2>3. \A x \in Bases \X (1 .. MaxN) : Len(x) = 2 BY <2>1
    <2>4. \A x \in Bases \X (1 .. MaxN) \X (1 .. MaxN) : Len(x) = 3 BY <2>2
    <2> DEFINE Twice == Bases \X (1 .. MaxN)
               Thrice == Bases \X (1 .. MaxN) \X (1 .. MaxN)
    <2>5. Names = Firsts \cup Twice \cup Thrice BY DEF Names
    <2>6. (\A x \in Twice : Len(x) = 2) /\ (\A x \in Thrice : Len(x) = 3) BY <2>3, <2>4
    <2> HIDE DEF Firsts, Twice, Thrice
    <2> QED BY <2>5, <2>6
  <1>3. \A x \in Names : Len(x) \in Nat
    <2>1. \A x \in Firsts : Len(x) = 1 OBVIOUS
    <2>2. \A x \in Bases \X (1 .. MaxN) : Len(x) = 2 OBVIOUS
    <2>3. \A x \in Bases \X (1 .. MaxN) \X (1 .. MaxN) : Len(x) = 3 OBVIOUS
    <2> QED BY <2>1, <2>2, <2>3 DEF Names
  <1>4. Lying \subseteq Firsts
    <2> SUFFICES ASSUME NEW x \in Names, file[x] \in Urls PROVE x \in Firsts OBVIOUS
    <2>1. file[x] # None BY DEF ToldApart
    <2>2. Len(x) <= 1 BY <1>3, <2>1 DEF Init
    <2> QED BY <1>2, <2>2
  <1>5. IsFiniteSet(Lying) BY <1>1, <1>4, FS_Subset
  <1>6. Cardinality(Lying) \in Nat BY <1>5, FS_CardinalityType
  <1>7. Cardinality(Lying) <= 0 BY DEF Init
  <1>8. Lying = {} BY <1>5, <1>6, <1>7, FS_EmptySet
  <1> QED BY <1>8 DEF Init, NothingOld

LEMMA SafeInit == ASSUME ToldApart, Unmixed, Init PROVE Safe
  <1>1. Owned BY OwnedInit
  <1>2. /\ \A d \in Downloads : pc[d] = "idle"
        /\ \A x \in Names : part[x] = None /\ state[x] = None
    BY DEF Init, Actors
  <1>3. (\A d \in Downloads : Relies(d)) /\ (\A x \in Names : Fits(x)) BY <1>2 DEF Relies, Fits
  <1>4. left["legacy"] = 0 => NothingOld BY NoUrlsAtFirst
  <1>5. ASSUME NamesStay PROVE OldFits
    <2>1. ASSUME NEW x \in Names, legacy[x] # None PROVE \E b \in Bases : x = <<b>>
      <3>1. file[x] # None BY <2>1 DEF Init, ToldApart
      <3>2. ~(Len(x) > 1) BY <3>1 DEF Init
      <3>3. ASSUME NEW b \in Bases, NEW n \in 1 .. MaxN, NEW m \in 1 .. MaxN PROVE Len(<<b, n>>) = 2 /\ Len(<<b, n, m>>) = 3
        OBVIOUS
      <3>4. x \notin Bases \X (1 .. MaxN) /\ x \notin Bases \X (1 .. MaxN) \X (1 .. MaxN) BY <3>2, <3>3
      <3> QED BY <3>4 DEF Names
    <2> QED BY <1>2, <2>1 DEF OldFits, Claiming
  <1>6. Budgets \subseteq [World -> Nat] /\ left \in Budgets BY DEF ToldApart, Init
  <1> QED BY <1>1, <1>3, <1>4, <1>5, <1>6 DEF Safe, Old, Unmixed

(* What a download fetches into is its own .part beside its own state, and whoever finds a .part with nobody at *)
(* work on it finds the state that is true of it, across claims, crashes, discards and what an older release    *)
(* left (engine.rs: plan_target, prepare_resume, finalize, discard_partial).                                    *)
THEOREM OwnsWhatItWrites == ASSUME ToldApart, Unmixed PROVE Spec => [](WritesItsOwn /\ Resumable)
  <1>1. Safe => WritesItsOwn /\ Resumable BY DEF Safe, Relies, Fits, WritesItsOwn, Resumable
  <1> QED BY <1>1, SafeInit, SafeNext, PTL DEF Spec

-----------------------------------------------------------------------------
(* The name a download has claimed is without a file from then on, or it is to replace the one there; and that name *)
(* is where it goes, when contents rename nothing and nobody else moves files.                                      *)
Clear ==
  /\ left["user"] = 0
  /\ \A d \in Downloads : pc[d] \in Claiming => file[At(d)] = None \/ Replacing(d)
  /\ \A d \in Downloads : pc[d] = "rename" => target[d] = At(d)

LEMMA ClearInit == ASSUME ToldApart, Init, \A B \in Budgets : B["user"] = 0 PROVE Clear
  BY DEF ToldApart, Init, Clear, Claiming, Actors

(* A step of a download either leaves every file, or takes its own: renames to its own name, migrates from it. *)
LEMMA OwnFileOnly ==
  ASSUME ToldApart, Owned, Clear, NEW d \in Downloads, Start(d) \/ Plan(d) \/ Fetch(d) \/ Finalize(d)
  PROVE  /\ left'["user"] = left["user"]
         /\ \A e \in Actors \ {d} : pc'[e] = pc[e]
         /\ \A e \in Downloads \ {d} : num'[e] = num[e] /\ target'[e] = target[e]
         /\ \/ file' = file
            \/ MigrateFile(d) /\ \A y \in Names : y # At(d) => file'[y] = file[y]
            \/ Rename(d) /\ \A y \in Names : y # At(d) => file'[y] = file[y]
  <1>1. /\ d \in Actors /\ Downloads \subseteq Actors /\ World = {"crash", "stale", "wrong", "user", "legacy"}
    BY DEF Actors, World
  <1>2. /\ pc \in [Actors -> PC] /\ num \in [Downloads -> 0 .. MaxN] /\ file \in [Names -> Urls \cup {Mine, None}]
        /\ target \in [Downloads -> Names \cup {None}] /\ left \in [World -> Nat]
    BY DEF Owned, Typed, TypeOK
  <1> PICK x \in Names : x = At(d) BY AtNames DEF Owned, Typed
  <1> USE DEF Goto, disk, May
  <1>3. CASE Start(d) BY <1>1, <1>2, <1>3 DEF Start
  <1>4. CASE MigrateFile(d) BY <1>1, <1>2, <1>4 DEF MigrateFile
  <1>5. CASE Plan(d) /\ ~MigrateFile(d)
    BY <1>1, <1>2, <1>5 DEF Plan, AlreadyDone, NotDone, Claim, Claimed, Taken, MigrateState, Free, PlanFetch, OthersPart, StalePart,
       CannotResume, StaleState, NextName
  <1>6. CASE Fetch(d) BY <1>1, <1>2, <1>6 DEF Fetch, Record, Open, Fail, Fetched
  <1>7. CASE Rename(d)
    <2>1. target[d] = x BY <1>7 DEF Rename, Clear
    <2> QED BY <1>1, <1>2, <1>7, <2>1 DEF Rename
  <1>8. CASE Finalize(d) /\ ~Rename(d)
    BY <1>1, <1>2, <1>8 DEF Finalize, WrongPart, WrongState, Choose, Finish, RecordCompleted
  <1> QED BY <1>3, <1>4, <1>5, <1>6, <1>7, <1>8

LEMMA ClearByOwn ==
  ASSUME ToldApart, \A b \in Bases : Shown[b] = b, Owned, Clear, NEW d \in Downloads, Start(d) \/ Plan(d) \/ Fetch(d) \/ Finalize(d)
  PROVE  /\ pc'[d] \in Claiming => file'[At(d)'] = None \/ Replacing(d)'
         /\ pc'[d] = "rename" => target'[d] = At(d)'
  <1>1. d \in Actors /\ Claiming = {"migrate", "part", "stale", "record", "open", "fetch", "choose", "rename"}
    BY DEF Actors, Claiming
  <1>2. /\ pc \in [Actors -> PC] /\ num \in [Downloads -> 0 .. MaxN] /\ file \in [Names -> Urls \cup {Mine, None}]
        /\ target \in [Downloads -> Names \cup {None}]
    BY DEF Owned, Typed, TypeOK
  <1> PICK x \in Names : x = At(d) BY AtNames DEF Owned, Typed
  <1>3. ASSUME num' = num, file'[x] = None \/ Replacing(d), pc'[d] # "rename" \/ target'[d] = x
        PROVE  /\ pc'[d] \in Claiming => file'[At(d)'] = None \/ Replacing(d)'
               /\ pc'[d] = "rename" => target'[d] = At(d)'
    <2>1. At(d)' = x /\ Replacing(d)' = Replacing(d) BY <1>3 DEF At, Replacing
    <2> QED BY <1>3, <2>1
  <1>4. ASSUME pc'[d] \notin Claiming
        PROVE  /\ pc'[d] \in Claiming => file'[At(d)'] = None \/ Replacing(d)'
               /\ pc'[d] = "rename" => target'[d] = At(d)'
    BY <1>1, <1>4
  <1> USE DEF Goto, disk
  <1>5. CASE Start(d) BY <1>1, <1>2, <1>4, <1>5 DEF Start
  <1>6. CASE AlreadyDone(d) \/ NotDone(d) \/ Claim(d) \/ Claimed(d) \/ Taken(d) \/ OthersPart(d) \/ CannotResume(d)
    BY <1>1, <1>2, <1>4, <1>6 DEF AlreadyDone, NotDone, Claim, Claimed, Taken, OthersPart, CannotResume, NextName
  <1>7. CASE MigrateFile(d)
    <2>1. num' = num /\ file'[x] = None /\ pc'[d] = "migrate" BY <1>1, <1>2, <1>7 DEF MigrateFile
    <2> QED BY <1>3, <2>1
  <1>8. CASE Free(d)
    <2>1. num' = num /\ (file'[x] = None \/ Replacing(d)) /\ pc'[d] = "part" BY <1>1, <1>2, <1>8 DEF Free, InTheWay
    <2> QED BY <1>3, <2>1
  <1>9. CASE MigrateState(d) \/ PlanFetch(d) \/ StalePart(d) \/ StaleState(d) \/ Record(d) \/ Open(d) \/ Fetched(d)
    <2>1. num' = num /\ file' = file /\ pc[d] \in Claiming /\ pc'[d] # "rename"
      BY <1>1, <1>2, <1>9 DEF MigrateState, PlanFetch, StalePart, StaleState, Record, Open, Fetched
    <2> QED BY <1>3, <2>1 DEF Clear
  <1>10. CASE Fail(d) \/ WrongPart(d) \/ WrongState(d) \/ Rename(d) \/ Finish(d) \/ RecordCompleted(d)
    BY <1>1, <1>2, <1>4, <1>10 DEF Fail, WrongPart, WrongState, Rename, Finish, RecordCompleted
  <1>11. CASE Choose(d)
    <2>1. Named(d) = x BY AtNames DEF Owned, Typed
    <2>2. file[x] = None \/ Replacing(d) BY <1>1, <1>11 DEF Choose, Clear
    <2>3. target' = [target EXCEPT ![d] = x] BY <1>11, <2>1, <2>2 DEF Choose
    <2>4. num' = num /\ file' = file /\ target'[d] = x BY <1>2, <1>11, <2>3 DEF Choose
    <2> QED BY <1>3, <2>2, <2>4
  <1> QED BY <1>5, <1>6, <1>7, <1>8, <1>9, <1>10, <1>11 DEF Plan, Fetch, Finalize

LEMMA ClearByDownloads ==
  ASSUME ToldApart, \A b \in Bases : Shown[b] = b, Owned, Clear, NEW d \in Downloads, Start(d) \/ Plan(d) \/ Fetch(d) \/ Finalize(d)
  PROVE  Clear'
  <1>1. left'["user"] = 0 BY OwnFileOnly DEF Clear
  <1>2. ASSUME NEW e \in Downloads, e # d
        PROVE  /\ pc'[e] \in Claiming => file'[At(e)'] = None \/ Replacing(e)'
               /\ pc'[e] = "rename" => target'[e] = At(e)'
    <2>1. num'[e] = num[e] /\ target'[e] = target[e] /\ pc'[e] = pc[e] BY <1>2, OwnFileOnly DEF Actors
    <2>2. At(e)' = At(e) /\ Replacing(e)' = Replacing(e) BY <2>1 DEF At, Replacing
    <2>3. At(e) \in Names /\ At(d) \in Names BY AtNames DEF Owned, Typed
    <2>4. pc[e] \in Claiming /\ pc[d] \in Working => At(e) # At(d)
      <3>1. Claiming \subseteq Working BY DEF Claiming, Working
      <3> QED BY <1>2, <3>1 DEF Owned, Held
    <2>5. pc[e] \in Claiming => file'[At(e)] = file[At(e)]
      <3>1. MigrateFile(d) \/ Rename(d) => pc[d] \in Working BY DEF MigrateFile, Rename, Working
      <3> QED BY <2>3, <2>4, <3>1, OwnFileOnly
    <2> QED BY <2>1, <2>2, <2>5 DEF Clear
  <1> QED BY <1>1, <1>2, ClearByOwn DEF Clear

LEMMA ClearElse ==
  ASSUME ToldApart, Owned, Clear, (\E t \in Tools : DiscardPart(t) \/ DiscardState(t)) \/ (\E a \in Actors : Crash(a)) \/ User \/ UNCHANGED vars
  PROVE  Clear' /\ file' = file
  <1>1. /\ Downloads \subseteq Actors /\ Downloads \cap Tools = {} /\ "idle" \notin Claiming /\ "rename" \in Claiming
        /\ World = {"crash", "stale", "wrong", "user", "legacy"}
    BY DEF ToldApart, Actors, Claiming, World
  <1>2. pc \in [Actors -> PC] /\ target \in [Downloads -> Names \cup {None}] /\ left \in [World -> Nat] BY DEF Owned, Typed, TypeOK
  <1> DEFINE Quiet == /\ left'["user"] = 0 /\ file' = file /\ num' = num
                      /\ \A e \in Downloads : (pc'[e] = pc[e] /\ target'[e] = target[e]) \/ pc'[e] = "idle"
  <1>3. Quiet
    <2>1. ASSUME NEW t \in Tools, DiscardPart(t) \/ DiscardState(t) PROVE Quiet
      BY <1>1, <1>2, <2>1 DEF DiscardPart, DiscardState, Goto, Clear, Actors
    <2>2. ASSUME NEW a \in Actors, Crash(a) PROVE Quiet
      BY <1>1, <1>2, <2>2 DEF Crash, Goto, May, disk, Clear
    <2>3. ASSUME User PROVE FALSE BY <2>3 DEF User, May, Clear
    <2>4. CASE UNCHANGED vars BY <2>4 DEF vars, disk, Clear
    <2> QED BY <2>1, <2>2, <2>3, <2>4
  <1>4. \A e \in Downloads : At(e)' = At(e) /\ Replacing(e)' = Replacing(e) BY <1>3 DEF At, Replacing
  <1>5. \A e \in Downloads : pc'[e] \in Claiming => pc'[e] = pc[e] /\ target'[e] = target[e] BY <1>1, <1>3
  <1> QED BY <1>1, <1>3, <1>4, <1>5 DEF Clear

(* Where the contents do not change a file's name, and nobody else moves files, no download ever takes the place  *)
(* of a file that is there but one that is to replace it, whoever dies and whoever comes again (engine.rs:4973).  *)
(* For a name changed by its contents this is not so: the run bycontent shows it.                                 *)
THEOREM NothingReplaced ==
  ASSUME ToldApart, \A b \in Bases : Shown[b] = b, \A B \in Budgets : B["user"] = 0
  PROVE  Spec => NeverReplaced
  <1>1. Init => Owned /\ Clear BY OwnedInit, ClearInit
  <1>2. ASSUME Owned, Clear, [Next]_vars PROVE Owned' /\ Clear'
    BY <1>2, OwnedNext, ClearByDownloads, ClearElse DEF Next
  <1>3. ASSUME Owned, Clear, [Next]_vars PROVE [Untouched]_vars
    <2>1. ASSUME NEW d \in Downloads, Start(d) \/ Plan(d) \/ Fetch(d) \/ Finalize(d), NEW x \in Names, file[x] # None, file'[x] # file[x]
          PROVE  \/ \E e \in Replaces : pc[e] = "rename" /\ target[e] = x /\ x = <<Base[e]>>
                 \/ legacy[x] # None
      <3>1. x = At(d) /\ (MigrateFile(d) \/ Rename(d)) BY <1>3, <2>1, OwnFileOnly
      <3>2. CASE MigrateFile(d) BY <3>1, <3>2 DEF MigrateFile, IsLegacy, ToldApart
      <3>3. CASE Rename(d)
        <4>1. pc[d] = "rename" /\ "rename" \in Claiming BY <3>3 DEF Rename, Claiming
        <4>2. Replacing(d) /\ target[d] = x BY <1>3, <2>1, <3>1, <4>1 DEF Clear
        <4>3. x = <<Base[d]>> BY <3>1, <4>2 DEF Replacing, At, Numbered
        <4> QED BY <4>1, <4>2, <4>3 DEF Replacing
      <3> QED BY <3>1, <3>2, <3>3
    <2> QED BY <1>3, <2>1, ClearElse DEF Next, Untouched
  <1> QED BY <1>1, <1>2, <1>3, PTL DEF Spec, NeverReplaced
================================================================================
