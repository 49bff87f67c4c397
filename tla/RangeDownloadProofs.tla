------------------------- MODULE RangeDownloadProofs ------------------------
(***************************************************************************)
(* A download of any file, chunk sizes, workers, retries and budgets of    *)
(* what the world may do: what the chunk manager's operations do to any    *)
(* table; type correctness and the tiling of the file by the table; what   *)
(* is counted and owned; and, last, what is on disk and is delivered.      *)
(*                                                                         *)
(* The table stays a tiling because a chunk is only ever cut at the next   *)
(* byte its worker will write or behind what that worker received.  That   *)
(* these lie in the chunk is not the manager's doing alone: it needs that  *)
(* at most one live attempt is at a chunk and agrees with the chunk about  *)
(* where it writes, that a queued chunk has none, and that nothing moves a *)
(* victim's end while a thief holds the lock.  Inv says all of that.       *)
(***************************************************************************)
EXTENDS RangeDownload, SequenceTheorems, FiniteSetTheorems, TLAPS

-----------------------------------------------------------------------------
(* What the chunk manager's operations do to a table, to the number of its completed chunks and to *)
(* the bytes it counts as downloaded, proved for every table.                                      *)

(* A table whose chunks are in the file, and whose offsets never lie before them. *)
Table(cs) ==
  /\ cs \in Seq(Chunk)
  /\ Tiling(cs)
  /\ \A i \in DOMAIN cs : cs[i].start <= cs[i].cur

(* cs and ds have the same chunks, as ranges. *)
SameRanges(cs, ds) ==
  /\ Len(ds) = Len(cs)
  /\ \A i \in 1 .. Len(cs) : ds[i].start = cs[i].start /\ ds[i].end = cs[i].end

(* ds is cs with chunk i's range cut in two, one part of which is a chunk of its own. *)
CutInTwo(cs, ds, i) ==
  LET n == Len(cs) + 1
      c == cs[i]
  IN  /\ Len(ds) = n
      /\ \A j \in 1 .. Len(cs) : j # i => ds[j].start = cs[j].start /\ ds[j].end = cs[j].end
      /\ \A k \in {i, n} : c.start <= ds[k].start /\ ds[k].start <= ds[k].end /\ ds[k].end <= c.end
      /\ \/ ds[i].start = c.start /\ ds[n].end = c.end /\ ds[n].start = ds[i].end + 1
         \/ ds[n].start = c.start /\ ds[i].end = c.end /\ ds[i].start = ds[n].end + 1

(* A chunk is a record of numbers, within the file. *)
LEMMA ChunkFields ==
  ASSUME NEW c \in Chunk
  PROVE  /\ c.start \in Int /\ 0 <= c.start /\ c.start < Size
         /\ c.end \in Int /\ 0 <= c.end /\ c.end < Size
         /\ c.cur \in Int /\ 0 <= c.cur /\ c.cur <= Size
         /\ c.got \in Int /\ 0 <= c.got /\ c.got <= Size
         /\ c.status \in Status /\ c.retries \in Nat
  BY ManagerAssumption DEF Chunk, Byte

LEMMA NewChunkIsChunk ==
  ASSUME NEW s \in Byte, NEW e \in Byte, NEW st \in Status
  PROVE  /\ NewChunk(s, e, st) \in Chunk
         /\ NewChunk(s, e, st).start = s /\ NewChunk(s, e, st).end = e
         /\ NewChunk(s, e, st).cur = s /\ NewChunk(s, e, st).status = st
  BY ManagerAssumption DEF NewChunk, Chunk, Byte

(* What a change of anything but a range does to a tiling: nothing. *)
LEMMA SameRangesTile ==
  ASSUME NEW cs \in Seq(Chunk), NEW ds \in Seq(Chunk), Tiling(cs), SameRanges(cs, ds)
  PROVE  Tiling(ds)
  <1>1. DOMAIN cs = 1 .. Len(cs) /\ DOMAIN ds = 1 .. Len(cs) BY LenProperties DEF SameRanges
  <1>2. ds # <<>> => cs # <<>> BY <1>1, EmptySeq DEF SameRanges
  <1> QED BY <1>1, <1>2 DEF Tiling, SameRanges, Span

(* A cut leaves a tiling: the two parts hold the bytes the chunk held, and no other. *)
LEMMA CutTiles ==
  ASSUME NEW cs \in Seq(Chunk), NEW ds \in Seq(Chunk), NEW i \in 1 .. Len(cs),
         Tiling(cs), CutInTwo(cs, ds, i)
  PROVE  Tiling(ds)
  <1> DEFINE n == Len(cs) + 1
  <1>1. /\ DOMAIN cs = 1 .. Len(cs) /\ DOMAIN ds = 1 .. n /\ Len(cs) \in Nat
    BY LenProperties DEF CutInTwo
  <1>2. \A j \in 1 .. Len(cs) : cs[j].start \in Int /\ cs[j].end \in Int
    BY <1>1, ElementOfSeq, ChunkFields
  <1>3. \A j \in 1 .. n : ds[j].start \in Int /\ ds[j].end \in Int
    BY <1>1, ElementOfSeq, ChunkFields
  <1>4. ASSUME NEW j \in 1 .. n
        PROVE  ds[j].start <= ds[j].end
    <2>1. CASE j \in {i, n} BY <2>1 DEF CutInTwo
    <2>2. CASE j \notin {i, n}
      <3>1. ds[j].start = cs[j].start /\ ds[j].end = cs[j].end BY <2>2, <1>1 DEF CutInTwo
      <3>2. cs[j].start <= cs[j].end BY <2>2, <1>1 DEF Tiling
      <3> QED BY <3>1, <3>2
    <2> QED BY <2>1, <2>2
  (* Any chunk but the two parts keeps apart from both. *)
  <1>5. ASSUME NEW j \in 1 .. n, NEW k \in 1 .. n, j # k
        PROVE  ds[j].end < ds[k].start \/ ds[k].end < ds[j].start
    <2>1. CASE j \notin {i, n} /\ k \notin {i, n}
      <3>1. j \in 1 .. Len(cs) /\ k \in 1 .. Len(cs) BY <2>1, <1>1
      <3>2. cs[j].end < cs[k].start \/ cs[k].end < cs[j].start BY <3>1, <1>1, <1>5 DEF Tiling
      <3>3. \A l \in {j, k} : ds[l].start = cs[l].start /\ ds[l].end = cs[l].end BY <2>1, <3>1 DEF CutInTwo
      <3> QED BY <3>2, <3>3
    <2>2. CASE j \in {i, n} /\ k \notin {i, n}
      <3>1. cs[i].end < cs[k].start \/ cs[k].end < cs[i].start BY <2>2, <1>1 DEF Tiling
      <3>2. ds[k].start = cs[k].start /\ ds[k].end = cs[k].end BY <2>2, <1>1 DEF CutInTwo
      <3>3. cs[i].start <= ds[j].start /\ ds[j].end <= cs[i].end BY <2>2 DEF CutInTwo
      <3>4. ds[j].start \in Int /\ ds[j].end \in Int BY <1>3
      <3>5. k \in 1 .. Len(cs) BY <1>1, <2>2
      <3>6. /\ cs[i].start \in Int /\ cs[i].end \in Int /\ cs[k].start \in Int /\ cs[k].end \in Int
        BY <1>2, <3>5
      <3> QED BY <3>1, <3>2, <3>3, <3>4, <3>6
    <2>3. CASE j \notin {i, n} /\ k \in {i, n}
      <3>1. cs[i].end < cs[j].start \/ cs[j].end < cs[i].start BY <2>3, <1>1 DEF Tiling
      <3>2. ds[j].start = cs[j].start /\ ds[j].end = cs[j].end BY <2>3, <1>1 DEF CutInTwo
      <3>3. cs[i].start <= ds[k].start /\ ds[k].end <= cs[i].end BY <2>3 DEF CutInTwo
      <3>4. ds[k].start \in Int /\ ds[k].end \in Int BY <1>3
      <3>5. j \in 1 .. Len(cs) BY <1>1, <2>3
      <3>6. /\ cs[i].start \in Int /\ cs[i].end \in Int /\ cs[j].start \in Int /\ cs[j].end \in Int
        BY <1>2, <3>5
      <3> QED BY <3>1, <3>2, <3>3, <3>4, <3>6
    <2>4. CASE j \in {i, n} /\ k \in {i, n}
      <3>1. i \in 1 .. n /\ n \in 1 .. n BY <1>1
      <3>2. /\ ds[i].start \in Int /\ ds[i].end \in Int /\ ds[n].start \in Int /\ ds[n].end \in Int
        BY <3>1, <1>3
      <3>3. ds[n].start = ds[i].end + 1 \/ ds[i].start = ds[n].end + 1 BY DEF CutInTwo
      <3>4. ds[i].end < ds[n].start \/ ds[n].end < ds[i].start BY <3>2, <3>3
      <3> QED BY <3>4, <2>4, <1>5
    <2> QED BY <2>1, <2>2, <2>3, <2>4
  <1>6. ASSUME NEW b \in Byte
        PROVE  \E j \in 1 .. n : b \in Span(ds[j])
    <2>0. b \in Int BY ManagerAssumption DEF Byte
    <2>1. PICK j \in 1 .. Len(cs) : b \in Span(cs[j])
      <3>1. cs # <<>> BY <1>1, EmptySeq
      <3> QED BY <3>1, <1>1, <1>5 DEF Tiling
    <2>2. CASE j # i
      <3>1. Span(ds[j]) = Span(cs[j]) BY <2>2 DEF CutInTwo, Span
      <3> QED BY <3>1, <2>1, <1>1
    <2>3. CASE j = i
      <3>1. cs[i].start <= b /\ b <= cs[i].end BY <2>1, <2>3, <2>0, <1>2 DEF Span
      <3>2. (ds[i].start <= b /\ b <= ds[i].end) \/ (ds[n].start <= b /\ b <= ds[n].end)
        BY <3>1, <2>0, <1>1, <1>2, <1>3 DEF CutInTwo
      <3> QED BY <3>2, <2>0, <1>1, <1>3 DEF Span
    <2> QED BY <2>2, <2>3
  <1> QED BY <1>1, <1>4, <1>5, <1>6 DEF Tiling

-----------------------------------------------------------------------------
(* The operations on a table. *)

(* Carve keeps a table, every chunk in its place, and adds at most a completed one: the written *)
(* prefix of chunk i, which then starts where its worker writes next.                            *)
LEMMA CarveKeepsTable ==
  ASSUME NEW cs, Table(cs), NEW i \in 1 .. Len(cs), cs[i].cur <= cs[i].end
  PROVE  /\ Table(Carve(cs, i))
         /\ Len(Carve(cs, i)) \in Len(cs) .. Len(cs) + 1
         /\ Carve(cs, i)[i] = [cs[i] EXCEPT !.start = cs[i].cur]
         /\ \A j \in 1 .. Len(cs) : j # i => Carve(cs, i)[j] = cs[j]
         /\ \A j \in 1 .. Len(Carve(cs, i)) : j > Len(cs) => Carve(cs, i)[j].status = "Completed"
  <1> DEFINE c == cs[i]
             rest == [c EXCEPT !.start = c.cur]
             es == [cs EXCEPT ![i] = rest]
             done == NewChunk(c.start, c.cur - 1, "Completed")
             ds == Carve(cs, i)
  <1>1. cs \in Seq(Chunk) /\ DOMAIN cs = 1 .. Len(cs) /\ Len(cs) \in Nat /\ c \in Chunk
    BY LenProperties, ElementOfSeq DEF Table
  <1>2. c.start <= c.cur BY <1>1 DEF Table
  <1>3. CASE c.cur <= c.start
    <2>1. c.cur = c.start BY <1>1, <1>2, <1>3, ChunkFields
    <2>2. rest = c BY <1>1, <2>1 DEF Chunk
    <2>3. ds = cs
      <3>1. ~(c.cur > c.start) BY <2>1, <1>1, ChunkFields
      <3> QED BY <3>1 DEF Carve
    <2> QED BY <1>1, <2>2, <2>3
  <1>4. CASE c.cur > c.start
    <2>1. rest \in Chunk
      <3>1. c.cur \in Byte BY <1>1, ChunkFields, ManagerAssumption DEF Byte
      <3> QED BY <1>1, <3>1 DEF Chunk
    <2>2. /\ done \in Chunk /\ done.start = c.start /\ done.end = c.cur - 1
          /\ done.cur = c.start /\ done.status = "Completed"
      <3>1. c.start \in Byte /\ c.cur - 1 \in Byte
        BY <1>1, <1>4, ChunkFields, ManagerAssumption DEF Byte
      <3> QED BY <3>1, NewChunkIsChunk DEF Status
    <2>3. es \in Seq(Chunk) /\ Len(es) = Len(cs) /\ \A j \in 1 .. Len(cs) : es[j] = IF j = i THEN rest ELSE cs[j]
      BY <1>1, <2>1, ExceptSeq
    <2>4. ds = Append(es, done) BY <1>4 DEF Carve
    <2>5. /\ ds \in Seq(Chunk) /\ Len(ds) = Len(cs) + 1 /\ ds[Len(cs) + 1] = done
          /\ \A j \in 1 .. Len(cs) : ds[j] = IF j = i THEN rest ELSE cs[j]
      BY <2>2, <2>3, <2>4, AppendProperties
    <2>6. rest.start = c.cur /\ rest.end = c.end /\ rest.cur = c.cur BY <1>1 DEF Chunk
    <2>7. CutInTwo(cs, ds, i)
      <3>1. /\ c.start \in Int /\ c.cur \in Int /\ c.end \in Int BY <1>1, ChunkFields
      <3>2. ds[i] = rest /\ \A j \in 1 .. Len(cs) : j # i => ds[j] = cs[j] BY <2>5
      <3>3. c = cs[i] OBVIOUS
      <3> HIDE DEF rest, done, ds, c
      <3> QED BY <3>1, <3>2, <3>3, <1>4, <2>2, <2>5, <2>6 DEF CutInTwo
    <2>8. Tiling(ds) BY <1>1, <2>5, <2>7, CutTiles DEF Table
    <2>9. DOMAIN ds = 1 .. Len(cs) + 1 BY <2>5, LenProperties
    <2>10. \A j \in DOMAIN ds : ds[j].start <= ds[j].cur
      <3>1. c.cur \in Int /\ c.start \in Int BY <1>1, ChunkFields
      <3>2. \A j \in 1 .. Len(cs) : cs[j].start <= cs[j].cur BY <1>1 DEF Table
      <3> HIDE DEF rest, done, ds, c
      <3>3. ds[i].start <= ds[i].cur BY <3>1, <1>1, <2>5, <2>6
      <3>4. ds[Len(cs) + 1].start <= ds[Len(cs) + 1].cur BY <3>1, <2>2, <2>5
      <3>5. \A j \in 1 .. Len(cs) : j # i => ds[j].start <= ds[j].cur BY <3>2, <2>5
      <3> QED BY <3>3, <3>4, <3>5, <2>9, <1>1
    <2>11. Table(ds) BY <2>5, <2>8, <2>10 DEF Table
    <2> QED BY <1>1, <2>2, <2>5, <2>11
  <1> QED BY <1>1, <1>3, <1>4, ChunkFields

(* A chunk may change in all but its range, as long as its offset stays at or behind its start. *)
LEMMA SetKeepsTable ==
  ASSUME NEW cs, Table(cs), NEW i \in 1 .. Len(cs), NEW c \in Chunk,
         c.start = cs[i].start, c.end = cs[i].end, c.start <= c.cur
  PROVE  /\ Table([cs EXCEPT ![i] = c])
         /\ Len([cs EXCEPT ![i] = c]) = Len(cs)
         /\ \A j \in 1 .. Len(cs) : [cs EXCEPT ![i] = c][j] = IF j = i THEN c ELSE cs[j]
  <1> DEFINE ds == [cs EXCEPT ![i] = c]
  <1>1. cs \in Seq(Chunk) /\ DOMAIN cs = 1 .. Len(cs) BY LenProperties DEF Table
  <1>2. ds \in Seq(Chunk) /\ Len(ds) = Len(cs) /\ \A j \in 1 .. Len(cs) : ds[j] = IF j = i THEN c ELSE cs[j]
    BY <1>1, ExceptSeq
  <1>3. SameRanges(cs, ds) BY <1>2 DEF SameRanges
  <1>4. Tiling(ds) BY <1>1, <1>2, <1>3, SameRangesTile DEF Table
  <1>5. DOMAIN ds = 1 .. Len(cs) BY <1>2, LenProperties
  <1>6. \A j \in DOMAIN ds : ds[j].start <= ds[j].cur BY <1>1, <1>2, <1>5 DEF Table
  <1> QED BY <1>2, <1>4, <1>6 DEF Table

(* A chunk's new status, and what its worker tells of it, are changes of that kind. *)
LEMMA StatusKeepsTable ==
  ASSUME NEW cs, Table(cs), NEW i \in 1 .. Len(cs), NEW st \in Status
  PROVE  /\ Table([cs EXCEPT ![i].status = st])
         /\ Len([cs EXCEPT ![i].status = st]) = Len(cs)
         /\ \A j \in 1 .. Len(cs) : j # i => [cs EXCEPT ![i].status = st][j] = cs[j]
         /\ [cs EXCEPT ![i].status = st][i].status = st
         /\ [cs EXCEPT ![i].status = st][i].cur = cs[i].cur
  <1> DEFINE c == [cs[i] EXCEPT !.status = st]
  <1>1. cs[i] \in Chunk BY ElementOfSeq DEF Table
  <1>2. c \in Chunk /\ c.start = cs[i].start /\ c.end = cs[i].end /\ c.cur = cs[i].cur /\ c.status = st
    BY <1>1 DEF Chunk
  <1>3. c.start <= c.cur BY <1>2, LenProperties DEF Table
  <1>4. [cs EXCEPT ![i].status = st] = [cs EXCEPT ![i] = c] OBVIOUS
  <1> HIDE DEF c
  <1> QED BY <1>2, <1>3, <1>4, SetKeepsTable

(* Assign is one of them. *)
LEMMA AssignKeepsTable ==
  ASSUME NEW cs, Table(cs), NEW i \in 1 .. Len(cs)
  PROVE  /\ Table(Assign(cs, i))
         /\ Len(Assign(cs, i)) = Len(cs)
         /\ \A j \in 1 .. Len(cs) : j # i => Assign(cs, i)[j] = cs[j]
         /\ Assign(cs, i)[i].status = "Assigned"
         /\ Assign(cs, i)[i].cur = cs[i].cur
         /\ Assign(cs, i)[i].start = cs[i].start /\ Assign(cs, i)[i].end = cs[i].end
  <1> DEFINE c == [cs[i] EXCEPT !.status = "Assigned", !.got = 0]
  <1>1. cs[i] \in Chunk BY ElementOfSeq DEF Table
  <1>2. c \in Chunk /\ c.start = cs[i].start /\ c.end = cs[i].end /\ c.cur = cs[i].cur /\ c.status = "Assigned"
    <2>1. 0 \in 0 .. Size BY ManagerAssumption
    <2> QED BY <1>1, <2>1 DEF Chunk, Status
  <1>3. c.start <= c.cur BY <1>2, LenProperties DEF Table
  <1>4. Assign(cs, i) = [cs EXCEPT ![i] = c]
    BY DEF Assign
  <1> HIDE DEF c
  <1>5. /\ Table(Assign(cs, i)) /\ Len(Assign(cs, i)) = Len(cs)
        /\ \A j \in 1 .. Len(cs) : Assign(cs, i)[j] = IF j = i THEN c ELSE cs[j]
    <2> DEFINE ds == [cs EXCEPT ![i] = c]
    <2>1. /\ Table(ds) /\ Len(ds) = Len(cs) /\ \A j \in 1 .. Len(cs) : ds[j] = IF j = i THEN c ELSE cs[j]
      BY <1>2, <1>3, SetKeepsTable
    <2> HIDE DEF ds
    <2> QED BY <2>1, <1>4 DEF ds
  <1> QED BY <1>2, <1>5

(* A cut of chunk i after m, neither part empty, as steal_work and assign_at make it. *)
LEMMA SplitKeepsTable ==
  ASSUME NEW cs, Table(cs), NEW i \in 1 .. Len(cs), NEW m \in Int, NEW st \in Status,
         cs[i].start <= m, m < cs[i].end
  PROVE  LET ds == Append([cs EXCEPT ![i].end = m], NewChunk(m + 1, cs[i].end, st))
         IN  /\ Table(ds)
             /\ Len(ds) = Len(cs) + 1
             /\ \A j \in 1 .. Len(cs) : j # i => ds[j] = cs[j]
             /\ ds[i] = [cs[i] EXCEPT !.end = m]
             /\ ds[Len(cs) + 1] = NewChunk(m + 1, cs[i].end, st)
  <1> DEFINE c == cs[i]
             front == [c EXCEPT !.end = m]
             back == NewChunk(m + 1, c.end, st)
             es == [cs EXCEPT ![i] = front]
             ds == Append([cs EXCEPT ![i].end = m], back)
  <1>1. cs \in Seq(Chunk) /\ DOMAIN cs = 1 .. Len(cs) /\ Len(cs) \in Nat /\ c \in Chunk /\ c.start <= c.cur
    BY LenProperties, ElementOfSeq DEF Table
  <1>2. m \in Byte /\ m + 1 \in Byte /\ c.end \in Byte
    BY <1>1, ChunkFields, ManagerAssumption DEF Byte
  <1>3. front \in Chunk /\ front.start = c.start /\ front.end = m /\ front.cur = c.cur
    BY <1>1, <1>2 DEF Chunk
  <1>4. back \in Chunk /\ back.start = m + 1 /\ back.end = c.end /\ back.cur = m + 1
    <2>1. m + 1 \in Byte /\ c.end \in Byte BY <1>2
    <2> HIDE DEF c
    <2> QED BY <2>1, NewChunkIsChunk
  <1>5. es \in Seq(Chunk) /\ Len(es) = Len(cs) /\ \A j \in 1 .. Len(cs) : es[j] = IF j = i THEN front ELSE cs[j]
    BY <1>1, <1>3, ExceptSeq
  <1>6. ds = Append(es, back) OBVIOUS
  <1>7. /\ ds \in Seq(Chunk) /\ Len(ds) = Len(cs) + 1 /\ ds[Len(cs) + 1] = back
        /\ \A j \in 1 .. Len(cs) : ds[j] = IF j = i THEN front ELSE cs[j]
    BY <1>4, <1>5, <1>6, AppendProperties
  <1>8. CutInTwo(cs, ds, i)
    <2>1. \A j \in 1 .. Len(cs) : j # i => ds[j] = cs[j] BY <1>7
    <2>2. ds[i] = front BY <1>7
    <2> QED BY <1>1, <1>2, <1>3, <1>4, <1>7, <2>1, <2>2, ChunkFields DEF CutInTwo
  <1>9. Tiling(ds) BY <1>1, <1>7, <1>8, CutTiles DEF Table
  <1>10. DOMAIN ds = 1 .. Len(cs) + 1 BY <1>7, LenProperties
  <1>11. \A j \in DOMAIN ds : ds[j].start <= ds[j].cur
    BY <1>1, <1>2, <1>3, <1>4, <1>7, <1>10 DEF Table, Byte
  <1> QED BY <1>1, <1>7, <1>9, <1>11 DEF Table

(* The table of a download that starts. *)
LEMMA LayoutIsTable ==
  ASSUME NEW held, NEW cs \in Layouts(held)
  PROVE  /\ Table(cs)
         /\ \A i \in 1 .. Len(cs) : cs[i].status \in {"Completed", "Unassigned"} /\ cs[i].cur = cs[i].start
  <1> DEFINE status(s) == IF s \in held THEN "Completed" ELSE "Unassigned"
             pairs == {r \in Byte \X Byte : r[1] <= r[2]}
             fresh == {NewChunk(r[1], r[2], status(r[1])) : r \in pairs}
  <1>1. \A c \in fresh : /\ c \in Chunk /\ c.cur = c.start /\ c.start <= c.end
                         /\ c.status \in {"Completed", "Unassigned"}
    <2> SUFFICES ASSUME NEW r \in pairs
                 PROVE  LET c == NewChunk(r[1], r[2], status(r[1]))
                        IN  /\ c \in Chunk /\ c.cur = c.start /\ c.start <= c.end
                            /\ c.status \in {"Completed", "Unassigned"}
      OBVIOUS
    <2>1. r[1] \in Byte /\ r[2] \in Byte /\ r[1] <= r[2] OBVIOUS
    <2>2. status(r[1]) \in {"Completed", "Unassigned"} OBVIOUS
    <2>3. status(r[1]) \in Status BY DEF Status
    <2> HIDE DEF status, pairs
    <2> QED BY <2>1, <2>2, <2>3, NewChunkIsChunk
  <1>2. PICK n \in 1 .. Size : cs \in [1 .. n -> fresh] BY DEF Layouts
  <1>3. IsLayout(cs, held) BY DEF Layouts
  <1> HIDE DEF fresh
  <1>4. n \in Nat /\ DOMAIN cs = 1 .. n /\ \A i \in 1 .. n : cs[i] \in Chunk
    BY <1>1, <1>2, ManagerAssumption
  <1>5. cs \in Seq(Chunk) /\ Len(cs) = n
    <2>1. cs \in [1 .. n -> Chunk] BY <1>2, <1>4
    <2>2. cs \in Seq(Chunk) BY <2>1, <1>4, SeqDef
    <2> QED BY <2>2, <1>4, LenProperties
  <1>6. \A i, j \in 1 .. n : i < j => cs[i].end < cs[j].start BY <1>3, <1>4 DEF IsLayout
  <1>7. \A b \in Byte : \E i \in 1 .. n : b \in Span(cs[i]) BY <1>3, <1>4 DEF IsLayout
  <1>8. Tiling(cs)
    <2>1. ASSUME NEW i \in 1 .. n, NEW j \in 1 .. n, i # j
          PROVE  cs[i].end < cs[j].start \/ cs[j].end < cs[i].start
      <3>1. i < j \/ j < i BY <2>1
      <3> QED BY <3>1, <1>6
    <2> QED BY <2>1, <1>1, <1>2, <1>4, <1>7 DEF Tiling
  <1>9. \A i \in 1 .. n : /\ cs[i].cur = cs[i].start /\ cs[i].status \in {"Completed", "Unassigned"}
                          /\ cs[i].start \in Int
    BY <1>1, <1>2, <1>4, ChunkFields
  <1> QED BY <1>4, <1>5, <1>8, <1>9 DEF Table

(* ... of which the probe's answer goes on with a chunk, cut where that answer ends. *)
LEMMA AssignAtKeepsTable ==
  ASSUME NEW cs, Table(cs), NEW i \in 1 .. Len(cs), NEW e \in Byte, cs[i].start <= e
  PROVE  /\ Table(AssignAt(cs, i, e))
         /\ Len(AssignAt(cs, i, e)) \in Len(cs) .. Len(cs) + 1
         /\ AssignAt(cs, i, e)[i].status = "Assigned"
         /\ AssignAt(cs, i, e)[i].cur = cs[i].cur
  <1>0. cs \in Seq(Chunk) /\ Len(cs) \in Nat /\ cs[i] \in Chunk /\ e \in Int
    BY LenProperties, ElementOfSeq, ManagerAssumption DEF Table, Byte
  <1>1. CASE e < cs[i].end
    <2> DEFINE es == [cs EXCEPT ![i].end = e]
               back == NewChunk(e + 1, cs[i].end, "Unassigned")
               fs == Append(es, back)
    <2>1. /\ Table(fs) /\ Len(fs) = Len(cs) + 1
          /\ fs[i] = [cs[i] EXCEPT !.end = e]
      BY <1>0, <1>1, SplitKeepsTable DEF Status
    <2>2. fs[i].cur = cs[i].cur BY <2>1, <1>0 DEF Chunk
    <2>3. AssignAt(cs, i, e) = Assign(fs, i) BY <1>1 DEF AssignAt
    <2> HIDE DEF fs
    <2>4. i \in 1 .. Len(fs) BY <2>1, <1>0
    <2>5. /\ Table(Assign(fs, i)) /\ Len(Assign(fs, i)) = Len(fs)
          /\ Assign(fs, i)[i].status = "Assigned" /\ Assign(fs, i)[i].cur = fs[i].cur
      <3>1. \A gs : Table(gs) /\ i \in 1 .. Len(gs) =>
              /\ Table(Assign(gs, i)) /\ Len(Assign(gs, i)) = Len(gs)
              /\ Assign(gs, i)[i].status = "Assigned" /\ Assign(gs, i)[i].cur = gs[i].cur
        BY AssignKeepsTable
      <3> QED BY <2>1, <2>4, <3>1
    <2> QED BY <2>1, <2>2, <2>3, <2>5, <1>0
  <1>2. CASE ~(e < cs[i].end)
    <2>1. AssignAt(cs, i, e) = Assign(cs, i) BY <1>2 DEF AssignAt
    <2> QED BY <2>1, <1>0, AssignKeepsTable
  <1> QED BY <1>1, <1>2

-----------------------------------------------------------------------------
(* What an operation does to the completed chunks and to the bytes the table counts as downloaded. *)

Done(cs) == {i \in 1 .. Len(cs) : cs[i].status = "Completed"}

Covered(cs) == UNION {Written(cs[i]) : i \in 1 .. Len(cs)}

(* ds is cs with chunk i changed and at most one chunk added. *)
ChangesAt(cs, ds, i) ==
  /\ Len(ds) \in Len(cs) .. Len(cs) + 1
  /\ \A j \in 1 .. Len(cs) : j # i => ds[j] = cs[j]

LEMMA DoneIsFinite ==
  ASSUME NEW cs, Len(cs) \in Nat
  PROVE  IsFiniteSet(Done(cs)) /\ Cardinality(Done(cs)) \in Nat
  <1>1. Done(cs) \subseteq 1 .. Len(cs) BY DEF Done
  <1>2. IsFiniteSet(1 .. Len(cs)) BY FS_Interval
  <1>3. IsFiniteSet(Done(cs)) BY <1>1, <1>2, FS_Subset
  <1> QED BY <1>3, FS_CardinalityType

(* The counter of a table all of which is completed is its length, and of no other. *)
LEMMA AllDone ==
  ASSUME NEW cs, Len(cs) \in Nat, Cardinality(Done(cs)) = Len(cs)
  PROVE  Done(cs) = 1 .. Len(cs)
  <1>1. Done(cs) \subseteq 1 .. Len(cs) BY DEF Done
  <1>2. IsFiniteSet(1 .. Len(cs)) /\ Cardinality(1 .. Len(cs)) = Len(cs)
    <2>1. ASSUME NEW n \in Int
          PROVE  IsFiniteSet(1 .. n) /\ Cardinality(1 .. n) = IF 1 > n THEN 0 ELSE n - 1 + 1
      <3>1. \A a, b \in Int : Cardinality(a .. b) = IF a > b THEN 0 ELSE b - a + 1 BY FS_Interval
      <3>2. 1 \in Int OBVIOUS
      <3>3. Cardinality(1 .. n) = IF 1 > n THEN 0 ELSE n - 1 + 1 BY <3>1, <3>2
      <3> QED BY <3>2, <3>3, FS_Interval
    <2>2. \A n \in Nat : (IF 1 > n THEN 0 ELSE n - 1 + 1) = n OBVIOUS
    <2> QED BY <2>1, <2>2
  <1> QED BY <1>1, <1>2, FS_Subset

LEMMA SameDone ==
  ASSUME NEW cs, NEW ds, NEW i \in 1 .. Len(cs), Len(cs) \in Nat, ChangesAt(cs, ds, i),
         (ds[i].status = "Completed") <=> (cs[i].status = "Completed"),
         \A j \in 1 .. Len(ds) : j > Len(cs) => ds[j].status # "Completed"
  PROVE  Done(ds) = Done(cs)
  <1>1. ASSUME NEW j \in 1 .. Len(ds), ds[j].status = "Completed"
        PROVE  j \in 1 .. Len(cs) /\ cs[j].status = "Completed"
    <2>1. j \in 1 .. Len(cs) BY <1>1 DEF ChangesAt
    <2> QED BY <1>1, <2>1 DEF ChangesAt
  <1>2. ASSUME NEW j \in 1 .. Len(cs), cs[j].status = "Completed"
        PROVE  j \in 1 .. Len(ds) /\ ds[j].status = "Completed"
    BY <1>2 DEF ChangesAt
  <1> QED BY <1>1, <1>2 DEF Done

LEMMA OneMoreDone ==
  ASSUME NEW cs, NEW ds, NEW k, Len(cs) \in Nat, k \notin Done(cs), Done(ds) = Done(cs) \cup {k}
  PROVE  Cardinality(Done(ds)) = Cardinality(Done(cs)) + 1
  BY DoneIsFinite, FS_AddElement

(* The bytes covered are those of cs, but for what chunk i loses and what it or the chunk added gains. *)
LEMMA CoversMore ==
  ASSUME NEW cs, NEW ds, NEW i \in 1 .. Len(cs), NEW lost, Len(cs) \in Nat, ChangesAt(cs, ds, i),
         \A b \in Written(cs[i]) \ lost : \E j \in 1 .. Len(ds) : b \in Written(ds[j])
  PROVE  Covered(cs) \ lost \subseteq Covered(ds)
  <1>1. ASSUME NEW b \in Covered(cs), b \notin lost
        PROVE  \E j \in 1 .. Len(ds) : b \in Written(ds[j])
    <2>1. PICK j \in 1 .. Len(cs) : b \in Written(cs[j]) BY DEF Covered
    <2>2. CASE j = i BY <1>1, <2>1, <2>2
    <2>3. CASE j # i BY <2>1, <2>3 DEF ChangesAt
    <2> QED BY <2>2, <2>3
  <1> QED BY <1>1 DEF Covered

LEMMA CoversLess ==
  ASSUME NEW cs, NEW ds, NEW i \in 1 .. Len(cs), NEW gained, Len(cs) \in Nat, ChangesAt(cs, ds, i),
         Written(ds[i]) \subseteq Written(cs[i]) \cup gained,
         \A j \in 1 .. Len(ds) : j > Len(cs) => Written(ds[j]) \subseteq Written(cs[i]) \cup gained
  PROVE  Covered(ds) \subseteq Covered(cs) \cup gained
  <1>1. ASSUME NEW b \in Covered(ds)
        PROVE  b \in Covered(cs) \cup gained
    <2>1. PICK j \in 1 .. Len(ds) : b \in Written(ds[j]) BY DEF Covered
    <2>2. CASE j \in 1 .. Len(cs) /\ j # i BY <2>1, <2>2 DEF ChangesAt, Covered
    <2>3. CASE j = i \/ j > Len(cs) BY <2>1, <2>3 DEF Covered
    <2> QED BY <2>2, <2>3 DEF ChangesAt
  <1> QED BY <1>1

(* Handing a chunk out touches neither. *)
LEMMA AssignCovers ==
  ASSUME NEW cs, Table(cs), NEW i \in 1 .. Len(cs), cs[i].status # "Completed"
  PROVE  Done(Assign(cs, i)) = Done(cs) /\ Covered(Assign(cs, i)) = Covered(cs)
  <1> DEFINE ds == Assign(cs, i)
  <1>1. /\ Len(ds) = Len(cs) /\ \A j \in 1 .. Len(cs) : j # i => ds[j] = cs[j]
        /\ ds[i].status = "Assigned" /\ ds[i].cur = cs[i].cur /\ ds[i].start = cs[i].start /\ ds[i].end = cs[i].end
    BY AssignKeepsTable
  <1>2. Len(cs) \in Nat BY LenProperties DEF Table
  <1> HIDE DEF ds
  <1>3. ChangesAt(cs, ds, i) BY <1>1, <1>2 DEF ChangesAt
  <1>4. Written(ds[i]) = Written(cs[i]) BY <1>1 DEF Written, Span
  <1>5. Done(ds) = Done(cs) BY <1>1, <1>2, <1>3, SameDone
  <1>6. Covered(cs) \ {} \subseteq Covered(ds) BY <1>1, <1>2, <1>3, <1>4, CoversMore
  <1>7. Covered(ds) \subseteq Covered(cs) \cup {} BY <1>1, <1>2, <1>3, <1>4, CoversLess
  <1> QED BY <1>5, <1>6, <1>7 DEF ds

(* Completing a chunk whose last byte is written adds one to the count, and no byte. *)
LEMMA CompleteCovers ==
  ASSUME NEW cs, Table(cs), NEW i \in 1 .. Len(cs), cs[i].status # "Completed"
  PROVE  LET ds == [cs EXCEPT ![i].status = "Completed"]
         IN  /\ Cardinality(Done(ds)) = Cardinality(Done(cs)) + 1
             /\ cs[i].cur > cs[i].end => Covered(ds) = Covered(cs)
  <1> DEFINE c == [cs[i] EXCEPT !.status = "Completed"]
             ds == [cs EXCEPT ![i].status = "Completed"]
  <1>1. cs \in Seq(Chunk) /\ Len(cs) \in Nat /\ cs[i] \in Chunk BY LenProperties, ElementOfSeq DEF Table
  <1>2. c.status = "Completed" /\ c.start = cs[i].start /\ c.end = cs[i].end /\ c.cur = cs[i].cur
    BY <1>1 DEF Chunk
  <1>3. c \in Chunk BY <1>1 DEF Chunk, Status
  <1>4. Len(ds) = Len(cs) /\ \A j \in 1 .. Len(cs) : ds[j] = IF j = i THEN c ELSE cs[j]
    BY <1>1, <1>3, ExceptSeq
  <1> HIDE DEF ds, c
  <1>5. ChangesAt(cs, ds, i) BY <1>1, <1>4 DEF ChangesAt
  <1>6. Cardinality(Done(ds)) = Cardinality(Done(cs)) + 1
    <2>1. Done(ds) = Done(cs) \cup {i} BY <1>2, <1>4 DEF Done
    <2>2. i \notin Done(cs) BY DEF Done
    <2> QED BY <1>1, <2>1, <2>2, OneMoreDone
  <1>7. ASSUME cs[i].cur > cs[i].end PROVE Covered(ds) = Covered(cs)
    <2>1. Written(c) = Written(cs[i])
      <3>1. \A b \in Span(cs[i]) : b < cs[i].cur BY <1>1, <1>7, ChunkFields DEF Span
      <3>2. Written(c) = Span(cs[i]) BY <1>2 DEF Written, Span
      <3> QED BY <3>1, <3>2 DEF Written
    <2>2. Covered(cs) \ {} \subseteq Covered(ds) BY <1>1, <1>4, <1>5, <2>1, CoversMore
    <2>3. Covered(ds) \subseteq Covered(cs) \cup {} BY <1>1, <1>4, <1>5, <2>1, CoversLess
    <2> QED BY <2>2, <2>3
  <1> QED BY <1>6, <1>7 DEF ds

(* Carving counts what is written once more, and a chunk more if there is any. *)
LEMMA CarveCovers ==
  ASSUME NEW cs, Table(cs), NEW i \in 1 .. Len(cs), cs[i].cur <= cs[i].end, cs[i].status # "Completed"
  PROVE  /\ Covered(Carve(cs, i)) = Covered(cs)
         /\ Cardinality(Done(Carve(cs, i))) =
              Cardinality(Done(cs)) + IF cs[i].cur > cs[i].start THEN 1 ELSE 0
  <1> DEFINE c == cs[i]
             rest == [c EXCEPT !.start = c.cur]
             es == [cs EXCEPT ![i] = rest]
             done == NewChunk(c.start, c.cur - 1, "Completed")
             ds == Carve(cs, i)
             n == Len(cs) + 1
  <1>1. cs \in Seq(Chunk) /\ Len(cs) \in Nat /\ c \in Chunk BY LenProperties, ElementOfSeq DEF Table
  <1>2. c.start \in Int /\ c.cur \in Int /\ c.end \in Int BY <1>1, ChunkFields
  <1>3. CASE ~(c.cur > c.start)
    <2>1. ds = cs BY <1>3 DEF Carve
    <2>2. Cardinality(Done(cs)) \in Nat BY <1>1, DoneIsFinite
    <2> QED BY <1>3, <2>1, <2>2
  <1>4. CASE c.cur > c.start
    <2>1. rest \in Chunk /\ rest.start = c.cur /\ rest.end = c.end /\ rest.cur = c.cur /\ rest.status = c.status
      <3>1. c.cur \in Byte BY <1>1, ChunkFields, ManagerAssumption DEF Byte
      <3> QED BY <1>1, <3>1 DEF Chunk
    <2>2. done \in Chunk /\ done.start = c.start /\ done.end = c.cur - 1 /\ done.status = "Completed"
      <3>1. c.start \in Byte /\ c.cur - 1 \in Byte BY <1>1, <1>4, ChunkFields, ManagerAssumption DEF Byte
      <3> QED BY <3>1, NewChunkIsChunk DEF Status
    <2>3. es \in Seq(Chunk) /\ Len(es) = Len(cs) /\ \A j \in 1 .. Len(cs) : es[j] = IF j = i THEN rest ELSE cs[j]
      BY <1>1, <2>1, ExceptSeq
    <2>4. ds = Append(es, done) BY <1>4 DEF Carve
    <2>5. /\ Len(ds) = n /\ ds[n] = done /\ \A j \in 1 .. Len(cs) : ds[j] = IF j = i THEN rest ELSE cs[j]
      BY <2>2, <2>3, <2>4, AppendProperties
    <2>6. Written(rest) = {} /\ Written(done) = Written(c)
      <3>1. Written(rest) = {b \in c.cur .. c.end : b < c.cur} BY <2>1 DEF Written, Span
      <3>2. Written(done) = c.start .. c.cur - 1 BY <2>2 DEF Written, Span
      <3>3. Written(c) = {b \in c.start .. c.end : b < c.cur} BY DEF Written, Span
      <3> HIDE DEF c, rest, done
      <3>4. \A b : b \in Written(done) <=> b \in Written(c) BY <3>2, <3>3, <1>2 DEF c
      <3>5. \A b : b \notin Written(rest) BY <3>1, <1>2
      <3> QED BY <3>4, <3>5
    <2> HIDE DEF rest, done, ds
    <2>7. ChangesAt(cs, ds, i)
      <3>1. Len(ds) \in Len(cs) .. Len(cs) + 1 BY <2>5, <1>1
      <3> QED BY <3>1, <2>5 DEF ChangesAt
    <2>8. \A j \in 1 .. Len(ds) : j > Len(cs) => j = n BY <2>5, <1>1
    <2>9. ds[i] = rest /\ ds[n] = done /\ n \in 1 .. Len(ds) BY <2>5, <1>1
    <2>10. Covered(cs) \ {} \subseteq Covered(ds) BY <1>1, <2>6, <2>7, <2>9, CoversMore DEF c
    <2>11. Covered(ds) \subseteq Covered(cs) \cup {}
      <3>1. Written(ds[i]) \subseteq Written(cs[i]) \cup {} BY <2>6, <2>9
      <3>2. \A j \in 1 .. Len(ds) : j > Len(cs) => Written(ds[j]) \subseteq Written(cs[i]) \cup {}
        BY <2>6, <2>8, <2>9 DEF c
      <3> QED BY <1>1, <2>7, <3>1, <3>2, CoversLess
    <2>12. Cardinality(Done(ds)) = Cardinality(Done(cs)) + 1
      <3>1. Done(ds) = Done(cs) \cup {n}
        <4>1. \A j \in 1 .. Len(cs) : ds[j].status = "Completed" <=> cs[j].status = "Completed" BY <2>1, <2>5
        <4>2. \A j \in 1 .. n : j \in 1 .. Len(cs) \/ j = n BY <1>1
        <4>3. \A j \in 1 .. Len(cs) : j \in 1 .. n BY <1>1
        <4> HIDE DEF n
        <4> QED BY <2>2, <2>5, <2>9, <4>1, <4>2, <4>3 DEF Done
      <3>2. n \notin Done(cs) BY <1>1 DEF Done
      <3> QED BY <1>1, <3>1, <3>2, OneMoreDone
    <2> QED BY <1>4, <2>10, <2>11, <2>12 DEF ds
  <1> QED BY <1>3, <1>4

(* Cutting a chunk that is not completed after m gives up, at most, what was written behind m. *)
LEMMA SplitCovers ==
  ASSUME NEW cs, Table(cs), NEW i \in 1 .. Len(cs), NEW m \in Int, NEW st \in Status \ {"Completed"},
         cs[i].start <= m, m < cs[i].end, cs[i].status # "Completed"
  PROVE  LET ds == Append([cs EXCEPT ![i].end = m], NewChunk(m + 1, cs[i].end, st))
         IN  /\ Done(ds) = Done(cs)
             /\ Covered(ds) \subseteq Covered(cs)
             /\ Covered(cs) \ (m + 1 .. cs[i].end) \subseteq Covered(ds)
  <1> DEFINE n == Len(cs) + 1
             back == NewChunk(m + 1, cs[i].end, st)
             ds == Append([cs EXCEPT ![i].end = m], back)
  <1>1. /\ Len(ds) = n /\ ds[i] = [cs[i] EXCEPT !.end = m] /\ ds[n] = back
        /\ \A j \in 1 .. Len(cs) : j # i => ds[j] = cs[j]
    BY SplitKeepsTable
  <1>2. Len(cs) \in Nat /\ cs[i] \in Chunk BY LenProperties, ElementOfSeq DEF Table
  <1>3. cs[i].start \in Int /\ cs[i].end \in Int /\ cs[i].cur \in Int BY <1>2, ChunkFields
  <1>4. ds[i].start = cs[i].start /\ ds[i].end = m /\ ds[i].cur = cs[i].cur /\ ds[i].status = cs[i].status
    BY <1>1, <1>2 DEF Chunk
  <1>5. back.start = m + 1 /\ back.end = cs[i].end /\ back.cur = m + 1 /\ back.status = st BY DEF NewChunk
  <1> HIDE DEF ds, back
  <1>6. ChangesAt(cs, ds, i)
    <2>1. Len(ds) \in Len(cs) .. Len(cs) + 1 BY <1>1, <1>2
    <2> QED BY <2>1, <1>1 DEF ChangesAt
  <1>7. \A j \in 1 .. Len(ds) : j > Len(cs) => j = n BY <1>1, <1>2
  <1>8. \A b : /\ b \in Written(ds[i]) <=> b \in cs[i].start .. m /\ b < cs[i].cur
               /\ b \in Written(cs[i]) <=> b \in cs[i].start .. cs[i].end /\ b < cs[i].cur
               /\ b \in Written(ds[n]) <=> b \in m + 1 .. cs[i].end /\ b < m + 1
    BY <1>1, <1>4, <1>5 DEF Written, Span
  <1>9. Done(ds) = Done(cs)
    <2>1. \A j \in 1 .. Len(ds) : j > Len(cs) => ds[j].status # "Completed" BY <1>1, <1>5, <1>7
    <2> QED BY <1>2, <1>4, <1>6, <2>1, SameDone
  <1>10. Covered(cs) \ (m + 1 .. cs[i].end) \subseteq Covered(ds)
    <2>1. \A b \in Written(cs[i]) \ (m + 1 .. cs[i].end) : b \in Written(ds[i]) BY <1>3, <1>8
    <2>2. i \in 1 .. Len(ds) BY <1>1, <1>2
    <2> QED BY <1>2, <1>6, <2>1, <2>2, CoversMore
  <1>11. Covered(ds) \subseteq Covered(cs) \cup {}
    <2>1. Written(ds[i]) \subseteq Written(cs[i]) \cup {} BY <1>3, <1>8
    <2>2. Written(ds[n]) \subseteq Written(cs[i]) \cup {} BY <1>3, <1>8
    <2>3. \A j \in 1 .. Len(ds) : j > Len(cs) => Written(ds[j]) \subseteq Written(cs[i]) \cup {} BY <1>7, <2>2
    <2> QED BY <1>2, <1>6, <2>1, <2>3, CoversLess
  <1> QED BY <1>9, <1>10, <1>11 DEF ds, back

(* What lies behind the offset of a chunk that is not completed is not covered, by it or any other. *)
LEMMA Unwritten ==
  ASSUME NEW cs, Table(cs), NEW i \in 1 .. Len(cs), cs[i].status # "Completed",
         NEW b \in cs[i].cur .. cs[i].end
  PROVE  b \notin Covered(cs)
  <1>1. /\ DOMAIN cs = 1 .. Len(cs) /\ \A j \in 1 .. Len(cs) : cs[j] \in Chunk
        /\ cs[i].start <= cs[i].cur
    BY LenProperties, ElementOfSeq DEF Table
  <1>2. \A j \in 1 .. Len(cs) : cs[j].start \in Int /\ cs[j].end \in Int /\ cs[j].cur \in Int BY <1>1, ChunkFields
  <1>3. b \in Int /\ cs[i].cur <= b /\ b <= cs[i].end /\ cs[i].start <= b BY <1>1, <1>2
  <1>4. ASSUME NEW j \in 1 .. Len(cs), b \in Written(cs[j]) PROVE FALSE
    <2>1. b \in Span(cs[j]) BY <1>4 DEF Written
    <2>2. cs[j].start <= b /\ b <= cs[j].end BY <1>2, <2>1 DEF Span
    <2>3. j = i
      <3>1. j # i => cs[i].end < cs[j].start \/ cs[j].end < cs[i].start BY <1>1 DEF Table, Tiling
      <3> QED BY <1>2, <1>3, <2>2, <3>1
    <2>4. b < cs[i].cur BY <1>4, <2>3 DEF Written
    <2> QED BY <1>2, <1>3, <2>4
  <1> QED BY <1>4 DEF Covered

(* A table all of whose chunks are completed covers the file. *)
LEMMA AllCovered ==
  ASSUME NEW cs, Table(cs), cs # <<>>, Done(cs) = 1 .. Len(cs)
  PROVE  Byte \subseteq Covered(cs)
  <1>1. DOMAIN cs = 1 .. Len(cs) BY LenProperties DEF Table
  <1>2. \A b \in Byte : \E i \in 1 .. Len(cs) : b \in Span(cs[i]) BY <1>1 DEF Table, Tiling
  <1>3. \A i \in 1 .. Len(cs) : Written(cs[i]) = Span(cs[i]) BY DEF Done, Written
  <1> QED BY <1>2, <1>3 DEF Covered

(* The table a download starts with covers what is held, and no more; its other chunks are as long *)
(* as BaseChunk at most.                                                                            *)
LEMMA LayoutCovers ==
  ASSUME NEW held \in SUBSET Byte, NEW cs \in Layouts(held)
  PROVE  /\ cs # <<>> /\ Covered(cs) = held
         /\ \A i \in 1 .. Len(cs) : /\ cs[i].status = "Completed" <=> cs[i].start \in held
                                    /\ cs[i].status # "Completed" => cs[i].end + 1 - cs[i].start <= BaseChunk
  <1> DEFINE status(s) == IF s \in held THEN "Completed" ELSE "Unassigned"
             pairs == {r \in Byte \X Byte : r[1] <= r[2]}
             fresh == {NewChunk(r[1], r[2], status(r[1])) : r \in pairs}
  <1>1. Table(cs) /\ \A i \in 1 .. Len(cs) : cs[i].cur = cs[i].start BY LayoutIsTable
  <1>2. /\ DOMAIN cs = 1 .. Len(cs) /\ Len(cs) \in Nat /\ \A i \in 1 .. Len(cs) : cs[i] \in Chunk
    BY <1>1, LenProperties, ElementOfSeq DEF Table
  <1>3. PICK n \in 1 .. Size : cs \in [1 .. n -> fresh] BY DEF Layouts
  <1>4. IsLayout(cs, held) BY DEF Layouts
  <1>5. \A i \in 1 .. Len(cs) : /\ cs[i].start \in Int /\ cs[i].end \in Int /\ cs[i].start <= cs[i].end
                                /\ cs[i].start \in Byte
    BY <1>1, <1>2, ChunkFields DEF Table, Tiling, Chunk
  <1>6. cs # <<>>
    <2>1. DOMAIN cs = 1 .. n /\ 1 \in 1 .. n BY <1>3, ManagerAssumption
    <2> QED BY <2>1, EmptySeq
  <1>7. \A i \in 1 .. Len(cs) : cs[i].status = "Completed" <=> cs[i].start \in held
    <2>1. \A c \in fresh : c.status = status(c.start) BY DEF NewChunk
    <2>2. \A i \in 1 .. Len(cs) : cs[i] \in fresh BY <1>2, <1>3
    <2> HIDE DEF fresh
    <2> QED BY <2>1, <2>2
  <1>8. ASSUME NEW i \in 1 .. Len(cs), cs[i].status # "Completed"
        PROVE  cs[i].end + 1 - cs[i].start <= BaseChunk
    <2>1. LET len == cs[i].end + 1 - cs[i].start IN len = BaseChunk \/ len < BaseChunk
      BY <1>2, <1>4, <1>8 DEF IsLayout
    <2> QED BY <1>5, <2>1, ManagerAssumption
  <1>9. \A i \in 1 .. Len(cs) : Written(cs[i]) = IF cs[i].start \in held THEN Span(cs[i]) ELSE {}
    <2>1. ASSUME NEW i \in 1 .. Len(cs), cs[i].status # "Completed" PROVE Written(cs[i]) = {}
      BY <1>1, <1>5, <2>1 DEF Written, Span
    <2> QED BY <1>7, <2>1 DEF Written
  <1>10. \A i \in 1 .. Len(cs) : cs[i].start \in Span(cs[i]) BY <1>5 DEF Span
  <1>11. \A i \in 1 .. Len(cs) : Span(cs[i]) \subseteq held \/ Span(cs[i]) \cap held = {}
    BY <1>2, <1>4 DEF IsLayout
  <1>12. \A b \in Byte : \E i \in 1 .. Len(cs) : b \in Span(cs[i]) BY <1>2, <1>4 DEF IsLayout
  <1>13. Covered(cs) = held BY <1>9, <1>10, <1>11, <1>12 DEF Covered
  <1> QED BY <1>6, <1>7, <1>8, <1>13

-----------------------------------------------------------------------------

InFlight == {"receive", "writing", "written"}

(* An attempt that is at a chunk, and was not taken over. *)
Live(a) == a.chunk # 0 /\ ~a.revoked

(* What holds of any attempt, in a table of n chunks. *)
Sound(a, n) ==
  /\ a \in Attempt /\ a.chunk \in 0 .. n
  /\ a.pos + a.buf <= Size
  /\ a.pc \notin {"idle", "stopped"} => a.chunk # 0
  /\ a.pc = "asking" => a.buf = 0
  /\ a.pc \in InFlight => a.ver \in 1 .. Versions
  /\ a.pc = "settle" => a.res # "none"

(* A live attempt at chunk c: the chunk is assigned, and where it is written both know. *)
Serves(a, c) ==
  /\ c.status = "Assigned"
  /\ a.pc \in InFlight => c.cur = a.pos

Serving(cs, wk) ==
  /\ wk \in [Workers -> Attempt]
  /\ \A w \in Workers : Sound(wk[w], Len(cs))
  /\ \A w \in Workers : Live(wk[w]) => Serves(wk[w], cs[wk[w].chunk])
  /\ \A v, w \in Workers : v # w /\ Live(wk[v]) /\ Live(wk[w]) => wk[v].chunk # wk[w].chunk

Queued(cs, q) ==
  /\ q \in Seq(Nat)
  /\ \A k \in 1 .. Len(q) : q[k] \in 1 .. Len(cs) /\ cs[q[k]].status = "Failed"
  /\ \A k, l \in 1 .. Len(q) : k # l => q[k] # q[l]

Thieving(cs, t) ==
  /\ t \in Thief \cup {None}
  /\ t # None /\ t.op \in {"takeover", "steal"} =>
       t.victim \in 1 .. Len(cs) /\ cs[t.victim].status = "Assigned"
  /\ t # None /\ t.op = "steal" =>
       /\ t.end = cs[t.victim].end
       /\ 1 <= t.take /\ cs[t.victim].start <= t.end - t.take

ManagerInv == Table(chunks) /\ completed \in Nat /\ nextFresh \in Nat \ {0} /\ fatal \in BOOLEAN

RunInv ==
  /\ engine \in Engine /\ outcome \in {"none", "ok", "failed", "cancelled"} /\ cancelled \in BOOLEAN
  /\ ref \in 0 .. Versions /\ remote \in 1 .. Versions
  /\ engine # "off" => ref \in 1 .. Versions
  /\ resume \in SUBSET Byte /\ snap \in SUBSET Byte
  /\ disk \in Contents /\ durable \in Contents /\ part \in BOOLEAN
  /\ saved \in State \cup {None} /\ final \in Contents \cup {None}

LeftInv == left \in [World -> Int]

Inv ==
  /\ ManagerInv /\ Serving(chunks, worker) /\ Queued(chunks, retryQueue) /\ Thieving(chunks, thief)
  /\ RunInv /\ LeftInv

-----------------------------------------------------------------------------
(* Lemmas on the parts of Inv, each of which many steps disturb in the same way. *)

LEMMA AttemptFields ==
  ASSUME NEW a \in Attempt
  PROVE  /\ a.pc \in PC /\ a.chunk \in Nat /\ a.whole \in BOOLEAN /\ a.revoked \in BOOLEAN
         /\ a.ver \in 0 .. Versions /\ a.pos \in Int /\ 0 <= a.pos /\ a.pos <= Size
         /\ a.buf \in Nat /\ a.res \in Result
  BY ManagerAssumption DEF Attempt

LEMMA NoAttemptIsSound ==
  ASSUME NEW n \in Nat, NEW pc \in {"idle", "stopped"}
  PROVE  NoAttempt(pc) \in Attempt /\ Sound(NoAttempt(pc), n) /\ ~Live(NoAttempt(pc))
  <1>1. 0 \in 0 .. Size /\ 0 \in 0 .. Versions /\ 0 <= Size BY ManagerAssumption, DownloadAssumption
  <1>2. NoAttempt(pc) \in Attempt BY <1>1 DEF NoAttempt, Attempt, PC, Result
  <1> QED BY <1>1, <1>2 DEF NoAttempt, Sound, Live, InFlight

LEMMA NewAttemptIsSound ==
  ASSUME NEW n \in Nat, NEW i \in 1 .. n, NEW a \in {NewAttempt(i), AttemptAt(i)}
  PROVE  /\ a \in Attempt /\ Sound(a, n) /\ Live(a) /\ a.chunk = i /\ a.pc = "asking"
         /\ a.pos = 0 /\ a.buf = 0
  <1> DEFINE b(wh) == [pc |-> "asking", chunk |-> i, whole |-> wh, revoked |-> FALSE, ver |-> 0,
                       pos |-> 0, buf |-> 0, res |-> "none"]
  <1>1. 0 \in 0 .. Size /\ 0 \in 0 .. Versions /\ 0 <= Size /\ i \in Nat /\ i # 0
    BY ManagerAssumption, DownloadAssumption
  <1>2. \A wh \in BOOLEAN : b(wh) \in Attempt BY <1>1 DEF Attempt, PC, Result
  <1>3. \E wh \in BOOLEAN : a = b(wh) BY DEF NewAttempt, AttemptAt, NoAttempt
  <1> QED BY <1>1, <1>2, <1>3 DEF Sound, Live, InFlight

(* One worker's attempt becomes a, and the table changes only where no other worker is live. *)
LEMMA OneServes ==
  ASSUME NEW cs, NEW ds, NEW wk, NEW w \in Workers, NEW a, Len(cs) \in Nat, Len(ds) \in Nat,
         Serving(cs, wk), Len(cs) <= Len(ds), Sound(a, Len(ds)),
         Live(a) => Serves(a, ds[a.chunk]),
         \A v \in Workers \ {w} : Live(wk[v]) =>
           ds[wk[v].chunk] = cs[wk[v].chunk] /\ (Live(a) => wk[v].chunk # a.chunk)
  PROVE  Serving(ds, [wk EXCEPT ![w] = a])
  <1> DEFINE new == [wk EXCEPT ![w] = a]
  <1>1. new \in [Workers -> Attempt] BY DEF Serving, Sound
  <1>2. new[w] = a /\ \A v \in Workers \ {w} : new[v] = wk[v] BY DEF Serving
  <1> HIDE DEF new
  <1>3. \A v \in Workers : Sound(wk[v], Len(ds)) BY DEF Serving, Sound
  <1> QED BY <1>1, <1>2, <1>3 DEF Serving, Serves

(* ... or b goes on as a, its chunk as it is, unless it ends. *)
GoesOn(a, b) ==
  Live(a) => /\ Live(b) /\ a.chunk = b.chunk
             /\ a.pc \in InFlight => b.pc \in InFlight /\ a.pos = b.pos

LEMMA OneGoesOn ==
  ASSUME NEW cs, NEW wk, NEW w \in Workers, NEW a, Len(cs) \in Nat,
         Serving(cs, wk), Sound(a, Len(cs)), GoesOn(a, wk[w])
  PROVE  Serving(cs, [wk EXCEPT ![w] = a])
  <1>1. Live(a) => Live(wk[w]) BY DEF GoesOn
  <1>2. Live(a) => Serves(a, cs[a.chunk]) BY <1>1 DEF GoesOn, Serving, Serves
  <1>3. \A v \in Workers \ {w} : Live(wk[v]) => (Live(a) => wk[v].chunk # a.chunk)
    BY <1>1 DEF GoesOn, Serving
  <1>4. \A v \in Workers \ {w} : Live(wk[v]) =>
          cs[wk[v].chunk] = cs[wk[v].chunk] /\ (Live(a) => wk[v].chunk # a.chunk)
    BY <1>3
  <1>5. Len(cs) <= Len(cs) OBVIOUS
  <1> QED BY <1>2, <1>4, <1>5, OneServes

(* The queue only minds the failed chunks, ... *)
LEMMA QueueKept ==
  ASSUME NEW cs, NEW ds, NEW q, Queued(cs, q), Len(cs) \in Nat, Len(ds) \in Nat, Len(cs) <= Len(ds),
         \A i \in 1 .. Len(cs) : cs[i].status = "Failed" => ds[i].status = "Failed"
  PROVE  Queued(ds, q)
  <1>1. ASSUME NEW k \in 1 .. Len(q)
        PROVE  q[k] \in 1 .. Len(ds) /\ ds[q[k]].status = "Failed"
    <2>1. q[k] \in 1 .. Len(cs) /\ cs[q[k]].status = "Failed" BY DEF Queued
    <2> QED BY <2>1
  <1> QED BY <1>1 DEF Queued

(* ... and a step that needs no lock leaves a thief's victim its range and its status. *)
LEMMA ThiefKept ==
  ASSUME NEW cs, NEW ds, NEW t, Thieving(cs, t), Len(ds) = Len(cs),
         \A i \in 1 .. Len(cs) : ds[i].status = cs[i].status /\ ds[i].start = cs[i].start /\ ds[i].end = cs[i].end
  PROVE  Thieving(ds, t)
  BY DEF Thieving

LEMMA SpendOK ==
  ASSUME LeftInv, NEW k \in World, Spend(k)
  PROVE  LeftInv'
  BY DEF LeftInv, Spend

LEMMA KeepRunOK ==
  ASSUME RunInv, KeepRun
  PROVE  RunInv'
  BY DEF RunInv, KeepRun, run, files

LEMMA TableFacts ==
  ASSUME NEW cs, Table(cs)
  PROVE  Len(cs) \in Nat /\ DOMAIN cs = 1 .. Len(cs) /\ cs \in Seq(Chunk) /\ \A i \in 1 .. Len(cs) : cs[i] \in Chunk
  BY LenProperties, ElementOfSeq DEF Table

(* Inv is stronger than what it is for. *)
LEMMA InvImplies == Inv => TypeOK /\ Tiles
  <1> SUFFICES ASSUME Inv PROVE TypeOK /\ Tiles OBVIOUS
  <1>1. Tiles BY DEF Inv, ManagerInv, Table, Tiles
  <1>2. chunks \in Seq(Chunk) BY DEF Inv, ManagerInv, Table
  <1>3. worker \in [Workers -> Attempt] /\ retryQueue \in Seq(Nat) /\ thief \in Thief \cup {None}
    BY DEF Inv, Serving, Queued, Thieving
  <1> QED BY <1>1, <1>2, <1>3 DEF Inv, ManagerInv, RunInv, LeftInv, TypeOK

(* What a run starts from: no attempt is at any chunk. *)
LEMMA NoWork ==
  ASSUME NEW cs, NEW pc \in {"idle", "stopped"}, Len(cs) \in Nat
  PROVE  Serving(cs, [w \in Workers |-> NoAttempt(pc)])
  <1> DEFINE wk == [w \in Workers |-> NoAttempt(pc)]
  <1>1. NoAttempt(pc) \in Attempt /\ Sound(NoAttempt(pc), Len(cs)) /\ ~Live(NoAttempt(pc)) BY NoAttemptIsSound
  <1>2. wk \in [Workers -> Attempt] /\ \A w \in Workers : wk[w] = NoAttempt(pc) BY <1>1
  <1> HIDE DEF wk
  <1> QED BY <1>1, <1>2 DEF Serving, wk

LEMMA NoQueue == ASSUME NEW cs PROVE Queued(cs, <<>>)
  <1>1. <<>> \in Seq(Nat) /\ Len(<<>>) = 0 BY EmptySeq
  <1> QED BY <1>1 DEF Queued

(* ... and the table of a process that has none is empty. *)
LEMMA EmptyTable == Table(<<>>) /\ Len(<<>>) = 0
  <1>1. Len(<<>>) = 0 /\ DOMAIN <<>> = {} /\ <<>> \in Seq(Chunk) BY EmptySeq, LenProperties
  <1>2. Tiling(<<>>) BY <1>1 DEF Tiling
  <1> QED BY <1>1, <1>2 DEF Table

LEMMA InitInv == Init => Inv
  <1> SUFFICES ASSUME Init PROVE Inv OBVIOUS
  <1>1. chunks = <<>> /\ retryQueue = <<>> /\ completed = 0 /\ nextFresh = 1 /\ fatal = FALSE
    BY DEF Init, NoManager
  <1>2. ManagerInv
    <2>1. completed \in Nat /\ nextFresh \in Nat \ {0} BY <1>1
    <2>2. fatal \in BOOLEAN /\ Table(chunks) BY <1>1, EmptyTable
    <2> QED BY <2>1, <2>2 DEF ManagerInv
  <1>3. Serving(chunks, worker) BY <1>1, EmptyTable, NoWork DEF Init
  <1>4. Queued(chunks, retryQueue) BY <1>1, NoQueue
  <1>5. Thieving(chunks, thief) BY DEF Init, Thieving
  <1>6. RunInv
    <2>1. Empty \in Contents BY DEF Empty, Contents
    <2>2. 1 \in 1 .. Versions /\ 0 \in 0 .. Versions BY DownloadAssumption
    <2>3. engine = "off" /\ engine \in Engine BY DEF Init, Engine
    <2> QED BY <2>1, <2>2, <2>3 DEF RunInv, Init
  <1>7. LeftInv BY DownloadAssumption DEF LeftInv, Init
  <1> QED BY <1>2, <1>3, <1>4, <1>5, <1>6, <1>7 DEF Inv

-----------------------------------------------------------------------------
(* The steps of a worker. *)

(* A step by which one attempt goes on or ends, and that leaves the table and the lock alone. *)
LEMMA QuietStep ==
  ASSUME Inv, NEW w \in Workers, NEW a, Sound(a, Len(chunks)), GoesOn(a, worker[w]), Step(w, a),
         UNCHANGED <<chunks, completed, nextFresh, retryQueue, thief>>, fatal' \in BOOLEAN,
         RunInv', LeftInv'
  PROVE  Inv'
  <1>1. Len(chunks) \in Nat BY TableFacts DEF Inv, ManagerInv
  <1>2. Serving(chunks, [worker EXCEPT ![w] = a]) BY <1>1, OneGoesOn DEF Inv
  <1>3. Serving(chunks, worker)' BY <1>2 DEF Step
  <1>4. ManagerInv' BY DEF Inv, ManagerInv
  <1>5. Queued(chunks, retryQueue)' /\ Thieving(chunks, thief)' BY DEF Inv
  <1> QED BY <1>3, <1>4, <1>5 DEF Inv

(* What a worker may rely on. *)
LEMMA WorkerFacts ==
  ASSUME Inv, NEW w \in Workers
  PROVE  /\ worker[w] \in Attempt /\ Sound(worker[w], Len(chunks))
         /\ Live(worker[w]) => Serves(worker[w], Own(w))
         /\ Len(chunks) \in Nat /\ chunks \in Seq(Chunk) /\ Table(chunks)
         /\ worker[w].chunk # 0 => worker[w].chunk \in 1 .. Len(chunks) /\ Own(w) \in Chunk
         /\ fatal \in BOOLEAN /\ RunInv /\ LeftInv
  <1>1. Table(chunks) /\ fatal \in BOOLEAN BY DEF Inv, ManagerInv
  <1>2. Sound(worker[w], Len(chunks)) /\ (Live(worker[w]) => Serves(worker[w], Own(w))) BY DEF Inv, Serving, Own
  <1>3. worker[w] \in Attempt BY <1>2 DEF Sound
  <1>4. worker[w].chunk # 0 => worker[w].chunk \in 1 .. Len(chunks) BY <1>1, <1>2, TableFacts DEF Sound
  <1> QED BY <1>1, <1>2, <1>3, <1>4, TableFacts DEF Inv, Own

LEMMA AnswerInv ==
  ASSUME Inv, NEW w \in Workers,
         Answer(w) \/ AnswerFails(w) \/ AnswerRefused(w) \/ AnswerChanged(w)
  PROVE  Inv'
  <1> DEFINE b == worker[w]
  <1>1. RunInv' BY WorkerFacts, KeepRunOK DEF Answer, AnswerFails, AnswerRefused, AnswerChanged, Quiet
  <1>2. LeftInv'
    <2>1. "failure" \in World /\ "refusal" \in World BY DEF World
    <2>2. UNCHANGED left \/ Spend("failure") \/ Spend("refusal")
      BY DEF Answer, AnswerFails, AnswerRefused, AnswerChanged, Quiet
    <2> QED BY <2>1, <2>2, WorkerFacts, SpendOK DEF LeftInv
  <1>3. UNCHANGED <<chunks, completed, nextFresh, retryQueue, thief, fatal>>
    BY DEF Answer, AnswerFails, AnswerRefused, AnswerChanged, Quiet, manager
  <1>4. /\ b \in Attempt /\ Sound(b, Len(chunks)) /\ b.pc = "asking" /\ b.buf = 0
        /\ b.chunk # 0 /\ Own(w) \in Chunk
    BY WorkerFacts DEF Answer, AnswerFails, AnswerRefused, AnswerChanged, Sound
  <1>5. CASE Answer(w)
    <2> DEFINE a == [b EXCEPT !.pc = "receive", !.pos = Own(w).cur, !.ver = remote]
    <2>1. Own(w).cur \in 0 .. Size BY <1>4, ChunkFields, ManagerAssumption
    <2>2. remote \in 1 .. Versions /\ remote \in 0 .. Versions
      BY WorkerFacts, DownloadAssumption DEF RunInv
    <2>3. /\ a \in Attempt /\ a.pc = "receive" /\ a.pos = Own(w).cur /\ a.ver = remote /\ a.buf = 0
          /\ a.chunk = b.chunk /\ a.revoked = b.revoked
      BY <1>4, <2>1, <2>2 DEF Attempt, PC
    <2> HIDE DEF a
    <2>4. Sound(a, Len(chunks)) BY <1>4, <2>1, <2>2, <2>3 DEF Sound
    <2>5. Step(w, a) BY <1>5 DEF Answer, a
    <2>6. Serving(chunks, worker)'
      <3>1. Live(a) => Serves(a, chunks[a.chunk]) BY <2>3, WorkerFacts DEF Live, Serves, Own
      <3>2. \A v \in Workers \ {w} : Live(worker[v]) =>
              chunks[worker[v].chunk] = chunks[worker[v].chunk] /\ (Live(a) => worker[v].chunk # a.chunk)
        BY <2>3 DEF Inv, Serving, Live
      <3>3. Len(chunks) \in Nat /\ Len(chunks) <= Len(chunks) BY WorkerFacts
      <3>4. Serving(chunks, [worker EXCEPT ![w] = a]) BY <3>1, <3>2, <3>3, <2>4, OneServes DEF Inv
      <3> QED BY <3>4, <2>5, <1>3 DEF Step
    <2> QED BY <1>1, <1>2, <1>3, <2>6 DEF Inv, ManagerInv
  <1>6. ASSUME NEW res \in Result \ {"none"}, Ends(w, res)
        PROVE  Inv'
    <2> DEFINE a == [b EXCEPT !.pc = "settle", !.res = res]
    <2>1. /\ a \in Attempt /\ a.pc = "settle" /\ a.res = res /\ a.buf = b.buf /\ a.pos = b.pos
          /\ a.chunk = b.chunk /\ a.revoked = b.revoked
      BY <1>4 DEF Attempt, PC
    <2>2. Step(w, a) BY <1>6 DEF Ends
    <2> HIDE DEF a
    <2>3. Sound(a, Len(chunks)) BY <1>4, <2>1, <1>6 DEF Sound, InFlight
    <2>4. GoesOn(a, b) BY <2>1 DEF GoesOn, Live, InFlight
    <2>5. fatal' \in BOOLEAN BY <1>3, WorkerFacts
    <2> QED BY <1>1, <1>2, <1>3, <2>2, <2>3, <2>4, <2>5, QuietStep
  <1>7. \A res \in {"transient", "refused", "fatal"} : Ends(w, res) => Inv' BY <1>6 DEF Result
  <1> QED BY <1>5, <1>7 DEF AnswerFails, AnswerRefused, AnswerChanged

LEMMA FlushInv ==
  ASSUME Inv, NEW w \in Workers, NEW res \in {"none", "ok", "transient"},
         worker[w].pc = "receive", Flush(w, res), UNCHANGED <<manager, thief>>, RunInv', LeftInv'
  PROVE  Inv'
  <1> DEFINE b == worker[w]
             room == IF b.pos <= Own(w).end THEN Own(w).end + 1 - b.pos ELSE 0
             keep == IF b.revoked THEN 0 ELSE IF b.buf < room THEN b.buf ELSE room
             sent == [b EXCEPT !.pc = "writing", !.buf = keep, !.res = res]
             nothing == [b EXCEPT !.buf = 0]
             ended == [b EXCEPT !.pc = "settle", !.buf = 0, !.res = Verdict(w, res, b.pos)]
  <1>1. /\ b \in Attempt /\ Sound(b, Len(chunks)) /\ b.chunk # 0 /\ Own(w) \in Chunk
        /\ b.ver \in 1 .. Versions /\ fatal \in BOOLEAN
    BY WorkerFacts DEF Sound, InFlight
  <1>2. UNCHANGED <<chunks, completed, nextFresh, retryQueue, thief>> /\ fatal' \in BOOLEAN BY <1>1 DEF manager
  <1>3. b.pos \in Int /\ 0 <= b.pos /\ b.buf \in Nat /\ b.pos + b.buf <= Size /\ b.chunk \in 0 .. Len(chunks)
    BY <1>1, AttemptFields DEF Sound
  <1>4. keep \in Nat /\ keep <= b.buf
    <2>1. Own(w).end \in Int BY <1>1, ChunkFields
    <2> QED BY <1>3, <2>1
  <1>5. res \in Result /\ (res # "none" => Verdict(w, res, b.pos) \in Result \ {"none"})
    BY DEF Result, Verdict
  <1>6. /\ keep > 0 => Step(w, sent)
        /\ ~(keep > 0) /\ res = "none" => Step(w, nothing)
        /\ ~(keep > 0) /\ res # "none" => Step(w, ended)
    BY DEF Flush
  <1>7. CASE keep > 0
    <2> HIDE DEF keep
    <2>1. /\ sent \in Attempt /\ sent.pc = "writing" /\ sent.buf = keep /\ sent.ver = b.ver
          /\ sent.pos = b.pos /\ sent.chunk = b.chunk /\ sent.revoked = b.revoked
      BY <1>1, <1>4, <1>5 DEF Attempt, PC
    <2>2. Step(w, sent) BY <1>6, <1>7
    <2> HIDE DEF sent
    <2>3. Sound(sent, Len(chunks)) BY <2>1, <1>1, <1>3, <1>4, ManagerAssumption DEF Sound, InFlight
    <2>4. GoesOn(sent, b) BY <2>1 DEF GoesOn, Live, InFlight
    <2> QED BY <1>2, <2>2, <2>3, <2>4, QuietStep
  <1>8. CASE ~(keep > 0) /\ res = "none"
    <2>1. /\ nothing \in Attempt /\ nothing.pc = "receive" /\ nothing.buf = 0 /\ nothing.ver = b.ver
          /\ nothing.pos = b.pos /\ nothing.chunk = b.chunk /\ nothing.revoked = b.revoked
      BY <1>1 DEF Attempt
    <2>2. Step(w, nothing) BY <1>6, <1>8
    <2> HIDE DEF nothing
    <2>3. Sound(nothing, Len(chunks)) BY <2>1, <1>1, <1>3, ManagerAssumption DEF Sound, InFlight
    <2>4. GoesOn(nothing, b) BY <2>1 DEF GoesOn, Live, InFlight
    <2> QED BY <1>2, <2>2, <2>3, <2>4, QuietStep
  <1>9. CASE ~(keep > 0) /\ res # "none"
    <2>1. /\ ended \in Attempt /\ ended.pc = "settle" /\ ended.buf = 0 /\ ended.res # "none"
          /\ ended.pos = b.pos /\ ended.chunk = b.chunk /\ ended.revoked = b.revoked
      BY <1>1, <1>5, <1>9 DEF Attempt, PC
    <2>2. Step(w, ended) BY <1>6, <1>9
    <2> HIDE DEF ended
    <2>3. Sound(ended, Len(chunks)) BY <2>1, <1>1, <1>3, ManagerAssumption DEF Sound, InFlight
    <2>4. GoesOn(ended, b) BY <2>1 DEF GoesOn, Live, InFlight
    <2> QED BY <1>2, <2>2, <2>3, <2>4, QuietStep
  <1> QED BY <1>7, <1>8, <1>9

LEMMA BodyInv ==
  ASSUME Inv, NEW w \in Workers,
         BodyEnds(w) \/ FlushDue(w) \/ BodyBreaks(w) \/ Interrupted(w)
  PROVE  Inv'
  <1>1. RunInv' BY WorkerFacts, KeepRunOK DEF BodyEnds, FlushDue, BodyBreaks, Interrupted, Quiet
  <1>2. UNCHANGED <<manager, thief>> BY DEF BodyEnds, FlushDue, BodyBreaks, Interrupted, Quiet
  <1>3. LeftInv'
    <2>1. "failure" \in World BY DEF World
    <2>2. UNCHANGED left \/ Spend("failure") BY DEF BodyEnds, FlushDue, BodyBreaks, Interrupted, Quiet
    <2> QED BY <2>1, <2>2, WorkerFacts, SpendOK DEF LeftInv
  <1>4. ASSUME NEW res \in {"none", "ok", "transient"}, worker[w].pc = "receive", Flush(w, res)
        PROVE  Inv'
    BY <1>1, <1>2, <1>3, <1>4, FlushInv
  <1>5. CASE worker[w].pc = "asking" /\ Ends(w, "transient")
    <2> DEFINE b == worker[w]
               a == [b EXCEPT !.pc = "settle", !.res = "transient"]
    <2>1. b \in Attempt /\ Sound(b, Len(chunks)) /\ fatal \in BOOLEAN BY WorkerFacts
    <2>2. /\ a \in Attempt /\ a.pc = "settle" /\ a.res = "transient" /\ a.buf = b.buf /\ a.pos = b.pos
          /\ a.chunk = b.chunk /\ a.revoked = b.revoked
      BY <2>1 DEF Attempt, PC, Result
    <2>3. Step(w, a) BY <1>5 DEF Ends
    <2> HIDE DEF a
    <2>4. Sound(a, Len(chunks)) BY <1>5, <2>1, <2>2 DEF Sound, InFlight
    <2>5. GoesOn(a, b) BY <2>2 DEF GoesOn, Live, InFlight
    <2>6. fatal' \in BOOLEAN BY <1>2, <2>1 DEF manager
    <2>7. UNCHANGED <<chunks, completed, nextFresh, retryQueue, thief>> BY <1>2 DEF manager
    <2> QED BY <1>1, <1>3, <2>3, <2>4, <2>5, <2>6, <2>7, QuietStep
  <1> QED BY <1>4, <1>5 DEF BodyEnds, FlushDue, BodyBreaks, Interrupted

(* A live worker changes what its chunk tells of the attempt, cur and got, and goes on. *)
LEMMA OwnChunkStep ==
  ASSUME Inv, NEW w \in Workers, NEW a, NEW c \in Chunk, Live(worker[w]),
         c.start = Own(w).start, c.end = Own(w).end, c.status = Own(w).status, c.start <= c.cur,
         a.pc \in InFlight => c.cur = a.pos,
         Sound(a, Len(chunks)), Live(a) => a.chunk = worker[w].chunk,
         chunks' = [chunks EXCEPT ![worker[w].chunk] = c], Step(w, a),
         UNCHANGED <<completed, nextFresh, retryQueue, fatal, thief>>, RunInv', LeftInv'
  PROVE  Inv'
  <1> DEFINE i == worker[w].chunk
             ds == [chunks EXCEPT ![i] = c]
  <1>1. /\ i \in 1 .. Len(chunks) /\ Len(chunks) \in Nat /\ Table(chunks) /\ Serves(worker[w], chunks[i])
        /\ c.start = chunks[i].start /\ c.end = chunks[i].end /\ c.status = chunks[i].status
    BY WorkerFacts DEF Live, Own
  <1>2. /\ Table(ds) /\ Len(ds) = Len(chunks)
        /\ \A j \in 1 .. Len(chunks) : ds[j] = IF j = i THEN c ELSE chunks[j]
    <2>1. \A cs : Table(cs) => \A k \in 1 .. Len(cs) : c.start = cs[k].start /\ c.end = cs[k].end =>
            LET es == [cs EXCEPT ![k] = c]
            IN  Table(es) /\ Len(es) = Len(cs) /\ \A j \in 1 .. Len(cs) : es[j] = IF j = k THEN c ELSE cs[j]
      BY SetKeepsTable
    <2> HIDE DEF i
    <2> QED BY <1>1, <2>1
  <1>3. chunks' = ds OBVIOUS
  <1> HIDE DEF ds
  <1>4. ManagerInv' BY <1>2, <1>3 DEF Inv, ManagerInv
  <1>5. \A j \in 1 .. Len(chunks) : /\ ds[j].status = chunks[j].status
                                    /\ ds[j].start = chunks[j].start /\ ds[j].end = chunks[j].end
    BY <1>1, <1>2
  <1>6. Queued(ds, retryQueue)
    <2>1. \A j \in 1 .. Len(chunks) : chunks[j].status = "Failed" => ds[j].status = "Failed" BY <1>5
    <2>2. Len(ds) \in Nat /\ Len(chunks) <= Len(ds) BY <1>1, <1>2
    <2> QED BY <2>1, <2>2, <1>1, QueueKept DEF Inv
  <1>7. Thieving(ds, thief) BY <1>2, <1>5, ThiefKept DEF Inv
  <1>8. Serving(ds, [worker EXCEPT ![w] = a])
    <2>1. Live(a) => Serves(a, ds[a.chunk]) BY <1>1, <1>2 DEF Serves
    <2>2. ASSUME NEW v \in Workers \ {w}, Live(worker[v])
          PROVE  ds[worker[v].chunk] = chunks[worker[v].chunk] /\ (Live(a) => worker[v].chunk # a.chunk)
      <3>1. worker[v].chunk # i BY <2>2 DEF Inv, Serving
      <3>2. worker[v].chunk \in 1 .. Len(chunks) BY <2>2, WorkerFacts DEF Live
      <3> QED BY <3>1, <3>2, <1>2
    <2>3. Len(ds) \in Nat /\ Len(chunks) <= Len(ds) /\ Sound(a, Len(ds)) BY <1>1, <1>2
    <2> QED BY <1>1, <2>1, <2>2, <2>3, OneServes DEF Inv
  <1> QED BY <1>3, <1>4, <1>6, <1>7, <1>8 DEF Inv, Step

LEMMA ReceiveInv == ASSUME Inv, NEW w \in Workers, Receive(w) PROVE Inv'
  <1> DEFINE b == worker[w]
             next == b.pos + b.buf
             a == [b EXCEPT !.buf = @ + 1]
             c == [Own(w) EXCEPT !.got = next + 1]
  <1>1. /\ b \in Attempt /\ Sound(b, Len(chunks)) /\ b.chunk # 0 /\ Own(w) \in Chunk /\ b.pc = "receive"
        /\ ~b.revoked /\ next <= Own(w).end
    BY WorkerFacts DEF Sound, Receive
  <1>2. Live(b) /\ Serves(b, Own(w)) BY <1>1, WorkerFacts DEF Live
  <1>3. b.pos \in Int /\ 0 <= b.pos /\ b.buf \in Nat BY <1>1, AttemptFields
  <1>4. next + 1 \in 0 .. Size BY <1>1, <1>3, ChunkFields, ManagerAssumption
  <1>5. /\ c \in Chunk /\ c.start = Own(w).start /\ c.end = Own(w).end /\ c.status = Own(w).status
        /\ c.cur = Own(w).cur
    <2> HIDE DEF next
    <2> QED BY <1>1, <1>4 DEF Chunk
  <1>6. c.start <= c.cur BY <1>5, <1>1, WorkerFacts, TableFacts DEF Table, Own
  <1>7. /\ a \in Attempt /\ a.pc = "receive" /\ a.buf = b.buf + 1 /\ a.pos = b.pos /\ a.ver = b.ver
        /\ a.chunk = b.chunk /\ a.revoked = b.revoked
    BY <1>1, <1>3 DEF Attempt
  <1>8. Step(w, a) BY DEF Receive
  <1>9. chunks' = [chunks EXCEPT ![b.chunk] = c] BY DEF Receive, Own
  <1>10. RunInv' /\ LeftInv' BY WorkerFacts, KeepRunOK DEF Receive, LeftInv
  <1>11. UNCHANGED <<completed, nextFresh, retryQueue, fatal, thief>> BY DEF Receive
  <1> HIDE DEF a, c
  <1>12. Sound(a, Len(chunks)) BY <1>1, <1>3, <1>4, <1>7 DEF Sound, InFlight
  <1>13. c.cur = a.pos /\ a.chunk = b.chunk BY <1>1, <1>2, <1>5, <1>7 DEF Serves, InFlight
  <1> QED BY <1>2, <1>5, <1>6, <1>8, <1>9, <1>10, <1>11, <1>12, <1>13, OwnChunkStep

LEMMA AdvanceInv == ASSUME Inv, NEW w \in Workers, Advance(w) PROVE Inv'
  <1> DEFINE b == worker[w]
             pos == b.pos + b.buf
             over == b.res # "none" \/ (~b.revoked /\ pos > Own(w).end)
             res == IF b.res = "none" THEN "ok" ELSE b.res
             a == [b EXCEPT !.pc = IF over THEN "settle" ELSE "receive", !.pos = pos, !.buf = 0,
                            !.res = IF over THEN Verdict(w, res, pos) ELSE "none"]
             c == [Own(w) EXCEPT !.cur = pos]
  <1>1. /\ b \in Attempt /\ Sound(b, Len(chunks)) /\ b.chunk # 0 /\ Own(w) \in Chunk /\ b.pc = "written"
        /\ fatal \in BOOLEAN
    BY WorkerFacts DEF Sound, Advance
  <1>2. b.pos \in Int /\ 0 <= b.pos /\ b.buf \in Nat /\ pos <= Size /\ b.res \in Result
    BY <1>1, AttemptFields DEF Sound
  <1>3. pos \in 0 .. Size BY <1>2, ManagerAssumption
  <1>4. res \in Result \ {"none"} /\ Verdict(w, res, pos) \in Result \ {"none"}
    BY <1>2 DEF Result, Verdict
  <1>5. /\ a \in Attempt /\ a.pc \in {"settle", "receive"} /\ (a.pc = "settle" => a.res # "none")
        /\ a.pos = pos /\ a.buf = 0 /\ a.ver = b.ver /\ a.chunk = b.chunk /\ a.revoked = b.revoked
    <2> HIDE DEF pos, over, res
    <2>1. (IF over THEN Verdict(w, res, pos) ELSE "none") \in Result BY <1>4 DEF Result
    <2> QED BY <1>1, <1>3, <1>4, <2>1 DEF Attempt, PC
  <1>6. Step(w, a) BY DEF Advance
  <1>7. RunInv' /\ LeftInv' BY WorkerFacts, KeepRunOK DEF Advance, LeftInv
  <1>8. UNCHANGED <<completed, nextFresh, retryQueue, fatal, thief>> BY DEF Advance
  <1>9. chunks' = IF b.revoked THEN chunks ELSE [chunks EXCEPT ![b.chunk] = c] BY DEF Advance, Own
  <1> HIDE DEF a
  <1>10. Sound(a, Len(chunks)) BY <1>1, <1>2, <1>3, <1>5 DEF Sound, InFlight
  <1>11. CASE b.revoked
    <2>1. GoesOn(a, b) BY <1>5, <1>11 DEF GoesOn, Live
    <2> QED BY <1>1, <1>6, <1>7, <1>8, <1>9, <1>10, <1>11, <2>1, QuietStep
  <1>12. CASE ~b.revoked
    <2>1. Live(b) /\ Serves(b, Own(w)) BY <1>1, <1>12, WorkerFacts DEF Live
    <2>2. Own(w).start <= b.pos
      <3>1. Own(w).start <= Own(w).cur BY <1>1, WorkerFacts, TableFacts DEF Table, Own
      <3> QED BY <3>1, <2>1, <1>1 DEF Serves, InFlight
    <2>3. /\ c \in Chunk /\ c.start = Own(w).start /\ c.end = Own(w).end /\ c.status = Own(w).status
          /\ c.cur = pos
      <3> HIDE DEF pos
      <3> QED BY <1>1, <1>3 DEF Chunk
    <2>4. c.start <= c.cur BY <2>2, <2>3, <1>1, <1>2, ChunkFields
    <2>5. chunks' = [chunks EXCEPT ![b.chunk] = c] BY <1>9, <1>12
    <2> HIDE DEF c
    <2>6. c.cur = a.pos /\ a.chunk = b.chunk BY <1>5, <2>3
    <2> QED BY <1>6, <1>7, <1>8, <1>10, <2>1, <2>3, <2>4, <2>5, <2>6, OwnChunkStep
  <1> QED BY <1>11, <1>12

LEMMA WriteInv == ASSUME Inv, NEW w \in Workers, WriteOut(w) \/ WriteFails(w) PROVE Inv'
  <1> DEFINE b == worker[w]
             out == [b EXCEPT !.pc = "written"]
             failed == [b EXCEPT !.pc = "settle", !.buf = 0, !.res = "fatal"]
  <1>1. /\ b \in Attempt /\ Sound(b, Len(chunks)) /\ b.pc = "writing" /\ b.ver \in 1 .. Versions
        /\ b.chunk # 0 /\ fatal \in BOOLEAN
    BY WorkerFacts DEF Sound, InFlight, WriteOut, WriteFails
  <1>2. UNCHANGED <<chunks, completed, nextFresh, retryQueue, thief>> /\ fatal' \in BOOLEAN
    BY <1>1 DEF WriteOut, WriteFails, manager
  <1>3. RunInv'
    <2>1. \A n : Put(b, n) \in Contents BY <1>1, WorkerFacts DEF Put, Contents, RunInv
    <2>2. disk' \in Contents BY <2>1 DEF WriteOut, WriteFails
    <2>3. UNCHANGED <<run, remote, durable, part, saved, final>> BY DEF WriteOut, WriteFails, KeepSaves
    <2> QED BY <2>2, <2>3, WorkerFacts DEF RunInv, run
  <1>4. LeftInv'
    <2>1. "diskError" \in World BY DEF World
    <2>2. UNCHANGED left \/ Spend("diskError") BY DEF WriteOut, WriteFails
    <2> QED BY <2>1, <2>2, WorkerFacts, SpendOK DEF LeftInv
  <1>5. CASE WriteOut(w)
    <2>1. /\ out \in Attempt /\ out.pc = "written" /\ out.buf = b.buf /\ out.ver = b.ver
          /\ out.pos = b.pos /\ out.chunk = b.chunk /\ out.revoked = b.revoked
      BY <1>1 DEF Attempt, PC
    <2>2. Step(w, out) BY <1>5 DEF WriteOut
    <2> HIDE DEF out
    <2>3. Sound(out, Len(chunks)) BY <2>1, <1>1 DEF Sound, InFlight
    <2>4. GoesOn(out, b) BY <2>1, <1>1 DEF GoesOn, Live, InFlight
    <2> QED BY <1>2, <1>3, <1>4, <2>2, <2>3, <2>4, QuietStep
  <1>6. CASE WriteFails(w)
    <2>1. /\ failed \in Attempt /\ failed.pc = "settle" /\ failed.buf = 0 /\ failed.res = "fatal"
          /\ failed.pos = b.pos /\ failed.chunk = b.chunk /\ failed.revoked = b.revoked
      BY <1>1 DEF Attempt, PC, Result
    <2>2. Step(w, failed) BY <1>6 DEF WriteFails
    <2> HIDE DEF failed
    <2>3. Sound(failed, Len(chunks)) BY <2>1, <1>1, AttemptFields DEF Sound, InFlight
    <2>4. GoesOn(failed, b) BY <2>1, <1>1 DEF GoesOn, Live, InFlight
    <2> QED BY <1>2, <1>3, <1>4, <2>2, <2>3, <2>4, QuietStep
  <1> QED BY <1>5, <1>6

(* A worker ends its attempt and the table is not told of it. *)
LEMMA EndsQuietly ==
  ASSUME Inv, NEW w \in Workers, NEW pc \in {"idle", "stopped"}, Step(w, NoAttempt(pc)),
         UNCHANGED <<chunks, completed, nextFresh, retryQueue, thief>>, fatal' \in BOOLEAN,
         KeepRun, UNCHANGED left
  PROVE  Inv'
  <1>1. Sound(NoAttempt(pc), Len(chunks)) /\ GoesOn(NoAttempt(pc), worker[w])
    BY NoAttemptIsSound, WorkerFacts DEF GoesOn
  <1>2. RunInv' /\ LeftInv' BY WorkerFacts, KeepRunOK DEF LeftInv
  <1> QED BY <1>1, <1>2, QuietStep

LEMMA ReturnInv == ASSUME Inv, NEW w \in Workers, Return(w) \/ NoMirrorLeft(w) PROVE Inv'
  <1>1. CASE Return(w)
    <2>1. UNCHANGED <<chunks, completed, nextFresh, retryQueue, thief, fatal, left>> /\ KeepRun
      BY <1>1 DEF Return, Quiet, manager
    <2>2. fatal' \in BOOLEAN BY <2>1, WorkerFacts
    <2> QED BY <1>1, <2>1, <2>2, EndsQuietly DEF Return
  <1>2. CASE NoMirrorLeft(w)
    <2>1. UNCHANGED <<chunks, completed, nextFresh, retryQueue, thief, left>> /\ KeepRun /\ fatal' \in BOOLEAN
      BY <1>2 DEF NoMirrorLeft, Abort
    <2> QED BY <1>2, <2>1, EndsQuietly DEF NoMirrorLeft
  <1> QED BY <1>1, <1>2

(* Only the thief changes. *)
LEMMA ThiefStep ==
  ASSUME Inv, UNCHANGED <<chunks, completed, retryQueue, fatal, worker>>, nextFresh' \in Nat \ {0},
         Thieving(chunks, thief'), KeepRun, LeftInv'
  PROVE  Inv'
  <1>1. RunInv' BY KeepRunOK DEF Inv
  <1>2. ManagerInv' BY DEF Inv, ManagerInv
  <1>3. Serving(chunks, worker)' /\ Queued(chunks, retryQueue)' /\ Thieving(chunks, thief)' BY DEF Inv
  <1> QED BY <1>1, <1>2, <1>3 DEF Inv

LEMMA LookingOK ==
  ASSUME NEW w \in Workers, NEW op \in {"look", "search"}, NEW cs
  PROVE  Looking(w, op) \in Thief /\ Thieving(cs, Looking(w, op)) /\ Thieving(cs, None)
  <1>1. Looking(w, op) \in Thief BY ManagerAssumption DEF Looking, Thief, ThiefOp
  <1>2. Looking(w, op).op = op BY DEF Looking
  <1> QED BY <1>1, <1>2 DEF Thieving

LEMMA LookInv == ASSUME Inv, NEW w \in Workers, LookForVictim(w) \/ FindNothing(w) PROVE Inv'
  <1>1. nextFresh' \in Nat \ {0}
    BY WorkerFacts DEF LookForVictim, FindNothing, NothingFresh, manager, Inv, ManagerInv
  <1>2. thief' = Looking(w, "look") \/ thief' = None BY DEF LookForVictim, FindNothing
  <1>3. Thieving(chunks, thief') BY <1>2, LookingOK
  <1>4. UNCHANGED <<chunks, completed, retryQueue, fatal, worker>> /\ KeepRun /\ LeftInv'
    BY WorkerFacts DEF LookForVictim, FindNothing, manager, LeftInv
  <1> QED BY <1>1, <1>3, <1>4, ThiefStep

LEMMA PickSilentInv == ASSUME Inv, NEW w \in Workers, PickSilent(w) PROVE Inv'
  <1>1. PICK v \in Workers \ {w} : Silent(v) /\ thief' = [Looking(w, "takeover") EXCEPT !.victim = worker[v].chunk]
    BY DEF PickSilent
  <1>2. /\ worker[v] \in Attempt /\ worker[v].chunk \in 1 .. Len(chunks) /\ Live(worker[v])
        /\ Serves(worker[v], chunks[worker[v].chunk])
    BY <1>1, WorkerFacts DEF Silent, Sound, Live, Own
  <1>3. thief' \in Thief /\ thief'.op = "takeover" /\ thief'.victim = worker[v].chunk
    <2>1. worker[v].chunk \in Nat BY <1>2, AttemptFields
    <2> QED BY <1>1, <2>1, ManagerAssumption DEF Looking, Thief, ThiefOp
  <1>4. Thieving(chunks, thief') BY <1>2, <1>3 DEF Thieving, Serves
  <1>5. UNCHANGED <<chunks, completed, retryQueue, nextFresh, fatal, worker>> /\ KeepRun /\ Spend("silence")
    BY DEF PickSilent, manager
  <1>6. LeftInv' /\ nextFresh' \in Nat \ {0} BY <1>5, SpendOK, WorkerFacts DEF World, Inv, ManagerInv
  <1> QED BY <1>4, <1>5, <1>6, ThiefStep

LEMMA PickStealInv == ASSUME Inv, NEW w \in Workers, PickSteal(w) PROVE Inv'
  <1>0. Table(chunks) /\ DOMAIN chunks = 1 .. Len(chunks) BY WorkerFacts, TableFacts
  <1>1. PICK i \in 1 .. Len(chunks) :
          /\ chunks[i].status = "Assigned"
          /\ \E n \in Stealable(i) :
               thief' = [by |-> w, op |-> "steal", victim |-> i, end |-> chunks[i].end, take |-> n]
    BY <1>0 DEF PickSteal
  <1>2. PICK n \in Stealable(i) :
          thief' = [by |-> w, op |-> "steal", victim |-> i, end |-> chunks[i].end, take |-> n]
    BY <1>1
  <1>3. chunks[i] \in Chunk /\ chunks[i].start <= chunks[i].cur /\ i \in Nat
    BY <1>0, TableFacts DEF Table
  <1>4. n \in Nat /\ 1 <= n /\ chunks[i].start <= chunks[i].end - n /\ n <= Size
    <2> DEFINE c == chunks[i]
               pos == IF c.got > c.cur THEN c.got ELSE c.cur
    <2>1. /\ c.start \in Int /\ 0 <= c.start /\ c.end \in Int /\ c.end < Size /\ c.cur \in Int
          /\ c.got \in Int /\ c.start <= c.cur
      BY <1>3, ChunkFields
    <2>2. pos \in Int /\ c.cur <= pos BY <2>1
    <2>3. Unreceived(c) = IF pos <= c.end THEN c.end + 1 - pos ELSE 0 BY DEF Unreceived
    <2>4. n \in MinSteal .. Unreceived(c) - 1 BY <1>2 DEF Stealable
    <2> HIDE DEF pos, c
    <2>5. n \in Int /\ 1 <= n /\ n <= Unreceived(c) - 1
      BY <2>1, <2>2, <2>3, <2>4, ManagerAssumption
    <2>6. pos <= c.end /\ n <= c.end - pos BY <2>1, <2>2, <2>3, <2>5
    <2> QED BY <2>1, <2>2, <2>5, <2>6, ManagerAssumption DEF c
  <1>5. thief' \in Thief
    <2>1. chunks[i].end \in 0 .. Size /\ n \in 0 .. Size
      BY <1>3, <1>4, ChunkFields, ManagerAssumption
    <2> QED BY <1>2, <1>3, <2>1 DEF Thief, ThiefOp
  <1>6. /\ thief'.op = "steal" /\ thief'.victim = i /\ thief'.end = chunks[i].end /\ thief'.take = n
    BY <1>2
  <1>7. Thieving(chunks, thief') BY <1>1, <1>4, <1>5, <1>6 DEF Thieving
  <1>8. UNCHANGED <<chunks, completed, retryQueue, nextFresh, fatal, worker>> /\ KeepRun /\ UNCHANGED left
    BY DEF PickSteal, manager
  <1>9. LeftInv' /\ nextFresh' \in Nat \ {0} BY <1>8, WorkerFacts DEF LeftInv, Inv, ManagerInv
  <1> QED BY <1>7, <1>8, <1>9, ThiefStep

-----------------------------------------------------------------------------
(* The steps of a worker that hand out, cut or settle chunks: they have the lock. *)

(* The table changes at chunk i only, where no worker but w is live. *)
LEMMA OthersServe ==
  ASSUME NEW cs, NEW ds, NEW wk, NEW w \in Workers, NEW a, NEW i, Len(cs) \in Nat, Len(ds) \in Nat,
         Serving(cs, wk), Len(cs) <= Len(ds), Sound(a, Len(ds)),
         Live(a) => a.chunk = i \/ a.chunk \notin 1 .. Len(cs),
         Live(a) => Serves(a, ds[a.chunk]),
         \A j \in 1 .. Len(cs) : j # i => ds[j] = cs[j],
         \A v \in Workers \ {w} : Live(wk[v]) => wk[v].chunk # i
  PROVE  Serving(ds, [wk EXCEPT ![w] = a])
  <1>1. ASSUME NEW v \in Workers \ {w}, Live(wk[v])
        PROVE  ds[wk[v].chunk] = cs[wk[v].chunk] /\ (Live(a) => wk[v].chunk # a.chunk)
    <2>1. wk[v].chunk \in 1 .. Len(cs) /\ wk[v].chunk # i BY <1>1 DEF Serving, Sound, Live
    <2> QED BY <2>1
  <1> QED BY <1>1, OneServes

(* A chunk that is not assigned has no live attempt. *)
LEMMA NobodyAt ==
  ASSUME NEW cs, NEW wk, NEW i, Serving(cs, wk), cs[i].status # "Assigned"
  PROVE  \A v \in Workers : Live(wk[v]) => wk[v].chunk # i
  BY DEF Serving, Serves

(* remove(pos) of the queue. *)
LEMMA Removed ==
  ASSUME NEW q \in Seq(Nat), NEW k \in 1 .. Len(q)
  PROVE  LET r == SubSeq(q, 1, k - 1) \o SubSeq(q, k + 1, Len(q))
         IN  /\ r \in Seq(Nat) /\ Len(r) = Len(q) - 1
             /\ \A j \in 1 .. Len(r) : r[j] = IF j < k THEN q[j] ELSE q[j + 1]
  <1> DEFINE front == SubSeq(q, 1, k - 1)
             back == SubSeq(q, k + 1, Len(q))
             r == front \o back
  <1>1. Len(q) \in Nat /\ \A j \in 1 .. Len(q) : q[j] \in Nat BY LenProperties, ElementOfSeq
  <1>2. front \in Seq(Nat) /\ Len(front) = k - 1 /\ \A j \in 1 .. k - 1 : front[j] = q[j]
    <2>1. \A j \in 1 .. k - 1 : q[j] \in Nat BY <1>1
    <2>2. /\ front \in Seq(Nat) /\ Len(front) = IF 1 <= k - 1 THEN k - 1 - 1 + 1 ELSE 0
          /\ \A j \in 1 .. k - 1 - 1 + 1 : front[j] = q[1 + j - 1]
      BY <2>1, <1>1, SubSeqProperties
    <2> HIDE DEF front
    <2>3. Len(front) = k - 1 BY <2>2, <1>1
    <2>4. ASSUME NEW j \in 1 .. k - 1 PROVE front[j] = q[j]
      <3>1. j \in 1 .. k - 1 - 1 + 1 /\ 1 + j - 1 = j BY <1>1
      <3> QED BY <3>1, <2>2
    <2> QED BY <2>2, <2>3, <2>4
  <1>3. back \in Seq(Nat) /\ Len(back) = Len(q) - k /\ \A j \in 1 .. Len(q) - k : back[j] = q[k + j]
    <2>1. \A j \in k + 1 .. Len(q) : q[j] \in Nat BY <1>1
    <2>2. /\ back \in Seq(Nat) /\ Len(back) = IF k + 1 <= Len(q) THEN Len(q) - (k + 1) + 1 ELSE 0
          /\ \A j \in 1 .. Len(q) - (k + 1) + 1 : back[j] = q[k + 1 + j - 1]
      BY <2>1, <1>1, SubSeqProperties
    <2> HIDE DEF back
    <2>3. Len(back) = Len(q) - k BY <2>2, <1>1
    <2>4. ASSUME NEW j \in 1 .. Len(q) - k PROVE back[j] = q[k + j]
      <3>1. j \in 1 .. Len(q) - (k + 1) + 1 /\ k + 1 + j - 1 = k + j BY <1>1
      <3> QED BY <3>1, <2>2
    <2> QED BY <2>2, <2>3, <2>4
  <1> HIDE DEF front, back
  <1>4. /\ r \in Seq(Nat) /\ Len(r) = Len(front) + Len(back)
        /\ \A j \in 1 .. Len(front) + Len(back) : r[j] = IF j <= Len(front) THEN front[j] ELSE back[j - Len(front)]
    BY <1>2, <1>3, ConcatProperties
  <1> HIDE DEF r
  <1>5. Len(r) = Len(q) - 1 BY <1>1, <1>2, <1>3, <1>4
  <1>6. ASSUME NEW j \in 1 .. Len(r) PROVE r[j] = IF j < k THEN q[j] ELSE q[j + 1]
    <2>1. j \in 1 .. Len(q) - 1 /\ k \in Int /\ j \in Int BY <1>1, <1>5
    <2>2. r[j] = IF j <= k - 1 THEN front[j] ELSE back[j - (k - 1)] BY <1>1, <1>2, <1>3, <1>4, <1>5
    <2>3. CASE j < k BY <2>1, <2>2, <2>3, <1>2
    <2>4. CASE ~(j < k)
      <3>1. j - (k - 1) \in 1 .. Len(q) - k /\ k + (j - (k - 1)) = j + 1 BY <2>1, <2>4, <1>1
      <3>2. ~(j <= k - 1) BY <2>1, <2>4
      <3> QED BY <3>1, <3>2, <2>2, <2>4, <1>3
    <2> QED BY <2>3, <2>4
  <1> QED BY <1>4, <1>5, <1>6 DEF r, front, back

(* A chunk nobody has goes to an idle worker. *)
LEMMA HandedOut ==
  ASSUME Inv, NEW w \in Workers, NEW i \in 1 .. Len(chunks), chunks[i].status # "Assigned",
         chunks' = Assign(chunks, i), Step(w, AttemptAt(i))
  PROVE  Table(chunks') /\ Serving(chunks, worker)' /\ Len(chunks') = Len(chunks)
         /\ \A j \in 1 .. Len(chunks) : j # i => chunks'[j] = chunks[j]
  <1> DEFINE a == AttemptAt(i)
             ds == Assign(chunks, i)
  <1>1. Table(chunks) /\ Len(chunks) \in Nat BY WorkerFacts
  <1>2. /\ Table(ds) /\ Len(ds) = Len(chunks) /\ ds[i].status = "Assigned"
        /\ \A j \in 1 .. Len(chunks) : j # i => ds[j] = chunks[j]
    BY <1>1, AssignKeepsTable
  <1>3. Sound(a, Len(chunks)) /\ Live(a) /\ a.chunk = i /\ a.pc = "asking" BY <1>1, NewAttemptIsSound
  <1>4. worker' = [worker EXCEPT ![w] = a] /\ chunks' = ds BY DEF Step
  <1> HIDE DEF a, ds
  <1>5. Serves(a, ds[a.chunk]) BY <1>2, <1>3 DEF Serves, InFlight
  <1>6. \A v \in Workers : Live(worker[v]) => worker[v].chunk # i BY NobodyAt DEF Inv
  <1>7. Len(ds) \in Nat /\ Len(chunks) <= Len(ds) /\ Sound(a, Len(ds)) BY <1>1, <1>2, <1>3
  <1>8. Serving(ds, [worker EXCEPT ![w] = a]) BY <1>1, <1>2, <1>3, <1>5, <1>6, <1>7, OthersServe DEF Inv
  <1> QED BY <1>2, <1>4, <1>8

LEMMA TakeRetryInv == ASSUME Inv, NEW w \in Workers, TakeRetry(w) PROVE Inv'
  <1>1. retryQueue \in Seq(Nat) /\ DOMAIN retryQueue = 1 .. Len(retryQueue) /\ Len(retryQueue) \in Nat
    BY LenProperties DEF Inv, Queued
  <1>2. PICK k \in 1 .. Len(retryQueue) : GetRetry(k) /\ Step(w, AttemptAt(retryQueue[k]))
    BY <1>1 DEF TakeRetry
  <1> DEFINE i == retryQueue[k]
             r == SubSeq(retryQueue, 1, k - 1) \o SubSeq(retryQueue, k + 1, Len(retryQueue))
  <1>3. i \in 1 .. Len(chunks) /\ chunks[i].status = "Failed" BY DEF Inv, Queued
  <1>4. chunks' = Assign(chunks, i) /\ retryQueue' = r BY <1>2 DEF GetRetry
  <1>5. /\ Table(chunks') /\ Serving(chunks, worker)' /\ Len(chunks') = Len(chunks)
        /\ \A j \in 1 .. Len(chunks) : j # i => chunks'[j] = chunks[j]
    BY <1>2, <1>3, <1>4, HandedOut
  <1>6. Queued(chunks, retryQueue)'
    <2>1. /\ r \in Seq(Nat) /\ Len(r) = Len(retryQueue) - 1
          /\ \A j \in 1 .. Len(r) : r[j] = IF j < k THEN retryQueue[j] ELSE retryQueue[j + 1]
      BY <1>1, Removed
    <2> HIDE DEF r
    <2>2. ASSUME NEW j \in 1 .. Len(r)
          PROVE  \E m \in 1 .. Len(retryQueue) \ {k} : r[j] = retryQueue[m] /\ (m = IF j < k THEN j ELSE j + 1)
      <3> DEFINE m == IF j < k THEN j ELSE j + 1
      <3>1. j \in 1 .. Len(retryQueue) - 1 BY <2>1
      <3>2. m \in 1 .. Len(retryQueue) /\ m # k BY <3>1, <1>1
      <3> QED BY <3>2, <2>1
    <2>3. ASSUME NEW j \in 1 .. Len(r)
          PROVE  r[j] \in 1 .. Len(chunks') /\ chunks'[r[j]].status = "Failed"
      <3>1. PICK m \in 1 .. Len(retryQueue) \ {k} : r[j] = retryQueue[m] BY <2>2
      <3>2. r[j] # i BY <3>1 DEF Inv, Queued
      <3>3. r[j] \in 1 .. Len(chunks) /\ chunks[r[j]].status = "Failed" BY <3>1 DEF Inv, Queued
      <3> QED BY <3>2, <3>3, <1>5
    <2>4. ASSUME NEW j \in 1 .. Len(r), NEW l \in 1 .. Len(r), j # l
          PROVE  r[j] # r[l]
      <3>1. PICK m \in 1 .. Len(retryQueue) \ {k} : r[j] = retryQueue[m] /\ (m = IF j < k THEN j ELSE j + 1)
        BY <2>2
      <3>2. PICK n \in 1 .. Len(retryQueue) \ {k} : r[l] = retryQueue[n] /\ (n = IF l < k THEN l ELSE l + 1)
        BY <2>2
      <3>3. m # n
        <4>1. j \in Int /\ l \in Int /\ k \in Int BY <2>1, <1>1
        <4>2. m = (IF j < k THEN j ELSE j + 1) /\ n = (IF l < k THEN l ELSE l + 1) BY <3>1, <3>2
        <4> QED BY <4>1, <4>2, <2>4
      <3> QED BY <3>1, <3>2, <3>3 DEF Inv, Queued
    <2> QED BY <2>1, <2>3, <2>4, <1>4 DEF Queued
  <1>7. UNCHANGED <<completed, nextFresh, fatal, thief, left>> /\ KeepRun BY <1>2 DEF TakeRetry, GetRetry
  <1>8. thief = None BY DEF TakeRetry, Unlocked
  <1>9. Thieving(chunks, thief)' BY <1>7, <1>8 DEF Thieving
  <1>10. RunInv' /\ LeftInv' BY <1>7, WorkerFacts, KeepRunOK DEF LeftInv
  <1>11. ManagerInv' BY <1>5, <1>7 DEF Inv, ManagerInv
  <1> QED BY <1>5, <1>6, <1>9, <1>10, <1>11 DEF Inv

LEMMA TakeFreshInv == ASSUME Inv, NEW w \in Workers, TakeFresh(w) PROVE Inv'
  <1>0. Table(chunks) /\ DOMAIN chunks = 1 .. Len(chunks) /\ Len(chunks) \in Nat BY WorkerFacts, TableFacts
  <1>1. PICK i \in 1 .. Len(chunks) : GetFresh(i) /\ Step(w, AttemptAt(i)) BY <1>0 DEF TakeFresh
  <1>2. chunks[i].status = "Unassigned" /\ chunks' = Assign(chunks, i) /\ nextFresh' = i + 1
    BY <1>1 DEF GetFresh, FreshFrom
  <1>3. /\ Table(chunks') /\ Serving(chunks, worker)' /\ Len(chunks') = Len(chunks)
        /\ \A j \in 1 .. Len(chunks) : j # i => chunks'[j] = chunks[j]
    BY <1>1, <1>2, HandedOut
  <1>4. UNCHANGED <<completed, retryQueue, fatal, thief, left>> /\ KeepRun BY <1>1 DEF TakeFresh, GetFresh
  <1>5. Queued(chunks, retryQueue)'
    <2>1. \A j \in 1 .. Len(chunks) : chunks[j].status = "Failed" => chunks'[j].status = "Failed" BY <1>2, <1>3
    <2>2. Len(chunks') \in Nat /\ Len(chunks) <= Len(chunks') BY <1>0, <1>3
    <2>3. Queued(chunks', retryQueue) BY <1>0, <2>1, <2>2, QueueKept DEF Inv
    <2> QED BY <2>3, <1>4
  <1>6. thief = None BY DEF TakeFresh, Unlocked
  <1>7. Thieving(chunks, thief)' BY <1>4, <1>6 DEF Thieving
  <1>8. RunInv' /\ LeftInv' BY <1>4, WorkerFacts, KeepRunOK DEF LeftInv
  <1>9. ManagerInv' BY <1>0, <1>2, <1>3, <1>4 DEF Inv, ManagerInv
  <1> QED BY <1>3, <1>5, <1>7, <1>8, <1>9 DEF Inv

(* A worker has settled its chunk i, and goes idle. *)
LEMMA Settled ==
  ASSUME Inv, NEW w \in Workers, NEW i, Live(worker[w]), i = worker[w].chunk,
         Step(w, NoAttempt("idle")), Unlocked, KeepRun, UNCHANGED <<nextFresh, thief, left>>,
         Table(chunks'), Len(chunks) <= Len(chunks'), completed' \in Nat, fatal' \in BOOLEAN,
         \A j \in 1 .. Len(chunks) : j # i => chunks'[j] = chunks[j],
         Queued(chunks', retryQueue')
  PROVE  Inv'
  <1> DEFINE a == NoAttempt("idle")
             ds == chunks'
  <1>1. Len(chunks) \in Nat /\ Len(ds) \in Nat BY WorkerFacts, TableFacts
  <1>2. Sound(a, Len(ds)) /\ ~Live(a) BY <1>1, NoAttemptIsSound
  <1>3. \A v \in Workers \ {w} : Live(worker[v]) => worker[v].chunk # i BY DEF Inv, Serving
  <1>4. worker' = [worker EXCEPT ![w] = a] BY DEF Step
  <1>5. Len(chunks) <= Len(ds) /\ \A j \in 1 .. Len(chunks) : j # i => ds[j] = chunks[j] OBVIOUS
  <1> HIDE DEF a, ds
  <1>6. Serving(ds, [worker EXCEPT ![w] = a]) BY <1>1, <1>2, <1>3, <1>5, OthersServe DEF Inv
  <1>7. Serving(chunks, worker)' BY <1>4, <1>6 DEF ds
  <1>8. Thieving(chunks, thief)' BY DEF Thieving, Unlocked
  <1>9. RunInv' /\ LeftInv' BY WorkerFacts, KeepRunOK DEF LeftInv
  <1>10. ManagerInv' BY DEF Inv, ManagerInv
  <1> QED BY <1>7, <1>8, <1>9, <1>10 DEF Inv

(* mark_completed of the worker's own chunk. *)
LEMMA CompletedInv ==
  ASSUME Inv, NEW w \in Workers, Live(worker[w]), MarkCompleted(worker[w].chunk),
         Step(w, NoAttempt("idle")), Unlocked, KeepRun, UNCHANGED <<thief, left>>
  PROVE  Inv'
  <1> DEFINE i == worker[w].chunk
  <1>1. i \in 1 .. Len(chunks) /\ chunks[i].status = "Assigned" /\ Table(chunks) /\ Len(chunks) \in Nat
    BY WorkerFacts DEF Live, Serves, Own
  <1>2. chunks' = [chunks EXCEPT ![i].status = "Completed"] /\ completed' = completed + 1
    BY <1>1 DEF MarkCompleted
  <1>3. UNCHANGED <<nextFresh, retryQueue, fatal>> BY DEF MarkCompleted
  <1>4. "Completed" \in Status BY DEF Status
  <1> HIDE DEF i
  <1>5. /\ Table(chunks') /\ Len(chunks') = Len(chunks)
        /\ \A j \in 1 .. Len(chunks) : j # i => chunks'[j] = chunks[j]
    <2>1. \A cs : Table(cs) => \A k \in 1 .. Len(cs), st \in Status :
            LET ds == [cs EXCEPT ![k].status = st]
            IN  Table(ds) /\ Len(ds) = Len(cs) /\ \A j \in 1 .. Len(cs) : j # k => ds[j] = cs[j]
      BY StatusKeepsTable
    <2> DEFINE ds == [chunks EXCEPT ![i].status = "Completed"]
    <2>2. Table(ds) /\ Len(ds) = Len(chunks) /\ \A j \in 1 .. Len(chunks) : j # i => ds[j] = chunks[j]
      BY <1>1, <1>4, <2>1
    <2>3. chunks' = ds BY <1>2
    <2> HIDE DEF ds
    <2> QED BY <2>2, <2>3
  <1>6. Queued(chunks', retryQueue')
    <2>1. \A j \in 1 .. Len(chunks) : chunks[j].status = "Failed" => chunks'[j].status = "Failed" BY <1>1, <1>5
    <2>2. Len(chunks') \in Nat /\ Len(chunks) <= Len(chunks') BY <1>1, <1>5
    <2>3. Queued(chunks', retryQueue) BY <1>1, <2>1, <2>2, QueueKept DEF Inv
    <2> QED BY <2>3, <1>3
  <1>7. completed' \in Nat /\ fatal' \in BOOLEAN BY <1>2, <1>3 DEF Inv, ManagerInv
  <1>8. i = worker[w].chunk /\ Len(chunks) <= Len(chunks') BY <1>1, <1>5 DEF i
  <1> QED BY <1>3, <1>5, <1>6, <1>7, <1>8, Settled

(* mark_failed of the worker's own chunk, with bytes left to write. *)
LEMMA RetryInv ==
  ASSUME Inv, NEW w \in Workers, NEW counts \in BOOLEAN, Live(worker[w]), Own(w).cur <= Own(w).end,
         Retry(worker[w].chunk, counts), Step(w, NoAttempt("idle")), Unlocked, KeepRun,
         UNCHANGED <<thief, left>>
  PROVE  Inv'
  <1> DEFINE i == worker[w].chunk
             n == IF chunks[i].cur > chunks[i].start THEN 0
                  ELSE IF counts THEN chunks[i].retries + 1 ELSE chunks[i].retries
             es == Carve(chunks, i)
             c == [es[i] EXCEPT !.status = "Failed", !.retries = n]
  <1>1. /\ i \in 1 .. Len(chunks) /\ chunks[i].status = "Assigned" /\ Table(chunks) /\ Len(chunks) \in Nat
        /\ chunks[i] \in Chunk /\ chunks[i].cur <= chunks[i].end
    BY WorkerFacts DEF Live, Serves, Own
  <1>2. n \in Nat BY <1>1, ChunkFields
  <1>3. /\ chunks' = [es EXCEPT ![i] = c] /\ completed' = completed + Carved(i)
        /\ retryQueue' = Append(retryQueue, i) /\ fatal' \in BOOLEAN /\ UNCHANGED nextFresh
    BY DEF Retry
  <1> HIDE DEF i
  <1>4. /\ Table(es) /\ Len(es) \in Len(chunks) .. Len(chunks) + 1
        /\ es[i] = [chunks[i] EXCEPT !.start = chunks[i].cur]
        /\ \A j \in 1 .. Len(chunks) : j # i => es[j] = chunks[j]
    BY <1>1, CarveKeepsTable
  <1> HIDE DEF n, es
  <1>5. i \in 1 .. Len(es) /\ es[i] \in Chunk /\ Len(es) \in Nat /\ Len(chunks) <= Len(es)
    BY <1>1, <1>4, TableFacts
  <1>6. /\ c \in Chunk /\ c.status = "Failed" /\ c.start = es[i].start /\ c.end = es[i].end /\ c.cur = es[i].cur
    BY <1>2, <1>5 DEF Chunk, Status
  <1>7. c.start <= c.cur BY <1>4, <1>5, <1>6, TableFacts DEF Table
  <1> HIDE DEF c
  <1>8. /\ Table(chunks') /\ Len(chunks') = Len(es)
        /\ \A j \in 1 .. Len(es) : chunks'[j] = IF j = i THEN c ELSE es[j]
    <2>1. \A cs : Table(cs) => \A k \in 1 .. Len(cs), d \in Chunk :
            d.start = cs[k].start /\ d.end = cs[k].end /\ d.start <= d.cur =>
              LET ds == [cs EXCEPT ![k] = d]
              IN  Table(ds) /\ Len(ds) = Len(cs) /\ \A j \in 1 .. Len(cs) : ds[j] = IF j = k THEN d ELSE cs[j]
      BY SetKeepsTable
    <2> DEFINE ds == [es EXCEPT ![i] = c]
    <2>2. Table(ds) /\ Len(ds) = Len(es) /\ \A j \in 1 .. Len(es) : ds[j] = IF j = i THEN c ELSE es[j]
      <3>1. Table(es) /\ i \in 1 .. Len(es) BY <1>4, <1>5
      <3>2. c \in Chunk /\ c.start = es[i].start /\ c.end = es[i].end /\ c.start <= c.cur BY <1>6, <1>7
      <3> QED BY <2>1, <3>1, <3>2
    <2>3. chunks' = ds BY <1>3
    <2> HIDE DEF ds
    <2> QED BY <2>2, <2>3
  <1>9. \A j \in 1 .. Len(chunks) : j # i => chunks'[j] = chunks[j] BY <1>1, <1>4, <1>5, <1>8
  <1>10. Queued(chunks', retryQueue')
    <2> DEFINE m == Len(retryQueue)
               r == Append(retryQueue, i)
    <2>1. retryQueue \in Seq(Nat) /\ m \in Nat /\ i \in Nat BY <1>1, LenProperties DEF Inv, Queued
    <2>2. r \in Seq(Nat) /\ Len(r) = m + 1 /\ r[m + 1] = i /\ \A k \in 1 .. m : r[k] = retryQueue[k]
      BY <2>1, AppendProperties
    <2>3. retryQueue' = r BY <1>3
    <2> HIDE DEF r
    <2>4. ASSUME NEW k \in 1 .. m
          PROVE  r[k] # i /\ r[k] \in 1 .. Len(chunks') /\ chunks'[r[k]].status = "Failed"
      <3>1. r[k] = retryQueue[k] /\ r[k] \in 1 .. Len(chunks) /\ chunks[r[k]].status = "Failed"
        BY <2>2 DEF Inv, Queued
      <3>2. r[k] # i BY <3>1, <1>1
      <3>3. r[k] \in 1 .. Len(chunks') BY <3>1, <1>1, <1>5, <1>8
      <3> QED BY <3>1, <3>2, <3>3, <1>9
    <2>5. i \in 1 .. Len(chunks') /\ chunks'[i].status = "Failed" BY <1>5, <1>6, <1>8
    <2>6. ASSUME NEW k \in 1 .. m + 1
          PROVE  r[k] \in 1 .. Len(chunks') /\ chunks'[r[k]].status = "Failed"
      <3>1. k \in 1 .. m \/ k = m + 1 BY <2>1
      <3> QED BY <3>1, <2>2, <2>4, <2>5
    <2>7. ASSUME NEW k \in 1 .. m + 1, NEW l \in 1 .. m + 1, k # l
          PROVE  r[k] # r[l]
      <3>1. (k \in 1 .. m \/ k = m + 1) /\ (l \in 1 .. m \/ l = m + 1) BY <2>1
      <3>2. CASE k \in 1 .. m /\ l \in 1 .. m
        <4>1. retryQueue[k] # retryQueue[l] BY <3>2, <2>7 DEF Inv, Queued
        <4> QED BY <4>1, <3>2, <2>2
      <3>3. CASE k = m + 1 /\ l \in 1 .. m BY <3>3, <2>2, <2>4
      <3>4. CASE l = m + 1 /\ k \in 1 .. m BY <3>4, <2>2, <2>4
      <3> QED BY <3>1, <3>2, <3>3, <3>4, <2>7
    <2> QED BY <2>2, <2>3, <2>6, <2>7 DEF Queued
  <1>11. completed' \in Nat
    <2>1. Carved(i) \in Nat BY DEF Carved
    <2>2. completed \in Nat BY DEF Inv, ManagerInv
    <2> QED BY <2>1, <2>2, <1>3
  <1>12. i = worker[w].chunk /\ Len(chunks) <= Len(chunks') BY <1>5, <1>8 DEF i
  <1> QED BY <1>3, <1>8, <1>9, <1>10, <1>11, <1>12, Settled

LEMMA SettleInv == ASSUME Inv, NEW w \in Workers, Settle(w) PROVE Inv'
  <1> DEFINE a == worker[w]
  <1>1. a \in Attempt /\ Sound(a, Len(chunks)) /\ a.pc = "settle" /\ a.res # "none" /\ a.chunk # 0 /\ fatal \in BOOLEAN
    BY WorkerFacts DEF Sound, Settle
  <1>2. a.res \in {"ok", "transient", "refused", "fatal"} /\ a.revoked \in BOOLEAN
    BY <1>1, AttemptFields DEF Result
  <1>3. Step(w, NoAttempt("idle")) /\ Unlocked /\ KeepRun /\ UNCHANGED <<thief, left>> BY DEF Settle
  <1>4. CASE a.res = "fatal"
    <2>1. Abort BY <1>4 DEF Settle
    <2>2. UNCHANGED <<chunks, completed, nextFresh, retryQueue, thief>> /\ fatal' \in BOOLEAN BY <2>1, <1>3 DEF Abort
    <2> QED BY <1>3, <2>2, EndsQuietly
  <1>5. CASE a.res # "fatal" /\ a.revoked
    <2>1. UNCHANGED manager BY <1>5 DEF Settle
    <2>2. UNCHANGED <<chunks, completed, nextFresh, retryQueue, thief>> /\ fatal' \in BOOLEAN
      BY <2>1, <1>1, <1>3 DEF manager
    <2> QED BY <1>3, <2>2, EndsQuietly
  <1>6. CASE a.res = "ok" /\ ~a.revoked
    <2>1. MarkCompleted(a.chunk) BY <1>6 DEF Settle
    <2> QED BY <1>1, <1>3, <1>6, <2>1, CompletedInv DEF Live
  <1>7. CASE a.res \in {"transient", "refused"} /\ ~a.revoked
    <2>1. MarkFailed(a.chunk, a.res = "transient") BY <1>7 DEF Settle
    <2>2. Live(a) /\ Own(w) \in Chunk /\ Own(w).status = "Assigned"
      BY <1>1, <1>7, WorkerFacts DEF Live, Serves
    <2>3. CASE Own(w).cur > Own(w).end
      <3>1. MarkCompleted(a.chunk) BY <2>1, <2>3 DEF MarkFailed, Own
      <3> QED BY <1>3, <2>2, <3>1, CompletedInv
    <2>4. CASE ~(Own(w).cur > Own(w).end)
      <3>1. Retry(a.chunk, a.res = "transient") BY <2>1, <2>2, <2>4 DEF MarkFailed, Own
      <3>2. Own(w).cur <= Own(w).end BY <2>2, <2>4, ChunkFields
      <3>3. (a.res = "transient") \in BOOLEAN OBVIOUS
      <3> QED BY <1>3, <2>2, <3>1, <3>2, <3>3, RetryInv
    <2> QED BY <2>3, <2>4
  <1> QED BY <1>2, <1>4, <1>5, <1>6, <1>7

(* Revoking an attempt at chunk i, ... *)
Revoked(a, i) == IF a.chunk = i THEN [a EXCEPT !.revoked = TRUE] ELSE a

(* ... of every worker there, leaves no one live at i, and the others as they are. *)
LEMMA RevokedServe ==
  ASSUME NEW cs, NEW ds, NEW wk, NEW i \in Nat \ {0}, Len(cs) \in Nat, Len(ds) \in Nat, Len(cs) <= Len(ds),
         Serving(cs, wk), \A j \in 1 .. Len(cs) : j # i => ds[j] = cs[j]
  PROVE  LET new == [v \in Workers |-> Revoked(wk[v], i)]
         IN  Serving(ds, new) /\ \A v \in Workers : Live(new[v]) => new[v].chunk # i
  <1> DEFINE new == [v \in Workers |-> Revoked(wk[v], i)]
  <1>1. ASSUME NEW v \in Workers
        PROVE  /\ new[v] \in Attempt /\ Sound(new[v], Len(ds))
               /\ Live(new[v]) => new[v] = wk[v] /\ wk[v].chunk # i
    <2>1. wk[v] \in Attempt /\ Sound(wk[v], Len(cs)) BY DEF Serving, Sound
    <2>2. new[v] = Revoked(wk[v], i) OBVIOUS
    <2> HIDE DEF new
    <2>3. CASE wk[v].chunk = i
      <3> DEFINE b == wk[v]
                 a == [b EXCEPT !.revoked = TRUE]
      <3>1. /\ a \in Attempt /\ a.revoked = TRUE /\ a.pc = b.pc /\ a.chunk = b.chunk /\ a.pos = b.pos
            /\ a.buf = b.buf /\ a.ver = b.ver /\ a.res = b.res
        BY <2>1 DEF Attempt
      <3>2. new[v] = a BY <2>2, <2>3 DEF Revoked
      <3> HIDE DEF a
      <3>3. Sound(a, Len(ds)) BY <2>1, <3>1 DEF Sound
      <3> QED BY <3>1, <3>2, <3>3 DEF Live
    <2>4. CASE wk[v].chunk # i
      <3>1. new[v] = wk[v] BY <2>2, <2>4 DEF Revoked
      <3>2. Sound(wk[v], Len(ds)) BY <2>1 DEF Sound
      <3> QED BY <2>1, <2>4, <3>1, <3>2
    <2> QED BY <2>3, <2>4
  <1>2. new \in [Workers -> Attempt]
    <2>1. \A v \in Workers : Revoked(wk[v], i) \in Attempt BY <1>1
    <2> QED BY <2>1
  <1> HIDE DEF new
  <1>3. ASSUME NEW v \in Workers, Live(new[v]) PROVE Serves(new[v], ds[new[v].chunk])
    <2>1. new[v] = wk[v] /\ wk[v].chunk # i BY <1>1, <1>3
    <2>2. Live(wk[v]) /\ Sound(wk[v], Len(cs)) /\ Serves(wk[v], cs[wk[v].chunk]) BY <2>1, <1>3 DEF Serving
    <2>3. wk[v].chunk \in 1 .. Len(cs) BY <2>2 DEF Live, Sound
    <2> QED BY <2>1, <2>2, <2>3
  <1>4. ASSUME NEW v \in Workers, NEW w \in Workers, v # w, Live(new[v]), Live(new[w])
        PROVE  new[v].chunk # new[w].chunk
    <2>1. new[v] = wk[v] /\ new[w] = wk[w] BY <1>1, <1>4
    <2> QED BY <2>1, <1>4 DEF Serving
  <1> QED BY <1>1, <1>2, <1>3, <1>4 DEF Serving, new

LEMMA TakeOverInv == ASSUME Inv, NEW w \in Workers, DoTakeOver(w) PROVE Inv'
  <1> DEFINE i == thief.victim
             gone == chunks[i].cur > chunks[i].end
             quit == [v \in Workers |-> Revoked(worker[v], i)]
  <1>1. /\ Table(chunks) /\ Len(chunks) \in Nat /\ i \in 1 .. Len(chunks) /\ chunks[i].status = "Assigned"
        /\ chunks[i] \in Chunk /\ i \in Nat \ {0}
    <2>1. Table(chunks) /\ Len(chunks) \in Nat BY WorkerFacts
    <2>2. i \in 1 .. Len(chunks) /\ chunks[i].status = "Assigned" BY DEF Inv, Thieving, DoTakeOver, Holding
    <2> QED BY <2>1, <2>2, TableFacts
  <1>2. TakeOver(i) /\ KeepRun /\ UNCHANGED left BY DEF DoTakeOver
  <1>3. UNCHANGED <<nextFresh, retryQueue, fatal>> BY <1>2 DEF TakeOver
  <1>4. worker' = [v \in Workers |-> IF v = w /\ ~gone THEN AttemptAt(i) ELSE Revoked(worker[v], i)]
    BY DEF DoTakeOver, Revoked
  <1>5. thief' = IF gone THEN Looking(w, "search") ELSE None BY DEF DoTakeOver
  <1>6. RunInv' /\ LeftInv' BY <1>2, WorkerFacts, KeepRunOK DEF LeftInv
  <1>7. Thieving(chunks', thief')
    <2>1. thief' \in {Looking(w, "search"), None} BY <1>5
    <2> QED BY <2>1, LookingOK
  <1> HIDE DEF i
  <1>8. ASSUME Table(chunks'), Len(chunks) <= Len(chunks'), completed' \in Nat,
               \A j \in 1 .. Len(chunks) : j # i => chunks'[j] = chunks[j], Serving(chunks', worker')
        PROVE  Inv'
    <2>1. \A j \in 1 .. Len(chunks) : chunks[j].status = "Failed" => chunks'[j].status = "Failed" BY <1>1, <1>8
    <2>2. Len(chunks') \in Nat BY <1>8, TableFacts
    <2>3. Queued(chunks', retryQueue) BY <1>1, <1>8, <2>1, <2>2, QueueKept DEF Inv
    <2>4. Queued(chunks, retryQueue)' BY <2>3, <1>3
    <2>5. ManagerInv' BY <1>3, <1>8 DEF Inv, ManagerInv
    <2> QED BY <1>6, <1>7, <1>8, <2>4, <2>5 DEF Inv
  <1>9. CASE gone
    <2> DEFINE ds == [chunks EXCEPT ![i].status = "Completed"]
    <2>1. chunks' = ds /\ completed' = completed + 1 BY <1>2, <1>9 DEF TakeOver
    <2>2. Table(ds) /\ Len(ds) = Len(chunks) /\ \A j \in 1 .. Len(chunks) : j # i => ds[j] = chunks[j]
      <3>1. \A cs : Table(cs) => \A k \in 1 .. Len(cs), st \in Status :
              LET es == [cs EXCEPT ![k].status = st]
              IN  Table(es) /\ Len(es) = Len(cs) /\ \A j \in 1 .. Len(cs) : j # k => es[j] = cs[j]
        BY StatusKeepsTable
      <3>2. "Completed" \in Status BY DEF Status
      <3> QED BY <1>1, <3>1, <3>2
    <2> HIDE DEF ds
    <2>3. Len(chunks) <= Len(ds) /\ Len(ds) \in Nat BY <1>1, <2>2
    <2>4. Serving(ds, quit)
      <3>1. \A j \in 1 .. Len(chunks) : j # i => ds[j] = chunks[j] BY <2>2
      <3>2. Serving(chunks, worker) BY DEF Inv
      <3>3. Serving(ds, quit) /\ \A v \in Workers : Live(quit[v]) => quit[v].chunk # i
        BY <1>1, <2>3, <3>1, <3>2, RevokedServe
      <3> QED BY <3>3
    <2>5. worker' = quit BY <1>4, <1>9
    <2>6. completed' \in Nat BY <2>1 DEF Inv, ManagerInv
    <2> QED BY <1>8, <2>1, <2>2, <2>3, <2>4, <2>5, <2>6
  <1>10. CASE ~gone
    <2> DEFINE es == Carve(chunks, i)
               ds == Assign(es, i)
               a == AttemptAt(i)
    <2>1. chunks' = ds /\ completed' = completed + Carved(i) BY <1>2, <1>10 DEF TakeOver
    <2>2. chunks[i].cur <= chunks[i].end BY <1>1, <1>10, ChunkFields
    <2>3. /\ Table(es) /\ Len(es) \in Len(chunks) .. Len(chunks) + 1
          /\ \A j \in 1 .. Len(chunks) : j # i => es[j] = chunks[j]
      BY <1>1, <2>2, CarveKeepsTable
    <2> HIDE DEF es
    <2>4. i \in 1 .. Len(es) /\ Len(es) \in Nat /\ Len(chunks) <= Len(es) BY <1>1, <2>3
    <2>5. /\ Table(ds) /\ Len(ds) = Len(es) /\ ds[i].status = "Assigned"
          /\ \A j \in 1 .. Len(es) : j # i => ds[j] = es[j]
      BY <2>3, <2>4, AssignKeepsTable
    <2>6. Sound(a, Len(ds)) /\ Live(a) /\ a.chunk = i /\ a.pc = "asking"
      BY <2>4, <2>5, NewAttemptIsSound
    <2> HIDE DEF ds, a
    <2>7. \A j \in 1 .. Len(chunks) : j # i => ds[j] = chunks[j] BY <1>1, <2>3, <2>4, <2>5
    <2>8. Len(ds) \in Nat /\ Len(chunks) <= Len(ds) BY <2>4, <2>5
    <2>9. Serving(ds, quit) /\ \A v \in Workers : Live(quit[v]) => quit[v].chunk # i
      BY <1>1, <2>7, <2>8, RevokedServe DEF Inv
    <2>10. worker' = [quit EXCEPT ![w] = a] BY <1>4, <1>10 DEF a
    <2> HIDE DEF quit
    <2>11. Serves(a, ds[a.chunk]) BY <2>5, <2>6 DEF Serves, InFlight
    <2>12. Serving(ds, [quit EXCEPT ![w] = a])
      <3>1. \A j \in 1 .. Len(ds) : j # i => ds[j] = ds[j] OBVIOUS
      <3>2. Len(ds) <= Len(ds) BY <2>8
      <3> QED BY <2>6, <2>8, <2>9, <2>11, <3>1, <3>2, OthersServe
    <2>13. completed' \in Nat
      <3>1. Carved(i) \in Nat BY DEF Carved
      <3>2. completed \in Nat BY DEF Inv, ManagerInv
      <3> QED BY <2>1, <3>1, <3>2
    <2> QED BY <1>8, <2>1, <2>5, <2>7, <2>8, <2>10, <2>12, <2>13
  <1> QED BY <1>9, <1>10

LEMMA StealInv == ASSUME Inv, NEW w \in Workers, DoSteal(w) PROVE Inv'
  <1> DEFINE i == thief.victim
             m == thief.end - thief.take
             ds == Append([chunks EXCEPT ![i].end = m], NewChunk(m + 1, chunks[i].end, "Assigned"))
             a == NewAttempt(Len(chunks) + 1)
  <1>1. /\ thief \in Thief /\ i \in 1 .. Len(chunks) /\ chunks[i].status = "Assigned"
        /\ thief.end = chunks[i].end /\ 1 <= thief.take /\ chunks[i].start <= m
    <2>1. thief # None /\ thief.op = "steal" BY DEF DoSteal, Holding
    <2> QED BY <2>1 DEF Inv, Thieving
  <1>2. /\ Table(chunks) /\ Len(chunks) \in Nat /\ chunks[i] \in Chunk
    BY <1>1, WorkerFacts, TableFacts
  <1>3. thief.end \in Int /\ thief.take \in Int
    BY <1>1, ManagerAssumption DEF Thief
  <1>4. m \in Int /\ m < chunks[i].end /\ thief.end + 1 - thief.take = m + 1 BY <1>1, <1>3
  <1>5. chunks' = ds /\ UNCHANGED <<completed, nextFresh, retryQueue, fatal, left>> /\ KeepRun
    <2>1. Steal(i, thief.end, thief.take) /\ KeepRun /\ UNCHANGED left BY DEF DoSteal
    <2> QED BY <2>1, <1>1, <1>4 DEF Steal
  <1>6. worker' = [worker EXCEPT ![w] = a] /\ thief' = None BY DEF DoSteal, Step
  <1> HIDE DEF i, m
  <1>7. "Assigned" \in Status BY DEF Status
  <1>8. /\ Table(ds) /\ Len(ds) = Len(chunks) + 1 /\ ds[i] = [chunks[i] EXCEPT !.end = m]
        /\ \A j \in 1 .. Len(chunks) : j # i => ds[j] = chunks[j]
        /\ ds[Len(chunks) + 1] = NewChunk(m + 1, chunks[i].end, "Assigned")
    <2>1. chunks[i].start <= m BY <1>1 DEF m
    <2> QED BY <1>1, <1>2, <1>4, <1>7, <2>1, SplitKeepsTable
  <1> HIDE DEF ds
  <1>9. /\ Len(ds) \in Nat /\ Len(chunks) <= Len(ds) /\ Len(chunks) + 1 \in 1 .. Len(ds)
        /\ Len(chunks) + 1 \notin 1 .. Len(chunks)
    BY <1>2, <1>8
  <1>10. Sound(a, Len(ds)) /\ Live(a) /\ a.chunk = Len(chunks) + 1 /\ a.pc = "asking"
    BY <1>9, NewAttemptIsSound
  <1> HIDE DEF a
  <1>11. /\ ds[i].status = chunks[i].status /\ ds[i].cur = chunks[i].cur
         /\ ds[Len(chunks) + 1].status = "Assigned"
    BY <1>2, <1>8 DEF Chunk, NewChunk
  <1>12. \A j \in 1 .. Len(chunks) : ds[j].status = chunks[j].status /\ ds[j].cur = chunks[j].cur
    BY <1>8, <1>11
  <1>13. Queued(ds, retryQueue)
    <2>1. \A j \in 1 .. Len(chunks) : chunks[j].status = "Failed" => ds[j].status = "Failed" BY <1>12
    <2> QED BY <1>2, <1>9, <2>1, QueueKept DEF Inv
  <1>14. Serving(ds, [worker EXCEPT ![w] = a])
    <2>1. Serving(ds, worker)
      <3>1. \A v \in Workers : Sound(worker[v], Len(ds)) BY <1>2, <1>9 DEF Inv, Serving, Sound
      <3>2. ASSUME NEW v \in Workers, Live(worker[v]) PROVE Serves(worker[v], ds[worker[v].chunk])
        <4>1. worker[v].chunk \in 1 .. Len(chunks) /\ Serves(worker[v], chunks[worker[v].chunk])
          BY <3>2 DEF Inv, Serving, Sound, Live
        <4> QED BY <4>1, <1>12 DEF Serves
      <3> QED BY <3>1, <3>2 DEF Inv, Serving
    <2>2. Serves(a, ds[a.chunk]) BY <1>10, <1>11 DEF Serves, InFlight
    <2>3. \A v \in Workers : Live(worker[v]) => worker[v].chunk # a.chunk
      <3>1. \A v \in Workers : Live(worker[v]) => worker[v].chunk \in 1 .. Len(chunks) BY DEF Inv, Serving, Sound, Live
      <3> QED BY <3>1, <1>9, <1>10
    <2>4. Len(ds) <= Len(ds) BY <1>9
    <2>5. \A v \in Workers \ {w} : Live(worker[v]) =>
            ds[worker[v].chunk] = ds[worker[v].chunk] /\ (Live(a) => worker[v].chunk # a.chunk)
      BY <2>3
    <2> QED BY <1>9, <1>10, <2>1, <2>2, <2>4, <2>5, OneServes
  <1>15. Thieving(ds, thief') BY <1>6 DEF Thieving
  <1>16. RunInv' /\ LeftInv' BY <1>5, WorkerFacts, KeepRunOK DEF LeftInv
  <1>17. ManagerInv' BY <1>5, <1>8 DEF Inv, ManagerInv
  <1> QED BY <1>5, <1>6, <1>13, <1>14, <1>15, <1>16, <1>17 DEF Inv

LEMMA WorkerStepInv == ASSUME Inv, NEW w \in Workers, WorkerStep(w) PROVE Inv'
  BY TakeRetryInv, TakeFreshInv, LookInv, PickSilentInv, TakeOverInv, PickStealInv, StealInv, AnswerInv,
     ReceiveInv, BodyInv, WriteInv, AdvanceInv, SettleInv, ReturnInv DEF WorkerStep

-----------------------------------------------------------------------------
(* The steps of the engine and of the world. *)

(* A step that leaves the table and the workers alone. *)
LEMMA WorkKept ==
  ASSUME Inv, UNCHANGED <<manager, attempts>>, RunInv', LeftInv'
  PROVE  Inv'
  BY DEF Inv, ManagerInv, Serving, Queued, Thieving, manager, attempts

LEMMA PlanInv ==
  ASSUME Inv, PlanResume \/ PlanFresh \/ PlanDiscard \/ DiscardState \/ RecordStart \/ OpenPart
  PROVE  Inv'
  <1>1. UNCHANGED <<manager, attempts, remote, left>>
    BY DEF PlanResume, PlanFresh, PlanDiscard, DiscardState, RecordStart, OpenPart, KeepWork
  <1>2. RunInv /\ LeftInv BY DEF Inv
  <1>3. engine' \in Engine
    BY DEF PlanResume, PlanFresh, PlanDiscard, DiscardState, RecordStart, OpenPart, Go, Engine
  <1>4. UNCHANGED <<outcome, cancelled, snap, final>>
    BY DEF PlanResume, PlanFresh, PlanDiscard, DiscardState, RecordStart, OpenPart, KeepLoop, files
  <1>5. CASE PlanResume \/ PlanFresh \/ PlanDiscard
    <2>1. ref' = remote BY <1>5 DEF PlanResume, PlanFresh, PlanDiscard
    <2>2. ref' \in 1 .. Versions /\ ref' \in 0 .. Versions BY <2>1, <1>2, DownloadAssumption DEF RunInv
    <2>3. resume' \in SUBSET Byte BY <1>2, <1>5 DEF PlanResume, PlanFresh, PlanDiscard, RunInv, State
    <2>4. Empty \in Contents BY DEF Empty, Contents
    <2>5. disk' \in Contents /\ durable' \in Contents /\ part' \in BOOLEAN /\ saved' \in State \cup {None}
      BY <1>2, <1>5, <2>4 DEF PlanResume, PlanFresh, PlanDiscard, RunInv, files
    <2>6. RunInv' BY <1>1, <1>2, <1>3, <1>4, <2>2, <2>3, <2>5 DEF RunInv
    <2> QED BY <1>1, <1>2, <2>6, WorkKept DEF LeftInv
  <1>6. CASE DiscardState \/ RecordStart \/ OpenPart
    <2>1. UNCHANGED <<ref, resume, disk, durable>> BY <1>6 DEF DiscardState, RecordStart, OpenPart, KeepLoop
    <2>2. ref \in 1 .. Versions BY <1>2, <1>6 DEF DiscardState, RecordStart, OpenPart, Go, RunInv
    <2>3. [version |-> ref, held |-> resume] \in State BY <1>2, <2>2 DEF State, RunInv
    <2>4. part' \in BOOLEAN /\ saved' \in State \cup {None}
      BY <1>2, <1>6, <2>3 DEF DiscardState, RecordStart, OpenPart, RunInv
    <2>5. RunInv' BY <1>1, <1>2, <1>3, <1>4, <2>1, <2>2, <2>4 DEF RunInv
    <2> QED BY <1>1, <1>2, <2>5, WorkKept DEF LeftInv
  <1> QED BY <1>5, <1>6

LEMMA LoopInv ==
  ASSUME Inv,
         \/ AllCompleted \/ HasFatalFailure \/ SeesCancel \/ Join
         \/ PersistRanges \/ PersistSync \/ PersistSave \/ PersistFails \/ Cancel
  PROVE  Inv'
  <1>1. UNCHANGED <<manager, attempts, remote, ref, resume, disk, part, final>>
    BY DEF AllCompleted, HasFatalFailure, SeesCancel, Leave, Join, PersistRanges, PersistSync, PersistSave,
           PersistFails, Cancel, KeepWork, KeepLoop, files
  <1>2. RunInv /\ LeftInv BY DEF Inv
  <1>3. engine' \in Engine /\ engine # "off"
    BY <1>2 DEF AllCompleted, HasFatalFailure, SeesCancel, Leave, Join, PersistRanges, PersistSync, PersistSave,
           PersistFails, Cancel, Go, AfterPersist, Engine, RunInv
  <1>4. outcome' \in {"none", "ok", "failed", "cancelled"} /\ cancelled' \in BOOLEAN
    BY <1>2 DEF AllCompleted, HasFatalFailure, SeesCancel, Leave, Join, PersistRanges, PersistSync, PersistSave,
           PersistFails, Cancel, KeepLoop, RunInv
  <1>5. CompletedRanges \in SUBSET Byte
    <2>1. \A i \in DOMAIN chunks : chunks[i] \in Chunk BY TableFacts DEF Inv, ManagerInv
    <2>2. \A i \in DOMAIN chunks : Written(chunks[i]) \subseteq Byte
      <3>1. ASSUME NEW c \in Chunk, NEW b \in Span(c) PROVE b \in Byte
        BY ChunkFields, ManagerAssumption DEF Span, Byte
      <3> QED BY <2>1, <3>1 DEF Written
    <2> QED BY <2>2 DEF CompletedRanges
  <1>6. snap' \in SUBSET Byte
    BY <1>2, <1>5 DEF AllCompleted, HasFatalFailure, SeesCancel, Leave, Join, PersistRanges, PersistSync,
           PersistSave, PersistFails, Cancel, KeepLoop, RunInv
  <1>7. saved' \in State \cup {None} /\ durable' \in Contents
    <2>1. [version |-> ref, held |-> snap] \in State BY <1>2, <1>3 DEF RunInv, State
    <2> QED BY <1>2, <2>1 DEF AllCompleted, HasFatalFailure, SeesCancel, Leave, Join, PersistRanges, PersistSync,
           PersistSave, PersistFails, Cancel, RunInv, files
  <1>8. RunInv' BY <1>1, <1>2, <1>3, <1>4, <1>6, <1>7 DEF RunInv
  <1>9. LeftInv'
    <2>1. "persist" \in World /\ "diskError" \in World /\ "cancel" \in World BY DEF World
    <2>2. UNCHANGED left \/ \E k \in World : Spend(k)
      BY <2>1 DEF AllCompleted, HasFatalFailure, SeesCancel, Leave, Join, PersistRanges, PersistSync, PersistSave,
             PersistFails, Cancel, KeepWork
    <2> QED BY <1>2, <2>2, SpendOK DEF LeftInv
  <1> QED BY <1>1, <1>8, <1>9, WorkKept

LEMMA FinalizeInv ==
  ASSUME Inv, StartFails \/ FinalizeFails \/ Verified \/ VerifiedWrong \/ Rename \/ RejectPart \/ RemoveState
  PROVE  Inv'
  <1>1. UNCHANGED <<manager, attempts, remote, outcome, cancelled, ref, resume, snap>>
    BY DEF StartFails, FinalizeFails, Verified, VerifiedWrong, Rename, RejectPart, RemoveState, KeepWork, KeepLoop
  <1>2. RunInv /\ LeftInv BY DEF Inv
  <1>3. engine' \in Engine /\ engine # "off"
    BY DEF StartFails, FinalizeFails, Verified, VerifiedWrong, Rename, RejectPart, RemoveState, Go, Engine
  <1>4. disk' \in Contents
    <2>1. Empty \in Contents BY DEF Empty, Contents
    <2>2. \A n : [b \in Byte |-> IF b \in (0 .. n - 1) \ resume THEN ref ELSE disk[b]] \in Contents
      BY <1>2, <1>3 DEF RunInv, Contents
    <2>3. CASE StartFails BY <1>2, <2>2, <2>3 DEF StartFails, RunInv
    <2>4. CASE FinalizeFails \/ Verified \/ VerifiedWrong \/ Rename \/ RejectPart \/ RemoveState
      BY <1>2, <2>1, <2>4 DEF FinalizeFails, Verified, VerifiedWrong, Rename, RejectPart, RemoveState,
                              RemovePart, RunInv, files
    <2> QED BY <2>3, <2>4
  <1>5. durable' \in Contents /\ part' \in BOOLEAN /\ saved' \in State \cup {None} /\ final' \in Contents \cup {None}
    <2>1. Empty \in Contents BY DEF Empty, Contents
    <2> QED BY <1>2, <2>1 DEF StartFails, FinalizeFails, Verified, VerifiedWrong, Rename, RejectPart, RemoveState,
                              RemovePart, KeepSaves, RunInv, files
  <1>6. RunInv' BY <1>1, <1>2, <1>3, <1>4, <1>5 DEF RunInv
  <1>7. LeftInv'
    <2>1. "diskError" \in World /\ "mismatch" \in World BY DEF World
    <2>2. UNCHANGED left \/ \E k \in World : Spend(k)
      BY <2>1 DEF StartFails, FinalizeFails, Verified, VerifiedWrong, Rename, RejectPart, RemoveState, KeepWork
    <2> QED BY <1>2, <2>2, SpendOK DEF LeftInv
  <1> QED BY <1>1, <1>6, <1>7, WorkKept

LEMMA StartInv == ASSUME Inv, Start PROVE Inv'
  <1> DEFINE have == resume \cup 0 .. Prefetch - 1
             idle == [w \in Workers |-> NoAttempt("idle")]
             seed(i) == [NewAttempt(i) EXCEPT !.pc = "receive", !.pos = Prefetch, !.ver = ref]
  <1>1. PICK cs \in Layouts(have) :
          /\ NewManager(cs)
          /\ \/ chunks' = cs /\ worker' = idle
             \/ \E w \in Workers, i \in DOMAIN cs, e \in Byte :
                  /\ cs[i].status = "Unassigned" /\ cs[i].start = Prefetch /\ Prefetch <= e
                  /\ chunks' = AssignAt(cs, i, e)
                  /\ worker' = [idle EXCEPT ![w] = seed(i)]
    BY DEF Start
  <1> HIDE DEF have
  <1>2. /\ Table(cs) /\ Len(cs) \in Nat /\ DOMAIN cs = 1 .. Len(cs)
        /\ \A i \in 1 .. Len(cs) : cs[i].cur = cs[i].start
    BY LayoutIsTable, TableFacts
  <1>3. completed' \in Nat /\ nextFresh' \in Nat \ {0} /\ fatal' \in BOOLEAN /\ retryQueue' = <<>>
    <2> DEFINE done == {i \in DOMAIN cs : cs[i].status = "Completed"}
    <2>1. IsFiniteSet(done)
      <3>1. done \subseteq 1 .. Len(cs) BY <1>2
      <3>2. IsFiniteSet(1 .. Len(cs)) BY <1>2, FS_Interval
      <3> QED BY <3>1, <3>2, FS_Subset
    <2>2. completed' \in Nat BY <1>1, <2>1, FS_CardinalityType DEF NewManager
    <2>3. nextFresh' \in Nat \ {0}
      <3>1. nextFresh' = 1 BY <1>1 DEF NewManager
      <3> QED BY <3>1
    <2> QED BY <1>1, <2>2, <2>3 DEF NewManager
  <1>4. RunInv'
    <2>1. RunInv /\ ref \in 1 .. Versions BY DEF Inv, RunInv, Start, Go
    <2>2. engine' \in Engine BY DEF Start, Go, Engine
    <2>3. disk' \in Contents BY <2>1 DEF Start, RunInv, Contents
    <2>4. UNCHANGED <<outcome, cancelled, ref, resume, snap, durable, part, saved, final, remote>>
      BY DEF Start, KeepLoop
    <2> QED BY <2>1, <2>2, <2>3, <2>4 DEF RunInv
  <1>5. LeftInv' BY DEF Start, LeftInv, Inv
  <1>6. Queued(chunks, retryQueue)' BY <1>3, NoQueue
  <1>7. Thieving(chunks, thief)' BY DEF Start, Thieving
  <1>8. Table(chunks') /\ Serving(chunks', worker')
    <2>1. CASE chunks' = cs /\ worker' = idle BY <1>2, <2>1, NoWork
    <2>2. ASSUME NEW w \in Workers, NEW i \in 1 .. Len(cs), NEW e \in Byte,
                 cs[i].start = Prefetch, Prefetch <= e,
                 chunks' = AssignAt(cs, i, e), worker' = [idle EXCEPT ![w] = seed(i)]
          PROVE  Table(chunks') /\ Serving(chunks', worker')
      <3> DEFINE ds == AssignAt(cs, i, e)
                 a == seed(i)
      <3>1. Table(ds) /\ Len(ds) \in Len(cs) .. Len(cs) + 1 /\ ds[i].status = "Assigned" /\ ds[i].cur = Prefetch
        BY <1>2, <2>2, AssignAtKeepsTable
      <3> HIDE DEF ds
      <3>2. Len(ds) \in Nat /\ Len(ds) <= Len(ds) /\ i \in 1 .. Len(ds) BY <1>2, <3>1
      <3>3. /\ a \in Attempt /\ Sound(a, Len(ds)) /\ a.chunk = i /\ a.pos = Prefetch
        <4>1. /\ NewAttempt(i) \in Attempt /\ NewAttempt(i).chunk = i /\ NewAttempt(i).buf = 0
          BY <3>2, NewAttemptIsSound
        <4>2. /\ ref \in 1 .. Versions /\ ref \in 0 .. Versions /\ Prefetch \in 0 .. Size
              /\ Prefetch \in Int /\ Prefetch <= Size
          <5>1. ref \in 1 .. Versions BY DEF Inv, RunInv, Start, Go
          <5> QED BY <5>1, ManagerAssumption, DownloadAssumption
        <4>3. /\ a \in Attempt /\ a.pc = "receive" /\ a.chunk = i /\ a.pos = Prefetch /\ a.buf = 0 /\ a.ver = ref
          BY <4>1, <4>2 DEF Attempt, PC
        <4> HIDE DEF a
        <4>4. Sound(a, Len(ds)) BY <3>2, <4>2, <4>3 DEF Sound, InFlight
        <4> QED BY <4>3, <4>4
      <3> HIDE DEF a
      <3>4. Serving(ds, idle) /\ \A v \in Workers : ~Live(idle[v])
        BY <3>2, NoWork, NoAttemptIsSound
      <3>5. Serves(a, ds[a.chunk]) BY <3>1, <3>3 DEF Serves
      <3>6. \A v \in Workers \ {w} : Live(idle[v]) =>
              ds[idle[v].chunk] = ds[idle[v].chunk] /\ (Live(a) => idle[v].chunk # a.chunk)
        BY <3>4
      <3> HIDE DEF idle
      <3>7. Serving(ds, [idle EXCEPT ![w] = a]) BY <3>2, <3>3, <3>4, <3>5, <3>6, OneServes
      <3>8. chunks' = ds /\ worker' = [idle EXCEPT ![w] = a] BY <2>2 DEF ds, a, idle
      <3> QED BY <3>1, <3>7, <3>8
    <2> QED BY <1>1, <1>2, <2>1, <2>2
  <1>9. ManagerInv' BY <1>3, <1>8 DEF ManagerInv
  <1>10. Serving(chunks, worker)' BY <1>8
  <1> QED BY <1>4, <1>5, <1>6, <1>7, <1>9, <1>10 DEF Inv

LEMMA WorldInv ==
  ASSUME Inv, ChangeRemote \/ RunAgain \/ ProcessDies \/ MachineFails
  PROVE  Inv'
  <1>1. RunInv /\ LeftInv BY DEF Inv
  <1>2. LeftInv'
    <2>1. "change" \in World /\ "run" \in World BY DEF World
    <2>2. Spend("change") \/ Spend("run") BY DEF ChangeRemote, RunAgain, ProcessDies, MachineFails, Afresh
    <2> QED BY <1>1, <2>1, <2>2, SpendOK
  <1>3. CASE ChangeRemote
    <2>1. RunInv' BY <1>1, <1>3 DEF ChangeRemote, RunInv, run, files
    <2> QED BY <1>2, <1>3, <2>1, WorkKept DEF ChangeRemote
  <1>4. CASE RunAgain \/ ProcessDies \/ MachineFails
    <2>1. Afresh BY <1>4 DEF RunAgain, ProcessDies, MachineFails
    <2>2. disk' \in Contents /\ durable' \in Contents
      <3>1. \A lost \in SUBSET Byte : [b \in Byte |-> IF b \in lost THEN durable[b] ELSE disk[b]] \in Contents
        BY <1>1 DEF RunInv, Contents
      <3> QED BY <1>1, <1>4, <3>1 DEF RunAgain, ProcessDies, MachineFails, RunInv
    <2>3. RunInv'
      <3>1. engine' = "off" /\ engine' \in Engine BY <2>1 DEF Afresh, Engine
      <3>2. ref' = 0 /\ ref' \in 0 .. Versions BY <2>1, DownloadAssumption DEF Afresh
      <3> QED BY <1>1, <2>1, <2>2, <3>1, <3>2 DEF Afresh, RunInv
    <2>4. chunks' = <<>> /\ retryQueue' = <<>> /\ completed' = 0 /\ nextFresh' = 1 /\ fatal' = FALSE
      BY <2>1 DEF Afresh, DropManager
    <2>5. ManagerInv'
      <3>1. completed' \in Nat /\ nextFresh' \in Nat \ {0} BY <2>4
      <3>2. fatal' \in BOOLEAN /\ Table(chunks') BY <2>4, EmptyTable
      <3> QED BY <3>1, <3>2 DEF ManagerInv
    <2>6. Serving(chunks', worker') BY <2>1, <2>4, EmptyTable, NoWork DEF Afresh
    <2>7. Queued(chunks', retryQueue') BY <2>4, NoQueue
    <2>8. Thieving(chunks, thief)' BY <2>1 DEF Afresh, Thieving
    <2>9. Serving(chunks, worker)' /\ Queued(chunks, retryQueue)' BY <2>6, <2>7
    <2> QED BY <1>2, <2>3, <2>5, <2>8, <2>9 DEF Inv
  <1> QED BY <1>3, <1>4

(* Every step of a download keeps what Inv says. *)
LEMMA NextInv == Inv /\ [Next]_vars => Inv'
  <1> SUFFICES ASSUME Inv, [Next]_vars PROVE Inv' OBVIOUS
  <1>1. ASSUME NEW w \in Workers, WorkerStep(w) PROVE Inv' BY <1>1, WorkerStepInv
  <1>2. CASE EngineStep BY <1>2, PlanInv, StartInv, LoopInv, FinalizeInv DEF EngineStep
  <1>3. CASE Cancel BY <1>3, LoopInv
  <1>4. CASE ChangeRemote \/ RunAgain \/ ProcessDies \/ MachineFails BY <1>4, WorldInv
  <1>5. CASE UNCHANGED vars
    <2>1. UNCHANGED <<manager, attempts, run, files, remote, left>> BY <1>5 DEF vars
    <2>2. RunInv' /\ LeftInv' BY <2>1 DEF Inv, RunInv, LeftInv, run, files
    <2> QED BY <2>1, <2>2, WorkKept
  <1>6. CASE Finished BY <1>5, <1>6 DEF Finished
  <1> QED BY <1>1, <1>2, <1>3, <1>4, <1>5, <1>6 DEF Next

-----------------------------------------------------------------------------
(* Every variable keeps its type: no step of a worker, the engine or the world leaves an offset *)
(* outside the file, a queue with something else than chunks, or a worker without a state.      *)
THEOREM TypeCorrect == Spec => []TypeOK
  <1>1. Init => Inv BY InitInv
  <1>2. Inv /\ [Next]_vars => Inv' BY NextInv
  <1>3. Inv => TypeOK BY InvImplies
  <1> QED BY <1>1, <1>2, <1>3, PTL DEF Spec

(* However chunks are split, taken over, failed, retried and resumed (steal_work,              *)
(* take_over_silent, mark_failed, with_resumed_ranges), and whenever the process or the machine *)
(* fails in between, the chunks of a download tile the file: no byte is fetched by two chunks,  *)
(* and none is forgotten.                                                                       *)
THEOREM AlwaysTiles == Spec => []Tiles
  <1>1. Init => Inv BY InitInv
  <1>2. Inv /\ [Next]_vars => Inv' BY NextInv
  <1>3. Inv => Tiles BY InvImplies
  <1> QED BY <1>1, <1>2, <1>3, PTL DEF Spec

-----------------------------------------------------------------------------
(***************************************************************************)
(* What the chunk manager counts and queues, and who owns its chunks, in   *)
(* every download: whatever workers split, take over, fail and retry.      *)
(*                                                                         *)
(* The counter follows the table because each operation completes as many  *)
(* chunks as it adds to it; that none is completed twice is because a      *)
(* worker settles only a chunk that is still assigned, which Inv has.      *)
(* That an assigned chunk has an owner needs more than the table: that no  *)
(* worker that goes to fetch a chunk has one already, so idle workers have *)
(* none and a thief is idle until it is done.                              *)
(***************************************************************************)

(* n chunks are completed, and get_next_work can reach all that wait for a worker. *)
Counting(cs, n, first, q) ==
  /\ n = Cardinality(Done(cs))
  /\ \A i \in 1 .. Len(cs) : cs[i].status = "Unassigned" => first <= i
  /\ \A i \in 1 .. Len(cs) : cs[i].status = "Failed" => \E k \in 1 .. Len(q) : q[k] = i

Attended(cs, wk) ==
  \A i \in 1 .. Len(cs) : cs[i].status = "Assigned" => \E w \in Workers : Live(wk[w]) /\ wk[w].chunk = i

Idling(wk, t) ==
  /\ \A w \in Workers : wk[w].pc \in {"idle", "stopped"} => wk[w].chunk = 0
  /\ t # None => wk[t.by].pc = "idle"

Books ==
  /\ Counting(chunks, completed, nextFresh, retryQueue)
  /\ ~Stop /\ ~fatal => Attended(chunks, worker)
  /\ Idling(worker, thief)
  /\ engine = "stopping" => outcome # "none"

-----------------------------------------------------------------------------
(* Lemmas on the parts of Books. *)

(* A chunk that stays assigned keeps its owner, and a new one gets the attempt that begins. *)
LEMMA AttendedKept ==
  ASSUME NEW cs, NEW ds, NEW wk, NEW w \in Workers, NEW a, wk \in [Workers -> Attempt], Attended(cs, wk),
         \A i \in 1 .. Len(ds) : ds[i].status = "Assigned" =>
           \/ Live(a) /\ a.chunk = i
           \/ i \in 1 .. Len(cs) /\ cs[i].status = "Assigned" /\ ~(Live(wk[w]) /\ wk[w].chunk = i)
  PROVE  Attended(ds, [wk EXCEPT ![w] = a])
  <1> DEFINE new == [wk EXCEPT ![w] = a]
  <1>1. new[w] = a /\ \A v \in Workers \ {w} : new[v] = wk[v] OBVIOUS
  <1> HIDE DEF new
  <1>2. ASSUME NEW i \in 1 .. Len(ds), ds[i].status = "Assigned"
        PROVE  \E v \in Workers : Live(new[v]) /\ new[v].chunk = i
    <2>1. CASE Live(a) /\ a.chunk = i BY <1>1, <2>1
    <2>2. CASE i \in 1 .. Len(cs) /\ cs[i].status = "Assigned" /\ ~(Live(wk[w]) /\ wk[w].chunk = i)
      <3>1. PICK v \in Workers : Live(wk[v]) /\ wk[v].chunk = i BY <2>2 DEF Attended
      <3> QED BY <1>1, <2>2, <3>1
    <2> QED BY <1>2, <2>1, <2>2
  <1> QED BY <1>2 DEF Attended, new

LEMMA IdlingKept ==
  ASSUME NEW wk, NEW t, NEW u, NEW w \in Workers, NEW a, wk \in [Workers -> Attempt], Idling(wk, t),
         a.pc \in {"idle", "stopped"} => a.chunk = 0,
         u # None => t # None /\ u.by = t.by /\ (u.by = w => a.pc = "idle"), u # None => u.by \in Workers
  PROVE  Idling([wk EXCEPT ![w] = a], u)
  <1> DEFINE new == [wk EXCEPT ![w] = a]
  <1>1. new[w] = a /\ \A v \in Workers \ {w} : new[v] = wk[v] OBVIOUS
  <1> HIDE DEF new
  <1> QED BY <1>1 DEF Idling, new

(* The counts only mind the statuses. *)
LEMMA CountingKept ==
  ASSUME NEW cs, NEW ds, NEW n, NEW first, NEW q, Counting(cs, n, first, q), Len(ds) = Len(cs),
         \A i \in 1 .. Len(cs) : ds[i].status = cs[i].status
  PROVE  Counting(ds, n, first, q)
  <1>1. Done(ds) = Done(cs) BY DEF Done
  <1> QED BY <1>1 DEF Counting

LEMMA BooksFacts ==
  ASSUME Inv, Books
  PROVE  /\ worker \in [Workers -> Attempt] /\ completed \in Nat /\ nextFresh \in Nat
         /\ Table(chunks) /\ Len(chunks) \in Nat
         /\ thief # None => thief \in Thief /\ thief.by \in Workers /\ worker[thief.by].chunk = 0
         /\ \A w \in Workers : worker[w].pc \in {"idle", "stopped"} => ~Live(worker[w])
  <1>1. worker \in [Workers -> Attempt] /\ completed \in Nat /\ nextFresh \in Nat /\ Table(chunks)
    BY DEF Inv, Serving, ManagerInv
  <1>2. Len(chunks) \in Nat BY <1>1, TableFacts
  <1>3. thief # None => thief \in Thief /\ thief.by \in Workers BY DEF Inv, Thieving, Thief
  <1> QED BY <1>1, <1>2, <1>3 DEF Books, Idling, Live

-----------------------------------------------------------------------------
(* The steps of a worker. *)

(* A worker whose attempt goes on or ends, and a table that keeps its statuses. *)
LEMMA BooksGoOn ==
  ASSUME Inv, Books, NEW w \in Workers, NEW a, Step(w, a),
         UNCHANGED <<completed, nextFresh, retryQueue, thief, run>>, fatal => fatal',
         Len(chunks') = Len(chunks), \A i \in 1 .. Len(chunks) : chunks'[i].status = chunks[i].status,
         a.pc \in {"idle", "stopped"} => a.chunk = 0,
         Live(worker[w]) => (Live(a) /\ a.chunk = worker[w].chunk) \/ Stop \/ fatal',
         thief # None /\ thief.by = w => a.pc = "idle"
  PROVE  Books'
  <1>1. Counting(chunks', completed, nextFresh, retryQueue) BY CountingKept DEF Books
  <1>2. Counting(chunks, completed, nextFresh, retryQueue)' BY <1>1
  <1>3. (Stop' <=> Stop) /\ engine' = engine /\ outcome' = outcome BY DEF Stop, Running, run
  <1>4. ~Stop /\ ~fatal' => Attended(chunks', [worker EXCEPT ![w] = a])
    <2> SUFFICES ASSUME ~Stop, ~fatal' PROVE Attended(chunks', [worker EXCEPT ![w] = a]) OBVIOUS
    <2>1. Attended(chunks, worker) BY DEF Books
    <2>2. ASSUME NEW i \in 1 .. Len(chunks'), chunks'[i].status = "Assigned"
          PROVE  \/ Live(a) /\ a.chunk = i
                 \/ i \in 1 .. Len(chunks) /\ chunks[i].status = "Assigned" /\ ~(Live(worker[w]) /\ worker[w].chunk = i)
      BY <2>2
    <2> QED BY <2>1, <2>2, AttendedKept, BooksFacts
  <1>5. Idling([worker EXCEPT ![w] = a], thief) BY BooksFacts, IdlingKept DEF Books
  <1> QED BY <1>2, <1>3, <1>4, <1>5 DEF Books, Step

GoingOn(w) ==
  \/ Answer(w) \/ AnswerFails(w) \/ AnswerRefused(w) \/ AnswerChanged(w)
  \/ Receive(w) \/ BodyEnds(w) \/ FlushDue(w) \/ BodyBreaks(w) \/ Interrupted(w)
  \/ WriteOut(w) \/ WriteFails(w) \/ Advance(w)

(* Between its first and its last step, an attempt stays at its chunk. *)
LEMMA AttemptGoesOn ==
  ASSUME Inv, NEW w \in Workers, GoingOn(w)
  PROVE  /\ worker[w].pc \notin {"idle", "stopped"}
         /\ \E a : /\ Step(w, a) /\ a.pc \notin {"idle", "stopped"}
                   /\ a.chunk = worker[w].chunk /\ a.revoked = worker[w].revoked /\ a.whole = worker[w].whole
  <1> DEFINE b == worker[w]
  <1>1. b \in Attempt BY WorkerFacts
  <1>2. ASSUME NEW pc \in PC, NEW pos, NEW ver, NEW buf, NEW res
        PROVE  LET a == [b EXCEPT !.pc = pc, !.pos = pos, !.ver = ver, !.buf = buf, !.res = res]
               IN  a.pc = pc /\ a.chunk = b.chunk /\ a.revoked = b.revoked /\ a.whole = b.whole
    BY <1>1 DEF Attempt
  <1>3. CASE Answer(w)
    <2> DEFINE a == [b EXCEPT !.pc = "receive", !.pos = Own(w).cur, !.ver = remote]
    <2>1. a.pc = "receive" /\ a.chunk = b.chunk /\ a.revoked = b.revoked /\ a.whole = b.whole BY <1>1 DEF Attempt
    <2>2. Step(w, a) /\ b.pc = "asking" BY <1>3 DEF Answer
    <2> QED BY <2>1, <2>2
  <1>4. ASSUME NEW res, Ends(w, res), b.pc = "asking"
        PROVE  \E a : /\ Step(w, a) /\ a.pc \notin {"idle", "stopped"}
                      /\ a.chunk = b.chunk /\ a.revoked = b.revoked /\ a.whole = b.whole
    <2> DEFINE a == [b EXCEPT !.pc = "settle", !.res = res]
    <2>1. a.pc = "settle" /\ a.chunk = b.chunk /\ a.revoked = b.revoked /\ a.whole = b.whole BY <1>1 DEF Attempt
    <2>2. Step(w, a) BY <1>4 DEF Ends
    <2> QED BY <2>1, <2>2
  <1>5. ASSUME NEW res, Flush(w, res), b.pc = "receive"
        PROVE  \E a : /\ Step(w, a) /\ a.pc \notin {"idle", "stopped"}
                      /\ a.chunk = b.chunk /\ a.revoked = b.revoked /\ a.whole = b.whole
    <2>1. \E keep, v : \E a \in {[b EXCEPT !.pc = "writing", !.buf = keep, !.res = res], [b EXCEPT !.buf = 0],
                                 [b EXCEPT !.pc = "settle", !.buf = 0, !.res = v]} : Step(w, a)
      BY <1>5 DEF Flush
    <2>2. PICK keep, v : \E a \in {[b EXCEPT !.pc = "writing", !.buf = keep, !.res = res], [b EXCEPT !.buf = 0],
                                   [b EXCEPT !.pc = "settle", !.buf = 0, !.res = v]} : Step(w, a)
      BY <2>1
    <2>3. \A a \in {[b EXCEPT !.pc = "writing", !.buf = keep, !.res = res], [b EXCEPT !.buf = 0],
                    [b EXCEPT !.pc = "settle", !.buf = 0, !.res = v]} :
            /\ a.pc \notin {"idle", "stopped"}
            /\ a.chunk = b.chunk /\ a.revoked = b.revoked /\ a.whole = b.whole
      BY <1>1, <1>5 DEF Attempt
    <2> QED BY <2>2, <2>3
  <1>6. CASE Receive(w)
    <2> DEFINE a == [b EXCEPT !.buf = @ + 1]
    <2>1. a.pc = b.pc /\ a.chunk = b.chunk /\ a.revoked = b.revoked /\ a.whole = b.whole BY <1>1 DEF Attempt
    <2>2. Step(w, a) /\ b.pc = "receive" BY <1>6 DEF Receive
    <2> QED BY <2>1, <2>2
  <1>7. CASE WriteOut(w)
    <2> DEFINE a == [b EXCEPT !.pc = "written"]
    <2>1. a.pc = "written" /\ a.chunk = b.chunk /\ a.revoked = b.revoked /\ a.whole = b.whole BY <1>1 DEF Attempt
    <2>2. Step(w, a) /\ b.pc = "writing" BY <1>7 DEF WriteOut
    <2> QED BY <2>1, <2>2
  <1>8. CASE WriteFails(w)
    <2> DEFINE a == [b EXCEPT !.pc = "settle", !.buf = 0, !.res = "fatal"]
    <2>1. a.pc = "settle" /\ a.chunk = b.chunk /\ a.revoked = b.revoked /\ a.whole = b.whole BY <1>1 DEF Attempt
    <2>2. Step(w, a) /\ b.pc = "writing" BY <1>8 DEF WriteFails
    <2> QED BY <2>1, <2>2
  <1>9. CASE Advance(w)
    <2>1. PICK pos, res : \E pc \in {"settle", "receive"} :
            Step(w, [b EXCEPT !.pc = pc, !.pos = pos, !.buf = 0, !.res = res])
      <3> DEFINE pos == b.pos + b.buf
                 over == b.res # "none" \/ (~b.revoked /\ pos > Own(w).end)
                 end == IF b.res = "none" THEN "ok" ELSE b.res
                 res == IF over THEN Verdict(w, end, pos) ELSE "none"
      <3>1. Step(w, [b EXCEPT !.pc = IF over THEN "settle" ELSE "receive", !.pos = pos, !.buf = 0, !.res = res])
        BY <1>9 DEF Advance
      <3> QED BY <3>1
    <2>4. PICK pc \in {"settle", "receive"} : Step(w, [b EXCEPT !.pc = pc, !.pos = pos, !.buf = 0, !.res = res])
      BY <2>1
    <2> DEFINE a == [b EXCEPT !.pc = pc, !.pos = pos, !.buf = 0, !.res = res]
    <2>2. a.pc = pc /\ a.chunk = b.chunk /\ a.revoked = b.revoked /\ a.whole = b.whole BY <1>1 DEF Attempt
    <2>3. b.pc = "written" BY <1>9 DEF Advance
    <2> QED BY <2>2, <2>3, <2>4
  <1>10. CASE AnswerFails(w) \/ AnswerRefused(w) \/ AnswerChanged(w)
    BY <1>4, <1>10 DEF AnswerFails, AnswerRefused, AnswerChanged
  <1>11. CASE BodyEnds(w) \/ FlushDue(w) \/ BodyBreaks(w) \/ Interrupted(w)
    BY <1>4, <1>5, <1>11 DEF BodyEnds, FlushDue, BodyBreaks, Interrupted
  <1> QED BY <1>3, <1>6, <1>7, <1>8, <1>9, <1>10, <1>11 DEF GoingOn

(* ... whatever it tells the table of its offset. *)
LEMMA GoingOnTable ==
  ASSUME Inv, NEW w \in Workers, GoingOn(w)
  PROVE  /\ UNCHANGED <<completed, nextFresh, retryQueue, fatal, thief, run>>
         /\ Len(chunks') = Len(chunks)
         /\ \A i \in 1 .. Len(chunks) : /\ chunks'[i].status = chunks[i].status
                                        /\ chunks'[i].start = chunks[i].start /\ chunks'[i].end = chunks[i].end
         /\ \A i \in 1 .. Len(chunks) : i # worker[w].chunk \/ ~Advance(w) => chunks'[i].cur = chunks[i].cur
  <1>1. UNCHANGED <<completed, nextFresh, retryQueue, fatal, thief, run>>
    BY DEF GoingOn, Answer, AnswerFails, AnswerRefused, AnswerChanged, Receive, BodyEnds, FlushDue, BodyBreaks,
           Interrupted, WriteOut, WriteFails, Advance, Quiet, KeepRun, manager, run
  <1>2. Table(chunks) /\ chunks \in Seq(Chunk) BY WorkerFacts
  <1>3. CASE UNCHANGED chunks BY <1>1, <1>3
  <1>4. ASSUME NEW x, NEW i \in 1 .. Len(chunks),
               chunks' = [chunks EXCEPT ![i].got = x] \/ (Advance(w) /\ i = worker[w].chunk /\ chunks' = [chunks EXCEPT ![i].cur = x])
        PROVE  /\ Len(chunks') = Len(chunks)
               /\ \A j \in 1 .. Len(chunks) : /\ chunks'[j].status = chunks[j].status
                                              /\ chunks'[j].start = chunks[j].start /\ chunks'[j].end = chunks[j].end
               /\ \A j \in 1 .. Len(chunks) : j # worker[w].chunk \/ ~Advance(w) => chunks'[j].cur = chunks[j].cur
    <2>1. Len(chunks) \in Nat /\ DOMAIN chunks = 1 .. Len(chunks) BY <1>2, TableFacts
    <2>2. DOMAIN chunks' = 1 .. Len(chunks) BY <1>4, <2>1
    <2>3. chunks[i] \in Chunk BY <1>2, TableFacts
    <2>4. \A j \in 1 .. Len(chunks) : j # i => chunks'[j] = chunks[j] BY <1>4, <2>1
    <2>5. /\ chunks'[i].status = chunks[i].status /\ chunks'[i].start = chunks[i].start
          /\ chunks'[i].end = chunks[i].end
          /\ (i # worker[w].chunk \/ ~Advance(w)) => chunks'[i].cur = chunks[i].cur
      BY <1>4, <2>1, <2>3 DEF Chunk
    <2>6. Len(chunks') = Len(chunks)
      <3>1. Inv' BY WorkerStepInv DEF WorkerStep, GoingOn
      <3>2. chunks' \in Seq(Chunk) BY <3>1 DEF Inv, ManagerInv, Table
      <3>3. DOMAIN chunks' = 1 .. Len(chunks') /\ Len(chunks') \in Nat BY <3>2, LenProperties
      <3> QED BY <2>1, <2>2, <3>3
    <2> QED BY <2>4, <2>5, <2>6
  <1>5. CASE Receive(w)
    <2>1. worker[w].chunk \in 1 .. Len(chunks) BY <1>5, WorkerFacts DEF Receive, Sound
    <2> QED BY <1>1, <1>4, <1>5, <2>1 DEF Receive
  <1>6. CASE Advance(w)
    <2>1. worker[w].chunk \in 1 .. Len(chunks) BY <1>6, WorkerFacts DEF Advance, Sound
    <2> QED BY <1>1, <1>3, <1>4, <1>6, <2>1 DEF Advance
  <1>7. CASE ~Receive(w) /\ ~Advance(w)
    <2>1. UNCHANGED chunks
      BY <1>7 DEF GoingOn, Answer, AnswerFails, AnswerRefused, AnswerChanged, BodyEnds, FlushDue, BodyBreaks,
           Interrupted, WriteOut, WriteFails, Quiet, manager
    <2> QED BY <1>3, <2>1
  <1> QED BY <1>5, <1>6, <1>7

LEMMA GoingOnBooks == ASSUME Inv, Books, NEW w \in Workers, GoingOn(w) PROVE Books'
  <1>1. PICK a : /\ Step(w, a) /\ a.pc \notin {"idle", "stopped"}
                 /\ a.chunk = worker[w].chunk /\ a.revoked = worker[w].revoked
    BY AttemptGoesOn
  <1>2. worker[w].pc # "idle" BY AttemptGoesOn
  <1>3. thief # None /\ thief.by = w => a.pc = "idle" BY <1>2 DEF Books, Idling
  <1>4. Live(worker[w]) => Live(a) /\ a.chunk = worker[w].chunk BY <1>1 DEF Live
  <1> QED BY <1>1, <1>3, <1>4, GoingOnTable, BooksGoOn

(* A worker that goes idle or returns, without a word to the table. *)
LEMMA EndsBooks ==
  ASSUME Inv, Books, NEW w \in Workers, NEW pc \in {"idle", "stopped"}, Step(w, NoAttempt(pc)),
         UNCHANGED <<chunks, completed, nextFresh, retryQueue, thief, run>>, fatal => fatal',
         ~Live(worker[w]) \/ Stop \/ fatal', pc = "idle" \/ thief = None \/ thief.by # w
  PROVE  Books'
  <1>1. NoAttempt(pc).pc = pc /\ NoAttempt(pc).chunk = 0 BY DEF NoAttempt
  <1> QED BY <1>1, BooksGoOn

LEMMA ReturnBooks == ASSUME Inv, Books, NEW w \in Workers, Return(w) \/ NoMirrorLeft(w) PROVE Books'
  <1>1. CASE Return(w)
    <2>1. UNCHANGED <<chunks, completed, nextFresh, retryQueue, thief, fatal, run>>
      BY <1>1 DEF Return, Quiet, KeepRun, manager, run
    <2>2. thief = None \/ thief.by # w BY <1>1 DEF Return, Holding, Inv, Thieving, Thief
    <2> QED BY <1>1, <2>1, <2>2, EndsBooks DEF Return
  <1>2. CASE NoMirrorLeft(w)
    <2>1. UNCHANGED <<chunks, completed, nextFresh, retryQueue, thief, run>> /\ fatal'
      BY <1>2 DEF NoMirrorLeft, Abort, KeepRun, run
    <2> QED BY <1>2, <2>1, EndsBooks DEF NoMirrorLeft
  <1> QED BY <1>1, <1>2

(* A worker that has the lock goes on looking, or gives it back. *)
LEMMA LookBooks ==
  ASSUME Inv, Books, NEW w \in Workers,
         LookForVictim(w) \/ FindNothing(w) \/ PickSilent(w) \/ PickSteal(w)
  PROVE  Books'
  <1>1. UNCHANGED <<chunks, completed, retryQueue, fatal, worker, run>>
    BY DEF LookForVictim, FindNothing, PickSilent, PickSteal, KeepRun, manager, run
  <1>2. Counting(chunks, completed, nextFresh', retryQueue)
    <2>1. CASE LookForVictim(w)
      <3>1. FreshFrom(nextFresh) = {} /\ nextFresh' = Len(chunks) + 1 BY <2>1 DEF LookForVictim, NothingFresh
      <3>2. \A i \in 1 .. Len(chunks) : chunks[i].status # "Unassigned"
        <4>1. \A i \in 1 .. Len(chunks) : chunks[i].status = "Unassigned" => i \in FreshFrom(nextFresh)
          BY BooksFacts DEF Books, Counting, FreshFrom
        <4> QED BY <3>1, <4>1
      <3> QED BY <3>2 DEF Books, Counting
    <2>2. CASE FindNothing(w) \/ PickSilent(w) \/ PickSteal(w)
      BY <2>2 DEF FindNothing, PickSilent, PickSteal, manager, Books
    <2> QED BY <2>1, <2>2
  <1>3. Idling(worker, thief')
    <2>1. CASE LookForVictim(w)
      <3>1. thief'.by = w BY <2>1 DEF LookForVictim, Looking
      <3>2. worker[w].pc = "idle" BY <2>1 DEF LookForVictim
      <3> QED BY <3>1, <3>2 DEF Books, Idling
    <2>2. CASE FindNothing(w) BY <2>2 DEF FindNothing, Books, Idling
    <2>3. CASE PickSilent(w) \/ PickSteal(w)
      <3>1. thief # None /\ thief.by = w BY <2>3 DEF PickSilent, PickSteal, Holding
      <3>2. thief'.by = w BY <2>3 DEF PickSilent, PickSteal, Looking
      <3> QED BY <3>1, <3>2 DEF Books, Idling
    <2> QED BY <2>1, <2>2, <2>3
  <1>4. Counting(chunks, completed, nextFresh, retryQueue)' BY <1>1, <1>2
  <1>5. Idling(worker, thief)' BY <1>1, <1>3
  <1>6. (~Stop /\ ~fatal => Attended(chunks, worker))' /\ (engine = "stopping" => outcome # "none")'
    BY <1>1 DEF Books, Stop, Running, run
  <1> QED BY <1>4, <1>5, <1>6 DEF Books

(* One worker that has the lock, or takes it, changes the table: what the change must keep. *)
LEMMA LockedBooks ==
  ASSUME Inv, Books, NEW w \in Workers, NEW a, Step(w, a), UNCHANGED run, thief' = None, fatal => fatal',
         Counting(chunks', completed', nextFresh', retryQueue'),
         a.pc \in {"idle", "stopped"} => a.chunk = 0,
         \A i \in 1 .. Len(chunks') : chunks'[i].status = "Assigned" =>
           \/ Live(a) /\ a.chunk = i
           \/ i \in 1 .. Len(chunks) /\ chunks[i].status = "Assigned" /\ ~(Live(worker[w]) /\ worker[w].chunk = i)
  PROVE  Books'
  <1>1. Attended(chunks, worker) => Attended(chunks', [worker EXCEPT ![w] = a]) BY BooksFacts, AttendedKept
  <1>2. Idling([worker EXCEPT ![w] = a], None) BY BooksFacts, IdlingKept DEF Books
  <1>3. (Stop' <=> Stop) /\ engine' = engine /\ outcome' = outcome BY DEF Stop, Running, run
  <1>4. Counting(chunks, completed, nextFresh, retryQueue)' OBVIOUS
  <1>5. Idling(worker, thief)' BY <1>2 DEF Step
  <1>6. (~Stop /\ ~fatal => Attended(chunks, worker))' BY <1>1, <1>3 DEF Books, Step
  <1> QED BY <1>3, <1>4, <1>5, <1>6 DEF Books

LEMMA TakeRetryBooks == ASSUME Inv, Books, NEW w \in Workers, TakeRetry(w) PROVE Books'
  <1>1. retryQueue \in Seq(Nat) /\ DOMAIN retryQueue = 1 .. Len(retryQueue) /\ Len(retryQueue) \in Nat
    BY LenProperties DEF Inv, Queued
  <1>2. PICK k \in 1 .. Len(retryQueue) : GetRetry(k) /\ Step(w, AttemptAt(retryQueue[k]))
    BY <1>1 DEF TakeRetry
  <1> DEFINE i == retryQueue[k]
             r == SubSeq(retryQueue, 1, k - 1) \o SubSeq(retryQueue, k + 1, Len(retryQueue))
             ds == Assign(chunks, i)
             a == AttemptAt(i)
  <1>3. i \in 1 .. Len(chunks) /\ chunks[i].status = "Failed" BY DEF Inv, Queued
  <1>4. chunks' = ds /\ retryQueue' = r /\ UNCHANGED <<completed, nextFresh, fatal>> BY <1>2 DEF GetRetry
  <1>5. Table(chunks) /\ Len(chunks) \in Nat BY BooksFacts
  <1>6. /\ Len(ds) = Len(chunks) /\ ds[i].status = "Assigned"
        /\ \A j \in 1 .. Len(chunks) : j # i => ds[j] = chunks[j]
    BY <1>3, <1>5, AssignKeepsTable
  <1>7. Done(ds) = Done(chunks) BY <1>3, <1>5, AssignCovers
  <1>8. Live(a) /\ a.chunk = i /\ a.pc = "asking" BY <1>3, <1>5, NewAttemptIsSound
  <1>9. \A j \in 1 .. Len(retryQueue) : j # k => \E l \in 1 .. Len(r) : r[l] = retryQueue[j]
    <2>1. Len(r) = Len(retryQueue) - 1 /\ \A j \in 1 .. Len(r) : r[j] = IF j < k THEN retryQueue[j] ELSE retryQueue[j + 1]
      BY <1>1, Removed
    <2> HIDE DEF r
    <2> SUFFICES ASSUME NEW j \in 1 .. Len(retryQueue), j # k PROVE \E l \in 1 .. Len(r) : r[l] = retryQueue[j]
      OBVIOUS
    <2>2. CASE j < k
      <3>1. j \in 1 .. Len(r) BY <1>1, <2>1, <2>2
      <3> QED BY <2>1, <2>2, <3>1
    <2>3. CASE ~(j < k)
      <3>1. j - 1 \in 1 .. Len(r) /\ ~(j - 1 < k) /\ (j - 1) + 1 = j BY <1>1, <2>1, <2>3
      <3> QED BY <2>1, <3>1
    <2> QED BY <2>2, <2>3
  <1> HIDE DEF r, ds, a
  <1>10. Counting(ds, completed, nextFresh, r)
    <2>1. completed = Cardinality(Done(ds)) BY <1>7 DEF Books, Counting
    <2>2. \A j \in 1 .. Len(ds) : ds[j].status = "Unassigned" => nextFresh <= j BY <1>6 DEF Books, Counting
    <2>3. ASSUME NEW j \in 1 .. Len(ds), ds[j].status = "Failed" PROVE \E l \in 1 .. Len(r) : r[l] = j
      <3>1. j # i /\ chunks[j].status = "Failed" /\ j \in 1 .. Len(chunks) BY <1>6, <2>3
      <3>2. PICK l \in 1 .. Len(retryQueue) : retryQueue[l] = j BY <3>1 DEF Books, Counting
      <3> QED BY <1>9, <3>1, <3>2
    <2> QED BY <2>1, <2>2, <2>3 DEF Counting
  <1>11. UNCHANGED run /\ thief' = None /\ worker[w].pc = "idle" /\ Step(w, a)
    BY <1>2 DEF TakeRetry, KeepRun, Unlocked, a
  <1>12. ~Live(worker[w]) BY <1>11, BooksFacts
  <1>13. \A j \in 1 .. Len(ds) : ds[j].status = "Assigned" =>
           \/ Live(a) /\ a.chunk = j
           \/ j \in 1 .. Len(chunks) /\ chunks[j].status = "Assigned" /\ ~(Live(worker[w]) /\ worker[w].chunk = j)
    BY <1>6, <1>8, <1>12
  <1> QED BY <1>4, <1>8, <1>10, <1>11, <1>13, LockedBooks

LEMMA TakeFreshBooks == ASSUME Inv, Books, NEW w \in Workers, TakeFresh(w) PROVE Books'
  <1>1. Table(chunks) /\ Len(chunks) \in Nat /\ DOMAIN chunks = 1 .. Len(chunks) /\ nextFresh \in Nat
    BY BooksFacts, TableFacts
  <1>2. PICK i \in 1 .. Len(chunks) : GetFresh(i) /\ Step(w, AttemptAt(i)) BY <1>1 DEF TakeFresh
  <1> DEFINE ds == Assign(chunks, i)
             a == AttemptAt(i)
  <1>3. /\ chunks' = ds /\ nextFresh' = i + 1 /\ UNCHANGED <<completed, retryQueue, fatal>>
        /\ chunks[i].status = "Unassigned" /\ \A j \in FreshFrom(nextFresh) : i <= j
    BY <1>2 DEF GetFresh, FreshFrom
  <1>4. /\ Len(ds) = Len(chunks) /\ ds[i].status = "Assigned"
        /\ \A j \in 1 .. Len(chunks) : j # i => ds[j] = chunks[j]
    BY <1>1, AssignKeepsTable
  <1>5. Done(ds) = Done(chunks) BY <1>1, <1>3, AssignCovers
  <1>6. Live(a) /\ a.chunk = i /\ a.pc = "asking" BY <1>1, NewAttemptIsSound
  <1> HIDE DEF ds, a
  <1>7. Counting(ds, completed, i + 1, retryQueue)
    <2>1. ASSUME NEW j \in 1 .. Len(ds), ds[j].status = "Unassigned" PROVE i + 1 <= j
      <3>1. j # i /\ j \in 1 .. Len(chunks) /\ chunks[j].status = "Unassigned" BY <1>4, <2>1
      <3>2. j \in FreshFrom(nextFresh) BY <1>1, <3>1 DEF Books, Counting, FreshFrom
      <3> QED BY <1>1, <1>3, <3>1, <3>2
    <2>2. \A j \in 1 .. Len(ds) : ds[j].status = "Failed" => \E k \in 1 .. Len(retryQueue) : retryQueue[k] = j
      BY <1>4 DEF Books, Counting
    <2> QED BY <1>5, <2>1, <2>2 DEF Books, Counting
  <1>8. UNCHANGED run /\ thief' = None /\ worker[w].pc = "idle" /\ Step(w, a)
    BY <1>2 DEF TakeFresh, KeepRun, Unlocked, a
  <1>9. ~Live(worker[w]) BY <1>8, BooksFacts
  <1>10. \A j \in 1 .. Len(ds) : ds[j].status = "Assigned" =>
           \/ Live(a) /\ a.chunk = j
           \/ j \in 1 .. Len(chunks) /\ chunks[j].status = "Assigned" /\ ~(Live(worker[w]) /\ worker[w].chunk = j)
    BY <1>4, <1>6, <1>9
  <1> QED BY <1>3, <1>6, <1>7, <1>8, <1>10, LockedBooks

(* The counts after a step that changes chunk i alone, or adds completed chunks besides. *)
LEMMA CountingAt ==
  ASSUME NEW cs, NEW ds, NEW n, NEW first, NEW q, NEW i \in 1 .. Len(cs), Len(cs) \in Nat,
         Counting(cs, n, first, q), ChangesAt(cs, ds, i), ds[i].status \in {"Assigned", "Completed"},
         \A j \in 1 .. Len(ds) : j > Len(cs) => ds[j].status \in {"Assigned", "Completed"}
  PROVE  Counting(ds, Cardinality(Done(ds)), first, q)
  <1>1. ASSUME NEW j \in 1 .. Len(ds), ds[j].status \in {"Unassigned", "Failed"}
        PROVE  j \in 1 .. Len(cs) /\ cs[j].status = ds[j].status
    <2>1. j \in 1 .. Len(cs) /\ j # i BY <1>1 DEF ChangesAt
    <2> QED BY <2>1 DEF ChangesAt
  <1> QED BY <1>1 DEF Counting

LEMMA StealBooks == ASSUME Inv, Books, NEW w \in Workers, DoSteal(w) PROVE Books'
  <1> DEFINE i == thief.victim
             m == thief.end - thief.take
             n == Len(chunks) + 1
             ds == Append([chunks EXCEPT ![i].end = m], NewChunk(m + 1, chunks[i].end, "Assigned"))
             a == NewAttempt(n)
  <1>1. /\ thief \in Thief /\ i \in 1 .. Len(chunks) /\ chunks[i].status = "Assigned"
        /\ thief.end = chunks[i].end /\ 1 <= thief.take /\ chunks[i].start <= m /\ thief # None /\ thief.by = w
    <2>1. thief # None /\ thief.op = "steal" /\ thief.by = w BY DEF DoSteal, Holding
    <2> QED BY <2>1 DEF Inv, Thieving
  <1>2. Table(chunks) /\ Len(chunks) \in Nat /\ chunks[i] \in Chunk BY <1>1, WorkerFacts, TableFacts
  <1>3. thief.end \in Int /\ thief.take \in Int BY <1>1, ManagerAssumption DEF Thief
  <1>4. m \in Int /\ m < chunks[i].end /\ thief.end + 1 - thief.take = m + 1 BY <1>1, <1>3
  <1>5. chunks' = ds /\ UNCHANGED <<completed, nextFresh, retryQueue, fatal, run>>
    <2>1. Steal(i, thief.end, thief.take) /\ KeepRun BY DEF DoSteal
    <2> QED BY <2>1, <1>1, <1>4 DEF Steal, KeepRun
  <1>6. Step(w, a) /\ thief' = None BY DEF DoSteal
  <1> HIDE DEF i, m
  <1>7. "Assigned" \in Status /\ "Assigned" \in Status \ {"Completed"} BY DEF Status
  <1>8. /\ Len(ds) = n /\ ds[i] = [chunks[i] EXCEPT !.end = m]
        /\ \A j \in 1 .. Len(chunks) : j # i => ds[j] = chunks[j]
        /\ ds[n] = NewChunk(m + 1, chunks[i].end, "Assigned")
        /\ Done(ds) = Done(chunks)
    <2>1. chunks[i].start <= m BY <1>1 DEF m
    <2> QED BY <1>1, <1>2, <1>4, <1>7, <2>1, SplitKeepsTable, SplitCovers
  <1> HIDE DEF ds
  <1>9. ds[i].status = "Assigned" /\ ds[n].status = "Assigned" BY <1>1, <1>2, <1>8 DEF Chunk, NewChunk
  <1>10. Live(a) /\ a.chunk = n /\ a.pc = "asking"
    <2>1. n \in 1 .. n /\ n \in Nat BY <1>2
    <2> QED BY <2>1, NewAttemptIsSound
  <1> HIDE DEF a
  <1>11. Counting(ds, completed, nextFresh, retryQueue)
    <2>1. ChangesAt(chunks, ds, i) BY <1>2, <1>8 DEF ChangesAt
    <2>2. \A j \in 1 .. Len(ds) : j > Len(chunks) => j = n BY <1>2, <1>8
    <2>3. Counting(ds, Cardinality(Done(ds)), nextFresh, retryQueue)
      BY <1>1, <1>2, <1>9, <2>1, <2>2, CountingAt DEF Books
    <2> QED BY <1>8, <2>3 DEF Books, Counting
  <1>12. ~Live(worker[w]) BY <1>1, BooksFacts DEF Live
  <1>13. \A j \in 1 .. Len(ds) : ds[j].status = "Assigned" =>
           \/ Live(a) /\ a.chunk = j
           \/ j \in 1 .. Len(chunks) /\ chunks[j].status = "Assigned" /\ ~(Live(worker[w]) /\ worker[w].chunk = j)
    <2>1. \A j \in 1 .. Len(ds) : j = n \/ j \in 1 .. Len(chunks) BY <1>2, <1>8
    <2>2. \A j \in 1 .. Len(chunks) : ds[j].status = chunks[j].status BY <1>1, <1>8, <1>9
    <2> QED BY <1>10, <1>12, <2>1, <2>2
  <1> QED BY <1>5, <1>6, <1>10, <1>11, <1>13, LockedBooks

LEMMA TakeOverBooks == ASSUME Inv, Books, NEW w \in Workers, DoTakeOver(w) PROVE Books'
  <1> DEFINE i == thief.victim
             gone == chunks[i].cur > chunks[i].end
  <1>1. /\ Table(chunks) /\ Len(chunks) \in Nat /\ i \in 1 .. Len(chunks) /\ chunks[i].status = "Assigned"
        /\ chunks[i] \in Chunk /\ thief # None /\ thief.by = w
    <2>1. Table(chunks) /\ Len(chunks) \in Nat BY WorkerFacts
    <2>2. i \in 1 .. Len(chunks) /\ chunks[i].status = "Assigned" /\ thief # None /\ thief.by = w
      BY DEF Inv, Thieving, DoTakeOver, Holding
    <2> QED BY <2>1, <2>2, TableFacts
  <1>2. TakeOver(i) /\ UNCHANGED run BY DEF DoTakeOver, KeepRun
  <1>3. UNCHANGED <<nextFresh, retryQueue, fatal>> BY <1>2 DEF TakeOver
  <1>4. worker' = [v \in Workers |-> IF v = w /\ ~gone THEN AttemptAt(i) ELSE Revoked(worker[v], i)]
    BY DEF DoTakeOver, Revoked
  <1>5. thief' = IF gone THEN Looking(w, "search") ELSE None BY DEF DoTakeOver
  <1> HIDE DEF i
  <1>6. ASSUME NEW v \in Workers
        PROVE  /\ Revoked(worker[v], i).pc = worker[v].pc /\ Revoked(worker[v], i).chunk = worker[v].chunk
               /\ worker[v].chunk # i => Revoked(worker[v], i) = worker[v]
    <2>1. worker[v] \in Attempt BY BooksFacts
    <2> QED BY <2>1 DEF Revoked, Attempt
  <1>7. worker[w].pc = "idle" /\ worker[w].chunk = 0 /\ i # 0 BY <1>1 DEF Books, Idling
  <1>8. AttemptAt(i).pc = "asking" /\ AttemptAt(i).chunk = i /\ Live(AttemptAt(i)) BY <1>1, NewAttemptIsSound
  <1>9. Idling(worker', thief')
    <2>1. ASSUME NEW v \in Workers, worker'[v].pc \in {"idle", "stopped"} PROVE worker'[v].chunk = 0
      BY <1>4, <1>6, <1>8, <2>1 DEF Books, Idling
    <2>2. gone => worker'[w].pc = "idle" BY <1>4, <1>6, <1>7
    <2>3. thief' # None => gone /\ thief'.by = w BY <1>5 DEF Looking
    <2> QED BY <2>1, <2>2, <2>3 DEF Idling
  <1>10. ASSUME NEW ds, chunks' = ds, ChangesAt(chunks, ds, i), completed' = Cardinality(Done(ds)),
                gone => ds[i].status = "Completed", ~gone => ds[i].status = "Assigned",
                \A j \in 1 .. Len(ds) : j > Len(chunks) => ds[j].status = "Completed"
         PROVE  Books'
    <2>1. Counting(ds, completed', nextFresh, retryQueue)
      BY <1>1, <1>10, CountingAt DEF Books
    <2>2. Counting(chunks, completed, nextFresh, retryQueue)' BY <1>3, <1>10, <2>1
    <2>3. Attended(chunks, worker) => Attended(ds, worker')
      <3> SUFFICES ASSUME Attended(chunks, worker), NEW j \in 1 .. Len(ds), ds[j].status = "Assigned"
                   PROVE  \E v \in Workers : Live(worker'[v]) /\ worker'[v].chunk = j
        BY DEF Attended
      <3>1. j \in 1 .. Len(chunks) BY <1>1, <1>10 DEF ChangesAt
      <3>2. CASE j = i
        <4>1. ~gone BY <1>10, <3>2
        <4>2. worker'[w] = AttemptAt(i) BY <1>4, <4>1
        <4> QED BY <1>8, <3>2, <4>2
      <3>3. CASE j # i
        <4>1. ds[j] = chunks[j] BY <1>10, <3>1, <3>3 DEF ChangesAt
        <4>2. PICK v \in Workers : Live(worker[v]) /\ worker[v].chunk = j BY <3>1, <4>1 DEF Attended
        <4>3. v # w BY <1>7, <4>2 DEF Live
        <4>4. worker'[v] = worker[v] BY <1>4, <1>6, <3>3, <4>2, <4>3
        <4> QED BY <4>2, <4>4
      <3> QED BY <3>2, <3>3
    <2>4. (~Stop /\ ~fatal => Attended(chunks, worker))' /\ (engine = "stopping" => outcome # "none")'
      BY <1>2, <1>3, <1>10, <2>3 DEF Books, Stop, Running, run
    <2>5. Idling(worker, thief)' BY <1>9
    <2> QED BY <2>2, <2>4, <2>5 DEF Books
  <1>11. CASE gone
    <2> DEFINE ds == [chunks EXCEPT ![i].status = "Completed"]
    <2>1. chunks' = ds /\ completed' = completed + 1 BY <1>2, <1>11 DEF TakeOver
    <2>2. /\ Len(ds) = Len(chunks) /\ ds[i].status = "Completed"
          /\ \A j \in 1 .. Len(chunks) : j # i => ds[j] = chunks[j]
      <3>1. "Completed" \in Status BY DEF Status
      <3> QED BY <1>1, <3>1, StatusKeepsTable
    <2>3. Cardinality(Done(ds)) = Cardinality(Done(chunks)) + 1 BY <1>1, CompleteCovers
    <2> HIDE DEF ds
    <2>4. ChangesAt(chunks, ds, i) BY <1>1, <2>2 DEF ChangesAt
    <2>5. \A j \in 1 .. Len(ds) : ~(j > Len(chunks)) BY <1>1, <2>2
    <2>6. completed' = Cardinality(Done(ds)) BY <2>1, <2>3 DEF Books, Counting
    <2> QED BY <1>10, <1>11, <2>1, <2>2, <2>4, <2>5, <2>6
  <1>12. CASE ~gone
    <2> DEFINE es == Carve(chunks, i)
               ds == Assign(es, i)
    <2>1. chunks' = ds /\ completed' = completed + Carved(i) BY <1>2, <1>12 DEF TakeOver
    <2>2. chunks[i].cur <= chunks[i].end BY <1>1, <1>12, ChunkFields
    <2>3. /\ Table(es) /\ Len(es) \in Len(chunks) .. Len(chunks) + 1
          /\ es[i] = [chunks[i] EXCEPT !.start = chunks[i].cur]
          /\ \A j \in 1 .. Len(chunks) : j # i => es[j] = chunks[j]
          /\ \A j \in 1 .. Len(es) : j > Len(chunks) => es[j].status = "Completed"
      BY <1>1, <2>2, CarveKeepsTable
    <2>4. Cardinality(Done(es)) = Cardinality(Done(chunks)) + Carved(i)
      BY <1>1, <2>2, CarveCovers DEF Carved
    <2> HIDE DEF es
    <2>5. i \in 1 .. Len(es) /\ Len(es) \in Nat /\ es[i].status # "Completed"
      BY <1>1, <2>3 DEF Chunk
    <2>6. /\ Len(ds) = Len(es) /\ ds[i].status = "Assigned"
          /\ \A j \in 1 .. Len(es) : j # i => ds[j] = es[j]
          /\ Done(ds) = Done(es)
      BY <2>3, <2>5, AssignKeepsTable, AssignCovers
    <2> HIDE DEF ds
    <2>7. ChangesAt(chunks, ds, i) BY <1>1, <2>3, <2>5, <2>6 DEF ChangesAt
    <2>8. \A j \in 1 .. Len(ds) : j > Len(chunks) => ds[j].status = "Completed"
      <3>1. \A j \in 1 .. Len(ds) : j > Len(chunks) => j # i BY <1>1, <2>5, <2>6
      <3> QED BY <3>1, <2>3, <2>6
    <2>9. completed' = Cardinality(Done(ds)) BY <2>1, <2>4, <2>6 DEF Books, Counting
    <2> QED BY <1>10, <1>12, <2>1, <2>6, <2>7, <2>8, <2>9
  <1> QED BY <1>11, <1>12

(* A worker settles its own chunk, which is assigned until then. *)
LEMMA CompletedBooks ==
  ASSUME Inv, Books, NEW w \in Workers, Live(worker[w]), MarkCompleted(worker[w].chunk),
         Step(w, NoAttempt("idle")), Unlocked, UNCHANGED <<run, thief>>
  PROVE  Books'
  <1> DEFINE i == worker[w].chunk
             ds == [chunks EXCEPT ![i].status = "Completed"]
  <1>1. i \in 1 .. Len(chunks) /\ chunks[i].status = "Assigned" /\ Table(chunks) /\ Len(chunks) \in Nat
    BY WorkerFacts DEF Live, Serves, Own
  <1>2. chunks' = ds /\ completed' = completed + 1 /\ UNCHANGED <<nextFresh, retryQueue, fatal>>
    BY <1>1 DEF MarkCompleted
  <1>3. /\ Len(ds) = Len(chunks) /\ ds[i].status = "Completed"
        /\ \A j \in 1 .. Len(chunks) : j # i => ds[j] = chunks[j]
    <2>1. "Completed" \in Status BY DEF Status
    <2>2. \A k \in 1 .. Len(chunks) :
            LET es == [chunks EXCEPT ![k].status = "Completed"]
            IN  /\ Len(es) = Len(chunks) /\ es[k].status = "Completed"
                /\ \A j \in 1 .. Len(chunks) : j # k => es[j] = chunks[j]
      BY <1>1, <2>1, StatusKeepsTable
    <2> HIDE DEF i
    <2> QED BY <1>1, <2>2
  <1>4. Cardinality(Done(ds)) = Cardinality(Done(chunks)) + 1
    <2> HIDE DEF i
    <2> QED BY <1>1, CompleteCovers
  <1> HIDE DEF ds
  <1>5. Counting(ds, completed', nextFresh, retryQueue)
    <2>1. ChangesAt(chunks, ds, i) BY <1>1, <1>3 DEF ChangesAt
    <2>2. \A j \in 1 .. Len(ds) : ~(j > Len(chunks)) BY <1>1, <1>3
    <2>3. Counting(ds, Cardinality(Done(ds)), nextFresh, retryQueue)
      <3> HIDE DEF i
      <3> QED BY <1>1, <1>3, <2>1, <2>2, CountingAt DEF Books
    <2> QED BY <1>2, <1>4, <2>3 DEF Books, Counting
  <1>6. NoAttempt("idle").pc = "idle" /\ NoAttempt("idle").chunk = 0 BY DEF NoAttempt
  <1>7. \A j \in 1 .. Len(ds) : ds[j].status = "Assigned" =>
           j \in 1 .. Len(chunks) /\ chunks[j].status = "Assigned" /\ ~(Live(worker[w]) /\ worker[w].chunk = j)
    BY <1>1, <1>3
  <1> QED BY <1>2, <1>5, <1>6, <1>7, LockedBooks DEF Unlocked

LEMMA RetryBooks ==
  ASSUME Inv, Books, NEW w \in Workers, NEW counts \in BOOLEAN, Live(worker[w]), Own(w).cur <= Own(w).end,
         Retry(worker[w].chunk, counts), Step(w, NoAttempt("idle")), Unlocked, KeepRun, UNCHANGED <<thief, left>>
  PROVE  Books'
  <1> DEFINE i == worker[w].chunk
             n == IF chunks[i].cur > chunks[i].start THEN 0
                  ELSE IF counts THEN chunks[i].retries + 1 ELSE chunks[i].retries
             es == Carve(chunks, i)
             c == [es[i] EXCEPT !.status = "Failed", !.retries = n]
             ds == [es EXCEPT ![i] = c]
             r == Append(retryQueue, i)
  <1>1. /\ i \in 1 .. Len(chunks) /\ chunks[i].status = "Assigned" /\ Table(chunks) /\ Len(chunks) \in Nat
        /\ chunks[i] \in Chunk /\ chunks[i].cur <= chunks[i].end
    BY WorkerFacts DEF Live, Serves, Own
  <1>2. /\ chunks' = ds /\ completed' = completed + Carved(i) /\ retryQueue' = r
        /\ UNCHANGED <<nextFresh, run>> /\ (fatal => fatal')
    BY DEF Retry, KeepRun
  <1> HIDE DEF i
  <1>3. /\ Table(es) /\ Len(es) \in Len(chunks) .. Len(chunks) + 1
        /\ es[i] = [chunks[i] EXCEPT !.start = chunks[i].cur]
        /\ \A j \in 1 .. Len(chunks) : j # i => es[j] = chunks[j]
        /\ \A j \in 1 .. Len(es) : j > Len(chunks) => es[j].status = "Completed"
        /\ Cardinality(Done(es)) = Cardinality(Done(chunks)) + Carved(i)
    BY <1>1, CarveKeepsTable, CarveCovers DEF Carved
  <1> HIDE DEF es, n
  <1>4. i \in 1 .. Len(es) /\ Len(es) \in Nat /\ es[i] \in Chunk /\ DOMAIN es = 1 .. Len(es)
    BY <1>1, <1>3, TableFacts
  <1>5. es[i].status = "Assigned" /\ c.status = "Failed" BY <1>1, <1>3, <1>4 DEF Chunk
  <1> HIDE DEF c
  <1>6. ds[i] = c /\ DOMAIN ds = 1 .. Len(es) /\ \A j \in 1 .. Len(es) : j # i => ds[j] = es[j] BY <1>4
  <1>7. Len(ds) = Len(es)
    <2>1. DOMAIN ds = DOMAIN es BY <1>4, <1>6
    <2>2. Table(ds)
      <3>1. Inv' BY RetryInv
      <3> QED BY <1>2, <3>1 DEF Inv, ManagerInv
    <2>3. Len(ds) \in Nat /\ DOMAIN ds = 1 .. Len(ds) BY <2>2, TableFacts
    <2> QED BY <1>4, <2>1, <2>3
  <1> HIDE DEF ds
  <1>8. Counting(ds, completed', nextFresh, r)
    <2>1. Done(ds) = Done(es) BY <1>4, <1>5, <1>6, <1>7 DEF Done
    <2>2. ASSUME NEW j \in 1 .. Len(ds), ds[j].status = "Unassigned" PROVE nextFresh <= j
      <3>1. j # i /\ j \in 1 .. Len(chunks) /\ chunks[j].status = "Unassigned"
        BY <1>1, <1>3, <1>4, <1>5, <1>6, <1>7, <2>2
      <3> QED BY <3>1 DEF Books, Counting
    <2>3. ASSUME NEW j \in 1 .. Len(ds), ds[j].status = "Failed" PROVE \E k \in 1 .. Len(r) : r[k] = j
      <3>1. retryQueue \in Seq(Nat) /\ Len(retryQueue) \in Nat /\ i \in Nat
        BY <1>1, LenProperties DEF Inv, Queued
      <3>2. /\ Len(r) = Len(retryQueue) + 1 /\ r[Len(retryQueue) + 1] = i
            /\ \A k \in 1 .. Len(retryQueue) : r[k] = retryQueue[k]
        BY <3>1, AppendProperties
      <3> HIDE DEF r
      <3>3. CASE j = i
        <4>1. Len(retryQueue) + 1 \in 1 .. Len(r) BY <3>1, <3>2
        <4> QED BY <3>2, <3>3, <4>1
      <3>4. CASE j # i
        <4>1. j \in 1 .. Len(chunks) /\ chunks[j].status = "Failed"
          BY <1>1, <1>3, <1>4, <1>6, <1>7, <2>3, <3>4
        <4>2. PICK k \in 1 .. Len(retryQueue) : retryQueue[k] = j BY <4>1 DEF Books, Counting
        <4>3. k \in 1 .. Len(r) BY <3>1, <3>2
        <4> QED BY <3>2, <4>2, <4>3
      <3> QED BY <3>3, <3>4
    <2>4. completed' = Cardinality(Done(ds)) BY <1>2, <1>3, <2>1 DEF Books, Counting
    <2> QED BY <2>2, <2>3, <2>4 DEF Counting
  <1>9. NoAttempt("idle").pc = "idle" /\ NoAttempt("idle").chunk = 0 BY DEF NoAttempt
  <1>10. \A j \in 1 .. Len(ds) : ds[j].status = "Assigned" =>
           j \in 1 .. Len(chunks) /\ chunks[j].status = "Assigned" /\ ~(Live(worker[w]) /\ worker[w].chunk = j)
    BY <1>1, <1>3, <1>4, <1>5, <1>6, <1>7 DEF i
  <1> QED BY <1>2, <1>8, <1>9, <1>10, LockedBooks DEF Unlocked

LEMMA SettleBooks == ASSUME Inv, Books, NEW w \in Workers, Settle(w) PROVE Books'
  <1> DEFINE a == worker[w]
  <1>1. a \in Attempt /\ Sound(a, Len(chunks)) /\ a.pc = "settle" /\ a.res # "none" /\ a.chunk # 0
    BY WorkerFacts DEF Sound, Settle
  <1>2. a.res \in {"ok", "transient", "refused", "fatal"} /\ a.revoked \in BOOLEAN
    BY <1>1, AttemptFields DEF Result
  <1>3. Step(w, NoAttempt("idle")) /\ Unlocked /\ KeepRun /\ UNCHANGED <<run, thief, left>> BY DEF Settle, KeepRun
  <1>4. CASE a.res = "fatal"
    <2>1. Abort BY <1>4 DEF Settle
    <2>2. UNCHANGED <<chunks, completed, nextFresh, retryQueue, thief, run>> /\ fatal' BY <2>1, <1>3 DEF Abort
    <2> QED BY <1>3, <2>2, EndsBooks
  <1>5. CASE a.res # "fatal" /\ a.revoked
    <2>1. UNCHANGED manager BY <1>5 DEF Settle
    <2>2. UNCHANGED <<chunks, completed, nextFresh, retryQueue, thief, run>> /\ (fatal => fatal')
      BY <2>1, <1>3 DEF manager
    <2> QED BY <1>3, <1>5, <2>2, EndsBooks DEF Live
  <1>6. CASE a.res = "ok" /\ ~a.revoked
    <2>1. MarkCompleted(a.chunk) BY <1>6 DEF Settle
    <2> QED BY <1>1, <1>3, <1>6, <2>1, CompletedBooks DEF Live
  <1>7. CASE a.res \in {"transient", "refused"} /\ ~a.revoked
    <2>1. MarkFailed(a.chunk, a.res = "transient") BY <1>7 DEF Settle
    <2>2. Live(a) /\ Own(w) \in Chunk /\ Own(w).status = "Assigned"
      BY <1>1, <1>7, WorkerFacts DEF Live, Serves
    <2>3. CASE Own(w).cur > Own(w).end
      <3>1. MarkCompleted(a.chunk) BY <2>1, <2>3 DEF MarkFailed, Own
      <3> QED BY <1>3, <2>2, <3>1, CompletedBooks
    <2>4. CASE ~(Own(w).cur > Own(w).end)
      <3>1. Retry(a.chunk, a.res = "transient") BY <2>1, <2>2, <2>4 DEF MarkFailed, Own
      <3>2. Own(w).cur <= Own(w).end BY <2>2, <2>4, ChunkFields
      <3>3. (a.res = "transient") \in BOOLEAN OBVIOUS
      <3> QED BY <1>3, <2>2, <3>1, <3>2, <3>3, RetryBooks
    <2> QED BY <2>3, <2>4
  <1> QED BY <1>2, <1>4, <1>5, <1>6, <1>7

LEMMA WorkerStepBooks == ASSUME Inv, Books, NEW w \in Workers, WorkerStep(w) PROVE Books'
  BY TakeRetryBooks, TakeFreshBooks, LookBooks, TakeOverBooks, StealBooks, GoingOnBooks, SettleBooks, ReturnBooks
  DEF WorkerStep, GoingOn

-----------------------------------------------------------------------------
(* The steps of the engine and of the world. *)

(* The manager and the workers are left alone, and the download does not go on. *)
LEMMA BooksStay ==
  ASSUME Books, UNCHANGED <<manager, attempts>>, ~Stop' => ~Stop, engine' = "stopping" => outcome' # "none"
  PROVE  Books'
  BY DEF Books, Counting, Attended, Idling, manager, attempts

LEMMA EngineBooks == ASSUME Inv, Books, EngineStep \/ Cancel, ~Start PROVE Books'
  <1>1. UNCHANGED <<manager, attempts>>
    BY DEF EngineStep, PlanResume, PlanFresh, PlanDiscard, DiscardState, RecordStart, OpenPart, StartFails,
           FinalizeFails, AllCompleted, HasFatalFailure, SeesCancel, Leave, Join, PersistRanges, PersistSync,
           PersistSave, PersistFails, Verified, VerifiedWrong, Rename, RejectPart, RemoveState, Cancel, KeepWork
  <1>2. CASE PlanResume \/ PlanFresh \/ PlanDiscard \/ DiscardState \/ RecordStart \/ OpenPart \/ StartFails
             \/ FinalizeFails \/ Verified \/ VerifiedWrong \/ Rename \/ RejectPart \/ RemoveState
    <2>1. engine' \notin {"running", "syncing", "saving", "stopping"}
      BY <1>2 DEF PlanResume, PlanFresh, PlanDiscard, DiscardState, RecordStart, OpenPart, StartFails, FinalizeFails,
                  Verified, VerifiedWrong, Rename, RejectPart, RemoveState, Go
    <2> QED BY <1>1, <2>1, BooksStay DEF Stop, Running
  <1>3. CASE AllCompleted \/ HasFatalFailure \/ SeesCancel
    <2>1. engine' = "stopping" /\ outcome' # "none"
      BY <1>3 DEF AllCompleted, HasFatalFailure, SeesCancel, Leave, Go
    <2> QED BY <1>1, <2>1, BooksStay DEF Stop, Running
  <1>4. CASE Join
    <2>1. engine' \in {"verifying", "syncing"} /\ outcome' = outcome /\ outcome # "none" BY <1>4 DEF Join, Books
    <2> QED BY <1>1, <2>1, BooksStay DEF Stop, Running
  <1>5. CASE PersistRanges \/ PersistSync \/ PersistSave \/ PersistFails
    <2>1. /\ engine \in {"running", "syncing", "saving"} /\ UNCHANGED <<outcome, cancelled>>
          /\ engine' # "stopping"
      BY <1>5 DEF PersistRanges, PersistSync, PersistSave, PersistFails, KeepLoop, Go, AfterPersist
    <2> QED BY <1>1, <2>1, BooksStay DEF Stop, Running
  <1>6. CASE Cancel
    <2>1. cancelled' /\ UNCHANGED <<engine, outcome>> BY <1>6 DEF Cancel
    <2> QED BY <1>1, <1>6, <2>1, BooksStay DEF Stop, Books
  <1> QED BY <1>2, <1>3, <1>4, <1>5, <1>6 DEF EngineStep

LEMMA StartBooks == ASSUME Inv, Start PROVE Books'
  <1> DEFINE have == resume \cup 0 .. Prefetch - 1
             idle == [w \in Workers |-> NoAttempt("idle")]
             seed(i) == [NewAttempt(i) EXCEPT !.pc = "receive", !.pos = Prefetch, !.ver = ref]
  <1>1. PICK cs \in Layouts(have) :
          /\ NewManager(cs)
          /\ \/ chunks' = cs /\ worker' = idle
             \/ \E w \in Workers, i \in DOMAIN cs, e \in Byte :
                  /\ cs[i].status = "Unassigned" /\ cs[i].start = Prefetch /\ Prefetch <= e
                  /\ chunks' = AssignAt(cs, i, e)
                  /\ worker' = [idle EXCEPT ![w] = seed(i)]
    BY DEF Start
  <1> HIDE DEF have
  <1>2. /\ Table(cs) /\ Len(cs) \in Nat /\ DOMAIN cs = 1 .. Len(cs)
        /\ \A i \in 1 .. Len(cs) : cs[i].status \in {"Completed", "Unassigned"}
    BY LayoutIsTable, TableFacts
  <1>3. completed' = Cardinality(Done(cs)) /\ nextFresh' = 1 BY <1>1, <1>2 DEF NewManager, Done
  <1>4. thief' = None /\ engine' = "running" BY DEF Start, Go
  <1>5. NoAttempt("idle").pc = "idle" /\ NoAttempt("idle").chunk = 0 BY DEF NoAttempt
  <1>6. CASE chunks' = cs /\ worker' = idle
    <2>1. Counting(chunks', completed', nextFresh', retryQueue') BY <1>2, <1>3, <1>6 DEF Counting
    <2>2. Attended(chunks', worker') BY <1>2, <1>6 DEF Attended
    <2>3. Idling(worker', thief') BY <1>4, <1>5, <1>6 DEF Idling
    <2>4. Counting(chunks, completed, nextFresh, retryQueue)' /\ Attended(chunks, worker)' /\ Idling(worker, thief)'
      BY <2>1, <2>2, <2>3
    <2> QED BY <1>4, <2>4 DEF Books
  <1>7. ASSUME NEW w \in Workers, NEW i \in 1 .. Len(cs), NEW e \in Byte,
               cs[i].status = "Unassigned", cs[i].start = Prefetch, Prefetch <= e,
               chunks' = AssignAt(cs, i, e), worker' = [idle EXCEPT ![w] = seed(i)]
        PROVE  Books'
    <2> DEFINE ds == AssignAt(cs, i, e)
    <2>1. cs[i] \in Chunk /\ e \in Int /\ cs[i].start \in Int
      BY <1>2, TableFacts, ChunkFields, ManagerAssumption DEF Byte
    <2>2. /\ Len(ds) \in Nat /\ Len(cs) <= Len(ds) /\ ds[i].status = "Assigned" /\ Done(ds) = Done(cs)
          /\ \A j \in 1 .. Len(ds) : j # i => ds[j].status \in {"Completed", "Unassigned"}
      <3>1. CASE e < cs[i].end
        <4> DEFINE fs == Append([cs EXCEPT ![i].end = e], NewChunk(e + 1, cs[i].end, "Unassigned"))
        <4>1. /\ Table(fs) /\ Len(fs) = Len(cs) + 1 /\ fs[i] = [cs[i] EXCEPT !.end = e]
              /\ fs[Len(cs) + 1] = NewChunk(e + 1, cs[i].end, "Unassigned")
              /\ \A j \in 1 .. Len(cs) : j # i => fs[j] = cs[j]
              /\ Done(fs) = Done(cs)
          <5>1. "Unassigned" \in Status /\ "Unassigned" \in Status \ {"Completed"} BY DEF Status
          <5>2. cs[i].start <= e BY <1>7
          <5>3. Table(cs) /\ i \in 1 .. Len(cs) /\ e \in Int /\ e < cs[i].end /\ cs[i].status # "Completed"
            BY <1>2, <1>7, <2>1, <3>1
          <5>4. /\ Table(fs) /\ Len(fs) = Len(cs) + 1 /\ fs[i] = [cs[i] EXCEPT !.end = e]
                /\ fs[Len(cs) + 1] = NewChunk(e + 1, cs[i].end, "Unassigned")
                /\ \A j \in 1 .. Len(cs) : j # i => fs[j] = cs[j]
            BY <5>1, <5>2, <5>3, SplitKeepsTable
          <5>5. Done(fs) = Done(cs) BY <5>1, <5>2, <5>3, SplitCovers
          <5> QED BY <5>4, <5>5
        <4>2. ds = Assign(fs, i) BY <3>1 DEF AssignAt
        <4> HIDE DEF fs
        <4>3. i \in 1 .. Len(fs) /\ fs[i].status = "Unassigned" /\ fs[Len(cs) + 1].status = "Unassigned"
          BY <1>2, <1>7, <2>1, <4>1 DEF Chunk, NewChunk
        <4>4. /\ Len(Assign(fs, i)) = Len(fs) /\ Assign(fs, i)[i].status = "Assigned"
              /\ \A j \in 1 .. Len(fs) : j # i => Assign(fs, i)[j] = fs[j]
              /\ Done(Assign(fs, i)) = Done(fs)
          <5>1. \A gs : Table(gs) /\ i \in 1 .. Len(gs) /\ gs[i].status # "Completed" =>
                  /\ Len(Assign(gs, i)) = Len(gs) /\ Assign(gs, i)[i].status = "Assigned"
                  /\ \A j \in 1 .. Len(gs) : j # i => Assign(gs, i)[j] = gs[j]
                  /\ Done(Assign(gs, i)) = Done(gs)
            BY AssignKeepsTable, AssignCovers
          <5> QED BY <4>1, <4>3, <5>1
        <4>5. \A j \in 1 .. Len(fs) : j # i => j \in 1 .. Len(cs) \/ j = Len(cs) + 1 BY <1>2, <4>1
        <4>6. \A j \in 1 .. Len(fs) : j # i => fs[j].status \in {"Completed", "Unassigned"}
          BY <1>2, <4>1, <4>3, <4>5
        <4> QED BY <1>2, <4>1, <4>2, <4>4, <4>6
      <3>2. CASE ~(e < cs[i].end)
        <4>1. ds = Assign(cs, i) BY <3>2 DEF AssignAt
        <4> QED BY <1>2, <1>7, <4>1, AssignKeepsTable, AssignCovers
      <3> QED BY <3>1, <3>2
    <2> HIDE DEF ds
    <2>3. chunks' = ds BY <1>7 DEF ds
    <2>4. seed(i).pc = "receive" /\ seed(i).chunk = i /\ Live(seed(i))
      <3>1. i # 0 BY <1>2
      <3> QED BY <3>1 DEF NewAttempt, NoAttempt, Live
    <2>5. worker'[w] = seed(i) /\ \A v \in Workers \ {w} : worker'[v] = NoAttempt("idle") BY <1>7
    <2> HIDE DEF seed, idle
    <2>6. Counting(ds, completed', nextFresh', retryQueue')
      <3>1. \A j \in 1 .. Len(ds) : ds[j].status # "Failed" BY <2>2
      <3>2. \A j \in 1 .. Len(ds) : nextFresh' <= j BY <1>3, <2>2
      <3> QED BY <1>3, <2>2, <3>1, <3>2 DEF Counting
    <2>7. Attended(ds, worker')
      <3>1. \A j \in 1 .. Len(ds) : ds[j].status = "Assigned" => j = i BY <2>2
      <3> QED BY <2>4, <2>5, <3>1 DEF Attended
    <2>8. Idling(worker', thief') BY <1>4, <1>5, <2>4, <2>5 DEF Idling
    <2>9. Counting(chunks, completed, nextFresh, retryQueue)' /\ Attended(chunks, worker)' /\ Idling(worker, thief)'
      BY <2>3, <2>6, <2>7, <2>8
    <2> QED BY <1>4, <2>9 DEF Books
  <1> QED BY <1>1, <1>2, <1>6, <1>7

(* A process without a download: nothing is counted and nobody works. *)
LEMMA NoDownload ==
  ASSUME NEW wk, wk = [w \in Workers |-> NoAttempt("stopped")]
  PROVE  Counting(<<>>, 0, 1, <<>>) /\ Idling(wk, None)
  <1>1. Len(<<>>) = 0 BY EmptySeq
  <1>2. Done(<<>>) = {} BY <1>1 DEF Done
  <1>3. Cardinality({}) = 0 BY FS_EmptySet
  <1>4. Counting(<<>>, 0, 1, <<>>) BY <1>1, <1>2, <1>3 DEF Counting
  <1>5. NoAttempt("stopped").chunk = 0 BY DEF NoAttempt
  <1> QED BY <1>4, <1>5 DEF Idling

LEMMA WorldBooks == ASSUME Inv, Books, ChangeRemote \/ RunAgain \/ ProcessDies \/ MachineFails PROVE Books'
  <1>1. CASE ChangeRemote
    <2>1. UNCHANGED <<manager, attempts, engine, outcome, cancelled>> BY <1>1 DEF ChangeRemote, run
    <2> QED BY <2>1, BooksStay DEF Stop, Running, Books
  <1>2. CASE RunAgain \/ ProcessDies \/ MachineFails
    <2>1. Afresh BY <1>2 DEF RunAgain, ProcessDies, MachineFails
    <2>2. Counting(chunks', completed', nextFresh', retryQueue') /\ Idling(worker', thief')
      BY <2>1, NoDownload DEF Afresh, DropManager
    <2>3. Counting(chunks, completed, nextFresh, retryQueue)' /\ Idling(worker, thief)' BY <2>2
    <2>4. engine' = "off" BY <2>1 DEF Afresh
    <2> QED BY <2>3, <2>4 DEF Books, Stop, Running
  <1> QED BY <1>1, <1>2

LEMMA InitBooks == Init => Books
  <1> SUFFICES ASSUME Init PROVE Books OBVIOUS
  <1>1. Counting(chunks, completed, nextFresh, retryQueue) /\ Idling(worker, thief)
    BY NoDownload DEF Init, NoManager
  <1>2. engine = "off" BY DEF Init
  <1> QED BY <1>1, <1>2 DEF Books, Stop, Running

LEMMA NextBooks == Inv /\ Books /\ [Next]_vars => Books'
  <1> SUFFICES ASSUME Inv, Books, [Next]_vars PROVE Books' OBVIOUS
  <1>1. ASSUME NEW w \in Workers, WorkerStep(w) PROVE Books' BY <1>1, WorkerStepBooks
  <1>2. CASE EngineStep \/ Cancel BY <1>2, StartBooks, EngineBooks
  <1>3. CASE ChangeRemote \/ RunAgain \/ ProcessDies \/ MachineFails BY <1>3, WorldBooks
  <1>4. CASE UNCHANGED vars
    <2>1. UNCHANGED <<manager, attempts, engine, outcome, cancelled>> BY <1>4 DEF vars, run
    <2> QED BY <2>1, BooksStay DEF Stop, Running, Books
  <1>5. CASE Finished BY <1>4, <1>5 DEF Finished
  <1> QED BY <1>1, <1>2, <1>3, <1>4, <1>5 DEF Next

-----------------------------------------------------------------------------
(* What follows. *)

LEMMA BooksCount == Inv /\ Books => CountsAreTrue
  <1> SUFFICES ASSUME Inv, Books PROVE CountsAreTrue OBVIOUS
  <1>1. DOMAIN chunks = 1 .. Len(chunks) BY TableFacts DEF Inv, ManagerInv
  <1>2. DOMAIN retryQueue = 1 .. Len(retryQueue) BY LenProperties DEF Inv, Queued
  <1>3. CounterExact BY <1>1 DEF Books, Counting, CounterExact, Done
  <1>4. Reachable
    <2>1. \A i \in DOMAIN chunks : chunks[i].status = "Unassigned" => nextFresh <= i BY <1>1 DEF Books, Counting
    <2>2. ASSUME NEW i \in DOMAIN chunks
          PROVE  (chunks[i].status = "Failed") <=> \E q \in DOMAIN retryQueue : retryQueue[q] = i
      BY <1>1, <1>2 DEF Books, Counting, Inv, Queued
    <2>3. \A p, q \in DOMAIN retryQueue : retryQueue[p] = retryQueue[q] => p = q BY <1>2 DEF Inv, Queued
    <2> QED BY <2>1, <2>2, <2>3 DEF Reachable
  <1> QED BY <1>3, <1>4 DEF CountsAreTrue

LEMMA BooksOwn == Inv /\ Books => OneOwner
  <1> DEFINE at(i) == {w \in Workers : worker[w].chunk = i /\ ~worker[w].revoked}
  <1> SUFFICES ASSUME Inv, Books, ~Stop, ~fatal
               PROVE  /\ \A i \in DOMAIN chunks :
                            Cardinality(at(i)) = IF chunks[i].status = "Assigned" THEN 1 ELSE 0
                      /\ \A w \in Workers : worker[w].chunk \in 0 .. Len(chunks)
    BY DEF OneOwner
  <1>1. DOMAIN chunks = 1 .. Len(chunks) /\ Len(chunks) \in Nat BY TableFacts DEF Inv, ManagerInv
  <1>2. \A w \in Workers : worker[w].chunk \in 0 .. Len(chunks) BY DEF Inv, Serving, Sound
  <1>3. ASSUME NEW i \in 1 .. Len(chunks)
        PROVE  Cardinality(at(i)) = IF chunks[i].status = "Assigned" THEN 1 ELSE 0
    <2>1. i # 0 BY <1>1
    <2>2. \A w \in at(i) : Live(worker[w]) BY <2>1 DEF Live
    <2>3. CASE chunks[i].status = "Assigned"
      <3>1. PICK w \in Workers : Live(worker[w]) /\ worker[w].chunk = i BY <2>3 DEF Books, Attended
      <3>2. \A v \in at(i) : v = w BY <2>2, <3>1 DEF Inv, Serving
      <3>3. w \in at(i) BY <3>1 DEF Live
      <3>4. at(i) = {w} BY <3>2, <3>3
      <3> HIDE DEF at
      <3> QED BY <2>3, <3>4, FS_Singleton
    <2>4. CASE chunks[i].status # "Assigned"
      <3>1. at(i) = {} BY <2>2, <2>4 DEF Inv, Serving, Serves
      <3> HIDE DEF at
      <3> QED BY <2>4, <3>1, FS_EmptySet
    <2> QED BY <2>3, <2>4
  <1> QED BY <1>1, <1>2, <1>3

(* The counter that ends the loop (is_all_completed) is the number of completed chunks, and        *)
(* get_next_work reaches every chunk that waits: whatever splits, takeovers, failures and resumed   *)
(* ranges made of the table, a download neither ends early nor leaves a chunk behind.              *)
THEOREM CountsStayTrue == Spec => []CountsAreTrue
  <1>1. Init => Inv /\ Books BY InitInv, InitBooks
  <1>2. Inv /\ Books /\ [Next]_vars => Inv' /\ Books' BY NextInv, NextBooks
  <1>3. Inv /\ Books => CountsAreTrue BY BooksCount
  <1> QED BY <1>1, <1>2, <1>3, PTL DEF Spec

(* While a download runs, an assigned chunk has one worker that will settle it, and no more: a     *)
(* takeover revokes the victim before the chunk is the thief's (take_over_silent), a revoked worker *)
(* settles nothing (conclude), and no worker takes a second chunk before it settled the first.      *)
THEOREM AlwaysOneOwner == Spec => []OneOwner
  <1>1. Init => Inv /\ Books BY InitInv, InitBooks
  <1>2. Inv /\ Books /\ [Next]_vars => Inv' /\ Books' BY NextInv, NextBooks
  <1>3. Inv /\ Books => OneOwner BY BooksOwn
  <1> QED BY <1>1, <1>2, <1>3, PTL DEF Spec

-----------------------------------------------------------------------------
(***************************************************************************)
(* What a download has on disk, in every download: what is counted is      *)
(* written, what is saved is safe, what is delivered is whole, and across  *)
(* runs, crashes and changes on the server Transfer's promise is kept.     *)
(*                                                                         *)
(* None of this is inductive alone.  What is counted is written because a  *)
(* batch is in the file before its worker says so, and of the version the  *)
(* run fetches because a server with another one is refused: by If-Range,  *)
(* hence but for a request of the whole file.  What is saved is safe       *)
(* because it was counted before the bytes were synced, and stays true     *)
(* because a counted byte stays counted, but for the range a thief has     *)
(* chosen: that one nobody had counted when a save could still be begun.   *)
(***************************************************************************)

(* No request a worker makes is for the whole file (chunk.rs: with_resumed_ranges; worker.rs:     *)
(* is_whole_file): the probe brought the first bytes, or the file is longer than a chunk.  Without *)
(* it a file put back on the server is accepted as the one the run began with: run rollback.      *)
NoWholeRequest == Prefetch > 0 \/ BaseChunk < Size

Planning == {"discarding", "planned", "opening", "filling"}
Working == {"running", "syncing", "saving", "stopping"}

(* No worker is at work: they have not been started, or have returned. *)
Joined == engine \notin Working \/ (engine \in {"syncing", "saving"} /\ outcome # "none")

(* There is a table exactly while the download works or ended, workers only while it works, and the *)
(* .part from its opening to its end.                                                               *)
Phases ==
  /\ engine \in Planning \cup {"off"} => chunks = <<>>
  /\ engine \in Working => chunks # <<>>
  /\ engine \in Planning \cup {"off", "running"} => outcome = "none"
  /\ Joined => \A w \in Workers : worker[w].pc = "stopped"
  /\ engine \in {"filling", "verifying", "renaming", "rejecting"} \cup Working => part
  /\ engine \in {"discarding", "cleaning", "forgetting"} => ~part

(* A chunk whose request would not be for the whole file. *)
Partial(c) == c.status = "Completed" \/ c.start > 0 \/ c.end < Size - 1

Batch(a) == a.pos .. a.pos + a.buf - 1

(* What an attempt says of its bytes is true: they are of version v, those written are in the file *)
(* (dk), and a chunk called finished is.                                                            *)
Honest(a, cs, dk, v) ==
  /\ ~a.whole
  /\ a.pc \in InFlight => a.ver = v
  /\ a.pc = "written" => Batch(a) \subseteq Holds(dk, v)
  /\ Live(a) /\ a.pc = "settle" /\ a.res = "ok" => cs[a.chunk].cur > cs[a.chunk].end

AllPartial(cs) == \A i \in 1 .. Len(cs) : Partial(cs[i])
AllHonest(wk, cs, dk, v) == \A w \in Workers : Honest(wk[w], cs, dk, v)

Counted(cs, p, dk, v) == p => Covered(cs) \subseteq Holds(dk, v)

(* What is counted and stays so: all but the range a thief has chosen, of which the victim may write *)
(* more before it is cut off.                                                                        *)
Stolen(t) == IF t # None /\ t.op = "steal" THEN t.end + 1 - t.take .. t.end ELSE {}
Firm(cs, t) == Covered(cs) \ Stolen(t)

(* The state names the version of the run and holds what is counted; what the plan resumes from, and *)
(* what a save is about to record, is in the file, and once synced, to stay.                         *)
Saves ==
  /\ ResumeIsSafe
  /\ part /\ engine # "off" => saved.version = ref
  /\ engine \in Planning => /\ resume \subseteq Holds(disk, ref) \cap Holds(durable, ref)
                            /\ ~part => resume = {}
  /\ engine = "planned" /\ part => saved.held = resume
  /\ engine \in {"opening", "filling"} => saved = [version |-> ref, held |-> resume]
  /\ engine \in Working => saved.held \subseteq Firm(chunks, thief)
  /\ engine \in {"syncing", "saving"} =>
       saved.held \subseteq snap /\ snap \subseteq Firm(chunks, thief) /\ snap \subseteq Holds(disk, ref)
  /\ engine = "saving" => snap \subseteq Holds(durable, ref)

(* All chunks completed, the file is whole. *)
Whole ==
  /\ engine \in {"verifying", "renaming", "rejecting"} \/ (engine = "stopping" /\ outcome = "ok")
       => Holds(disk, ref) = Byte
  /\ FinalIsWhole

Safe ==
  /\ Phases
  /\ AllPartial(chunks) /\ AllHonest(worker, chunks, disk, ref)
  /\ Counted(chunks, part, disk, ref)
  /\ Saves /\ Whole

-----------------------------------------------------------------------------
(* Lemmas on the parts of Safe. *)

LEMMA CountedRanges == ASSUME Inv PROVE CompletedRanges = Covered(chunks)
  <1>1. DOMAIN chunks = 1 .. Len(chunks) BY TableFacts DEF Inv, ManagerInv
  <1> QED BY <1>1 DEF CompletedRanges, Covered

LEMMA NothingCovered == Covered(<<>>) = {} /\ AllPartial(<<>>)
  <1>1. Len(<<>>) = 0 BY EmptySeq
  <1> QED BY <1>1 DEF Covered, AllPartial

(* An attempt that has stopped says nothing. *)
LEMMA StoppedHonest ==
  ASSUME NEW wk, NEW cs, NEW dk, NEW v, \A w \in Workers : wk[w].pc = "stopped" /\ ~wk[w].whole
  PROVE  AllHonest(wk, cs, dk, v)
  BY DEF AllHonest, Honest, InFlight

LEMMA NoAttemptHonest ==
  ASSUME NEW pc \in {"idle", "stopped"}, NEW cs, NEW dk, NEW v
  PROVE  Honest(NoAttempt(pc), cs, dk, v)
  BY DEF Honest, NoAttempt, InFlight

(* One attempt becomes a; the file keeps what it had, and a finished chunk of another stays so. *)
LEMMA OneHonest ==
  ASSUME NEW wk, NEW cs, NEW ds, NEW dk, NEW dl, NEW v, NEW w \in Workers, NEW a,
         wk \in [Workers -> Attempt], AllHonest(wk, cs, dk, v), Honest(a, ds, dl, v),
         Holds(dk, v) \subseteq Holds(dl, v),
         \A u \in Workers \ {w} : Live(wk[u]) /\ cs[wk[u].chunk].cur > cs[wk[u].chunk].end =>
           ds[wk[u].chunk].cur > ds[wk[u].chunk].end
  PROVE  AllHonest([wk EXCEPT ![w] = a], ds, dl, v)
  <1> DEFINE new == [wk EXCEPT ![w] = a]
  <1>1. new[w] = a /\ \A u \in Workers \ {w} : new[u] = wk[u] OBVIOUS
  <1> HIDE DEF new
  <1>2. ASSUME NEW u \in Workers \ {w} PROVE Honest(wk[u], ds, dl, v)
    <2>1. Honest(wk[u], cs, dk, v) BY DEF AllHonest
    <2> QED BY <2>1 DEF Honest
  <1>3. AllHonest(new, ds, dl, v) BY <1>1, <1>2 DEF AllHonest
  <1> QED BY <1>3 DEF new

(* No request is for the whole file, if chunks are partial. *)
LEMMA AttemptAtHonest ==
  ASSUME Inv, AllPartial(chunks), NEW i \in 1 .. Len(chunks), chunks[i].status # "Completed",
         NEW cs, NEW dk, NEW v
  PROVE  Honest(AttemptAt(i), cs, dk, v)
  <1>1. chunks[i] \in Chunk /\ chunks[i].start <= chunks[i].cur BY TableFacts DEF Inv, ManagerInv, Table
  <1>2. chunks[i].start > 0 \/ chunks[i].end < Size - 1 BY DEF AllPartial, Partial
  <1>3. ~(chunks[i].cur = 0 /\ chunks[i].end = Size - 1) BY <1>1, <1>2, ChunkFields, ManagerAssumption
  <1> QED BY <1>3 DEF AttemptAt, NewAttempt, NoAttempt, Honest, InFlight

LEMMA PartialKept ==
  ASSUME NEW cs, NEW ds, NEW i \in 1 .. Len(cs), AllPartial(cs), ChangesAt(cs, ds, i), Partial(ds[i]),
         \A j \in 1 .. Len(ds) : j > Len(cs) => Partial(ds[j]), Len(cs) \in Nat
  PROVE  AllPartial(ds)
  <1>1. \A j \in 1 .. Len(ds) : j \in 1 .. Len(cs) \/ j > Len(cs) BY DEF ChangesAt
  <1> QED BY <1>1 DEF AllPartial, ChangesAt

-----------------------------------------------------------------------------
(* The steps of a worker. *)

LEMMA AtWork ==
  ASSUME Inv, Books, Phases, NEW w \in Workers, WorkerStep(w)
  PROVE  ~Joined /\ engine \in Working /\ part /\ chunks # <<>>
  <1>1. worker[w].pc # "stopped"
    <2>1. CASE PickSilent(w) \/ DoTakeOver(w) \/ PickSteal(w) \/ DoSteal(w) \/ FindNothing(w)
      <3>1. thief # None /\ thief.by = w BY <2>1 DEF PickSilent, DoTakeOver, PickSteal, DoSteal, FindNothing, Holding
      <3> QED BY <3>1 DEF Books, Idling
    <2>2. CASE GoingOn(w) BY <2>2, AttemptGoesOn
    <2>3. CASE TakeRetry(w) \/ TakeFresh(w) \/ LookForVictim(w) \/ Settle(w) \/ NoMirrorLeft(w) \/ Return(w)
      BY <2>3 DEF TakeRetry, TakeFresh, LookForVictim, Settle, NoMirrorLeft, Return
    <2> QED BY <2>1, <2>2, <2>3 DEF WorkerStep, GoingOn
  <1>2. ~Joined BY <1>1 DEF Phases
  <1> QED BY <1>2 DEF Phases, Joined

(* What a worker's step must keep. *)
LEMMA WorkerKeeps ==
  ASSUME Inv, Inv', Safe, ~Joined, UNCHANGED <<run, durable, part, saved, final>>,
         Len(chunks) <= Len(chunks'), Holds(disk, ref) \subseteq Holds(disk', ref),
         Covered(chunks') \subseteq Holds(disk', ref), Firm(chunks, thief) \subseteq Firm(chunks', thief'),
         AllPartial(chunks'), AllHonest(worker', chunks', disk', ref)
  PROVE  Safe'
  <1>1. /\ engine \in Working /\ part /\ engine \notin Planning \cup {"off"}
        /\ engine \notin {"verifying", "renaming", "rejecting"}
    BY DEF Safe, Phases, Joined, Working, Planning
  <1>2. UNCHANGED <<engine, outcome, cancelled, ref, resume, snap>> BY DEF run
  <1>3. chunks' # <<>>
    <2>1. chunks \in Seq(Chunk) /\ chunks' \in Seq(Chunk) BY DEF Inv, ManagerInv, Table
    <2>2. chunks # <<>> BY <1>1 DEF Safe, Phases
    <2>3. Len(chunks) \in Nat /\ Len(chunks') \in Nat /\ Len(chunks) # 0 BY <2>1, <2>2, EmptySeq, LenProperties
    <2> QED BY <2>1, <2>3, EmptySeq
  <1>4. Phases'
    <2>1. ~Joined' BY <1>2 DEF Joined
    <2> QED BY <1>1, <1>2, <1>3, <2>1 DEF Safe, Phases, Working
  <1>5. AllPartial(chunks)' /\ AllHonest(worker, chunks, disk, ref)' /\ Counted(chunks, part, disk, ref)'
    BY <1>2 DEF Counted
  <1>6. Holds(disk', ref') = Holds(disk', ref) /\ Holds(durable', ref') = Holds(durable, ref) BY <1>2
  <1>7. ResumeIsSafe'
    <2>1. saved # None /\ saved.version = ref /\ saved.held \subseteq Holds(durable, ref) \cap Holds(disk, ref)
      BY <1>1 DEF Safe, Saves, ResumeIsSafe
    <2>2. saved' = saved /\ saved'.version = ref /\ Holds(durable', ref) = Holds(durable, ref) BY <2>1
    <2>3. saved'.held \subseteq Holds(durable', ref) \cap Holds(disk', ref) BY <2>1, <2>2
    <2> QED BY <2>1, <2>2, <2>3 DEF ResumeIsSafe
  <1>8. Saves'
    <2>1. saved'.version = ref' BY <1>1, <1>2 DEF Safe, Saves
    <2>2. saved'.held \subseteq Firm(chunks', thief') BY <1>1 DEF Safe, Saves
    <2>3. engine' \in {"syncing", "saving"} =>
            saved'.held \subseteq snap' /\ snap' \subseteq Firm(chunks', thief') /\ snap' \subseteq Holds(disk', ref')
      BY <1>2, <1>6 DEF Safe, Saves
    <2>4. engine' = "saving" => snap' \subseteq Holds(durable', ref') BY <1>2, <1>6 DEF Safe, Saves
    <2>5. engine' \notin Planning /\ engine' \notin {"planned", "opening", "filling"} BY <1>1, <1>2 DEF Planning
    <2>6. Firm(chunks, thief)' = Firm(chunks', thief') /\ Holds(disk, ref)' = Holds(disk', ref')
          /\ Holds(durable, ref)' = Holds(durable', ref')
      OBVIOUS
    <2> QED BY <1>7, <2>1, <2>2, <2>3, <2>4, <2>5, <2>6 DEF Saves
  <1>9. Whole'
    <2>1. engine = "stopping" /\ outcome = "ok" => Holds(disk, ref) = Byte BY DEF Safe, Whole
    <2>2. Holds(disk', ref) \subseteq Byte BY DEF Holds
    <2>3. FinalIsWhole' BY DEF Safe, Whole, FinalIsWhole, Holds
    <2> QED BY <1>1, <1>2, <1>6, <2>1, <2>2, <2>3 DEF Whole
  <1> QED BY <1>4, <1>5, <1>8, <1>9 DEF Safe

(* A worker writes bytes of the version the run fetches, so the file loses none of it. *)
LEMMA GoingOnDisk ==
  ASSUME Inv, Safe, NEW w \in Workers, GoingOn(w)
  PROVE  /\ UNCHANGED <<durable, part, saved, final>>
         /\ Holds(disk, ref) \subseteq Holds(disk', ref)
         /\ ~WriteOut(w) /\ ~WriteFails(w) => disk' = disk
  <1>1. UNCHANGED <<durable, part, saved, final>> /\ (~WriteOut(w) /\ ~WriteFails(w) => disk' = disk)
    BY DEF GoingOn, Answer, AnswerFails, AnswerRefused, AnswerChanged, Receive, BodyEnds, FlushDue, BodyBreaks,
           Interrupted, WriteOut, WriteFails, Advance, Quiet, KeepRun, KeepSaves, files
  <1>2. CASE WriteOut(w) \/ WriteFails(w)
    <2>1. worker[w].ver = ref
      <3>1. worker[w].pc = "writing" BY <1>2 DEF WriteOut, WriteFails
      <3> QED BY <3>1 DEF Safe, AllHonest, Honest, InFlight
    <2>2. \E n : disk' = Put(worker[w], n) BY <1>2 DEF WriteOut, WriteFails
    <2> QED BY <1>1, <2>1, <2>2 DEF Put, Holds
  <1> QED BY <1>1, <1>2

LEMMA FlushHonest ==
  ASSUME Inv, Safe, NEW w \in Workers, NEW res \in {"none", "ok", "transient"},
         worker[w].pc = "receive", Flush(w, res)
  PROVE  \E a : Step(w, a) /\ Honest(a, chunks, disk, ref)
  <1> DEFINE b == worker[w]
             room == IF b.pos <= Own(w).end THEN Own(w).end + 1 - b.pos ELSE 0
             keep == IF b.revoked THEN 0 ELSE IF b.buf < room THEN b.buf ELSE room
             sent == [b EXCEPT !.pc = "writing", !.buf = keep, !.res = res]
             nothing == [b EXCEPT !.buf = 0]
             ended == [b EXCEPT !.pc = "settle", !.buf = 0, !.res = Verdict(w, res, b.pos)]
  <1>1. b \in Attempt /\ Honest(b, chunks, disk, ref) BY WorkerFacts DEF Safe, AllHonest
  <1>2. \/ Step(w, sent)
        \/ Step(w, nothing)
        \/ Step(w, ended)
    BY DEF Flush
  <1> HIDE DEF keep
  <1>3. Honest(sent, chunks, disk, ref)
    <2>1. sent.pc = "writing" /\ sent.whole = b.whole /\ sent.ver = b.ver BY <1>1 DEF Attempt
    <2> QED BY <1>1, <2>1 DEF Honest, InFlight
  <1>4. Honest(nothing, chunks, disk, ref)
    <2>1. nothing.pc = "receive" /\ nothing.whole = b.whole /\ nothing.ver = b.ver BY <1>1 DEF Attempt
    <2> QED BY <1>1, <2>1 DEF Honest, InFlight
  <1>5. Honest(ended, chunks, disk, ref)
    <2>1. /\ ended.pc = "settle" /\ ended.whole = b.whole /\ ended.res = Verdict(w, res, b.pos)
          /\ ended.chunk = b.chunk /\ ended.revoked = b.revoked
      BY <1>1 DEF Attempt
    <2>2. ASSUME Live(ended), ended.res = "ok" PROVE chunks[ended.chunk].cur > chunks[ended.chunk].end
      <3>1. ~b.revoked /\ ~(b.pos <= Own(w).end) BY <2>1, <2>2 DEF Verdict, Live
      <3>2. Live(b) /\ Own(w).cur = b.pos BY <2>1, <2>2, WorkerFacts DEF Live, Serves, InFlight
      <3>3. Own(w) \in Chunk BY <3>2, WorkerFacts DEF Live
      <3> QED BY <2>1, <3>1, <3>2, <3>3, ChunkFields DEF Own
    <2> HIDE DEF ended
    <2> QED BY <1>1, <2>1, <2>2 DEF Honest, InFlight
  <1> QED BY <1>2, <1>3, <1>4, <1>5

(* The answer is of the version the run fetches: no request is for the whole file. *)
LEMMA AnswerHonest ==
  ASSUME Inv, Safe, NEW w \in Workers,
         Answer(w) \/ AnswerFails(w) \/ AnswerRefused(w) \/ AnswerChanged(w) \/ Receive(w) \/ Interrupted(w)
         \/ BodyEnds(w) \/ FlushDue(w) \/ BodyBreaks(w)
  PROVE  \E a : Step(w, a) /\ Honest(a, chunks', disk', ref)
  <1> DEFINE b == worker[w]
  <1>1. b \in Attempt /\ Honest(b, chunks, disk, ref) BY WorkerFacts DEF Safe, AllHonest
  <1>2. disk' = disk
    BY DEF Answer, AnswerFails, AnswerRefused, AnswerChanged, Receive, Interrupted, BodyEnds, FlushDue, BodyBreaks,
           Quiet, KeepRun, files
  <1>3. CASE Answer(w)
    <2> DEFINE a == [b EXCEPT !.pc = "receive", !.pos = Own(w).cur, !.ver = remote]
    <2>1. remote = ref BY <1>1, <1>3 DEF Answer, Honest
    <2>2. a.pc = "receive" /\ a.whole = b.whole /\ a.ver = remote BY <1>1 DEF Attempt
    <2>3. Step(w, a) BY <1>3 DEF Answer
    <2>4. Honest(a, chunks', disk', ref) BY <1>1, <2>1, <2>2 DEF Honest, InFlight
    <2> QED BY <2>3, <2>4
  <1>4. ASSUME NEW res \in {"transient", "refused", "fatal"}, Ends(w, res)
        PROVE  \E a : Step(w, a) /\ Honest(a, chunks', disk', ref)
    <2> DEFINE a == [b EXCEPT !.pc = "settle", !.res = res]
    <2>1. a.pc = "settle" /\ a.whole = b.whole /\ a.res = res BY <1>1 DEF Attempt
    <2>2. Step(w, a) BY <1>4 DEF Ends
    <2>3. Honest(a, chunks', disk', ref) BY <1>1, <2>1 DEF Honest, InFlight
    <2> QED BY <2>2, <2>3
  <1>5. CASE Receive(w)
    <2> DEFINE a == [b EXCEPT !.buf = @ + 1]
    <2>1. a.pc = "receive" /\ a.whole = b.whole /\ a.ver = b.ver BY <1>1, <1>5 DEF Attempt, Receive
    <2>2. Step(w, a) /\ b.pc = "receive" BY <1>5 DEF Receive
    <2>3. Honest(a, chunks', disk', ref) BY <1>1, <2>1, <2>2 DEF Honest, InFlight
    <2> QED BY <2>2, <2>3
  <1>6. ASSUME NEW res \in {"none", "ok", "transient"}, b.pc = "receive", Flush(w, res), UNCHANGED chunks
        PROVE  \E a : Step(w, a) /\ Honest(a, chunks', disk', ref)
    BY <1>2, <1>6, FlushHonest
  <1>7. CASE AnswerFails(w) \/ AnswerRefused(w) \/ AnswerChanged(w)
    BY <1>4, <1>7 DEF AnswerFails, AnswerRefused, AnswerChanged
  <1>8. CASE BodyEnds(w) \/ FlushDue(w) \/ BodyBreaks(w) \/ Interrupted(w)
    <2>1. UNCHANGED chunks BY <1>8 DEF BodyEnds, FlushDue, BodyBreaks, Interrupted, Quiet, manager
    <2> QED BY <1>4, <1>6, <1>8, <2>1 DEF BodyEnds, FlushDue, BodyBreaks, Interrupted
  <1> QED BY <1>3, <1>5, <1>7, <1>8

(* A batch is in the file before the worker says so; ... *)
LEMMA WriteHonest ==
  ASSUME Inv, Safe, NEW w \in Workers, WriteOut(w) \/ WriteFails(w)
  PROVE  \E a : Step(w, a) /\ Honest(a, chunks', disk', ref)
  <1> DEFINE b == worker[w]
  <1>1. b \in Attempt /\ Honest(b, chunks, disk, ref) /\ Sound(b, Len(chunks)) BY WorkerFacts DEF Safe, AllHonest
  <1>2. b.pc = "writing" /\ b.ver = ref BY <1>1 DEF WriteOut, WriteFails, Honest, InFlight
  <1>3. CASE WriteOut(w)
    <2> DEFINE a == [b EXCEPT !.pc = "written"]
    <2>1. a.pc = "written" /\ a.whole = b.whole /\ a.ver = b.ver /\ a.pos = b.pos /\ a.buf = b.buf
      BY <1>1 DEF Attempt
    <2>2. Step(w, a) /\ disk' = Put(b, b.buf) BY <1>3 DEF WriteOut
    <2> HIDE DEF a
    <2>3. Batch(a) \subseteq Byte
      <3>1. b.pos \in Int /\ 0 <= b.pos /\ b.buf \in Nat /\ b.pos + b.buf <= Size BY <1>1, AttemptFields DEF Sound
      <3> QED BY <2>1, <3>1, ManagerAssumption DEF Batch, Byte
    <2>4. Batch(a) \subseteq Holds(disk', ref) BY <1>2, <2>1, <2>2, <2>3 DEF Batch, Put, Holds
    <2>5. Honest(a, chunks', disk', ref) BY <1>1, <1>2, <2>1, <2>4 DEF Honest
    <2> QED BY <2>2, <2>5
  <1>4. CASE WriteFails(w)
    <2> DEFINE a == [b EXCEPT !.pc = "settle", !.buf = 0, !.res = "fatal"]
    <2>1. a.pc = "settle" /\ a.whole = b.whole /\ a.res = "fatal" BY <1>1 DEF Attempt
    <2>2. Step(w, a) BY <1>4 DEF WriteFails
    <2>3. Honest(a, chunks', disk', ref) BY <1>1, <2>1 DEF Honest, InFlight
    <2> QED BY <2>2, <2>3
  <1> QED BY <1>3, <1>4

(* ... then its chunk's offset follows, unless the chunk was taken over. *)
LEMMA AdvanceSays ==
  ASSUME Inv, Safe, NEW w \in Workers, Advance(w)
  PROVE  /\ \E a : Step(w, a) /\ Honest(a, chunks', disk', ref)
         /\ Covered(chunks) \subseteq Covered(chunks')
         /\ Covered(chunks') \subseteq Covered(chunks) \cup Batch(worker[w])
  <1> DEFINE b == worker[w]
             i == b.chunk
             pos == b.pos + b.buf
             over == b.res # "none" \/ (~b.revoked /\ pos > Own(w).end)
             res == Verdict(w, IF b.res = "none" THEN "ok" ELSE b.res, pos)
             a == [b EXCEPT !.pc = IF over THEN "settle" ELSE "receive", !.pos = pos, !.buf = 0,
                            !.res = IF over THEN res ELSE "none"]
  <1>1. b \in Attempt /\ Honest(b, chunks, disk, ref) /\ Sound(b, Len(chunks)) BY WorkerFacts DEF Safe, AllHonest
  <1>2. b.pc = "written" /\ Step(w, a) /\ b.chunk # 0 BY <1>1 DEF Advance, Sound
  <1>3. /\ chunks \in Seq(Chunk) /\ DOMAIN chunks = 1 .. Len(chunks) /\ Len(chunks) \in Nat
        /\ i \in 1 .. Len(chunks) /\ chunks[i] \in Chunk
    BY <1>2, WorkerFacts, TableFacts DEF Own
  <1>4. /\ b.pos \in Int /\ b.buf \in Nat /\ chunks[i].start \in Int /\ chunks[i].end \in Int /\ pos \in Int
    BY <1>1, <1>3, AttemptFields, ChunkFields
  <1>5. /\ a.pc = IF over THEN "settle" ELSE "receive"
        /\ a.res = IF over THEN res ELSE "none"
        /\ a.whole = b.whole /\ a.ver = b.ver /\ a.chunk = b.chunk /\ a.revoked = b.revoked
    BY <1>1 DEF Attempt
  <1> HIDE DEF a, over, pos
  <1>6. CASE b.revoked
    <2>1. chunks' = chunks BY <1>6 DEF Advance
    <2>2. Honest(a, chunks', disk', ref) BY <1>1, <1>2, <1>5, <1>6 DEF Honest, Live, InFlight
    <2> QED BY <1>2, <2>1, <2>2
  <1>7. CASE ~b.revoked
    <2>1. chunks' = [chunks EXCEPT ![i].cur = pos] BY <1>7 DEF Advance, pos
    <2>2. chunks[i].cur = b.pos /\ chunks[i].status = "Assigned"
      BY <1>2, <1>7, WorkerFacts DEF Live, Serves, InFlight, Own
    <2> HIDE DEF i
    <2>3. chunks'[i] = [chunks[i] EXCEPT !.cur = pos] /\ \A j \in 1 .. Len(chunks) : j # i => chunks'[j] = chunks[j]
      BY <1>3, <2>1
    <2>4. /\ chunks'[i].start = chunks[i].start /\ chunks'[i].end = chunks[i].end
          /\ chunks'[i].cur = pos /\ chunks'[i].status = "Assigned"
      BY <1>3, <2>2, <2>3 DEF Chunk
    <2>5. Len(chunks') = Len(chunks) BY GoingOnTable DEF GoingOn
    <2>6. Honest(a, chunks', disk', ref)
      <3>1. over /\ res = "ok" => chunks'[i].cur > chunks'[i].end
        BY <1>4, <2>4 DEF Verdict, Own, i
      <3> QED BY <1>1, <1>2, <1>5, <3>1 DEF Honest, InFlight, i
    <2>7. \A x : /\ x \in Written(chunks[i]) <=> x \in chunks[i].start .. chunks[i].end /\ x < b.pos
                 /\ x \in Written(chunks'[i]) <=> x \in chunks[i].start .. chunks[i].end /\ x < pos
      BY <2>2, <2>4 DEF Written, Span
    <2>8. Written(chunks[i]) \subseteq Written(chunks'[i]) /\ Written(chunks'[i]) \subseteq Written(chunks[i]) \cup Batch(b)
      BY <1>4, <2>7 DEF Batch, pos
    <2>9. \A j \in 1 .. Len(chunks) : /\ Written(chunks[j]) \subseteq Written(chunks'[j])
                                      /\ Written(chunks'[j]) \subseteq Written(chunks[j]) \cup Batch(b)
      BY <2>3, <2>8
    <2>10. /\ Covered(chunks) \subseteq Covered(chunks')
           /\ Covered(chunks') \subseteq Covered(chunks) \cup Batch(b)
      BY <2>5, <2>9 DEF Covered
    <2> QED BY <1>2, <2>6, <2>10
  <1> QED BY <1>6, <1>7

LEMMA GoingOnSafe == ASSUME Inv, Books, Safe, NEW w \in Workers, GoingOn(w) PROVE Safe'
  <1>1. WorkerStep(w) BY DEF WorkerStep, GoingOn
  <1>2. Inv' /\ ~Joined /\ part BY <1>1, WorkerStepInv, AtWork DEF Safe
  <1>3. PICK a : Step(w, a) /\ Honest(a, chunks', disk', ref)
    BY AnswerHonest, WriteHonest, AdvanceSays DEF GoingOn
  <1>4. /\ UNCHANGED <<run, durable, part, saved, final, thief>> /\ Len(chunks') = Len(chunks)
        /\ Holds(disk, ref) \subseteq Holds(disk', ref)
    BY GoingOnTable, GoingOnDisk
  <1>5. \A i \in 1 .. Len(chunks) : /\ chunks'[i].status = chunks[i].status
                                    /\ chunks'[i].start = chunks[i].start /\ chunks'[i].end = chunks[i].end
                                    /\ i # worker[w].chunk \/ ~Advance(w) => chunks'[i].cur = chunks[i].cur
    BY GoingOnTable
  <1>6. Covered(chunks) \subseteq Covered(chunks') /\ Covered(chunks') \subseteq Holds(disk', ref)
    <2>1. Covered(chunks) \subseteq Holds(disk, ref) BY <1>2 DEF Safe, Counted
    <2>2. CASE Advance(w)
      <3>1. Batch(worker[w]) \subseteq Holds(disk, ref) BY <2>2 DEF Advance, Safe, AllHonest, Honest
      <3> QED BY <1>4, <2>1, <2>2, <3>1, AdvanceSays
    <2>3. CASE ~Advance(w)
      <3>1. \A i \in 1 .. Len(chunks) : Written(chunks'[i]) = Written(chunks[i]) BY <1>5, <2>3 DEF Written, Span
      <3>2. Covered(chunks') = Covered(chunks) BY <1>4, <3>1 DEF Covered
      <3> QED BY <1>4, <2>1, <3>2
    <2> QED BY <2>2, <2>3
  <1>7. AllPartial(chunks') BY <1>4, <1>5 DEF Safe, AllPartial, Partial
  <1>8. AllHonest([worker EXCEPT ![w] = a], chunks', disk', ref)
    <2>1. ASSUME NEW u \in Workers \ {w}, Live(worker[u]), chunks[worker[u].chunk].cur > chunks[worker[u].chunk].end
          PROVE  chunks'[worker[u].chunk].cur > chunks'[worker[u].chunk].end
      <3>1. worker[u].chunk \in 1 .. Len(chunks) BY <2>1, WorkerFacts DEF Live
      <3>2. CASE Advance(w) /\ worker[w].revoked
        <4>1. chunks' = chunks BY <3>2 DEF Advance
        <4> QED BY <2>1, <4>1
      <3>3. CASE Advance(w) /\ ~worker[w].revoked
        <4>1. Live(worker[w]) BY <3>3, WorkerFacts DEF Advance, Sound, Live
        <4>2. worker[u].chunk # worker[w].chunk BY <2>1, <4>1 DEF Inv, Serving
        <4> QED BY <1>5, <2>1, <3>1, <4>2
      <3>4. CASE ~Advance(w) BY <1>5, <2>1, <3>1, <3>4
      <3> QED BY <3>2, <3>3, <3>4
    <2>2. worker \in [Workers -> Attempt] /\ AllHonest(worker, chunks, disk, ref) BY BooksFacts DEF Safe
    <2> QED BY <1>3, <1>4, <2>1, <2>2, OneHonest
  <1>9. AllHonest(worker', chunks', disk', ref) BY <1>3, <1>8 DEF Step
  <1>10. Firm(chunks, thief) \subseteq Firm(chunks', thief') BY <1>4, <1>6 DEF Firm
  <1>11. Len(chunks) <= Len(chunks') BY <1>4, BooksFacts
  <1> QED BY <1>2, <1>4, <1>6, <1>7, <1>9, <1>10, <1>11, WorkerKeeps

(* A worker that has the lock goes on looking: what it chooses to steal, nobody has counted. *)
LEMMA PickStealFirm ==
  ASSUME Inv, NEW w \in Workers, PickSteal(w)
  PROVE  Covered(chunks) \cap Stolen(thief') = {}
  <1>1. Table(chunks) /\ DOMAIN chunks = 1 .. Len(chunks) BY WorkerFacts, TableFacts
  <1>2. PICK i \in 1 .. Len(chunks) :
          /\ chunks[i].status = "Assigned"
          /\ \E n \in Stealable(i) :
               thief' = [by |-> w, op |-> "steal", victim |-> i, end |-> chunks[i].end, take |-> n]
    BY <1>1 DEF PickSteal
  <1>3. PICK n \in Stealable(i) :
          thief' = [by |-> w, op |-> "steal", victim |-> i, end |-> chunks[i].end, take |-> n]
    BY <1>2
  <1> DEFINE c == chunks[i]
             pos == IF c.got > c.cur THEN c.got ELSE c.cur
  <1>4. c \in Chunk BY <1>1, TableFacts
  <1>5. c.end \in Int /\ c.cur \in Int /\ c.got \in Int BY <1>4, ChunkFields
  <1>6. pos \in Int /\ c.cur <= pos BY <1>5
  <1>7. Unreceived(c) = IF pos <= c.end THEN c.end + 1 - pos ELSE 0 BY DEF Unreceived
  <1>8. n \in MinSteal .. Unreceived(c) - 1 BY <1>3 DEF Stealable
  <1> HIDE DEF pos
  <1>9. n \in Int /\ 1 <= n /\ n <= Unreceived(c) - 1 BY <1>5, <1>6, <1>7, <1>8, ManagerAssumption
  <1>10. c.cur < c.end + 1 - n BY <1>5, <1>6, <1>7, <1>9
  <1>11. Stolen(thief') \subseteq c.end + 1 - n .. c.end BY <1>3 DEF Stolen
  <1>12. ASSUME NEW b \in c.end + 1 - n .. c.end PROVE b \notin Covered(chunks)
    <2>1. b \in c.cur .. c.end BY <1>5, <1>9, <1>10
    <2>2. c.status # "Completed" BY <1>2
    <2> QED BY <1>1, <2>1, <2>2, Unwritten
  <1> QED BY <1>11, <1>12

LEMMA LookSafe ==
  ASSUME Inv, Books, Safe, NEW w \in Workers,
         LookForVictim(w) \/ FindNothing(w) \/ PickSilent(w) \/ PickSteal(w)
  PROVE  Safe'
  <1>1. WorkerStep(w) BY DEF WorkerStep
  <1>2. Inv' /\ ~Joined /\ part BY <1>1, WorkerStepInv, AtWork DEF Safe
  <1>3. UNCHANGED <<chunks, worker, run, files>> /\ UNCHANGED <<disk, durable, part, saved, final>>
    BY DEF LookForVictim, FindNothing, PickSilent, PickSteal, KeepRun, manager, files
  <1>4. Stolen(thief) = {}
    BY DEF LookForVictim, FindNothing, PickSilent, PickSteal, Unlocked, Holding, Stolen
  <1>5. Covered(chunks) \cap Stolen(thief') = {}
    <2>1. CASE LookForVictim(w) \/ FindNothing(w) \/ PickSilent(w)
      <3>1. Stolen(thief') = {} BY <2>1 DEF LookForVictim, FindNothing, PickSilent, Looking, Stolen
      <3> QED BY <3>1
    <2> QED BY <2>1, PickStealFirm
  <1>6. Firm(chunks, thief) \subseteq Firm(chunks', thief') BY <1>3, <1>4, <1>5 DEF Firm
  <1>7. AllPartial(chunks') /\ AllHonest(worker', chunks', disk', ref) BY <1>3 DEF Safe
  <1>8. Covered(chunks') \subseteq Holds(disk', ref) /\ Holds(disk, ref) \subseteq Holds(disk', ref)
    BY <1>2, <1>3 DEF Safe, Counted
  <1>9. Len(chunks) <= Len(chunks') BY <1>3, BooksFacts
  <1> QED BY <1>2, <1>3, <1>6, <1>7, <1>8, <1>9, WorkerKeeps

(* ... or changes chunk i, and its own attempt. *)
LEMMA LockedSafe ==
  ASSUME Inv, Books, Safe, NEW w \in Workers, WorkerStep(w), NEW a, Step(w, a), UNCHANGED <<run, files>>,
         NEW ds, chunks' = ds, NEW i \in 1 .. Len(chunks), ChangesAt(chunks, ds, i),
         Covered(ds) \subseteq Covered(chunks), Firm(chunks, thief) \subseteq Firm(ds, thief'),
         Partial(ds[i]), \A j \in 1 .. Len(ds) : j > Len(chunks) => Partial(ds[j]), Honest(a, ds, disk, ref),
         \A u \in Workers \ {w} : Live(worker[u]) /\ worker[u].chunk = i =>
           (chunks[i].cur > chunks[i].end => ds[i].cur > ds[i].end)
  PROVE  Safe'
  <1>1. Inv' /\ ~Joined /\ part BY WorkerStepInv, AtWork DEF Safe
  <1>2. UNCHANGED <<disk, durable, part, saved, final>> BY DEF files
  <1>3. worker \in [Workers -> Attempt] /\ Len(chunks) \in Nat BY BooksFacts
  <1>4. AllPartial(ds) BY <1>3, PartialKept DEF Safe
  <1>5. AllHonest([worker EXCEPT ![w] = a], ds, disk, ref)
    <2>1. ASSUME NEW u \in Workers \ {w}, Live(worker[u]), chunks[worker[u].chunk].cur > chunks[worker[u].chunk].end
          PROVE  ds[worker[u].chunk].cur > ds[worker[u].chunk].end
      <3>1. worker[u].chunk \in 1 .. Len(chunks) BY <2>1, WorkerFacts DEF Live
      <3> QED BY <2>1, <3>1 DEF ChangesAt
    <2>2. AllHonest(worker, chunks, disk, ref) BY DEF Safe
    <2> QED BY <1>3, <2>1, <2>2, OneHonest
  <1>6. AllHonest(worker', ds, disk', ref) BY <1>2, <1>5 DEF Step
  <1>7. Covered(ds) \subseteq Holds(disk', ref) /\ Holds(disk, ref) \subseteq Holds(disk', ref)
    BY <1>1, <1>2 DEF Safe, Counted
  <1>8. Len(chunks) <= Len(chunks') BY <1>3 DEF ChangesAt
  <1> QED BY <1>1, <1>2, <1>4, <1>6, <1>7, <1>8, WorkerKeeps

LEMMA HandOutSafe ==
  ASSUME Inv, Books, Safe, NEW w \in Workers, TakeRetry(w) \/ TakeFresh(w) PROVE Safe'
  <1>1. PICK i \in 1 .. Len(chunks) : /\ chunks[i].status # "Completed"
                                      /\ chunks' = Assign(chunks, i) /\ Step(w, AttemptAt(i))
    <2>1. CASE TakeRetry(w)
      <3>1. DOMAIN retryQueue = 1 .. Len(retryQueue) BY LenProperties DEF Inv, Queued
      <3>2. PICK k \in 1 .. Len(retryQueue) : GetRetry(k) /\ Step(w, AttemptAt(retryQueue[k]))
        BY <2>1, <3>1 DEF TakeRetry
      <3>3. retryQueue[k] \in 1 .. Len(chunks) /\ chunks[retryQueue[k]].status = "Failed" BY DEF Inv, Queued
      <3> QED BY <3>2, <3>3 DEF GetRetry
    <2>2. CASE TakeFresh(w)
      <3>1. DOMAIN chunks = 1 .. Len(chunks) BY WorkerFacts, TableFacts
      <3>2. PICK i \in 1 .. Len(chunks) : GetFresh(i) /\ Step(w, AttemptAt(i)) BY <2>2, <3>1 DEF TakeFresh
      <3> QED BY <3>2 DEF GetFresh, FreshFrom
    <2> QED BY <2>1, <2>2
  <1> DEFINE ds == Assign(chunks, i)
  <1>2. Table(chunks) /\ Len(chunks) \in Nat BY BooksFacts
  <1>3. /\ Len(ds) = Len(chunks) /\ ds[i].status = "Assigned" /\ ds[i].cur = chunks[i].cur
        /\ ds[i].start = chunks[i].start /\ ds[i].end = chunks[i].end
        /\ \A j \in 1 .. Len(chunks) : j # i => ds[j] = chunks[j]
        /\ Covered(ds) = Covered(chunks)
    BY <1>1, <1>2, AssignKeepsTable, AssignCovers
  <1>4. chunks' = ds BY <1>1
  <1> HIDE DEF ds
  <1>5. ChangesAt(chunks, ds, i) BY <1>2, <1>3 DEF ChangesAt
  <1>6. Partial(ds[i]) BY <1>1, <1>3 DEF Safe, AllPartial, Partial
  <1>7. \A j \in 1 .. Len(ds) : ~(j > Len(chunks)) BY <1>2, <1>3
  <1>8. Honest(AttemptAt(i), ds, disk, ref) BY <1>1, AttemptAtHonest DEF Safe
  <1>9. UNCHANGED <<run, files, thief>> BY DEF TakeRetry, TakeFresh, KeepRun
  <1>10. WorkerStep(w) BY DEF WorkerStep
  <1>11. Covered(ds) \subseteq Covered(chunks) /\ Firm(chunks, thief) \subseteq Firm(ds, thief')
    BY <1>3, <1>9 DEF Firm
  <1> QED BY <1>1, <1>3, <1>4, <1>5, <1>6, <1>7, <1>8, <1>9, <1>10, <1>11, LockedSafe

(* The thief cuts its victim: of what was counted, it takes nothing but what it had chosen. *)
LEMMA StealSafe == ASSUME Inv, Books, Safe, NEW w \in Workers, DoSteal(w) PROVE Safe'
  <1> DEFINE i == thief.victim
             m == thief.end - thief.take
             n == Len(chunks) + 1
             ds == Append([chunks EXCEPT ![i].end = m], NewChunk(m + 1, chunks[i].end, "Assigned"))
             a == NewAttempt(n)
  <1>1. /\ thief \in Thief /\ i \in 1 .. Len(chunks) /\ chunks[i].status = "Assigned"
        /\ thief.end = chunks[i].end /\ 1 <= thief.take /\ chunks[i].start <= m
        /\ thief # None /\ thief.by = w /\ thief.op = "steal"
    <2>1. thief # None /\ thief.op = "steal" /\ thief.by = w BY DEF DoSteal, Holding
    <2> QED BY <2>1 DEF Inv, Thieving
  <1>2. Table(chunks) /\ Len(chunks) \in Nat /\ chunks[i] \in Chunk BY <1>1, WorkerFacts, TableFacts
  <1>3. thief.end \in Int /\ thief.take \in Int BY <1>1, ManagerAssumption DEF Thief
  <1>4. m \in Int /\ m < chunks[i].end /\ thief.end + 1 - thief.take = m + 1 BY <1>1, <1>3
  <1>5. chunks' = ds /\ UNCHANGED <<run, files>>
    <2>1. Steal(i, thief.end, thief.take) /\ KeepRun BY DEF DoSteal
    <2> QED BY <2>1, <1>1, <1>4 DEF Steal, KeepRun
  <1>6. Step(w, a) /\ thief' = None BY DEF DoSteal
  <1> HIDE DEF i, m
  <1>7. "Assigned" \in Status /\ "Assigned" \in Status \ {"Completed"} BY DEF Status
  <1>8. /\ Len(ds) = n /\ ds[i] = [chunks[i] EXCEPT !.end = m]
        /\ \A j \in 1 .. Len(chunks) : j # i => ds[j] = chunks[j]
        /\ ds[n] = NewChunk(m + 1, chunks[i].end, "Assigned")
        /\ Covered(ds) \subseteq Covered(chunks)
        /\ Covered(chunks) \ (m + 1 .. chunks[i].end) \subseteq Covered(ds)
    <2>1. chunks[i].start <= m BY <1>1 DEF m
    <2>2. i \in 1 .. Len(chunks) /\ chunks[i].status # "Completed" BY <1>1
    <2>3. /\ Len(ds) = n /\ ds[i] = [chunks[i] EXCEPT !.end = m]
          /\ \A j \in 1 .. Len(chunks) : j # i => ds[j] = chunks[j]
          /\ ds[n] = NewChunk(m + 1, chunks[i].end, "Assigned")
      BY <1>2, <1>4, <1>7, <2>1, <2>2, SplitKeepsTable
    <2>4. /\ Covered(ds) \subseteq Covered(chunks)
          /\ Covered(chunks) \ (m + 1 .. chunks[i].end) \subseteq Covered(ds)
      BY <1>2, <1>4, <1>7, <2>1, <2>2, SplitCovers
    <2> QED BY <2>3, <2>4
  <1> HIDE DEF ds
  <1>9. ds[i].end = m /\ ds[i].cur = chunks[i].cur /\ ds[n].start = m + 1 BY <1>2, <1>8 DEF Chunk, NewChunk
  <1>10. ChangesAt(chunks, ds, i) /\ \A j \in 1 .. Len(ds) : j > Len(chunks) => j = n
    BY <1>2, <1>8 DEF ChangesAt
  <1>11. chunks[i].start \in Int /\ 0 <= chunks[i].start /\ chunks[i].end \in Int /\ chunks[i].end < Size
         /\ chunks[i].cur \in Int /\ chunks[i].start <= m
    <2>1. chunks[i].start <= m BY <1>1 DEF m
    <2> QED BY <1>2, <2>1, ChunkFields
  <1>12. Partial(ds[i]) /\ Partial(ds[n])
    <2>1. ds[i].end < Size - 1 BY <1>4, <1>9, <1>11, ManagerAssumption
    <2>2. ds[n].start > 0 BY <1>4, <1>9, <1>11
    <2> QED BY <2>1, <2>2 DEF Partial
  <1>13. \A j \in 1 .. Len(ds) : j > Len(chunks) => Partial(ds[j]) BY <1>10, <1>12
  <1>14. Honest(a, ds, disk, ref) BY DEF NewAttempt, NoAttempt, Honest, InFlight
  <1>15. chunks[i].cur > chunks[i].end => ds[i].cur > ds[i].end BY <1>4, <1>9, <1>11
  <1>16. Firm(chunks, thief) \subseteq Firm(ds, thief')
    <2>1. Stolen(thief) = m + 1 .. chunks[i].end BY <1>1, <1>4 DEF Stolen
    <2>2. Stolen(thief') = {} BY <1>6 DEF Stolen
    <2> QED BY <1>8, <2>1, <2>2 DEF Firm
  <1>17. WorkerStep(w) BY DEF WorkerStep
  <1> HIDE DEF a
  <1> QED BY <1>1, <1>5, <1>6, <1>8, <1>10, <1>12, <1>13, <1>14, <1>15, <1>16, <1>17, LockedSafe

(* A takeover counts what its victim wrote, or all of the chunk if that was all. *)
LEMMA TakeOverSafe == ASSUME Inv, Books, Safe, NEW w \in Workers, DoTakeOver(w) PROVE Safe'
  <1> DEFINE i == thief.victim
             gone == chunks[i].cur > chunks[i].end
  <1>1. /\ Table(chunks) /\ Len(chunks) \in Nat /\ i \in 1 .. Len(chunks) /\ chunks[i].status = "Assigned"
        /\ chunks[i] \in Chunk /\ thief # None /\ thief.by = w /\ thief.op = "takeover"
    <2>1. Table(chunks) /\ Len(chunks) \in Nat BY WorkerFacts
    <2>2. /\ i \in 1 .. Len(chunks) /\ chunks[i].status = "Assigned"
          /\ thief # None /\ thief.by = w /\ thief.op = "takeover"
      BY DEF Inv, Thieving, DoTakeOver, Holding
    <2> QED BY <2>1, <2>2, TableFacts
  <1>2. TakeOver(i) /\ UNCHANGED <<run, files>> BY DEF DoTakeOver, KeepRun
  <1>3. worker' = [v \in Workers |-> IF v = w /\ ~gone THEN AttemptAt(i) ELSE Revoked(worker[v], i)]
    BY DEF DoTakeOver, Revoked
  <1>4. Stolen(thief) = {} /\ Stolen(thief') = {}
    <2>1. thief' = IF gone THEN Looking(w, "search") ELSE None BY DEF DoTakeOver
    <2> QED BY <1>1, <2>1 DEF Stolen, Looking
  <1> HIDE DEF i
  <1>5. WorkerStep(w) BY DEF WorkerStep
  <1>6. Inv' /\ ~Joined /\ part BY <1>5, WorkerStepInv, AtWork DEF Safe
  <1>7. UNCHANGED <<disk, durable, part, saved, final>> BY <1>2 DEF files
  <1>8. ASSUME NEW ds, chunks' = ds, ChangesAt(chunks, ds, i), Covered(ds) = Covered(chunks), Partial(ds[i]),
               \A j \in 1 .. Len(ds) : j > Len(chunks) => Partial(ds[j])
        PROVE  Safe'
    <2>1. AllPartial(ds) BY <1>1, <1>8, PartialKept DEF Safe
    <2>2. ASSUME NEW v \in Workers PROVE Honest(Revoked(worker[v], i), ds, disk, ref)
      <3>1. Honest(worker[v], chunks, disk, ref) /\ worker[v] \in Attempt BY BooksFacts DEF Safe, AllHonest
      <3>2. CASE worker[v].chunk = i
        <4> DEFINE r == [worker[v] EXCEPT !.revoked = TRUE]
        <4>1. /\ r.pc = worker[v].pc /\ r.whole = worker[v].whole /\ r.ver = worker[v].ver /\ r.revoked
              /\ r.pos = worker[v].pos /\ r.buf = worker[v].buf
          BY <3>1 DEF Attempt
        <4> HIDE DEF r
        <4>2. Honest(r, ds, disk, ref) BY <3>1, <4>1 DEF Honest, Live, Batch
        <4> QED BY <3>2, <4>2 DEF Revoked, r
      <3>3. CASE worker[v].chunk # i
        <4>1. worker[v].chunk # 0 => ds[worker[v].chunk] = chunks[worker[v].chunk]
          BY <1>8, <3>3, WorkerFacts DEF ChangesAt
        <4> QED BY <3>1, <3>3, <4>1 DEF Revoked, Honest, Live
      <3> QED BY <3>2, <3>3
    <2>3. Honest(AttemptAt(i), ds, disk, ref) BY <1>1, AttemptAtHonest DEF Safe
    <2>4. AllHonest(worker', ds, disk', ref) BY <1>3, <1>7, <2>2, <2>3 DEF AllHonest
    <2>5. Covered(ds) \subseteq Holds(disk', ref) /\ Holds(disk, ref) \subseteq Holds(disk', ref)
      BY <1>6, <1>7, <1>8 DEF Safe, Counted
    <2>6. Firm(chunks, thief) \subseteq Firm(ds, thief') BY <1>4, <1>8 DEF Firm
    <2>7. Len(chunks) <= Len(ds) BY <1>1, <1>8 DEF ChangesAt
    <2> QED BY <1>2, <1>6, <1>7, <1>8, <2>1, <2>4, <2>5, <2>6, <2>7, WorkerKeeps
  <1>9. CASE gone
    <2> DEFINE ds == [chunks EXCEPT ![i].status = "Completed"]
    <2>1. chunks' = ds BY <1>2, <1>9 DEF TakeOver
    <2>2. /\ Len(ds) = Len(chunks) /\ ds[i].status = "Completed"
          /\ \A j \in 1 .. Len(chunks) : j # i => ds[j] = chunks[j]
      <3>1. "Completed" \in Status BY DEF Status
      <3> QED BY <1>1, <3>1, StatusKeepsTable
    <2>3. Covered(ds) = Covered(chunks) BY <1>1, <1>9, CompleteCovers
    <2> HIDE DEF ds
    <2>4. ChangesAt(chunks, ds, i) /\ \A j \in 1 .. Len(ds) : ~(j > Len(chunks)) BY <1>1, <2>2 DEF ChangesAt
    <2> QED BY <1>8, <2>1, <2>2, <2>3, <2>4 DEF Partial
  <1>10. CASE ~gone
    <2> DEFINE es == Carve(chunks, i)
               ds == Assign(es, i)
    <2>1. chunks' = ds BY <1>2, <1>10 DEF TakeOver
    <2>2. chunks[i].cur <= chunks[i].end BY <1>1, <1>10, ChunkFields
    <2>3. /\ Table(es) /\ Len(es) \in Len(chunks) .. Len(chunks) + 1
          /\ es[i] = [chunks[i] EXCEPT !.start = chunks[i].cur]
          /\ \A j \in 1 .. Len(chunks) : j # i => es[j] = chunks[j]
          /\ \A j \in 1 .. Len(es) : j > Len(chunks) => es[j].status = "Completed"
      BY <1>1, <2>2, CarveKeepsTable
    <2>4. Covered(es) = Covered(chunks) BY <1>1, <2>2, CarveCovers
    <2> HIDE DEF es
    <2>5. /\ i \in 1 .. Len(es) /\ Len(es) \in Nat /\ es[i].status # "Completed"
          /\ es[i].start = chunks[i].cur /\ es[i].end = chunks[i].end
      BY <1>1, <2>3 DEF Chunk
    <2>6. /\ Len(ds) = Len(es) /\ ds[i].start = es[i].start /\ ds[i].end = es[i].end
          /\ \A j \in 1 .. Len(es) : j # i => ds[j] = es[j]
          /\ Covered(ds) = Covered(es)
      <3>1. /\ Len(ds) = Len(es) /\ ds[i].start = es[i].start /\ ds[i].end = es[i].end
            /\ \A j \in 1 .. Len(es) : j # i => ds[j] = es[j]
        <4>1. \A xs : Table(xs) => \A k \in 1 .. Len(xs) :
                /\ Len(Assign(xs, k)) = Len(xs)
                /\ Assign(xs, k)[k].start = xs[k].start /\ Assign(xs, k)[k].end = xs[k].end
                /\ \A j \in 1 .. Len(xs) : j # k => Assign(xs, k)[j] = xs[j]
          BY AssignKeepsTable
        <4> QED BY <2>3, <2>5, <4>1
      <3>2. Covered(ds) = Covered(es) BY <2>3, <2>5, AssignCovers
      <3> QED BY <3>1, <3>2
    <2> HIDE DEF ds
    <2>7. ChangesAt(chunks, ds, i) BY <1>1, <2>3, <2>5, <2>6 DEF ChangesAt
    <2>8. \A j \in 1 .. Len(ds) : j > Len(chunks) => Partial(ds[j])
      <3>1. \A j \in 1 .. Len(ds) : j > Len(chunks) => j # i BY <1>1, <2>5, <2>6
      <3> QED BY <3>1, <2>3, <2>6 DEF Partial
    <2>9. Partial(ds[i])
      <3>1. chunks[i].start > 0 \/ chunks[i].end < Size - 1 BY <1>1 DEF Safe, AllPartial, Partial
      <3>2. chunks[i].start <= chunks[i].cur /\ chunks[i].start \in Int /\ chunks[i].cur \in Int
        BY <1>1, TableFacts, ChunkFields DEF Table
      <3> QED BY <2>5, <2>6, <3>1, <3>2 DEF Partial
    <2> QED BY <1>8, <2>1, <2>4, <2>6, <2>7, <2>8, <2>9
  <1> QED BY <1>9, <1>10

(* A worker settles its own chunk: finished, it was written to its end. *)
LEMMA CompletedSafe ==
  ASSUME Inv, Books, Safe, NEW w \in Workers, Settle(w), Live(worker[w]), MarkCompleted(worker[w].chunk),
         Own(w).cur > Own(w).end, Step(w, NoAttempt("idle")), UNCHANGED <<run, files, thief>>
  PROVE  Safe'
  <1> DEFINE i == worker[w].chunk
             ds == [chunks EXCEPT ![i].status = "Completed"]
  <1>1. /\ i \in 1 .. Len(chunks) /\ chunks[i].status = "Assigned" /\ Table(chunks) /\ Len(chunks) \in Nat
        /\ chunks[i].cur > chunks[i].end
    BY WorkerFacts DEF Live, Serves, Own
  <1>2. chunks' = ds BY <1>1 DEF MarkCompleted
  <1>3. WorkerStep(w) /\ \A u \in Workers \ {w} : Live(worker[u]) => worker[u].chunk # i
    BY DEF WorkerStep, Inv, Serving
  <1> HIDE DEF i
  <1>4. /\ Len(ds) = Len(chunks) /\ ds[i].status = "Completed"
        /\ \A j \in 1 .. Len(chunks) : j # i => ds[j] = chunks[j]
    <2>1. "Completed" \in Status BY DEF Status
    <2> QED BY <1>1, <2>1, StatusKeepsTable
  <1>5. Covered(ds) = Covered(chunks) BY <1>1, CompleteCovers
  <1> HIDE DEF ds
  <1>6. ChangesAt(chunks, ds, i) /\ \A j \in 1 .. Len(ds) : ~(j > Len(chunks)) BY <1>1, <1>4 DEF ChangesAt
  <1>7. Partial(ds[i]) BY <1>4 DEF Partial
  <1>8. Honest(NoAttempt("idle"), ds, disk, ref) BY NoAttemptHonest
  <1>9. Firm(chunks, thief) \subseteq Firm(ds, thief') BY <1>5 DEF Firm
  <1> QED BY <1>1, <1>2, <1>3, <1>5, <1>6, <1>7, <1>8, <1>9, LockedSafe

LEMMA RetrySafe ==
  ASSUME Inv, Books, Safe, NEW w \in Workers, NEW counts \in BOOLEAN, Settle(w), Live(worker[w]),
         Own(w).cur <= Own(w).end, Retry(worker[w].chunk, counts), Step(w, NoAttempt("idle")),
         UNCHANGED <<run, files, thief>>
  PROVE  Safe'
  <1> DEFINE i == worker[w].chunk
             n == IF chunks[i].cur > chunks[i].start THEN 0
                  ELSE IF counts THEN chunks[i].retries + 1 ELSE chunks[i].retries
             es == Carve(chunks, i)
             c == [es[i] EXCEPT !.status = "Failed", !.retries = n]
             ds == [es EXCEPT ![i] = c]
  <1>1. /\ i \in 1 .. Len(chunks) /\ chunks[i].status = "Assigned" /\ Table(chunks) /\ Len(chunks) \in Nat
        /\ chunks[i] \in Chunk /\ chunks[i].cur <= chunks[i].end
    BY WorkerFacts DEF Live, Serves, Own
  <1>2. chunks' = ds BY DEF Retry
  <1>3. WorkerStep(w) /\ \A u \in Workers \ {w} : Live(worker[u]) => worker[u].chunk # i
    BY DEF WorkerStep, Inv, Serving
  <1> HIDE DEF i
  <1>4. /\ Table(es) /\ Len(es) \in Len(chunks) .. Len(chunks) + 1
        /\ es[i] = [chunks[i] EXCEPT !.start = chunks[i].cur]
        /\ \A j \in 1 .. Len(chunks) : j # i => es[j] = chunks[j]
        /\ \A j \in 1 .. Len(es) : j > Len(chunks) => es[j].status = "Completed"
    BY <1>1, CarveKeepsTable
  <1>5. Covered(es) = Covered(chunks) BY <1>1, CarveCovers
  <1> HIDE DEF es, n
  <1>6. i \in 1 .. Len(es) /\ Len(es) \in Nat /\ es[i] \in Chunk /\ DOMAIN es = 1 .. Len(es)
    BY <1>1, <1>4, TableFacts
  <1>7. /\ es[i].status = "Assigned" /\ es[i].start = chunks[i].cur /\ es[i].end = chunks[i].end
        /\ c.status = "Failed" /\ c.start = es[i].start /\ c.end = es[i].end /\ c.cur = es[i].cur
    BY <1>1, <1>4, <1>6 DEF Chunk
  <1> HIDE DEF c
  <1>8. ds[i] = c /\ DOMAIN ds = 1 .. Len(es) /\ \A j \in 1 .. Len(es) : j # i => ds[j] = es[j] BY <1>6
  <1>9. Len(ds) = Len(es)
    <2>1. Table(ds)
      <3>1. Inv' BY <1>3, WorkerStepInv
      <3> QED BY <1>2, <3>1 DEF Inv, ManagerInv
    <2>2. Len(ds) \in Nat /\ DOMAIN ds = 1 .. Len(ds) BY <2>1, TableFacts
    <2> QED BY <1>6, <1>8, <2>2
  <1> HIDE DEF ds
  <1>10. Covered(ds) = Covered(chunks)
    <2>1. Written(ds[i]) = Written(es[i]) BY <1>7, <1>8 DEF Written, Span
    <2>2. \A j \in 1 .. Len(es) : Written(ds[j]) = Written(es[j]) BY <1>8, <2>1
    <2> QED BY <1>5, <1>9, <2>2 DEF Covered
  <1>11. ChangesAt(chunks, ds, i) BY <1>1, <1>4, <1>6, <1>8, <1>9 DEF ChangesAt
  <1>12. \A j \in 1 .. Len(ds) : j > Len(chunks) => Partial(ds[j])
    <2>1. \A j \in 1 .. Len(ds) : j > Len(chunks) => j # i BY <1>1, <1>6, <1>9
    <2> QED BY <1>4, <1>8, <1>9, <2>1 DEF Partial
  <1>13. Partial(ds[i])
    <2>1. chunks[i].start > 0 \/ chunks[i].end < Size - 1 BY <1>1 DEF Safe, AllPartial, Partial
    <2>2. chunks[i].start <= chunks[i].cur /\ chunks[i].start \in Int /\ chunks[i].cur \in Int
      BY <1>1, TableFacts, ChunkFields DEF Table
    <2> QED BY <1>7, <1>8, <2>1, <2>2 DEF Partial
  <1>14. Honest(NoAttempt("idle"), ds, disk, ref) BY NoAttemptHonest
  <1>15. Covered(ds) \subseteq Covered(chunks) /\ Firm(chunks, thief) \subseteq Firm(ds, thief')
    BY <1>10 DEF Firm
  <1> QED BY <1>1, <1>2, <1>3, <1>11, <1>12, <1>13, <1>14, <1>15, LockedSafe

(* A worker that settles nothing leaves everything as it was. *)
LEMMA EndsSafe ==
  ASSUME Inv, Books, Safe, NEW w \in Workers, WorkerStep(w), NEW pc \in {"idle", "stopped"},
         Step(w, NoAttempt(pc)), UNCHANGED <<chunks, run, files, thief>>
  PROVE  Safe'
  <1>1. Inv' /\ ~Joined /\ part BY WorkerStepInv, AtWork DEF Safe
  <1>2. UNCHANGED <<disk, durable, part, saved, final>> BY DEF files
  <1>3. AllHonest([worker EXCEPT ![w] = NoAttempt(pc)], chunks, disk, ref)
    <2>1. worker \in [Workers -> Attempt] /\ AllHonest(worker, chunks, disk, ref) BY BooksFacts DEF Safe
    <2> QED BY <2>1, NoAttemptHonest, OneHonest
  <1>4. AllHonest(worker', chunks', disk', ref) /\ AllPartial(chunks') BY <1>2, <1>3 DEF Step, Safe
  <1>5. Covered(chunks') \subseteq Holds(disk', ref) /\ Holds(disk, ref) \subseteq Holds(disk', ref)
    BY <1>1, <1>2 DEF Safe, Counted
  <1>6. Len(chunks) <= Len(chunks') /\ Firm(chunks, thief) \subseteq Firm(chunks', thief') BY BooksFacts
  <1> QED BY <1>1, <1>2, <1>4, <1>5, <1>6, WorkerKeeps

LEMMA SettleSafe ==
  ASSUME Inv, Books, Safe, NEW w \in Workers, Settle(w) \/ NoMirrorLeft(w) \/ Return(w) PROVE Safe'
  <1> DEFINE a == worker[w]
  <1>1. WorkerStep(w) BY DEF WorkerStep
  <1>2. CASE Return(w)
    <2>1. UNCHANGED <<chunks, run, files, thief>> BY <1>2 DEF Return, Quiet, KeepRun, manager
    <2> QED BY <1>1, <1>2, <2>1, EndsSafe DEF Return
  <1>3. CASE NoMirrorLeft(w)
    <2>1. UNCHANGED <<chunks, run, files, thief>> BY <1>3 DEF NoMirrorLeft, Abort, KeepRun
    <2> QED BY <1>1, <1>3, <2>1, EndsSafe DEF NoMirrorLeft
  <1>4. CASE Settle(w)
    <2>1. a \in Attempt /\ Sound(a, Len(chunks)) /\ a.pc = "settle" /\ a.res # "none" /\ a.chunk # 0
      BY <1>4, WorkerFacts DEF Sound, Settle
    <2>2. a.res \in {"ok", "transient", "refused", "fatal"} /\ a.revoked \in BOOLEAN
      BY <2>1, AttemptFields DEF Result
    <2>3. Step(w, NoAttempt("idle")) /\ UNCHANGED <<run, files, thief>> BY <1>4 DEF Settle, KeepRun
    <2>4. CASE a.res = "fatal" \/ a.revoked
      <3>1. Abort \/ UNCHANGED manager BY <1>4, <2>2, <2>4 DEF Settle
      <3>2. UNCHANGED chunks BY <3>1 DEF Abort, manager
      <3> QED BY <1>1, <2>3, <3>2, EndsSafe
    <2>5. CASE a.res = "ok" /\ ~a.revoked
      <3>1. MarkCompleted(a.chunk) BY <1>4, <2>5 DEF Settle
      <3>2. Live(a) BY <2>1, <2>5 DEF Live
      <3>3. Own(w).cur > Own(w).end BY <2>1, <2>5, <3>2 DEF Safe, AllHonest, Honest, Own
      <3> QED BY <1>4, <2>3, <3>1, <3>2, <3>3, CompletedSafe
    <2>6. CASE a.res \in {"transient", "refused"} /\ ~a.revoked
      <3>1. MarkFailed(a.chunk, a.res = "transient") BY <1>4, <2>6 DEF Settle
      <3>2. Live(a) /\ Own(w) \in Chunk /\ Own(w).status = "Assigned"
        BY <2>1, <2>6, WorkerFacts DEF Live, Serves
      <3>3. CASE Own(w).cur > Own(w).end
        <4>1. MarkCompleted(a.chunk) BY <3>1, <3>3 DEF MarkFailed, Own
        <4> QED BY <1>4, <2>3, <3>2, <3>3, <4>1, CompletedSafe
      <3>4. CASE ~(Own(w).cur > Own(w).end)
        <4>1. Retry(a.chunk, a.res = "transient") BY <3>1, <3>2, <3>4 DEF MarkFailed, Own
        <4>2. Own(w).cur <= Own(w).end BY <3>2, <3>4, ChunkFields
        <4>3. (a.res = "transient") \in BOOLEAN OBVIOUS
        <4> QED BY <1>4, <2>3, <3>2, <4>1, <4>2, <4>3, RetrySafe
      <3> QED BY <3>3, <3>4
    <2> QED BY <2>2, <2>4, <2>5, <2>6
  <1> QED BY <1>2, <1>3, <1>4

LEMMA WorkerStepSafe == ASSUME Inv, Books, Safe, NEW w \in Workers, WorkerStep(w) PROVE Safe'
  BY HandOutSafe, LookSafe, TakeOverSafe, StealSafe, GoingOnSafe, SettleSafe DEF WorkerStep, GoingOn

-----------------------------------------------------------------------------
(* The steps of the engine. *)

(* The table and the workers are left alone, and nobody works. *)
LEMMA StoppedStay ==
  ASSUME Safe, Joined, UNCHANGED <<manager, attempts>>
  PROVE  /\ AllPartial(chunks)' /\ AllHonest(worker, chunks, disk, ref)'
         /\ (\A w \in Workers : worker[w].pc = "stopped")' /\ chunks' = chunks
  <1>1. chunks' = chunks /\ worker' = worker BY DEF manager, attempts
  <1>2. \A w \in Workers : worker[w].pc = "stopped" /\ ~worker[w].whole
    BY DEF Safe, Phases, AllHonest, Honest
  <1>3. AllHonest(worker', chunks', disk', ref') BY <1>1, <1>2, StoppedHonest
  <1>4. AllPartial(chunks') BY <1>1 DEF Safe
  <1> QED BY <1>1, <1>2, <1>3, <1>4

(* Before the loop there is no table. *)
LEMMA PlanSafe ==
  ASSUME Inv, Safe, PlanResume \/ PlanFresh \/ PlanDiscard \/ DiscardState \/ RecordStart \/ OpenPart
  PROVE  Safe'
  <1>1. engine \in Planning \cup {"off"} /\ engine \notin Working
    BY DEF PlanResume, PlanFresh, PlanDiscard, DiscardState, RecordStart, OpenPart, Go, Planning, Working
  <1>2. UNCHANGED <<manager, attempts, outcome, final>>
    BY DEF PlanResume, PlanFresh, PlanDiscard, DiscardState, RecordStart, OpenPart, KeepWork, KeepLoop, files
  <1>3. Joined /\ chunks = <<>> /\ outcome = "none" BY <1>1 DEF Joined, Safe, Phases
  <1>4. /\ AllPartial(chunks)' /\ AllHonest(worker, chunks, disk, ref)'
        /\ (\A w \in Workers : worker[w].pc = "stopped")' /\ chunks' = <<>>
    BY <1>2, <1>3, StoppedStay
  <1>5. Counted(chunks, part, disk, ref)' BY <1>4, NothingCovered DEF Counted
  <1>6. engine' \in {"discarding", "planned", "opening", "filling"} /\ engine' \in Planning /\ engine' \notin Working
    BY DEF PlanResume, PlanFresh, PlanDiscard, DiscardState, RecordStart, OpenPart, Go, Planning, Working
  <1>7. (engine' = "discarding" => ~part') /\ (engine' = "filling" => part')
    BY DEF PlanResume, PlanFresh, PlanDiscard, DiscardState, RecordStart, OpenPart, Go
  <1>8. Phases' BY <1>2, <1>3, <1>4, <1>6, <1>7 DEF Phases
  <1>9. Whole'
    <2>1. FinalIsWhole' BY <1>2 DEF Safe, Whole, FinalIsWhole, Holds
    <2> QED BY <1>6, <2>1 DEF Whole
  <1>10. /\ engine' \notin {"syncing", "saving"} BY <1>6
  <1>11. CASE PlanResume
    <2>1. /\ part /\ saved.version = remote /\ ref' = remote /\ resume' = saved.held /\ engine' = "planned"
          /\ UNCHANGED <<disk, durable, part, saved>>
      BY <1>11 DEF PlanResume, Go, files
    <2>2. ResumeIsSafe' BY <2>1 DEF Safe, Saves, ResumeIsSafe, Holds
    <2>3. resume' \subseteq Holds(disk', ref') \cap Holds(durable', ref')
      BY <2>1 DEF Safe, Saves, ResumeIsSafe, Holds
    <2> QED BY <1>4, <1>5, <1>6, <1>8, <1>9, <2>1, <2>2, <2>3 DEF Safe, Saves, Holds
  <1>12. CASE PlanFresh
    <2>1. ~part' /\ resume' = {} /\ engine' = "planned" BY <1>12 DEF PlanFresh, Go, files
    <2> QED BY <1>4, <1>5, <1>6, <1>8, <1>9, <2>1 DEF Safe, Saves, ResumeIsSafe
  <1>13. CASE PlanDiscard
    <2>1. ~part' /\ resume' = {} /\ engine' = "discarding" BY <1>13 DEF PlanDiscard, Go
    <2> QED BY <1>4, <1>5, <1>6, <1>8, <1>9, <2>1 DEF Safe, Saves, ResumeIsSafe
  <1>14. CASE DiscardState
    <2>1. ~part /\ part' = part /\ engine' = "planned" /\ UNCHANGED <<resume, ref>> /\ engine \in Planning
      BY <1>14 DEF DiscardState, Go, KeepLoop, Safe, Phases, Planning
    <2>2. resume' = {} BY <2>1 DEF Safe, Saves
    <2> QED BY <1>4, <1>5, <1>6, <1>8, <1>9, <2>1, <2>2 DEF Safe, Saves, ResumeIsSafe
  <1>15. CASE RecordStart \/ OpenPart
    <2>1. /\ engine \in Planning /\ engine' \in {"opening", "filling"}
          /\ UNCHANGED <<resume, ref, disk, durable>> /\ (engine' = "opening" => part' = part)
      BY <1>15 DEF RecordStart, OpenPart, Go, KeepLoop, Planning
    <2>2. saved' = [version |-> ref, held |-> resume]
      BY <1>15 DEF RecordStart, OpenPart, Go, Safe, Saves
    <2>3. resume \subseteq Holds(disk, ref) \cap Holds(durable, ref) /\ (~part => resume = {})
      BY <2>1 DEF Safe, Saves
    <2>4. ref \in 1 .. Versions /\ resume \in SUBSET Byte BY <1>1, <2>1 DEF Inv, RunInv, Planning
    <2>5. saved' # None BY <2>2, <2>4, DownloadAssumption
    <2>6. saved'.version = ref /\ saved'.held = resume BY <2>2
    <2>7. ResumeIsSafe' BY <2>1, <2>3, <2>5, <2>6 DEF ResumeIsSafe, Holds
    <2>8. ~part' => resume' = {} BY <1>7, <2>1, <2>3
    <2>9. resume' \subseteq Holds(disk', ref') \cap Holds(durable', ref') BY <2>1, <2>3
    <2>10. engine' # "planned" /\ saved' = [version |-> ref', held |-> resume'] BY <2>1, <2>2
    <2> QED BY <1>4, <1>5, <1>6, <1>8, <1>9, <2>1, <2>6, <2>7, <2>8, <2>9, <2>10 DEF Safe, Saves, Holds
  <1> QED BY <1>11, <1>12, <1>13, <1>14, <1>15

(* The chunk the probe's answer goes on with has nothing written yet, so cutting it gives up nothing. *)
LEMMA AssignAtCovers ==
  ASSUME NEW cs, Table(cs), NEW i \in 1 .. Len(cs), NEW e \in Byte, cs[i].status = "Unassigned",
         cs[i].cur = cs[i].start, cs[i].start <= e, AllPartial(cs)
  PROVE  Covered(AssignAt(cs, i, e)) = Covered(cs) /\ AllPartial(AssignAt(cs, i, e)) /\ AssignAt(cs, i, e) # <<>>
  <1>1. Len(cs) \in Nat /\ cs[i] \in Chunk BY TableFacts
  <1>2. /\ cs[i].start \in Int /\ 0 <= cs[i].start /\ cs[i].end \in Int /\ cs[i].end < Size /\ e \in Int /\ 0 <= e
        /\ cs[i].cur \in Int
    BY <1>1, ChunkFields, ManagerAssumption DEF Byte
  <1>3. ASSUME NEW fs, Table(fs), i \in 1 .. Len(fs), fs[i].status # "Completed", AllPartial(fs)
        PROVE  Covered(Assign(fs, i)) = Covered(fs) /\ AllPartial(Assign(fs, i)) /\ Assign(fs, i) # <<>>
    <2>1. Covered(Assign(fs, i)) = Covered(fs) BY <1>3, AssignCovers
    <2>2. /\ Len(Assign(fs, i)) = Len(fs) /\ Assign(fs, i)[i].start = fs[i].start /\ Assign(fs, i)[i].end = fs[i].end
          /\ \A j \in 1 .. Len(fs) : j # i => Assign(fs, i)[j] = fs[j]
      BY <1>3, AssignKeepsTable
    <2>3. AllPartial(Assign(fs, i)) BY <1>3, <2>2 DEF AllPartial, Partial
    <2>4. Assign(fs, i) # <<>>
      <3>1. Len(fs) \in Nat /\ Len(fs) # 0 BY <1>3, TableFacts
      <3>2. Table(Assign(fs, i)) BY <1>3, AssignKeepsTable
      <3>3. Assign(fs, i) \in Seq(Chunk) BY <3>2 DEF Table
      <3> QED BY <2>2, <3>1, <3>3, EmptySeq
    <2> QED BY <2>1, <2>3, <2>4
  <1>4. CASE e < cs[i].end
    <2> DEFINE fs == Append([cs EXCEPT ![i].end = e], NewChunk(e + 1, cs[i].end, "Unassigned"))
    <2>1. "Unassigned" \in Status /\ "Unassigned" \in Status \ {"Completed"} /\ cs[i].status # "Completed" BY DEF Status
    <2>2. /\ Table(fs) /\ Len(fs) = Len(cs) + 1 /\ fs[i] = [cs[i] EXCEPT !.end = e]
          /\ fs[Len(cs) + 1] = NewChunk(e + 1, cs[i].end, "Unassigned")
          /\ \A j \in 1 .. Len(cs) : j # i => fs[j] = cs[j]
      BY <1>2, <1>4, <2>1, SplitKeepsTable
    <2>3. Covered(fs) \subseteq Covered(cs) /\ Covered(cs) \ (e + 1 .. cs[i].end) \subseteq Covered(fs)
      BY <1>2, <1>4, <2>1, SplitCovers
    <2>4. AssignAt(cs, i, e) = Assign(fs, i) BY <1>4 DEF AssignAt
    <2> HIDE DEF fs
    <2>5. ASSUME NEW b \in e + 1 .. cs[i].end PROVE b \notin Covered(cs)
      <3>1. b \in cs[i].cur .. cs[i].end BY <1>2
      <3> QED BY <2>1, <3>1, Unwritten
    <2>6. Covered(fs) = Covered(cs) BY <2>3, <2>5
    <2>7. fs[i].end = e /\ fs[i].status = "Unassigned" /\ fs[Len(cs) + 1].start = e + 1
      BY <1>1, <2>2 DEF Chunk, NewChunk
    <2>8. Partial(fs[i]) /\ Partial(fs[Len(cs) + 1])
      <3>1. fs[i].end < Size - 1 BY <1>2, <1>4, <2>7, ManagerAssumption
      <3>2. fs[Len(cs) + 1].start > 0 BY <1>2, <2>7
      <3> QED BY <3>1, <3>2 DEF Partial
    <2>9. AllPartial(fs)
      <3>1. ChangesAt(cs, fs, i) /\ \A j \in 1 .. Len(fs) : j > Len(cs) => j = Len(cs) + 1
        BY <1>1, <2>2 DEF ChangesAt
      <3>2. \A j \in 1 .. Len(fs) : j > Len(cs) => Partial(fs[j]) BY <2>8, <3>1
      <3> QED BY <1>1, <2>8, <3>1, <3>2, PartialKept
    <2>10. i \in 1 .. Len(fs) /\ fs[i].status # "Completed" BY <1>1, <2>2, <2>7
    <2> QED BY <1>3, <2>2, <2>4, <2>6, <2>9, <2>10
  <1>5. CASE ~(e < cs[i].end)
    <2>1. AssignAt(cs, i, e) = Assign(cs, i) BY <1>5 DEF AssignAt
    <2> QED BY <1>3, <2>1
  <1> QED BY <1>4, <1>5

(* What the plan resumes from and what the probe brought is in the file, and is what the table covers. *)
LEMMA StartSafe == ASSUME NoWholeRequest, Inv, Inv', Safe, Start PROVE Safe'
  <1> DEFINE have == resume \cup 0 .. Prefetch - 1
             idle == [w \in Workers |-> NoAttempt("idle")]
             seed(i) == [NewAttempt(i) EXCEPT !.pc = "receive", !.pos = Prefetch, !.ver = ref]
  <1>1. PICK cs \in Layouts(have) :
          \/ chunks' = cs /\ worker' = idle
          \/ \E w \in Workers, i \in DOMAIN cs, e \in Byte :
               /\ cs[i].status = "Unassigned" /\ cs[i].start = Prefetch /\ Prefetch <= e
               /\ chunks' = AssignAt(cs, i, e)
               /\ worker' = [idle EXCEPT ![w] = seed(i)]
    BY DEF Start
  <1>2. /\ engine = "filling" /\ engine' = "running" /\ thief' = None
        /\ UNCHANGED <<outcome, cancelled, ref, resume, snap, durable, part, saved, final>>
        /\ disk' = [b \in Byte |-> IF b \in (0 .. Prefetch - 1) \ resume THEN ref ELSE disk[b]]
    BY DEF Start, Go, KeepLoop
  <1>3. /\ saved = [version |-> ref, held |-> resume] /\ part /\ outcome = "none"
        /\ resume \subseteq Holds(disk, ref)
    BY <1>2 DEF Safe, Phases, Saves, Planning
  <1>4. have \in SUBSET Byte
    <2>1. Prefetch \in Int /\ Prefetch - 1 < Size /\ resume \in SUBSET Byte
      BY ManagerAssumption, DownloadAssumption DEF Inv, RunInv
    <2> QED BY <2>1, ManagerAssumption DEF Byte
  <1>5. Holds(disk, ref) \subseteq Holds(disk', ref) /\ have \subseteq Holds(disk', ref)
    BY <1>2, <1>3, <1>4 DEF Holds
  <1>6. /\ cs # <<>> /\ Covered(cs) = have
        /\ \A i \in 1 .. Len(cs) : /\ cs[i].status = "Completed" <=> cs[i].start \in have
                                   /\ cs[i].status # "Completed" => cs[i].end + 1 - cs[i].start <= BaseChunk
    BY <1>4, LayoutCovers
  <1>7. /\ Table(cs) /\ Len(cs) \in Nat /\ DOMAIN cs = 1 .. Len(cs)
        /\ \A i \in 1 .. Len(cs) : cs[i].cur = cs[i].start
    BY LayoutIsTable, TableFacts
  <1>8. AllPartial(cs)
    <2>1. ASSUME NEW i \in 1 .. Len(cs), cs[i].status # "Completed" PROVE cs[i].start > 0 \/ cs[i].end < Size - 1
      <3>1. cs[i].start \in Int /\ 0 <= cs[i].start /\ cs[i].end \in Int BY <1>7, TableFacts, ChunkFields
      <3>2. CASE Prefetch > 0
        <4>1. 0 \in have BY <3>2, DownloadAssumption, ManagerAssumption
        <4>2. cs[i].start # 0 BY <1>6, <2>1, <4>1
        <4> QED BY <3>1, <4>2
      <3>3. CASE BaseChunk < Size
        <4>1. cs[i].end + 1 - cs[i].start <= BaseChunk BY <1>6, <2>1
        <4> QED BY <3>1, <3>3, <4>1, ManagerAssumption
      <3> QED BY <3>2, <3>3 DEF NoWholeRequest
    <2> QED BY <2>1 DEF AllPartial, Partial
  <1> HIDE DEF have
  <1>9. ASSUME Covered(chunks') = have, AllPartial(chunks'), chunks' # <<>>, AllHonest(worker', chunks', disk', ref)
        PROVE  Safe'
    <2>1. Phases' BY <1>2, <1>3, <1>9 DEF Phases, Joined, Working, Planning
    <2>2. Counted(chunks, part, disk, ref)' BY <1>2, <1>5, <1>9 DEF Counted
    <2>3. AllPartial(chunks)' /\ AllHonest(worker, chunks, disk, ref)' BY <1>2, <1>9
    <2>4. saved # None /\ resume \subseteq Holds(durable, ref) BY <1>2, <1>3 DEF Safe, Saves, ResumeIsSafe, Planning
    <2>5. saved'.version = ref /\ saved'.held = resume BY <1>2, <1>3
    <2>6. ResumeIsSafe'
      <3>1. Holds(durable', ref) = Holds(durable, ref) BY <1>2
      <3>2. resume \subseteq Holds(disk', ref) BY <1>3, <1>5
      <3>3. saved' # None /\ saved'.held \subseteq Holds(durable', saved'.version) \cap Holds(disk', saved'.version)
        BY <1>2, <2>4, <2>5, <3>1, <3>2
      <3> QED BY <3>3 DEF ResumeIsSafe
    <2>7. saved'.held \subseteq Firm(chunks', thief')
      <3>1. resume \subseteq have BY DEF have
      <3>2. Stolen(thief') = {} BY <1>2 DEF Stolen
      <3> QED BY <1>9, <2>5, <3>1, <3>2 DEF Firm
    <2>8. Saves' BY <1>2, <2>5, <2>6, <2>7 DEF Saves, Planning
    <2>9. Whole'
      <3>1. FinalIsWhole' BY <1>2 DEF Safe, Whole, FinalIsWhole, Holds
      <3> QED BY <1>2, <3>1 DEF Whole
    <2> QED BY <2>1, <2>2, <2>3, <2>8, <2>9 DEF Safe
  <1>10. \A ds : \A v \in Workers : Honest(NoAttempt("idle"), ds, disk', ref) BY NoAttemptHonest
  <1>11. CASE chunks' = cs /\ worker' = idle
    <2>1. AllHonest(worker', chunks', disk', ref) BY <1>10, <1>11 DEF AllHonest
    <2> QED BY <1>6, <1>8, <1>9, <1>11, <2>1
  <1>12. ASSUME NEW w \in Workers, NEW i \in 1 .. Len(cs), NEW e \in Byte,
                cs[i].status = "Unassigned", cs[i].start = Prefetch, Prefetch <= e,
                chunks' = AssignAt(cs, i, e), worker' = [idle EXCEPT ![w] = seed(i)]
         PROVE  Safe'
    <2>1. Covered(chunks') = have /\ AllPartial(chunks') /\ chunks' # <<>>
      BY <1>6, <1>7, <1>8, <1>12, AssignAtCovers
    <2>2. seed(i).pc = "receive" /\ ~seed(i).whole /\ seed(i).ver = ref BY DEF NewAttempt, NoAttempt
    <2>3. worker'[w] = seed(i) /\ \A v \in Workers \ {w} : worker'[v] = NoAttempt("idle") BY <1>12
    <2> HIDE DEF seed, idle
    <2>4. Honest(seed(i), chunks', disk', ref) BY <2>2 DEF Honest, InFlight
    <2>5. AllHonest(worker', chunks', disk', ref) BY <1>10, <2>3, <2>4 DEF AllHonest
    <2> QED BY <1>9, <2>1, <2>5
  <1> QED BY <1>1, <1>7, <1>11, <1>12


(* A step that leaves the table, the workers and the file alone. *)
LEMMA SameWork ==
  ASSUME Safe, UNCHANGED <<manager, attempts, ref, disk, part, final>>
  PROVE  /\ AllPartial(chunks)' /\ AllHonest(worker, chunks, disk, ref)'
         /\ Counted(chunks, part, disk, ref)' /\ FinalIsWhole'
  <1>1. chunks' = chunks /\ worker' = worker BY DEF manager, attempts
  <1>2. AllPartial(chunks') /\ AllHonest(worker', chunks', disk', ref') /\ Counted(chunks', part', disk', ref')
    BY <1>1 DEF Safe
  <1>3. FinalIsWhole' BY DEF Safe, Whole, FinalIsWhole, Holds
  <1> QED BY <1>2, <1>3

(* Nothing in Safe minds the cancel token or what the server has now. *)
LEMMA OutsideSafe ==
  ASSUME Safe, UNCHANGED <<manager, attempts, engine, outcome, ref, resume, snap, files>>
  PROVE  Safe'
  <1>1. UNCHANGED <<disk, durable, part, saved, final, chunks, worker, thief>> BY DEF files, manager, attempts
  <1>2. AllPartial(chunks)' /\ AllHonest(worker, chunks, disk, ref)' /\ Counted(chunks, part, disk, ref)' /\ FinalIsWhole'
    BY <1>1, SameWork
  <1>3. Phases' BY <1>1 DEF Safe, Phases, Joined
  <1>4. Saves'
    <2>1. ResumeIsSafe' BY <1>1 DEF Safe, Saves, ResumeIsSafe, Holds
    <2>2. Firm(chunks', thief') = Firm(chunks, thief) /\ Holds(disk', ref') = Holds(disk, ref)
          /\ Holds(durable', ref') = Holds(durable, ref)
      BY <1>1
    <2> QED BY <1>1, <2>1, <2>2 DEF Safe, Saves
  <1>5. Whole'
    <2>1. Holds(disk', ref') = Holds(disk, ref) BY <1>1
    <2> QED BY <1>2, <2>1 DEF Safe, Whole
  <1> QED BY <1>2, <1>3, <1>4, <1>5 DEF Safe

(* All counted: the file is whole. *)
LEMMA AllCompletedIsWhole ==
  ASSUME Inv, Books, Safe, engine \in Working, IsAllCompleted
  PROVE  Holds(disk, ref) = Byte
  <1>1. Table(chunks) /\ chunks # <<>> /\ part BY DEF Inv, ManagerInv, Safe, Phases
  <1>2. completed = Cardinality(Done(chunks)) /\ completed = Len(chunks) BY DEF Books, Counting, IsAllCompleted
  <1>3. Len(chunks) \in Nat BY <1>1, TableFacts
  <1>4. Done(chunks) = 1 .. Len(chunks) BY <1>2, <1>3, AllDone
  <1>5. Byte \subseteq Covered(chunks) BY <1>1, <1>4, AllCovered
  <1>6. Covered(chunks) \subseteq Holds(disk, ref) BY <1>1 DEF Safe, Counted
  <1>7. Holds(disk, ref) \subseteq Byte BY DEF Holds
  <1> QED BY <1>5, <1>6, <1>7

(* The loop ends: on its own only once the file is whole. *)
LEMMA LeaveSafe ==
  ASSUME Inv, Books, Safe, AllCompleted \/ HasFatalFailure \/ SeesCancel
  PROVE  Safe'
  <1>1. /\ engine = "running" /\ engine' = "stopping" /\ (outcome' = "ok" => IsAllCompleted)
        /\ UNCHANGED <<manager, attempts, ref, resume, snap, disk, durable, part, saved, final>>
    BY DEF AllCompleted, HasFatalFailure, SeesCancel, Leave, Go, KeepWork, files
  <1>2. UNCHANGED <<chunks, worker, thief>> BY <1>1 DEF manager, attempts
  <1>3. AllPartial(chunks)' /\ AllHonest(worker, chunks, disk, ref)' /\ Counted(chunks, part, disk, ref)' /\ FinalIsWhole'
    BY <1>1, SameWork
  <1>4. part /\ chunks # <<>> BY <1>1 DEF Safe, Phases, Working
  <1>5. Phases' BY <1>1, <1>2, <1>4 DEF Phases, Joined, Working, Planning
  <1>6. Saves'
    <2>1. ResumeIsSafe' BY <1>1 DEF Safe, Saves, ResumeIsSafe, Holds
    <2>2. saved.version = ref /\ saved.held \subseteq Firm(chunks, thief) BY <1>1, <1>4 DEF Safe, Saves, Working
    <2>3. saved'.held \subseteq Firm(chunks', thief') /\ saved'.version = ref' BY <1>1, <1>2, <2>2
    <2> QED BY <1>1, <2>1, <2>3 DEF Saves, Working, Planning
  <1>7. Whole'
    <2>1. outcome' = "ok" => Holds(disk', ref') = Byte BY <1>1, AllCompletedIsWhole DEF Working
    <2> QED BY <1>1, <1>3, <2>1 DEF Whole
  <1> QED BY <1>3, <1>5, <1>6, <1>7 DEF Safe

(* What a save begins with: no thief is about to cut a chunk, so all that is counted stays so. *)
LEMMA CountedNow ==
  ASSUME Inv, Safe, engine \in Working, thief = None
  PROVE  /\ Firm(chunks, thief) = CompletedRanges
         /\ saved.held \subseteq CompletedRanges /\ CompletedRanges \subseteq Holds(disk, ref)
  <1>1. part /\ saved.held \subseteq Firm(chunks, thief) BY DEF Safe, Phases, Saves
  <1>2. Stolen(thief) = {} BY DEF Stolen
  <1>3. Firm(chunks, thief) = CompletedRanges BY <1>2, CountedRanges DEF Firm
  <1> QED BY <1>1, <1>3, CountedRanges DEF Safe, Counted

(* A save reads what is counted; after the workers have returned, too. *)
LEMMA PersistRangesSafe ==
  ASSUME Inv, Books, Safe, PersistRanges \/ (Join /\ outcome # "ok")
  PROVE  Safe'
  <1>1. /\ engine \in Working /\ engine' = "syncing" /\ snap' = CompletedRanges
        /\ UNCHANGED <<manager, attempts, outcome, ref, resume, disk, durable, part, saved, final>>
    BY DEF PersistRanges, Join, Go, KeepWork, files, Working
  <1>2. UNCHANGED <<chunks, worker, thief>> BY <1>1 DEF manager, attempts
  <1>3. thief = None /\ (outcome # "none" => \A w \in Workers : worker[w].pc = "stopped")
    <2>1. CASE PersistRanges BY <2>1 DEF PersistRanges, Unlocked, Go, Safe, Phases, Planning
    <2>2. CASE Join
      <3>1. \A w \in Workers : worker[w].pc = "stopped" BY <2>2 DEF Join
      <3>2. thief # None => thief.by \in Workers /\ worker[thief.by].pc = "idle" BY BooksFacts DEF Books, Idling
      <3> QED BY <3>1, <3>2
    <2> QED BY <2>1, <2>2
  <1>4. AllPartial(chunks)' /\ AllHonest(worker, chunks, disk, ref)' /\ Counted(chunks, part, disk, ref)' /\ FinalIsWhole'
    BY <1>1, SameWork
  <1>5. part /\ chunks # <<>> BY <1>1 DEF Safe, Phases
  <1>6. Phases' BY <1>1, <1>2, <1>3, <1>5 DEF Phases, Joined, Working, Planning
  <1>7. Saves'
    <2>1. ResumeIsSafe' BY <1>1 DEF Safe, Saves, ResumeIsSafe, Holds
    <2>2. /\ saved.version = ref /\ Firm(chunks, thief) = CompletedRanges
          /\ saved.held \subseteq CompletedRanges /\ CompletedRanges \subseteq Holds(disk, ref)
      BY <1>1, <1>3, <1>5, CountedNow DEF Safe, Saves, Working
    <2>3. /\ saved'.version = ref' /\ saved'.held \subseteq Firm(chunks', thief') /\ saved'.held \subseteq snap'
          /\ snap' \subseteq Firm(chunks', thief') /\ snap' \subseteq Holds(disk', ref')
      BY <1>1, <1>2, <2>2
    <2> QED BY <1>1, <2>1, <2>3 DEF Saves, Planning
  <1>8. Whole' BY <1>1, <1>4 DEF Whole
  <1> QED BY <1>4, <1>6, <1>7, <1>8 DEF Safe

(* The file is whole, and nobody works at it any more. *)
LEMMA JoinSafe == ASSUME Safe, Join, outcome = "ok" PROVE Safe'
  <1>1. /\ engine = "stopping" /\ engine' = "verifying" /\ \A w \in Workers : worker[w].pc = "stopped"
        /\ UNCHANGED <<manager, attempts, outcome, ref, resume, disk, durable, part, saved, final>>
    BY DEF Join, KeepWork, files
  <1>2. UNCHANGED <<chunks, worker, thief>> BY <1>1 DEF manager, attempts
  <1>3. AllPartial(chunks)' /\ AllHonest(worker, chunks, disk, ref)' /\ Counted(chunks, part, disk, ref)' /\ FinalIsWhole'
    BY <1>1, SameWork
  <1>4. part BY <1>1 DEF Safe, Phases, Working
  <1>5. Phases' BY <1>1, <1>2, <1>4 DEF Phases, Working, Planning
  <1>6. Saves'
    <2>1. ResumeIsSafe' BY <1>1 DEF Safe, Saves, ResumeIsSafe, Holds
    <2>2. saved'.version = ref' BY <1>1, <1>4 DEF Safe, Saves
    <2> QED BY <1>1, <2>1, <2>2 DEF Saves, Working, Planning
  <1>7. Whole'
    <2>1. Holds(disk', ref') = Holds(disk, ref) BY <1>1
    <2> QED BY <1>1, <1>3, <2>1 DEF Safe, Whole
  <1> QED BY <1>3, <1>5, <1>6, <1>7 DEF Safe

(* The sync makes what the save will record stay. *)
LEMMA PersistSyncSafe == ASSUME Safe, PersistSync PROVE Safe'
  <1>1. /\ engine = "syncing" /\ engine' = "saving" /\ durable' = disk
        /\ UNCHANGED <<manager, attempts, outcome, ref, resume, snap, disk, part, saved, final>>
    BY DEF PersistSync, Go, KeepWork, KeepLoop
  <1>2. UNCHANGED <<chunks, worker, thief>> BY <1>1 DEF manager, attempts
  <1>3. AllPartial(chunks)' /\ AllHonest(worker, chunks, disk, ref)' /\ Counted(chunks, part, disk, ref)' /\ FinalIsWhole'
    BY <1>1, SameWork
  <1>4. Phases' BY <1>1, <1>2 DEF Safe, Phases, Joined, Working, Planning
  <1>5. Saves'
    <2>1. ResumeIsSafe' BY <1>1 DEF Safe, Saves, ResumeIsSafe, Holds
    <2>2. part /\ saved.version = ref /\ saved.held \subseteq Firm(chunks, thief)
      BY <1>1 DEF Safe, Saves, Phases, Working
    <2>3. saved.held \subseteq snap /\ snap \subseteq Firm(chunks, thief) /\ snap \subseteq Holds(disk, ref)
      BY <1>1 DEF Safe, Saves
    <2>4. /\ saved'.version = ref' /\ saved'.held \subseteq Firm(chunks', thief') /\ saved'.held \subseteq snap'
          /\ snap' \subseteq Firm(chunks', thief') /\ snap' \subseteq Holds(disk', ref') /\ snap' \subseteq Holds(durable', ref')
      BY <1>1, <1>2, <2>2, <2>3
    <2> QED BY <1>1, <2>1, <2>4 DEF Saves, Planning
  <1>6. Whole' BY <1>1, <1>3 DEF Whole
  <1> QED BY <1>3, <1>4, <1>5, <1>6 DEF Safe

(* ... and then it is recorded, or what was recorded before stays. *)
LEMMA PersistEndsSafe == ASSUME Inv, Safe, PersistSave \/ PersistFails PROVE Safe'
  <1>1. /\ engine \in {"syncing", "saving"} /\ engine' = AfterPersist
        /\ UNCHANGED <<manager, attempts, outcome, ref, resume, disk, durable, part, final>>
    BY DEF PersistSave, PersistFails, Go, KeepWork, files
  <1>2. UNCHANGED <<chunks, worker, thief>> BY <1>1 DEF manager, attempts
  <1>3. AllPartial(chunks)' /\ AllHonest(worker, chunks, disk, ref)' /\ Counted(chunks, part, disk, ref)' /\ FinalIsWhole'
    BY <1>1, SameWork
  <1>4. \/ engine' = "running" /\ outcome = "none"
        \/ engine' = "failed" /\ Joined
    BY <1>1 DEF AfterPersist, Joined
  <1>5. part /\ chunks # <<>> /\ saved.version = ref /\ saved.held \subseteq Firm(chunks, thief)
    BY <1>1 DEF Safe, Phases, Saves, Working
  <1>6. Phases'
    <2>1. CASE engine' = "running" /\ outcome = "none" BY <1>1, <1>2, <1>5, <2>1 DEF Phases, Joined, Working, Planning
    <2>2. CASE engine' = "failed" /\ Joined
      BY <1>1, <1>2, <1>5, <2>2 DEF Safe, Phases, Working, Planning
    <2> QED BY <1>4, <2>1, <2>2
  <1>7. ResumeIsSafe' /\ saved'.version = ref' /\ saved'.held \subseteq Firm(chunks', thief')
    <2>1. CASE PersistSave
      <3>1. engine = "saving" /\ saved' = [version |-> ref, held |-> snap] BY <2>1 DEF PersistSave, Go
      <3>2. ref \in 1 .. Versions /\ snap \in SUBSET Byte BY <1>1 DEF Inv, RunInv
      <3>3. saved' # None BY <3>1, <3>2, DownloadAssumption
      <3>4. saved'.version = ref /\ saved'.held = snap BY <3>1
      <3>5. snap \subseteq Firm(chunks, thief) /\ snap \subseteq Holds(disk, ref) \cap Holds(durable, ref)
        BY <3>1 DEF Safe, Saves
      <3>6. saved'.held \subseteq Holds(durable', saved'.version) \cap Holds(disk', saved'.version)
        BY <1>1, <3>4, <3>5
      <3> QED BY <1>1, <1>2, <3>3, <3>4, <3>5, <3>6 DEF ResumeIsSafe
    <2>2. CASE PersistFails
      <3>1. saved' = saved BY <2>2 DEF PersistFails, files
      <3>2. ResumeIsSafe' BY <1>1, <3>1 DEF Safe, Saves, ResumeIsSafe, Holds
      <3> QED BY <1>1, <1>2, <1>5, <3>1, <3>2
    <2> QED BY <2>1, <2>2
  <1>8. Saves' BY <1>4, <1>7 DEF Saves, Planning, Working
  <1>9. Whole' BY <1>3, <1>4 DEF Whole
  <1> QED BY <1>3, <1>6, <1>8, <1>9 DEF Safe

(* A failure of the disk before the loop: the file may hold more of what the probe brought. *)
LEMMA StartFailsSafe == ASSUME Safe, StartFails PROVE Safe'
  <1>1. /\ engine \in {"planned", "opening", "filling"} /\ engine' = "failed"
        /\ UNCHANGED <<manager, attempts, outcome, ref, resume, snap, durable, part, saved, final>>
    BY DEF StartFails, KeepLoop, KeepSaves
  <1>2. Holds(disk, ref) \subseteq Holds(disk', ref) BY DEF StartFails, Holds
  <1>3. Joined /\ chunks = <<>> BY <1>1 DEF Joined, Safe, Phases, Working, Planning
  <1>4. /\ AllPartial(chunks)' /\ AllHonest(worker, chunks, disk, ref)'
        /\ (\A w \in Workers : worker[w].pc = "stopped")' /\ chunks' = chunks
    BY <1>1, <1>3, StoppedStay
  <1>5. Counted(chunks, part, disk, ref)' BY <1>3, <1>4, NothingCovered DEF Counted
  <1>6. Phases' BY <1>1, <1>4 DEF Phases, Working, Planning
  <1>7. (part => saved.version = ref) /\ ResumeIsSafe BY <1>1 DEF Safe, Saves
  <1>8. ResumeIsSafe'
    <2> SUFFICES ASSUME part' PROVE saved' # None /\ saved'.held \subseteq Holds(durable, saved.version)'
                                    /\ saved'.held \subseteq Holds(disk, saved.version)'
      BY DEF ResumeIsSafe
    <2>1. /\ part /\ saved # None /\ saved.version = ref
          /\ saved.held \subseteq Holds(durable, ref) /\ saved.held \subseteq Holds(disk, ref)
      BY <1>1, <1>7 DEF ResumeIsSafe
    <2>2. Holds(durable', saved'.version) = Holds(durable, ref) /\ Holds(disk', saved'.version) = Holds(disk', ref)
      BY <1>1, <2>1
    <2> QED BY <1>1, <1>2, <2>1, <2>2
  <1>9. Saves' BY <1>1, <1>7, <1>8 DEF Saves, Working, Planning
  <1>10. Whole'
    <2>1. FinalIsWhole' BY <1>1 DEF Safe, Whole, FinalIsWhole, Holds
    <2> QED BY <1>1, <2>1 DEF Whole
  <1> QED BY <1>4, <1>5, <1>6, <1>9, <1>10 DEF Safe

(* The check of the finished file, and what goes wrong with it. *)
LEMMA VerifySafe == ASSUME Safe, Verified \/ VerifiedWrong \/ FinalizeFails PROVE Safe'
  <1>1. /\ engine \in {"verifying", "renaming"} /\ engine' \in {"renaming", "rejecting", "failed"}
        /\ UNCHANGED <<manager, attempts, outcome, ref, resume, snap, disk, durable, part, saved, final>>
    BY DEF Verified, VerifiedWrong, FinalizeFails, Go, KeepLoop, KeepWork, files
  <1>2. UNCHANGED <<chunks, worker, thief>> BY <1>1 DEF manager, attempts
  <1>3. AllPartial(chunks)' /\ AllHonest(worker, chunks, disk, ref)' /\ Counted(chunks, part, disk, ref)' /\ FinalIsWhole'
    BY <1>1, SameWork
  <1>4. Joined /\ part BY <1>1 DEF Safe, Phases, Joined, Working
  <1>5. Phases' BY <1>1, <1>2, <1>4 DEF Safe, Phases, Working, Planning
  <1>6. Saves'
    <2>1. ResumeIsSafe' BY <1>1 DEF Safe, Saves, ResumeIsSafe, Holds
    <2>2. saved'.version = ref' BY <1>1, <1>4 DEF Safe, Saves
    <2> QED BY <1>1, <2>1, <2>2 DEF Saves, Working, Planning
  <1>7. Whole'
    <2>1. Holds(disk', ref') = Byte BY <1>1 DEF Safe, Whole
    <2> QED BY <1>3, <2>1 DEF Whole
  <1> QED BY <1>3, <1>5, <1>6, <1>7 DEF Safe

(* A whole file takes its name, or a wrong one is removed: there is no .part any more. *)
LEMMA PartGoneSafe == ASSUME Inv, Safe, Rename \/ RejectPart \/ RemoveState PROVE Safe'
  <1>1. /\ engine \in {"renaming", "rejecting", "cleaning", "forgetting"}
        /\ engine' \in {"cleaning", "forgetting", "done", "failed"}
        /\ UNCHANGED <<manager, attempts, outcome, ref>> /\ ~part'
    <2>1. CASE Rename \/ RejectPart BY <2>1 DEF Rename, RejectPart, RemovePart, Go, KeepWork, KeepLoop
    <2>2. CASE RemoveState BY <2>2 DEF RemoveState, Go, KeepWork, KeepLoop, Safe, Phases
    <2> QED BY <2>1, <2>2
  <1>2. Joined BY <1>1 DEF Joined, Working
  <1>3. /\ AllPartial(chunks)' /\ AllHonest(worker, chunks, disk, ref)'
        /\ (\A w \in Workers : worker[w].pc = "stopped")'
    BY <1>1, <1>2, StoppedStay
  <1>4. Phases' BY <1>1, <1>3 DEF Phases, Working, Planning
  <1>5. Counted(chunks, part, disk, ref)' BY <1>1 DEF Counted
  <1>6. Saves' BY <1>1 DEF Saves, ResumeIsSafe, Working, Planning
  <1>7. FinalIsWhole'
    <2>1. CASE Rename
      <3>1. engine = "renaming" /\ final' = disk BY <2>1 DEF Rename, Go
      <3>2. ref \in 1 .. Versions /\ Holds(disk, ref) = Byte BY <3>1 DEF Inv, RunInv, Safe, Whole
      <3> QED BY <3>1, <3>2 DEF FinalIsWhole, Holds
    <2>2. CASE RejectPart \/ RemoveState
      <3>1. final' = final BY <2>2 DEF RejectPart, RemoveState
      <3> QED BY <3>1 DEF Safe, Whole, FinalIsWhole, Holds
    <2> QED BY <2>1, <2>2
  <1>8. Whole' BY <1>1, <1>7 DEF Whole
  <1> QED BY <1>3, <1>4, <1>5, <1>6, <1>8 DEF Safe

LEMMA EngineStepSafe ==
  ASSUME NoWholeRequest, Inv, Inv', Books, Safe, EngineStep \/ Cancel
  PROVE  Safe'
  <1>1. CASE PlanResume \/ PlanFresh \/ PlanDiscard \/ DiscardState \/ RecordStart \/ OpenPart BY <1>1, PlanSafe
  <1>2. CASE Start BY <1>2, StartSafe
  <1>3. CASE StartFails BY <1>3, StartFailsSafe
  <1>4. CASE AllCompleted \/ HasFatalFailure \/ SeesCancel BY <1>4, LeaveSafe
  <1>5. CASE PersistRanges \/ Join BY <1>5, PersistRangesSafe, JoinSafe
  <1>6. CASE PersistSync \/ PersistSave \/ PersistFails BY <1>6, PersistSyncSafe, PersistEndsSafe
  <1>7. CASE Verified \/ VerifiedWrong \/ FinalizeFails BY <1>7, VerifySafe
  <1>8. CASE Rename \/ RejectPart \/ RemoveState BY <1>8, PartGoneSafe
  <1>9. CASE Cancel
    <2>1. UNCHANGED <<manager, attempts, engine, outcome, ref, resume, snap, files>> BY <1>9 DEF Cancel
    <2> QED BY <2>1, OutsideSafe
  <1> QED BY <1>1, <1>2, <1>3, <1>4, <1>5, <1>6, <1>7, <1>8, <1>9 DEF EngineStep

-----------------------------------------------------------------------------
(* The world. *)

(* A process that dies leaves what its files hold; a machine that fails leaves at least what was made *)
(* durable of it.                                                                                     *)
LEMMA WorldSafe == ASSUME Safe, ChangeRemote \/ RunAgain \/ ProcessDies \/ MachineFails PROVE Safe'
  <1>1. CASE ChangeRemote
    <2>1. UNCHANGED <<manager, attempts, engine, outcome, ref, resume, snap, files>> BY <1>1 DEF ChangeRemote, run
    <2> QED BY <2>1, OutsideSafe
  <1>2. CASE RunAgain \/ ProcessDies \/ MachineFails
    <2>1. Afresh BY <1>2 DEF RunAgain, ProcessDies, MachineFails
    <2>2. /\ engine' = "off" /\ outcome' = "none" /\ chunks' = <<>> /\ UNCHANGED <<part, saved, final>>
          /\ worker' = [w \in Workers |-> NoAttempt("stopped")]
      BY <2>1 DEF Afresh, DropManager
    <2>3. \A w \in Workers : worker'[w].pc = "stopped" /\ ~worker'[w].whole BY <2>2 DEF NoAttempt
    <2>4. AllHonest(worker', chunks', disk', ref') BY <2>3, StoppedHonest
    <2>5. AllPartial(chunks') /\ Counted(chunks', part', disk', ref') BY <2>2, NothingCovered DEF Counted
    <2>6. Phases' BY <2>2, <2>3 DEF Phases, Working, Planning
    <2>7. \A v : Holds(disk, v) \cap Holds(durable, v) \subseteq Holds(disk', v) \cap Holds(durable', v)
      BY <1>2 DEF RunAgain, ProcessDies, MachineFails, Holds
    <2>8. ResumeIsSafe'
      <3>1. \A v : /\ Holds(disk, v)' = Holds(disk', v) /\ Holds(durable, v)' = Holds(durable', v) OBVIOUS
      <3>2. ResumeIsSafe BY DEF Safe, Saves
      <3>3. part' => /\ saved' # None
                     /\ saved'.held \subseteq Holds(durable', saved'.version) \cap Holds(disk', saved'.version)
        <4> SUFFICES ASSUME part' PROVE saved # None /\ saved.held \subseteq Holds(durable', saved.version) \cap Holds(disk', saved.version)
          BY <2>2
        <4>1. saved # None /\ saved.held \subseteq Holds(durable, saved.version) \cap Holds(disk, saved.version)
          BY <2>2, <3>2 DEF ResumeIsSafe
        <4> QED BY <2>7, <4>1
      <3> QED BY <3>3 DEF ResumeIsSafe
    <2>9. Saves' BY <2>2, <2>8 DEF Saves, Working, Planning
    <2>10. Whole'
      <3>1. FinalIsWhole' BY <2>2 DEF Safe, Whole, FinalIsWhole, Holds
      <3> QED BY <2>2, <3>1 DEF Whole
    <2> QED BY <2>4, <2>5, <2>6, <2>9, <2>10 DEF Safe
  <1> QED BY <1>1, <1>2

-----------------------------------------------------------------------------
(* What follows. *)

LEMMA InitSafe == Init => Safe
  <1> SUFFICES ASSUME Init PROVE Safe OBVIOUS
  <1>1. /\ engine = "off" /\ outcome = "none" /\ chunks = <<>> /\ ~part /\ final = None
        /\ worker = [w \in Workers |-> NoAttempt("stopped")]
    BY DEF Init, NoManager
  <1>2. \A w \in Workers : worker[w].pc = "stopped" /\ ~worker[w].whole BY <1>1 DEF NoAttempt
  <1>3. AllHonest(worker, chunks, disk, ref) BY <1>2, StoppedHonest
  <1>4. AllPartial(chunks) /\ Counted(chunks, part, disk, ref) BY <1>1, NothingCovered DEF Counted
  <1>5. Phases BY <1>1, <1>2 DEF Phases, Working, Planning
  <1>6. Saves BY <1>1 DEF Saves, ResumeIsSafe, Working, Planning
  <1>7. Whole BY <1>1 DEF Whole, FinalIsWhole
  <1> QED BY <1>3, <1>4, <1>5, <1>6, <1>7 DEF Safe

LEMMA NextSafe == NoWholeRequest /\ Inv /\ Inv' /\ Books /\ Safe /\ [Next]_vars => Safe'
  <1> SUFFICES ASSUME NoWholeRequest, Inv, Inv', Books, Safe, [Next]_vars PROVE Safe' OBVIOUS
  <1>1. ASSUME NEW w \in Workers, WorkerStep(w) PROVE Safe' BY <1>1, WorkerStepSafe
  <1>2. CASE EngineStep \/ Cancel BY <1>2, EngineStepSafe
  <1>3. CASE ChangeRemote \/ RunAgain \/ ProcessDies \/ MachineFails BY <1>3, WorldSafe
  <1>4. CASE UNCHANGED vars
    <2>1. UNCHANGED <<manager, attempts, engine, outcome, ref, resume, snap, files>> BY <1>4 DEF vars, run
    <2> QED BY <2>1, OutsideSafe
  <1>5. CASE Finished BY <1>4, <1>5 DEF Finished
  <1> QED BY <1>1, <1>2, <1>3, <1>4, <1>5 DEF Next

LEMMA AlwaysSafe == ASSUME NoWholeRequest PROVE Spec => [](Inv /\ Books /\ Safe)
  <1>1. Init => Inv /\ Books /\ Safe BY InitInv, InitBooks, InitSafe
  <1>2. Inv /\ Books /\ Safe /\ [Next]_vars => Inv' /\ Books' /\ Safe' BY NextInv, NextBooks, NextSafe
  <1> QED BY <1>1, <1>2, PTL DEF Spec

(* An assigned chunk has one worker that settles it, and what the manager counts as downloaded is in *)
(* the .part, of the version the run fetches: a worker's offset follows its batch to the file        *)
(* (worker.rs: flush), and an attempt cut off by a thief counts no byte beyond its new end.          *)
THEOREM AlwaysEveryByteOnce == ASSUME NoWholeRequest PROVE Spec => []EveryByteOnce
  <1>1. Inv /\ Books /\ Safe => EveryByteOnce
    <2> SUFFICES ASSUME Inv, Books, Safe PROVE EveryByteOnce OBVIOUS
    <2>1. CountedIsWritten BY CountedRanges DEF Safe, Counted, CountedIsWritten
    <2> QED BY <2>1, BooksOwn DEF EveryByteOnce
  <1> QED BY <1>1, AlwaysSafe, PTL

(* A .part has the state that tells what it is, and what the state holds would survive the machine    *)
(* failing now: persist (engine.rs) reads the ranges, then syncs the bytes, and only then records.    *)
THEOREM AlwaysResumeIsSafe == ASSUME NoWholeRequest PROVE Spec => []ResumeIsSafe
  <1>1. Safe => ResumeIsSafe BY DEF Safe, Saves
  <1> QED BY <1>1, AlwaysSafe, PTL

(* A finished file is whole and of one version of the file on the server, however many runs, crashes *)
(* and versions it took (engine.rs: download, finalize).                                              *)
THEOREM AlwaysFinalIsWhole == ASSUME NoWholeRequest PROVE Spec => []FinalIsWhole
  <1>1. Safe => FinalIsWhole BY DEF Safe, Whole
  <1> QED BY <1>1, AlwaysSafe, PTL

-----------------------------------------------------------------------------
(* The promise of Transfer, step by step. *)

Recorded == IF saved = None THEN 0 ELSE saved.version
SafeBytes == IF part /\ saved # None THEN saved.held \cap Holds(durable, saved.version) ELSE {}

(* What the next run need not fetch is what the state holds: all of it is in the file, to stay. *)
LEMMA SafeIsHeld ==
  /\ ResumeIsSafe => SafeBytes = IF part THEN saved.held ELSE {}
  /\ ResumeIsSafe' => SafeBytes' = IF part' THEN saved'.held ELSE {}
  <1>1. ResumeIsSafe => SafeBytes = IF part THEN saved.held ELSE {} BY DEF ResumeIsSafe, SafeBytes
  <1>2. ResumeIsSafe' => SafeBytes' = IF part' THEN saved'.held ELSE {} BY DEF ResumeIsSafe, SafeBytes, Holds
  <1> QED BY <1>1, <1>2

(* Most steps leave the promise alone: at most the check of the finished file says something. *)
LEMMA Judges ==
  ASSUME ResumeIsSafe, ResumeIsSafe', UNCHANGED <<remote, part, saved, final>>
  PROVE  Promise!Next
  <1>1. SafeBytes' = SafeBytes BY SafeIsHeld
  <1>2. Promise!Judge BY <1>1 DEF Promise!Judge, SafeBytes
  <1> QED BY <1>2 DEF Promise!Next

(* The state names another version, or goes, only while no .part is there to lose. *)
LEMMA Records ==
  ASSUME Inv', ~part, ~part', UNCHANGED <<remote, final>>, engine # "rejecting", engine' # "rejecting"
  PROVE  Promise!Next
  <1>1. SafeBytes = {} /\ SafeBytes' = {} BY DEF SafeBytes
  <1>2. Recorded' \in 0 .. Versions
    <2>1. Versions \in Nat /\ saved' \in State \cup {None} BY DownloadAssumption DEF Inv, RunInv
    <2> QED BY <2>1 DEF Recorded, State
  <1>3. Promise!Record BY <1>1, <1>2 DEF Promise!Record, SafeBytes, Recorded
  <1> QED BY <1>3 DEF Promise!Next

(* The .part goes for another version on the server, or once it proved wrong. *)
LEMMA Discards ==
  ASSUME Inv, ResumeIsSafe, PlanDiscard \/ RejectPart
  PROVE  Promise!Next
  <1>1. ~part' /\ engine' # "rejecting" /\ UNCHANGED <<remote, saved, final>>
    BY DEF PlanDiscard, RejectPart, RemovePart, Go, KeepWork
  <1>2. SafeBytes' = {} BY <1>1 DEF SafeBytes
  <1>3. remote # Recorded \/ engine = "rejecting" BY DEF PlanDiscard, RejectPart, Go, Recorded
  <1>4. Promise!Discard BY <1>1, <1>2, <1>3 DEF Promise!Discard, SafeBytes, Recorded
  <1> QED BY <1>4 DEF Promise!Next

(* A start records what the plan resumes from: all the .part holds for sure, or nothing without one. *)
LEMMA StartRecords ==
  ASSUME Inv, Inv', Safe, ResumeIsSafe', RecordStart \/ OpenPart
  PROVE  Promise!Next
  <1>1. /\ engine \in {"planned", "opening"} /\ engine' \in {"opening", "filling"}
        /\ UNCHANGED <<remote, final, ref, resume>>
    BY DEF RecordStart, OpenPart, Go, KeepWork, KeepLoop
  <1>2. saved' = [version |-> ref, held |-> resume]
    BY DEF RecordStart, OpenPart, Go, Safe, Saves
  <1>3. CASE part
    <2>1. part' BY <1>3 DEF RecordStart, OpenPart
    <2>2. saved # None /\ saved.version = ref /\ saved.held = resume
      BY <1>1, <1>3 DEF Safe, Saves, ResumeIsSafe
    <2>3. SafeBytes' = SafeBytes
      BY <1>2, <1>3, <2>1, <2>2, SafeIsHeld DEF Safe, Saves
    <2>4. saved' # None BY <2>1 DEF ResumeIsSafe
    <2>5. Recorded' = Recorded BY <1>2, <2>2, <2>4 DEF Recorded
    <2>6. Promise!Judge BY <1>1, <2>3, <2>5 DEF Promise!Judge, SafeBytes, Recorded
    <2> QED BY <2>6 DEF Promise!Next
  <1>4. CASE ~part
    <2>1. CASE RecordStart
      <3>1. ~part' BY <1>4, <2>1 DEF RecordStart
      <3> QED BY <1>1, <1>4, <3>1, Records
    <2>2. CASE OpenPart
      <3>1. part' /\ saved' = saved BY <2>2 DEF OpenPart
      <3>2. resume = {} BY <1>1, <1>4 DEF Safe, Saves, Planning
      <3>3. SafeBytes = {} /\ SafeBytes' = {}
        BY <1>2, <1>4, <3>1, <3>2, SafeIsHeld DEF SafeBytes
      <3>4. Promise!Judge BY <1>1, <3>1, <3>3 DEF Promise!Judge, SafeBytes
      <3> QED BY <3>4 DEF Promise!Next
    <2> QED BY <2>1, <2>2
  <1> QED BY <1>3, <1>4

(* A save adds to what is safe. *)
LEMMA SaveAdds == ASSUME Inv, Safe, ResumeIsSafe', PersistSave PROVE Promise!Next
  <1>1. /\ engine = "saving" /\ engine' # "rejecting" /\ part /\ part'
        /\ saved' = [version |-> ref, held |-> snap] /\ UNCHANGED <<remote, final>>
    BY DEF PersistSave, Go, AfterPersist, KeepWork, Safe, Phases, Working
  <1>2. saved # None /\ saved' # None /\ saved.version = ref /\ ref # 0
    BY <1>1, DownloadAssumption DEF Safe, Saves, ResumeIsSafe, Inv, RunInv
  <1>3. Recorded = ref /\ Recorded' = ref BY <1>1, <1>2 DEF Recorded
  <1>4. SafeBytes = saved.held /\ SafeBytes' = snap BY <1>1, SafeIsHeld DEF Safe, Saves
  <1>5. saved.held \subseteq snap /\ snap \subseteq Byte BY <1>1 DEF Safe, Saves, Inv, RunInv
  <1>6. Promise!Save
    BY <1>1, <1>2, <1>3, <1>4, <1>5 DEF Promise!Save, SafeBytes, Recorded
  <1> QED BY <1>6 DEF Promise!Next

(* What takes the file's name is every byte of the version recorded. *)
LEMMA Delivers == ASSUME Inv, Safe, Rename PROVE Promise!Next
  <1>1. /\ engine = "renaming" /\ engine' # "rejecting" /\ part /\ ~part'
        /\ final' = disk /\ UNCHANGED <<remote, saved>>
    BY DEF Rename, RemovePart, Go, KeepWork, Safe, Phases
  <1>2. saved # None /\ saved.version = ref /\ ref # 0
    BY <1>1, DownloadAssumption DEF Safe, Saves, ResumeIsSafe, Inv, RunInv
  <1>3. Recorded = ref BY <1>2 DEF Recorded
  <1>4. disk = [b \in Byte |-> ref]
    <2>1. Holds(disk, ref) = Byte /\ disk \in Contents BY <1>1 DEF Safe, Whole, Inv, RunInv
    <2>2. \A b \in Byte : disk[b] = ref BY <2>1 DEF Holds
    <2> QED BY <2>1, <2>2 DEF Contents
  <1>5. SafeBytes' = {} BY <1>1 DEF SafeBytes
  <1>6. Promise!Deliver BY <1>1, <1>2, <1>3, <1>4, <1>5 DEF Promise!Deliver, SafeBytes, Recorded
  <1> QED BY <1>6 DEF Promise!Next

LEMMA ChangePublishes == ASSUME ChangeRemote PROVE Promise!Next
  <1>1. UNCHANGED <<engine, part, saved, final, durable>> /\ remote' \in 1 .. Versions \ {remote}
    BY DEF ChangeRemote, files, run
  <1>2. SafeBytes' = SafeBytes /\ Recorded' = Recorded BY <1>1 DEF SafeBytes, Recorded, Holds
  <1>3. Promise!Publish BY <1>1, <1>2 DEF Promise!Publish, SafeBytes, Recorded
  <1> QED BY <1>3 DEF Promise!Next

(* Every step of a download, and of the world around it, is one the promise allows. *)
LEMMA StepKeepsPromise ==
  Inv /\ Inv' /\ Books /\ Safe /\ Safe' /\ [Next]_vars => [Promise!Next]_(Promise!vars)
  <1> SUFFICES ASSUME Inv, Inv', Books, Safe, Safe', [Next]_vars PROVE Promise!Next OBVIOUS
  <1>0. ResumeIsSafe /\ ResumeIsSafe' BY DEF Safe, Saves
  <1>1. ASSUME NEW w \in Workers, WorkerStep(w) PROVE Promise!Next
    <2>1. UNCHANGED <<remote, part, saved, final>>
      <3>1. CASE GoingOn(w)
        <4>1. UNCHANGED <<part, saved, final>> BY <3>1, GoingOnDisk
        <4>2. remote' = remote
          BY <3>1 DEF GoingOn, Answer, AnswerFails, AnswerRefused, AnswerChanged, Receive, BodyEnds, FlushDue,
                      BodyBreaks, Interrupted, WriteOut, WriteFails, Advance, Quiet, KeepRun
        <4> QED BY <4>1, <4>2
      <3>2. CASE ~GoingOn(w)
        BY <1>1, <3>2 DEF WorkerStep, GoingOn, TakeRetry, TakeFresh, LookForVictim, PickSilent, DoTakeOver, PickSteal,
                          DoSteal, FindNothing, Settle, NoMirrorLeft, Return, Quiet, KeepRun, files
      <3> QED BY <3>1, <3>2
    <2> QED BY <1>0, <2>1, Judges
  <1>2. CASE PlanResume \/ PlanFresh \/ Start \/ StartFails \/ FinalizeFails \/ AllCompleted \/ HasFatalFailure
             \/ SeesCancel \/ Join \/ PersistRanges \/ PersistSync \/ PersistFails \/ Verified \/ VerifiedWrong \/ Cancel
    <2>1. UNCHANGED <<remote, part, saved, final>>
      BY <1>2 DEF PlanResume, PlanFresh, Start, StartFails, FinalizeFails, AllCompleted, HasFatalFailure, SeesCancel,
                  Leave, Join, PersistRanges, PersistSync, PersistFails, Verified, VerifiedWrong, Cancel, KeepWork,
                  KeepSaves, files
    <2> QED BY <1>0, <2>1, Judges
  <1>3. CASE PlanDiscard \/ RejectPart BY <1>0, <1>3, Discards
  <1>4. CASE DiscardState \/ RemoveState
    <2>1. /\ ~part /\ ~part' /\ UNCHANGED <<remote, final>> /\ engine # "rejecting" /\ engine' # "rejecting"
      BY <1>4 DEF DiscardState, RemoveState, Go, KeepWork, Safe, Phases
    <2> QED BY <2>1, Records
  <1>5. CASE RecordStart \/ OpenPart BY <1>0, <1>5, StartRecords
  <1>6. CASE PersistSave BY <1>0, <1>6, SaveAdds
  <1>7. CASE Rename BY <1>7, Delivers
  <1>8. CASE ChangeRemote BY <1>8, ChangePublishes
  <1>9. CASE RunAgain \/ ProcessDies \/ MachineFails
    <2>1. UNCHANGED <<remote, part, saved, final>> BY <1>9 DEF RunAgain, ProcessDies, MachineFails, Afresh
    <2> QED BY <1>0, <2>1, Judges
  <1>10. CASE UNCHANGED vars
    <2>1. UNCHANGED <<remote, part, saved, final>> BY <1>10 DEF vars, files
    <2> QED BY <1>0, <2>1, Judges
  <1>11. CASE Finished BY <1>10, <1>11 DEF Finished
  <1> QED BY <1>1, <1>2, <1>3, <1>4, <1>5, <1>6, <1>7, <1>8, <1>9, <1>10, <1>11 DEF Next, EngineStep

(* Across runs, crashes and versions on the server, a download implements Transfer: what a save       *)
(* recorded and synced stays safe until the whole file is delivered, unless the server has another    *)
(* version or the finished file proved wrong (engine.rs: plan_target, persist, finalize).             *)
THEOREM DownloadKeepsPromise == ASSUME NoWholeRequest PROVE Spec => KeepsPromise
  <1>1. Init => Promise!Init BY DownloadAssumption DEF Init, Promise!Init
  <1> QED BY <1>1, StepKeepsPromise, AlwaysSafe, PTL DEF Spec, KeepsPromise, Promise!Spec
=============================================================================
