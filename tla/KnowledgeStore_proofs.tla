------------------------ MODULE KnowledgeStore_proofs ------------------------
(***************************************************************************)
(* Proofs about KnowledgeStore for any sources, contents, parsers, spaces,  *)
(* deliveries and number of threads and requests, on either store.          *)
(***************************************************************************)
EXTENDS KnowledgeStore, SequenceTheorems, FiniteSetTheorems, TLAPS

USE StoreAssumption

-----------------------------------------------------------------------------
(* The tables, the requests and the records, as types.                      *)

SourceRow == [status : {"active", "retired"}, hold : BOOLEAN]
VersionRow == [id : Ids, content : Contents, parser : Parsers, number : Nat \ {0}]
Vector == [chunk : Chunks, space : Spaces, by : Spaces]

Fields == {"sources", "versions", "artifacts", "namespaces", "edges", "chunks", "vectors"}

TablesOK(d) ==
    /\ DOMAIN d = Fields
    /\ d.sources \in [Sources -> SourceRow \cup {Nothing}]
    /\ d.versions \in [Sources -> Seq(VersionRow)]
    /\ d.chunks \subseteq Chunks
    /\ d.vectors \subseteq Vector

Saving == {"received", "put", "numbered", "embedded", "writing"}
Places == Saving \cup {"idle", "accepted", "retiring", "running", "persisting", "ending"}
Statuses == {"none", "running", "complete", "paused", "failed"}

Requests == [kind : {"none", "ingest", "retire", "reparse", "reembed"}, at : Places,
             source : Sources \cup {Nothing}, content : Contents \cup {Nothing},
             parser : Parsers \cup {Nothing}, hold : BOOLEAN, number : Nat,
             target : Spaces \cup {Nothing}, label : Spaces \cup {Nothing},
             todo : SUBSET Chunks, made : SUBSET (Chunks \X Spaces), done : SUBSET Chunks,
             outcome : Statuses]

RecordIds == (Sources \cup {Nothing}) \X (Contents \cup {Nothing}) \X (Parsers \cup {Nothing})

Records == [status : Statuses, kind : {"none", "retire", "reparse", "reembed"},
            id : RecordIds \cup {<<>>}, todo : SUBSET Chunks, target : Spaces \cup {Nothing}]

\* What a thread knows of its request at each place.
Aware(o) ==
    /\ o.at = "idle" => o = NoOp
    /\ o.at \in Saving => o.kind \in {"ingest", "reparse"}
    /\ o.at = "retiring" => o.kind = "retire"
    /\ o.at \in {"running", "persisting"} => o.kind = "reembed"
    /\ o.at \in {"accepted", "ending"} => o.kind \in {"retire", "reparse", "reembed"}
    /\ o.at # "idle" => o.source \in Sources
    /\ o.kind \in {"ingest", "reparse"} /\ o.at # "idle" => IdOf(o) \in Ids
    /\ o.kind = "reembed" /\ o.at # "idle" => o.target \in Spaces
    /\ o.at \in {"embedded", "writing", "persisting"} => o.label \in Spaces

BackupOK == saved = Nothing \/ (TablesOK(saved.db) /\ saved.objects \subseteq Contents
                                /\ saved.record \in [Threads -> Records])

OpOK == op \in [Threads -> Requests] /\ \A t \in Threads : Aware(op[t])

MigrationOK ==
    migration \in [Spaces -> [completed : SUBSET Chunks,
                              status : {"registered", "complete", "paused", "active"}]]

Typed ==
    /\ backend \in {"postgres", "memory"}
    /\ TablesOK(db)
    /\ objects \subseteq Contents
    /\ active \in Spaces
    /\ MigrationOK
    /\ OpOK
    /\ record \in [Threads -> Records]
    /\ BackupOK

LEMMA IdsApart == ASSUME NEW id \in Ids
                  PROVE  /\ id[1] \in Sources /\ id[2] \in Contents /\ id[3] \in Parsers
                         /\ id = <<id[1], id[2], id[3]>> /\ ChunksOf(id) \subseteq Chunks
BY DEF Ids, Chunks

LEMMA Triples == \A a, b, c, x, y, z : <<a, b, c>> = <<x, y, z>> => a = x /\ b = y /\ c = z
OBVIOUS

LEMMA OneLonger == \A n \in Nat : \A i \in 1..(n + 1) : i \in 1..n \/ i = n + 1
OBVIOUS

(* A row appended to rows comes after them and leaves them as they are.     *)
LEMMA Appended ==
  ASSUME NEW rows \in Seq(VersionRow), NEW row
  PROVE  /\ DOMAIN Append(rows, row) = 1..(Len(rows) + 1)
         /\ Len(Append(rows, row)) = Len(rows) + 1
         /\ Append(rows, row)[Len(rows) + 1] = row
         /\ \A i \in 1..Len(rows) : Append(rows, row)[i] = rows[i]
<1> DEFINE S == VersionRow \cup {row}
<1>1. rows \in Seq(S) /\ row \in S
  BY SeqMonotonic
<1> HIDE DEF S
<1>2. Len(rows) \in Nat /\ Append(rows, row) \in Seq(S) /\ Len(Append(rows, row)) = Len(rows) + 1
  BY <1>1, AppendProperties
<1>3. DOMAIN Append(rows, row) = 1..(Len(rows) + 1)
  BY <1>2, LenProperties
<1>4. Append(rows, row)[Len(rows) + 1] = row
  BY <1>1, AppendProperties
<1>5. \A i \in 1..Len(rows) : Append(rows, row)[i] = rows[i]
  BY <1>1, AppendProperties
<1>6. QED
  BY <1>2, <1>3, <1>4, <1>5

LEMMA NoOpType == NoOp \in Requests /\ Aware(NoOp) /\ NoRecord \in Records
BY DEF NoOp, NoRecord, Requests, Places, Saving, Statuses, Aware, Records

-----------------------------------------------------------------------------
(* Writing a bundle, by either store: the source is active again, the       *)
(* version is new or was there, and the rest only grows.                    *)

Tables(e, so, ve, ar, na, ed, ch, vs) ==
    /\ DOMAIN e = Fields
    /\ e.sources = so /\ e.versions = ve /\ e.artifacts = ar /\ e.namespaces = na
    /\ e.edges = ed /\ e.chunks = ch /\ e.vectors = vs

VectorsWith(d, b) ==
    {v \in d.vectors : v.chunk \notin ChunksOf(IdOf(b)) \/ v.space # b.label}
      \cup {[chunk |-> m[1], space |-> b.label, by |-> m[2]] : m \in b.made}

LEMMA EvidenceStep ==
  ASSUME NEW d, DOMAIN d = Fields, NEW b
  PROVE  Tables(Evidence(d, b),
                d.sources, d.versions, d.artifacts \cup {<<b.content, b.parser>>},
                d.namespaces \cup NamespacesOf(b), d.edges \cup EdgesOf(b),
                d.chunks \cup ChunksOf(IdOf(b)), VectorsWith(d, b))
<1> DEFINE artifacts == d.artifacts \cup {<<b.content, b.parser>>}
           namespaces == d.namespaces \cup NamespacesOf(b)
           edges == d.edges \cup EdgesOf(b)
           chunks == d.chunks \cup ChunksOf(IdOf(b))
           d1 == UpsertArtifact(d, b)
           d2 == UpsertNamespaces(d1, b)
           d3 == UpsertEdges(d2, b)
           d4 == UpsertChunks(d3, b)
<1> USE DEF Tables, Fields
<1>1. Tables(d1, d.sources, d.versions, artifacts, d.namespaces, d.edges, d.chunks, d.vectors)
  BY DEF UpsertArtifact
<1> HIDE DEF d1
<1>2. Tables(d2, d.sources, d.versions, artifacts, namespaces, d.edges, d.chunks, d.vectors)
  BY <1>1 DEF UpsertNamespaces
<1> HIDE DEF d2
<1>3. Tables(d3, d.sources, d.versions, artifacts, namespaces, edges, d.chunks, d.vectors)
  BY <1>2 DEF UpsertEdges
<1> HIDE DEF d3
<1>4. Tables(d4, d.sources, d.versions, artifacts, namespaces, edges, chunks, d.vectors)
  BY <1>3 DEF UpsertChunks
<1> HIDE DEF d4
<1>5. Tables(UpsertEmbeddings(d4, b), d.sources, d.versions, artifacts, namespaces, edges, chunks,
             VectorsWith(d, b))
  BY <1>4 DEF UpsertEmbeddings, VectorsWith
<1>6. Evidence(d, b) = UpsertEmbeddings(d4, b)
  BY DEF Evidence, d1, d2, d3, d4
<1>7. QED
  BY <1>5, <1>6

LEMMA SourceStep ==
  ASSUME NEW d, TablesOK(d), NEW b, b.source \in Sources, b.hold \in BOOLEAN
  PROVE  /\ Tables(UpsertSource(d, b),
                   [d.sources EXCEPT ![b.source] = [status |-> "active", hold |-> b.hold]],
                   d.versions, d.artifacts, d.namespaces, d.edges, d.chunks, d.vectors)
         /\ TablesOK(UpsertSource(d, b))
<1>1. Tables(UpsertSource(d, b),
             [d.sources EXCEPT ![b.source] = [status |-> "active", hold |-> b.hold]],
             d.versions, d.artifacts, d.namespaces, d.edges, d.chunks, d.vectors)
  BY DEF TablesOK, UpsertSource, Tables, Fields
<1>2. [status |-> "active", hold |-> b.hold] \in SourceRow
  BY DEF SourceRow
<1>3. QED
  BY <1>1, <1>2 DEF Tables, TablesOK

RowOf(b) == [id |-> IdOf(b), content |-> b.content, parser |-> b.parser, number |-> b.number]

\* The row an upsert finds keeps its identity.
RowKept(row, b) == [id |-> row.id, content |-> b.content, parser |-> b.parser, number |-> b.number]

LEMMA VersionStep ==
  ASSUME NEW d, TablesOK(d), NEW b, b.source \in Sources
  PROVE  LET e == UpsertVersion(d, b)
             rows == d.versions[b.source]
         IN  /\ Tables(e, d.sources, e.versions, d.artifacts, d.namespaces, d.edges, d.chunks, d.vectors)
             /\ \/ /\ \A i \in DOMAIN rows : rows[i].content # b.content
                   /\ e.versions = [d.versions EXCEPT ![b.source] = Append(rows, RowOf(b))]
                \/ \E i \in DOMAIN rows :
                     /\ rows[i].content = b.content
                     /\ e.versions = [d.versions EXCEPT ![b.source] = [rows EXCEPT ![i] = RowKept(rows[i], b)]]
<1> DEFINE rows == d.versions[b.source]
           same == {i \in DOMAIN rows : rows[i].content = b.content}
           e == UpsertVersion(d, b)
           new == [d EXCEPT !.versions = [d.versions EXCEPT ![b.source] = Append(rows, RowOf(b))]]
           i0 == CHOOSE j \in same : TRUE
           old == [d EXCEPT !.versions =
                     [d.versions EXCEPT ![b.source] = [rows EXCEPT ![i0] = RowKept(rows[i0], b)]]]
<1>1. CASE same = {}
  <2>1. e = new
    BY <1>1 DEF UpsertVersion, RowOf
  <2>2. /\ Tables(new, d.sources, new.versions, d.artifacts, d.namespaces, d.edges, d.chunks, d.vectors)
        /\ new.versions = [d.versions EXCEPT ![b.source] = Append(rows, RowOf(b))]
    BY DEF TablesOK, Tables, Fields
  <2>3. \A i \in DOMAIN rows : rows[i].content # b.content
    BY <1>1
  <2>4. QED
    BY <2>1, <2>2, <2>3
<1>2. CASE same # {}
  <2>1. e = old
    BY <1>2 DEF UpsertVersion, RowKept
  <2>2. i0 \in same
    BY <1>2
  <2>3. /\ Tables(old, d.sources, old.versions, d.artifacts, d.namespaces, d.edges, d.chunks, d.vectors)
        /\ old.versions = [d.versions EXCEPT ![b.source] = [rows EXCEPT ![i0] = RowKept(rows[i0], b)]]
    BY DEF TablesOK, Tables, Fields
  <2>4. QED
    BY <2>1, <2>2, <2>3
<1>3. QED
  BY <1>1, <1>2

-----------------------------------------------------------------------------
(* Version numbers.  In PostgreSQL a number is the row's place; the store   *)
(* in memory numbers a content by the place of its first row.               *)

RowsOK(s, rows) ==
    /\ \A i \in DOMAIN rows :
        /\ rows[i].id = <<s, rows[i].content, rows[i].parser>>
        /\ rows[i].number \in 1..i
        /\ backend = "postgres" => rows[i].number = i
    /\ \A i, j \in DOMAIN rows : rows[i].content = rows[j].content => rows[i].number = rows[j].number

\* The number a bundle was given is that of its content, or a later one took it.
NumberOK(o, rows) ==
    IF backend = "postgres"
    THEN /\ o.number \in 1..(Len(rows) + 1)
         /\ \A i \in DOMAIN rows : rows[i].content = o.content => o.number <= i
    ELSE /\ \A i \in DOMAIN rows : rows[i].content = o.content => o.number = rows[i].number
         /\ (\A i \in DOMAIN rows : rows[i].content # o.content) => o.number = Len(rows) + 1
         /\ o.at = "writing" => \A i \in DOMAIN rows : rows[i].id # IdOf(o)

\* What the new row is to the others.
Numbered(b, rows) ==
    /\ b.number \in 1..(Len(rows) + 1)
    /\ \A i \in DOMAIN rows : rows[i].content = b.content =>
          b.number = rows[i].number /\ rows[i].parser # b.parser
    /\ (\A i \in DOMAIN rows : rows[i].content # b.content) => b.number = Len(rows) + 1

VersionSaved(d, e, b) ==
    LET rows == d.versions[b.source] IN
    \/ /\ e.versions = [d.versions EXCEPT ![b.source] = Append(rows, RowOf(b))]
       /\ Numbered(b, rows)
       /\ backend = "postgres" => b.number = Len(rows) + 1
    \/ /\ e.versions = d.versions
       /\ \E i \in DOMAIN rows : rows[i] = RowOf(b)

SavedAs(d, e, b) ==
    /\ Tables(e, [d.sources EXCEPT ![b.source] = [status |-> "active", hold |-> b.hold]],
              e.versions, d.artifacts \cup {<<b.content, b.parser>>},
              d.namespaces \cup NamespacesOf(b), d.edges \cup EdgesOf(b),
              d.chunks \cup ChunksOf(IdOf(b)), VectorsWith(d, b))
    /\ VersionSaved(d, e, b)

\* A transaction that no constraint aborts leaves a known row as it is.
LEMMA AcceptedRow ==
  ASSUME backend = "postgres", TablesOK(db), NEW b \in Requests, IdOf(b) \in Ids,
         RowsOK(b.source, db.versions[b.source]), NumberOK(b, db.versions[b.source]), ~Refused(b)
  PROVE  VersionSaved(db, UpsertVersion(db, b), b)
<1> DEFINE s == b.source
           rows == db.versions[s]
           e == UpsertVersion(db, b)
<1>1. s \in Sources /\ rows \in Seq(VersionRow) /\ Len(rows) \in Nat /\ DOMAIN rows = 1..Len(rows)
  BY DEF IdOf, Ids, TablesOK
<1>2. \A i \in DOMAIN rows : rows[i].number = b.number => rows[i].content = b.content
  BY DEF Refused, Rows, RowsIn
<1>3. b.number \in 1..(Len(rows) + 1)
  BY DEF NumberOK
<1>4. CASE /\ \A i \in DOMAIN rows : rows[i].content # b.content
           /\ e.versions = [db.versions EXCEPT ![s] = Append(rows, RowOf(b))]
  <2>1. b.number \notin DOMAIN rows
    BY <1>2, <1>4 DEF RowsOK
  <2>2. b.number = Len(rows) + 1
    BY <1>1, <1>3, <2>1
  <2>3. QED
    BY <1>3, <1>4, <2>2 DEF VersionSaved, Numbered
<1>5. ASSUME NEW i \in DOMAIN rows, rows[i].content = b.content,
             e.versions = [db.versions EXCEPT ![s] = [rows EXCEPT ![i] = RowKept(rows[i], b)]]
      PROVE  VersionSaved(db, e, b)
  <2>1. \A j \in DOMAIN rows : rows[j].content = b.content => j = i
    BY <1>5, SMTT(30) DEF RowsOK
  <2>2. rows[i].id = IdOf(b)
    <3>1. e.versions[s] = [rows EXCEPT ![i] = RowKept(rows[i], b)]
      BY <1>1, <1>5 DEF TablesOK
    <3>2. PICK j \in DOMAIN rows : e.versions[s][j].id = IdOf(b)
      BY <1>1, <3>1, ZenonT(30) DEF Refused, RowsIn
    <3>3. CASE j = i
      BY <3>1, <3>2, <3>3 DEF RowKept
    <3>4. CASE j # i
      <4>1. rows[j].id = IdOf(b)
        BY <3>1, <3>2, <3>4
      <4>2. rows[j].content = b.content
        BY <4>1, SMTT(30) DEF RowsOK, IdOf
      <4>3. QED
        BY <2>1, <3>4, <4>2
    <3>5. QED
      BY <3>3, <3>4
  <2>3. rows[i].parser = b.parser
    BY <2>2, SMTT(30) DEF RowsOK, IdOf
  <2>4. rows[i].number = b.number
    <3>1. i \in Nat /\ rows[i].number = i /\ b.number \in Nat /\ b.number >= 1 /\ b.number <= i
      BY <1>1, <1>3, <1>5, SMTT(30) DEF RowsOK, NumberOK
    <3>2. b.number \in DOMAIN rows
      BY <1>1, <3>1
    <3>3. rows[b.number].content = b.content
      BY <1>2, <3>2 DEF RowsOK
    <3>4. QED
      BY <2>1, <3>1, <3>2, <3>3
  <2>5. rows[i] = RowOf(b) /\ RowKept(rows[i], b) = rows[i]
    <3>1. rows[i] \in VersionRow
      BY <1>1, <1>5
    <3>2. rows[i] = [id |-> rows[i].id, content |-> rows[i].content,
                     parser |-> rows[i].parser, number |-> rows[i].number]
      BY <3>1 DEF VersionRow
    <3>3. QED
      BY <1>5, <2>2, <2>3, <2>4, <3>2 DEF RowOf, RowKept
  <2>6. [rows EXCEPT ![i] = rows[i]] = rows
    BY <1>1, <1>5
  <2>7. e.versions = [db.versions EXCEPT ![s] = rows]
    BY <1>5, <2>5, <2>6
  <2>8. e.versions = db.versions
    BY <1>1, <2>7 DEF TablesOK
  <2>9. QED
    BY <2>5, <2>8 DEF VersionSaved
<1>6. QED
  BY <1>1, <1>4, <1>5, VersionStep

LEMMA TransactionSaves ==
  ASSUME backend = "postgres", TablesOK(db), NEW b \in Requests, IdOf(b) \in Ids,
         RowsOK(b.source, db.versions[b.source]), NumberOK(b, db.versions[b.source]), ~Refused(b)
  PROVE  SavedAs(db, Transaction(b), b)
<1> DEFINE d1 == UpsertSource(db, b)
           d2 == UpsertVersion(d1, b)
<1>1. b.source \in Sources /\ b.hold \in BOOLEAN
  BY DEF Requests, IdOf, Ids
<1>2. /\ Tables(d1, [db.sources EXCEPT ![b.source] = [status |-> "active", hold |-> b.hold]],
                db.versions, db.artifacts, db.namespaces, db.edges, db.chunks, db.vectors)
      /\ TablesOK(d1)
  BY <1>1, SourceStep
<1> HIDE DEF d1
<1>3. /\ Tables(d2, d1.sources, d2.versions, d1.artifacts, d1.namespaces, d1.edges, d1.chunks, d1.vectors)
  BY <1>1, <1>2, VersionStep
<1>4. d2.versions = UpsertVersion(db, b).versions
  BY <1>2 DEF UpsertVersion, Tables, TablesOK, Fields
<1> HIDE DEF d2
<1>5. Transaction(b) = Evidence(d2, b)
  BY DEF Transaction, d1, d2
<1>6. /\ Tables(Evidence(d2, b), d2.sources, d2.versions, d2.artifacts \cup {<<b.content, b.parser>>},
                d2.namespaces \cup NamespacesOf(b), d2.edges \cup EdgesOf(b),
                d2.chunks \cup ChunksOf(IdOf(b)), VectorsWith(d2, b))
  <2>1. DOMAIN d2 = Fields
    BY <1>3 DEF Tables
  <2>2. QED
    BY <2>1, EvidenceStep
<1>7. VectorsWith(d2, b) = VectorsWith(db, b)
  BY <1>2, <1>3 DEF VectorsWith, Tables
<1>8. VersionSaved(db, Evidence(d2, b), b)
  BY <1>4, <1>6, AcceptedRow DEF VersionSaved, Tables
<1>9. QED
  BY <1>2, <1>3, <1>5, <1>6, <1>7, <1>8 DEF SavedAs, Tables

LEMMA MemorySaves ==
  ASSUME backend # "postgres", TablesOK(db), NEW b \in Requests, IdOf(b) \in Ids, b.at = "writing",
         RowsOK(b.source, db.versions[b.source]), NumberOK(b, db.versions[b.source])
  PROVE  SavedAs(db, MemorySave(b), b)
<1> DEFINE d1 == UpsertSource(db, b)
           rows == db.versions[b.source]
           d2 == [d1 EXCEPT !.versions = [d1.versions EXCEPT ![b.source] = Append(d1.versions[b.source], RowOf(b))]]
<1>1. b.source \in Sources /\ b.hold \in BOOLEAN /\ rows \in Seq(VersionRow) /\ DOMAIN rows = 1..Len(rows)
  BY DEF Requests, IdOf, Ids, TablesOK
<1>2. /\ Tables(d1, [db.sources EXCEPT ![b.source] = [status |-> "active", hold |-> b.hold]],
                db.versions, db.artifacts, db.namespaces, db.edges, db.chunks, db.vectors)
      /\ TablesOK(d1)
  BY <1>1, SourceStep
<1>3. MemorySave(b) = Evidence(d2, b)
  BY DEF MemorySave, RowOf
<1> HIDE DEF d1
<1>4. Tables(d2, d1.sources, [db.versions EXCEPT ![b.source] = Append(rows, RowOf(b))],
             d1.artifacts, d1.namespaces, d1.edges, d1.chunks, d1.vectors)
  BY <1>2 DEF Tables, Fields
<1> HIDE DEF d2
<1>5. /\ Tables(Evidence(d2, b), d2.sources, d2.versions, d2.artifacts \cup {<<b.content, b.parser>>},
                d2.namespaces \cup NamespacesOf(b), d2.edges \cup EdgesOf(b),
                d2.chunks \cup ChunksOf(IdOf(b)), VectorsWith(d2, b))
  <2>1. DOMAIN d2 = Fields
    BY <1>4 DEF Tables
  <2>2. QED
    BY <2>1, EvidenceStep
<1>6. VectorsWith(d2, b) = VectorsWith(db, b)
  BY <1>2, <1>4 DEF VectorsWith, Tables
<1>7. Numbered(b, rows)
  <2>1. \A i \in DOMAIN rows : rows[i].content = b.content =>
          b.number = rows[i].number /\ rows[i].parser # b.parser
    BY ZenonT(30) DEF NumberOK, RowsOK, IdOf
  <2>2. (\A i \in DOMAIN rows : rows[i].content # b.content) => b.number = Len(rows) + 1
    BY DEF NumberOK
  <2>3. b.number \in 1..(Len(rows) + 1)
    <3>1. CASE \E i \in DOMAIN rows : rows[i].content = b.content
      <4>1. PICK i \in DOMAIN rows : rows[i].content = b.content
        BY <3>1
      <4>2. b.number = rows[i].number /\ rows[i].number \in 1..i /\ i \in 1..Len(rows)
        BY <1>1, <2>1, <4>1 DEF RowsOK
      <4>3. QED
        BY <1>1, <4>2
    <3>2. QED
      BY <1>1, <2>2, <3>1
  <2>4. QED
    BY <2>1, <2>2, <2>3 DEF Numbered
<1>8. VersionSaved(db, Evidence(d2, b), b)
  BY <1>4, <1>5, <1>7 DEF VersionSaved, Tables
<1>9. QED
  BY <1>2, <1>3, <1>4, <1>5, <1>6, <1>8 DEF SavedAs, Tables

-----------------------------------------------------------------------------
(* What the numbers and places of requests are to the tables.               *)

Busy(t) == op[t].at # "idle"

NumbersOK ==
    /\ \A s \in Sources : RowsOK(s, db.versions[s])
    /\ saved # Nothing => \A s \in Sources : RowsOK(s, saved.db.versions[s])
    /\ \A t \in Threads : op[t].at \in {"numbered", "embedded", "writing"} =>
          NumberOK(op[t], db.versions[op[t].source])
    /\ backend = "memory" => \A t, u \in Threads : Busy(t) /\ Busy(u) => t = u

LEMMA HighestIsLast ==
  ASSUME TablesOK(db), NEW s \in Sources, RowsOK(s, db.versions[s]), backend = "postgres"
  PROVE  Highest(s) = Len(db.versions[s])
<1> DEFINE rows == db.versions[s]
           numbers == {row.number : row \in Rows(s)}
<1>1. rows \in Seq(VersionRow) /\ Len(rows) \in Nat /\ DOMAIN rows = 1..Len(rows)
  BY DEF TablesOK
<1>2. \A row \in Rows(s) : row.number \in 1..Len(rows)
  BY <1>1 DEF Rows, RowsIn, RowsOK
<1>3. CASE Len(rows) = 0
  BY <1>1, <1>3 DEF Highest, Rows, RowsIn
<1>4. CASE Len(rows) # 0
  <2>1. Len(rows) \in DOMAIN rows
    BY <1>1, <1>4
  <2>2. rows[Len(rows)] \in Rows(s) /\ rows[Len(rows)].number = Len(rows)
    BY <2>1 DEF Rows, RowsIn, RowsOK
  <2>3. Rows(s) # {}
    BY <2>2
  <2>4. Len(rows) \in numbers /\ \A row \in Rows(s) : row.number <= Len(rows)
    BY <1>1, <1>2, <2>2
  <2>5. \A n \in numbers : (\A row \in Rows(s) : row.number <= n) => n = Len(rows)
    BY <1>1, <1>2, <2>2
  <2>6. Highest(s) = CHOOSE n \in numbers : \A row \in Rows(s) : row.number <= n
    BY <2>3 DEF Highest
  <2>7. (CHOOSE n \in numbers : \A row \in Rows(s) : row.number <= n) \in numbers
        /\ \A row \in Rows(s) : row.number <= (CHOOSE n \in numbers : \A r \in Rows(s) : r.number <= n)
    BY <2>4
  <2>8. QED
    BY <2>5, <2>6, <2>7
<1>5. QED
  BY <1>3, <1>4

\* next_version_number gives a content its own number or the next one.
LEMMA NextNumberOK ==
  ASSUME TablesOK(db), backend \in {"postgres", "memory"}, NEW s \in Sources, NEW c,
         RowsOK(s, db.versions[s])
  PROVE  /\ NextNumber(s, c) \in Nat
         /\ \A o : o.number = NextNumber(s, c) /\ o.content = c /\ o.at # "writing" =>
               NumberOK(o, db.versions[s])
<1> DEFINE rows == db.versions[s]
           same == {row \in Rows(s) : row.content = c}
           n == NextNumber(s, c)
<1>1. rows \in Seq(VersionRow) /\ Len(rows) \in Nat /\ DOMAIN rows = 1..Len(rows)
  BY DEF TablesOK
<1>2. CASE same # {}
  <2>1. PICK k \in DOMAIN rows : rows[k].content = c /\ n = rows[k].number
    BY <1>2 DEF NextNumber, Rows, RowsIn
  <2>2. rows[k].number \in 1..k /\ k \in 1..Len(rows)
    BY <1>1, <2>1 DEF RowsOK
  <2>3. n \in 1..(Len(rows) + 1)
    BY <1>1, <2>1, <2>2
  <2>4. \A i \in DOMAIN rows : rows[i].content = c => rows[i].number = n /\ (backend = "postgres" => i = n)
    BY <2>1 DEF RowsOK
  <2>5. QED
    BY <1>1, <2>1, <2>3, <2>4, SMTT(30) DEF NumberOK
<1>3. CASE same = {}
  <2>1. \A i \in DOMAIN rows : rows[i].content # c
    BY <1>3 DEF Rows, RowsIn
  <2>2. n = Len(rows) + 1
    BY <1>3, HighestIsLast DEF NextNumber
  <2>3. QED
    BY <1>1, <2>1, <2>2 DEF NumberOK
<1>4. QED
  BY <1>2, <1>3

-----------------------------------------------------------------------------
(* Every step of a request leaves it well formed.                           *)

Becomes(t, r) == op' = [op EXCEPT ![t] = r]

LEMMA BecomesStep ==
  ASSUME OpOK, NEW t \in Threads, NEW r \in Requests, Aware(r), Becomes(t, r)
  PROVE  OpOK' /\ op'[t] = r /\ \A u \in Threads \ {t} : op'[u] = op[u]
BY DEF OpOK, Becomes

LEMMA GotoStep ==
  ASSUME OpOK, NEW t \in Threads, NEW place \in Places, Goto(t, place),
         Aware([op[t] EXCEPT !.at = place])
  PROVE  /\ OpOK' /\ op'[t] = [op[t] EXCEPT !.at = place]
         /\ \A u \in Threads \ {t} : op'[u] = op[u]
<1>1. [op[t] EXCEPT !.at = place] \in Requests
  BY DEF OpOK, Requests
<1>2. Becomes(t, [op[t] EXCEPT !.at = place])
  BY DEF Goto, Becomes
<1>3. QED
  BY <1>1, <1>2, BecomesStep

Ended(o, outcome) ==
    IF o.kind = "ingest" THEN NoOp ELSE [o EXCEPT !.at = "ending", !.outcome = outcome]

LEMMA EndStep ==
  ASSUME OpOK, NEW t \in Threads, NEW outcome \in Statuses, End(t, outcome),
         op[t].at \in Saving \cup {"retiring", "running", "persisting"}
  PROVE  /\ OpOK' /\ op'[t] = Ended(op[t], outcome)
         /\ \A u \in Threads \ {t} : op'[u] = op[u]
<1>1. op[t] \in Requests /\ Aware(op[t])
  BY DEF OpOK
<1>2. CASE op[t].kind = "ingest"
  <2>1. Becomes(t, NoOp)
    BY <1>2 DEF End, Becomes
  <2>2. QED
    BY <1>2, <2>1, NoOpType, BecomesStep DEF Ended
<1>3. CASE op[t].kind # "ingest"
  <2>1. Ended(op[t], outcome) \in Requests
    BY <1>1, <1>3, ZenonT(30) DEF Ended, Requests, Places
  <2>2. Aware(Ended(op[t], outcome))
    BY <1>1, <1>3 DEF Ended, Requests, Places, Saving, Aware, IdOf
  <2>3. Becomes(t, Ended(op[t], outcome))
    BY <1>3 DEF End, Ended, Becomes
  <2>4. QED
    BY <2>1, <2>2, <2>3, BecomesStep
<1>4. QED
  BY <1>2, <1>3

\* What a request is when a thread takes it up.
Fresh(r) ==
    /\ r \in Requests /\ Aware(r)
    /\ r.at \in {"received", "accepted"}
    /\ r.todo \subseteq db.chunks /\ r.made = {} /\ r.done = {} /\ r.outcome = "none"

LEMMA SubmitStep ==
  ASSUME Typed, NEW t \in Threads, Submit(t)
  PROVE  /\ OpOK' /\ Fresh(op'[t])
         /\ op[t].at = "idle" /\ (backend = "memory" => Idle)
         /\ \A u \in Threads \ {t} : op'[u] = op[u]
         /\ UNCHANGED <<deployment, db, objects, spaces, record, backup>>
<1> DEFINE Goal == /\ OpOK' /\ Fresh(op'[t])
                   /\ op[t].at = "idle" /\ (backend = "memory" => Idle)
                   /\ \A u \in Threads \ {t} : op'[u] = op[u]
                   /\ UNCHANGED <<deployment, db, objects, spaces, record, backup>>
<1>1. ASSUME NEW r, Fresh(r), Take(t, r) PROVE Goal
  <2>1. Becomes(t, r)
    BY <1>1 DEF Take, Becomes
  <2>2. OpOK' /\ op'[t] = r /\ \A u \in Threads \ {t} : op'[u] = op[u]
    BY <1>1, <2>1, BecomesStep DEF Typed, Fresh
  <2>3. QED
    BY <1>1, <2>2 DEF Take, Free, Fresh
<1>2. ASSUME NEW d \in Deliveries, Ingest(t, d[1], d[2], d[3], d[4]) PROVE Goal
  <2> DEFINE r == [NoOp EXCEPT !.kind = "ingest", !.at = "received", !.source = d[1],
                               !.content = d[2], !.parser = d[3], !.hold = d[4]]
  <2>1. d[1] \in Sources /\ d[2] \in Contents /\ d[3] \in Parsers /\ d[4] \in BOOLEAN
    OBVIOUS
  <2>2. r \in Requests /\ Aware(r)
    BY <2>1 DEF NoOp, Requests, Places, Saving, Statuses, Aware, IdOf, Ids
  <2>3. Fresh(r)
    BY <2>2 DEF Fresh, NoOp
  <2>4. QED
    BY <1>1, <1>2, <2>3 DEF Ingest
<1>3. ASSUME NEW s \in Sources, RequestRetirement(t, s) PROVE Goal
  <2> DEFINE r == [NoOp EXCEPT !.kind = "retire", !.at = "accepted", !.source = s]
  <2>1. r \in Requests /\ Aware(r)
    BY DEF NoOp, Requests, Places, Saving, Statuses, Aware, IdOf, Ids
  <2>2. Fresh(r)
    BY <2>1 DEF Fresh, NoOp
  <2>3. QED
    BY <1>1, <1>3, <2>2 DEF RequestRetirement
<1>4. ASSUME NEW s \in Sources, NEW p \in Parsers, RequestReparse(t, s, p) PROVE Goal
  <2> DEFINE r == [NoOp EXCEPT !.kind = "reparse", !.at = "accepted", !.source = s,
                               !.content = Latest(s).content, !.parser = p]
  <2>1. Latest(s).content \in Contents
    BY <1>4 DEF RequestReparse, Typed
  <2>2. r \in Requests /\ Aware(r)
    BY <2>1 DEF NoOp, Requests, Places, Saving, Statuses, Aware, IdOf, Ids
  <2>3. Fresh(r)
    BY <2>2 DEF Fresh, NoOp
  <2>4. QED
    BY <1>1, <1>4, <2>3 DEF RequestReparse
<1>5. ASSUME NEW s \in Sources, NEW space \in Spaces, RequestReembed(t, s, space) PROVE Goal
  <2> DEFINE r == [NoOp EXCEPT !.kind = "reembed", !.at = "accepted", !.source = s,
                               !.target = space, !.todo = Provenance(s)]
  <2>1. Provenance(s) \subseteq db.chunks /\ db.chunks \subseteq Chunks
    BY DEF Provenance, Typed, TablesOK
  <2>2. r \in Requests /\ Aware(r)
    BY <2>1 DEF NoOp, Requests, Places, Saving, Statuses, Aware, IdOf, Ids
  <2>3. Fresh(r)
    BY <2>1, <2>2 DEF Fresh, NoOp
  <2>4. QED
    BY <1>1, <1>5, <2>3 DEF RequestReembed
<1>6. QED
  BY <1>2, <1>3, <1>4, <1>5 DEF Submit

\* embed(): a vector for every chunk, and one label for the result.
EmbeddedIn(o, chunks, space) ==
    /\ o.label \in {space, Cpu} /\ o.made \subseteq chunks \X Spaces
    /\ \A c \in chunks : \E m \in o.made : m[1] = c
    /\ \A m \in o.made : MayStand(m[2], o.label)
    /\ o.label \in Homes(space)

MadeBy(chunks, slow, space) == {<<c, IF c \in slow THEN Cpu ELSE space>> : c \in chunks}

\* The label a result may have when the CPU embedded the texts in slow.
LabelFor(slow, space, label) ==
    /\ label = space \/ (label = Cpu /\ (fallback \/ worker # {}))
    /\ slow # {} /\ label = space => label = Cpu \/ (fallback /\ worker # {})

LEMMA MadeMay ==
  ASSUME NEW chunks, NEW space \in Spaces, NEW slow \in SUBSET chunks, NEW label,
         LabelFor(slow, space, label)
  PROVE  /\ label \in Spaces /\ label \in {space, Cpu}
         /\ MadeBy(chunks, slow, space) \subseteq chunks \X Spaces
         /\ \A c \in chunks : \E m \in MadeBy(chunks, slow, space) : m[1] = c
         /\ \A m \in MadeBy(chunks, slow, space) : MayStand(m[2], label)
         /\ label \in Homes(space)
<1>1. label \in Spaces /\ label \in {space, Cpu}
  BY StoreAssumption DEF LabelFor
<1>2. MadeBy(chunks, slow, space) \subseteq chunks \X Spaces
  BY StoreAssumption DEF MadeBy
<1>3. ASSUME NEW c \in chunks PROVE \E m \in MadeBy(chunks, slow, space) : m[1] = c
  <2>1. <<c, IF c \in slow THEN Cpu ELSE space>> \in MadeBy(chunks, slow, space)
    BY DEF MadeBy
  <2>2. QED
    BY <2>1
<1>4. ASSUME NEW m \in MadeBy(chunks, slow, space) PROVE MayStand(m[2], label)
  <2>1. PICK c \in chunks : m = <<c, IF c \in slow THEN Cpu ELSE space>>
    BY DEF MadeBy
  <2>2. CASE c \in slow
    <3>1. m[2] = Cpu /\ slow # {}
      BY <2>1, <2>2
    <3>2. QED
      BY <3>1 DEF MayStand, LabelFor
  <2>3. CASE c \notin slow
    <3>1. m[2] = space
      BY <2>1, <2>3
    <3>2. QED
      BY <3>1 DEF MayStand, LabelFor
  <2>4. QED
    BY <2>2, <2>3
<1>5. label \in Homes(space)
  BY DEF LabelFor, Homes
<1>6. QED
  BY <1>1, <1>2, <1>3, <1>4, <1>5

LEMMA EmbedStep ==
  ASSUME Typed, NEW t \in Threads, op[t].at = "numbered", Embed(t)
  PROVE  /\ OpOK' /\ EmbeddedIn(op'[t], ChunksOf(IdOf(op[t])), active)
         /\ op'[t].at = "embedded" /\ op'[t].kind = op[t].kind /\ IdOf(op'[t]) = IdOf(op[t])
         /\ op'[t].number = op[t].number /\ op'[t].todo = op[t].todo /\ op'[t].target = op[t].target
         /\ \A u \in Threads \ {t} : op'[u] = op[u]
<1> DEFINE o == op[t]
           chunks == ChunksOf(IdOf(o))
           here == [o EXCEPT !.at = "embedded"]
<1>1. o \in Requests /\ Aware(o) /\ IdOf(o) \in Ids /\ active \in Spaces
  BY DEF Typed, OpOK, Aware, Saving
<1>2. chunks \subseteq Chunks
  BY <1>1, IdsApart
<1>13. Embedded(t, here, chunks, active)
  BY DEF Embed
<1> HIDE DEF here, chunks, o
<1>3. PICK slow \in SUBSET chunks, told \in BOOLEAN :
        /\ told => slow # {} /\ (fallback \/ active \in worker)
        /\ slow # {} /\ ~told => fallback /\ active \in worker
        /\ op' = [op EXCEPT ![t] = [here EXCEPT !.label = IF told THEN Cpu ELSE active,
                                               !.made = MadeBy(chunks, slow, active)]]
  BY <1>13 DEF Embedded, MadeBy
<1> DEFINE label == IF told THEN Cpu ELSE active
           made == MadeBy(chunks, slow, active)
           r == [o EXCEPT !.at = "embedded", !.label = label, !.made = made]
<1> HIDE DEF label, made
<1>4. label \in Spaces /\ label \in {active, Cpu} /\ made \subseteq chunks \X Spaces
      /\ (\A c \in chunks : \E m \in made : m[1] = c)
      /\ (\A m \in made : MayStand(m[2], label))
      /\ label \in Homes(active)
  <2>1. LabelFor(slow, active, label)
    <3>1. CASE told
      <4>1. label = Cpu /\ (fallback \/ active \in worker)
        BY <1>3, <3>1 DEF label
      <4>2. QED
        BY <4>1 DEF LabelFor
    <3>2. CASE ~told
      <4>1. label = active /\ (slow # {} => fallback /\ active \in worker)
        BY <1>3, <3>2 DEF label
      <4>2. QED
        BY <4>1 DEF LabelFor
    <3>3. QED
      BY <3>1, <3>2
  <2>2. QED
    BY <1>1, <2>1, MadeMay DEF made
<1>5. made \subseteq Chunks \X Spaces
  BY <1>2, <1>4
<1> USE DEF here, o
<1>6. r \in Requests
  BY <1>1, <1>4, <1>5 DEF Requests, Places, Saving
<1>7. Aware(r)
  BY <1>1, <1>4, <1>6 DEF Aware, Requests, Places, Saving, IdOf
<1>12. [here EXCEPT !.label = label, !.made = made] = r
  BY <1>1 DEF Requests
<1>8. Becomes(t, r)
  BY <1>3, <1>12 DEF Becomes, label, made
<1>9. OpOK' /\ op'[t] = r /\ \A u \in Threads \ {t} : op'[u] = op[u]
  BY <1>6, <1>7, <1>8, BecomesStep DEF Typed
<1>10. /\ r.at = "embedded" /\ r.label = label /\ r.made = made /\ r.kind = o.kind
       /\ IdOf(r) = IdOf(o) /\ r.number = o.number /\ r.todo = o.todo /\ r.target = o.target
  BY <1>1 DEF Requests, IdOf
<1>11. QED
  BY <1>4, <1>9, <1>10 DEF EmbeddedIn, chunks

LEMMA RunStartsStep ==
  ASSUME Typed, NEW t \in Threads, RunStarts(t)
  PROVE  LET open == op[t].todo \ migration[op[t].target].completed IN
         /\ OpOK' /\ EmbeddedIn(op'[t], open, op[t].target)
         /\ op'[t].at = "persisting" /\ op'[t].kind = op[t].kind /\ IdOf(op'[t]) = IdOf(op[t])
         /\ op'[t].todo = op[t].todo /\ op'[t].target = op[t].target
         /\ op'[t].done = migration[op[t].target].completed
         /\ \A u \in Threads \ {t} : op'[u] = op[u]
<1> DEFINE o == op[t]
           done == migration[o.target].completed
           open == o.todo \ done
           here == [o EXCEPT !.at = "persisting", !.done = done]
<1>1. o \in Requests /\ Aware(o) /\ o.target \in Spaces /\ o.source \in Sources /\ o.kind = "reembed"
      /\ o.at = "running"
  BY DEF Typed, OpOK, Aware, RunStarts
<1>2. done \subseteq Chunks /\ open \subseteq Chunks
  BY <1>1 DEF Typed, MigrationOK, Requests
<1>13. Embedded(t, here, open, o.target)
  BY DEF RunStarts
<1> HIDE DEF here, open, o
<1>3. PICK slow \in SUBSET open, told \in BOOLEAN :
        /\ told => slow # {} /\ (fallback \/ o.target \in worker)
        /\ slow # {} /\ ~told => fallback /\ o.target \in worker
        /\ op' = [op EXCEPT ![t] = [here EXCEPT !.label = IF told THEN Cpu ELSE o.target,
                                               !.made = MadeBy(open, slow, o.target)]]
  BY <1>13 DEF Embedded, MadeBy
<1> DEFINE label == IF told THEN Cpu ELSE o.target
           made == MadeBy(open, slow, o.target)
           r == [o EXCEPT !.at = "persisting", !.done = done, !.label = label, !.made = made]
<1> HIDE DEF label, made
<1>4. label \in Spaces /\ label \in {o.target, Cpu} /\ made \subseteq open \X Spaces
      /\ (\A c \in open : \E m \in made : m[1] = c)
      /\ (\A m \in made : MayStand(m[2], label))
      /\ label \in Homes(o.target)
  <2>1. LabelFor(slow, o.target, label)
    <3>1. CASE told
      <4>1. label = Cpu /\ (fallback \/ o.target \in worker)
        BY <1>3, <3>1 DEF label
      <4>2. QED
        BY <4>1 DEF LabelFor
    <3>2. CASE ~told
      <4>1. label = o.target /\ (slow # {} => fallback /\ o.target \in worker)
        BY <1>3, <3>2 DEF label
      <4>2. QED
        BY <4>1 DEF LabelFor
    <3>3. QED
      BY <3>1, <3>2
  <2>2. QED
    BY <1>1, <2>1, MadeMay DEF made
<1>5. made \subseteq Chunks \X Spaces
  BY <1>2, <1>4
<1> HIDE DEF done
<1> USE DEF here, o
<1>12. [here EXCEPT !.label = label, !.made = made] = r
  BY <1>1 DEF Requests
<1>8. Becomes(t, r)
  BY <1>3, <1>12 DEF Becomes, label, made, open, done
<1>6. r \in Requests
  BY <1>1, <1>2, <1>4, <1>5 DEF Requests, Places, Saving
<1>7. Aware(r)
  BY <1>1, <1>4, <1>6 DEF Aware, Requests, Places, Saving, IdOf
<1>9. OpOK' /\ op'[t] = r /\ \A u \in Threads \ {t} : op'[u] = op[u]
  BY <1>6, <1>7, <1>8, BecomesStep DEF Typed
<1>10. /\ r.at = "persisting" /\ r.label = label /\ r.made = made /\ r.done = done /\ r.kind = o.kind
       /\ IdOf(r) = IdOf(o) /\ r.target = o.target /\ r.todo = o.todo
  BY <1>1 DEF Requests, IdOf
<1>11. QED
  BY <1>4, <1>9, <1>10 DEF EmbeddedIn, open, done

LEMMA StartStep ==
  ASSUME Typed, NEW t \in Threads, StartOperation(t)
  PROVE  /\ OpOK' /\ op'[t] = [op[t] EXCEPT !.at = Begins[op[t].kind]]
         /\ op[t].kind \in {"retire", "reparse", "reembed"}
         /\ op'[t].at = Begins[op[t].kind] /\ Begins[op[t].kind] \in {"retiring", "received", "running"}
         /\ \A u \in Threads \ {t} : op'[u] = op[u]
<1>1. op[t] \in Requests /\ Aware(op[t]) /\ op[t].at = "accepted"
  BY DEF Typed, OpOK, StartOperation
<1> DEFINE place == Begins[op[t].kind]
           r == [op[t] EXCEPT !.at = place]
<1>2. /\ op[t].kind \in {"retire", "reparse", "reembed"}
      /\ op[t].kind = "retire" => place = "retiring"
      /\ op[t].kind = "reparse" => place = "received"
      /\ op[t].kind = "reembed" => place = "running"
  BY <1>1 DEF Aware, Begins
<1> HIDE DEF place
<1>3. place \in Places /\ r.at = place
  BY <1>1, <1>2 DEF Places, Saving, Requests
<1>4. Aware(r)
  BY <1>1, <1>2, <1>3 DEF Aware, Requests, IdOf, Saving
<1>5. Goto(t, place)
  BY DEF StartOperation, place
<1>6. QED
  BY <1>2, <1>3, <1>4, <1>5, GotoStep, ZenonT(30) DEF Typed, place

\* One step on the way of a bundle into the store.
LEMMA SavingStep ==
  ASSUME Typed, NEW t \in Threads, NEW place \in Saving, op[t].at \in Saving, Goto(t, place),
         place \in {"embedded", "writing"} => op[t].at \in {"embedded", "writing"}
  PROVE  /\ OpOK' /\ op'[t] = [op[t] EXCEPT !.at = place] /\ op'[t].at = place
         /\ \A u \in Threads \ {t} : op'[u] = op[u]
<1>1. op[t] \in Requests /\ Aware(op[t])
  BY DEF Typed, OpOK
<1> DEFINE r == [op[t] EXCEPT !.at = place]
<1>2. place \in Places /\ r.at = place
  BY <1>1 DEF Requests, Saving, Places
<1>3. /\ op[t].kind \in {"ingest", "reparse"} /\ op[t].source \in Sources /\ IdOf(op[t]) \in Ids
      /\ op[t].at \in {"embedded", "writing"} => op[t].label \in Spaces
  BY <1>1 DEF Aware, Saving
<1>4. place \in {"embedded", "writing"} => op[t].label \in Spaces
  BY <1>3
<1>5. Aware(r)
  BY <1>1, <1>2, <1>3, <1>4 DEF Aware, Requests, IdOf, Saving
<1>6. QED
  BY <1>2, <1>5, GotoStep DEF Typed

LEMMA NumberStep ==
  ASSUME Typed, NumbersOK, NEW t \in Threads, TakeNumber(t)
  PROVE  /\ OpOK'
         /\ op'[t] = [op[t] EXCEPT !.at = "numbered", !.number = NextNumber(op[t].source, op[t].content)]
         /\ op'[t].at = "numbered" /\ op'[t].number = NextNumber(op[t].source, op[t].content)
         /\ \A u \in Threads \ {t} : op'[u] = op[u]
<1>1. op[t] \in Requests /\ Aware(op[t]) /\ op[t].at = "put" /\ op[t].source \in Sources
  BY DEF Typed, OpOK, TakeNumber, Aware
<1> DEFINE n == NextNumber(op[t].source, op[t].content)
           r == [op[t] EXCEPT !.at = "numbered", !.number = n]
<1>2. n \in Nat
  BY <1>1, NextNumberOK DEF Typed, NumbersOK
<1>3. Becomes(t, r)
  BY DEF TakeNumber, Becomes
<1> HIDE DEF n
<1>4. r \in Requests /\ r.at = "numbered" /\ r.number = n
  BY <1>1, <1>2 DEF Requests, Places, Saving
<1>5. Aware(r)
  BY <1>1, <1>4 DEF Aware, Requests, IdOf, Saving
<1>6. QED
  BY <1>3, <1>4, <1>5, BecomesStep DEF Typed, n

LEMMA PersistStep ==
  ASSUME Typed, NEW t \in Threads, Persist(t)
  PROVE  \E m \in op[t].made :
           /\ m[1] \in Remaining(t) /\ m[1] \in Chunks /\ m[2] \in Spaces
           /\ db' = UpsertEmbedding(db, m[1], op[t].label, m[2])
           /\ migration' = [migration EXCEPT ![op[t].target].completed = op[t].done \cup {m[1]}]
           /\ OpOK' /\ op'[t] = [op[t] EXCEPT !.done = op[t].done \cup {m[1]}]
           /\ \A u \in Threads \ {t} : op'[u] = op[u]
<1>1. op[t] \in Requests /\ Aware(op[t]) /\ op[t].at = "persisting"
  BY DEF Typed, OpOK, Persist
<1>2. PICK m \in op[t].made :
        /\ m[1] \in Remaining(t)
        /\ db' = UpsertEmbedding(db, m[1], op[t].label, m[2])
        /\ op' = [op EXCEPT ![t].done = op[t].done \cup {m[1]}]
        /\ migration' = [migration EXCEPT ![op[t].target].completed = op[t].done \cup {m[1]}]
  BY DEF Persist
<1>3. m[1] \in Chunks /\ m[2] \in Spaces
  BY <1>1 DEF Requests
<1> DEFINE r == [op[t] EXCEPT !.done = op[t].done \cup {m[1]}]
<1>4. r \in Requests
  BY <1>1, <1>3 DEF Requests
<1>5. Aware(r)
  BY <1>1 DEF Aware, Requests, IdOf, Saving
<1>6. Becomes(t, r)
  BY <1>2 DEF Becomes
<1>7. QED
  BY <1>2, <1>3, <1>4, <1>5, <1>6, BecomesStep DEF Typed

LEMMA RunEndsStep ==
  ASSUME Typed, NEW t \in Threads, RunEnds(t)
  PROVE  \E status \in {"complete", "paused"} :
           /\ migration' = [migration EXCEPT ![op[t].target].status = status]
           /\ OpOK' /\ op'[t] = Ended(op[t], status)
           /\ \A u \in Threads \ {t} : op'[u] = op[u]
<1>1. PICK status \in {"complete", "paused"} :
        migration' = [migration EXCEPT ![op[t].target].status = status] /\ End(t, status)
  BY DEF RunEnds
<1>2. QED
  BY <1>1, EndStep DEF Typed, RunEnds, Statuses

\* A save or a lookup that ends the request, or the write itself.
LEMMA WriteStep ==
  ASSUME Typed, NumbersOK, NEW t \in Threads, Write(t)
  PROVE  /\ \/ db' = db /\ op'[t] = Ended(op[t], "failed")
            \/ SavedAs(db, db', op[t]) /\ \E outcome \in {"complete", "failed"} : op'[t] = Ended(op[t], outcome)
         /\ OpOK' /\ \A u \in Threads \ {t} : op'[u] = op[u]
<1>1. /\ op[t] \in Requests /\ Aware(op[t]) /\ op[t].at = "writing" /\ op[t].source \in Sources
      /\ IdOf(op[t]) \in Ids
  BY DEF Typed, OpOK, Write, Aware, Saving
<1>2. RowsOK(op[t].source, db.versions[op[t].source]) /\ NumberOK(op[t], db.versions[op[t].source])
  BY <1>1 DEF NumbersOK
<1>3. ASSUME NEW outcome \in {"complete", "failed"}, End(t, outcome)
      PROVE  OpOK' /\ op'[t] = Ended(op[t], outcome) /\ \A u \in Threads \ {t} : op'[u] = op[u]
  BY <1>1, <1>3, EndStep DEF Typed, Statuses, Saving
<1>4. CASE backend = "memory"
  <2>1. db' = MemorySave(op[t]) /\ End(t, "complete")
    BY <1>4 DEF Write
  <2>2. SavedAs(db, db', op[t])
    BY <1>1, <1>2, <1>4, <2>1, MemorySaves DEF Typed
  <2>3. QED
    BY <1>3, <2>1, <2>2
<1>5. CASE backend = "postgres" /\ Refused(op[t])
  <2>1. db' = db /\ End(t, "failed")
    BY <1>5 DEF Write
  <2>2. QED
    BY <1>3, <2>1
<1>6. CASE backend = "postgres" /\ ~Refused(op[t])
  <2>1. db' = Transaction(op[t]) /\ \E outcome \in {"complete", "failed"} : End(t, outcome)
    BY <1>6 DEF Write
  <2>2. SavedAs(db, db', op[t])
    BY <1>1, <1>2, <1>6, <2>1, TransactionSaves DEF Typed
  <2>3. QED
    BY <1>3, <2>1, <2>2
<1>7. QED
  BY <1>4, <1>5, <1>6 DEF Typed

-----------------------------------------------------------------------------
(* What a step can do to the tables.                                        *)

LEMMA SavedTables ==
  ASSUME TablesOK(db), NEW b \in Requests, IdOf(b) \in Ids, b.label \in Spaces, NEW e, SavedAs(db, e, b)
  PROVE  TablesOK(e)
<1> DEFINE rows == db.versions[b.source]
<1>1. b.source \in Sources /\ b.content \in Contents /\ b.parser \in Parsers /\ b.hold \in BOOLEAN
      /\ rows \in Seq(VersionRow)
  BY DEF IdOf, Ids, Requests, TablesOK
<1>2. e.sources \in [Sources -> SourceRow \cup {Nothing}]
  BY <1>1 DEF SavedAs, Tables, TablesOK, SourceRow
<1>3. e.versions \in [Sources -> Seq(VersionRow)]
  <2>1. CASE /\ e.versions = [db.versions EXCEPT ![b.source] = Append(rows, RowOf(b))]
             /\ Numbered(b, rows)
    <3>1. b.number \in Nat \ {0}
      BY <1>1, <2>1 DEF Numbered
    <3>2. RowOf(b) \in VersionRow
      BY <1>1, <3>1 DEF RowOf, VersionRow
    <3>3. Append(rows, RowOf(b)) \in Seq(VersionRow)
      BY <1>1, <3>2
    <3>4. QED
      BY <1>1, <2>1, <3>3 DEF TablesOK
  <2>2. CASE e.versions = db.versions
    BY <2>2 DEF TablesOK
  <2>3. QED
    BY <2>1, <2>2 DEF SavedAs, VersionSaved
<1>4. e.chunks \subseteq Chunks
  BY IdsApart DEF SavedAs, Tables, TablesOK
<1>5. e.vectors \subseteq Vector
  <2>1. \A m \in b.made : [chunk |-> m[1], space |-> b.label, by |-> m[2]] \in Vector
    BY DEF Requests, Vector
  <2>2. VectorsWith(db, b) \subseteq Vector
    BY <2>1 DEF VectorsWith, TablesOK
  <2>3. QED
    BY <2>2 DEF SavedAs, Tables
<1>6. DOMAIN e = Fields
  BY DEF SavedAs, Tables
<1>7. QED
  BY <1>2, <1>3, <1>4, <1>5, <1>6 DEF TablesOK

LEMMA EmbeddingTables ==
  ASSUME TablesOK(db), NEW c \in Chunks, NEW space \in Spaces, NEW by \in Spaces
  PROVE  /\ TablesOK(UpsertEmbedding(db, c, space, by))
         /\ Tables(UpsertEmbedding(db, c, space, by), db.sources, db.versions, db.artifacts, db.namespaces,
                   db.edges, db.chunks,
                   {v \in db.vectors : v.chunk # c \/ v.space # space}
                     \cup {[chunk |-> c, space |-> space, by |-> by]})
<1>1. [chunk |-> c, space |-> space, by |-> by] \in Vector
  BY DEF Vector
<1>2. Tables(UpsertEmbedding(db, c, space, by), db.sources, db.versions, db.artifacts, db.namespaces,
             db.edges, db.chunks,
             {v \in db.vectors : v.chunk # c \/ v.space # space}
               \cup {[chunk |-> c, space |-> space, by |-> by]})
  BY DEF TablesOK, UpsertEmbedding, Tables, Fields
<1>3. QED
  BY <1>1, <1>2 DEF Tables, TablesOK

RetiredIn(s) == [db EXCEPT !.sources[s].status = "retired"]

LEMMA RetiredTables ==
  ASSUME TablesOK(db), NEW s \in Known
  PROVE  /\ TablesOK(RetiredIn(s))
         /\ Tables(RetiredIn(s), [db.sources EXCEPT ![s] = [db.sources[s] EXCEPT !.status = "retired"]],
                   db.versions, db.artifacts, db.namespaces, db.edges, db.chunks, db.vectors)
<1>1. s \in Sources /\ db.sources[s] \in SourceRow
  BY DEF Known, TablesOK
<1>2. [db.sources[s] EXCEPT !.status = "retired"] \in SourceRow
  BY <1>1 DEF SourceRow
<1>3. Tables(RetiredIn(s), [db.sources EXCEPT ![s] = [db.sources[s] EXCEPT !.status = "retired"]],
             db.versions, db.artifacts, db.namespaces, db.edges, db.chunks, db.vectors)
  BY DEF TablesOK, RetiredIn, Tables, Fields
<1>4. QED
  BY <1>1, <1>2, <1>3 DEF Tables, TablesOK

\* The step writes a bundle, retires a source, stores one vector, or restores.
Saves(t)    == Write(t) /\ op[t].at = "writing" /\ SavedAs(db, db', op[t])
Retires(t)  == op[t].source \in Known /\ db' = RetiredIn(op[t].source)
Persists(t) == \E m \in op[t].made :
                 /\ op[t].at = "persisting" /\ m[1] \in Remaining(t) /\ m[1] \in Chunks /\ m[2] \in Spaces
                 /\ db' = UpsertEmbedding(db, m[1], op[t].label, m[2])

LEMMA TablesStep ==
  ASSUME Typed, NumbersOK, [Next]_vars
  PROVE  /\ \/ db' = db
            \/ \E t \in Threads : Saves(t) \/ Retires(t) \/ Persists(t)
            \/ Restore
         /\ TablesOK(db')
<1>1. ASSUME NEW t \in Threads, Write(t) PROVE db' = db \/ (Saves(t) /\ TablesOK(db'))
  <2>1. op[t] \in Requests /\ IdOf(op[t]) \in Ids /\ op[t].label \in Spaces /\ op[t].at = "writing"
    BY <1>1 DEF Typed, OpOK, Write, Aware, Saving
  <2>2. QED
    BY <1>1, <2>1, WriteStep, SavedTables DEF Saves, Typed
<1>2. ASSUME NEW t \in Threads, Retire(t) PROVE db' = db \/ (Retires(t) /\ TablesOK(db'))
  BY <1>2, RetiredTables DEF Retire, Retires, RetiredIn, Typed
<1>3. ASSUME NEW t \in Threads, Persist(t) PROVE Persists(t) /\ TablesOK(db')
  <2>1. op[t].label \in Spaces /\ op[t].at = "persisting"
    BY <1>3 DEF Typed, OpOK, Persist, Aware
  <2>2. QED
    <3>1. PICK m \in op[t].made :
            /\ m[1] \in Remaining(t) /\ m[1] \in Chunks /\ m[2] \in Spaces
            /\ db' = UpsertEmbedding(db, m[1], op[t].label, m[2])
      BY <1>3, PersistStep
    <3>2. Persists(t)
      BY <2>1, <3>1 DEF Persists
    <3>3. TablesOK(db')
      BY <2>1, <3>1, EmbeddingTables DEF Typed
    <3>4. QED
      BY <3>2, <3>3
<1>4. ASSUME Restore PROVE TablesOK(db')
  BY <1>4 DEF Restore, Typed, BackupOK
<1>5. CASE UNCHANGED vars
  BY <1>5 DEF vars, Typed
<1>6. ASSUME NEW t \in Threads, Submit(t) PROVE db' = db
  BY <1>6, SubmitStep
<1>7. ASSUME NEW t \in Threads, Step(t) PROVE db' = db \/ Write(t) \/ Retire(t) \/ Persist(t)
  BY <1>7 DEF Step, StartOperation, FinishOperation, Fails, Put, TakeNumber, Embed, Look, RunStarts, RunEnds
<1>8. ASSUME NEW space \in Spaces, Activate(space) PROVE db' = db
  BY <1>8 DEF Activate
<1>9. Restart \/ Backup => db' = db
  BY DEF Restart, Backup
<1>10. QED
  BY <1>1, <1>2, <1>3, <1>4, <1>5, <1>6, <1>7, <1>8, <1>9 DEF Next, Typed

-----------------------------------------------------------------------------
(* Typed and NumbersOK are invariant.                                       *)

LEMMA RequestsStep ==
  ASSUME Typed, NumbersOK, [Next]_vars
  PROVE  OpOK'
<1>1. ASSUME NEW t \in Threads, Submit(t) PROVE OpOK'
  BY <1>1, SubmitStep
<1>2. ASSUME NEW t \in Threads, StartOperation(t) \/ TakeNumber(t) \/ RunStarts(t) PROVE OpOK'
  BY <1>2, StartStep, NumberStep, RunStartsStep
<1>3. ASSUME NEW t \in Threads, FinishOperation(t) PROVE OpOK'
  BY <1>3, NoOpType, BecomesStep DEF FinishOperation, Becomes, Typed
<1>4. ASSUME NEW t \in Threads, Fails(t) PROVE OpOK'
  BY <1>4, EndStep DEF Fails, Saving, Statuses, Typed
<1>5. ASSUME NEW t \in Threads, Put(t) PROVE OpOK'
  BY <1>5, SavingStep DEF Put, Saving
<1>6. ASSUME NEW t \in Threads, Embed(t) PROVE OpOK'
  BY <1>6, EmbedStep DEF Embed
<1>7. ASSUME NEW t \in Threads, Look(t) PROVE OpOK'
  BY <1>7, SavingStep, EndStep DEF Look, Saving, Statuses, Typed
<1>8. ASSUME NEW t \in Threads, Write(t) PROVE OpOK'
  BY <1>8, WriteStep
<1>9. ASSUME NEW t \in Threads, Retire(t) PROVE OpOK'
  BY <1>9, EndStep DEF Retire, Statuses, Typed
<1>10. ASSUME NEW t \in Threads, Persist(t) PROVE OpOK'
  BY <1>10, PersistStep
<1>11. ASSUME NEW t \in Threads, RunEnds(t) PROVE OpOK'
  BY <1>11, RunEndsStep
<1>12. CASE Restart
  BY <1>12, NoOpType DEF Restart, OpOK
<1>13. CASE Backup \/ Restore \/ (\E space \in Spaces : Activate(space)) \/ UNCHANGED vars
  BY <1>13 DEF Backup, Restore, Activate, vars, Typed, OpOK
<1>14. QED
  BY <1>1, <1>2, <1>3, <1>4, <1>5, <1>6, <1>7, <1>8, <1>9, <1>10, <1>11, <1>12, <1>13 DEF Next, Step

LEMMA MigrationStep ==
  ASSUME Typed, [Next]_vars
  PROVE  MigrationOK' /\ active' \in Spaces
<1>1. ASSUME NEW t \in Threads, Persist(t) PROVE MigrationOK' /\ active' = active
  <2>1. PICK m \in op[t].made :
          /\ m[1] \in Chunks
          /\ migration' = [migration EXCEPT ![op[t].target].completed = op[t].done \cup {m[1]}]
    BY <1>1, PersistStep
  <2>2. op[t].done \cup {m[1]} \subseteq Chunks
    BY <2>1 DEF Typed, OpOK, Requests
  <2>3. op[t].target \in Spaces
    BY <1>1 DEF Persist, Typed, OpOK, Aware
  <2>4. MigrationOK'
    BY <2>1, <2>2, <2>3 DEF Typed, MigrationOK
  <2>5. QED
    BY <1>1, <2>4 DEF Persist
<1>2. ASSUME NEW t \in Threads, RunEnds(t) PROVE MigrationOK' /\ active' = active
  <2>1. PICK status \in {"complete", "paused"} :
          migration' = [migration EXCEPT ![op[t].target].status = status]
    BY <1>2, RunEndsStep
  <2>2. op[t].target \in Spaces
    BY <1>2 DEF RunEnds, Typed, OpOK, Aware
  <2>3. MigrationOK'
    BY <2>1, <2>2 DEF Typed, MigrationOK
  <2>4. QED
    BY <1>2, <2>3 DEF RunEnds
<1>3. ASSUME NEW space \in Spaces, Activate(space) PROVE MigrationOK' /\ active' \in Spaces
  BY <1>3 DEF Activate, Typed, MigrationOK
<1>4. CASE Restart
  BY <1>4 DEF Restart, MigrationOK
<1>5. ASSUME NEW t \in Threads, Submit(t) PROVE UNCHANGED <<active, migration>>
  BY <1>5, SubmitStep DEF spaces
<1>6. ASSUME NEW t \in Threads, Step(t), ~Persist(t), ~RunEnds(t) PROVE UNCHANGED <<active, migration>>
  BY <1>6 DEF Step, StartOperation, FinishOperation, Fails, Put, TakeNumber, Embed, Look, Write, Retire,
     RunStarts, spaces
<1>7. CASE Backup \/ Restore \/ UNCHANGED vars
  BY <1>7 DEF Backup, Restore, vars, spaces, Typed, MigrationOK
<1>8. ASSUME UNCHANGED <<active, migration>> PROVE MigrationOK' /\ active' \in Spaces
  BY <1>8 DEF Typed, MigrationOK
<1>9. QED
  BY <1>1, <1>2, <1>3, <1>4, <1>5, <1>6, <1>7, <1>8 DEF Next, Typed

LEMMA RecordStep ==
  ASSUME Typed, [Next]_vars
  PROVE  /\ record' \in [Threads -> Records]
         /\ \/ record' = record
            \/ \E t \in Threads : StartOperation(t) \/ FinishOperation(t)
            \/ Restore
<1>1. ASSUME NEW t \in Threads, StartOperation(t) PROVE record' \in [Threads -> Records]
  <2> DEFINE r == [status |-> "running", kind |-> op[t].kind, id |-> IdOf(op[t]),
                   todo |-> op[t].todo, target |-> op[t].target]
  <2>1. op[t] \in Requests /\ op[t].kind \in {"retire", "reparse", "reembed"}
    BY <1>1, StartStep DEF Typed, OpOK
  <2>2. IdOf(op[t]) \in RecordIds
    BY <2>1 DEF IdOf, RecordIds, Requests
  <2>3. r \in Records
    BY <2>1, <2>2 DEF Records, Requests, Statuses
  <2>4. QED
    BY <1>1, <2>3 DEF StartOperation, Typed
<1>2. ASSUME NEW t \in Threads, FinishOperation(t) PROVE record' \in [Threads -> Records]
  <2>1. op[t].outcome \in Statuses /\ record[t] \in Records
    BY DEF Typed, OpOK, Requests
  <2>2. [record[t] EXCEPT !.status = op[t].outcome] \in Records
    BY <2>1 DEF Records
  <2>3. record' = [record EXCEPT ![t] = [record[t] EXCEPT !.status = op[t].outcome]]
    BY <1>2 DEF FinishOperation
  <2>4. QED
    BY <2>2, <2>3 DEF Typed
<1>3. CASE Restore
  BY <1>3 DEF Restore, Typed, BackupOK
<1>4. ASSUME NEW t \in Threads, Submit(t) PROVE record' = record
  BY <1>4, SubmitStep
<1>5. ASSUME NEW t \in Threads, Step(t), ~StartOperation(t), ~FinishOperation(t) PROVE record' = record
  BY <1>5 DEF Step, Fails, Put, TakeNumber, Embed, Look, Write, Retire, RunStarts, Persist, RunEnds
<1>6. Backup \/ Restart => record' = record
  BY DEF Backup, Restart
<1>7. ASSUME NEW space \in Spaces, Activate(space) PROVE record' = record
  BY <1>7 DEF Activate
<1>8. CASE UNCHANGED vars
  BY <1>8 DEF vars, Typed
<1>9. QED
  BY <1>1, <1>2, <1>3, <1>4, <1>5, <1>6, <1>7, <1>8 DEF Next, Typed

\* The object store only grows, but for a restored backup.
LEMMA ObjectsStep ==
  ASSUME Typed, [Next]_vars
  PROVE  /\ objects' \subseteq Contents
         /\ \/ objects' = objects
            \/ \E t \in Threads : Put(t) /\ objects' = objects \cup {op[t].content}
            \/ Restore
<1>1. ASSUME NEW t \in Threads, Put(t) PROVE objects' = objects \cup {op[t].content} /\ op[t].content \in Contents
  BY <1>1 DEF Put, Typed, OpOK, Aware, IdOf, Ids, Saving
<1>2. CASE Restore
  BY <1>2 DEF Restore, Typed, BackupOK
<1>3. ASSUME NEW t \in Threads, Submit(t) PROVE objects' = objects
  BY <1>3, SubmitStep
<1>4. ASSUME NEW t \in Threads, Step(t), ~Put(t) PROVE objects' = objects
  BY <1>4 DEF Step, StartOperation, FinishOperation, Fails, TakeNumber, Embed, Look, Write, Retire,
     RunStarts, Persist, RunEnds
<1>5. Backup \/ Restart => objects' = objects
  BY DEF Backup, Restart
<1>6. ASSUME NEW space \in Spaces, Activate(space) PROVE objects' = objects
  BY <1>6 DEF Activate
<1>7. CASE UNCHANGED vars
  BY <1>7 DEF vars, Typed
<1>8. QED
  BY <1>1, <1>2, <1>3, <1>4, <1>5, <1>6, <1>7 DEF Next, Typed

LEMMA BackupStep ==
  ASSUME Typed, [Next]_vars
  PROVE  /\ BackupOK' /\ UNCHANGED deployment
         /\ saved' = saved \/ Backup
<1>1. CASE Backup
  BY <1>1 DEF Backup, Typed, BackupOK
<1>2. ASSUME NEW t \in Threads, Submit(t) PROVE UNCHANGED <<deployment, saved>>
  BY <1>2, SubmitStep DEF backup
<1>3. ASSUME NEW t \in Threads, Step(t) PROVE UNCHANGED <<deployment, saved>>
  BY <1>3 DEF Step, StartOperation, FinishOperation, Fails, Put, TakeNumber, Embed, Look, Write, Retire,
     RunStarts, Persist, RunEnds, backup
<1>4. Restore \/ Restart => UNCHANGED <<deployment, saved>>
  BY DEF Restore, Restart, backup
<1>5. ASSUME NEW space \in Spaces, Activate(space) PROVE UNCHANGED <<deployment, saved>>
  BY <1>5 DEF Activate, backup
<1>6. CASE UNCHANGED vars
  BY <1>6 DEF vars, backup, Typed, BackupOK
<1>7. UNCHANGED <<deployment, saved>> => BackupOK'
  BY DEF Typed, BackupOK
<1>8. Backup => UNCHANGED deployment
  BY DEF Backup
<1>9. QED
  BY <1>1, <1>2, <1>3, <1>4, <1>5, <1>6, <1>7, <1>8 DEF Next

LEMMA TypedNext ==
  ASSUME Typed, NumbersOK, [Next]_vars
  PROVE  Typed'
BY TablesStep, RequestsStep, MigrationStep, RecordStep, ObjectsStep, BackupStep DEF Typed, deployment

\* How a step moves the requests near the store.
LEMMA RequestMoves ==
  ASSUME Typed, NumbersOK, [Next]_vars, NEW u \in Threads
  PROVE  /\ op'[u].at \in {"numbered", "embedded", "writing"} =>
              \/ op'[u] = op[u]
              \/ TakeNumber(u)
              \/ /\ op[u].at \in {"numbered", "embedded"} /\ IdOf(op'[u]) = IdOf(op[u])
                 /\ op'[u].number = op[u].number
                 /\ op'[u].at = "writing" => Look(u)
         /\ Busy(u)' /\ ~Busy(u) => (backend = "memory" => Idle)
<1> DEFINE Goal == /\ op'[u].at \in {"numbered", "embedded", "writing"} =>
                         \/ op'[u] = op[u]
                         \/ TakeNumber(u)
                         \/ /\ op[u].at \in {"numbered", "embedded"} /\ IdOf(op'[u]) = IdOf(op[u])
                            /\ op'[u].number = op[u].number
                            /\ op'[u].at = "writing" => Look(u)
                   /\ Busy(u)' /\ ~Busy(u) => (backend = "memory" => Idle)
<1>1. CASE op'[u] = op[u]
  BY <1>1 DEF Busy
<1>2. ASSUME NEW t \in Threads, Submit(t) PROVE Goal
  <2>1. CASE t = u
    BY <1>2, <2>1, SubmitStep DEF Fresh
  <2>2. CASE t # u
    BY <1>1, <1>2, <2>2, SubmitStep
  <2>3. QED
    BY <2>1, <2>2
<1>3. ASSUME NEW t \in Threads, StartOperation(t) PROVE Goal
  <2>1. CASE t = u
    BY <1>3, <2>1, StartStep DEF Busy, StartOperation
  <2>2. CASE t # u
    <3>1. \A w \in Threads \ {t} : op'[w] = op[w]
      BY <1>3, StartStep
    <3>2. QED
      BY <1>1, <2>2, <3>1
  <2>3. QED
    BY <2>1, <2>2
<1>4. ASSUME NEW t \in Threads, NEW outcome \in Statuses, End(t, outcome),
             op[t].at \in Saving \cup {"retiring", "running", "persisting"}
      PROVE  Goal
  <2>1. CASE t = u
    <3>1. op'[u] = Ended(op[u], outcome) /\ op[u] \in Requests
      BY <1>4, <2>1, EndStep DEF Typed, OpOK
    <3>2. op'[u].at \in {"idle", "ending"}
      BY <3>1 DEF Ended, NoOp, Requests
    <3>3. QED
      BY <1>4, <2>1, <3>2 DEF Busy, Saving
  <2>2. CASE t # u
    BY <1>1, <1>4, <2>2, EndStep DEF Typed
  <2>3. QED
    BY <2>1, <2>2
<1>5. ASSUME NEW t \in Threads, FinishOperation(t) \/ Fails(t) \/ Retire(t) \/ RunEnds(t) \/ Write(t) PROVE Goal
  <2>1. CASE FinishOperation(t)
    <3>1. op' = [op EXCEPT ![t] = NoOp]
      BY <2>1 DEF FinishOperation
    <3>2. CASE t = u
      BY <3>1, <3>2 DEF Typed, OpOK, NoOp, Busy
    <3>3. CASE t # u
      BY <1>1, <3>1, <3>3 DEF Typed, OpOK
    <3>4. QED
      BY <3>2, <3>3
  <2>2. CASE Fails(t)
    BY <1>4, <2>2 DEF Fails, Saving, Statuses
  <2>3. CASE Retire(t)
    BY <1>4, <2>3 DEF Retire, Statuses
  <2>4. CASE RunEnds(t)
    BY <1>4, <2>4 DEF RunEnds, Statuses
  <2>5. CASE Write(t)
    BY <1>4, <2>5 DEF Write, Saving, Statuses
  <2>6. QED
    BY <1>5, <2>1, <2>2, <2>3, <2>4, <2>5
<1>6. ASSUME NEW t \in Threads, Put(t) PROVE Goal
  <2>1. op'[t].at = "put" /\ \A w \in Threads \ {t} : op'[w] = op[w]
    BY <1>6, SavingStep DEF Put, Saving
  <2>2. QED
    BY <1>1, <1>6, <2>1 DEF Put, Busy
<1>7. ASSUME NEW t \in Threads, TakeNumber(t) PROVE Goal
  <2>1. \A w \in Threads \ {t} : op'[w] = op[w]
    BY <1>7, NumberStep
  <2>2. QED
    BY <1>1, <1>7, <2>1 DEF TakeNumber, Busy
<1>8. ASSUME NEW t \in Threads, Embed(t) PROVE Goal
  <2>1. /\ op[t].at = "numbered" /\ op'[t].at = "embedded" /\ IdOf(op'[t]) = IdOf(op[t])
        /\ op'[t].number = op[t].number /\ \A w \in Threads \ {t} : op'[w] = op[w]
    BY <1>8, EmbedStep DEF Embed
  <2>2. QED
    BY <1>1, <2>1 DEF Busy
<1>9. ASSUME NEW t \in Threads, Look(t) PROVE Goal
  <2>1. CASE End(t, "complete")
    BY <1>4, <1>9, <2>1 DEF Look, Saving, Statuses
  <2>2. CASE Goto(t, "writing")
    <3>1. op'[t] = [op[t] EXCEPT !.at = "writing"] /\ \A w \in Threads \ {t} : op'[w] = op[w]
      BY <1>9, <2>2, SavingStep DEF Look, Saving
    <3>2. IdOf(op'[t]) = IdOf(op[t]) /\ op'[t].number = op[t].number /\ op[t].at = "embedded"
      BY <1>9, <3>1 DEF Look, IdOf, Typed, OpOK, Requests
    <3>3. QED
      BY <1>1, <1>9, <3>1, <3>2 DEF Busy
  <2>3. QED
    BY <1>9, <2>1, <2>2 DEF Look
<1>10. ASSUME NEW t \in Threads, RunStarts(t) PROVE Goal
  BY <1>1, <1>10, RunStartsStep DEF RunStarts, Busy
<1>11. ASSUME NEW t \in Threads, Persist(t) PROVE Goal
  <2>1. op'[t].at = op[t].at /\ op[t].at = "persisting" /\ \A w \in Threads \ {t} : op'[w] = op[w]
    BY <1>11, PersistStep DEF Persist, Typed, OpOK, Requests
  <2>2. QED
    BY <1>1, <2>1 DEF Busy
<1>12. Restart => Goal
  BY DEF Restart, NoOp, Busy
<1>13. Backup \/ Restore => op' = op
  BY DEF Backup, Restore
<1>14. ASSUME NEW space \in Spaces, Activate(space) PROVE op' = op
  BY <1>14 DEF Activate
<1>15. CASE UNCHANGED vars
  BY <1>1, <1>15 DEF vars
<1>16. QED
  BY <1>1, <1>2, <1>3, <1>5, <1>6, <1>7, <1>8, <1>9, <1>10, <1>11, <1>12, <1>13, <1>14, <1>15 DEF Next, Step

\* Only one thread moves in a step, unless all are lost in a restart.
LEMMA OneMoves ==
  ASSUME Typed, NumbersOK, [Next]_vars
  PROVE  \/ \E t \in Threads : \A u \in Threads \ {t} : op'[u] = op[u]
         \/ op' = op
         \/ \A u \in Threads : op'[u] = NoOp
<1>1. ASSUME NEW t \in Threads, Submit(t) PROVE \A u \in Threads \ {t} : op'[u] = op[u]
  BY <1>1, SubmitStep
<1>2. ASSUME NEW t \in Threads, Step(t) PROVE \A u \in Threads \ {t} : op'[u] = op[u]
  BY <1>2 DEF Step, StartOperation, FinishOperation, Fails, Put, TakeNumber, Embed, Embedded, Look, Write,
     Retire, RunStarts, Persist, RunEnds, Goto, End, Typed, OpOK
<1>3. Restart => \A u \in Threads : op'[u] = NoOp
  BY DEF Restart
<1>4. Backup \/ Restore => op' = op
  BY DEF Backup, Restore
<1>5. ASSUME NEW space \in Spaces, Activate(space) PROVE op' = op
  BY <1>5 DEF Activate
<1>6. UNCHANGED vars => op' = op
  BY DEF vars
<1>7. QED
  BY <1>1, <1>2, <1>3, <1>4, <1>5, <1>6 DEF Next

LEMMA VersionsKept ==
  ASSUME Typed, NEW t \in Threads, Retires(t) \/ Persists(t)
  PROVE  db'.versions = db.versions
<1>1. CASE Retires(t)
  BY <1>1, RetiredTables DEF Retires, Typed, Tables
<1>2. CASE Persists(t)
  <2>1. op[t].label \in Spaces
    BY <1>2 DEF Persists, Typed, OpOK, Aware
  <2>2. QED
    BY <1>2, <2>1, EmbeddingTables DEF Persists, Typed, Tables
<1>3. QED
  BY <1>1, <1>2

\* A row appended by a step is numbered as its place wants it.
LEMMA RowsNext ==
  ASSUME Typed, NumbersOK, [Next]_vars
  PROVE  \A s \in Sources : RowsOK(s, db'.versions[s])
<1>1. CASE db'.versions = db.versions
  BY <1>1 DEF NumbersOK
<1>2. ASSUME NEW t \in Threads, Saves(t) PROVE \A s \in Sources : RowsOK(s, db'.versions[s])
  <2> DEFINE b == op[t]
             rows == db.versions[b.source]
  <2>1. b.source \in Sources /\ rows \in Seq(VersionRow) /\ DOMAIN rows = 1..Len(rows) /\ Len(rows) \in Nat
    BY <1>2 DEF Saves, Typed, OpOK, Aware, TablesOK
  <2>2. CASE db'.versions = db.versions
    BY <1>1, <2>2
  <2>3. CASE /\ db'.versions = [db.versions EXCEPT ![b.source] = Append(rows, RowOf(b))]
             /\ Numbered(b, rows)
             /\ backend = "postgres" => b.number = Len(rows) + 1
    <3> DEFINE more == Append(rows, RowOf(b))
    <3>1. /\ DOMAIN more = 1..(Len(rows) + 1) /\ more[Len(rows) + 1] = RowOf(b)
          /\ \A i \in 1..Len(rows) : more[i] = rows[i]
      <4>1. rows \in Seq(VersionRow)
        BY <2>1
      <4> HIDE DEF rows
      <4>2. QED
        BY <4>1, Appended, SMTT(30)
    <3>1a. \A i \in DOMAIN more : i \in 1..Len(rows) \/ i = Len(rows) + 1
      <4>1. \A i \in 1..(Len(rows) + 1) : i \in 1..Len(rows) \/ i = Len(rows) + 1
        BY <2>1, OneLonger
      <4>2. QED
        BY <3>1, <4>1
    <3>2. RowsOK(b.source, rows)
      BY <2>1 DEF NumbersOK
    <3> HIDE DEF more
    <3>3. \A i \in DOMAIN more :
            /\ more[i].id = <<b.source, more[i].content, more[i].parser>>
            /\ more[i].number \in 1..i
            /\ backend = "postgres" => more[i].number = i
      <4>1. ASSUME NEW i \in 1..Len(rows)
            PROVE  /\ more[i].id = <<b.source, more[i].content, more[i].parser>>
                   /\ more[i].number \in 1..i
                   /\ backend = "postgres" => more[i].number = i
        BY <2>1, <3>1, <3>2 DEF RowsOK
      <4>2. /\ more[Len(rows) + 1].id = <<b.source, more[Len(rows) + 1].content, more[Len(rows) + 1].parser>>
            /\ more[Len(rows) + 1].number \in 1..(Len(rows) + 1)
            /\ backend = "postgres" => more[Len(rows) + 1].number = Len(rows) + 1
        <5>1. more[Len(rows) + 1] = RowOf(b)
          BY <3>1
        <5>2. /\ RowOf(b).id = <<b.source, RowOf(b).content, RowOf(b).parser>>
              /\ RowOf(b).number = b.number
          BY DEF RowOf, IdOf
        <5>3. b.number \in 1..(Len(rows) + 1) /\ (backend = "postgres" => b.number = Len(rows) + 1)
          BY <2>3 DEF Numbered
        <5>4. QED
          BY <5>1, <5>2, <5>3
      <4>3. QED
        BY <3>1a, <4>1, <4>2
    <3>4. \A i, j \in DOMAIN more : more[i].content = more[j].content => more[i].number = more[j].number
      <4>1. ASSUME NEW i \in 1..Len(rows), NEW j \in 1..Len(rows), more[i].content = more[j].content
            PROVE  more[i].number = more[j].number
        <5>1. more[i] = rows[i] /\ more[j] = rows[j] /\ i \in DOMAIN rows /\ j \in DOMAIN rows
          BY <2>1, <3>1
        <5>2. QED
          <6>1. rows[i].content = rows[j].content
            BY <4>1, <5>1
          <6>2. rows[i].number = rows[j].number
            BY <3>2, <5>1, <6>1 DEF RowsOK
          <6>3. QED
            BY <5>1, <6>2
      <4>2. \A i \in 1..Len(rows) : more[i].content = b.content => more[i].number = b.number
        BY <2>1, <2>3, <3>1 DEF Numbered
      <4>3. more[Len(rows) + 1].content = b.content /\ more[Len(rows) + 1].number = b.number
        BY <3>1 DEF RowOf
      <4>4. QED
        BY <3>1a, <4>1, <4>2, <4>3
    <3>5. RowsOK(b.source, more)
      BY <3>3, <3>4 DEF RowsOK
    <3>6. db'.versions[b.source] = more /\ \A s \in Sources \ {b.source} : db'.versions[s] = db.versions[s]
      BY <2>1, <2>3 DEF Typed, TablesOK, more
    <3>7. QED
      BY <3>5, <3>6 DEF NumbersOK
  <2>4. QED
    BY <1>2, <2>2, <2>3 DEF Saves, SavedAs, VersionSaved
<1>3. ASSUME NEW t \in Threads, Retires(t) \/ Persists(t) PROVE db'.versions = db.versions
  BY <1>3, VersionsKept
<1>4. Restore => \A s \in Sources : RowsOK(s, db'.versions[s])
  BY DEF Restore, NumbersOK
<1>5. QED
  BY <1>1, <1>2, <1>3, <1>4, TablesStep

LEMMA NumbersNext ==
  ASSUME Typed, NumbersOK, [Next]_vars
  PROVE  NumbersOK'
<1>1. backend' = backend
  BY BackupStep DEF deployment
<1>2. \A s \in Sources : RowsOK(s, db.versions[s])'
  BY <1>1, RowsNext DEF RowsOK
<1>3. (saved # Nothing => \A s \in Sources : RowsOK(s, saved.db.versions[s]))'
  <2>1. CASE saved' = saved
    BY <1>1, <2>1, SMTT(30) DEF NumbersOK, RowsOK
  <2>2. CASE Backup
    BY <1>1, <2>2 DEF Backup, NumbersOK, RowsOK
  <2>3. QED
    BY <2>1, <2>2, BackupStep
<1>4. ASSUME NEW u \in Threads, op'[u].at \in {"numbered", "embedded", "writing"}
      PROVE  NumberOK(op[u], db.versions[op[u].source])'
  <2> DEFINE rows == db.versions[op[u].source]
  <2>1. CASE TakeNumber(u)
    <3>1. /\ op'[u].at = "numbered" /\ op'[u].number = NextNumber(op[u].source, op[u].content)
          /\ op'[u].content = op[u].content /\ op'[u].source = op[u].source /\ op[u].source \in Sources
      <4>1. op[u] \in Requests /\ Aware(op[u]) /\ op[u].at = "put"
        BY <2>1 DEF TakeNumber, Typed, OpOK
      <4>2. op'[u] = [op[u] EXCEPT !.at = "numbered", !.number = NextNumber(op[u].source, op[u].content)]
            /\ op'[u].at = "numbered" /\ op'[u].number = NextNumber(op[u].source, op[u].content)
        BY <2>1, NumberStep
      <4>3. op'[u].content = op[u].content /\ op'[u].source = op[u].source
        BY <4>1, <4>2 DEF Requests
      <4>4. QED
        BY <4>1, <4>2, <4>3 DEF Aware
    <3>2. NumberOK(op'[u], rows)
      BY <3>1, NextNumberOK DEF Typed, NumbersOK
    <3>3. db' = db
      BY <2>1 DEF TakeNumber
    <3>4. QED
      BY <1>1, <3>1, <3>2, <3>3 DEF NumberOK, IdOf
  <2>2. ASSUME op[u].at \in {"numbered", "embedded", "writing"}, IdOf(op'[u]) = IdOf(op[u]),
               op'[u].number = op[u].number, op'[u].at = "writing" => Look(u) \/ op[u].at = "writing"
        PROVE  NumberOK(op[u], db.versions[op[u].source])'
    <3>1. /\ op'[u].source = op[u].source /\ op'[u].content = op[u].content /\ op[u].source \in Sources
          /\ rows \in Seq(VersionRow) /\ Len(rows) \in Nat /\ DOMAIN rows = 1..Len(rows)
          /\ NumberOK(op[u], rows) /\ Busy(u)
      <4>1. op'[u].source = op[u].source /\ op'[u].content = op[u].content
        BY <2>2 DEF IdOf
      <4>2. op[u].source \in Sources /\ Busy(u)
        BY <2>2 DEF Typed, OpOK, Aware, Busy
      <4>3. NumberOK(op[u], rows)
        BY <2>2 DEF NumbersOK
      <4>4. rows \in Seq(VersionRow)
        BY <4>2 DEF Typed, TablesOK
      <4>5. QED
        BY <4>1, <4>2, <4>3, <4>4
    <3>2. CASE db'.versions = db.versions
      <4>1. CASE backend = "postgres"
        BY <1>1, <2>2, <3>1, <3>2, <4>1 DEF NumberOK
      <4>2. CASE backend # "postgres"
        <5>1. op'[u].at = "writing" => \A i \in DOMAIN rows : rows[i].id # IdOf(op'[u])
          <6>1. CASE Look(u) /\ op'[u].at = "writing"
            <7>1. ~Stored(IdOf(op[u]))
              <8>1. op'[u].at # "idle" /\ op'[u].at # "ending"
                BY <6>1
              <8>2. ~End(u, "complete")
                <9>1. ASSUME End(u, "complete") PROVE op'[u] = Ended(op[u], "complete")
                  BY <2>2, <9>1, EndStep DEF Saving, Statuses, Typed
                <9>2. Ended(op[u], "complete").at \in {"idle", "ending"}
                  BY DEF Ended, NoOp, Typed, OpOK, Requests
                <9>3. QED
                  BY <8>1, <9>1, <9>2
              <8>3. QED
                BY <6>1, <8>2 DEF Look
            <7>2. IdOf(op[u])[1] = op[u].source /\ IdOf(op[u])[2] = op[u].content /\ IdOf(op[u])[3] = op[u].parser
              BY DEF IdOf
            <7>3. ASSUME NEW i \in DOMAIN rows, rows[i].id = IdOf(op[u]) PROVE FALSE
              <8>1. rows[i] \in Rows(op[u].source)
                BY DEF Rows, RowsIn
              <8>2. rows[i].content = op[u].content /\ rows[i].parser = op[u].parser
                <9>1. rows[i].id = <<op[u].source, rows[i].content, rows[i].parser>>
                  BY <3>1 DEF NumbersOK, RowsOK
                <9>2. <<op[u].source, rows[i].content, rows[i].parser>>
                        = <<op[u].source, op[u].content, op[u].parser>>
                  BY <7>3, <9>1 DEF IdOf
                <9>3. QED
                  BY <9>2, Triples
              <8>3. QED
                BY <7>1, <7>2, <8>1, <8>2 DEF Stored
            <7>4. QED
              BY <2>2, <7>3
          <6>2. CASE op[u].at = "writing"
            BY <2>2, <3>1, <4>2, <6>2 DEF NumberOK
          <6>3. QED
            BY <2>2, <6>1, <6>2
        <5>2. QED
          BY <1>1, <2>2, <3>1, <3>2, <4>2, <5>1 DEF NumberOK
      <4>3. QED
        BY <4>1, <4>2
    <3>3. ASSUME NEW t \in Threads, Saves(t), t # u,
                 db'.versions = [db.versions EXCEPT ![op[t].source] = Append(db.versions[op[t].source], RowOf(op[t]))]
          PROVE  NumberOK(op[u], db.versions[op[u].source])'
      <4>1. backend = "postgres"
        BY <3>1, <3>3 DEF Saves, NumbersOK, Busy, Typed
      <4>2. op[t].source \in Sources
        BY <3>3 DEF Saves, Typed, OpOK, Aware
      <4>3. CASE op[t].source # op[u].source
        <5>1. db'.versions[op[u].source] = rows
          BY <3>1, <3>3, <4>2, <4>3 DEF Typed, TablesOK
        <5>2. QED
          BY <1>1, <2>2, <3>1, <4>1, <5>1 DEF NumberOK
      <4>4. CASE op[t].source = op[u].source
        <5>1. db'.versions[op[u].source] = Append(rows, RowOf(op[t]))
          BY <3>1, <3>3, <4>2, <4>4 DEF Typed, TablesOK
        <5> DEFINE more == Append(rows, RowOf(op[t]))
        <5>2. /\ Len(more) = Len(rows) + 1 /\ DOMAIN more = 1..(Len(rows) + 1)
              /\ \A i \in 1..Len(rows) : more[i] = rows[i]
          <6>1. rows \in Seq(VersionRow)
            BY <3>1
          <6> HIDE DEF rows
          <6>2. QED
            BY <6>1, Appended, SMTT(30)
        <5> HIDE DEF more
        <5>3. op[u].number \in 1..(Len(more) + 1)
          BY <3>1, <4>1, <5>2, SMTT(30) DEF NumberOK
        <5>4. \A i \in DOMAIN more : more[i].content = op[u].content => op[u].number <= i
          <6>1. \A i \in 1..(Len(rows) + 1) : i \in 1..Len(rows) \/ i = Len(rows) + 1
            BY <3>1, OneLonger
          <6>2. \A i \in 1..Len(rows) : more[i].content = op[u].content => op[u].number <= i
            BY <3>1, <4>1, <5>2 DEF NumberOK
          <6>3. op[u].number <= Len(rows) + 1
            BY <3>1, <4>1 DEF NumberOK
          <6>4. QED
            BY <5>2, <6>1, <6>2, <6>3
        <5>5. QED
          BY <1>1, <2>2, <3>1, <4>1, <5>1, <5>3, <5>4 DEF NumberOK, more
      <4>5. QED
        BY <4>3, <4>4
    <3>4. ~Restore
      BY <3>1 DEF Restore, Idle, Busy
    <3>5. ASSUME NEW t \in Threads, Saves(t) PROVE t # u
      <4>1. \E outcome \in {"complete", "failed"} : op'[t] = Ended(op[t], outcome)
        BY <3>5, WriteStep DEF Saves
      <4>2. op[t] \in Requests
        BY DEF Typed, OpOK
      <4>3. op'[t].at \in {"idle", "ending"}
        BY <4>1, <4>2 DEF Ended, NoOp, Requests
      <4>4. QED
        BY <1>4, <4>3
    <3>6. QED
      BY <3>2, <3>3, <3>4, <3>5, TablesStep, VersionsKept DEF Saves, SavedAs, VersionSaved
  <2>3. QED
    BY <1>4, <2>1, <2>2, RequestMoves
<1>5. ASSUME backend = "memory", NEW t \in Threads, NEW u \in Threads, Busy(t)', Busy(u)' PROVE t = u
  <2>1. CASE Busy(t) /\ Busy(u)
    BY <1>5, <2>1 DEF NumbersOK
  <2>2. CASE ~Busy(t) \/ ~Busy(u)
    <3>1. Idle
      BY <1>5, <2>2, RequestMoves
    <3>2. op'[t] # op[t] /\ op'[u] # op[u] /\ op'[t] # NoOp
      BY <1>5, <3>1 DEF Idle, Busy, NoOp
    <3>3. QED
      BY <3>2, OneMoves
  <2>3. QED
    BY <2>1, <2>2
<1>6. QED
  BY <1>1, <1>2, <1>3, <1>4, <1>5 DEF NumbersOK

LEMMA TypedInit ==
  ASSUME Init
  PROVE  Typed /\ NumbersOK
<1>1. TablesOK(db) /\ \A s \in Sources : db.versions[s] = <<>>
  BY DEF Init, TablesOK, Fields
<1>2. OpOK /\ \A t \in Threads : op[t] = NoOp
  BY NoOpType DEF Init, OpOK
<1>3. MigrationOK /\ record \in [Threads -> Records]
  BY NoOpType DEF Init, MigrationOK
<1>4. Typed
  BY <1>1, <1>2, <1>3, DeploymentAssumption DEF Init, Typed, BackupOK
<1>5. \A s \in Sources : RowsOK(s, db.versions[s])
  BY <1>1 DEF RowsOK
<1>6. \A t \in Threads : op[t].at = "idle"
  BY <1>2 DEF NoOp
<1>7. QED
  BY <1>4, <1>5, <1>6 DEF Init, NumbersOK, Busy

\* The requests, tables and records keep their form, the rows of a source are
\* numbered by their places, and a request that has its version number has one
\* that its content has or can still take, or one PostgreSQL will refuse.
THEOREM TypedAlways == Spec => [](Typed /\ NumbersOK)
<1>1. Init => Typed /\ NumbersOK
  BY TypedInit
<1>2. Typed /\ NumbersOK /\ [Next]_vars => (Typed /\ NumbersOK)'
  BY TypedNext, NumbersNext
<1>3. QED
  BY <1>1, <1>2, PTL DEF Spec

LEMMA TypedMeans ==
  ASSUME Typed
  PROVE  TypeOK
<1>1. ASSUME NEW s \in Sources, NEW row \in Rows(s) PROVE row.id \in Ids /\ row.number \in Nat \ {0}
  <2>1. db.versions[s] \in Seq(VersionRow)
    BY DEF Typed, TablesOK
  <2>2. PICK i \in DOMAIN db.versions[s] : row = db.versions[s][i]
    BY <1>1 DEF Rows, RowsIn
  <2>3. row \in VersionRow
    BY <2>1, <2>2
  <2>4. QED
    BY <2>3 DEF VersionRow
<1>2. \A s \in Sources : db.sources[s] = Nothing \/ db.sources[s] \in
              [status : {"active", "retired"}, hold : BOOLEAN]
  BY DEF Typed, TablesOK, SourceRow
<1>3. /\ db.chunks \subseteq Chunks
      /\ db.vectors \subseteq [chunk : Chunks, space : Spaces, by : Spaces]
      /\ objects \subseteq Contents /\ active \in Spaces
  BY DEF Typed, TablesOK, Vector
<1>4. \A space \in Spaces : migration[space].completed \subseteq Chunks
  BY DEF Typed, MigrationOK
<1>5. \A t \in Threads : record[t].status \in {"none", "running", "complete", "paused", "failed"}
  BY DEF Typed, Records, Statuses
<1>6. QED
  BY <1>1, <1>2, <1>3, <1>4, <1>5 DEF TypeOK

\* The tables, the objects and what is recorded always have their types.
THEOREM TypeCorrect == Spec => []TypeOK
BY TypedAlways, TypedMeans, PTL

-----------------------------------------------------------------------------
(* A retired source is made active only by a save.                          *)

LEMMA RetirementNext ==
  ASSUME Typed, NumbersOK, [Next]_vars, restored' = restored, NEW s \in Sources,
         db.sources[s] # Nothing, db.sources[s].status = "retired", db'.sources[s].status # "retired"
  PROVE  \E t \in Threads : op[t].at = "writing" /\ op[t].source = s
<1>1. db' # db
  OBVIOUS
<1>2. ~Restore
  BY DEF Restore
<1>3. ASSUME NEW t \in Threads, Retires(t) PROVE FALSE
  <2>1. db'.sources = [db.sources EXCEPT ![op[t].source] = [db.sources[op[t].source] EXCEPT !.status = "retired"]]
        /\ op[t].source \in Sources /\ db.sources[op[t].source] \in SourceRow
    <3>1. op[t].source \in Known /\ db' = RetiredIn(op[t].source)
      BY <1>3 DEF Retires
    <3>2. db'.sources = [db.sources EXCEPT ![op[t].source] = [db.sources[op[t].source] EXCEPT !.status = "retired"]]
      BY <3>1, RetiredTables DEF Typed, Tables
    <3>3. QED
      BY <3>1, <3>2 DEF Known, Typed, TablesOK
  <2>2. [db.sources[op[t].source] EXCEPT !.status = "retired"].status = "retired"
    BY <2>1 DEF SourceRow
  <2>3. QED
    BY <2>1, <2>2 DEF Typed, TablesOK
<1>4. ASSUME NEW t \in Threads, Persists(t) PROVE FALSE
  <2>1. op[t].label \in Spaces
    BY <1>4 DEF Persists, Typed, OpOK, Aware
  <2>2. db'.sources = db.sources
    BY <1>4, <2>1, EmbeddingTables DEF Persists, Typed, Tables
  <2>3. QED
    BY <2>2
<1>5. PICK t \in Threads : Saves(t)
  BY <1>1, <1>2, <1>3, <1>4, TablesStep
<1>6. db'.sources = [db.sources EXCEPT ![op[t].source] = [status |-> "active", hold |-> op[t].hold]]
  BY <1>5 DEF Saves, SavedAs, Tables
<1>7. op[t].source = s
  BY <1>6 DEF Typed, TablesOK
<1>8. QED
  BY <1>5, <1>7 DEF Saves

\* A retired source stays so until a writer whose bundle was not in the store
\* saves it, or a backup is restored.
THEOREM RetirementStays == Spec => RetirementSticks
<1>1. Typed /\ NumbersOK /\ [Next]_vars =>
        [restored' = restored => \A s \in Sources :
           (/\ db.sources[s] # Nothing /\ db.sources[s].status = "retired"
            /\ db'.sources[s].status # "retired")
              => \E t \in Threads : op[t].at = "writing" /\ op[t].source = s]_vars
  BY RetirementNext
<1>2. QED
  BY <1>1, TypedAlways, PTL DEF Spec, RetirementSticks

-----------------------------------------------------------------------------
(* The versions are a VersionLedger.                                        *)

EntryOf(s, row) == [source |-> s, content |-> row.content, parser |-> row.parser, number |-> row.number]

Kept == IF saved = Nothing THEN {} ELSE {LedgerOf(saved.db)}

Entries(versions) == UNION {{EntryOf(s, versions[s][i]) : i \in DOMAIN versions[s]} : s \in Sources}

LEMMA InEntries ==
  ASSUME NEW d
  PROVE  \A e : e \in Entries(d) <=> \E s \in Sources : \E i \in DOMAIN d[s] : e = EntryOf(s, d[s][i])
BY DEF Entries

LEMMA LedgerEntries ==
  ASSUME NEW d
  PROVE  LedgerOf(d) = Entries(d.versions)
BY DEF LedgerOf, RowsIn, EntryOf, Entries

LEMMA EntriesGrow ==
  ASSUME NEW d, NEW s \in Sources, d[s] \in Seq(VersionRow), NEW row,
         NEW n, n[s] = Append(d[s], row), \A r \in Sources \ {s} : n[r] = d[r]
  PROVE  Entries(n) = Entries(d) \cup {EntryOf(s, row)}
<1> DEFINE rows == d[s]
           more == Append(rows, row)
<1>0. rows \in Seq(VersionRow) /\ \A r \in Sources \ {s} : n[r] = d[r]
  OBVIOUS
<1>1. Len(rows) \in Nat /\ DOMAIN rows = 1..Len(rows)
  BY <1>0
<1>2. /\ DOMAIN more = 1..(Len(rows) + 1) /\ more[Len(rows) + 1] = row
      /\ \A i \in 1..Len(rows) : more[i] = rows[i]
  <2>1. rows \in Seq(VersionRow)
    BY <1>0, <1>1
  <2> HIDE DEF rows
  <2>2. QED
    BY <2>1, Appended, SMTT(30)
<1>3. n[s] = more
  OBVIOUS
<1> HIDE DEF more
<1>4. ASSUME NEW f \in Entries(n) PROVE f \in Entries(d) \cup {EntryOf(s, row)}
  <2>1. PICK r \in Sources : \E i \in DOMAIN n[r] : f = EntryOf(r, n[r][i])
    BY <1>4, InEntries
  <2>2. PICK i \in DOMAIN n[r] : f = EntryOf(r, n[r][i])
    BY <2>1
  <2>3. CASE r # s
    <3>1. n[r] = d[r]
      BY <1>0, <2>3
    <3>2. f \in Entries(d)
      BY <2>2, <3>1, InEntries
    <3>3. QED
      BY <3>2
  <2>4. CASE r = s
    <3>1. i \in 1..Len(rows) \/ i = Len(rows) + 1
      BY <1>1, <1>2, <1>3, <2>2, <2>4, OneLonger
    <3>2. CASE i = Len(rows) + 1
      BY <1>2, <1>3, <2>2, <2>4, <3>2
    <3>3. CASE i \in 1..Len(rows)
      <4>1. f = EntryOf(s, rows[i]) /\ i \in DOMAIN rows
        BY <1>1, <1>2, <1>3, <2>2, <2>4, <3>3
      <4>2. f \in Entries(d)
        BY <4>1, InEntries
      <4>3. QED
        BY <4>2
    <3>4. QED
      BY <3>1, <3>2, <3>3
  <2>5. QED
    BY <2>3, <2>4
<1>5. ASSUME NEW f \in Entries(d) PROVE f \in Entries(n)
  <2>1. PICK r \in Sources : \E i \in DOMAIN d[r] : f = EntryOf(r, d[r][i])
    BY <1>5, InEntries
  <2>2. PICK i \in DOMAIN d[r] : f = EntryOf(r, d[r][i])
    BY <2>1
  <2>3. CASE r # s
    <3>1. n[r] = d[r]
      BY <1>0, <2>3
    <3>2. QED
      BY <2>2, <3>1, InEntries
  <2>4. CASE r = s
    <3>1. i \in 1..Len(rows) /\ i \in 1..(Len(rows) + 1)
      BY <1>1, <2>2, <2>4
    <3>2. i \in DOMAIN n[s] /\ f = EntryOf(s, n[s][i])
      BY <1>2, <1>3, <2>2, <2>4, <3>1
    <3>3. QED
      BY <3>2, InEntries
  <2>5. QED
    BY <2>3, <2>4
<1>6. EntryOf(s, row) \in Entries(n)
  <2>1. Len(rows) + 1 \in DOMAIN more
    BY <1>1, <1>2
  <2>2. Len(rows) + 1 \in DOMAIN n[s] /\ EntryOf(s, row) = EntryOf(s, n[s][Len(rows) + 1])
    BY <1>2, <1>3, <2>1
  <2>3. QED
    BY <2>2, InEntries
<1>7. QED
  BY <1>4, <1>5, <1>6

\* A save that appends a row records one new entry.
LEMMA AppendRecords ==
  ASSUME Typed, NumbersOK, NEW t \in Threads, op[t].at = "writing",
         Numbered(op[t], db.versions[op[t].source]),
         db'.versions = [db.versions EXCEPT ![op[t].source] = Append(db.versions[op[t].source], RowOf(op[t]))],
         Kept' = Kept
  PROVE  Ledger!Next
<1> DEFINE b == op[t]
           s == b.source
           rows == db.versions[s]
           more == Append(rows, RowOf(b))
           e == EntryOf(s, RowOf(b))
<1>1. /\ b \in Requests /\ Aware(b) /\ s \in Sources /\ IdOf(b) \in Ids
      /\ rows \in Seq(VersionRow) /\ Len(rows) \in Nat /\ DOMAIN rows = 1..Len(rows)
  <2>1. b \in Requests /\ Aware(b)
    BY DEF Typed, OpOK
  <2>2. s \in Sources /\ IdOf(b) \in Ids
    BY <2>1 DEF Aware, Saving
  <2>3. rows \in Seq(VersionRow)
    BY <2>2 DEF Typed, TablesOK
  <2>4. QED
    BY <2>1, <2>2, <2>3
<1>2. b.content \in Contents /\ b.parser \in Parsers
  BY <1>1 DEF IdOf, Ids
<1>3. b.number \in Nat \ {0} /\ b.number \in 1..(Len(rows) + 1)
  BY <1>1, SMTT(30) DEF Numbered
<1>4. e = [source |-> s, content |-> b.content, parser |-> b.parser, number |-> b.number]
  BY DEF EntryOf, RowOf
<1>5. e \in Ledger!Entry
  BY <1>1, <1>2, <1>3, <1>4 DEF Ledger!Entry
<1>6. /\ DOMAIN more = 1..(Len(rows) + 1) /\ more[Len(rows) + 1] = RowOf(b)
      /\ \A i \in 1..Len(rows) : more[i] = rows[i]
  <2>1. rows \in Seq(VersionRow)
    BY <1>1
  <2> HIDE DEF rows
  <2>2. QED
    BY <2>1, Appended, SMTT(30)
<1>7. db'.versions[s] = more /\ \A r \in Sources \ {s} : db'.versions[r] = db.versions[r]
  BY <1>1 DEF Typed, TablesOK
<1> HIDE DEF more, e
<1>8. LedgerOf(db)' = LedgerOf(db) \cup {e}
  <2>1. Entries(db'.versions) = Entries(db.versions) \cup {EntryOf(s, RowOf(b))}
    <3> DEFINE d == db.versions
               n == db'.versions
    <3>1. d[s] \in Seq(VersionRow) /\ s \in Sources /\ n[s] = Append(d[s], RowOf(b))
          /\ \A r \in Sources \ {s} : n[r] = d[r]
      BY <1>1, <1>7 DEF more
    <3> DEFINE row == RowOf(b)
    <3>2. n[s] = Append(d[s], row)
      BY <3>1
    <3> HIDE DEF d, n, s, b, row
    <3>3. Entries(n) = Entries(d) \cup {EntryOf(s, row)}
      <4>1. \A s1 \in Sources : \A d1, n1, row1 :
              (/\ d1[s1] \in Seq(VersionRow) /\ n1[s1] = Append(d1[s1], row1)
               /\ \A r \in Sources \ {s1} : n1[r] = d1[r])
                => Entries(n1) = Entries(d1) \cup {EntryOf(s1, row1)}
        BY EntriesGrow, SMTT(30)
      <4>2. s \in Sources
        BY <3>1
      <4>3. d[s] \in Seq(VersionRow)
        BY <3>1
      <4>4. n[s] = Append(d[s], row)
        BY <3>2
      <4>5. \A r \in Sources \ {s} : n[r] = d[r]
        BY <3>1
      <4>6. \A d1, n1, row1 :
              (/\ d1[s] \in Seq(VersionRow) /\ n1[s] = Append(d1[s], row1)
               /\ \A r \in Sources \ {s} : n1[r] = d1[r])
                => Entries(n1) = Entries(d1) \cup {EntryOf(s, row1)}
        BY <4>1, <4>2
      <4>7. \A n1, row1 :
              (/\ d[s] \in Seq(VersionRow) /\ n1[s] = Append(d[s], row1)
               /\ \A r \in Sources \ {s} : n1[r] = d[r])
                => Entries(n1) = Entries(d) \cup {EntryOf(s, row1)}
        BY <4>6
      <4>8. \A row1 :
              (/\ d[s] \in Seq(VersionRow) /\ n[s] = Append(d[s], row1)
               /\ \A r \in Sources \ {s} : n[r] = d[r])
                => Entries(n) = Entries(d) \cup {EntryOf(s, row1)}
        BY <4>7
      <4>9. QED
        BY <4>8, <4>3, <4>4, <4>5, Zenon
    <3>4. QED
      BY <3>3 DEF d, n, s, b, row
  <2>2. LedgerOf(db) = Entries(db.versions)
    BY LedgerEntries
  <2>3. LedgerOf(db)' = Entries(db'.versions)
    BY SMTT(30) DEF LedgerOf, RowsIn, EntryOf, Entries
  <2>4. QED
    BY <2>1, <2>2, <2>3 DEF e
<1> DEFINE same == {f \in Ledger!Of(s) : f.content = b.content}
<1>9. ASSUME NEW f \in Ledger!Of(s)
      PROVE  \E i \in DOMAIN rows : f = EntryOf(s, rows[i])
  <2>1. f \in LedgerOf(db) /\ f.source = s
    BY <1>9 DEF Ledger!Of
  <2>2. PICK r \in Sources : \E i \in DOMAIN db.versions[r] : f = EntryOf(r, db.versions[r][i])
    BY <2>1, InEntries, LedgerEntries
  <2>3. PICK i \in DOMAIN db.versions[r] : f = EntryOf(r, db.versions[r][i])
    BY <2>2
  <2>4. r = s
    BY <2>1, <2>3 DEF EntryOf
  <2>5. QED
    BY <2>3, <2>4
<1>10. \A f \in same : f.parser # b.parser /\ f.number = b.number
  <2>1. ASSUME NEW f \in same PROVE f.parser # b.parser /\ f.number = b.number
    <3>1. PICK i \in DOMAIN rows : f = EntryOf(s, rows[i])
      BY <1>9, <2>1
    <3>2. rows[i].content = b.content
      BY <2>1, <3>1 DEF EntryOf
    <3>3. QED
      BY <3>1, <3>2 DEF EntryOf, Numbered
  <2>2. QED
    BY <2>1
<1>11. ASSUME same = {}
       PROVE  \A f \in Ledger!Of(s) : f.number < b.number
  <2>1. ASSUME NEW i \in DOMAIN rows PROVE rows[i].content # b.content
    <3>1. EntryOf(s, rows[i]) \in LedgerOf(db)
      BY <1>1, InEntries, LedgerEntries
    <3>2. EntryOf(s, rows[i]) \in Ledger!Of(s)
      BY <3>1 DEF Ledger!Of, EntryOf
    <3>3. QED
      BY <1>11, <3>2 DEF EntryOf
  <2>2. b.number = Len(rows) + 1
    BY <2>1 DEF Numbered
  <2>3. ASSUME NEW f \in Ledger!Of(s) PROVE f.number < b.number
    <3>1. PICK i \in DOMAIN rows : f = EntryOf(s, rows[i])
      BY <1>9, <2>3
    <3>2. f.number \in 1..i /\ i \in 1..Len(rows)
      BY <1>1, <3>1 DEF EntryOf, NumbersOK, RowsOK
    <3>3. QED
      BY <1>1, <2>2, <3>2
  <2>4. QED
    BY <2>3
<1>12. Ledger!Record(e)
  <2>1. e.source = s /\ e.content = b.content /\ e.parser = b.parser /\ e.number = b.number
    BY <1>4
  <2>2. QED
    BY <1>8, <1>10, <1>11, <2>1 DEF Ledger!Record, Kept
<1>13. QED
  BY <1>5, <1>8, <1>12 DEF Ledger!Next

LEMMA SameVersions ==
  ASSUME db'.versions = db.versions
  PROVE  LedgerOf(db)' = LedgerOf(db)
BY DEF LedgerOf, RowsIn

\* Every step records one version, backs up, restores, or keeps the ledger.
LEMMA LedgerNext ==
  ASSUME Typed, NumbersOK, [Next]_vars
  PROVE  Ledger!Next \/ (LedgerOf(db)' = LedgerOf(db) /\ Kept' = Kept)
<1>1. CASE Backup
  <2>1. db' = db /\ saved = Nothing /\ saved'.db = db
    BY <1>1 DEF Backup
  <2>2. LedgerOf(db)' = LedgerOf(db)
    BY <2>1, SameVersions
  <2>3. Kept = {}
    BY <2>1 DEF Kept
  <2>4. LedgerOf(saved.db)' = LedgerOf(db)
    BY <2>1 DEF LedgerOf, RowsIn
  <2>5. Kept' = Kept \/ Kept' = Kept \cup {LedgerOf(db)}
    BY <2>3, <2>4 DEF Kept
  <2>6. QED
    BY <2>2, <2>5 DEF Ledger!Next, Ledger!Backup, Kept
<1>2. CASE saved' = saved
  <2>1. Kept' = Kept
    BY <1>2 DEF Kept, LedgerOf, RowsIn
  <2>2. CASE db'.versions = db.versions
    BY <2>1, <2>2, SameVersions
  <2>3. CASE Restore
    <3>1. saved # Nothing /\ db' = saved.db
      BY <2>3 DEF Restore
    <3>2. LedgerOf(db)' = LedgerOf(saved.db)
      BY <3>1 DEF LedgerOf, RowsIn
    <3>3. LedgerOf(db)' \in Kept
      BY <3>1, <3>2 DEF Kept
    <3>4. QED
      BY <2>1, <3>3 DEF Ledger!Next, Ledger!Restore, Kept
  <2>4. ASSUME NEW t \in Threads, Saves(t), db'.versions # db.versions PROVE Ledger!Next
    <3>1. /\ db'.versions = [db.versions EXCEPT ![op[t].source] = Append(db.versions[op[t].source], RowOf(op[t]))]
          /\ Numbered(op[t], db.versions[op[t].source]) /\ op[t].at = "writing"
      BY <2>4 DEF Saves, SavedAs, VersionSaved
    <3>2. QED
      BY <2>1, <3>1, AppendRecords
  <2>5. QED
    BY <2>2, <2>3, <2>4, TablesStep, VersionsKept
<1>3. QED
  BY <1>1, <1>2, BackupStep

\* The tables, whichever store holds them and however writers interleave, are
\* a ledger of versions: one number for one content, none taken back, and new
\* content above all that came before, short of restoring the backup.
THEOREM LedgerHolds == Spec => LedgerContract
<1>1. Init => LedgerOf(db) = {} /\ Kept = {}
  <2>1. ASSUME Init PROVE \A s \in Sources : db.versions[s] = <<>>
    BY <2>1 DEF Init
  <2>2. ASSUME Init PROVE LedgerOf(db) = {}
    BY <2>1, <2>2 DEF LedgerOf, RowsIn
  <2>3. QED
    BY <2>2 DEF Init, Kept
<1>2. Init => Ledger!Init
  BY <1>1 DEF Ledger!Init, Kept
<1>3. Typed /\ NumbersOK /\ [Next]_vars => [Ledger!Next]_<<LedgerOf(db), Kept>>
  BY LedgerNext
<1>4. QED
  BY <1>2, <1>3, TypedAlways, PTL DEF Spec, LedgerContract, Ledger!Spec, Kept

-----------------------------------------------------------------------------
(* Whole bundles.                                                           *)

StoredIn(d, id) ==
    \E i \in DOMAIN d.versions[id[1]] :
        d.versions[id[1]][i].content = id[2] /\ d.versions[id[1]][i].parser = id[3]

\* The tables hold whole bundles whose originals are among the objects.
Whole(d, originals) ==
    /\ \A s \in Sources : \A i \in DOMAIN d.versions[s] :
        /\ d.sources[s] # Nothing
        /\ d.versions[s][i].content \in originals
        /\ <<d.versions[s][i].content, d.versions[s][i].parser>> \in d.artifacts
        /\ ChunksOf(d.versions[s][i].id) \subseteq d.chunks
    /\ \A c \in d.chunks : StoredIn(d, c[1]) /\ \E v \in d.vectors : v.chunk = c
    /\ \A v \in d.vectors : v.chunk \in d.chunks
    /\ d.edges \subseteq d.namespaces \X d.namespaces

\* What a request relies on: its original is an object, its vectors are of
\* all its chunks, what it embeds again is in the store.
Relies(o) ==
    /\ o.at \in {"put", "numbered", "embedded", "writing"} => o.content \in objects
    /\ o.at \in {"embedded", "writing"} =>
          /\ o.made \subseteq ChunksOf(IdOf(o)) \X Spaces
          /\ \A c \in ChunksOf(IdOf(o)) : \E m \in o.made : m[1] = c
    /\ o.at \in {"accepted", "running", "persisting"} => o.todo \subseteq db.chunks
    /\ o.at = "persisting" => \A m \in o.made : m[1] \in o.todo

WholeOK ==
    /\ Whole(db, objects)
    /\ \A t \in Threads : Relies(op[t])
    /\ saved # Nothing => Whole(saved.db, saved.objects)
    /\ saved # Nothing /\ ~restored => saved.objects \subseteq objects

LEMMA SavedWhole ==
  ASSUME TablesOK(db), Whole(db, objects), NEW b \in Requests, IdOf(b) \in Ids, Relies(b), b.at = "writing",
         NEW e, SavedAs(db, e, b)
  PROVE  Whole(e, objects) /\ db.chunks \subseteq e.chunks
<1> DEFINE s == b.source
           rows == db.versions[s]
           id == IdOf(b)
<1>1. /\ s \in Sources /\ b.content \in Contents /\ b.parser \in Parsers /\ b.content \in objects
      /\ b.made \subseteq ChunksOf(id) \X Spaces /\ \A c \in ChunksOf(id) : \E m \in b.made : m[1] = c
      /\ rows \in Seq(VersionRow) /\ Len(rows) \in Nat /\ DOMAIN rows = 1..Len(rows)
  <2>1. s \in Sources /\ b.content \in Contents /\ b.parser \in Parsers
    BY DEF IdOf, Ids
  <2>2. rows \in Seq(VersionRow)
    BY <2>1 DEF TablesOK
  <2>3. QED
    BY <2>1, <2>2 DEF Relies
<1>2. /\ e.sources[s] # Nothing /\ \A r \in Sources \ {s} : e.sources[r] = db.sources[r]
      /\ e.artifacts = db.artifacts \cup {<<b.content, b.parser>>}
      /\ e.namespaces = db.namespaces \cup NamespacesOf(b) /\ e.edges = db.edges \cup EdgesOf(b)
      /\ e.chunks = db.chunks \cup ChunksOf(id) /\ e.vectors = VectorsWith(db, b)
  <2>1. e.sources = [db.sources EXCEPT ![s] = [status |-> "active", hold |-> b.hold]]
    BY DEF SavedAs, Tables
  <2>2. [status |-> "active", hold |-> b.hold] # Nothing
    BY DEF Requests
  <2>3. e.sources[s] # Nothing /\ \A r \in Sources \ {s} : e.sources[r] = db.sources[r]
    BY <1>1, <2>1, <2>2 DEF TablesOK
  <2>4. QED
    BY <2>3 DEF SavedAs, Tables
\* The rows are those of before and the saved one.
<1>3. /\ \A r \in Sources : \A i \in DOMAIN e.versions[r] :
            \/ i \in DOMAIN db.versions[r] /\ e.versions[r][i] = db.versions[r][i]
            \/ r = s /\ e.versions[r][i] = RowOf(b)
      /\ \A r \in Sources : \A i \in DOMAIN db.versions[r] :
            i \in DOMAIN e.versions[r] /\ e.versions[r][i] = db.versions[r][i]
      /\ \E i \in DOMAIN e.versions[s] : e.versions[s][i] = RowOf(b)
  <2>1. CASE e.versions = [db.versions EXCEPT ![s] = Append(rows, RowOf(b))]
    <3> DEFINE more == Append(rows, RowOf(b))
    <3>1. /\ DOMAIN more = 1..(Len(rows) + 1) /\ more[Len(rows) + 1] = RowOf(b)
          /\ \A i \in 1..Len(rows) : more[i] = rows[i]
      <4>1. rows \in Seq(VersionRow)
        BY <1>1
      <4> HIDE DEF rows
      <4>2. QED
        BY <4>1, Appended, SMTT(30)
    <3>2. e.versions[s] = more /\ \A r \in Sources \ {s} : e.versions[r] = db.versions[r]
      BY <1>1, <2>1 DEF TablesOK
    <3> HIDE DEF more
    <3>3. \A i \in DOMAIN more : i \in DOMAIN rows \/ i = Len(rows) + 1
      BY <1>1, <3>1, OneLonger
    <3>4. \A i \in DOMAIN rows : i \in DOMAIN more /\ more[i] = rows[i]
      BY <1>1, <3>1
    <3>5. Len(rows) + 1 \in DOMAIN more
      BY <1>1, <3>1
    <3>6. QED
      BY <3>1, <3>2, <3>3, <3>4, <3>5
  <2>2. CASE e.versions = db.versions /\ \E i \in DOMAIN rows : rows[i] = RowOf(b)
    BY <1>1, <2>2
  <2>3. QED
    BY <2>1, <2>2 DEF SavedAs, VersionSaved
<1>4. RowOf(b).content = b.content /\ RowOf(b).parser = b.parser /\ RowOf(b).id = id
  BY DEF RowOf
<1>5. \A r \in Sources : \A i \in DOMAIN e.versions[r] :
        /\ e.sources[r] # Nothing
        /\ e.versions[r][i].content \in objects
        /\ <<e.versions[r][i].content, e.versions[r][i].parser>> \in e.artifacts
        /\ ChunksOf(e.versions[r][i].id) \subseteq e.chunks
  <2>1. ASSUME NEW r \in Sources, NEW i \in DOMAIN e.versions[r],
               i \in DOMAIN db.versions[r], e.versions[r][i] = db.versions[r][i]
        PROVE  /\ e.sources[r] # Nothing
               /\ e.versions[r][i].content \in objects
               /\ <<e.versions[r][i].content, e.versions[r][i].parser>> \in e.artifacts
               /\ ChunksOf(e.versions[r][i].id) \subseteq e.chunks
    BY <1>2, <2>1 DEF Whole
  <2>2. ASSUME NEW i \in DOMAIN e.versions[s], e.versions[s][i] = RowOf(b)
        PROVE  /\ e.sources[s] # Nothing
               /\ e.versions[s][i].content \in objects
               /\ <<e.versions[s][i].content, e.versions[s][i].parser>> \in e.artifacts
               /\ ChunksOf(e.versions[s][i].id) \subseteq e.chunks
    BY <1>1, <1>2, <1>4, <2>2
  <2>3. QED
    BY <1>3, <2>1, <2>2, SMTT(30)
<1>6. ASSUME NEW c \in e.chunks PROVE StoredIn(e, c[1]) /\ \E v \in e.vectors : v.chunk = c
  <2>1. CASE c \in ChunksOf(id)
    <3>1. c[1] = id /\ id[1] = s /\ id[2] = b.content /\ id[3] = b.parser
      BY <2>1 DEF ChunksOf, IdOf
    <3>2. StoredIn(e, c[1])
      BY <1>3, <1>4, <3>1 DEF StoredIn
    <3>3. PICK m \in b.made : m[1] = c
      BY <1>1, <2>1
    <3>4. [chunk |-> m[1], space |-> b.label, by |-> m[2]] \in e.vectors
      BY <1>2 DEF VectorsWith
    <3>5. QED
      BY <3>2, <3>3, <3>4
  <2>2. CASE c \notin ChunksOf(id)
    <3>1. c \in db.chunks /\ c[1] \in Ids
      BY <1>2, <2>2 DEF TablesOK, Chunks, ChunksOf
    <3>2. c[1][1] \in Sources
      BY <3>1, IdsApart
    <3>3. StoredIn(db, c[1])
      BY <3>1 DEF Whole
    <3>4. StoredIn(e, c[1])
      BY <1>3, <3>2, <3>3, SMTT(30) DEF StoredIn
    <3>5. PICK v \in db.vectors : v.chunk = c
      BY <3>1 DEF Whole
    <3>6. v \in e.vectors
      BY <1>2, <2>2, <3>5 DEF VectorsWith
    <3>7. QED
      BY <3>4, <3>5, <3>6
  <2>3. QED
    BY <2>1, <2>2
<1>7. ASSUME NEW v \in e.vectors PROVE v.chunk \in e.chunks
  <2>1. CASE v \in db.vectors
    BY <1>2, <2>1 DEF Whole
  <2>2. CASE \E m \in b.made : v = [chunk |-> m[1], space |-> b.label, by |-> m[2]]
    BY <1>1, <1>2, <2>2
  <2>3. QED
    BY <1>2, <2>1, <2>2 DEF VectorsWith
<1>8. e.edges \subseteq e.namespaces \X e.namespaces
  <2>1. EdgesOf(b) \subseteq NamespacesOf(b) \X NamespacesOf(b)
    BY DEF EdgesOf, NamespacesOf
  <2>2. QED
    BY <1>2, <2>1 DEF Whole
<1>9. QED
  BY <1>2, <1>5, <1>6, <1>7, <1>8 DEF Whole

LEMMA VectorWhole ==
  ASSUME Typed, WholeOK, NEW t \in Threads, Persists(t)
  PROVE  Whole(db', objects) /\ db'.chunks = db.chunks
<1>1. PICK m \in op[t].made :
        /\ op[t].at = "persisting" /\ m[1] \in Chunks /\ m[2] \in Spaces
        /\ db' = UpsertEmbedding(db, m[1], op[t].label, m[2])
  BY DEF Persists
<1>2. m[1] \in db.chunks /\ op[t].label \in Spaces
  BY <1>1 DEF WholeOK, Relies, Typed, OpOK, Aware
<1> DEFINE new == [chunk |-> m[1], space |-> op[t].label, by |-> m[2]]
<1>3. Tables(db', db.sources, db.versions, db.artifacts, db.namespaces, db.edges, db.chunks,
             {v \in db.vectors : v.chunk # m[1] \/ v.space # op[t].label} \cup {new})
  BY <1>1, <1>2, EmbeddingTables DEF Typed
<1>4. new.chunk = m[1]
  OBVIOUS
<1>5. \A c \in db.chunks : \E v \in db'.vectors : v.chunk = c
  <2>1. ASSUME NEW c \in db.chunks PROVE \E v \in db'.vectors : v.chunk = c
    <3>1. CASE c = m[1]
      BY <1>3, <1>4, <3>1 DEF Tables
    <3>2. CASE c # m[1]
      <4>1. PICK v \in db.vectors : v.chunk = c
        BY DEF WholeOK, Whole
      <4>2. v \in db'.vectors
        BY <1>3, <3>2, <4>1 DEF Tables
      <4>3. QED
        BY <4>1, <4>2
    <3>3. QED
      BY <3>1, <3>2
  <2>2. QED
    BY <2>1
<1>6. \A v \in db'.vectors : v.chunk \in db.chunks
  BY <1>2, <1>3, <1>4 DEF Tables, WholeOK, Whole
<1>7. QED
  BY <1>3, <1>5, <1>6, SMTT(30) DEF Tables, WholeOK, Whole, StoredIn

LEMMA RetiredWhole ==
  ASSUME Typed, WholeOK, NEW t \in Threads, Retires(t)
  PROVE  Whole(db', objects) /\ db'.chunks = db.chunks
<1>1. op[t].source \in Known /\ db' = RetiredIn(op[t].source)
  BY DEF Retires
<1> DEFINE s == op[t].source
           row == [db.sources[s] EXCEPT !.status = "retired"]
<1>2. Tables(db', [db.sources EXCEPT ![s] = row], db.versions, db.artifacts, db.namespaces,
             db.edges, db.chunks, db.vectors)
  BY <1>1, RetiredTables DEF Typed
<1>3. s \in Sources /\ db.sources[s] \in SourceRow
  BY <1>1 DEF Known, Typed, TablesOK
<1>4. row # Nothing
  <2>1. row \in SourceRow
    BY <1>3 DEF SourceRow
  <2>2. QED
    BY <2>1 DEF SourceRow
<1> HIDE DEF row
<1>5. \A r \in Sources : db.sources[r] # Nothing => db'.sources[r] # Nothing
  BY <1>2, <1>3, <1>4 DEF Tables, Typed, TablesOK
<1>6. QED
  BY <1>2, <1>5, SMTT(30) DEF Tables, WholeOK, Whole, StoredIn

LEMMA MoreObjects ==
  ASSUME NEW d, NEW these, NEW others, these \subseteq others, Whole(d, these)
  PROVE  Whole(d, others)
BY DEF Whole

\* While a request is under way no backup is restored, and tables only grow.
LEMMA StoreGrows ==
  ASSUME Typed, NumbersOK, WholeOK, [Next]_vars
  PROVE  /\ Whole(db', objects')
         /\ (\E u \in Threads : Busy(u)) => objects \subseteq objects' /\ db.chunks \subseteq db'.chunks
<1>1. Restore => ~\E u \in Threads : Busy(u)
  BY DEF Restore, Idle, Busy
<1>2. ~Restore => objects \subseteq objects'
  BY ObjectsStep
<1>3. ASSUME ~Restore PROVE Whole(db', objects) /\ db.chunks \subseteq db'.chunks
  <2>1. ASSUME NEW t \in Threads, Saves(t) PROVE Whole(db', objects) /\ db.chunks \subseteq db'.chunks
    <3>1. op[t] \in Requests /\ IdOf(op[t]) \in Ids /\ op[t].at = "writing" /\ Relies(op[t])
      BY <2>1 DEF Saves, Typed, OpOK, Aware, Saving, WholeOK
    <3>2. SavedAs(db, db', op[t])
      BY <2>1 DEF Saves
    <3>3. QED
      BY <3>1, <3>2, SavedWhole DEF Typed, WholeOK
  <2>2. CASE db' = db
    BY <2>2 DEF WholeOK
  <2>3. QED
    BY <1>3, <2>1, <2>2, VectorWhole, RetiredWhole, TablesStep
<1>4. ASSUME Restore PROVE Whole(db', objects')
  <2>1. saved # Nothing /\ db' = saved.db /\ (objects' = saved.objects \/ objects' = objects)
    BY <1>4 DEF Restore
  <2>2. Whole(saved.db, saved.objects)
    BY <2>1 DEF WholeOK
  <2>3. ~restored
    BY <1>4, Zenon DEF Restore
  <2>4. saved.objects \subseteq objects
    BY <2>1, <2>3 DEF WholeOK
  <2>5. QED
    BY <2>1, <2>2, <2>4, MoreObjects
<1>5. QED
  BY <1>1, <1>2, <1>3, <1>4, MoreObjects

LEMMA ReliesNext ==
  ASSUME Typed, NumbersOK, WholeOK, [Next]_vars, NEW u \in Threads
  PROVE  Relies(op[u])'
<1>1. op[u] \in Requests /\ Aware(op[u]) /\ Relies(op[u])
  BY DEF Typed, OpOK, WholeOK
<1>2. Busy(u) => objects \subseteq objects' /\ db.chunks \subseteq db'.chunks
  BY StoreGrows
<1>3. ASSUME op'[u].at \in {"idle", "received", "retiring", "running", "ending"},
             op'[u].at = "running" => op'[u].todo \subseteq db'.chunks
      PROVE  Relies(op[u])'
  BY <1>3 DEF Relies
<1>4. ASSUME op'[u] = op[u] PROVE Relies(op[u])'
  <2>1. CASE Busy(u)
    BY <1>1, <1>2, <1>4, <2>1 DEF Relies, IdOf
  <2>2. CASE ~Busy(u)
    BY <1>3, <1>4, <2>2 DEF Busy
  <2>3. QED
    BY <2>1, <2>2
<1>5. ASSUME NEW t \in Threads, Submit(t) PROVE Relies(op[u])'
  <2>1. CASE t = u
    <3>1. Fresh(op'[u]) /\ db' = db
      BY <1>5, <2>1, SubmitStep
    <3>2. QED
      BY <3>1 DEF Fresh, Relies
  <2>2. CASE t # u
    BY <1>4, <1>5, <2>2, SubmitStep
  <2>3. QED
    BY <2>1, <2>2
<1>6. ASSUME NEW t \in Threads, StartOperation(t) PROVE Relies(op[u])'
  <2>1. CASE t = u
    <3>1. op'[u] = [op[u] EXCEPT !.at = Begins[op[u].kind]] /\ op'[u].at \in {"retiring", "received", "running"}
          /\ op[u].at = "accepted" /\ db' = db
      BY <1>6, <2>1, StartStep DEF StartOperation
    <3>2. op'[u].todo = op[u].todo
      BY <1>1, <3>1 DEF Requests
    <3>3. QED
      BY <1>1, <1>3, <3>1, <3>2 DEF Relies
  <2>2. CASE t # u
    <3>1. \A w \in Threads \ {t} : op'[w] = op[w]
      BY <1>6, StartStep
    <3>2. QED
      BY <1>4, <2>2, <3>1
  <2>3. QED
    BY <2>1, <2>2
<1>7. ASSUME NEW t \in Threads, NEW outcome \in Statuses, End(t, outcome),
             op[t].at \in Saving \cup {"retiring", "running", "persisting"}
      PROVE  Relies(op[u])'
  <2>1. CASE t = u
    <3>1. op'[u] = Ended(op[u], outcome)
      BY <1>7, <2>1, EndStep DEF Typed
    <3>2. op'[u].at \in {"idle", "ending"}
      BY <1>1, <3>1 DEF Ended, NoOp, Requests
    <3>3. QED
      BY <1>3, <3>2
  <2>2. CASE t # u
    BY <1>4, <1>7, <2>2, EndStep DEF Typed
  <2>3. QED
    BY <2>1, <2>2
<1>8. ASSUME NEW t \in Threads, FinishOperation(t) \/ Fails(t) \/ Retire(t) \/ RunEnds(t) \/ Write(t)
      PROVE  Relies(op[u])'
  <2>1. CASE FinishOperation(t)
    <3>1. op' = [op EXCEPT ![t] = NoOp]
      BY <2>1 DEF FinishOperation
    <3>2. CASE t = u
      BY <1>3, <3>1, <3>2 DEF Typed, OpOK, NoOp
    <3>3. CASE t # u
      BY <1>4, <3>1, <3>3 DEF Typed, OpOK
    <3>4. QED
      BY <3>2, <3>3
  <2>2. CASE Fails(t)
    BY <1>7, <2>2 DEF Fails, Saving, Statuses
  <2>3. CASE Retire(t)
    BY <1>7, <2>3 DEF Retire, Statuses
  <2>4. CASE RunEnds(t)
    BY <1>7, <2>4 DEF RunEnds, Statuses
  <2>5. CASE Write(t)
    BY <1>7, <2>5 DEF Write, Saving, Statuses
  <2>6. QED
    BY <1>8, <2>1, <2>2, <2>3, <2>4, <2>5
<1>9. ASSUME NEW t \in Threads, Put(t) PROVE Relies(op[u])'
  <2>1. op'[t] = [op[t] EXCEPT !.at = "put"] /\ op'[t].at = "put" /\ \A w \in Threads \ {t} : op'[w] = op[w]
    BY <1>9, SavingStep DEF Put, Saving
  <2>2. CASE t = u
    <3>1. op'[u].content = op[u].content
      BY <1>1, <2>1, <2>2 DEF Requests
    <3>2. QED
      BY <1>9, <2>1, <2>2, <3>1 DEF Put, Relies
  <2>3. QED
    BY <1>4, <2>1, <2>2
<1>10. ASSUME NEW t \in Threads, TakeNumber(t) PROVE Relies(op[u])'
  <2>1. /\ op'[t] = [op[t] EXCEPT !.at = "numbered", !.number = NextNumber(op[t].source, op[t].content)]
        /\ op'[t].at = "numbered" /\ \A w \in Threads \ {t} : op'[w] = op[w]
    BY <1>10, NumberStep
  <2>2. CASE t = u
    <3>1. op'[u].content = op[u].content
      BY <1>1, <2>1, <2>2 DEF Requests
    <3>2. op[u].content \in objects /\ objects' = objects
      BY <1>1, <1>10, <2>2 DEF TakeNumber, Relies
    <3>3. QED
      BY <2>1, <2>2, <3>1, <3>2 DEF Relies
  <2>3. QED
    BY <1>4, <2>1, <2>2
<1>11. ASSUME NEW t \in Threads, Embed(t) PROVE Relies(op[u])'
  <2>1. /\ EmbeddedIn(op'[t], ChunksOf(IdOf(op[t])), active) /\ op'[t].at = "embedded"
        /\ IdOf(op'[t]) = IdOf(op[t]) /\ \A w \in Threads \ {t} : op'[w] = op[w]
    BY <1>11, EmbedStep DEF Embed
  <2>2. CASE t = u
    <3>1. op'[u].content = op[u].content
      BY <2>1, <2>2 DEF IdOf
    <3>2. op[u].content \in objects /\ objects' = objects
      BY <1>1, <1>11, <2>2 DEF Embed, Relies
    <3>3. IdOf(op[u])' = IdOf(op[u])
      BY <2>1, <2>2 DEF IdOf
    <3>4. /\ op'[u].made \subseteq ChunksOf(IdOf(op[u])) \X Spaces
          /\ \A c \in ChunksOf(IdOf(op[u])) : \E m \in op'[u].made : m[1] = c
      BY <2>1, <2>2 DEF EmbeddedIn
    <3>5. QED
      BY <2>1, <2>2, <3>1, <3>2, <3>3, <3>4 DEF Relies
  <2>3. QED
    BY <1>4, <2>1, <2>2
<1>12. ASSUME NEW t \in Threads, Look(t) PROVE Relies(op[u])'
  <2>1. CASE End(t, "complete")
    BY <1>7, <1>12, <2>1 DEF Look, Saving, Statuses
  <2>2. CASE Goto(t, "writing")
    <3>1. op'[t] = [op[t] EXCEPT !.at = "writing"] /\ op'[t].at = "writing" /\ \A w \in Threads \ {t} : op'[w] = op[w]
      BY <1>12, <2>2, SavingStep DEF Look, Saving
    <3>2. CASE t = u
      <4>1. op'[u].content = op[u].content /\ op'[u].made = op[u].made /\ IdOf(op[u])' = IdOf(op[u])
        BY <1>1, <3>1, <3>2 DEF Requests, IdOf
      <4>2. op[u].at = "embedded" /\ objects' = objects
        BY <1>12, <3>2 DEF Look
      <4>3. QED
        BY <1>1, <3>1, <3>2, <4>1, <4>2 DEF Relies
    <3>3. QED
      BY <1>4, <3>1, <3>2
  <2>3. QED
    BY <1>12, <2>1, <2>2 DEF Look
<1>13. ASSUME NEW t \in Threads, RunStarts(t) PROVE Relies(op[u])'
  <2> DEFINE open == op[t].todo \ migration[op[t].target].completed
  <2>1. /\ EmbeddedIn(op'[t], open, op[t].target) /\ op'[t].at = "persisting"
        /\ op'[t].todo = op[t].todo /\ \A w \in Threads \ {t} : op'[w] = op[w]
    BY <1>13, RunStartsStep
  <2>2. CASE t = u
    <3>1. op[u].todo \subseteq db.chunks /\ db' = db
      BY <1>1, <1>13, <2>2 DEF RunStarts, Relies
    <3>2. \A m \in op'[u].made : m[1] \in op[u].todo
      BY <2>1, <2>2 DEF EmbeddedIn
    <3>3. QED
      BY <2>1, <2>2, <3>1, <3>2 DEF Relies
  <2>3. QED
    BY <1>4, <2>1, <2>2
<1>14. ASSUME NEW t \in Threads, Persist(t) PROVE Relies(op[u])'
  <2>1. PICK m \in op[t].made : op'[t] = [op[t] EXCEPT !.done = op[t].done \cup {m[1]}]
                                /\ \A w \in Threads \ {t} : op'[w] = op[w]
    BY <1>14, PersistStep
  <2>2. CASE t = u
    <3>1. op'[u].at = op[u].at /\ op'[u].made = op[u].made /\ op'[u].todo = op[u].todo /\ op[u].at = "persisting"
      BY <1>1, <1>14, <2>1, <2>2 DEF Requests, Persist
    <3>2. db.chunks \subseteq db'.chunks
      BY <1>2, <3>1 DEF Busy
    <3>3. QED
      BY <1>1, <3>1, <3>2 DEF Relies
  <2>3. QED
    BY <1>4, <2>1, <2>2
<1>15. ASSUME Restart PROVE Relies(op[u])'
  <2>1. op'[u] = NoOp
    BY <1>15 DEF Restart
  <2>2. QED
    BY <1>3, <2>1 DEF NoOp
<1>16. Backup \/ Restore => op' = op
  BY DEF Backup, Restore
<1>17. ASSUME NEW space \in Spaces, Activate(space) PROVE op' = op
  BY <1>17 DEF Activate
<1>18. UNCHANGED vars => op' = op
  BY DEF vars
<1>19. QED
  BY <1>4, <1>5, <1>6, <1>8, <1>9, <1>10, <1>11, <1>12, <1>13, <1>14, <1>15, <1>16, <1>17, <1>18 DEF Next, Step

LEMMA RestoredStep ==
  ASSUME Typed, [Next]_vars, ~Restore
  PROVE  restored' = restored
<1>1. ASSUME NEW t \in Threads, Submit(t) PROVE restored' = restored
  BY <1>1, SubmitStep DEF backup
<1>2. ASSUME NEW t \in Threads, Step(t) PROVE restored' = restored
  BY <1>2 DEF Step, StartOperation, FinishOperation, Fails, Put, TakeNumber, Embed, Look, Write, Retire,
     RunStarts, Persist, RunEnds, backup
<1>3. Backup \/ Restart => restored' = restored
  BY DEF Backup, Restart, backup
<1>4. ASSUME NEW space \in Spaces, Activate(space) PROVE restored' = restored
  BY <1>4 DEF Activate, backup
<1>5. UNCHANGED vars => restored' = restored
  BY DEF vars, backup
<1>6. QED
  BY <1>1, <1>2, <1>3, <1>4, <1>5 DEF Next

LEMMA WholeNext ==
  ASSUME Typed, NumbersOK, WholeOK, [Next]_vars
  PROVE  WholeOK'
<1>1. (saved # Nothing => Whole(saved.db, saved.objects))'
      /\ (saved # Nothing /\ ~restored => saved.objects \subseteq objects)'
  <2>1. CASE Backup
    BY <2>1 DEF Backup, WholeOK, Whole, StoredIn
  <2>2. CASE Restore
    <3>1. saved' = saved /\ restored'
      BY <2>2 DEF Restore
    <3>2. QED
      BY <3>1 DEF WholeOK, Whole, StoredIn
  <2>3. CASE saved' = saved /\ ~Restore
    <3>1. objects \subseteq objects'
      BY <2>3, ObjectsStep
    <3>2. restored' = restored
      BY <2>3, RestoredStep
    <3>3. QED
      BY <2>3, <3>1, <3>2 DEF WholeOK, Whole, StoredIn
  <2>4. QED
    BY <2>1, <2>2, <2>3, BackupStep
<1>2. QED
  BY <1>1, ReliesNext, StoreGrows DEF WholeOK, Whole, StoredIn

LEMMA WholeInit ==
  ASSUME Init
  PROVE  WholeOK
<1>1. \A t \in Threads : op[t].at = "idle"
  BY DEF Init, NoOp
<1>2. \A t \in Threads : Relies(op[t])
  BY <1>1 DEF Relies
<1>3. Whole(db, objects)
  BY DEF Init, Whole
<1>4. QED
  BY <1>2, <1>3 DEF Init, WholeOK

LEMMA WholeMeans ==
  ASSUME Typed, NumbersOK, WholeOK
  PROVE  BundleWhole
<1>1. ASSUME NEW s \in Sources, NEW row \in Rows(s)
      PROVE  /\ db.sources[s] # Nothing
             /\ row.id = <<s, row.content, row.parser>>
             /\ row.content \in objects
             /\ <<row.content, row.parser>> \in db.artifacts
             /\ ChunksOf(row.id) \subseteq db.chunks
  <2>1. PICK i \in DOMAIN db.versions[s] : row = db.versions[s][i]
    BY <1>1 DEF Rows, RowsIn
  <2>2. row.id = <<s, row.content, row.parser>>
    BY <2>1 DEF NumbersOK, RowsOK
  <2>3. QED
    BY <2>1, <2>2 DEF WholeOK, Whole
<1>2. ASSUME NEW c \in db.chunks PROVE Stored(c[1]) /\ \E v \in db.vectors : v.chunk = c
  BY SMTT(30) DEF WholeOK, Whole, StoredIn, Stored, Rows, RowsIn
<1>3. QED
  BY <1>1, <1>2 DEF BundleWhole, WholeOK, Whole

\* Whatever fails, dies or interleaves, the store holds whole bundles, and
\* nothing in it belongs to none; also after a restore.
THEOREM BundlesStayWhole == Spec => []BundleWhole
<1>1. Init => Typed /\ NumbersOK /\ WholeOK
  BY TypedInit, WholeInit
<1>2. Typed /\ NumbersOK /\ WholeOK /\ [Next]_vars => (Typed /\ NumbersOK /\ WholeOK)'
  BY TypedNext, NumbersNext, WholeNext
<1>3. Typed /\ NumbersOK /\ WholeOK => BundleWhole
  BY WholeMeans
<1>4. QED
  BY <1>1, <1>2, <1>3, PTL DEF Spec

-----------------------------------------------------------------------------
(* What a search sees.                                                     *)

Own(d) == \A v \in d.vectors : MayStand(v.by, v.space)

Seen(d) == \A c \in d.chunks : \E v \in d.vectors : v.chunk = c /\ v.space \in Homes(Preferred)

Embedding(o) == o.at \in {"embedded", "writing", "persisting"}

LabelOwn(o) == Embedding(o) => \A m \in o.made : MayStand(m[2], o.label)

LabelPreferred(o) == o.at \in {"embedded", "writing"} => o.label \in Homes(Preferred)

Steady == ~switched

\* A vector stands where it may, and until the active space is switched, every
\* chunk has one in the preferred space or, where something falls back, in that
\* of the CPU.
VectorsOK ==
    /\ Own(db) /\ (saved # Nothing => Own(saved.db))
    /\ \A t \in Threads : LabelOwn(op[t])
    /\ Steady => /\ active = Preferred
                 /\ Seen(db) /\ (saved # Nothing => Seen(saved.db))
                 /\ \A t \in Threads : LabelPreferred(op[t])

LEMMA LabelMoves ==
  ASSUME Typed, NumbersOK, [Next]_vars, NEW u \in Threads, Embedding(op'[u])
  PROVE  \/ Embed(u) \/ RunStarts(u)
         \/ /\ Embedding(op[u]) /\ (op[u].at = "persisting" <=> op'[u].at = "persisting")
            /\ op'[u].label = op[u].label /\ op'[u].made = op[u].made
<1> DEFINE Goal == \/ Embed(u) \/ RunStarts(u)
                   \/ /\ Embedding(op[u]) /\ (op[u].at = "persisting" <=> op'[u].at = "persisting")
                      /\ op'[u].label = op[u].label /\ op'[u].made = op[u].made
<1>1. op[u] \in Requests
  BY DEF Typed, OpOK
<1>2. op'[u] = op[u] => Goal
  BY DEF Embedding
<1>3. ASSUME NEW t \in Threads, Submit(t) PROVE Goal
  <2>1. CASE t = u
    BY <1>3, <2>1, SubmitStep DEF Fresh, Embedding
  <2>2. CASE t # u
    BY <1>2, <1>3, <2>2, SubmitStep
  <2>3. QED
    BY <2>1, <2>2
<1>4. ASSUME NEW t \in Threads, StartOperation(t) PROVE Goal
  <2>1. op'[t].at \in {"retiring", "received", "running"} /\ \A w \in Threads \ {t} : op'[w] = op[w]
    BY <1>4, StartStep
  <2>2. QED
    BY <1>2, <2>1 DEF Embedding
<1>5. ASSUME NEW t \in Threads, NEW outcome \in Statuses, End(t, outcome),
             op[t].at \in Saving \cup {"retiring", "running", "persisting"}
      PROVE  Goal
  <2>1. op'[t] = Ended(op[t], outcome) /\ op[t] \in Requests /\ \A w \in Threads \ {t} : op'[w] = op[w]
    BY <1>5, EndStep DEF Typed, OpOK
  <2>2. op'[t].at \in {"idle", "ending"}
    BY <2>1 DEF Ended, NoOp, Requests
  <2>3. QED
    BY <1>2, <2>1, <2>2 DEF Embedding
<1>6. ASSUME NEW t \in Threads, FinishOperation(t) \/ Fails(t) \/ Retire(t) \/ RunEnds(t) \/ Write(t) PROVE Goal
  <2>1. CASE FinishOperation(t)
    <3>1. op' = [op EXCEPT ![t] = NoOp]
      BY <2>1 DEF FinishOperation
    <3>2. CASE t = u
      BY <3>1, <3>2 DEF Typed, OpOK, NoOp, Embedding
    <3>3. CASE t # u
      BY <1>2, <3>1, <3>3 DEF Typed, OpOK
    <3>4. QED
      BY <3>2, <3>3
  <2>2. CASE Fails(t)
    BY <1>5, <2>2 DEF Fails, Saving, Statuses
  <2>3. CASE Retire(t)
    BY <1>5, <2>3 DEF Retire, Statuses
  <2>4. CASE RunEnds(t)
    BY <1>5, <2>4 DEF RunEnds, Statuses
  <2>5. CASE Write(t)
    BY <1>5, <2>5 DEF Write, Saving, Statuses
  <2>6. QED
    BY <1>6, <2>1, <2>2, <2>3, <2>4, <2>5
<1>7. ASSUME NEW t \in Threads, Put(t) PROVE Goal
  <2>1. op'[t].at = "put" /\ \A w \in Threads \ {t} : op'[w] = op[w]
    BY <1>7, SavingStep DEF Put, Saving
  <2>2. QED
    BY <1>2, <2>1 DEF Embedding
<1>8. ASSUME NEW t \in Threads, TakeNumber(t) PROVE Goal
  <2>1. op'[t].at = "numbered" /\ \A w \in Threads \ {t} : op'[w] = op[w]
    BY <1>8, NumberStep
  <2>2. QED
    BY <1>2, <2>1 DEF Embedding
<1>9. ASSUME NEW t \in Threads, Embed(t) PROVE Goal
  BY <1>2, <1>9, EmbedStep DEF Embed
<1>10. ASSUME NEW t \in Threads, Look(t) PROVE Goal
  <2>1. CASE End(t, "complete")
    BY <1>5, <1>10, <2>1 DEF Look, Saving, Statuses
  <2>2. CASE Goto(t, "writing")
    <3>1. op'[t] = [op[t] EXCEPT !.at = "writing"] /\ op[t].at = "embedded" /\ \A w \in Threads \ {t} : op'[w] = op[w]
      BY <1>10, <2>2, SavingStep DEF Look, Saving
    <3>2. op[u] \in Requests /\ (t = u => op'[u].at = "writing" /\ op'[u].label = op[u].label /\ op'[u].made = op[u].made)
      BY <1>1, <3>1 DEF Requests
    <3>3. QED
      BY <1>2, <3>1, <3>2 DEF Embedding
  <2>3. QED
    BY <1>10, <2>1, <2>2 DEF Look
<1>11. ASSUME NEW t \in Threads, RunStarts(t) PROVE Goal
  <2>1. \A w \in Threads \ {t} : op'[w] = op[w]
    BY <1>11, RunStartsStep
  <2>2. QED
    BY <1>2, <1>11, <2>1
<1>12. ASSUME NEW t \in Threads, Persist(t) PROVE Goal
  <2>1. PICK m \in op[t].made : op'[t] = [op[t] EXCEPT !.done = op[t].done \cup {m[1]}]
                                /\ \A w \in Threads \ {t} : op'[w] = op[w]
    BY <1>12, PersistStep
  <2>2. t = u => op'[u].at = op[u].at /\ op'[u].label = op[u].label /\ op'[u].made = op[u].made
    BY <1>1, <2>1 DEF Requests
  <2>3. op[t].at = "persisting"
    BY <1>12 DEF Persist
  <2>4. QED
    BY <1>2, <2>1, <2>2, <2>3 DEF Embedding
<1>13. Restart => FALSE
  BY DEF Restart, NoOp, Embedding
<1>14. Backup \/ Restore => op' = op
  BY DEF Backup, Restore
<1>15. ASSUME NEW space \in Spaces, Activate(space) PROVE op' = op
  BY <1>15 DEF Activate
<1>16. UNCHANGED vars => op' = op
  BY DEF vars
<1>17. QED
  BY <1>2, <1>3, <1>4, <1>6, <1>7, <1>8, <1>9, <1>10, <1>11, <1>12, <1>13, <1>14, <1>15, <1>16 DEF Next, Step

LEMMA SteadyStep ==
  ASSUME Typed, [Next]_vars, Steady => active = Preferred, Steady'
  PROVE  Steady /\ active' = Preferred
<1>0. fallback' = fallback /\ worker' = worker
  BY BackupStep DEF deployment
<1>1. ASSUME NEW t \in Threads, Submit(t) PROVE UNCHANGED <<active, switched>>
  BY <1>1, SubmitStep DEF spaces
<1>2. ASSUME NEW t \in Threads, Step(t) PROVE UNCHANGED <<active, switched>>
  BY <1>2 DEF Step, StartOperation, FinishOperation, Fails, Put, TakeNumber, Embed, Look, Write, Retire,
     RunStarts, Persist, RunEnds, spaces
<1>3. Backup \/ Restore \/ UNCHANGED vars => UNCHANGED <<active, switched>>
  BY DEF Backup, Restore, vars, spaces
<1>4. Restart => active' = Preferred /\ switched' = switched
  BY DEF Restart
<1>5. ASSUME NEW space \in Spaces, Activate(space) PROVE Steady /\ active' = Preferred
  <2>1. active' = space /\ switched' = (switched \/ space # active)
    BY <1>5 DEF Activate
  <2>2. ~switched /\ space = active
    BY <2>1, Zenon DEF Steady
  <2>3. QED
    BY <1>0, <2>1, <2>2 DEF Steady
<1>6. switched' = switched => Steady
  BY <1>0 DEF Steady
<1>7. QED
  BY <1>1, <1>2, <1>3, <1>4, <1>5, <1>6 DEF Next

LEMMA VectorsTables ==
  ASSUME Typed, NumbersOK, WholeOK, VectorsOK, [Next]_vars
  PROVE  Own(db') /\ (Steady => Seen(db'))
<1>1. ASSUME NEW t \in Threads, Saves(t) PROVE Own(db') /\ (Steady => Seen(db'))
  <2> DEFINE b == op[t]
  <2>1. /\ b.at = "writing" /\ Relies(b) /\ LabelOwn(b) /\ (Steady => b.label \in Homes(Preferred))
        /\ db'.chunks = db.chunks \cup ChunksOf(IdOf(b)) /\ db'.vectors = VectorsWith(db, b)
    <3>1. b.at = "writing" /\ Relies(b) /\ LabelOwn(b)
      BY <1>1 DEF Saves, WholeOK, VectorsOK
    <3>2. Steady => b.label \in Homes(Preferred)
      BY <3>1 DEF VectorsOK, LabelPreferred
    <3>3. QED
      BY <1>1, <3>1, <3>2 DEF Saves, SavedAs, Tables
  <2> HIDE DEF b
  <2>2. \A m \in b.made : MayStand(m[2], b.label)
    BY <2>1 DEF LabelOwn, Embedding
  <2>3. \A c \in ChunksOf(IdOf(b)) : \E m \in b.made : m[1] = c
    BY <2>1 DEF Relies
  <2>4. Own(db')
    BY <2>1, <2>2 DEF VectorsWith, VectorsOK, Own
  <2>5. ASSUME Steady, NEW c \in db'.chunks PROVE \E v \in db'.vectors : v.chunk = c /\ v.space \in Homes(Preferred)
    <3>1. CASE c \in ChunksOf(IdOf(b))
      <4>1. PICK m \in b.made : m[1] = c
        BY <2>3, <3>1
      <4>2. [chunk |-> m[1], space |-> b.label, by |-> m[2]] \in db'.vectors
        BY <2>1 DEF VectorsWith
      <4>3. QED
        BY <2>1, <2>5, <4>1, <4>2
    <3>2. CASE c \notin ChunksOf(IdOf(b))
      <4>1. PICK v \in db.vectors : v.chunk = c /\ v.space \in Homes(Preferred)
        BY <2>1, <2>5, <3>2 DEF VectorsOK, Seen
      <4>2. v \in db'.vectors
        BY <2>1, <3>2, <4>1 DEF VectorsWith
      <4>3. QED
        BY <4>1, <4>2
    <3>3. QED
      BY <3>1, <3>2
  <2>6. QED
    BY <2>4, <2>5 DEF Seen
<1>2. ASSUME NEW t \in Threads, Persists(t) PROVE Own(db') /\ (Steady => Seen(db'))
  <2>1. PICK m \in op[t].made :
          /\ op[t].at = "persisting" /\ m[1] \in Chunks /\ m[2] \in Spaces
          /\ db' = UpsertEmbedding(db, m[1], op[t].label, m[2])
    BY <1>2 DEF Persists
  <2>2. op[t].label \in Spaces /\ MayStand(m[2], op[t].label)
    BY <2>1 DEF Typed, OpOK, Aware, VectorsOK, LabelOwn, Embedding
  <2> DEFINE new == [chunk |-> m[1], space |-> op[t].label, by |-> m[2]]
  <2>3. /\ db'.chunks = db.chunks
        /\ db'.vectors = {v \in db.vectors : v.chunk # m[1] \/ v.space # op[t].label} \cup {new}
    BY <2>1, <2>2, EmbeddingTables DEF Typed, Tables
  <2>4. new.chunk = m[1] /\ new.space = op[t].label /\ new.by = m[2]
    OBVIOUS
  <2> HIDE DEF new
  <2>5. Own(db')
    BY <2>2, <2>3, <2>4 DEF Own, VectorsOK
  <2>6. ASSUME Steady, NEW c \in db'.chunks PROVE \E v \in db'.vectors : v.chunk = c /\ v.space \in Homes(Preferred)
    <3>1. PICK v \in db.vectors : v.chunk = c /\ v.space \in Homes(Preferred)
      BY <2>3, <2>6 DEF VectorsOK, Seen
    <3>2. CASE v \in db'.vectors
      BY <3>1, <3>2
    <3>3. CASE v \notin db'.vectors
      <4>1. v.chunk = m[1] /\ v.space = op[t].label
        BY <2>3, <3>1, <3>3
      <4>2. QED
        BY <2>3, <2>4, <3>1, <4>1
    <3>4. QED
      BY <3>2, <3>3
  <2>7. QED
    BY <2>5, <2>6 DEF Seen
<1>3. ASSUME NEW t \in Threads, Retires(t) PROVE db'.chunks = db.chunks /\ db'.vectors = db.vectors
  BY <1>3, RetiredTables DEF Retires, Typed, Tables
<1>4. CASE Restore
  <2>1. saved # Nothing /\ db' = saved.db
    BY <1>4 DEF Restore
  <2>2. QED
    BY <2>1 DEF VectorsOK, Own, Seen
<1>5. CASE db'.chunks = db.chunks /\ db'.vectors = db.vectors
  BY <1>5 DEF VectorsOK, Own, Seen
<1>6. QED
  BY <1>1, <1>2, <1>3, <1>4, <1>5, TablesStep

LEMMA VectorsNext ==
  ASSUME Typed, NumbersOK, WholeOK, VectorsOK, [Next]_vars
  PROVE  VectorsOK'
<1>0. fallback' = fallback /\ worker' = worker
  BY BackupStep DEF deployment
<1>1. Own(db') /\ (Steady => Seen(db'))
  BY VectorsTables
<1>2. Steady' => Steady /\ active' = Preferred
  BY SteadyStep DEF VectorsOK
<1>3. (saved' # Nothing => Own(saved'.db)) /\ (Steady => (saved' # Nothing => Seen(saved'.db)))
  <2>1. CASE saved' = saved
    BY <2>1 DEF VectorsOK
  <2>2. CASE Backup
    BY <2>2 DEF Backup, VectorsOK
  <2>3. QED
    BY <2>1, <2>2, BackupStep
<1>4. ASSUME NEW u \in Threads PROVE LabelOwn(op'[u]) /\ (Steady => LabelPreferred(op'[u]))
  <2>1. CASE ~Embedding(op'[u])
    BY <2>1 DEF LabelOwn, LabelPreferred, Embedding
  <2>2. ASSUME Embed(u), Embedding(op'[u]) PROVE LabelOwn(op'[u]) /\ (Steady => LabelPreferred(op'[u]))
    <3>1. EmbeddedIn(op'[u], ChunksOf(IdOf(op[u])), active)
      BY <2>2, EmbedStep DEF Embed
    <3>2. \A m \in op'[u].made : MayStand(m[2], op'[u].label)
      BY <3>1 DEF EmbeddedIn
    <3>3. Steady => op'[u].label \in Homes(Preferred)
      BY <3>1 DEF EmbeddedIn, Steady, VectorsOK
    <3>4. QED
      BY <3>2, <3>3 DEF LabelOwn, LabelPreferred
  <2>3. ASSUME RunStarts(u), Embedding(op'[u]) PROVE LabelOwn(op'[u]) /\ (Steady => LabelPreferred(op'[u]))
    <3> DEFINE open == op[u].todo \ migration[op[u].target].completed
    <3>1. EmbeddedIn(op'[u], open, op[u].target) /\ op'[u].at = "persisting"
      BY <2>3, RunStartsStep
    <3>2. \A m \in op'[u].made : MayStand(m[2], op'[u].label)
      BY <3>1 DEF EmbeddedIn
    <3>3. QED
      BY <3>1, <3>2 DEF LabelOwn, LabelPreferred
  <2>4. CASE /\ Embedding(op[u]) /\ (op[u].at = "persisting" <=> op'[u].at = "persisting")
             /\ op'[u].label = op[u].label /\ op'[u].made = op[u].made
    <3>1. LabelOwn(op[u]) /\ (Steady => LabelPreferred(op[u]))
      BY DEF VectorsOK
    <3>2. QED
      BY <2>4, <3>1 DEF LabelOwn, LabelPreferred, Embedding
  <2>5. QED
    BY <2>1, <2>2, <2>3, <2>4, LabelMoves
<1>5. Own(db)' /\ (saved # Nothing => Own(saved.db))'
  BY <1>0, <1>1, <1>3 DEF Own, MayStand
<1>6. \A u \in Threads : LabelOwn(op[u])'
  BY <1>0, <1>4 DEF LabelOwn, Embedding, MayStand
<1>7. Steady' => (/\ active = Preferred
                  /\ Seen(db) /\ (saved # Nothing => Seen(saved.db))
                  /\ \A u \in Threads : LabelPreferred(op[u]))'
  BY <1>0, <1>1, <1>2, <1>3, <1>4 DEF Seen, LabelPreferred, Homes
<1>8. QED
  BY <1>5, <1>6, <1>7 DEF VectorsOK

LEMMA VectorsInit ==
  ASSUME Init
  PROVE  VectorsOK
<1>1. \A t \in Threads : op[t].at = "idle"
  BY DEF Init, NoOp
<1>2. \A t \in Threads : LabelOwn(op[t]) /\ LabelPreferred(op[t])
  BY <1>1 DEF LabelOwn, LabelPreferred, Embedding
<1>3. Own(db) /\ Seen(db) /\ active = Preferred /\ saved = Nothing
  BY DEF Init, Own, Seen
<1>4. QED
  BY <1>2, <1>3 DEF VectorsOK

LEMMA VectorsMean ==
  ASSUME Typed, WholeOK, VectorsOK
  PROVE  NoneHidden
<1>1. \A v \in db.vectors : MayStand(v.by, v.space)
  BY DEF VectorsOK, Own
<1>2. ASSUME ~switched PROVE db.chunks = UNION {Searchable(space) : space \in Homes(active)}
  <2>1. Seen(db) /\ active = Preferred
    BY <1>2 DEF VectorsOK, Steady
  <2>2. \A v \in db.vectors : v.chunk \in db.chunks
    BY DEF WholeOK, Whole
  <2>3. QED
    BY <2>1, <2>2 DEF Searchable, Joined, Seen
<1>3. QED
  BY <1>1, <1>2 DEF NoneHidden

\* Until the active space is switched, no chunk is hidden from a search, or by
\* fallback of the service or of a backend only such as the space of the CPU
\* has, whichever writers, re-embeddings and restores ran; and where not both
\* fall back, no space but the CPU's holds a vector of another model.
THEOREM NothingHidden == Spec => []NoneHidden
<1> DEFINE Inv == Typed /\ NumbersOK /\ WholeOK /\ VectorsOK
<1>1. Init => Inv
  BY TypedInit, WholeInit, VectorsInit
<1>2. Inv /\ [Next]_vars => Inv'
  BY TypedNext, NumbersNext, WholeNext, VectorsNext
<1>3. Inv => NoneHidden
  BY VectorsMean
<1>4. QED
  BY <1>1, <1>2, <1>3, PTL DEF Spec

-----------------------------------------------------------------------------
(* What a recorded outcome tells.                                           *)

Covered(d, c, space) == \E v \in d.vectors : v.chunk = c /\ v.space \in {space, Cpu}

RunningRecord(o) ==
    [status |-> "running", kind |-> o.kind, id |-> IdOf(o), todo |-> o.todo, target |-> o.target]

\* While an administrative operation runs, its record says so.
Under(o, r) == o.at \notin {"idle", "accepted"} /\ o.kind # "ingest" => r = RunningRecord(o)

Reparsed(r, d) ==
    r.status = "complete" /\ r.kind = "reparse" => r.id \in Ids /\ StoredIn(d, r.id)

Reembedded(r, d) ==
    r.status = "complete" /\ r.kind = "reembed" => \A c \in r.todo : Covered(d, c, r.target)

\* What an operation about to be recorded as complete has done.
Achieved(o) ==
    o.at = "ending" /\ o.outcome = "complete" /\ o.kind = "reparse" => StoredIn(db, IdOf(o))

\* Before a restore: what a re-embedding did, or found done, is in the store.
Marked(o) ==
    /\ o.at = "persisting" => \A c \in o.done : Covered(db, c, o.target)
    /\ o.at = "ending" /\ o.outcome = "complete" /\ o.kind = "reembed" =>
          \A c \in o.todo : Covered(db, c, o.target)

Unrestored == ~restored

ToldOK ==
    /\ \A t \in Threads : /\ Under(op[t], record[t]) /\ Achieved(op[t]) /\ Reparsed(record[t], db)
                          /\ op[t].at = "persisting" => op[t].label \in {op[t].target, Cpu}
    /\ saved # Nothing => \A t \in Threads : Reparsed(saved.record[t], saved.db)
    /\ Unrestored =>
          /\ \A t \in Threads : Marked(op[t]) /\ Reembedded(record[t], db)
          /\ \A space \in Spaces : \A c \in migration[space].completed : Covered(db, c, space)

LEMMA Acts ==
  ASSUME Typed, [Next]_vars, NEW u \in Threads
  PROVE  op'[u] = op[u] \/ op'[u] = NoOp \/ Submit(u) \/ Step(u)
<1>1. ASSUME NEW t \in Threads, Submit(t) PROVE \A w \in Threads \ {t} : op'[w] = op[w]
  BY <1>1, SubmitStep
<1>2. ASSUME NEW t \in Threads, Step(t) PROVE \A w \in Threads \ {t} : op'[w] = op[w]
  BY <1>2 DEF Step, StartOperation, FinishOperation, Fails, Put, TakeNumber, Embed, Embedded, Look, Write,
     Retire, RunStarts, Persist, RunEnds, Goto, End, Typed, OpOK
<1>3. Restart => op'[u] = NoOp
  BY DEF Restart
<1>4. Backup \/ Restore => op' = op
  BY DEF Backup, Restore
<1>5. ASSUME NEW space \in Spaces, Activate(space) PROVE op' = op
  BY <1>5 DEF Activate
<1>6. UNCHANGED vars => op' = op
  BY DEF vars
<1>7. QED
  BY <1>1, <1>2, <1>3, <1>4, <1>5, <1>6 DEF Next

\* No vector goes without another of its chunk and space, and no version
\* goes, unless a backup is restored.
LEMMA StoreKeeps ==
  ASSUME Typed, NumbersOK, WholeOK, [Next]_vars, ~Restore
  PROVE  /\ \A c, space : Covered(db, c, space) => Covered(db', c, space)
         /\ \A id \in Ids : StoredIn(db, id) => StoredIn(db', id)
<1>1. ASSUME NEW t \in Threads, Saves(t)
      PROVE  /\ \A v \in db.vectors : \E w \in db'.vectors : w.chunk = v.chunk /\ w.space = v.space
             /\ \A id \in Ids : StoredIn(db, id) => StoredIn(db', id)
  <2> DEFINE b == op[t]
             rows == db.versions[b.source]
  <2>1. /\ b.at = "writing" /\ Relies(b) /\ db'.vectors = VectorsWith(db, b) /\ b.source \in Sources
    BY <1>1 DEF Saves, SavedAs, Tables, WholeOK, Typed, OpOK, Aware
  <2>2. ASSUME NEW v \in db.vectors PROVE \E w \in db'.vectors : w.chunk = v.chunk /\ w.space = v.space
    <3>1. CASE v \in db'.vectors
      BY <3>1
    <3>2. CASE v \notin db'.vectors
      <4>1. v.chunk \in ChunksOf(IdOf(b)) /\ v.space = b.label
        BY <2>1, <3>2 DEF VectorsWith
      <4>2. PICK m \in b.made : m[1] = v.chunk
        BY <2>1, <4>1 DEF Relies
      <4>3. [chunk |-> m[1], space |-> b.label, by |-> m[2]] \in db'.vectors
        BY <2>1 DEF VectorsWith
      <4>4. QED
        BY <4>1, <4>2, <4>3
    <3>3. QED
      BY <3>1, <3>2
  <2>3. ASSUME NEW r \in Sources, NEW i \in DOMAIN db.versions[r]
        PROVE  i \in DOMAIN db'.versions[r] /\ db'.versions[r][i] = db.versions[r][i]
    <3>1. CASE db'.versions = db.versions
      BY <3>1
    <3>2. CASE db'.versions = [db.versions EXCEPT ![b.source] = Append(rows, RowOf(b))]
      <4>1. CASE r # b.source
        BY <2>1, <3>2, <4>1 DEF Typed, TablesOK
      <4>2. CASE r = b.source
        <5> DEFINE more == Append(rows, RowOf(b))
        <5>1. rows \in Seq(VersionRow) /\ Len(rows) \in Nat /\ DOMAIN rows = 1..Len(rows)
          BY <2>1 DEF Typed, TablesOK
        <5>2. /\ DOMAIN more = 1..(Len(rows) + 1)
              /\ \A j \in 1..Len(rows) : more[j] = rows[j]
          <6>1. rows \in Seq(VersionRow)
            BY <5>1
          <6> HIDE DEF rows
          <6>2. QED
            BY <6>1, Appended, SMTT(30)
        <5>3. db'.versions[r] = more
          BY <2>1, <3>2, <4>2 DEF Typed, TablesOK
        <5> HIDE DEF more
        <5>4. i \in 1..Len(rows) /\ i \in 1..(Len(rows) + 1)
          BY <4>2, <5>1
        <5>5. QED
          BY <4>2, <5>2, <5>3, <5>4
      <4>3. QED
        BY <4>1, <4>2
    <3>3. QED
      BY <1>1, <3>1, <3>2 DEF Saves, SavedAs, VersionSaved
  <2>4. \A id \in Ids : StoredIn(db, id) => StoredIn(db', id)
    BY <2>3, IdsApart DEF StoredIn
  <2>5. QED
    BY <2>2, <2>4
<1>2. ASSUME NEW t \in Threads, Persists(t)
      PROVE  \A v \in db.vectors : \E w \in db'.vectors : w.chunk = v.chunk /\ w.space = v.space
  <2>1. PICK m \in op[t].made :
          /\ op[t].at = "persisting" /\ m[1] \in Chunks /\ m[2] \in Spaces
          /\ db' = UpsertEmbedding(db, m[1], op[t].label, m[2])
    BY <1>2 DEF Persists
  <2>2. op[t].label \in Spaces
    BY <2>1 DEF Typed, OpOK, Aware
  <2> DEFINE new == [chunk |-> m[1], space |-> op[t].label, by |-> m[2]]
  <2>3. db'.vectors = {v \in db.vectors : v.chunk # m[1] \/ v.space # op[t].label} \cup {new}
    BY <2>1, <2>2, EmbeddingTables DEF Typed, Tables
  <2>4. new.chunk = m[1] /\ new.space = op[t].label
    OBVIOUS
  <2> HIDE DEF new
  <2>5. ASSUME NEW v \in db.vectors PROVE \E w \in db'.vectors : w.chunk = v.chunk /\ w.space = v.space
    <3>1. CASE v \in db'.vectors
      BY <3>1
    <3>2. CASE v \notin db'.vectors
      BY <2>3, <2>4, <3>2
    <3>3. QED
      BY <3>1, <3>2
  <2>6. QED
    BY <2>5
<1>3. ASSUME NEW t \in Threads, Retires(t) PROVE db'.vectors = db.vectors
  BY <1>3, RetiredTables DEF Retires, Typed, Tables
<1>4. \A v \in db.vectors : \E w \in db'.vectors : w.chunk = v.chunk /\ w.space = v.space
  BY <1>1, <1>2, <1>3, TablesStep
<1>5. \A id \in Ids : StoredIn(db, id) => StoredIn(db', id)
  BY <1>1, TablesStep, VersionsKept DEF StoredIn
<1>6. \A c, space : Covered(db, c, space) => Covered(db', c, space)
  BY <1>4 DEF Covered
<1>7. QED
  BY <1>5, <1>6

\* A request keeps what it is about until it ends; taken up, it is one to be
\* recorded, or an ingestion.
LEMMA SameRequest ==
  ASSUME Typed, NumbersOK, [Next]_vars, NEW u \in Threads, op'[u].at # "idle"
  PROVE  /\ op[u].at # "idle" =>
              /\ op'[u].kind = op[u].kind /\ IdOf(op[u])' = IdOf(op[u])
              /\ op'[u].todo = op[u].todo /\ op'[u].target = op[u].target
         /\ op[u].at = "idle" => op'[u].at = "accepted" \/ op'[u].kind = "ingest"
<1> DEFINE Same == /\ op'[u].kind = op[u].kind /\ IdOf(op'[u]) = IdOf(op[u])
                   /\ op'[u].todo = op[u].todo /\ op'[u].target = op[u].target
<1>1. op[u] \in Requests
  BY DEF Typed, OpOK
<1>2. CASE Submit(u)
  <2>1. op[u].at = "idle"
    BY <1>2, SubmitStep
  <2>2. op'[u].at = "accepted" \/ op'[u].kind = "ingest"
    <3>1. \A r : Take(u, r) => op'[u] = r
      BY DEF Take, Typed, OpOK
    <3>2. ASSUME NEW s, NEW c, NEW p, NEW hold, Ingest(u, s, c, p, hold) PROVE op'[u].kind = "ingest"
      BY <3>1, <3>2 DEF Ingest, NoOp
    <3>3. ASSUME NEW s, RequestRetirement(u, s) PROVE op'[u].at = "accepted"
      BY <3>1, <3>3, ZenonT(30) DEF RequestRetirement, NoOp
    <3>4. ASSUME NEW s, NEW p, RequestReparse(u, s, p) PROVE op'[u].at = "accepted"
      BY <3>1, <3>4, ZenonT(30) DEF RequestReparse, NoOp
    <3>5. ASSUME NEW s, NEW space, RequestReembed(u, s, space) PROVE op'[u].at = "accepted"
      BY <3>1, <3>5 DEF RequestReembed, NoOp
    <3>6. QED
      BY <1>2, <3>2, <3>3, <3>4, <3>5 DEF Submit
  <2>3. QED
    BY <2>1, <2>2
<1>3. CASE op'[u] = NoOp
  BY <1>3 DEF NoOp
<1>4. CASE op'[u] = op[u]
  BY <1>4 DEF IdOf
<1>5. ASSUME Step(u), op'[u] # NoOp PROVE Same /\ op[u].at # "idle"
  <2>1. ASSUME NEW place, op'[u] = [op[u] EXCEPT !.at = place] PROVE Same
    BY <1>1, <2>1 DEF Requests, IdOf
  <2>2. ASSUME NEW outcome \in Statuses, End(u, outcome), op[u].at \in Saving \cup {"retiring", "running", "persisting"}
        PROVE  Same
    <3>1. op'[u] = Ended(op[u], outcome)
      BY <2>2, EndStep DEF Typed
    <3>2. op'[u] = [op[u] EXCEPT !.at = "ending", !.outcome = outcome]
      BY <1>5, <3>1 DEF Ended
    <3>3. QED
      BY <1>1, <3>2 DEF Requests, IdOf
  <2>3. CASE StartOperation(u)
    BY <2>1, <2>3, StartStep, ZenonT(30) DEF StartOperation
  <2>4. CASE FinishOperation(u)
    BY <1>1, <1>5, <2>4 DEF FinishOperation, Typed, OpOK
  <2>5. CASE Fails(u)
    BY <2>2, <2>5 DEF Fails, Saving, Statuses
  <2>6. CASE Retire(u)
    BY <2>2, <2>6 DEF Retire, Saving, Statuses
  <2>7. CASE RunEnds(u)
    BY <2>2, <2>7 DEF RunEnds, Saving, Statuses
  <2>8. CASE Write(u)
    BY <2>2, <2>8 DEF Write, Saving, Statuses
  <2>9. CASE Put(u)
    <3>1. op'[u] = [op[u] EXCEPT !.at = "put"]
      BY <2>9, SavingStep DEF Put, Saving
    <3>2. QED
      BY <2>1, <2>9, <3>1 DEF Put
  <2>10. CASE TakeNumber(u)
    <3> DEFINE n == NextNumber(op[u].source, op[u].content)
    <3>1. op'[u] = [op[u] EXCEPT !.at = "numbered", !.number = n]
      BY <2>10, NumberStep
    <3> HIDE DEF n
    <3> DEFINE r == [op[u] EXCEPT !.at = "numbered", !.number = n]
    <3>2. /\ r.kind = op[u].kind /\ r.todo = op[u].todo /\ r.target = op[u].target
          /\ r.source = op[u].source /\ r.content = op[u].content /\ r.parser = op[u].parser
      BY <1>1 DEF Requests
    <3>3. op[u].at # "idle"
      BY <2>10 DEF TakeNumber
    <3> HIDE DEF r
    <3>4. op'[u] = r
      BY <3>1 DEF r
    <3>5. QED
      BY <3>2, <3>3, <3>4 DEF IdOf
  <2>11. CASE Embed(u)
    BY <2>11, EmbedStep DEF Embed
  <2>12. CASE Look(u)
    <3>1. CASE End(u, "complete")
      BY <2>2, <2>12, <3>1 DEF Look, Saving, Statuses
    <3>2. CASE Goto(u, "writing")
      <4>1. op'[u] = [op[u] EXCEPT !.at = "writing"]
        BY <2>12, <3>2, SavingStep DEF Look, Saving
      <4>2. QED
        BY <2>1, <2>12, <4>1 DEF Look
    <3>3. QED
      BY <2>12, <3>1, <3>2 DEF Look
  <2>13. CASE RunStarts(u)
    BY <2>13, RunStartsStep DEF RunStarts
  <2>14. CASE Persist(u)
    <3>1. PICK m \in op[u].made : op'[u] = [op[u] EXCEPT !.done = op[u].done \cup {m[1]}]
      BY <2>14, PersistStep, ZenonT(30)
    <3>2. QED
      BY <1>1, <2>14, <3>1 DEF Persist, Requests, IdOf
  <2>15. QED
    BY <1>5, <2>3, <2>4, <2>5, <2>6, <2>7, <2>8, <2>9, <2>10, <2>11, <2>12, <2>13, <2>14 DEF Step, StartOperation,
       FinishOperation, Fails, Retire, RunEnds, Write
<1>6. IdOf(op[u])' = IdOf(op'[u])
  BY DEF IdOf
<1>7. QED
  BY <1>2, <1>3, <1>4, <1>5, <1>6, Acts

\* How an operation comes to its end.
LEMMA EndingMoves ==
  ASSUME Typed, NumbersOK, [Next]_vars, NEW u \in Threads,
         op'[u].at = "ending", op'[u].outcome = "complete", op'[u] # op[u]
  PROVE  \/ op'[u].kind = "retire"
         \/ Look(u) /\ Stored(IdOf(op[u]))
         \/ Write(u) /\ SavedAs(db, db', op[u])
         \/ RunEnds(u)
<1>1. op[u] \in Requests /\ Aware(op[u])
  BY DEF Typed, OpOK
<1>2. ~Submit(u) /\ op'[u] # NoOp
  BY SubmitStep DEF Fresh, NoOp
<1>3. Step(u)
  BY <1>2, Acts
<1>4. ASSUME NEW outcome \in Statuses, End(u, outcome), op[u].at \in Saving \cup {"retiring", "running", "persisting"}
      PROVE  outcome = "complete" /\ op'[u].kind = op[u].kind
  <2>1. op'[u] = [op[u] EXCEPT !.at = "ending", !.outcome = outcome]
    BY <1>2, <1>4, EndStep DEF Ended, Typed
  <2>2. QED
    BY <1>1, <2>1 DEF Requests
<1>5. ~Fails(u)
  BY <1>4 DEF Fails, Saving, Statuses
<1>6. CASE Retire(u)
  <2>1. \E outcome \in {"complete", "failed"} : End(u, outcome)
    BY <1>6 DEF Retire
  <2>2. op[u].kind = "retire"
    BY <1>1, <1>6 DEF Retire, Aware
  <2>3. QED
    BY <1>4, <1>6, <2>1, <2>2 DEF Retire, Statuses
<1>7. CASE Write(u)
  <2>1. CASE op'[u] = Ended(op[u], "failed") /\ db' = db
    <3>1. op'[u].outcome # "complete"
      BY <1>1, <1>2, <2>1 DEF Ended, Requests
    <3>2. QED
      BY <3>1
  <2>2. QED
    BY <1>7, <2>1, WriteStep
<1>8. CASE Look(u)
  <2>1. ~Goto(u, "writing")
    <3>1. ASSUME Goto(u, "writing") PROVE op'[u].at = "writing"
      BY <1>8, <3>1, SavingStep DEF Look, Saving
    <3>2. QED
      BY <3>1
  <2>2. QED
    BY <1>8, <2>1 DEF Look
<1>9. ~StartOperation(u) /\ ~FinishOperation(u)
  <2>1. ~StartOperation(u)
    BY StartStep
  <2>2. FinishOperation(u) => op'[u] = NoOp
    BY DEF FinishOperation, Typed, OpOK
  <2>3. QED
    BY <1>2, <2>1, <2>2
<1>10. ~Put(u) /\ ~TakeNumber(u) /\ ~Embed(u) /\ ~RunStarts(u)
  <2>1. ~Put(u)
    <3>1. ASSUME Put(u) PROVE op'[u].at = "put"
      BY <3>1, SavingStep DEF Put, Saving
    <3>2. QED
      BY <3>1
  <2>2. ~TakeNumber(u)
    BY NumberStep
  <2>3. ~Embed(u)
    BY EmbedStep DEF Embed
  <2>4. ~RunStarts(u)
    BY RunStartsStep
  <2>5. QED
    BY <2>1, <2>2, <2>3, <2>4
<1>11. ~Persist(u)
  <2>1. ASSUME Persist(u) PROVE op'[u].at = "persisting"
    BY <1>1, <2>1, PersistStep DEF Persist, Requests
  <2>2. QED
    BY <2>1
<1>12. QED
  BY <1>3, <1>5, <1>6, <1>7, <1>8, <1>9, <1>10, <1>11 DEF Step

\* A re-embedding that persists began with what was completed for its space,
\* or stored one more vector.
LEMMA PersistingMoves ==
  ASSUME Typed, NumbersOK, [Next]_vars, NEW u \in Threads, op'[u].at = "persisting", op'[u] # op[u]
  PROVE  RunStarts(u) \/ Persist(u)
<1>1. op[u] \in Requests
  BY DEF Typed, OpOK
<1>2. Embed(u) \/ RunStarts(u) \/ op[u].at = "persisting"
  BY LabelMoves DEF Embedding
<1>3. ~Embed(u)
  BY EmbedStep DEF Embed
<1>4. CASE op[u].at = "persisting"
  <2>1. ~Submit(u) /\ op'[u] # NoOp
    BY <1>4, SubmitStep DEF NoOp
  <2>2. Step(u)
    BY <2>1, Acts
  <2>3. Fails(u) \/ RunEnds(u) \/ Persist(u)
    BY <1>4, <2>2 DEF Step, StartOperation, FinishOperation, Put, TakeNumber, Embed, Look, Write, Retire, RunStarts
  <2>4. ASSUME NEW outcome \in Statuses, End(u, outcome) PROVE FALSE
    <3>1. op'[u] = Ended(op[u], outcome)
      BY <1>4, <2>4, EndStep DEF Typed
    <3>2. QED
      BY <1>1, <3>1 DEF Ended, NoOp, Requests
  <2>5. QED
    BY <2>3, <2>4 DEF Fails, RunEnds, Statuses
<1>5. QED
  BY <1>2, <1>3, <1>4

LEMMA UnderNext ==
  ASSUME Typed, NumbersOK, ToldOK, [Next]_vars, NEW u \in Threads
  PROVE  Under(op'[u], record'[u])
<1>1. Under(op[u], record[u]) /\ op[u] \in Requests
  BY DEF ToldOK, Typed, OpOK
<1>2. SUFFICES ASSUME op'[u].at \notin {"idle", "accepted"}, op'[u].kind # "ingest"
               PROVE  record'[u] = RunningRecord(op'[u])
  BY DEF Under
<1>3. /\ op[u].at # "idle" /\ op'[u].kind = op[u].kind /\ IdOf(op[u])' = IdOf(op[u])
      /\ op'[u].todo = op[u].todo /\ op'[u].target = op[u].target
  BY <1>2, SameRequest
<1>4. IdOf(op'[u]) = IdOf(op[u])
  BY <1>3 DEF IdOf
<1>5. RunningRecord(op'[u]) = RunningRecord(op[u])
  BY <1>3, <1>4 DEF RunningRecord
<1>6. CASE StartOperation(u)
  <2>1. record'[u] = [status |-> "running", kind |-> op[u].kind, id |-> IdOf(op[u]),
                      todo |-> op[u].todo, target |-> op[u].target]
    BY <1>6 DEF StartOperation, Typed
  <2>2. QED
    BY <1>5, <2>1 DEF RunningRecord
<1>7. ASSUME ~StartOperation(u) PROVE op[u].at # "accepted"
  <2>1. CASE op'[u] = op[u]
    BY <1>2, <2>1
  <2>2. CASE op'[u] # op[u]
    <3>1. op'[u] # NoOp
      BY <1>2 DEF NoOp
    <3>2. ~Submit(u)
      BY <1>3, SubmitStep
    <3>3. Step(u)
      BY <2>2, <3>1, <3>2, Acts
    <3>4. QED
      BY <1>7, <3>3 DEF Step, FinishOperation, Fails, Put, TakeNumber, Embed, Look, Write, Retire,
         RunStarts, Persist, RunEnds
  <2>3. QED
    BY <2>1, <2>2
<1>8. CASE record'[u] = record[u] /\ ~StartOperation(u)
  <2>1. op[u].at \notin {"idle", "accepted"} /\ op[u].kind # "ingest"
    BY <1>2, <1>3, <1>7, <1>8
  <2>2. QED
    BY <1>1, <1>5, <1>8, <2>1 DEF Under
<1>9. ~Restore
  BY <1>3 DEF Restore, Idle
<1>10. ASSUME NEW t \in Threads, FinishOperation(t) PROVE record'[u] = record[u]
  <2>1. t # u
    BY <1>2, <1>10 DEF FinishOperation, Typed, OpOK, NoOp
  <2>2. QED
    BY <1>10, <2>1 DEF FinishOperation, Typed
<1>11. ASSUME NEW t \in Threads, StartOperation(t), t # u PROVE record'[u] = record[u]
  BY <1>11 DEF StartOperation, Typed
<1>12. CASE ~StartOperation(u)
  <2>1. record'[u] = record[u]
    BY <1>9, <1>10, <1>11, <1>12, RecordStep
  <2>2. QED
    BY <1>8, <1>12, <2>1
<1>13. QED
  BY <1>6, <1>12

\* A reparse about to be recorded as complete left its bundle in the store.
LEMMA AchievedNext ==
  ASSUME Typed, NumbersOK, WholeOK, ToldOK, [Next]_vars, NEW u \in Threads
  PROVE  Achieved(op[u])'
<1>1. op[u] \in Requests /\ Aware(op[u]) /\ Achieved(op[u])
  BY DEF Typed, OpOK, ToldOK
<1>2. SUFFICES ASSUME op'[u].at = "ending", op'[u].outcome = "complete", op'[u].kind = "reparse"
               PROVE  StoredIn(db', IdOf(op'[u]))
  <2>1. StoredIn(db', IdOf(op'[u])) => StoredIn(db, IdOf(op[u]))'
    BY DEF StoredIn, IdOf
  <2>2. QED
    BY <2>1 DEF Achieved
<1>3. op[u].kind = "reparse" /\ IdOf(op[u])' = IdOf(op[u]) /\ op[u].at # "idle"
  BY <1>2, SameRequest
<1>4. IdOf(op'[u]) = IdOf(op[u]) /\ IdOf(op[u]) \in Ids
  BY <1>1, <1>3 DEF IdOf, Aware
<1>5. ~Restore
  BY <1>3 DEF Restore, Idle
<1>6. CASE op'[u] = op[u]
  <2>1. StoredIn(db, IdOf(op[u]))
    BY <1>1, <1>2, <1>6 DEF Achieved
  <2>2. QED
    BY <1>4, <1>5, <2>1, StoreKeeps
<1>7. CASE Look(u) /\ Stored(IdOf(op[u]))
  <2>1. StoredIn(db, IdOf(op[u]))
    BY <1>7 DEF Stored, StoredIn, Rows, RowsIn
  <2>2. QED
    BY <1>4, <1>5, <2>1, StoreKeeps
<1>8. CASE Write(u) /\ SavedAs(db, db', op[u])
  <2> DEFINE b == op[u]
  <2>1. \E i \in DOMAIN db'.versions[b.source] : db'.versions[b.source][i] = RowOf(b)
    <3> DEFINE rows == db.versions[b.source]
               more == Append(rows, RowOf(b))
    <3>1. b.source \in Sources
      BY <1>1, <1>3 DEF Aware
    <3>2. rows \in Seq(VersionRow) /\ Len(rows) \in Nat /\ DOMAIN rows = 1..Len(rows)
      BY <3>1 DEF Typed, TablesOK
    <3>3. CASE db'.versions = [db.versions EXCEPT ![b.source] = more]
      <4>1. Len(rows) + 1 \in DOMAIN more /\ more[Len(rows) + 1] = RowOf(b)
        <5> HIDE DEF rows
        <5>1. DOMAIN more = 1..(Len(rows) + 1) /\ more[Len(rows) + 1] = RowOf(b)
          <6>1. rows \in Seq(VersionRow)
            BY <3>2
          <6> HIDE DEF rows
          <6>2. QED
            BY <6>1, Appended, SMTT(30)
        <5>2. Len(rows) + 1 \in 1..(Len(rows) + 1)
          BY <3>2
        <5>3. QED
          BY <5>1, <5>2
      <4>2. db'.versions[b.source] = more
        BY <3>1, <3>3 DEF Typed, TablesOK
      <4>3. QED
        BY <4>1, <4>2
    <3>4. QED
      BY <1>8, <3>3 DEF SavedAs, VersionSaved
  <2>2. RowOf(b).content = b.content /\ RowOf(b).parser = b.parser
    BY DEF RowOf
  <2>3. IdOf(b)[1] = b.source /\ IdOf(b)[2] = b.content /\ IdOf(b)[3] = b.parser
    BY DEF IdOf
  <2>4. QED
    BY <1>4, <2>1, <2>2, <2>3 DEF StoredIn
<1>9. ~RunEnds(u)
  BY <1>1, <1>3 DEF RunEnds, Aware
<1>10. QED
  BY <1>2, <1>6, <1>7, <1>8, <1>9, EndingMoves

\* What a process marked as completed for a space is covered in the store.
LEMMA PersistCovers ==
  ASSUME Typed, NumbersOK, WholeOK, NEW u \in Threads, Persist(u), [Next]_vars,
         op[u].label \in {op[u].target, Cpu}
  PROVE  \E m \in op[u].made :
           /\ migration' = [migration EXCEPT ![op[u].target].completed = op[u].done \cup {m[1]}]
           /\ op'[u] = [op[u] EXCEPT !.done = op[u].done \cup {m[1]}]
           /\ Covered(db', m[1], op[u].target)
<1>1. PICK m \in op[u].made :
        /\ m[1] \in Chunks /\ m[2] \in Spaces
        /\ db' = UpsertEmbedding(db, m[1], op[u].label, m[2])
        /\ migration' = [migration EXCEPT ![op[u].target].completed = op[u].done \cup {m[1]}]
        /\ op'[u] = [op[u] EXCEPT !.done = op[u].done \cup {m[1]}]
  BY PersistStep, ZenonT(30)
<1>2. op[u].label \in Spaces
  BY DEF Persist, Typed, OpOK, Aware
<1> DEFINE new == [chunk |-> m[1], space |-> op[u].label, by |-> m[2]]
<1>3. db'.vectors = {v \in db.vectors : v.chunk # m[1] \/ v.space # op[u].label} \cup {new}
  BY <1>1, <1>2, EmbeddingTables DEF Typed, Tables
<1>4. new \in db'.vectors /\ new.chunk = m[1] /\ new.space = op[u].label
  BY <1>3
<1> HIDE DEF new
<1>5. Covered(db', m[1], op[u].target)
  BY <1>4 DEF Covered
<1>6. QED
  BY <1>1, <1>5

LEMMA LabelNext ==
  ASSUME Typed, NumbersOK, ToldOK, [Next]_vars, NEW u \in Threads, op'[u].at = "persisting"
  PROVE  op'[u].label \in {op'[u].target, Cpu}
<1>1. op[u] \in Requests
  BY DEF Typed, OpOK
<1>2. CASE op'[u] = op[u]
  BY <1>2 DEF ToldOK
<1>3. CASE RunStarts(u)
  BY <1>3, RunStartsStep DEF EmbeddedIn
<1>4. CASE Persist(u)
  <2>1. PICK m \in op[u].made : op'[u] = [op[u] EXCEPT !.done = op[u].done \cup {m[1]}]
    BY <1>4, PersistStep, ZenonT(30)
  <2>2. op'[u].label = op[u].label /\ op'[u].target = op[u].target
    BY <1>1, <2>1 DEF Requests
  <2>3. op[u].at = "persisting"
    BY <1>4 DEF Persist
  <2>4. QED
    BY <2>2, <2>3 DEF ToldOK
<1>5. QED
  BY <1>2, <1>3, <1>4, PersistingMoves

LEMMA MarkedNext ==
  ASSUME Typed, NumbersOK, WholeOK, ToldOK, Unrestored, [Next]_vars, ~Restore, NEW u \in Threads
  PROVE  Marked(op[u])'
<1>1. op[u] \in Requests /\ Aware(op[u]) /\ Marked(op[u])
  BY DEF Typed, OpOK, ToldOK
<1>2. \A c, space : Covered(db, c, space) => Covered(db', c, space)
  BY StoreKeeps
<1>3. ASSUME op'[u].at = "persisting" PROVE \A c \in op'[u].done : Covered(db', c, op'[u].target)
  <2>1. CASE op'[u] = op[u]
    BY <1>1, <1>2, <1>3, <2>1 DEF Marked
  <2>2. CASE RunStarts(u)
    <3>1. op'[u].done = migration[op[u].target].completed /\ op'[u].target = op[u].target
      BY <2>2, RunStartsStep
    <3>2. op[u].target \in Spaces
      BY <1>1, <2>2 DEF RunStarts, Aware
    <3>3. \A c \in migration[op[u].target].completed : Covered(db, c, op[u].target)
      BY <3>2 DEF ToldOK
    <3>4. QED
      BY <1>2, <3>1, <3>3
  <2>3. CASE Persist(u)
    <3>1. op[u].at = "persisting" /\ op[u].label \in {op[u].target, Cpu}
      BY <2>3 DEF Persist, ToldOK
    <3>2. PICK m \in op[u].made : /\ op'[u] = [op[u] EXCEPT !.done = op[u].done \cup {m[1]}]
                                  /\ Covered(db', m[1], op[u].target)
      BY <2>3, <3>1, PersistCovers
    <3>3. op'[u].done = op[u].done \cup {m[1]} /\ op'[u].target = op[u].target
      BY <1>1, <3>2 DEF Requests
    <3>4. \A c \in op[u].done : Covered(db', c, op[u].target)
      BY <1>1, <1>2, <3>1 DEF Marked
    <3>5. QED
      BY <3>2, <3>3, <3>4
  <2>4. QED
    BY <1>3, <2>1, <2>2, <2>3, PersistingMoves
<1>4. ASSUME op'[u].at = "ending", op'[u].outcome = "complete", op'[u].kind = "reembed"
      PROVE  \A c \in op'[u].todo : Covered(db', c, op'[u].target)
  <2>1. CASE op'[u] = op[u]
    BY <1>1, <1>2, <1>4, <2>1 DEF Marked
  <2>2. op'[u].kind = op[u].kind /\ op'[u].todo = op[u].todo /\ op'[u].target = op[u].target
    BY <1>4, SameRequest
  <2>3. CASE RunEnds(u)
    <3>1. op[u].at = "persisting" /\ Remaining(u) = {}
      BY <2>3 DEF RunEnds
    <3>2. op[u].todo \subseteq op[u].done
      BY <3>1 DEF Remaining
    <3>3. \A c \in op[u].done : Covered(db', c, op[u].target)
      BY <1>1, <1>2, <3>1 DEF Marked
    <3>4. QED
      BY <2>2, <3>2, <3>3
  <2>4. ~Look(u) /\ ~Write(u)
    BY <1>1, <1>4, <2>2 DEF Look, Write, Aware, Saving
  <2>5. QED
    BY <1>4, <2>1, <2>3, <2>4, EndingMoves
<1>5. QED
  BY <1>3, <1>4 DEF Marked, Covered

LEMMA CompletedNext ==
  ASSUME Typed, NumbersOK, WholeOK, ToldOK, Unrestored, [Next]_vars, ~Restore
  PROVE  \A space \in Spaces : \A c \in migration'[space].completed : Covered(db', c, space)
<1>1. \A c, space : Covered(db, c, space) => Covered(db', c, space)
  BY StoreKeeps
<1>2. CASE \A space \in Spaces : migration'[space].completed \subseteq migration[space].completed
  BY <1>1, <1>2 DEF ToldOK
<1>3. ASSUME NEW t \in Threads, Persist(t)
      PROVE  \A space \in Spaces : \A c \in migration'[space].completed : Covered(db', c, space)
  <2>1. op[t].at = "persisting" /\ op[t].label \in {op[t].target, Cpu} /\ op[t].target \in Spaces
    BY <1>3 DEF Persist, ToldOK, Typed, OpOK, Aware
  <2>2. PICK m \in op[t].made :
          /\ migration' = [migration EXCEPT ![op[t].target].completed = op[t].done \cup {m[1]}]
          /\ Covered(db', m[1], op[t].target)
    BY <1>3, <2>1, PersistCovers
  <2>3. \A c \in op[t].done : Covered(db', c, op[t].target)
    BY <1>1, <2>1 DEF ToldOK, Marked
  <2>4. /\ migration'[op[t].target].completed = op[t].done \cup {m[1]}
        /\ \A space \in Spaces \ {op[t].target} : migration'[space] = migration[space]
    BY <2>1, <2>2 DEF Typed, MigrationOK
  <2>5. QED
    BY <1>1, <2>2, <2>3, <2>4 DEF ToldOK
<1>4. ASSUME NEW t \in Threads, RunEnds(t)
      PROVE  \A space \in Spaces : migration'[space].completed = migration[space].completed
  <2>1. PICK status \in {"complete", "paused"} :
          migration' = [migration EXCEPT ![op[t].target].status = status]
    BY <1>4, RunEndsStep
  <2>2. QED
    BY <2>1 DEF Typed, MigrationOK
<1>5. ASSUME NEW space \in Spaces, Activate(space)
      PROVE  \A s \in Spaces : migration'[s].completed = migration[s].completed
  BY <1>5 DEF Activate, Typed, MigrationOK
<1>6. Restart => \A space \in Spaces : migration'[space].completed = {}
  BY DEF Restart
<1>7. ASSUME NEW t \in Threads, Submit(t) PROVE migration' = migration
  BY <1>7, SubmitStep DEF spaces
<1>8. ASSUME NEW t \in Threads, Step(t), ~Persist(t), ~RunEnds(t) PROVE migration' = migration
  BY <1>8 DEF Step, StartOperation, FinishOperation, Fails, Put, TakeNumber, Embed, Look, Write, Retire,
     RunStarts, spaces
<1>9. Backup \/ UNCHANGED vars => migration' = migration
  BY DEF Backup, vars, spaces
<1>10. QED
  BY <1>2, <1>3, <1>4, <1>5, <1>6, <1>7, <1>8, <1>9 DEF Next

LEMMA RecordedNext ==
  ASSUME Typed, NumbersOK, WholeOK, ToldOK, [Next]_vars, NEW u \in Threads
  PROVE  /\ Reparsed(record'[u], db')
         /\ Unrestored /\ ~Restore => Reembedded(record'[u], db')
<1> DEFINE Goal == /\ Reparsed(record'[u], db')
                   /\ Unrestored /\ ~Restore => Reembedded(record'[u], db')
<1>1. CASE Restore
  BY <1>1 DEF Restore, ToldOK, Reparsed, StoredIn
<1>2. CASE StartOperation(u)
  <2>1. record'[u].status = "running"
    BY <1>2 DEF StartOperation, Typed
  <2>2. QED
    BY <2>1 DEF Reparsed, Reembedded
<1>3. CASE FinishOperation(u)
  <2> DEFINE o == op[u]
  <2>1. o \in Requests /\ Aware(o) /\ o.at = "ending" /\ db' = db
    BY <1>3 DEF FinishOperation, Typed, OpOK
  <2>2. record[u] = RunningRecord(o)
    BY <2>1 DEF ToldOK, Under, Aware
  <2>3. record'[u] = [record[u] EXCEPT !.status = o.outcome]
    BY <1>3 DEF FinishOperation, Typed
  <2>4. /\ record'[u].status = o.outcome /\ record'[u].kind = o.kind /\ record'[u].id = IdOf(o)
        /\ record'[u].todo = o.todo /\ record'[u].target = o.target
    BY <2>2, <2>3 DEF RunningRecord
  <2>5. o.kind = "reparse" => IdOf(o) \in Ids
    BY <2>1 DEF Aware
  <2>6. Reparsed(record'[u], db')
    BY <2>1, <2>4, <2>5 DEF ToldOK, Achieved, Reparsed
  <2>7. Unrestored => Reembedded(record'[u], db')
    BY <2>1, <2>4 DEF ToldOK, Marked, Reembedded
  <2>8. QED
    BY <2>6, <2>7
<1>4. CASE record'[u] = record[u] /\ ~Restore
  <2>1. Reparsed(record[u], db) /\ (Unrestored => Reembedded(record[u], db))
    BY DEF ToldOK
  <2>2. QED
    BY <1>4, <2>1, StoreKeeps DEF Reparsed, Reembedded
<1>5. ASSUME NEW t \in Threads, FinishOperation(t) \/ StartOperation(t), t # u PROVE record'[u] = record[u]
  BY <1>5 DEF FinishOperation, StartOperation, Typed
<1>6. QED
  BY <1>1, <1>2, <1>3, <1>4, <1>5, RecordStep

LEMMA ToldNext ==
  ASSUME Typed, NumbersOK, WholeOK, ToldOK, [Next]_vars
  PROVE  ToldOK'
<1>1. ASSUME NEW u \in Threads
      PROVE  (/\ Under(op[u], record[u]) /\ Achieved(op[u]) /\ Reparsed(record[u], db)
              /\ op[u].at = "persisting" => op[u].label \in {op[u].target, Cpu})'
  <2>1. Under(op[u], record[u])'
    <3>1. Under(op'[u], record'[u])
      BY UnderNext
    <3>2. QED
      BY <3>1 DEF Under, RunningRecord, IdOf
  <2>2. Reparsed(record[u], db)'
    <3>1. Reparsed(record'[u], db')
      BY RecordedNext
    <3>2. QED
      BY <3>1 DEF Reparsed, StoredIn
  <2>3. QED
    BY <2>1, <2>2, AchievedNext, LabelNext
<1>2. (saved # Nothing => \A t \in Threads : Reparsed(saved.record[t], saved.db))'
  <2>1. CASE saved' = saved
    BY <2>1 DEF ToldOK, Reparsed, StoredIn
  <2>2. CASE Backup
    BY <2>2 DEF Backup, ToldOK, Reparsed, StoredIn
  <2>3. QED
    BY <2>1, <2>2, BackupStep
<1>3. ASSUME Unrestored' PROVE Unrestored /\ ~Restore
  <2>1. ~Restore
    BY <1>3 DEF Restore, Unrestored
  <2>2. restored' = restored
    BY <2>1, RestoredStep
  <2>3. QED
    BY <1>3, <2>1, <2>2 DEF Unrestored
<1>4. ASSUME Unrestored'
      PROVE  (/\ \A t \in Threads : Marked(op[t]) /\ Reembedded(record[t], db)
              /\ \A space \in Spaces : \A c \in migration[space].completed : Covered(db, c, space))'
  <2>1. Unrestored /\ ~Restore
    BY <1>3, <1>4
  <2>2. \A t \in Threads : Marked(op[t])'
    BY <2>1, MarkedNext
  <2>3. \A t \in Threads : Reembedded(record'[t], db')
    BY <2>1, RecordedNext
  <2>4. \A t \in Threads : Reembedded(record[t], db)'
    BY <2>3 DEF Reembedded, Covered
  <2>5. \A space \in Spaces : \A c \in migration'[space].completed : Covered(db', c, space)
    BY <2>1, CompletedNext
  <2>6. QED
    BY <2>2, <2>4, <2>5 DEF Covered
<1>5. QED
  BY <1>1, <1>2, <1>4 DEF ToldOK

LEMMA ToldInit ==
  ASSUME Init
  PROVE  ToldOK
<1>1. \A t \in Threads : op[t].at = "idle" /\ record[t].status = "none"
  BY DEF Init, NoOp, NoRecord
<1>2. \A t \in Threads : /\ Under(op[t], record[t]) /\ Achieved(op[t]) /\ Reparsed(record[t], db)
                         /\ Marked(op[t]) /\ Reembedded(record[t], db)
  BY <1>1 DEF Under, Achieved, Reparsed, Marked, Reembedded
<1>3. \A space \in Spaces : migration[space].completed = {}
  BY DEF Init
<1>4. saved = Nothing
  BY DEF Init
<1>5. QED
  BY <1>1, <1>2, <1>3, <1>4 DEF ToldOK

LEMMA ToldMeans ==
  ASSUME Typed, ToldOK
  PROVE  OutcomeTold
<1>1. ASSUME NEW t \in Threads, record[t].status = "complete", record[t].kind = "reparse"
      PROVE  Stored(record[t].id)
  <2>1. StoredIn(db, record[t].id)
    BY <1>1 DEF ToldOK, Reparsed
  <2>2. QED
    BY <2>1 DEF Stored, StoredIn, Rows, RowsIn
<1>2. ASSUME NEW t \in Threads, record[t].status = "complete", record[t].kind = "reembed", ~restored
      PROVE  \A c \in record[t].todo :
                \E v \in db.vectors : v.chunk = c /\ v.space \in {record[t].target, Cpu}
  <2>1. Unrestored
    BY <1>2 DEF Unrestored
  <2>2. QED
    BY <1>2, <2>1 DEF ToldOK, Reembedded, Covered
<1>3. QED
  BY <1>1, <1>2 DEF OutcomeTold

\* An operation recorded as complete did what it says, although a run skips
\* what an earlier one marked, other runs overwrite its marks, and any of them
\* may fail or die halfway.
THEOREM OutcomesAreTrue == Spec => []OutcomeTold
<1> DEFINE Inv == Typed /\ NumbersOK /\ WholeOK /\ ToldOK
<1>1. Init => Inv
  BY TypedInit, WholeInit, ToldInit
<1>2. Inv /\ [Next]_vars => Inv'
  BY TypedNext, NumbersNext, WholeNext, ToldNext
<1>3. Inv => OutcomeTold
  BY ToldMeans
<1>4. QED
  BY <1>1, <1>2, <1>3, PTL DEF Spec

=============================================================================
