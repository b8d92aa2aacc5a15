--------------------------- MODULE KnowledgeStore ---------------------------
(***************************************************************************)
(* The knowledge platform: ingestion into the object store and the          *)
(* knowledge store (src/src/opennicf/knowledge/store.py, object_store.py),  *)
(* embedding with CPU fallback and the re-embedding of a source             *)
(* (embeddings.py), administration: retirement, reparse and re-embed        *)
(* (admin.py, service.py), and the backup of an in-memory platform.         *)
(*                                                                         *)
(* Threads of the HTTP service and of the ingestion workers share the       *)
(* PostgreSQL store: each of its statements or transactions is a step.  The *)
(* in-memory store serves one thread at a time.  Sources, contents and      *)
(* parser versions are model values; texts, hashes, vectors' numbers,       *)
(* metadata other than the status and the legal hold, and the limits on     *)
(* results are left out.                                                    *)
(***************************************************************************)
EXTENDS Naturals, Sequences, FiniteSets

CONSTANTS
    Sources, Contents, Parsers,
    Pieces,         \* per content, the number of blocks it is parsed into
    HomeOf,         \* per source, the namespace of its evidence
    LinksOf,        \* per content, the namespaces its integration edges name
    Order,          \* per source, the place of its identifier in their order
    Deliveries,     \* what collectors deliver: source, content, parser, hold
    Spaces,         \* the registered embedding spaces
    Cpu,            \* the space of the CPU backend
    Preferred,      \* the space active when a process starts
    Deployments,    \* store, allow_cpu_fallback, workers that fall back
    Threads,
    MaxRequests,    \* bound on the requests submitted
    Nothing

ASSUME StoreAssumption ==
    /\ Pieces \in [Contents -> Nat]
    /\ Order \in [Sources -> Nat]
    /\ \A s, r \in Sources : Order[s] = Order[r] => s = r
    /\ Deliveries \subseteq Sources \X Contents \X Parsers \X BOOLEAN
    /\ Cpu \in Spaces /\ Preferred \in Spaces
    /\ MaxRequests \in Nat
    /\ Nothing \notin Sources \cup Contents \cup Parsers \cup Spaces
    /\ Nothing \notin [status : {"active", "retired"}, hold : BOOLEAN]

ASSUME DeploymentAssumption ==
    Deployments \subseteq {"postgres", "memory"} \X BOOLEAN \X SUBSET (Spaces \ {Cpu})

VARIABLES
    backend,        \* "postgres" or "memory"
    fallback,       \* allow_cpu_fallback; off in production
    worker,         \* spaces whose backend falls back to the CPU by itself
    db,             \* the tables
    objects,        \* contents in the object store
    active,         \* active_space_id
    migration,      \* per target space, the re-embedding state of the process
    switched,       \* history: another space was activated
    op,             \* per thread, the request it works on
    record,         \* per thread, the record of its last admin operation
    saved,          \* the backup of the platform
    restored,       \* history: the backup was restored
    left            \* requests still to come

deployment == <<backend, fallback, worker>>
spaces == <<active, migration, switched>>
backup == <<saved, restored>>
vars == <<deployment, db, objects, spaces, op, record, backup, left>>

Ids == Sources \X Contents \X Parsers

\* The chunks of a version: _source_version_id and the ordinal.
ChunksOf(id) == {<<id, k>> : k \in 1..Pieces[id[2]]}

NoOp == [kind |-> "none", at |-> "idle", source |-> Nothing, content |-> Nothing,
         parser |-> Nothing, hold |-> FALSE, number |-> 0, target |-> Nothing,
         label |-> Nothing, todo |-> {}, made |-> {}, done |-> {}, outcome |-> "none"]

NoRecord == [status |-> "none", kind |-> "none", id |-> <<>>, todo |-> {}, target |-> Nothing]

RowsIn(rows) == {rows[i] : i \in DOMAIN rows}

-----------------------------------------------------------------------------
(***************************************************************************)
(* Reading the tables.                                                      *)
(***************************************************************************)

Known == {s \in Sources : db.sources[s] # Nothing}

IdOf(b) == <<b.source, b.content, b.parser>>

Rows(s) == RowsIn(db.versions[s])

Stored(id) == \E row \in Rows(id[1]) : row.content = id[2] /\ row.parser = id[3]

Highest(s) ==
    IF Rows(s) = {} THEN 0
    ELSE CHOOSE n \in {row.number : row \in Rows(s)} : \A row \in Rows(s) : row.number <= n

\* Mutant of NextNumber: the highest number is given again.
NextNumber_Highest(s, c) ==
    LET same == {row \in Rows(s) : row.content = c} IN
    IF same # {} THEN (CHOOSE row \in same : TRUE).number ELSE Highest(s)

\* next_version_number: a known content keeps its number.  Its two SELECTs are
\* one step: a commit between them gives the number of a later read, or one more
\* to a content just stored, whose bundle is then found there or refused.
NextNumber(s, c) ==
    LET same == {row \in Rows(s) : row.content = c} IN
    IF same # {} THEN (CHOOSE row \in same : TRUE).number
    ELSE IF backend = "postgres" THEN Highest(s) + 1 ELSE Len(db.versions[s]) + 1

\* provenance: the version of a source that is latest by number, or by order.
Latest(s) ==
    IF backend = "postgres"
    THEN CHOOSE row \in Rows(s) : row.number = Highest(s)
    ELSE db.versions[s][Len(db.versions[s])]

\* Its chunks; the in-memory store finds them by artifact.
Provenance(s) ==
    LET row == Latest(s) IN
    IF backend = "postgres" THEN {c \in db.chunks : c[1] = row.id}
    ELSE {c \in db.chunks : c[1][2] = row.content /\ c[1][3] = row.parser}

\* source_status and provenance in PostgreSQL list the sources without the
\* requested identifier and take the first row.
Consulted(s) ==
    IF backend = "memory" THEN s
    ELSE CHOOSE r \in Known : \A q \in Known : Order[r] <= Order[q]

\* The rows PostgreSQL can join for a search in a space, and their chunks.
Joined(space) == {v \in db.vectors : v.space = space /\ v.chunk \in db.chunks}

Searchable(space) == {v.chunk : v \in Joined(space)}

-----------------------------------------------------------------------------
(***************************************************************************)
(* Writing a bundle: the upserts of one PostgreSQL transaction, in order.   *)
(***************************************************************************)

UpsertSource(d, b) ==
    [d EXCEPT !.sources[b.source] = [status |-> "active", hold |-> b.hold]]

\* ON CONFLICT (source_id, content_hash) keeps the row's own identity.
UpsertVersion(d, b) ==
    LET rows == d.versions[b.source]
        same == {i \in DOMAIN rows : rows[i].content = b.content}
        row(id) == [id |-> id, content |-> b.content, parser |-> b.parser, number |-> b.number]
    IN  IF same = {} THEN [d EXCEPT !.versions[b.source] = Append(rows, row(IdOf(b)))]
        ELSE LET i == CHOOSE j \in same : TRUE
             IN  [d EXCEPT !.versions[b.source][i] = row(rows[i].id)]

UpsertArtifact(d, b) == [d EXCEPT !.artifacts = @ \cup {<<b.content, b.parser>>}]

\* The namespace of the evidence and those it names; the edges lead there.
NamespacesOf(b) == {HomeOf[b.source]} \cup LinksOf[b.content]

EdgesOf(b) == {HomeOf[b.source]} \X LinksOf[b.content]

UpsertNamespaces(d, b) == [d EXCEPT !.namespaces = @ \cup NamespacesOf(b)]

UpsertEdges(d, b) == [d EXCEPT !.edges = @ \cup EdgesOf(b)]

UpsertChunks(d, b) == [d EXCEPT !.chunks = @ \cup ChunksOf(IdOf(b))]

\* One vector per chunk and space.
UpsertEmbedding(d, c, space, by) ==
    [d EXCEPT !.vectors = {v \in @ : v.chunk # c \/ v.space # space}
                            \cup {[chunk |-> c, space |-> space, by |-> by]}]

UpsertEmbeddings(d, b) ==
    [d EXCEPT !.vectors =
        {v \in @ : v.chunk \notin ChunksOf(IdOf(b)) \/ v.space # b.label}
          \cup {[chunk |-> m[1], space |-> b.label, by |-> m[2]] : m \in b.made}]

\* What a bundle adds beside its source and version.
Evidence(d, b) ==
    LET facts == UpsertEdges(UpsertNamespaces(UpsertArtifact(d, b), b), b)
    IN  UpsertEmbeddings(UpsertChunks(facts, b), b)

Transaction(b) == Evidence(UpsertVersion(UpsertSource(db, b), b), b)

\* save_bundle of the in-memory store: another parser is another version.
MemorySave(b) ==
    LET d == UpsertSource(db, b) IN
    Evidence([d EXCEPT !.versions[b.source] =
                Append(@, [id |-> IdOf(b), content |-> b.content,
                           parser |-> b.parser, number |-> b.number])], b)

\* Mutant of Refused: no UNIQUE (source_id, version_number).
Refused_NoUnique(b) ==
    \A row \in RowsIn(UpsertVersion(db, b).versions[b.source]) : row.id # IdOf(b)

\* Mutant of Refused: the artifact's reference to its version is not checked.
Refused_NoReference(b) ==
    \E row \in Rows(b.source) : row.number = b.number /\ row.content # b.content

\* The constraints that abort a transaction: UNIQUE (source_id,
\* version_number), and the reference from the artifact to its version.
Refused(b) ==
    \/ \E row \in Rows(b.source) : row.number = b.number /\ row.content # b.content
    \/ \A row \in RowsIn(UpsertVersion(db, b).versions[b.source]) : row.id # IdOf(b)

-----------------------------------------------------------------------------
(***************************************************************************)
(* Requests.  An administrative operation is recorded when it starts and    *)
(* when it ends; every exception in between ends it as failed.              *)
(***************************************************************************)

Idle == \A t \in Threads : op[t].at = "idle"

\* Whether a thread may take up a request.
Free(t) == op[t].at = "idle" /\ left > 0 /\ (backend = "memory" => Idle)

Take(t, request) ==
    /\ Free(t)
    /\ op' = [op EXCEPT ![t] = request]
    /\ left' = left - 1
    /\ UNCHANGED <<deployment, db, objects, spaces, record, backup>>

Goto(t, place) == op' = [op EXCEPT ![t].at = place]

\* The end of the work: an ingestion returns or raises, an administrative
\* operation has yet to be recorded.
End(t, outcome) ==
    op' = [op EXCEPT ![t] =
             IF @.kind = "ingest" THEN NoOp
             ELSE [@ EXCEPT !.at = "ending", !.outcome = outcome]]

Ingest(t, s, c, p, hold) ==
    Take(t, [NoOp EXCEPT !.kind = "ingest", !.at = "received", !.source = s,
                         !.content = c, !.parser = p, !.hold = hold])

\* KnowledgeAdministration.retire_source up to the legal hold.
RequestRetirement(t, s) ==
    /\ IF backend = "memory" THEN s \in Known ELSE Known # {}
    /\ ~db.sources[Consulted(s)].hold
    /\ Take(t, [NoOp EXCEPT !.kind = "retire", !.at = "accepted", !.source = s])

\* KnowledgeService.reparse reads the latest version and its object.
RequestReparse(t, s, p) ==
    /\ Rows(s) # {} /\ Latest(s).content \in objects
    /\ Take(t, [NoOp EXCEPT !.kind = "reparse", !.at = "accepted", !.source = s,
                            !.content = Latest(s).content, !.parser = p])

\* KnowledgeService.reembed reads the chunks of the latest version.
RequestReembed(t, s, space) ==
    /\ Rows(s) # {}
    /\ Take(t, [NoOp EXCEPT !.kind = "reembed", !.at = "accepted", !.source = s,
                            !.target = space, !.todo = Provenance(s)])

Begins == [retire |-> "retiring", reparse |-> "received", reembed |-> "running"]

\* _start
StartOperation(t) ==
    /\ op[t].at = "accepted"
    /\ record' = [record EXCEPT ![t] =
                    [status |-> "running", kind |-> op[t].kind, id |-> IdOf(op[t]),
                     todo |-> op[t].todo, target |-> op[t].target]]
    /\ Goto(t, Begins[op[t].kind])
    /\ UNCHANGED <<deployment, db, objects, spaces, backup, left>>

\* _finish
FinishOperation(t) ==
    /\ op[t].at = "ending"
    /\ record' = [record EXCEPT ![t].status = op[t].outcome]
    /\ op' = [op EXCEPT ![t] = NoOp]
    /\ UNCHANGED <<deployment, db, objects, spaces, backup, left>>

\* An error of the database, the object store or an embedding backend.
Fails(t) ==
    /\ op[t].at \in {"received", "put", "numbered", "embedded", "writing",
                     "retiring", "running", "persisting"}
    /\ End(t, "failed")
    /\ UNCHANGED <<deployment, db, objects, spaces, record, backup, left>>

\* retire_source of the store; the update must find its row.
Retire(t) ==
    /\ op[t].at = "retiring"
    /\ IF op[t].source \in Known
       THEN db' = [db EXCEPT !.sources[op[t].source].status = "retired"] /\ End(t, "complete")
       ELSE UNCHANGED db /\ End(t, "failed")
    /\ UNCHANGED <<deployment, objects, spaces, record, backup, left>>

-----------------------------------------------------------------------------
(***************************************************************************)
(* KnowledgePlatform.ingest.                                                *)
(***************************************************************************)

Put(t) ==
    /\ op[t].at = "received"
    /\ objects' = objects \cup {op[t].content}
    /\ Goto(t, "put")
    /\ UNCHANGED <<deployment, db, spaces, record, backup, left>>

TakeNumber(t) ==
    /\ op[t].at = "put"
    /\ op' = [op EXCEPT ![t].at = "numbered",
                        ![t].number = NextNumber(op[t].source, op[t].content)]
    /\ UNCHANGED <<deployment, db, objects, spaces, record, backup, left>>

\* embed: the texts in slow are embedded by the CPU, those of a failing batch
\* one by one where fallback is allowed, those of a batch whose backend falls
\* back by itself in any case; where the service is told, the whole result has
\* the label of the CPU backend.  It is not told what its own backend did with a
\* text it sent again by itself: that result's flag is dropped.
Embedded(t, o, chunks, space) ==
    \E slow \in SUBSET chunks, told \in BOOLEAN :
        /\ told => slow # {} /\ (fallback \/ space \in worker)
        /\ slow # {} /\ ~told => fallback /\ space \in worker /\ Cardinality(chunks) > 1
        /\ op' = [op EXCEPT ![t] =
                    [o EXCEPT !.label = IF told THEN Cpu ELSE space,
                              !.made = {<<c, IF c \in slow THEN Cpu ELSE space>> : c \in chunks}]]

\* Mutant of Embed: a failed batch is embedded by the CPU without asking.
Embed_AnyFallback(t) ==
    /\ op[t].at = "numbered"
    /\ \E space \in {active, Cpu} :
          op' = [op EXCEPT ![t].at = "embedded", ![t].label = space,
                    ![t].made = {<<c, space>> : c \in ChunksOf(IdOf(op[t]))}]
    /\ UNCHANGED <<deployment, db, objects, spaces, record, backup, left>>

Embed(t) ==
    /\ op[t].at = "numbered"
    /\ Embedded(t, [op[t] EXCEPT !.at = "embedded"], ChunksOf(IdOf(op[t])), active)
    /\ UNCHANGED <<deployment, db, objects, spaces, record, backup, left>>

\* Mutant of Look: the source row is written before the bundle is looked up.
Look_SourceFirst(t) ==
    /\ op[t].at = "embedded"
    /\ IF Stored(IdOf(op[t])) THEN End(t, "complete") ELSE Goto(t, "writing")
    /\ db' = UpsertSource(db, op[t])
    /\ UNCHANGED <<deployment, objects, spaces, record, backup, left>>

\* save_bundle first looks for the bundle; one it has is left as it is.
Look(t) ==
    /\ op[t].at = "embedded"
    /\ IF Stored(IdOf(op[t])) THEN End(t, "complete") ELSE Goto(t, "writing")
    /\ UNCHANGED <<deployment, db, objects, spaces, record, backup, left>>

\* The transaction; a commit whose confirmation is lost raises all the same.
Write(t) ==
    /\ op[t].at = "writing"
    /\ IF backend = "memory"
       THEN db' = MemorySave(op[t]) /\ End(t, "complete")
       ELSE IF Refused(op[t])
       THEN End(t, "failed") /\ UNCHANGED db
       ELSE db' = Transaction(op[t]) /\ \E outcome \in {"complete", "failed"} : End(t, outcome)
    /\ UNCHANGED <<deployment, objects, spaces, record, backup, left>>

-----------------------------------------------------------------------------
(***************************************************************************)
(* EmbeddingMigration.run over the chunks of one source, and activate.      *)
(***************************************************************************)

Remaining(t) == {c \in op[t].todo : c \notin op[t].done}

\* Chunks this process already completed for the space are skipped.
RunStarts(t) ==
    /\ op[t].at = "running"
    /\ LET done == migration[op[t].target].completed
       IN Embedded(t, [op[t] EXCEPT !.at = "persisting", !.done = done],
                   op[t].todo \ done, op[t].target)
    /\ UNCHANGED <<deployment, db, objects, spaces, record, backup, left>>

\* Mutant of Persist: a chunk is marked before its vector is stored.
Persist_MarkFirst(t) ==
    /\ op[t].at = "persisting"
    /\ \E m \in op[t].made :
        /\ m[1] \in Remaining(t)
        /\ op' = [op EXCEPT ![t].done = @ \cup {m[1]}]
        /\ migration' = [migration EXCEPT ![op[t].target].completed = op[t].done \cup {m[1]}]
        /\ \/ db' = UpsertEmbedding(db, m[1], op[t].label, m[2])
           \/ db' = db
    /\ UNCHANGED <<deployment, objects, active, switched, record, backup, left>>

\* One vector is stored and its chunk marked; the mark overwrites what other
\* runs for the space marked meanwhile.
Persist(t) ==
    /\ op[t].at = "persisting"
    /\ \E m \in op[t].made :
        /\ m[1] \in Remaining(t)
        /\ db' = UpsertEmbedding(db, m[1], op[t].label, m[2])
        /\ op' = [op EXCEPT ![t].done = @ \cup {m[1]}]
        /\ migration' = [migration EXCEPT ![op[t].target].completed = op[t].done \cup {m[1]}]
    /\ UNCHANGED <<deployment, objects, active, switched, record, backup, left>>

\* The status compares how many were ever completed with this run's chunks.
RunEnds(t) ==
    /\ op[t].at = "persisting" /\ Remaining(t) = {}
    /\ LET status == IF Cardinality(op[t].done) = Cardinality(op[t].todo)
                     THEN "complete" ELSE "paused"
       IN  migration' = [migration EXCEPT ![op[t].target].status = status] /\ End(t, status)
    /\ UNCHANGED <<deployment, db, objects, active, switched, record, backup, left>>

Activate(space) ==
    /\ migration[space].status = "complete"
    /\ active' = space
    /\ switched' = (switched \/ space # active)
    /\ migration' = [migration EXCEPT ![space].status = "active"]
    /\ UNCHANGED <<deployment, db, objects, op, record, backup, left>>

\* The processes die: the tables and objects stay, the migration state of the
\* embedding service and everything under way are lost.
Restart ==
    /\ backend = "postgres" /\ left > 0
    /\ left' = left - 1
    /\ op' = [t \in Threads |-> NoOp]
    /\ active' = Preferred
    /\ migration' = [space \in Spaces |-> [completed |-> {}, status |-> "registered"]]
    /\ UNCHANGED <<deployment, db, objects, switched, record, backup>>

\* KnowledgePlatform.backup of the in-memory store, once.
Backup ==
    /\ backend = "memory" /\ Idle /\ saved = Nothing
    /\ saved' = [db |-> db, objects |-> objects, record |-> record]
    /\ UNCHANGED <<deployment, db, objects, spaces, op, record, restored, left>>

\* KnowledgePlatform.restore: an object store in memory is replaced, one in
\* files stays as it is; the embedding service keeps its migration state.
Restore ==
    /\ saved # Nothing /\ Idle /\ ~restored
    /\ db' = saved.db /\ record' = saved.record
    /\ objects' \in {saved.objects, objects}
    /\ restored' = TRUE
    /\ UNCHANGED <<deployment, spaces, op, saved, left>>

-----------------------------------------------------------------------------

Init ==
    /\ \E d \in Deployments : backend = d[1] /\ fallback = d[2] /\ worker = d[3]
    /\ db = [sources |-> [s \in Sources |-> Nothing], versions |-> [s \in Sources |-> <<>>],
             artifacts |-> {}, namespaces |-> {}, edges |-> {}, chunks |-> {}, vectors |-> {}]
    /\ objects = {}
    /\ active = Preferred
    /\ migration = [space \in Spaces |-> [completed |-> {}, status |-> "registered"]]
    /\ switched = FALSE
    /\ op = [t \in Threads |-> NoOp]
    /\ record = [t \in Threads |-> NoRecord]
    /\ saved = Nothing /\ restored = FALSE
    /\ left = MaxRequests

Submit(t) ==
    \/ \E d \in Deliveries : Ingest(t, d[1], d[2], d[3], d[4])
    \/ \E s \in Sources :
        \/ RequestRetirement(t, s)
        \/ \E p \in Parsers : RequestReparse(t, s, p)
        \/ \E space \in Spaces : RequestReembed(t, s, space)

Step(t) ==
    \/ StartOperation(t) \/ FinishOperation(t) \/ Fails(t)
    \/ Put(t) \/ TakeNumber(t) \/ Embed(t) \/ Look(t) \/ Write(t)
    \/ Retire(t)
    \/ RunStarts(t) \/ Persist(t) \/ RunEnds(t)

Next ==
    \/ \E t \in Threads : Submit(t) \/ Step(t)
    \/ \E space \in Spaces : Activate(space)
    \/ Restart
    \/ Backup \/ Restore

Spec == Init /\ [][Next]_vars

-----------------------------------------------------------------------------
(***************************************************************************)
(* Properties                                                               *)
(***************************************************************************)

Chunks == UNION {ChunksOf(id) : id \in Ids}

TypeOK ==
    /\ \A s \in Sources :
        /\ db.sources[s] = Nothing \/ db.sources[s] \in
              [status : {"active", "retired"}, hold : BOOLEAN]
        /\ \A row \in Rows(s) : row.id \in Ids /\ row.number \in Nat \ {0}
    /\ db.chunks \subseteq Chunks
    /\ db.vectors \subseteq [chunk : Chunks, space : Spaces, by : Spaces]
    /\ objects \subseteq Contents
    /\ active \in Spaces
    /\ \A space \in Spaces : migration[space].completed \subseteq Chunks
    /\ \A t \in Threads : record[t].status \in {"none", "running", "complete", "paused", "failed"}

\* Whatever fails or dies, and however writers interleave, the store holds
\* whole bundles: each version with its source, its original in the object
\* store, its artifact, all its chunks, and a vector for each of them; and no
\* chunk, edge or vector without what it belongs to.
BundleWhole ==
    /\ \A s \in Sources : \A row \in Rows(s) :
        /\ db.sources[s] # Nothing
        /\ row.id = <<s, row.content, row.parser>>
        /\ row.content \in objects
        /\ <<row.content, row.parser>> \in db.artifacts
        /\ ChunksOf(row.id) \subseteq db.chunks
    /\ \A c \in db.chunks : Stored(c[1]) /\ \E v \in db.vectors : v.chunk = c
    /\ \A v \in db.vectors : v.chunk \in db.chunks
    /\ db.edges \subseteq db.namespaces \X db.namespaces

\* Whether a vector of the model by may stand in a space: its own, that of the
\* CPU for a result part of which fell back, and any where the service and its
\* backend both fall back, as the service does not ask after each text.
MayStand(by, space) ==
    \/ by = space
    \/ space = Cpu /\ (fallback \/ worker # {})
    \/ fallback /\ worker # {}

\* Where a batch may end: in the space it was made for, or by fallback in that
\* of the CPU.
Homes(space) == {space} \cup (IF fallback \/ worker # {} THEN {Cpu} ELSE {})

\* PostgreSQL joins on the space and drops a chunk silently that has no vector
\* in it.  Where neither the service nor a backend falls back to the CPU, a
\* search sees every chunk of the store until the active space is switched;
\* where one does, what the search misses has a vector in the CPU's space.  For
\* that a backend is enough: production switches off the service's fallback,
\* and a worker that falls back by itself still moves chunks out of the active
\* space.  And unless both fall back, no space but that of the CPU holds a
\* vector of another model.
NoneHidden ==
    /\ ~switched => db.chunks = UNION {Searchable(space) : space \in Homes(active)}
    /\ \A v \in db.vectors : MayStand(v.by, v.space)

\* An administrative operation recorded as complete did what it says: the
\* reparsed bundle is stored, every re-embedded chunk has a vector in the
\* target space or, by fallback, in that of the CPU; also when an earlier run
\* failed halfway and this one skipped what that had completed.  Not after a
\* restore: what the process skips then may be gone from the store.
OutcomeTold ==
    \A t \in Threads :
        /\ record[t].status = "complete" /\ record[t].kind = "reparse" => Stored(record[t].id)
        /\ record[t].status = "complete" /\ record[t].kind = "reembed" /\ ~restored =>
              \A c \in record[t].todo :
                  \E v \in db.vectors : v.chunk = c /\ v.space \in {record[t].target, Cpu}

\* A retired source comes back only with a backup or by a writer that did not
\* find its bundle in the store: known content delivered again leaves it so.
RetirementSticks ==
    [][restored' = restored => \A s \in Sources :
         (/\ db.sources[s] # Nothing /\ db.sources[s].status = "retired"
          /\ db'.sources[s].status # "retired")
            => \E t \in Threads : op[t].at = "writing" /\ op[t].source = s]_vars

LedgerOf(d) ==
    UNION {{[source |-> s, content |-> row.content, parser |-> row.parser,
             number |-> row.number] : row \in RowsIn(d.versions[s])} : s \in Sources}

\* The versions of the tables are a VersionLedger: also when writers read
\* their numbers before others commit, no number is given to two contents,
\* none changes short of a restore, and later content is numbered higher.
Ledger == INSTANCE VersionLedger WITH
    ledger <- LedgerOf(db),
    kept <- IF saved = Nothing THEN {} ELSE {LedgerOf(saved.db)}

LedgerContract == Ledger!Spec
=============================================================================
