# Verification of OpenNICF

TLA+ specifications of the stateful parts of OpenNICF, the TLC configurations
that check them on small instances, and TLAPS proofs of the main results for
every instance. Paths are relative to the repository root; Python files without
a directory are under `src/opennicf/`.

## 1. Inventory

OpenNICF takes evidence in, keeps it with its provenance, retrieves it for
model-backed agents and runs read-only diagnostics. The table lists its parts.

| Part (source) | State | Operations | Hard behaviour | What makes it correct |
| --- | --- | --- | --- | --- |
| Diagnostic broker and workers (`diagnostics.py`) | SQLite job and heartbeat tables; a spool directory per worker | `create_job`, `poll`, `complete`, `run_once`, `_recover_spool` | several processes on one table; lease expiry; crash between lease, spool, execution, completion and ingestion | one lease per job; what was ingested is what was recorded; no lease stranded; the spool drains |
| Ingestion queue and service (`ingestion.py`, `service_runtime.py`) | pending, in-progress, completed, dead letters, seen ids; the queue file; landed bytes | `enqueue`, `quarantine`, `claim`, `transition`, `ack`, `fail`, `retry_dead_letter`, `restore`, `process_next` | restart anywhere; a save that fails after memory changed; operator retries; files that change while the watcher reads them | nothing lost; bounded attempts; everything delivered is indexed or set aside |
| Conversation channels (`channels.py`) | event ledger; paging cursor; deliveries at the provider | `handle_webhook`, `sync`, `process_event`, `_send_deliveries` | redelivered events, failed and unconfirmed sends, raising handlers | suppressed events are answered; recorded events are not answered again; sync is complete |
| Release controller (`release.py`, `ops/deployment.py`, `deploy/runtime/`) | `releases/`, the symlinks `current` and `.current.new`, `known_good` | `activate`, `rollback`, `deploy_release` | sessions and services share one symlink without a lock; failed gates and restarts; a session killed in mid-switch | a failed gate leads back to the release found; `current` never disappears; a verdict is true |
| Model gateway (`model_gateway.py`) | circuit breakers, health, usage records | `choose`, `chat`, `stream_chat`, `health_check` | calls and lazy streams share breakers; retries, partial streams, fallback | privacy routing; nothing resent after output; bounded attempts |
| Embedding service and migration (`knowledge/embeddings.py`, `embedding_service.py`) | registered spaces, active space, migration state | `embed`, `switch_active`, `run`, `activate` | per-batch fallback; resumed migrations over changing corpora | one space per result; active space covers the corpus |
| Knowledge store (`knowledge/store.py`, `object_store.py`, `retrieval.py`) | sources, versions, artifacts, chunks, embeddings, retirements | `ingest`, `save_bundle`, `next_version_number`, `retire_source`, snapshot/restore | concurrent ingestion; shared content between sources; re-ingestion of retired sources | versions unique and increasing; provenance intact |
| Knowledge administration (`knowledge/admin.py`, `service.py`) | admin operation records | `retire_source`, `reparse`, `reembed`, `retry_failed_ingestion` | check-then-act on the legal hold; crash between start and finish | held sources stay; operations end |
| Issue dispatcher (`leases.py`, `dispatcher.py`, `runner.py`) | SQLite leases | `acquire`, `dispatch` | a runner that outlives its lease | one runner per issue while leased |
| Operations primitives (`ops/`) | audit hash chain, health | `append`, `readiness` | - | sequential, little state |
| Domain agents and router (`domain_agent.py`, `domain_router.py`, `encargos_sigef.py`, `contraordenacional.py`) | a plan and the evidence per request | `plan`, `route`, the tools, `run` | two resolutions of a domain name, two selections, model-chosen tool arguments; all on one gateway | evidence stays in the request's scope; a local request stays local |
| Integration correlation (`integration_correlation.py`) | tasks, findings and a graph per request | `correlate`, one search per domain in a thread pool | failed searches, the fan-out and evidence limits | gaps are told; nothing is dropped below the limit; the budget is kept, up to a piece per task |
| Audit engine, code index, RAG, benchmark | none shared | batch computations | - | pure functions of text |
| Qwen adapters (`qwen_adapter.py`, `qwen_runtime.py`) | a loaded model | inference | - | numerical |

How the parts meet. Channels submit each message to the ingestion service and
run its queue themselves (`channels.py:495`); the ingestion service process
runs the same queue from a watcher loop (`service_runtime.py:136`). A processed
job is handed to the knowledge platform (`ingestion.py:1551`), and so is the
output of a diagnostic job (`QueryOutputProvenanceHook`). The audit engine
requests diagnostic jobs; workers only poll. The knowledge service exposes the
administration operations over HTTP. Embedding and model calls leave the host
through the gateway and the embedding service. The release controller restarts
the two services.

The hazards of all these parts, each at its line, are the `hazards` of
`PROJECT.json`, with the properties that would show each one going wrong.

## 2. Modules

| Module | Models |
| --- | --- |
| `DiagnosticJobs` | the life cycle the broker promises: requested once, leased at most once, one result or expiry |
| `DiagnosticBroker` | the job table, the broker and the workers with their spools; refines `DiagnosticJobs` |
| `EvidenceIntake` | the ledger the queue file promises to be |
| `IngestionQueue` | the queue, its file, submission, quarantine, `process_next`, operator retries, restart; refines `EvidenceIntake` |
| `IngestionWorker`, `MCIngestionWorker` | the service's thread over a landing tree that others change, which drives `IngestionQueue`; the run's files |
| `ChannelAdapter`, `MCChannelAdapter` | a channel adapter with its ledger, its retries and `sync` over a paging provider; the runs' feed |
| `ModelGateway` | routing, the circuit breaker, calls, retries, streams and fallback |
| `DomainScope` | operators: resolution of domains and systems, selection, the boundary of a search, its hits and packages |
| `DomainRequests`, `MCDomainRequests` | a request through router, agents and coordinator, composed with `ModelGateway`; the run's domains and evidence |
| `VersionLedger` | what the knowledge store promises about versions |
| `KnowledgeStore`, `MCKnowledgeStore` | ingestion, embedding, re-embedding, administration, backup; refines `VersionLedger` |
| `ReleaseController`, `MCReleaseController` | installing, activating and rolling back releases, system call by system call |
| `Subsequences` | what a list comprehension with a condition keeps of a list, without recursion |
| `*_proofs` | the theorems: `DiagnosticBroker_proofs`, `Ingestion_proofs`, `ChannelAdapter_proofs`, `ModelGateway_proofs`, `DomainRequests_proofs`, `KnowledgeStore_proofs`, `ReleaseController_proofs`; `Subsequences_proofs` has lemmas two of them use |

### DiagnosticBroker

Each column of `diagnostic_jobs` that a decision reads is a function of the job
id; hashes, payload and signatures are left out because nothing in the
repository changes them after `create_job`. `pc[w]` is where worker `w` stands in
`run_once`, `work[w]` its locals, `spool[w]` its directory.

A store method is a SELECT followed by an UPDATE whose condition is the job id
alone, and Python's `sqlite3` opens no transaction for a SELECT: the two
statements are two steps (`LeaseSelect`/`LeaseUpdate`,
`CompleteSelect`/`CompleteUpdate`, `PollStale`/`ExpireUpdate`). The constant
`SerialBroker` chooses the environment: TRUE lets no two broker calls overlap
(one process, as in the tests), FALSE lets them overlap (processes sharing the
file). `verify_job`'s expiry check and `lease_job`'s are one decision, taken at
the SELECT; the mark `expired` that `lease_job` writes before it raises is not
in the model because `with conn` rolls it back. Heartbeats are written with the
last step of a pass. `create_job` may give a past `created_at`, so `CreateJob`
takes any instant up to now.

Lease tokens are drawn from a counter, `issued`, in place of random hex: they
are distinct, which is what the code relies on. `grants`, `lost` and `ingested`
are history: the tokens ever written for a job, the tokens whose only copy a
crash destroyed, and the results the hook received.

Faults: the process dies at any step (`Crash`), dies inside `write_text`
(`CrashInWrite`, a torn file), the runner raises, the hook raises. A worker that
dies is started again over the same directory.

### IngestionQueue and IngestionWorker

A queue method changes the lists and then saves everything with `_persist`, so
it is one step; its parameter `saved` is FALSE when the save raises, in which
case memory has changed and the file has not. `at` is where the driving thread
stands inside `quarantine_file` or `process_next`: after the claim, after each
`transition`, after the platform stored the bundle, in the except clause. A
`transition` also rewrites the job's other copies in `pending` (`Rewritten`): a
retried dead letter can queue a job twice, and the waiting copy then has the
attempts of the claimed one. A restart builds memory from the file, queues the
claimed jobs again (in any order, as `in_progress` is saved sorted by key) and
saves. Jobs are ids (one per source and content, as `_build_job` hashes them);
reasons, timestamps and lifecycle logs are left out.

`IngestionQueue` lets any caller use the queue, also after an exception.
`IngestionWorker` is the caller the service has: `process_loop`, which scans the
landing tree and then calls `process_next` until it returns None. `turn` is
where it stands, `todo` and `hand` are the locals of `scan()`, `observed` is the
watcher's memory. Files are written, replaced and removed at any moment by
others (`Sender`), also between `stat()`, the read of `submit_file` and the read
of `quarantine_file`; `Reads` says what is made of each content. An exception
that no watcher catches ends the thread (`turn = "dead"`) while the process
lives on: an OSError of a save or of the landing store, a file that vanished
after `stat()`, content that cannot be parsed. A restart forgets what was
observed. `is_file()` and `stat()` are one step, and a write always changes size
or mtime.

`Operator` stands for a program that shares the queue object between two passes.
The retry endpoint of the knowledge service is not that program: it works on a
queue of its own (`knowledge/service.py:117`), which nothing fills.

### ChannelAdapter

`process_event` is the steps `Accept` (ledger, allow list), `Submit`, `Claim`,
`Ack` or `Fail`, `Handle`, one `Send` per delivery, `Record`. `failures` counts
inside `_retry`. The ledger is a file; what the provider has accepted is `sent`.
The feed, its pages and its cursors stand for the provider (external). An event is
a message without attachments, that is one job.

Of the ingestion queue the model keeps where its jobs are, in memory (`pending`,
`claimed`, `taken`, `settled`) and in the `file`: a save that fails raises with the
change made in memory. So an `enqueue` whose save failed leaves the id in `_seen`
and the job waiting, and a `claim` whose save failed has taken it off the list; the
exceptions of `enqueue`, `claim` and `fail` leave the call, that of `ack` or of a
milestone is caught and becomes a failure of the job. `dropped` is history: the ids
the memory knew and a restart did not find in the file. Attempts, milestones and
the dead letters are in `IngestionQueue`; here a failing job is queued again or
not.

The adapter is called by one thread, since its SQLite connection refuses any
other. So calls do not interleave; faults fall between any two steps.

### ModelGateway and DomainRequests

`call[c]` is the current or last call of caller `c`: its provider, attempt,
whether output was handed on, and whom it has contacted. An attempt is one
request and one outcome; a stream is a generator, so between two of its steps
everybody else may move, and its consumer may never come back (`Abandon`). A
failure is recorded, retried and followed by the fallback once `_normalize_error`
has made a `GatewayError` of it; it can itself raise, on an HTTP error whose body
cannot be read or is JSON but no object, and then the call ends "raised", without
any of these (`ErrorUnread`). The
breaker of the local provider is `breaker`; `is_open` resets one whose time has
passed, as in the code. Counts saturate at the threshold, with which alone they
are compared. `streak` is history. The remote breaker and the health records are
written and read by no decision, and are left out.

In `DomainRequests` every caller is a thread with a request. `Planned` is the
coordinator's selection, `Classify` the model asked instead when no name is
known, `RunAgent` and `Correlate` the two ways on. An agent's turns ask the
model and use a tool with whatever arguments the model made up; the searches of
a correlation (`Delegate`, `DelegateFails`) end in any order. Which visible
chunks match is open: scores and terms are text. What the model answers is
`Answers`. Callers share `gateway`; that the composition is a behaviour of
`ModelGateway` is proved (`GatewayShared`). Selection happens twice, in `route()`
and in `correlate()`, and a domain name is resolved twice, by the coordinator
(`Alias`) and by the agent factory (`AgentAlias`), as in the code.

`RECURSIVE` is avoided: deduplication, the search for the first match and
comprehensions are `Picked(list, kept)` of `Subsequences`.

### KnowledgeStore

`db` is the tables, and a PostgreSQL transaction is one step that applies the
upserts in the order of `save_bundle`; `Refused` is the constraints that abort
it. A thread is at `op[t].at` between two statements: object put, number taken,
vectors made, bundle looked up, transaction. So a number may be stale when it is
written, as two threads may have read the same one. The in-memory store serves
one request at a time. A commit whose confirmation is lost takes effect and
raises. `Fails` is an error of any backend at any of these points; an
administrative operation records it as failed.

`embed` is one step with its result (`Embedded`): without failure the vectors of
the asked space, with failure and fallback some or all made by the CPU backend and
all labelled with its space. A deployment is a store, whether the platform falls
back (`fallback`), and which spaces have a backend that does so by itself
(`worker`): the HTTP worker falls back by default (`embedding_service.py:124`), says
so in its answer, and the platform relabels the whole result whatever its own flag
says (`embeddings.py:655, 666-671`); only the flag of a text it sent again by itself
is dropped. A re-embedding persists vector by vector and marks each
chunk in the state of the process, which a later run resumes from.

The legal hold is checked on the row the code consults: in PostgreSQL the first
source listed, whichever was asked for (`Consulted`).

### ReleaseController

A session is one run of the command line: `Check`, `Unlink`, `Link`, `Replace`,
`Restart`, `Ready` are `_switch` and what follows, one system call each, so that
sessions interleave between them and may be killed there. `back` is set on the
way back after a failed gate. A command ends as `main` reports it: done, blocked
(for a `ReleaseError`, an OSError and a ValueError alike) or, by an exception `main`
does not catch, with a traceback ("raised"). `why` is history and keeps what the
word "blocked" hides: a `ReleaseError` ("gate"), which alone leads back, the OSError
of a link another session moved ("collision"), or what `systemctl` or `readiness`
raise ("error"). `running[s]` is the release a service was started
from; systemd ends and respawns services at any time. Versions are numbered in
the order of their names; the directory of an installation under way,
`.VERSION.tmp.XXXXXX`, sorts before them and is `Unpacked(v)`; `install-release`
makes it, and the layout `Init` starts from.

## 3. What the runs show

| Run | Expect | Question | Bounds |
| --- | --- | --- | --- |
| `diagnostics_serial` | pass | safety and refinement under all four faults | 2 workers, 2 jobs, 2 times to live, clock 0..3, 1 fault |
| `diagnostics_liveness` | pass | the spool drains; requests are served | 2 workers, 2 jobs, clock 0..1, leases that do not expire, 1 fault |
| `diagnostics_race` | violation | is a lease single-use when two processes share the table? | 2 workers, 1 job, no faults |
| `diagnostics_outage` | violation | does the spool drain when a lease expires during an outage? | 1 worker, 2 jobs, 1 crash |
| `ingestion_faults` | pass | safety and refinement of the queue, whoever calls it | 2 jobs (1 malformed), 2 attempts, 3 crashes or failed saves, 1 retry |
| `ingestion_liveness` | pass | is everything delivered settled by the service's thread? | 2 paths (an archive of two, a document), 2 contents each, 2 writes or removals, 1 fault, 1 retry |
| `ingestion_resubmit` | violation | does an acknowledged submission survive a restart? | 1 job, 2 faults |
| `channel_feed` | pass | safety and liveness of the adapter | 3 events on 2 pages, 2 deliveries, 2 attempts, 3 faults |
| `channel_redelivery` | violation | is an event answered once? | the same feed, 2 failed sends |
| `requests` | pass | privacy, scope, budget, gaps, breaker, termination of requests on one gateway | 2 callers, 5 loads over 5 domains, fan-out 3, budget 4, 1 retry, threshold 2, clock 0..1, 1 tool turn |
| `knowledge` | pass | whole bundles, visible chunks, true records, the version ledger | 5 deployments, 2 sources, 2 contents, 2 parsers, 2 spaces, 2 threads, 3 requests, 1 backup |
| `release` | pass | does the link survive, where does a command leave it? | 2 versions, 2 services, 2 sessions, 2 commands |

Why the bounds are enough. Two jobs and two workers are the smallest instance in
which a job can be taken by either worker, one job blocks another and a spool
directory holds a file another worker's lease refers to; a clock of 0..3 with a
lease of 1 lets a lease and a request expire before, at and after each step. In
the queue two attempts and three faults reach the limit by a crash, by a failure
and by a mixture. Two writes let a half copied file be completed, replaced or
removed at every point of a pass. Two pages, two deliveries and two attempts
give the adapter a page after a page, a delivery after a delivered one, and a
retry that succeeds or is the last. Two callers let every outcome of one call
fall between two steps of another, with a threshold both must reach; the loads
name fewer, as many and more domains than the fan-out, systems inside and
outside an ACL, and names only one of the two resolutions knows. Three requests
on two threads let two writers race and a third find what they left; a content
of two blocks lets a re-embedding stop halfway; the deployments are PostgreSQL with
each combination of the two fallbacks, production among them, and the in-memory
store without any: with them its `embed` would be the same step, and the state
space twice as large. Three faults of the channel are what it takes to lose a save
of `enqueue`, one of `claim` and the process. Two sessions and two versions
let each step of a switch meet each step of another. Time stops where it must:
`CHECK_DEADLOCK FALSE` is set where requests, commands or the thread may come to
an end. Threads, services and sessions are interchangeable, hence the symmetry
in `knowledge` and `release`, which check no liveness.

The violations are disagreements between the code and what the repository says
of it; `findings` in `PROJECT.json` quotes both sides.

- **Double lease.** `lease_job` does not repeat `status = 'pending'` in its
  UPDATE. Two processes can be handed the same job.
- **Poisoned spool.** A result whose lease expired raises in every later
  `run_once`, before anything else is done.
- **Forgotten submission.** An id whose first save failed stays in `_seen`; the
  repeated submission returns normally without being saved.
- **Repeated answer.** An event whose second delivery fails for good is not
  recorded, and is answered from the start when it comes again.

What the models showed beside that, without a run of its own:

- `SyncEnds` holds for feeds whose last page is short, as in the run. When the
  last page is full and has no cursor, `sync` fetches from cursor None again; with
  a provider that starts over there it does not end, which is proved of all such
  feeds.
- A correlation exceeds its evidence budget when it has more tasks than budget
  (`integration_correlation.py:904-906`): each task gets at least one piece, and
  `task_budget % n` is then the whole budget, handed out on top; three tasks with a
  budget of one may return four pieces. The finding it writes (line 520) says that
  the evidence "remained compact within the requested budget".
  `BudgetKept` states what holds: the budget when there are no more tasks than
  that, otherwise the budget and one piece for each task.
- `DeliveredIsSettled` says "or the thread is dead": one file that cannot be
  parsed, is too large or vanishes during a pass ends the ingestion thread, and
  the service goes on reporting itself ready.
- `quarantine_file` reads the file again and may refuse other bytes than those
  that were found invalid; `DeliveredIsSettled` holds because the marker is older.
- On PostgreSQL a reparse with a new parser version always fails: the version row
  keeps its identifier, and the artifact's reference does not find the new one.
  `docs/knowledge-service.md:39-40` says that it "creates a new parser-versioned
  bundle", which holds of the in-memory store only.
- On PostgreSQL the legal hold is checked on the first source listed. `save_bundle`
  there saves no code symbols, and a search cuts its rows before they are ranked.
- A webhook event can be answered and recorded although no queue file holds its
  evidence: the save of `enqueue` fails, then that of `claim`, and the third delivery
  finds the id seen and nothing to run (`ingestion.py:185-189, 212-218`,
  `channels.py:495`). A restart then loses the evidence, and the ledger suppresses
  the event. `SuppressedIsServed` excuses what a restart `dropped`; where no save
  fails, the evidence is on file (`SuppressionIsDurable`).
- An HTTP error of the local model with a JSON body that is no object ends a call
  with an AttributeError (`model_gateway.py:665`): the breaker does not hear of it and
  the remote model is not asked, though the policy allows it. `FallbackTried` speaks
  of calls that end with a `GatewayError`.
- Switching off `allow_cpu_fallback` in the platform, as production does, keeps no
  chunk in the active space while the embedding worker's own is on. `NoneHidden`
  says where the chunk is then: in the space of the CPU, which a search of the active
  space does not see.
- A job that waits twice, as a retried dead letter can make it, takes the attempts of
  its claimed copy while it waits; `AttemptBudget` holds with this, as what waits was
  given its attempts by a claim the limit allowed.
- A restored backup takes vectors away that the process still holds for
  re-embedded; the next run skips them and reports complete.
- The in-memory provenance of a source finds chunks by artifact, and so those of
  another source with the same content.
- `rollback` takes the last name of the directory, not the previous release, and
  may take the directory of an interrupted installation.
- `deploy/runtime/README.md:6` says that "A failed gate restores the previous
  symlink". An OSError from `systemctl`, a `readiness` that raises, and a first
  activation leave the new release current, and `main` reports the first "blocked"
  like a gate that failed. `VerdictHolds` states which ending leaves current where.

## 4. Fairness

- Broker: weak fairness of each worker's step. A worker is a loop around
  `run_once`; every step is taken by a running process, and crashes are bounded.
- Ingestion service: weak fairness of the step of the worker thread (`Scan \/
  Work`), a loop that waits for nobody.
- Channel: weak fairness of the adapter's own step and of calling `sync`.
  Webhooks and faults owe nothing.
- Requests: weak fairness of each caller's thread. Every request to a provider
  has a timeout, so an attempt ends, one way or the other; which, is open.

Submissions, files, faults, operators, health checks and the clock are never
fair. `knowledge` and `release` state no liveness: their requests may fail or be
killed anywhere, and what is left then is what their safety properties say.

## 5. What is proved

Every theorem holds for all values of the constants that satisfy the module's
named ASSUME, which TLC evaluates in the runs. `PROJECT.json` lists the theorems
with the properties they state.

| Module | Theorems | Needs |
| --- | --- | --- |
| `DiagnosticBroker_proofs` | `TypeCorrect`, `LeaseNeverStranded`, `UnlinkOnlyRecorded` | - |
| | `LeasesAreSingleUse`, `EvidenceIsRecorded`, `BrokerImplementsContract` (refinement), `OutlivedIsStuck` | `SerialBroker` |
| | `SpooledIsAccepted` | `SerialBroker`, leases longer than the clock |
| | `RaceIsBounded` | finitely many workers |
| `Ingestion_proofs` | `QueueTyped`, `NoJobIsLost`, `AttemptsBounded`, `EveryJobHasAPlace`, `FileIsLedger` (refinement), `ServiceUsesQueue` (composition), `NothingIsLeftUndone` | - |
| | `AcknowledgedSurvives` | no failing save |
| `ChannelAdapter_proofs` | `TypeCorrect`, `RecordedIsSilent`, `SuppressionIsSafe`, `NothingIsSkipped`, `RepetitionIsPaidFor` | - |
| | `SuppressionIsDurable` | no failing save of the queue |
| | `AnsweredOnceUnbroken` | no failing send, no crash |
| | `SyncMovesOn` | a feed that does not end with a full page |
| | `FullLastPageNeverEnds` | a feed that does |
| `ModelGateway_proofs` | `TypeCorrect`, `BreakerEarned`, `PolicyIsKept`, `FallbackIsTried`, `NeverReplayed`, `RetriesEnd` | - |
| `DomainRequests_proofs` | `GatewayShared` (composition), `GatewayHolds`, `RequestsTyped`, `StaysLocal`, `BoundaryKept`, `GapsTold`, `DropsFlagged`, `BudgetIsKept`, `RequestsMoveOn` | - |
| `KnowledgeStore_proofs` | `TypeCorrect`, `RetirementStays`, `LedgerHolds` (refinement), `BundlesStayWhole`, `NothingHidden`, `OutcomesAreTrue` | - |
| `ReleaseController_proofs` | `TypeCorrect`, `CurrentIsKept`, `LeftoversAreHarmless`, `VerdictsHold` | - |

**Broker.** The first three hold however broker calls interleave.
`LeaseAccounted` is not inductive: that a worker unlinks only what the table no
longer waits for needs `DeliveryInv`, which says that tokens are drawn in
increasing order (so an UPDATE never brings back an old one), that between its
first write and the unlink a worker's file carries its lease (`SpoolMatches`),
and that a delivered lease is not one the table still waits for
(`DeliveredNotAwaited`). `RecordedInv` adds that what was delivered has a
result, from which `UnlinkedAfterRecorded` follows step by step.
`LeasesAreSingleUse`, `EvidenceIsRecorded` and `BrokerImplementsContract` need
that broker calls do not overlap; the run `diagnostics_race` shows that the
assumption is necessary. `SerialInv` states the mutual exclusion itself
(`StoreMutex`), what each status says of the row (`RowState`), what each step of
a worker says of the row it works on (`WorkerState`), and what a spool file says
of it (`SpoolState`). In the refinement every step of the broker maps to a step
of `DiagnosticJobs` on the row it writes, or to a stutter.

`RaceIsBounded` says how far that race goes without the assumption: as no row
becomes pending again, only the workers that polled a job before its first lease
can still be granted one, and each of them once, so that the leases granted and
the workers still claiming the job are together no more than the workers.

Two theorems are the two sides of the finding of `diagnostics_outage`. A lease is
counted from the instant its worker polled; while the clock cannot pass its end
(`Timely`), `RowState` and `WorkerState` leave `complete_job` no reason to refuse a
spooled result (`SpooledIsAccepted`). Once a lease is over or a file is torn, the
worker that meets it first stays as it is, and its spool with it
(`OutlivedIsStuck`): nobody else can finish the job, as a job is in the hands of
one worker only (`OneHolder`).

**Ingestion.** `QueueInv` is inductive for any caller of the queue and every
fault. It says that memory and file each account for exactly the ids in `seen`,
that the thread's job is claimed in the file from the saved claim to the
end (`ThreadOK`) - without that a failure might publish a job the file never
saw accepted -, that completed jobs are indexed, and that for each job the step
from what the file says to what memory says is one the ledger allows
(`Publishable`): so the next save that works, after any number that failed, is a
step of `EvidenceIntake`, and a failed save or a restart is a stutter.
`WithinBudget` is what `AttemptBudget` needs beside it: a milestone gives every
waiting copy of a job the attempts of the claimed one, so it does not do to bound
each copy. `Room` counts them: the attempts a job has had and the copies that can
each buy one more stay together within `Limit`, which an operator's retry or a
fault raises by the one copy or attempt it adds.
`ServiceUsesQueue` then shows that the worker's behaviours are the queue's,
which brings all four results to the service; it needs that a path in the tree
always has a known reading and that the file in hand is one of the paths
(`WorkerOK`).

`EveryJobHasAPlace` says where: waiting, claimed, completed, or quarantined with
its dead letter, in memory and in the file. `AcknowledgedSurvives` is the other
side of the finding of `ingestion_resubmit`: where no save fails, the file follows
memory whenever the caller has an answer (`FileFollows`), so that failing saves
are all the finding needs. `NothingIsLeftUndone` is the safety half of
`DeliveredIsSettled`, for any tree, writer and number of faults: when the thread
rests and nothing is pending, what it has taken is settled, and so is every job of
a file that is as the watcher remembers it. Its invariant says in which
calls of the queue the thread may be at each turn (`TurnOK`), that while the thread
lives no job is claimed but the one it works on (`HandsOn`), and for the tree
(`TreeOK`): a file that is still the one that was looked at has been submitted or
refused as far as the thread has got with it, and a file that carries the mark the
watcher remembers was taken in full. It holds although files are replaced between
the look and the reads, as the mark is taken before the bytes.

**Channel.** `Typed` and `Paged` (a pass stands at an item of its page) carry
`Fresh` (the event being answered is not recorded), from which
`SilentOnceRecorded` follows; `Served` says of a call under way what it has
delivered and queued so far, in memory, and `OnFile` the same of the queue's file
where no save fails; `Walked` says that a pass has recorded the feed up
to its cursor.

`Repeated` counts how often a delivery went out, and charges each repetition to a
failed send or a crash; jobs that fail and handlers that raise cost nothing, as
nothing has been sent yet. With such faults excluded it is `AnsweredOnce`, which the
run `channel_redelivery` shows to fail with them. `Aligned` says that the cursor is
the start of a page that is not empty: so a pass that reaches a full last page
never returns (`FullLastPageNeverEnds`), and in every other feed each step goes
further in a finite order (`SyncMovesOn`): to a later page, to a later item, to
the next step of the answer; a repeated call costs one of a bounded number of
faults. That is the measure under which weak fairness gives `SyncEnds`.

**Gateway and requests.** `BreakerOK` ties the breaker's count to `streak`;
`CallsOK` says where a call may be after its attempts, for each policy.
`GatewayShared` shows that the composed system uses the gateway only as
`ModelGateway` allows, so these theorems hold in it. `AsRequested` adds that
every call carries the policy of its request. `RequestsOK` is the invariant of a
request: `ShapeOK`, `PlanOK` (an agent has one domain, a correlation the domains
of a selection without error, one task each) and `FoundOK` (what was found lies
within the bounds of one of its domains, for whatever tool arguments the model
chose). `DropsFlagged` rests on a lemma that selecting again from selected
domains drops none of them below the fan-out.

`BudgetOK` says of a correlation that what it holds is at most the quotient for
each search that has returned, and one more for each of the first of them that
the remainder went to; the shares then add up by counting (`SharesAddUp`), with no
sum over the tasks. `RetriesEnd` numbers the requests a call may make, first to the
local provider, then to the remote one, and shows that each step of a call ends it
or takes it to a later number. `RequestsMoveOn` builds on it: `Attended` says which
states of its call a request can meet at each stage, so that the thread never
waits for a call that is over or was never made, and every step of the thread uses
up a tool turn, reaches a later stage, settles a search or moves its call forward.

**Knowledge store.** `NumbersOK` says that a row of a PostgreSQL source is
numbered by its place and that a request's number is its content's or one
PostgreSQL will refuse; the refinement of `VersionLedger` follows. `WholeOK`
adds what a request under way relies on (its original is stored, its vectors are
of all its chunks). `VectorsOK` says that a vector stands in a space its model
may stand in (`MayStand`), and that until the active space is switched each
chunk has one in the preferred space or, where something falls back, in that of
the CPU; and `ToldOK` what an operation about to report complete, and what the
process marked as done, have in the store.

**Release.** `Typed` says what a session has found and targets at each step,
`Installed` that links lead to installed releases, and `Undisturbing` that a
session either is alone or has been counted as having met another; from it
`VerdictHolds` follows for commands that met none, by the step that ends them,
whatever was killed before; `LeftoverHarmless` is a part of it.

**Only model-checked.** Liveness under fairness and ENABLED are beyond the prover:
`SpoolDrains`, `PendingIsServed`, `DeliveredIsSettled`, `FeedIsAnswered`,
`SyncEnds`, `RequestEnds`. Proved for them is what their fairness has to be applied
to: the measures of `SyncMovesOn` and `RequestsMoveOn`, the settled states of
`NothingIsLeftUndone`, and `SpooledIsAccepted`.

## 6. State of the plan

Modelled, checked and proved as above: the broker, the ingestion queue with its
service, the channels, the gateway with router, agents and coordinator, the
knowledge platform with embedding and administration, the release command line.

What would add most next:

1. `SFTPWatcher` and the mail watcher as further callers of `IngestionQueue`, with
   `reprocess()`, which only enqueues further ids.
2. The composition of ingestion and knowledge store: `ProcessJob` as the request
   `Ingest`, with the platform's failures in the place of `ProcessFails`.
3. The code symbol index and the limit of a PostgreSQL search before ranking, where
   the two stores differ.
4. The parser's effect on ids in the channels (a Webex message is one event by
   webhook and another by sync).

## 7. Not modelled, and why

- **Conversions of text.** Request validation, SQL policy and signing in the broker,
  parsers and archive expansion in the ingestion service, payload normalisation
  in the channels, message conversion, redaction and prompts: their result,
  accepted or refused, or which piece matches, is an input of the models.
- **`DeploymentController`** (`ops/deployment.py`) runs callbacks that only the operations
  runner binds; **the dispatcher and its leases** acquire a row before a command whose
  pipeline is not in the repository, and nothing renews or releases it.
- **Operations primitives** (health, audit chain, secrets) are sequential and no
  decision reads their state back. **Audit engine, code index, RAG, benchmark** are batch
  computations over text without state that calls share.
- **The embedding HTTP service** hands a request to the embedding code that is modelled;
  of its own decisions the model has the fallback (`worker`).
  **Qwen adapters and runtime**: the chat model is the model behind an agent's turns in
  `DomainRequests`; inference is numerical.
- **`SFTPWatcher`** remembers paths only, so a file read while it is uploaded is never
  read again; no service constructs it. **Other channel adapters** differ from the one
  modelled in how they parse payloads.
- Schema migrations, records of retrievals and audits, listings, token counts and
  limits on results.
