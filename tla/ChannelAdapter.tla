--------------------------- MODULE ChannelAdapter ---------------------------
(***************************************************************************)
(* A conversation channel (ConversationChannelAdapter): events reach it    *)
(* from webhooks and from sync(), which pages through the provider's feed; *)
(* each is ingested, answered with the handler's deliveries and recorded   *)
(* in the event ledger, which suppresses it from then on.                  *)
(*                                                                         *)
(* One thread calls the adapter (its SQLite ledger allows no other), so    *)
(* the steps of a call interleave with nothing but faults; what a dead     *)
(* process leaves behind is the ledger, the file of the ingestion queue    *)
(* and the deliveries the provider has accepted, and what a raising call   *)
(* leaves behind is also the queue in memory, which a save that failed     *)
(* sets apart from its file.  The queue is modelled on its own in          *)
(* IngestionQueue, and here by where its jobs are; an event is one job, a  *)
(* message without attachments.                                            *)
(***************************************************************************)
EXTENDS Subsequences

CONSTANTS
  Feed,         \* the provider's events, in the order of its pages
  Allowed,      \* the events the allow list permits
  Backlog,      \* jobs other sources have queued for ingestion
  Replies,      \* deliveries in a handler's response
  Limit,        \* items per page
  MaxAttempts,  \* RetryPolicy.max_attempts
  FaultKinds,   \* the faults of this environment, a subset of AllFaults
  MaxFaults     \* bound on the number of faults

AllFaults == {"unsent", "unconfirmed", "raise", "job", "disk", "crash"}

Events == {Feed[i] : i \in DOMAIN Feed}

ASSUME AdapterAssumption ==
  /\ Feed \in Seq(Nat)
  /\ Allowed \subseteq Events
  /\ Backlog \subseteq Nat \ Events
  /\ Replies \in Nat
  /\ Limit \in Nat \ {0}
  /\ MaxAttempts \in Nat \ {0}
  /\ FaultKinds \subseteq AllFaults
  /\ MaxFaults \in Nat

VARIABLES
  \* what survives the process
  ledger,       \* the recorded events
  file,         \* the ingestion queue as last saved
  sent,         \* how often the provider has each delivery of each event
  \* the ingestion queue in memory
  pending,      \* its pending list
  claimed,      \* in_progress, in the order of the claims
  taken,        \* the ids it has seen
  settled,      \* the jobs with an outcome or a final dead letter
  \* the call in progress
  at,           \* its next step
  event,        \* the event of process_event, 0 if none
  job,          \* the job of process_next, 0 if none
  delivery,     \* the delivery being sent
  failures,     \* failed attempts inside _retry
  syncing,      \* inside sync()
  page, item, cursor,  \* its locals; cursor 0 is None
  \* history and bounds
  synced,       \* some sync() has returned
  dropped,      \* the jobs a restart has lost, as no save recorded them
  faults

memory  == <<pending, claimed, taken, settled>>
queue   == <<memory, file, job, dropped>>
durable == <<ledger, sent, queue>>
call    == <<at, event, delivery, failures>>
paging  == <<syncing, page, item, cursor>>
vars    == <<durable, call, paging, synced, faults>>

Steps == {"idle", "fetch", "items", "ingest", "run", "work", "failing", "handle", "send"}
Jobs  == Events \cup Backlog

\* A rejection is a single delivery.
Deliveries(e) == IF e \in Allowed THEN Replies ELSE 1

Queue == [pending |-> pending, claimed |-> claimed, taken |-> taken, settled |-> settled]

Init ==
  /\ ledger = {}
  /\ pending \in {s \in [1..2 -> Backlog] : s[1] # s[2]} \cup {<<>>}
  /\ taken = {pending[i] : i \in DOMAIN pending}
  /\ claimed = <<>> /\ settled = {} /\ job = 0 /\ dropped = {}
  /\ file = Queue
  /\ sent = [e \in Events |-> [d \in 1..Deliveries(e) |-> 0]]
  /\ at = "idle" /\ event = 0 /\ delivery = 0 /\ failures = 0
  /\ syncing = FALSE /\ page = <<>> /\ item = 0 /\ cursor = 0
  /\ synced = FALSE
  /\ faults = 0

Fault(kind) == kind \in FaultKinds /\ faults < MaxFaults /\ faults' = faults + 1

Goto(step, e) == at' = step /\ event' = e /\ delivery' = 1 /\ failures' = 0
Leave(step)   == at' = step /\ event' = 0 /\ delivery' = 0 /\ failures' = 0

\* An exception leaves process_event and the sync() around it.
Raise ==
  /\ Leave("idle")
  /\ syncing' = FALSE /\ page' = <<>> /\ item' = 0 /\ cursor' = 0

\* The attempts of _retry: the last failure is raised.
Retry_OneMore ==
  IF failures = MaxAttempts
  THEN Raise
  ELSE failures' = failures + 1 /\ UNCHANGED <<at, event, delivery, paging>>

Retry ==
  IF failures + 1 = MaxAttempts
  THEN Raise
  ELSE failures' = failures + 1 /\ UNCHANGED <<at, event, delivery, paging>>

(***************************************************************************)
(* process_event()                                                         *)
(***************************************************************************)
Home == IF syncing THEN "items" ELSE "idle"

\* Mutant of Accept: the ledger is not consulted.
Accept_Unseen(e) ==
  IF e \in Allowed THEN Goto("ingest", e) ELSE Goto("send", e)

\* Mutant of Accept: a rejected sender gets no answer and no ledger row.
Accept_Ignored(e) ==
  IF e \in Allowed \ ledger THEN Goto("ingest", e) ELSE Leave(Home)

Accept(e) ==
  CASE e \in ledger            -> Leave(Home)
    [] e \in Allowed \ ledger  -> Goto("ingest", e)
    [] OTHER                   -> Goto("send", e)

\* handle_webhook(): the provider may deliver an event at any time, again too.
Webhook(e) ==
  /\ at = "idle"
  /\ Accept(e)
  /\ UNCHANGED <<durable, paging, synced, faults>>

(***************************************************************************)
(* _ingest_event(): submit, then ingestion.run(max_jobs=len(jobs)).  Each  *)
(* change of the queue is made in memory and then saved; a save that fails *)
(* raises with the change made.                                            *)
(***************************************************************************)
Persist(saved) ==
  IF saved
  THEN file' = Queue' /\ UNCHANGED faults
  ELSE Fault("disk") /\ UNCHANGED file

Submitted(saved) ==
  IF saved THEN Goto("run", event) /\ UNCHANGED paging ELSE Raise

\* A job the queue has seen is not queued again, nor saved.
SubmitSeen ==
  /\ at = "ingest"
  /\ event \in taken
  /\ Submitted(TRUE)
  /\ UNCHANGED <<durable, synced, faults>>

Submit(saved) ==
  /\ at = "ingest"
  /\ event \notin taken
  /\ taken' = taken \cup {event}
  /\ pending' = Append(pending, event)
  /\ UNCHANGED <<ledger, sent, claimed, settled, job, synced>>
  /\ dropped' = dropped \ {event}
  /\ Persist(saved)
  /\ Submitted(saved)

RunEmpty ==
  /\ at = "run"
  /\ pending = <<>>
  /\ Goto("handle", event)
  /\ UNCHANGED <<durable, paging, synced, faults>>

\* run() works off the head of the queue, whose job may be another's; nothing
\* catches what claim() raises.
Claim(saved) ==
  /\ at = "run"
  /\ pending # <<>>
  /\ pending' = Tail(pending)
  /\ claimed' = Append(claimed, Head(pending))
  /\ UNCHANGED <<ledger, sent, taken, settled, dropped, synced>>
  /\ Persist(saved)
  /\ IF saved
     THEN job' = Head(pending) /\ Goto("work", event) /\ UNCHANGED paging
     ELSE job' = job /\ Raise

Unclaimed == Picked(claimed, {i \in DOMAIN claimed : claimed[i] # job})

\* process_next() after the claim, to its ack(); the except clause catches a
\* save that fails.
Ack(saved) ==
  /\ at = "work"
  /\ claimed' = Unclaimed
  /\ settled' = settled \cup {job}
  /\ UNCHANGED <<ledger, sent, pending, taken, dropped, paging, synced>>
  /\ Persist(saved)
  /\ IF saved
     THEN job' = 0 /\ Goto("handle", event)
     ELSE job' = job /\ Goto("failing", event)

\* The job fails before, itself or in the save of one of its milestones.
JobFails(kind) ==
  /\ at = "work"
  /\ Fault(kind)
  /\ Goto("failing", event)
  /\ UNCHANGED <<durable, paging, synced>>

\* fail(): the job is queued again while it has attempts left; nothing catches
\* what its save raises.
Fail(again, saved) ==
  /\ at = "failing"
  /\ claimed' = Unclaimed
  /\ pending' = IF again THEN Append(pending, job) ELSE pending
  /\ settled' = IF again THEN settled ELSE settled \cup {job}
  /\ job' = 0
  /\ UNCHANGED <<ledger, sent, taken, dropped, synced>>
  /\ Persist(saved)
  /\ IF saved THEN Goto("handle", event) /\ UNCHANGED paging ELSE Raise

\* runtime_handler.handle()
Handle ==
  /\ at = "handle"
  /\ Goto("send", event)
  /\ UNCHANGED <<durable, paging, synced, faults>>

\* The submission raises before it reaches the queue, or the handler does.
CallRaises ==
  /\ at \in {"ingest", "handle"}
  /\ Fault("raise")
  /\ Raise
  /\ UNCHANGED <<durable, synced>>

Delivered == [sent EXCEPT ![event][delivery] = @ + 1]

\* transport.send_delivery()
Send ==
  /\ at = "send"
  /\ delivery <= Deliveries(event)
  /\ sent' = Delivered
  /\ delivery' = delivery + 1
  /\ failures' = 0
  /\ UNCHANGED <<ledger, queue, at, event, paging, synced, faults>>

\* A transient error or a rate limit: the provider does not have the message.
SendFails ==
  /\ at = "send"
  /\ delivery <= Deliveries(event)
  /\ Fault("unsent")
  /\ Retry
  /\ UNCHANGED <<durable, synced>>

\* The provider has the message, the adapter sees a transient error.
SendUnconfirmed ==
  /\ at = "send"
  /\ delivery <= Deliveries(event)
  /\ Fault("unconfirmed")
  /\ sent' = Delivered
  /\ Retry
  /\ UNCHANGED <<ledger, queue, synced>>

\* Mutant of Record: recorded as soon as the first delivery is out.
Record_First ==
  /\ at = "send"
  /\ delivery > 1
  /\ ledger' = ledger \cup {event}
  /\ Leave(Home)
  /\ UNCHANGED <<queue, sent, paging, synced, faults>>

Record ==
  /\ at = "send"
  /\ delivery > Deliveries(event)
  /\ ledger' = ledger \cup {event}
  /\ Leave(Home)
  /\ UNCHANGED <<queue, sent, paging, synced, faults>>

(***************************************************************************)
(* sync()                                                                  *)
(***************************************************************************)
StartSync ==
  /\ at = "idle"
  /\ syncing' = TRUE /\ page' = <<>> /\ item' = 0 /\ cursor' = 0
  /\ Leave("fetch")
  /\ UNCHANGED <<durable, synced, faults>>

\* The provider: a page from the cursor on, without a next_cursor at the end.
MinOf(a, b)     == IF a < b THEN a ELSE b
PageAt(c)       == SubSeq(Feed, c + 1, MinOf(c + Limit, Len(Feed)))
HasNextCursor   == cursor + Limit < Len(Feed)

SyncReturns ==
  /\ syncing' = FALSE /\ page' = <<>> /\ item' = 0 /\ cursor' = 0
  /\ Leave("idle")
  /\ synced' = TRUE

FetchPage ==
  /\ at = "fetch"
  /\ IF PageAt(cursor) = <<>>
     THEN SyncReturns
     ELSE /\ page' = PageAt(cursor) /\ item' = 1
          /\ Leave("items")
          /\ UNCHANGED <<syncing, cursor, synced>>
  /\ UNCHANGED <<durable, faults>>

FetchFails ==
  /\ at = "fetch"
  /\ Fault("unsent")
  /\ Retry
  /\ UNCHANGED <<durable, synced>>

NextItem ==
  /\ at = "items"
  /\ item <= Len(page)
  /\ item' = item + 1
  /\ Accept(page[item])
  /\ UNCHANGED <<durable, syncing, page, cursor, synced, faults>>

\* Mutant of NextPage: a full page ends the loop as well.
NextPage_Full ==
  /\ at = "items"
  /\ item > Len(page)
  /\ IF Len(page) <= Limit
     THEN SyncReturns
     ELSE /\ cursor' = cursor + Limit
          /\ Leave("fetch")
          /\ UNCHANGED <<syncing, page, item, synced>>
  /\ UNCHANGED <<durable, faults>>

\* Mutant of NextPage: the cursor is not advanced.
NextPage_Same ==
  /\ at = "items"
  /\ item > Len(page)
  /\ IF ~HasNextCursor /\ Len(page) < Limit
     THEN SyncReturns
     ELSE Leave("fetch") /\ UNCHANGED <<paging, synced>>
  /\ UNCHANGED <<durable, faults>>

\* Without a cursor after a full page the next fetch starts at None again.
NextPage ==
  /\ at = "items"
  /\ item > Len(page)
  /\ IF ~HasNextCursor /\ Len(page) < Limit
     THEN SyncReturns
     ELSE /\ cursor' = IF HasNextCursor THEN cursor + Limit ELSE 0
          /\ Leave("fetch")
          /\ UNCHANGED <<syncing, page, item, synced>>
  /\ UNCHANGED <<durable, faults>>

(***************************************************************************)
(* The specification.  The caller keeps calling sync(); webhooks and       *)
(* faults owe nothing.                                                     *)
(***************************************************************************)
\* The process dies, in a call or between two, and a new one is started:
\* restore() queues the file's claimed jobs again and saves.
Crash ==
  /\ Fault("crash")
  /\ Raise
  /\ pending' = file.pending \o file.claimed
  /\ claimed' = <<>> /\ taken' = file.taken /\ settled' = file.settled
  /\ file' = Queue'
  /\ job' = 0
  /\ dropped' = dropped \cup (taken \ file.taken)
  /\ UNCHANGED <<ledger, sent, synced>>

Working ==
  \/ SubmitSeen \/ Submit(TRUE) \/ RunEmpty \/ Claim(TRUE) \/ Ack(TRUE)
  \/ \E again \in BOOLEAN : Fail(again, TRUE)

Step == Working \/ Handle \/ Send \/ Record \/ FetchPage \/ NextItem \/ NextPage

WorkFails ==
  \/ Submit(FALSE) \/ Claim(FALSE) \/ Ack(FALSE)
  \/ \E kind \in {"job", "disk"} : JobFails(kind)
  \/ \E again \in BOOLEAN : Fail(again, FALSE)

Failure == WorkFails \/ CallRaises \/ SendFails \/ SendUnconfirmed \/ FetchFails \/ Crash

Next == (\E e \in Events : Webhook(e)) \/ StartSync \/ Step \/ Failure

Fairness == WF_vars(Step) /\ WF_vars(StartSync)

Spec     == Init /\ [][Next]_vars
FairSpec == Spec /\ Fairness

(***************************************************************************)
(* Properties                                                              *)
(***************************************************************************)
Lists ==
  [pending : Seq(Jobs), claimed : Seq(Jobs), taken : SUBSET Jobs, settled : SUBSET Jobs]

TypeOK ==
  /\ ledger \subseteq Events
  /\ {Queue, file} \subseteq Lists
  /\ job \in Jobs \cup {0}
  /\ dropped \subseteq Jobs
  /\ \A e \in Events : sent[e] \in [1..Deliveries(e) -> Nat]
  /\ at \in Steps
  /\ event \in Events \cup {0}
  /\ delivery \in 0..(Replies + 2)
  /\ failures \in 0..(MaxAttempts - 1)
  /\ syncing \in BOOLEAN
  /\ page \in Seq(Events)
  /\ item \in Nat
  /\ cursor \in 0..Len(Feed)
  /\ synced \in BOOLEAN
  /\ faults \in Nat

\* Where the queue has a job.
Kept(q) == q.settled \cup In(q.pending) \cup In(q.claimed)

\* The ledger suppresses an event only when every delivery of its answer has
\* reached the provider and, if it was allowed, its evidence is in the queue or
\* settled: all that can take it away is a restart before a save of the queue
\* that failed was made good.
SuppressedIsServed ==
  \A e \in ledger :
    /\ \A d \in 1..Deliveries(e) : sent[e][d] > 0
    /\ e \in Allowed => e \in Kept(Queue) \cup dropped

\* Once an event is recorded, neither a webhook nor a sync answers it again.
SilentOnceRecorded ==
  [][\A e \in ledger : sent'[e] = sent[e]]_vars

\* A sync() that returns has left no event of the feed unrecorded.
SyncIsComplete == synced => Events \subseteq ledger

\* No delivery reaches the conversation twice: "duplicate events and
\* attachments are suppressed".
AnsweredOnce == \A e \in Events : \A d \in 1..Deliveries(e) : sent[e][d] <= 1

\* Every event of the feed is answered and recorded in the end.
FeedIsAnswered == \A e \in Events : <>(e \in ledger)

\* sync() comes to an end.
SyncEnds == syncing ~> ~syncing
=============================================================================
