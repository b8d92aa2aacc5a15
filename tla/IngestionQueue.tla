--------------------------- MODULE IngestionQueue ---------------------------
(***************************************************************************)
(* The restartable ingestion queue (IngestionQueue), the submissions that  *)
(* feed it (IngestionService._enqueue, quarantine_file) and the call that  *)
(* works it off (IngestionService.process_next).                           *)
(*                                                                         *)
(* Every queue method changes the lists in memory and then saves all of    *)
(* them with _persist: a temporary file renamed over the queue file.  So a *)
(* method is one step whose parameter `saved' says whether that save       *)
(* worked; when it did not, the OSError leaves the method with the lists   *)
(* changed and the file as it was.  One thread drives the queue.           *)
(***************************************************************************)
EXTENDS Naturals, Sequences, FiniteSets, Subsequences

CONSTANTS
  Jobs,          \* job ids, hashes of fixed length: one per source and content
  Malformed,     \* those whose bytes discovery rejects (ArtifactValidationError)
  MaxAttempts,   \* max_attempts
  FaultKinds,    \* the faults of this environment, a subset of AllFaults
  MaxFaults,     \* bound on the number of faults
  MaxRetries     \* bound on the operator's retries of dead letters

AllFaults == {"crash", "disk"}

ASSUME QueueAssumption ==
  /\ Jobs \subseteq Nat \ {0} /\ IsFiniteSet(Jobs)
  /\ Malformed \subseteq Jobs
  /\ MaxAttempts \in Nat \ {0}
  /\ FaultKinds \subseteq AllFaults
  /\ MaxFaults \in Nat
  /\ MaxRetries \in Nat

VARIABLES
  \* the queue in memory
  pending,      \* list of entries, claimed from the front
  inProgress,   \* the attempts of each claimed job, 0 for the others
  completed,    \* ids with an outcome
  deadLetters,  \* list of entries with the retryable flag
  seen,         \* the ids enqueue() refuses
  state,        \* jobs[id].state
  \* the queue file
  disk,
  \* the thread
  at,           \* where in quarantine_file or process_next it is
  job,          \* the entry that call works on
  \* the outside
  indexed,      \* the jobs whose bundle the knowledge platform stored
  acknowledged, \* the jobs whose submission returned to the caller
  retries, faults

memory  == <<pending, inProgress, completed, deadLetters, seen, state>>
thread  == <<at, job>>
outside == <<indexed, acknowledged, retries>>
vars    == <<memory, disk, thread, outside, faults>>

Entry    == [id : Jobs, attempts : Nat]
Dead     == [id : Jobs, attempts : Nat, retryable : BOOLEAN]
NoEntry  == [id |-> 0, attempts |-> 0]
JobOf(j, n) == [id |-> j, attempts |-> n]

Milestones == {"received", "validated", "stored", "parsed", "chunked", "embedded",
               "indexed", "quarantined", "retry"}
States     == Milestones \cup {"absent", "running"}

\* Where process_next is: after claim(), after each transition(), after the
\* platform stored the bundle ("written"), or in its except clause ("failing").
Places == {"idle", "discovered", "refusing", "claimed", "validated", "stored",
           "written", "parsed", "chunked", "embedded", "indexed", "failing"}

Ids(list) == {list[i].id : i \in DOMAIN list}

\* snapshot()
Snapshot == [pending |-> pending, inProgress |-> inProgress, completed |-> completed,
             deadLetters |-> deadLetters, seen |-> seen, state |-> state]

Init ==
  /\ pending = <<>>
  /\ inProgress = [j \in Jobs |-> 0]
  /\ completed = {}
  /\ deadLetters = <<>>
  /\ seen = {}
  /\ state = [j \in Jobs |-> "absent"]
  /\ disk = Snapshot
  /\ at = "idle" /\ job = NoEntry
  /\ indexed = {} /\ acknowledged = {}
  /\ retries = 0 /\ faults = 0

Fault(kind) == kind \in FaultKinds /\ faults < MaxFaults /\ faults' = faults + 1

\* _persist(): the whole queue or nothing.
Persist(saved) ==
  IF saved THEN disk' = Snapshot' /\ UNCHANGED faults
           ELSE UNCHANGED disk /\ Fault("disk")

Goto(place, entry) == at' = place /\ job' = entry
Return             == Goto("idle", NoEntry)

(***************************************************************************)
(* Submissions                                                             *)
(***************************************************************************)
\* enqueue() of a new job.  When the save fails the caller gets the OSError,
\* and the job is in memory and seen all the same.
Enqueue(j, saved) ==
  /\ at = "idle"
  /\ j \notin seen
  /\ pending' = Append(pending, JobOf(j, 0))
  /\ seen' = seen \cup {j}
  /\ state' = [state EXCEPT ![j] = "received"]
  /\ IF saved /\ j \in Malformed THEN Goto("discovered", JobOf(j, 0)) ELSE UNCHANGED thread
  /\ acknowledged' = IF saved THEN acknowledged \cup {j} ELSE acknowledged
  /\ UNCHANGED <<inProgress, completed, deadLetters, indexed, retries>>
  /\ Persist(saved)

\* enqueue() of a known job returns False and saves nothing; the service
\* returns the job to the caller.
Resubmit(j) ==
  /\ at = "idle"
  /\ j \in seen
  /\ acknowledged' = acknowledged \cup {j}
  /\ IF j \in Malformed THEN Goto("discovered", JobOf(j, 0)) ELSE UNCHANGED thread
  /\ UNCHANGED <<memory, disk, indexed, retries, faults>>

\* The bytes cannot be landed: nothing of a submission reaches the queue.
LandingFails ==
  /\ at = "idle"
  /\ Fault("disk")
  /\ UNCHANGED <<memory, disk, thread, outside>>

(***************************************************************************)
(* quarantine(): claim the pending job, save, fail it for good, save       *)
(***************************************************************************)
Refusable(j) == state[j] # "quarantined" /\ j \in Ids(pending)

\* The entry next(...) finds: the first one.
FirstOf(list, j) == Picked(list, {i \in DOMAIN list : list[i].id = j})[1]

Others(list, j) == Picked(list, {i \in DOMAIN list : list[i].id # j})

QuarantineClaim(saved) ==
  LET j == job.id  n == FirstOf(pending, j).attempts + 1 IN
  /\ at = "discovered"
  /\ Refusable(j)
  /\ pending' = Others(pending, j)
  /\ inProgress' = [inProgress EXCEPT ![j] = n]
  /\ state' = [state EXCEPT ![j] = "running"]
  /\ IF saved THEN Goto("refusing", JobOf(j, n)) ELSE Return
  /\ UNCHANGED <<completed, deadLetters, seen, outside>>
  /\ Persist(saved)

QuarantineSkipped ==
  /\ at = "discovered"
  /\ ~Refusable(job.id)
  /\ Return
  /\ UNCHANGED <<memory, disk, outside, faults>>

(***************************************************************************)
(* fail(job, reason, retryable): every failure leaves a dead letter; below *)
(* the limit the job is queued again as well.                              *)
(***************************************************************************)
\* Mutant of RecordFailure: the last attempt leaves no dead letter.
RecordFailure_NoLetter(e, retryable) ==
  /\ inProgress' = [inProgress EXCEPT ![e.id] = 0]
  /\ IF retryable /\ e.attempts < MaxAttempts
     THEN /\ deadLetters' = Append(deadLetters, [id |-> e.id, attempts |-> e.attempts, retryable |-> retryable])
          /\ pending' = Append(pending, e)
          /\ state' = [state EXCEPT ![e.id] = "retry"]
     ELSE /\ state' = [state EXCEPT ![e.id] = "quarantined"]
          /\ UNCHANGED <<pending, deadLetters>>

\* Mutant of RecordFailure: one attempt too many.
RecordFailure_OffByOne(e, retryable) ==
  /\ inProgress' = [inProgress EXCEPT ![e.id] = 0]
  /\ deadLetters' = Append(deadLetters, [id |-> e.id, attempts |-> e.attempts, retryable |-> retryable])
  /\ IF retryable /\ e.attempts <= MaxAttempts
     THEN /\ pending' = Append(pending, e)
          /\ state' = [state EXCEPT ![e.id] = "retry"]
     ELSE /\ state' = [state EXCEPT ![e.id] = "quarantined"]
          /\ UNCHANGED pending

RecordFailure(e, retryable) ==
  /\ inProgress' = [inProgress EXCEPT ![e.id] = 0]
  /\ deadLetters' = Append(deadLetters, [id |-> e.id, attempts |-> e.attempts, retryable |-> retryable])
  /\ IF retryable /\ e.attempts < MaxAttempts
     THEN /\ pending' = Append(pending, e)
          /\ state' = [state EXCEPT ![e.id] = "retry"]
     ELSE /\ state' = [state EXCEPT ![e.id] = "quarantined"]
          /\ UNCHANGED pending

QuarantineFail(saved) ==
  /\ at = "refusing"
  /\ RecordFailure(job, FALSE)
  /\ Return
  /\ UNCHANGED <<completed, seen, outside>>
  /\ Persist(saved)

(***************************************************************************)
(* process_next(): claim, milestones, acknowledge; any exception after the *)
(* claim ends in fail(..., retryable=True)                                 *)
(***************************************************************************)
\* A failed save leaves claim() before the try block: the job stays in
\* in_progress and the exception leaves process_next.
Claim(saved) ==
  LET e == JobOf(Head(pending).id, Head(pending).attempts + 1) IN
  /\ at = "idle"
  /\ pending # <<>>
  /\ pending' = Tail(pending)
  /\ inProgress' = [inProgress EXCEPT ![e.id] = e.attempts]
  /\ state' = [state EXCEPT ![e.id] = "running"]
  /\ IF saved THEN Goto("claimed", e) ELSE Return
  /\ UNCHANGED <<completed, deadLetters, seen, outside>>
  /\ Persist(saved)

\* transition(): the record in jobs, that of the claimed job with its attempts,
\* takes the place of every pending entry of the same job as well.
Rewritten(list, e) == [i \in DOMAIN list |-> IF list[i].id = e.id THEN e ELSE list[i]]

Transition(from, milestone, saved) ==
  /\ at = from
  /\ state' = [state EXCEPT ![job.id] = milestone]
  /\ pending' = Rewritten(pending, job)
  /\ Goto(IF saved THEN milestone ELSE "failing", job)
  /\ UNCHANGED <<inProgress, completed, deadLetters, seen, outside>>
  /\ Persist(saved)

\* _process_job: parse the bytes and hand the bundle to the platform.  The
\* parser raises on an archive, which discovery should have expanded.
ProcessJob ==
  /\ at = "stored"
  /\ job.id \notin Malformed
  /\ indexed' = indexed \cup {job.id}
  /\ Goto("written", job)
  /\ UNCHANGED <<memory, disk, acknowledged, retries, faults>>

\* The landed bytes, the scanner, the parser or the platform raise.
ProcessFails ==
  /\ at \in {"claimed", "stored"}
  /\ Goto("failing", job)
  /\ UNCHANGED <<memory, disk, outside, faults>>

\* Mutant of Ack: acknowledged before the platform stored the bundle.
Ack_Early(saved) ==
  /\ at = "stored"
  /\ inProgress' = [inProgress EXCEPT ![job.id] = 0]
  /\ completed' = completed \cup {job.id}
  /\ state' = [state EXCEPT ![job.id] = "indexed"]
  /\ IF saved THEN Return ELSE Goto("failing", job)
  /\ UNCHANGED <<pending, deadLetters, seen, outside>>
  /\ Persist(saved)

Ack(saved) ==
  /\ at = "indexed"
  /\ inProgress' = [inProgress EXCEPT ![job.id] = 0]
  /\ completed' = completed \cup {job.id}
  /\ state' = [state EXCEPT ![job.id] = "indexed"]
  /\ IF saved THEN Return ELSE Goto("failing", job)
  /\ UNCHANGED <<pending, deadLetters, seen, outside>>
  /\ Persist(saved)

Fail(saved) ==
  /\ at = "failing"
  /\ RecordFailure(job, TRUE)
  /\ Return
  /\ UNCHANGED <<completed, seen, outside>>
  /\ Persist(saved)

(***************************************************************************)
(* The operator: retry_dead_letter()                                       *)
(***************************************************************************)
WithoutIndex(list, i) == Picked(list, DOMAIN list \ {i})

\* Mutant of RetryDeadLetter: the dead-letter record itself is queued again.
RetryDeadLetter_Entry(j, saved) ==
  /\ at = "idle"
  /\ retries < MaxRetries
  /\ \E i \in DOMAIN deadLetters :
       /\ deadLetters[i].id = j
       /\ \A h \in 1..(i-1) : deadLetters[h].id # j
       /\ deadLetters' = WithoutIndex(deadLetters, i)
       /\ pending' = Append(pending, deadLetters[i])
  /\ state' = [state EXCEPT ![j] = "retry"]
  /\ seen' = seen \cup {j}
  /\ retries' = retries + 1
  /\ UNCHANGED <<inProgress, completed, thread, indexed, acknowledged>>
  /\ Persist(saved)

RetryDeadLetter(j, saved) ==
  /\ at = "idle"
  /\ retries < MaxRetries
  /\ \E i \in DOMAIN deadLetters :
       /\ deadLetters[i].id = j
       /\ \A h \in 1..(i-1) : deadLetters[h].id # j
       /\ deadLetters' = WithoutIndex(deadLetters, i)
       /\ pending' = Append(pending, JobOf(j, deadLetters[i].attempts))
  /\ state' = [state EXCEPT ![j] = "retry"]
  /\ seen' = seen \cup {j}
  /\ retries' = retries + 1
  /\ UNCHANGED <<inProgress, completed, thread, indexed, acknowledged>>
  /\ Persist(saved)

(***************************************************************************)
(* The process dies and from_state() builds the queue from the file: the   *)
(* claimed jobs are queued again behind the pending ones, and saved.       *)
(***************************************************************************)
Claimed(q) == {JobOf(j, q.inProgress[j]) : j \in {k \in Jobs : q.inProgress[k] > 0}}
Orders(S)  == {s \in [1..Cardinality(S) -> S] : \A e \in S : \E i \in DOMAIN s : s[i] = e}

\* Mutant of Requeued: only the jobs that were pending come back.
Requeued_PendingOnly(q) == {q.pending}

Requeued(q) == {q.pending \o s : s \in Orders(Claimed(q))}

Restart ==
  /\ Fault("crash")
  /\ pending' \in Requeued(disk)
  /\ inProgress' = [j \in Jobs |-> 0]
  /\ completed' = disk.completed
  /\ deadLetters' = disk.deadLetters
  /\ seen' = disk.seen
  /\ state' = disk.state
  /\ Return
  /\ UNCHANGED outside
  /\ disk' = Snapshot'

(***************************************************************************)
(* The specification                                                       *)
(***************************************************************************)
Milestone(saved) ==
  \/ Transition("claimed", "validated", saved)
  \/ Transition("validated", "stored", saved)
  \/ Transition("written", "parsed", saved)
  \/ Transition("parsed", "chunked", saved)
  \/ Transition("chunked", "embedded", saved)
  \/ Transition("embedded", "indexed", saved)

Submit == LandingFails \/ \E j \in Jobs : Resubmit(j) \/ \E saved \in BOOLEAN : Enqueue(j, saved)

Quarantine == QuarantineSkipped \/ \E saved \in BOOLEAN : QuarantineClaim(saved) \/ QuarantineFail(saved)

ProcessNext ==
  \/ ProcessJob
  \/ ProcessFails
  \/ \E saved \in BOOLEAN : Claim(saved) \/ Milestone(saved) \/ Ack(saved) \/ Fail(saved)

Retry == \E j \in Jobs, saved \in BOOLEAN : RetryDeadLetter(j, saved)

Next == Submit \/ Quarantine \/ ProcessNext \/ Retry \/ Restart

Spec == Init /\ [][Next]_vars

(***************************************************************************)
(* Properties                                                              *)
(***************************************************************************)
Queue == [pending : Seq(Entry), inProgress : [Jobs -> Nat], completed : SUBSET Jobs,
          deadLetters : Seq(Dead), seen : SUBSET Jobs, state : [Jobs -> States]]

TypeOK ==
  /\ Snapshot \in Queue
  /\ disk \in Queue
  /\ at \in Places
  /\ job \in Entry \cup {NoEntry}
  /\ indexed \subseteq Jobs
  /\ acknowledged \subseteq Jobs
  /\ retries \in Nat
  /\ faults \in Nat

\* No job falls out of the queue, in memory or in the file, whatever fails:
\* a job that was taken is waiting, claimed, completed or a dead letter.
Tracked(q) == Ids(q.pending) \cup {j \in Jobs : q.inProgress[j] > 0}
                \cup q.completed \cup Ids(q.deadLetters)
NothingLost == seen \subseteq Tracked(Snapshot) /\ disk.seen \subseteq Tracked(disk)

\* max_attempts bounds the work on a job: only an operator's retry or a
\* restart in mid-claim buys a further attempt.
AttemptBudget ==
  \A j \in Jobs : inProgress[j] <= MaxAttempts + retries + faults

\* A submission that returned to its caller survives a restart.
AcknowledgedIsKnown == acknowledged \subseteq seen

\* The queue file is the EvidenceIntake ledger, whatever is lost on the way.
StageIn(q, j) ==
  IF j \notin q.seen THEN "unknown"
  ELSE IF j \in q.completed THEN "done"
  ELSE IF j \in Ids(q.pending) \/ q.inProgress[j] > 0 THEN "accepted"
  ELSE "quarantined"

stage == [j \in Jobs |-> StageIn(disk, j)]
Intake == INSTANCE EvidenceIntake
IntakeContract == Intake!Spec
=============================================================================
