-------------------------- MODULE DiagnosticBroker --------------------------
(***************************************************************************)
(* The on-premises diagnostic channel: the SQLite job table                *)
(* (DiagnosticBrokerStore), the broker in front of it                      *)
(* (SecureDiagnosticBroker) and the poll-only workers, each with a spool   *)
(* directory that outlives its process (DiagnosticWorker).                 *)
(*                                                                         *)
(* A store method reads the row with a SELECT and then writes it with an   *)
(* UPDATE whose only condition is the job id.  The sqlite3 module opens no *)
(* transaction for a SELECT, so the two statements are two steps here.     *)
(* SerialBroker says whether the broker object is called by one caller at  *)
(* a time (as the tests do) or by processes sharing the file.              *)
(***************************************************************************)
EXTENDS Naturals, FiniteSets

CONSTANTS
  Workers,       \* spool directories, each with at most one running process
  Jobs,          \* job ids, in the order in which sorted() lists their files
  Ttls,          \* the expires_in_seconds a request may ask for
  LeaseTime,     \* max(lease_seconds, max_runtime_seconds + 60)
  FaultKinds,    \* the faults of this environment, a subset of AllFaults
  SerialBroker,  \* TRUE: one broker call at a time
  MaxTime,       \* bound on the clock
  MaxFaults      \* bound on the number of faults

AllFaults == {"crash", "torn", "execute", "ingest"}

ASSUME BrokerAssumption ==
  /\ Jobs \subseteq Nat \ {0}
  /\ Ttls \subseteq Nat \ {0}
  /\ LeaseTime \in Nat \ {0}
  /\ FaultKinds \subseteq AllFaults
  /\ SerialBroker \in BOOLEAN
  /\ MaxTime \in Nat
  /\ MaxFaults \in Nat

VARIABLES
  now,        \* the wall clock
  \* columns of diagnostic_jobs, one entry per job id
  status, created, expires, leaseToken, leaseExpires, attempts, result,
  \* the workers
  pc,         \* the next step of run_once
  work,       \* the locals of that call
  spool,      \* the files of each spool directory
  beat,       \* the diagnostic_heartbeats row of each worker
  \* history and bounds
  ingested,   \* the results the provenance hook handed to the platform
  grants,     \* the lease tokens ever written for a job
  lost,       \* the lease tokens whose only copy a crash destroyed
  issued,     \* how many lease tokens poll() has drawn
  faults

store   == <<status, created, expires, leaseToken, leaseExpires, attempts, result>>
history == <<grants, issued>>
vars    == <<now, store, pc, work, spool, beat, ingested, history, lost, faults>>

Statuses == {"absent", "pending", "leased", "completed", "expired"}
Steps    == {"idle", "polled", "leasing", "expiring", "leased", "claimed",
             "executed", "spooled", "completing", "recorded", "ingested", "submitted"}
InStore  == {"polled", "leasing", "expiring", "completing"}
Holding  == Steps \ {"idle", "polled", "leasing", "expiring"}

\* The locals of poll() and of the rest of run_once().
Work == [job : Jobs \cup {0}, token : Nat, attempt : Nat, at : Nat]
Candidate(j, at) == [job |-> j, token |-> 0, attempt |-> 0, at |-> at]
LeaseOn(j, t)    == [job |-> j, token |-> t, attempt |-> 0, at |-> 0]
NoWork           == LeaseOn(0, 0)

\* A spool file: written when claimed, rewritten when executed and submitted.
SpoolFile == [state : {"none", "claimed", "executed", "submitted", "torn"}, token : Nat]
NoFile    == [state |-> "none", token |-> 0]
TornFile  == [state |-> "torn", token |-> 0]

Init ==
  /\ now = 0
  /\ status       = [j \in Jobs |-> "absent"]
  /\ created      = [j \in Jobs |-> 0]
  /\ expires      = [j \in Jobs |-> 0]
  /\ leaseToken   = [j \in Jobs |-> 0]
  /\ leaseExpires = [j \in Jobs |-> 0]
  /\ attempts     = [j \in Jobs |-> 0]
  /\ result       = [j \in Jobs |-> 0]
  /\ pc       = [w \in Workers |-> "idle"]
  /\ work     = [w \in Workers |-> NoWork]
  /\ spool    = [w \in Workers |-> [j \in Jobs |-> NoFile]]
  /\ beat     = [w \in Workers |-> "none"]
  /\ ingested = [j \in Jobs |-> {}]
  /\ grants   = [j \in Jobs |-> {}]
  /\ lost     = {}
  /\ issued   = 0
  /\ faults   = 0

(***************************************************************************)
(* Helpers                                                                 *)
(***************************************************************************)
Files(w) == {j \in Jobs : spool[w][j].state # "none"}

Claimable == {j \in Jobs : status[j] = "pending" /\ expires[j] > now}
\* Mutant of Stale: a job that expires at this very instant is not stale yet.
Stale_Strict == {j \in Jobs : status[j] = "pending" /\ expires[j] < now}

Stale == {j \in Jobs : status[j] = "pending" /\ expires[j] <= now}

\* ORDER BY created_at ASC LIMIT 1; ties are broken by no column.
Oldest(S) == {j \in S : \A k \in S : created[j] <= created[k]}

\* Mutant of StoreFree: broker calls overlap.
StoreFree_Overlap(w) == w \in Workers

StoreFree(w) == SerialBroker => \A v \in Workers \ {w} : pc[v] \notin InStore

Goto(w, step) == pc' = [pc EXCEPT ![w] = step]
Return(w)     == Goto(w, "idle") /\ work' = [work EXCEPT ![w] = NoWork]

\* _write_spool(lease, result, submitted)
Write(w, state) ==
  spool' = [spool EXCEPT ![w][work[w].job] = [state |-> state, token |-> work[w].token]]

(***************************************************************************)
(* The requester: SecureDiagnosticBroker.create_job                        *)
(***************************************************************************)
\* Mutant of CreateJob: the time to live is subtracted.
CreateJob_Subtracted(j, at, ttl) ==
  /\ status[j] = "absent"
  /\ status'  = [status EXCEPT ![j] = "pending"]
  /\ created' = [created EXCEPT ![j] = at]
  /\ expires' = [expires EXCEPT ![j] = at - ttl]
  /\ UNCHANGED <<now, leaseToken, leaseExpires, attempts, result,
                 pc, work, spool, beat, ingested, history, lost, faults>>

\* created_at may be given by the request, so it may lie in the past.
CreateJob(j, at, ttl) ==
  /\ status[j] = "absent"
  /\ status'  = [status EXCEPT ![j] = "pending"]
  /\ created' = [created EXCEPT ![j] = at]
  /\ expires' = [expires EXCEPT ![j] = at + ttl]
  /\ UNCHANGED <<now, leaseToken, leaseExpires, attempts, result,
                 pc, work, spool, beat, ingested, history, lost, faults>>

(***************************************************************************)
(* poll(): next_pending_job, verify_job, then lease_job                    *)
(***************************************************************************)
PollFound(w) ==
  /\ pc[w] = "idle" /\ Files(w) = {} /\ StoreFree(w)
  /\ \E j \in Oldest(Claimable) :
       work' = [work EXCEPT ![w] = Candidate(j, now)]
  /\ Goto(w, "polled")
  /\ UNCHANGED <<now, store, spool, beat, ingested, history, lost, faults>>

\* No live job: next_pending_job picks one stale job to mark as expired.
PollStale(w) ==
  /\ pc[w] = "idle" /\ Files(w) = {} /\ StoreFree(w)
  /\ Claimable = {}
  /\ \E j \in Oldest(Stale) : work' = [work EXCEPT ![w] = Candidate(j, 0)]
  /\ Goto(w, "expiring")
  /\ UNCHANGED <<now, store, spool, beat, ingested, history, lost, faults>>

PollNothing(w) ==
  /\ pc[w] = "idle" /\ Files(w) = {} /\ StoreFree(w)
  /\ Claimable = {} /\ Stale = {}
  /\ beat' = [beat EXCEPT ![w] = "idle"]
  /\ UNCHANGED <<now, store, pc, work, spool, ingested, history, lost, faults>>

ExpireUpdate(w) ==
  /\ pc[w] = "expiring"
  /\ status' = [status EXCEPT ![work[w].job] = "expired"]
  /\ beat' = [beat EXCEPT ![w] = "idle"]
  /\ Return(w)
  /\ UNCHANGED <<now, created, expires, leaseToken, leaseExpires, attempts, result,
                 spool, ingested, history, lost, faults>>

LeaseEligible(j) == status[j] = "pending" /\ expires[j] > now

LeaseSelect(w) ==
  /\ pc[w] = "polled"
  /\ LeaseEligible(work[w].job)
  /\ work' = [work EXCEPT ![w].attempt = attempts[work[w].job] + 1]
  /\ Goto(w, "leasing")
  /\ UNCHANGED <<now, store, spool, beat, ingested, history, lost, faults>>

\* DiagnosticLeaseError.  "with conn" rolls the 'expired' mark back, so the
\* row is left as it was.
LeaseRefused(w) ==
  /\ pc[w] = "polled"
  /\ ~LeaseEligible(work[w].job)
  /\ Return(w)
  /\ UNCHANGED <<now, store, spool, beat, ingested, history, lost, faults>>

\* Mutant of LeaseUpdate: the row keeps the status 'pending'.
LeaseUpdate_StatusKept(w) ==
  LET j == work[w].job IN
  /\ pc[w] = "leasing"
  /\ issued' = issued + 1
  /\ leaseToken'   = [leaseToken EXCEPT ![j] = issued + 1]
  /\ leaseExpires' = [leaseExpires EXCEPT ![j] = work[w].at + LeaseTime]
  /\ attempts'     = [attempts EXCEPT ![j] = work[w].attempt]
  /\ grants'       = [grants EXCEPT ![j] = @ \cup {issued + 1}]
  /\ work' = [work EXCEPT ![w] = LeaseOn(j, issued + 1)]
  /\ Goto(w, "leased")
  /\ UNCHANGED <<now, status, created, expires, result, spool, beat, ingested, lost, faults>>

LeaseUpdate(w) ==
  LET j == work[w].job IN
  /\ pc[w] = "leasing"
  /\ issued' = issued + 1
  /\ status'       = [status EXCEPT ![j] = "leased"]
  /\ leaseToken'   = [leaseToken EXCEPT ![j] = issued + 1]
  /\ leaseExpires' = [leaseExpires EXCEPT ![j] = work[w].at + LeaseTime]
  /\ attempts'     = [attempts EXCEPT ![j] = work[w].attempt]
  /\ grants'       = [grants EXCEPT ![j] = @ \cup {issued + 1}]
  /\ work' = [work EXCEPT ![w] = LeaseOn(j, issued + 1)]
  /\ Goto(w, "leased")
  /\ UNCHANGED <<now, created, expires, result, spool, beat, ingested, lost, faults>>

(***************************************************************************)
(* run_once() after the lease: spool, execute, spool, complete, ingest     *)
(***************************************************************************)
SpoolClaim(w) ==
  /\ pc[w] = "leased"
  /\ Write(w, "claimed")
  /\ Goto(w, "claimed")
  /\ UNCHANGED <<now, store, work, beat, ingested, history, lost, faults>>

\* The runner reads the database; its output is known by the lease it ran under.
Execute(w) ==
  /\ pc[w] = "claimed"
  /\ Goto(w, "executed")
  /\ UNCHANGED <<now, store, work, spool, beat, ingested, history, lost, faults>>

SpoolResult(w) ==
  /\ pc[w] = "executed"
  /\ Write(w, "executed")
  /\ Goto(w, "spooled")
  /\ UNCHANGED <<now, store, work, beat, ingested, history, lost, faults>>

\* complete_job: the checks after its SELECT.
LeaseHonoured(w) ==
  LET j == work[w].job IN
  /\ status[j] = "leased"
  /\ leaseToken[j] = work[w].token
  /\ leaseExpires[j] >= now

CompleteSelect(w) ==
  /\ pc[w] = "spooled" /\ StoreFree(w)
  /\ LeaseHonoured(w)
  /\ Goto(w, "completing")
  /\ UNCHANGED <<now, store, work, spool, beat, ingested, history, lost, faults>>

\* DiagnosticReplayError, which run_once and _recover_spool swallow.
CompleteReplay(w) ==
  /\ pc[w] = "spooled" /\ StoreFree(w)
  /\ status[work[w].job] = "completed"
  /\ Goto(w, "recorded")
  /\ UNCHANGED <<now, store, work, spool, beat, ingested, history, lost, faults>>

\* Mutant of CompleteRefused: DiagnosticLeaseError is swallowed as well.
CompleteRefused_Swallowed(w) ==
  /\ pc[w] = "spooled" /\ StoreFree(w)
  /\ ~LeaseHonoured(w) /\ status[work[w].job] # "completed"
  /\ Goto(w, "recorded")
  /\ UNCHANGED <<now, store, work, spool, beat, ingested, history, lost, faults>>

\* DiagnosticLeaseError leaves run_once; the spool file stays.
CompleteRefused(w) ==
  /\ pc[w] = "spooled" /\ StoreFree(w)
  /\ ~LeaseHonoured(w) /\ status[work[w].job] # "completed"
  /\ Return(w)
  /\ UNCHANGED <<now, store, spool, beat, ingested, history, lost, faults>>

CompleteUpdate(w) ==
  LET j == work[w].job IN
  /\ pc[w] = "completing"
  /\ status' = [status EXCEPT ![j] = "completed"]
  /\ result' = [result EXCEPT ![j] = work[w].token]
  /\ Goto(w, "recorded")
  /\ UNCHANGED <<now, created, expires, leaseToken, leaseExpires, attempts,
                 work, spool, beat, ingested, history, lost, faults>>

\* QueryOutputProvenanceHook.ingest
Ingest(w) ==
  /\ pc[w] = "recorded"
  /\ ingested' = [ingested EXCEPT ![work[w].job] = @ \cup {work[w].token}]
  /\ Goto(w, "ingested")
  /\ UNCHANGED <<now, store, work, spool, beat, history, lost, faults>>

SpoolSubmitted(w) ==
  /\ pc[w] = "ingested"
  /\ Write(w, "submitted")
  /\ Goto(w, "submitted")
  /\ UNCHANGED <<now, store, work, beat, ingested, history, lost, faults>>

Unlink(w) ==
  /\ pc[w] = "submitted"
  /\ spool' = [spool EXCEPT ![w][work[w].job] = NoFile]
  /\ beat' = [beat EXCEPT ![w] = "healthy"]
  /\ Return(w)
  /\ UNCHANGED <<now, store, ingested, history, lost, faults>>

(***************************************************************************)
(* _recover_spool(): the first file in sorted order is resumed where its   *)
(* contents say; a file that does not parse stops every later call too.    *)
(***************************************************************************)
\* Mutant of ResumeAt: a spooled result is taken for a submitted one.
ResumeAt_Submitted(state) == IF state = "claimed" THEN "claimed" ELSE "submitted"

\* Mutant of ResumeAt: a claim without a result is skipped.
ResumeAt_ClaimSkipped(state) == CASE state = "executed"  -> "spooled"
                                  [] state = "submitted" -> "submitted"
                                  [] OTHER               -> "idle"

ResumeAt(state) == CASE state = "claimed"   -> "claimed"
                     [] state = "executed"  -> "spooled"
                     [] state = "submitted" -> "submitted"
                     [] OTHER               -> "idle"

RecoverLoad(w) ==
  /\ pc[w] = "idle"
  /\ \E j \in Files(w) :
       /\ \A k \in Files(w) : j <= k
       /\ spool[w][j].state # "torn"
       /\ work' = [work EXCEPT ![w] = LeaseOn(j, spool[w][j].token)]
       /\ Goto(w, ResumeAt(spool[w][j].state))
  /\ UNCHANGED <<now, store, spool, beat, ingested, history, lost, faults>>

(***************************************************************************)
(* Faults, at most MaxFaults of them                                       *)
(***************************************************************************)
Fault(kind) == kind \in FaultKinds /\ faults < MaxFaults /\ faults' = faults + 1

\* The process dies.  Between the lease and the first spool write the token is
\* nowhere else.
Crash(w) ==
  /\ pc[w] # "idle"
  /\ Fault("crash")
  /\ lost' = IF pc[w] = "leased" THEN lost \cup {work[w].token} ELSE lost
  /\ Return(w)
  /\ UNCHANGED <<now, store, spool, beat, ingested, history>>

\* The process dies inside Path.write_text: the file is cut short.
CrashInWrite(w) ==
  /\ pc[w] \in {"leased", "executed", "ingested"}
  /\ Fault("torn")
  /\ spool' = [spool EXCEPT ![w][work[w].job] = TornFile]
  /\ lost' = lost \cup {work[w].token}
  /\ Return(w)
  /\ UNCHANGED <<now, store, beat, ingested, history>>

\* runner.execute raises (missing fixture, non-zero exit, timeout).
ExecuteFails(w) ==
  /\ pc[w] = "claimed"
  /\ Fault("execute")
  /\ Return(w)
  /\ UNCHANGED <<now, store, spool, beat, ingested, history, lost>>

\* provenance_hook.ingest raises.
IngestFails(w) ==
  /\ pc[w] = "recorded"
  /\ Fault("ingest")
  /\ Return(w)
  /\ UNCHANGED <<now, store, spool, beat, ingested, history, lost>>

Tick ==
  /\ now < MaxTime
  /\ now' = now + 1
  /\ UNCHANGED <<store, pc, work, spool, beat, ingested, history, lost, faults>>

(***************************************************************************)
(* The specification.  A worker keeps calling run_once, so each of them is *)
(* weakly fair; requests, faults and the clock owe nothing.                *)
(***************************************************************************)
WorkerStep(w) ==
  \/ PollFound(w) \/ PollStale(w) \/ PollNothing(w) \/ ExpireUpdate(w)
  \/ LeaseSelect(w) \/ LeaseRefused(w) \/ LeaseUpdate(w)
  \/ SpoolClaim(w) \/ Execute(w) \/ SpoolResult(w)
  \/ CompleteSelect(w) \/ CompleteReplay(w) \/ CompleteRefused(w) \/ CompleteUpdate(w)
  \/ Ingest(w) \/ SpoolSubmitted(w) \/ Unlink(w)
  \/ RecoverLoad(w)

WorkerFault(w) == Crash(w) \/ CrashInWrite(w) \/ ExecuteFails(w) \/ IngestFails(w)

Create == \E j \in Jobs, at \in 0..now, ttl \in Ttls : CreateJob(j, at, ttl)

Next ==
  \/ Create
  \/ \E w \in Workers : WorkerStep(w) \/ WorkerFault(w)
  \/ Tick

Fairness == \A w \in Workers : WF_vars(WorkerStep(w))

Spec     == Init /\ [][Next]_vars
FairSpec == Spec /\ Fairness

(***************************************************************************)
(* Properties                                                              *)
(***************************************************************************)
TypeOK ==
  /\ now \in Nat
  /\ status \in [Jobs -> Statuses]
  /\ created \in [Jobs -> Nat]
  /\ expires \in [Jobs -> Nat]
  /\ leaseToken \in [Jobs -> Nat]
  /\ leaseExpires \in [Jobs -> Nat]
  /\ attempts \in [Jobs -> Nat]
  /\ result \in [Jobs -> Nat]
  /\ pc \in [Workers -> Steps]
  /\ work \in [Workers -> Work]
  /\ spool \in [Workers -> [Jobs -> SpoolFile]]
  /\ beat \in [Workers -> {"none", "idle", "healthy"}]
  /\ ingested \in [Jobs -> SUBSET Nat]
  /\ grants \in [Jobs -> SUBSET Nat]
  /\ lost \subseteq Nat
  /\ issued \in Nat
  /\ faults \in Nat

\* Leases are single-use: poll() hands out one lease token per job, ever.
SingleUseLease == \A j \in Jobs : \A s, t \in grants[j] : s = t

\* The evidence the platform holds for a job is the result the broker
\* recorded for it, although a replay error is swallowed before the hook runs.
IngestedIsRecorded == \A j \in Jobs : ingested[j] \subseteq {result[j]}

\* A job the table says is leased can still be finished: some worker or its
\* spool has the token, unless a crash hit one of the unprotected writes.
Held(w, j) ==
  \/ pc[w] \in Holding /\ work[w].job = j /\ work[w].token = leaseToken[j]
  \/ spool[w][j].state # "none" /\ spool[w][j].token = leaseToken[j]
LeaseAccounted ==
  \A j \in Jobs : status[j] = "leased" =>
     leaseToken[j] \in lost \/ \E w \in Workers : Held(w, j)

\* A spool file disappears only when the broker holds a result for its job.
UnlinkedAfterRecorded ==
  [][\A w \in Workers : \A j \in Files(w) \ Files(w)' : result[j] # 0]_vars

\* The job table, read through its status, lease_token and result columns, is
\* the job life cycle of DiagnosticJobs.
Contract == INSTANCE DiagnosticJobs WITH token <- leaseToken
JobContract == Contract!Spec

\* What a worker has spooled is eventually delivered and removed.
SpoolDrains ==
  \A w \in Workers, j \in Jobs : (spool[w][j].state # "none") ~> (spool[w][j].state = "none")

\* A request does not wait for ever: a worker leases it or marks it expired.
PendingIsServed == \A j \in Jobs : (status[j] = "pending") ~> (status[j] # "pending")

(***************************************************************************)
(* Inductive invariants.  DeliveryInv carries LeaseAccounted and holds for *)
(* every interleaving; SerialInv carries the single-use lease and needs    *)
(* broker calls not to overlap.                                            *)
(***************************************************************************)
Delivered == {"recorded", "ingested", "submitted"}
Written   == {"claimed", "executed", "submitted"}

\* Tokens are drawn in increasing order, so the next one is new.
TokensDrawn ==
  /\ \A j \in Jobs : leaseToken[j] <= issued
  /\ \A w \in Workers : work[w].token <= issued
  /\ \A w \in Workers, j \in Jobs : spool[w][j].token <= issued

\* Up to its first spool write a worker that polled has an empty directory,
\* and afterwards the file of its job carries its lease.
SpoolMatches(w) ==
  /\ pc[w] \in {"polled", "leasing", "expiring", "leased"} =>
       \A j \in Jobs : spool[w][j].state = "none"
  /\ pc[w] \in Holding \ {"leased"} =>
       /\ spool[w][work[w].job].state \in Written
       /\ spool[w][work[w].job].token = work[w].token

\* A lease whose result was delivered is not the one the table waits for.
NotAwaited(j, t) == ~(status[j] = "leased" /\ leaseToken[j] = t)
DeliveredNotAwaited(w) ==
  /\ pc[w] \in Delivered => NotAwaited(work[w].job, work[w].token)
  /\ \A j \in Jobs : spool[w][j].state = "submitted" => NotAwaited(j, spool[w][j].token)

DeliveryInv ==
  /\ TokensDrawn
  /\ \A w \in Workers : SpoolMatches(w) /\ DeliveredNotAwaited(w)
  /\ LeaseAccounted

\* What has been delivered has a result in the table.
RecordedInv ==
  /\ \A j \in Jobs : status[j] = "completed" => result[j] # 0
  /\ \A w \in Workers : pc[w] \in Holding => work[w].token # 0
  /\ \A w \in Workers : pc[w] \in Delivered => result[work[w].job] # 0
  /\ \A w \in Workers, j \in Jobs :
       /\ spool[w][j].state \in Written => spool[w][j].token # 0
       /\ spool[w][j].state = "submitted" => result[j] # 0

StoreMutex == \A v, w \in Workers : pc[v] \in InStore /\ pc[w] \in InStore => v = w

RowState(j) ==
  /\ status[j] \in {"absent", "pending", "expired"} =>
       grants[j] = {} /\ result[j] = 0 /\ ingested[j] = {}
  /\ status[j] = "leased" =>
       grants[j] = {leaseToken[j]} /\ result[j] = 0 /\ ingested[j] = {} /\ leaseToken[j] # 0
  /\ status[j] = "completed" =>
       /\ grants[j] = {leaseToken[j]} /\ leaseToken[j] # 0
       /\ result[j] = leaseToken[j] /\ ingested[j] \subseteq {result[j]}

WorkerState(w) ==
  /\ pc[w] \in {"polled", "leasing", "expiring"} => status[work[w].job] = "pending"
  /\ pc[w] \in Holding => work[w].token \in grants[work[w].job]
  /\ pc[w] = "completing" => status[work[w].job] = "leased"
  /\ pc[w] \in Delivered => status[work[w].job] = "completed"

SpoolState(w, j) ==
  /\ spool[w][j].state \in Written => spool[w][j].token \in grants[j]
  /\ spool[w][j].state = "submitted" => status[j] = "completed"

SerialInv ==
  /\ StoreMutex
  /\ \A j \in Jobs : leaseToken[j] <= issued
  /\ \A j \in Jobs : RowState(j)
  /\ \A w \in Workers : WorkerState(w)
  /\ \A w \in Workers, j \in Jobs : SpoolState(w, j)
=============================================================================
