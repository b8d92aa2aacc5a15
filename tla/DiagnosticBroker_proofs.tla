----------------------- MODULE DiagnosticBroker_proofs -----------------------
(***************************************************************************)
(* Proofs about DiagnosticBroker for every set of workers and jobs: leases *)
(* are not lost and, with one broker call at a time, are single-use; and   *)
(* what an outage that is shorter or longer than a lease leaves behind,    *)
(* and how far two processes that share the table can race.                *)
(***************************************************************************)
EXTENDS DiagnosticBroker, FiniteSetTheorems, TLAPS

USE BrokerAssumption

-----------------------------------------------------------------------------
(* The locals of run_once are built from a job and, once leased, a token.   *)
LEMMA NewWork ==
  ASSUME NEW j \in Jobs \cup {0}, NEW t \in Nat
  PROVE  /\ NoWork \in Work
         /\ Candidate(j, t) \in Work
         /\ LeaseOn(j, t) \in Work
BY DEF NoWork, Work, Candidate, LeaseOn

LEMMA WorkFields ==
  ASSUME NEW rec \in Work
  PROVE  rec.job \in Jobs \cup {0} /\ rec.token \in Nat /\ rec.attempt \in Nat /\ rec.at \in Nat
BY DEF Work

-----------------------------------------------------------------------------
(* Type correctness.  A step of run_once reads the row of work[w].job, so  *)
(* the invariant also says that a busy worker has a job.                   *)

HasJob == \A w \in Workers : pc[w] # "idle" => work[w].job \in Jobs

LEMMA TypeInit == Init => TypeOK
BY DEF LeaseOn, Init, TypeOK, Statuses, Steps, Work, NoWork, SpoolFile, NoFile

LEMMA TypeCreate ==
  ASSUME TypeOK, NEW j \in Jobs, NEW at \in 0..now, NEW ttl \in Ttls, CreateJob(j, at, ttl)
  PROVE  TypeOK'
<1>1. at \in Nat /\ at + ttl \in Nat
  BY DEF TypeOK
<1>2. QED
  BY <1>1 DEF TypeOK, CreateJob, history, Statuses

LEMMA TypeWorker ==
  ASSUME TypeOK, HasJob, NEW w \in Workers, WorkerStep(w)
  PROVE  TypeOK'
<1> USE DEF TypeOK, store, history, Goto, Return
<1>0. NoWork \in Work
  BY NewWork
<1>1. CASE PollFound(w)
  <2>1. PICK j \in Jobs : work' = [work EXCEPT ![w] = Candidate(j, now)]
    BY <1>1 DEF PollFound, Oldest, Claimable
  <2>2. Candidate(j, now) \in Work
    BY NewWork
  <2>3. QED
    BY <1>1, <2>1, <2>2 DEF PollFound, Steps
<1>2. CASE PollStale(w)
  <2>1. PICK j \in Jobs : work' = [work EXCEPT ![w] = Candidate(j, 0)]
    BY <1>2 DEF PollStale, Oldest, Stale
  <2>2. Candidate(j, 0) \in Work
    BY NewWork
  <2>3. QED
    BY <1>2, <2>1, <2>2 DEF PollStale, Steps
<1>3. CASE PollNothing(w)
  BY <1>3 DEF PollNothing
<1>4. CASE ExpireUpdate(w)
  BY <1>0, <1>4 DEF ExpireUpdate, Statuses, Steps
<1>5. CASE LeaseSelect(w)
  <2>1. attempts[work[w].job] + 1 \in Nat
    BY <1>5 DEF LeaseSelect, HasJob
  <2>2. [work[w] EXCEPT !.attempt = attempts[work[w].job] + 1] \in Work
    BY <2>1 DEF Work
  <2>3. QED
    BY <1>5, <2>2 DEF LeaseSelect, Steps
<1>6. CASE LeaseRefused(w)
  BY <1>0, <1>6 DEF LeaseRefused, Steps
<1>7. CASE LeaseUpdate(w)
  <2>0. work[w] \in Work
    OBVIOUS
  <2>1. work[w].job \in Jobs \cup {0} /\ work[w].at \in Nat /\ work[w].attempt \in Nat
    BY <2>0, WorkFields
  <2>2. work[w].at + LeaseTime \in Nat /\ issued + 1 \in Nat
    BY <2>1
  <2>3. LeaseOn(work[w].job, issued + 1) \in Work
    BY <2>1, <2>2, NewWork
  <2>4. /\ status' \in [Jobs -> Statuses] /\ leaseToken' \in [Jobs -> Nat]
        /\ leaseExpires' \in [Jobs -> Nat] /\ attempts' \in [Jobs -> Nat]
        /\ grants' \in [Jobs -> SUBSET Nat] /\ issued' \in Nat
    BY <1>7, <2>1, <2>2 DEF LeaseUpdate, Statuses
  <2>5. pc' \in [Workers -> Steps] /\ work' \in [Workers -> Work]
    BY <1>7, <2>3 DEF LeaseUpdate, Steps
  <2>6. QED
    BY <1>7, <2>4, <2>5 DEF LeaseUpdate
<1>8. CASE SpoolClaim(w)
  BY <1>8 DEF SpoolClaim, Write, Steps, SpoolFile, Work
<1>9. CASE Execute(w)
  BY <1>9 DEF Execute, Steps
<1>10. CASE SpoolResult(w)
  BY <1>10 DEF SpoolResult, Write, Steps, SpoolFile, Work
<1>11. CASE CompleteSelect(w)
  BY <1>11 DEF CompleteSelect, Steps
<1>12. CASE CompleteReplay(w)
  BY <1>12 DEF CompleteReplay, Steps
<1>13. CASE CompleteRefused(w)
  BY <1>0, <1>13 DEF CompleteRefused, Steps
<1>14. CASE CompleteUpdate(w)
  BY <1>14 DEF CompleteUpdate, Statuses, Steps, Work
<1>15. CASE Ingest(w)
  BY <1>15 DEF Ingest, Steps, Work
<1>16. CASE SpoolSubmitted(w)
  BY <1>16 DEF SpoolSubmitted, Write, Steps, SpoolFile, Work
<1>17. CASE Unlink(w)
  BY <1>0, <1>17 DEF Unlink, Steps, SpoolFile, NoFile
<1>18. CASE RecoverLoad(w)
  <2>1. PICK j \in Jobs :
          /\ work' = [work EXCEPT ![w] = LeaseOn(j, spool[w][j].token)]
          /\ Goto(w, ResumeAt(spool[w][j].state))
    BY <1>18 DEF RecoverLoad, Files
  <2>2. LeaseOn(j, spool[w][j].token) \in Work
    BY NewWork DEF SpoolFile
  <2>3. ResumeAt(spool[w][j].state) \in Steps
    BY DEF ResumeAt, Steps
  <2>4. QED
    BY <1>18, <2>1, <2>2, <2>3 DEF RecoverLoad
<1>19. QED
  BY <1>1, <1>2, <1>3, <1>4, <1>5, <1>6, <1>7, <1>8, <1>9, <1>10, <1>11, <1>12, <1>13,
     <1>14, <1>15, <1>16, <1>17, <1>18 DEF WorkerStep

LEMMA TypeFault ==
  ASSUME TypeOK, NEW w \in Workers, WorkerFault(w)
  PROVE  TypeOK'
<1> USE DEF TypeOK, store, history, Goto, Return, Fault, Steps
<1>0. NoWork \in Work /\ work[w].token \in Nat
  BY NewWork, WorkFields
<1>1. CASE Crash(w)
  <2>0. lost' = lost \/ lost' = lost \cup {work[w].token}
    BY <1>1 DEF Crash
  <2>1. lost' \subseteq Nat
    BY <1>0, <2>0
  <2>2. pc' \in [Workers -> Steps] /\ work' \in [Workers -> Work]
    BY <1>0, <1>1 DEF Crash
  <2>3. QED
    BY <1>1, <2>1, <2>2 DEF Crash
<1>2. CASE CrashInWrite(w)
  <2>0. lost' = lost \/ lost' = lost \cup {work[w].token}
    BY <1>2 DEF CrashInWrite
  <2>1. lost' \subseteq Nat
    BY <1>0, <2>0
  <2>2. pc' \in [Workers -> Steps] /\ work' \in [Workers -> Work]
    BY <1>0, <1>2 DEF CrashInWrite
  <2>3. spool' \in [Workers -> [Jobs -> SpoolFile]]
    BY <1>2 DEF CrashInWrite, TornFile, SpoolFile
  <2>4. QED
    BY <1>2, <2>1, <2>2, <2>3 DEF CrashInWrite
<1>3. CASE ExecuteFails(w)
  BY <1>0, <1>3 DEF ExecuteFails
<1>4. CASE IngestFails(w)
  BY <1>0, <1>4 DEF IngestFails
<1>5. QED
  BY <1>1, <1>2, <1>3, <1>4 DEF WorkerFault

LEMMA HasJobNext ==
  ASSUME TypeOK, HasJob, [Next]_vars
  PROVE  HasJob'
<1> USE DEF TypeOK, HasJob, Goto, Return
<1>1. CASE Create
  BY <1>1 DEF Create, CreateJob
<1>2. ASSUME NEW w \in Workers, WorkerStep(w) PROVE HasJob'
  <2>1. CASE PollFound(w)
    BY <2>1 DEF PollFound, Oldest, Claimable, Candidate, NoWork
  <2>2. CASE PollStale(w)
    BY <2>2 DEF PollStale, Oldest, Stale, Candidate, NoWork
  <2>3. CASE PollNothing(w) \/ ExpireUpdate(w) \/ LeaseRefused(w) \/ CompleteRefused(w) \/ Unlink(w)
    BY <2>3 DEF PollNothing, ExpireUpdate, LeaseRefused, CompleteRefused, Unlink
  <2>4. CASE LeaseSelect(w)
    BY <2>4 DEF LeaseSelect, Work
  <2>5. CASE LeaseUpdate(w)
    BY <2>5 DEF LeaseUpdate, LeaseOn
  <2>6. CASE \/ SpoolClaim(w) \/ Execute(w) \/ SpoolResult(w) \/ CompleteSelect(w)
             \/ CompleteReplay(w) \/ CompleteUpdate(w) \/ Ingest(w) \/ SpoolSubmitted(w)
    BY <2>6 DEF SpoolClaim, Execute, SpoolResult, CompleteSelect, CompleteReplay,
                CompleteUpdate, Ingest, SpoolSubmitted
  <2>7. CASE RecoverLoad(w)
    BY <2>7 DEF RecoverLoad, Files, LeaseOn
  <2>8. QED
    BY <1>2, <2>1, <2>2, <2>3, <2>4, <2>5, <2>6, <2>7 DEF WorkerStep
<1>3. ASSUME NEW w \in Workers, WorkerFault(w) PROVE HasJob'
  BY <1>3 DEF WorkerFault, Crash, CrashInWrite, ExecuteFails, IngestFails
<1>4. CASE Tick
  BY <1>4 DEF Tick
<1>5. CASE UNCHANGED vars
  BY <1>5 DEF vars
<1>6. QED
  BY <1>1, <1>2, <1>3, <1>4, <1>5 DEF Next

LEMMA TypeNext == TypeOK /\ HasJob /\ [Next]_vars => (TypeOK /\ HasJob)'
<1> SUFFICES ASSUME TypeOK, HasJob, [Next]_vars PROVE TypeOK'
  BY HasJobNext
<1>1. CASE Create
  BY <1>1, TypeCreate DEF Create
<1>2. CASE \E w \in Workers : WorkerStep(w) \/ WorkerFault(w)
  BY <1>2, TypeWorker, TypeFault
<1>3. CASE Tick
  BY <1>3 DEF Tick, TypeOK, store, history
<1>4. CASE UNCHANGED vars
  BY <1>4 DEF vars, TypeOK, store, history
<1>5. QED
  BY <1>1, <1>2, <1>3, <1>4 DEF Next

\* Every reachable state is well typed, whatever the broker's callers do.
THEOREM TypeCorrect == Spec => []TypeOK
<1>1. Init => TypeOK /\ HasJob
  BY TypeInit DEF Init, HasJob
<1>2. QED
  BY <1>1, TypeNext, PTL DEF Spec

-----------------------------------------------------------------------------
(* No delivery is lost.  Nothing here depends on SerialBroker.             *)

LEMMA DeliveryInit == Init => DeliveryInv
BY DEF Init, DeliveryInv, TokensDrawn, SpoolMatches, DeliveredNotAwaited, LeaseAccounted,
       NoFile, NoWork, LeaseOn, Holding, Delivered

LEMMA DeliveryStep ==
  ASSUME TypeOK, HasJob, DeliveryInv, NEW w \in Workers, WorkerStep(w) \/ WorkerFault(w)
  PROVE  DeliveryInv'
<1> USE DEF store, history, Goto, Return, NoWork, LeaseOn
<1>1. CASE PollFound(w)
  <2>1. TokensDrawn'
    BY <1>1 DEF PollFound, Oldest, Claimable, Candidate, Files, TypeOK, HasJob, DeliveryInv, TokensDrawn
  <2>2. \A v \in Workers : SpoolMatches(v)'
    BY <1>1 DEF PollFound, Oldest, Claimable, Candidate, Files, TypeOK, HasJob, DeliveryInv, SpoolMatches, Holding, Written, Steps
  <2>3. \A v \in Workers : DeliveredNotAwaited(v)'
    BY <1>1 DEF PollFound, Oldest, Claimable, Candidate, Files, TypeOK, HasJob, DeliveryInv, TokensDrawn, SpoolMatches, DeliveredNotAwaited, NotAwaited, Delivered, Holding, Steps
  <2>4. LeaseAccounted'
    <3>1. /\ UNCHANGED <<status, leaseToken, spool, lost>>
          /\ pc[w] = "idle" /\ pc' = [pc EXCEPT ![w] = pc'[w]]
          /\ \A v \in Workers \ {w} : work'[v] = work[v]
      BY <1>1 DEF PollFound, TypeOK
    <3>2. ASSUME NEW v \in Workers, NEW j \in Jobs, Held(v, j) PROVE Held(v, j)'
      BY <3>1, <3>2 DEF Held, Holding, TypeOK
    <3>3. QED
      BY <3>1, <3>2 DEF DeliveryInv, LeaseAccounted
  <2>5. QED
    BY <2>1, <2>2, <2>3, <2>4 DEF DeliveryInv
<1>2. CASE PollStale(w)
  <2>1. TokensDrawn'
    BY <1>2 DEF PollStale, Oldest, Stale, Candidate, Files, TypeOK, HasJob, DeliveryInv, TokensDrawn
  <2>2. \A v \in Workers : SpoolMatches(v)'
    BY <1>2 DEF PollStale, Oldest, Stale, Candidate, Files, TypeOK, HasJob, DeliveryInv, SpoolMatches, Holding, Written, Steps
  <2>3. \A v \in Workers : DeliveredNotAwaited(v)'
    BY <1>2 DEF PollStale, Oldest, Stale, Candidate, Files, TypeOK, HasJob, DeliveryInv, TokensDrawn, SpoolMatches, DeliveredNotAwaited, NotAwaited, Delivered, Holding, Steps
  <2>4. LeaseAccounted'
    <3>1. /\ UNCHANGED <<status, leaseToken, spool, lost>>
          /\ pc[w] = "idle" /\ pc' = [pc EXCEPT ![w] = pc'[w]]
          /\ \A v \in Workers \ {w} : work'[v] = work[v]
      BY <1>2 DEF PollStale, TypeOK
    <3>2. ASSUME NEW v \in Workers, NEW j \in Jobs, Held(v, j) PROVE Held(v, j)'
      BY <3>1, <3>2 DEF Held, Holding, TypeOK
    <3>3. QED
      BY <3>1, <3>2 DEF DeliveryInv, LeaseAccounted
  <2>5. QED
    BY <2>1, <2>2, <2>3, <2>4 DEF DeliveryInv
<1>3. CASE PollNothing(w)
  <2>1. TokensDrawn'
    BY <1>3 DEF PollNothing, TypeOK, HasJob, DeliveryInv, TokensDrawn
  <2>2. \A v \in Workers : SpoolMatches(v)'
    BY <1>3 DEF PollNothing, TypeOK, HasJob, DeliveryInv, SpoolMatches, Holding, Written, Steps
  <2>3. \A v \in Workers : DeliveredNotAwaited(v)'
    BY <1>3 DEF PollNothing, TypeOK, HasJob, DeliveryInv, TokensDrawn, SpoolMatches, DeliveredNotAwaited, NotAwaited, Delivered, Holding, Steps
  <2>4. LeaseAccounted'
    BY <1>3 DEF PollNothing, TypeOK, HasJob, DeliveryInv, SpoolMatches, DeliveredNotAwaited, NotAwaited, LeaseAccounted, Held, Holding, Delivered, Written, Steps
  <2>5. QED
    BY <2>1, <2>2, <2>3, <2>4 DEF DeliveryInv
<1>4. CASE ExpireUpdate(w)
  <2>1. TokensDrawn'
    BY <1>4 DEF ExpireUpdate, TypeOK, HasJob, DeliveryInv, TokensDrawn
  <2>2. \A v \in Workers : SpoolMatches(v)'
    BY <1>4 DEF ExpireUpdate, TypeOK, HasJob, DeliveryInv, SpoolMatches, Holding, Written, Steps
  <2>3. \A v \in Workers : DeliveredNotAwaited(v)'
    BY <1>4 DEF ExpireUpdate, TypeOK, HasJob, DeliveryInv, TokensDrawn, SpoolMatches, DeliveredNotAwaited, NotAwaited, Delivered, Holding, Steps
  <2>4. LeaseAccounted'
    BY <1>4 DEF ExpireUpdate, TypeOK, HasJob, DeliveryInv, SpoolMatches, DeliveredNotAwaited, NotAwaited, LeaseAccounted, Held, Holding, Delivered, Written, Steps
  <2>5. QED
    BY <2>1, <2>2, <2>3, <2>4 DEF DeliveryInv
<1>5. CASE LeaseSelect(w)
  <2>1. TokensDrawn'
    BY <1>5 DEF LeaseSelect, TypeOK, HasJob, DeliveryInv, TokensDrawn
  <2>2. \A v \in Workers : SpoolMatches(v)'
    BY <1>5 DEF LeaseSelect, TypeOK, HasJob, DeliveryInv, SpoolMatches, Holding, Written, Steps
  <2>3. \A v \in Workers : DeliveredNotAwaited(v)'
    BY <1>5 DEF LeaseSelect, TypeOK, HasJob, DeliveryInv, TokensDrawn, SpoolMatches, DeliveredNotAwaited, NotAwaited, Delivered, Holding, Steps
  <2>4. LeaseAccounted'
    BY <1>5 DEF LeaseSelect, TypeOK, HasJob, DeliveryInv, SpoolMatches, DeliveredNotAwaited, NotAwaited, LeaseAccounted, Held, Holding, Delivered, Written, Steps
  <2>5. QED
    BY <2>1, <2>2, <2>3, <2>4 DEF DeliveryInv
<1>6. CASE LeaseRefused(w)
  <2>1. TokensDrawn'
    BY <1>6 DEF LeaseRefused, TypeOK, HasJob, DeliveryInv, TokensDrawn
  <2>2. \A v \in Workers : SpoolMatches(v)'
    BY <1>6 DEF LeaseRefused, TypeOK, HasJob, DeliveryInv, SpoolMatches, Holding, Written, Steps
  <2>3. \A v \in Workers : DeliveredNotAwaited(v)'
    BY <1>6 DEF LeaseRefused, TypeOK, HasJob, DeliveryInv, TokensDrawn, SpoolMatches, DeliveredNotAwaited, NotAwaited, Delivered, Holding, Steps
  <2>4. LeaseAccounted'
    BY <1>6 DEF LeaseRefused, TypeOK, HasJob, DeliveryInv, SpoolMatches, DeliveredNotAwaited, NotAwaited, LeaseAccounted, Held, Holding, Delivered, Written, Steps
  <2>5. QED
    BY <2>1, <2>2, <2>3, <2>4 DEF DeliveryInv
<1>7. CASE LeaseUpdate(w)
  <2>0. /\ issued' = issued + 1 /\ issued \in Nat
        /\ work[w].job \in Jobs /\ pc[w] = "leasing"
        /\ leaseToken' = [leaseToken EXCEPT ![work[w].job] = issued + 1]
        /\ status' = [status EXCEPT ![work[w].job] = "leased"]
        /\ work' = [work EXCEPT ![w] = LeaseOn(work[w].job, issued + 1)]
        /\ pc' = [pc EXCEPT ![w] = "leased"]
        /\ UNCHANGED <<spool, lost>>
    BY <1>7 DEF LeaseUpdate, TypeOK, HasJob
  <2>1. TokensDrawn'
    <3>1. \A j \in Jobs : leaseToken'[j] <= issued'
      BY <2>0 DEF TypeOK, DeliveryInv, TokensDrawn
    <3>2. \A v \in Workers : work'[v].token <= issued'
      <4> SUFFICES ASSUME NEW v \in Workers PROVE work'[v].token <= issued + 1
        BY <2>0
      <4>1. work[v].token \in Nat /\ work[v].token <= issued
        BY WorkFields DEF TypeOK, DeliveryInv, TokensDrawn
      <4>2. QED
        BY <2>0, <4>1 DEF TypeOK
    <3>3. \A v \in Workers, j \in Jobs : spool'[v][j].token <= issued'
      BY <2>0 DEF TypeOK, DeliveryInv, TokensDrawn, SpoolFile
    <3>4. QED
      BY <3>1, <3>2, <3>3 DEF TokensDrawn
  <2>2. \A v \in Workers : SpoolMatches(v)'
    BY <2>0 DEF TypeOK, HasJob, DeliveryInv, SpoolMatches, Holding, Written, Steps
  <2>3. \A v \in Workers : DeliveredNotAwaited(v)'
    BY <1>7 DEF LeaseUpdate, TypeOK, HasJob, DeliveryInv, TokensDrawn, SpoolMatches,
                DeliveredNotAwaited, NotAwaited, Delivered, Holding, Steps
  <2>4. LeaseAccounted'
    <3>1. Held(w, work[w].job)'
      BY <2>0 DEF Held, Holding, Steps, TypeOK
    <3>2. ASSUME NEW v \in Workers, NEW j \in Jobs \ {work[w].job}, Held(v, j)
          PROVE  Held(v, j)'
      BY <2>0, <3>2 DEF Held, Holding, Steps, TypeOK
    <3>3. QED
      BY <2>0, <3>1, <3>2 DEF DeliveryInv, LeaseAccounted, TypeOK
  <2>5. QED
    BY <2>1, <2>2, <2>3, <2>4 DEF DeliveryInv
<1>8. CASE SpoolClaim(w)
  <2>1. TokensDrawn'
    BY <1>8 DEF SpoolClaim, Write, TypeOK, HasJob, DeliveryInv, TokensDrawn
  <2>2. \A v \in Workers : SpoolMatches(v)'
    BY <1>8 DEF SpoolClaim, Write, TypeOK, HasJob, DeliveryInv, SpoolMatches, Holding, Written, Steps
  <2>3. \A v \in Workers : DeliveredNotAwaited(v)'
    BY <1>8 DEF SpoolClaim, Write, TypeOK, HasJob, DeliveryInv, TokensDrawn, SpoolMatches, DeliveredNotAwaited, NotAwaited, Delivered, Holding, Steps
  <2>4. LeaseAccounted'
    BY <1>8 DEF SpoolClaim, Write, TypeOK, HasJob, DeliveryInv, SpoolMatches, DeliveredNotAwaited, NotAwaited, LeaseAccounted, Held, Holding, Delivered, Written, Steps
  <2>5. QED
    BY <2>1, <2>2, <2>3, <2>4 DEF DeliveryInv
<1>9. CASE Execute(w)
  <2>1. TokensDrawn'
    BY <1>9 DEF Execute, TypeOK, HasJob, DeliveryInv, TokensDrawn
  <2>2. \A v \in Workers : SpoolMatches(v)'
    BY <1>9 DEF Execute, TypeOK, HasJob, DeliveryInv, SpoolMatches, Holding, Written, Steps
  <2>3. \A v \in Workers : DeliveredNotAwaited(v)'
    BY <1>9 DEF Execute, TypeOK, HasJob, DeliveryInv, TokensDrawn, SpoolMatches, DeliveredNotAwaited, NotAwaited, Delivered, Holding, Steps
  <2>4. LeaseAccounted'
    BY <1>9 DEF Execute, TypeOK, HasJob, DeliveryInv, SpoolMatches, DeliveredNotAwaited, NotAwaited, LeaseAccounted, Held, Holding, Delivered, Written, Steps
  <2>5. QED
    BY <2>1, <2>2, <2>3, <2>4 DEF DeliveryInv
<1>10. CASE SpoolResult(w)
  <2>1. TokensDrawn'
    BY <1>10 DEF SpoolResult, Write, TypeOK, HasJob, DeliveryInv, TokensDrawn
  <2>2. \A v \in Workers : SpoolMatches(v)'
    BY <1>10 DEF SpoolResult, Write, TypeOK, HasJob, DeliveryInv, SpoolMatches, Holding, Written, Steps
  <2>3. \A v \in Workers : DeliveredNotAwaited(v)'
    BY <1>10 DEF SpoolResult, Write, TypeOK, HasJob, DeliveryInv, TokensDrawn, SpoolMatches, DeliveredNotAwaited, NotAwaited, Delivered, Holding, Steps
  <2>4. LeaseAccounted'
    BY <1>10 DEF SpoolResult, Write, TypeOK, HasJob, DeliveryInv, SpoolMatches, DeliveredNotAwaited, NotAwaited, LeaseAccounted, Held, Holding, Delivered, Written, Steps
  <2>5. QED
    BY <2>1, <2>2, <2>3, <2>4 DEF DeliveryInv
<1>11. CASE CompleteSelect(w)
  <2>1. TokensDrawn'
    BY <1>11 DEF CompleteSelect, TypeOK, HasJob, DeliveryInv, TokensDrawn
  <2>2. \A v \in Workers : SpoolMatches(v)'
    BY <1>11 DEF CompleteSelect, TypeOK, HasJob, DeliveryInv, SpoolMatches, Holding, Written, Steps
  <2>3. \A v \in Workers : DeliveredNotAwaited(v)'
    BY <1>11 DEF CompleteSelect, TypeOK, HasJob, DeliveryInv, TokensDrawn, SpoolMatches, DeliveredNotAwaited, NotAwaited, Delivered, Holding, Steps
  <2>4. LeaseAccounted'
    BY <1>11 DEF CompleteSelect, TypeOK, HasJob, DeliveryInv, SpoolMatches, DeliveredNotAwaited, NotAwaited, LeaseAccounted, Held, Holding, Delivered, Written, Steps
  <2>5. QED
    BY <2>1, <2>2, <2>3, <2>4 DEF DeliveryInv
<1>12. CASE CompleteReplay(w)
  <2>1. TokensDrawn'
    BY <1>12 DEF CompleteReplay, TypeOK, HasJob, DeliveryInv, TokensDrawn
  <2>2. \A v \in Workers : SpoolMatches(v)'
    BY <1>12 DEF CompleteReplay, TypeOK, HasJob, DeliveryInv, SpoolMatches, Holding, Written, Steps
  <2>3. \A v \in Workers : DeliveredNotAwaited(v)'
    BY <1>12 DEF CompleteReplay, TypeOK, HasJob, DeliveryInv, TokensDrawn, SpoolMatches, DeliveredNotAwaited, NotAwaited, Delivered, Holding, Steps
  <2>4. LeaseAccounted'
    BY <1>12 DEF CompleteReplay, TypeOK, HasJob, DeliveryInv, SpoolMatches, DeliveredNotAwaited, NotAwaited, LeaseAccounted, Held, Holding, Delivered, Written, Steps
  <2>5. QED
    BY <2>1, <2>2, <2>3, <2>4 DEF DeliveryInv
<1>13. CASE CompleteRefused(w)
  <2>1. TokensDrawn'
    BY <1>13 DEF CompleteRefused, TypeOK, HasJob, DeliveryInv, TokensDrawn
  <2>2. \A v \in Workers : SpoolMatches(v)'
    BY <1>13 DEF CompleteRefused, TypeOK, HasJob, DeliveryInv, SpoolMatches, Holding, Written, Steps
  <2>3. \A v \in Workers : DeliveredNotAwaited(v)'
    BY <1>13 DEF CompleteRefused, TypeOK, HasJob, DeliveryInv, TokensDrawn, SpoolMatches, DeliveredNotAwaited, NotAwaited, Delivered, Holding, Steps
  <2>4. LeaseAccounted'
    BY <1>13 DEF CompleteRefused, TypeOK, HasJob, DeliveryInv, SpoolMatches, DeliveredNotAwaited, NotAwaited, LeaseAccounted, Held, Holding, Delivered, Written, Steps
  <2>5. QED
    BY <2>1, <2>2, <2>3, <2>4 DEF DeliveryInv
<1>14. CASE CompleteUpdate(w)
  <2>1. TokensDrawn'
    BY <1>14 DEF CompleteUpdate, TypeOK, HasJob, DeliveryInv, TokensDrawn
  <2>2. \A v \in Workers : SpoolMatches(v)'
    BY <1>14 DEF CompleteUpdate, TypeOK, HasJob, DeliveryInv, SpoolMatches, Holding, Written, Steps
  <2>3. \A v \in Workers : DeliveredNotAwaited(v)'
    BY <1>14 DEF CompleteUpdate, TypeOK, HasJob, DeliveryInv, TokensDrawn, SpoolMatches, DeliveredNotAwaited, NotAwaited, Delivered, Holding, Steps
  <2>4. LeaseAccounted'
    BY <1>14 DEF CompleteUpdate, TypeOK, HasJob, DeliveryInv, SpoolMatches, DeliveredNotAwaited, NotAwaited, LeaseAccounted, Held, Holding, Delivered, Written, Steps
  <2>5. QED
    BY <2>1, <2>2, <2>3, <2>4 DEF DeliveryInv
<1>15. CASE Ingest(w)
  <2>1. TokensDrawn'
    BY <1>15 DEF Ingest, TypeOK, HasJob, DeliveryInv, TokensDrawn
  <2>2. \A v \in Workers : SpoolMatches(v)'
    BY <1>15 DEF Ingest, TypeOK, HasJob, DeliveryInv, SpoolMatches, Holding, Written, Steps
  <2>3. \A v \in Workers : DeliveredNotAwaited(v)'
    BY <1>15 DEF Ingest, TypeOK, HasJob, DeliveryInv, TokensDrawn, SpoolMatches, DeliveredNotAwaited, NotAwaited, Delivered, Holding, Steps
  <2>4. LeaseAccounted'
    BY <1>15 DEF Ingest, TypeOK, HasJob, DeliveryInv, SpoolMatches, DeliveredNotAwaited, NotAwaited, LeaseAccounted, Held, Holding, Delivered, Written, Steps
  <2>5. QED
    BY <2>1, <2>2, <2>3, <2>4 DEF DeliveryInv
<1>16. CASE SpoolSubmitted(w)
  <2>1. TokensDrawn'
    BY <1>16 DEF SpoolSubmitted, Write, TypeOK, HasJob, DeliveryInv, TokensDrawn
  <2>2. \A v \in Workers : SpoolMatches(v)'
    BY <1>16 DEF SpoolSubmitted, Write, TypeOK, HasJob, DeliveryInv, SpoolMatches, Holding, Written, Steps
  <2>3. \A v \in Workers : DeliveredNotAwaited(v)'
    BY <1>16 DEF SpoolSubmitted, Write, TypeOK, HasJob, DeliveryInv, TokensDrawn, SpoolMatches, DeliveredNotAwaited, NotAwaited, Delivered, Holding, Steps
  <2>4. LeaseAccounted'
    BY <1>16 DEF SpoolSubmitted, Write, TypeOK, HasJob, DeliveryInv, SpoolMatches, DeliveredNotAwaited, NotAwaited, LeaseAccounted, Held, Holding, Delivered, Written, Steps
  <2>5. QED
    BY <2>1, <2>2, <2>3, <2>4 DEF DeliveryInv
<1>17. CASE Unlink(w)
  <2>1. TokensDrawn'
    BY <1>17 DEF Unlink, NoFile, TypeOK, HasJob, DeliveryInv, TokensDrawn
  <2>2. \A v \in Workers : SpoolMatches(v)'
    BY <1>17 DEF Unlink, NoFile, TypeOK, HasJob, DeliveryInv, SpoolMatches, Holding, Written, Steps
  <2>3. \A v \in Workers : DeliveredNotAwaited(v)'
    BY <1>17 DEF Unlink, NoFile, TypeOK, HasJob, DeliveryInv, TokensDrawn, SpoolMatches, DeliveredNotAwaited, NotAwaited, Delivered, Holding, Steps
  <2>4. LeaseAccounted'
    BY <1>17 DEF Unlink, NoFile, TypeOK, HasJob, DeliveryInv, SpoolMatches, DeliveredNotAwaited, NotAwaited, LeaseAccounted, Held, Holding, Delivered, Written, Steps
  <2>5. QED
    BY <2>1, <2>2, <2>3, <2>4 DEF DeliveryInv
<1>18. CASE RecoverLoad(w)
  <2>1. TokensDrawn'
    BY <1>18 DEF RecoverLoad, Files, LeaseOn, ResumeAt, TypeOK, HasJob, DeliveryInv, TokensDrawn
  <2>2. \A v \in Workers : SpoolMatches(v)'
    BY <1>18 DEF RecoverLoad, Files, LeaseOn, ResumeAt, TypeOK, HasJob, DeliveryInv, SpoolMatches, Holding, Written, Steps
  <2>3. \A v \in Workers : DeliveredNotAwaited(v)'
    BY <1>18 DEF RecoverLoad, Files, LeaseOn, ResumeAt, TypeOK, HasJob, DeliveryInv, TokensDrawn, SpoolMatches, DeliveredNotAwaited, NotAwaited, Delivered, Holding, Steps
  <2>4. LeaseAccounted'
    BY <1>18 DEF RecoverLoad, Files, LeaseOn, ResumeAt, TypeOK, HasJob, DeliveryInv, SpoolMatches, DeliveredNotAwaited, NotAwaited, LeaseAccounted, Held, Holding, Delivered, Written, Steps
  <2>5. QED
    BY <2>1, <2>2, <2>3, <2>4 DEF DeliveryInv
<1>19. CASE Crash(w)
  <2>1. TokensDrawn'
    BY <1>19 DEF Crash, Fault, TypeOK, HasJob, DeliveryInv, TokensDrawn
  <2>2. \A v \in Workers : SpoolMatches(v)'
    BY <1>19 DEF Crash, Fault, TypeOK, HasJob, DeliveryInv, SpoolMatches, Holding, Written, Steps
  <2>3. \A v \in Workers : DeliveredNotAwaited(v)'
    BY <1>19 DEF Crash, Fault, TypeOK, HasJob, DeliveryInv, TokensDrawn, SpoolMatches, DeliveredNotAwaited, NotAwaited, Delivered, Holding, Steps
  <2>4. LeaseAccounted'
    BY <1>19 DEF Crash, Fault, TypeOK, HasJob, DeliveryInv, SpoolMatches, DeliveredNotAwaited, NotAwaited, LeaseAccounted, Held, Holding, Delivered, Written, Steps
  <2>5. QED
    BY <2>1, <2>2, <2>3, <2>4 DEF DeliveryInv
<1>20. CASE CrashInWrite(w)
  <2>1. TokensDrawn'
    BY <1>20 DEF CrashInWrite, Fault, TornFile, TypeOK, HasJob, DeliveryInv, TokensDrawn
  <2>2. \A v \in Workers : SpoolMatches(v)'
    BY <1>20 DEF CrashInWrite, Fault, TornFile, TypeOK, HasJob, DeliveryInv, SpoolMatches, Holding, Written, Steps
  <2>3. \A v \in Workers : DeliveredNotAwaited(v)'
    BY <1>20 DEF CrashInWrite, Fault, TornFile, TypeOK, HasJob, DeliveryInv, TokensDrawn, SpoolMatches, DeliveredNotAwaited, NotAwaited, Delivered, Holding, Steps
  <2>4. LeaseAccounted'
    BY <1>20 DEF CrashInWrite, Fault, TornFile, TypeOK, HasJob, DeliveryInv, SpoolMatches, DeliveredNotAwaited, NotAwaited, LeaseAccounted, Held, Holding, Delivered, Written, Steps
  <2>5. QED
    BY <2>1, <2>2, <2>3, <2>4 DEF DeliveryInv
<1>21. CASE ExecuteFails(w)
  <2>1. TokensDrawn'
    BY <1>21 DEF ExecuteFails, Fault, TypeOK, HasJob, DeliveryInv, TokensDrawn
  <2>2. \A v \in Workers : SpoolMatches(v)'
    BY <1>21 DEF ExecuteFails, Fault, TypeOK, HasJob, DeliveryInv, SpoolMatches, Holding, Written, Steps
  <2>3. \A v \in Workers : DeliveredNotAwaited(v)'
    BY <1>21 DEF ExecuteFails, Fault, TypeOK, HasJob, DeliveryInv, TokensDrawn, SpoolMatches, DeliveredNotAwaited, NotAwaited, Delivered, Holding, Steps
  <2>4. LeaseAccounted'
    BY <1>21 DEF ExecuteFails, Fault, TypeOK, HasJob, DeliveryInv, SpoolMatches, DeliveredNotAwaited, NotAwaited, LeaseAccounted, Held, Holding, Delivered, Written, Steps
  <2>5. QED
    BY <2>1, <2>2, <2>3, <2>4 DEF DeliveryInv
<1>22. CASE IngestFails(w)
  <2>1. TokensDrawn'
    BY <1>22 DEF IngestFails, Fault, TypeOK, HasJob, DeliveryInv, TokensDrawn
  <2>2. \A v \in Workers : SpoolMatches(v)'
    BY <1>22 DEF IngestFails, Fault, TypeOK, HasJob, DeliveryInv, SpoolMatches, Holding, Written, Steps
  <2>3. \A v \in Workers : DeliveredNotAwaited(v)'
    BY <1>22 DEF IngestFails, Fault, TypeOK, HasJob, DeliveryInv, TokensDrawn, SpoolMatches, DeliveredNotAwaited, NotAwaited, Delivered, Holding, Steps
  <2>4. LeaseAccounted'
    BY <1>22 DEF IngestFails, Fault, TypeOK, HasJob, DeliveryInv, SpoolMatches, DeliveredNotAwaited, NotAwaited, LeaseAccounted, Held, Holding, Delivered, Written, Steps
  <2>5. QED
    BY <2>1, <2>2, <2>3, <2>4 DEF DeliveryInv
<1>23. QED
  BY <1>1, <1>2, <1>3, <1>4, <1>5, <1>6, <1>7, <1>8, <1>9, <1>10, <1>11, <1>12, <1>13, <1>14, <1>15, <1>16, <1>17, <1>18, <1>19, <1>20, <1>21, <1>22 DEF WorkerStep, WorkerFault

LEMMA DeliveryNext == TypeOK /\ HasJob /\ DeliveryInv /\ [Next]_vars => DeliveryInv'
<1> SUFFICES ASSUME TypeOK, HasJob, DeliveryInv, [Next]_vars PROVE DeliveryInv'
  OBVIOUS
<1> USE DEF TypeOK, DeliveryInv, TokensDrawn, SpoolMatches, DeliveredNotAwaited, NotAwaited,
            LeaseAccounted, Held
<1>1. CASE Create
  BY <1>1 DEF Create, CreateJob, history
<1>2. CASE \E w \in Workers : WorkerStep(w) \/ WorkerFault(w)
  BY <1>2, DeliveryStep
<1>3. CASE Tick
  BY <1>3 DEF Tick, store, history
<1>4. CASE UNCHANGED vars
  BY <1>4 DEF vars, store, history
<1>5. QED
  BY <1>1, <1>2, <1>3, <1>4 DEF Next

\* A leased job can always be finished by the worker that has its token or by
\* that worker's spool; only a crash before the first spool write, or inside
\* a spool write, strands it.  Holds however broker calls overlap.
THEOREM LeaseNeverStranded == Spec => []LeaseAccounted
<1>1. Init => TypeOK /\ HasJob /\ DeliveryInv
  BY TypeInit, DeliveryInit DEF Init, HasJob
<1>2. TypeOK /\ HasJob /\ DeliveryInv /\ [Next]_vars => (TypeOK /\ HasJob /\ DeliveryInv)'
  BY TypeNext, DeliveryNext
<1>3. DeliveryInv => LeaseAccounted
  BY DEF DeliveryInv
<1>4. QED
  BY <1>1, <1>2, <1>3, PTL DEF Spec

-----------------------------------------------------------------------------
(* Nothing is unlinked before it is recorded, however broker calls overlap. *)

LEMMA RecordedStep ==
  ASSUME TypeOK, HasJob, RecordedInv, NEW w \in Workers, WorkerStep(w) \/ WorkerFault(w)
  PROVE  RecordedInv' /\ \A v \in Workers : \A j \in Files(v) \ Files(v)' : result[j] # 0
<1> USE DEF store, history, Goto, Return, NoWork, LeaseOn, TypeOK, HasJob, RecordedInv,
            Holding, Steps, Delivered, Written, Files
<1>1. CASE PollFound(w)
  BY <1>1 DEF PollFound, Oldest, Claimable, Candidate
<1>2. CASE PollStale(w)
  BY <1>2 DEF PollStale, Oldest, Stale, Candidate
<1>3. CASE PollNothing(w)
  BY <1>3 DEF PollNothing
<1>4. CASE ExpireUpdate(w)
  BY <1>4 DEF ExpireUpdate
<1>5. CASE LeaseSelect(w)
  BY <1>5 DEF LeaseSelect
<1>6. CASE LeaseRefused(w)
  BY <1>6 DEF LeaseRefused
<1>7. CASE LeaseUpdate(w)
  BY <1>7 DEF LeaseUpdate
<1>8. CASE SpoolClaim(w)
  BY <1>8 DEF SpoolClaim, Write
<1>9. CASE Execute(w)
  BY <1>9 DEF Execute
<1>10. CASE SpoolResult(w)
  BY <1>10 DEF SpoolResult, Write
<1>11. CASE CompleteSelect(w)
  BY <1>11 DEF CompleteSelect
<1>12. CASE CompleteReplay(w)
  BY <1>12 DEF CompleteReplay
<1>13. CASE CompleteRefused(w)
  BY <1>13 DEF CompleteRefused
<1>14. CASE CompleteUpdate(w)
  BY <1>14 DEF CompleteUpdate
<1>15. CASE Ingest(w)
  BY <1>15 DEF Ingest
<1>16. CASE SpoolSubmitted(w)
  BY <1>16 DEF SpoolSubmitted, Write
<1>17. CASE Unlink(w)
  BY <1>17 DEF Unlink, NoFile
<1>18. CASE RecoverLoad(w)
  BY <1>18 DEF RecoverLoad, ResumeAt
<1>19. CASE Crash(w)
  BY <1>19 DEF Crash, Fault
<1>20. CASE CrashInWrite(w)
  BY <1>20 DEF CrashInWrite, Fault, TornFile
<1>21. CASE ExecuteFails(w)
  BY <1>21 DEF ExecuteFails, Fault
<1>22. CASE IngestFails(w)
  BY <1>22 DEF IngestFails, Fault
<1>23. QED
  BY <1>1, <1>2, <1>3, <1>4, <1>5, <1>6, <1>7, <1>8, <1>9, <1>10, <1>11, <1>12, <1>13, <1>14, <1>15, <1>16, <1>17, <1>18, <1>19, <1>20, <1>21, <1>22 DEF WorkerStep, WorkerFault

LEMMA RecordedNext ==
  ASSUME TypeOK, HasJob, RecordedInv, [Next]_vars
  PROVE  RecordedInv' /\ \A v \in Workers : \A j \in Files(v) \ Files(v)' : result[j] # 0
<1> USE DEF RecordedInv, Files
<1>1. CASE Create
  BY <1>1 DEF Create, CreateJob, TypeOK
<1>2. CASE \E w \in Workers : WorkerStep(w) \/ WorkerFault(w)
  BY <1>2, RecordedStep
<1>3. CASE Tick
  BY <1>3 DEF Tick, store
<1>4. CASE UNCHANGED vars
  BY <1>4 DEF vars, store
<1>5. QED
  BY <1>1, <1>2, <1>3, <1>4 DEF Next

\* A worker removes a spool file only when the table holds a result of that job.
THEOREM UnlinkOnlyRecorded == Spec => UnlinkedAfterRecorded
<1>1. Init => TypeOK /\ HasJob /\ RecordedInv
  BY TypeInit DEF Init, HasJob, RecordedInv, NoFile, Holding, Delivered, Written
<1>2. TypeOK /\ HasJob /\ RecordedInv /\ [Next]_vars
        => /\ (TypeOK /\ HasJob /\ RecordedInv)'
           /\ [\A w \in Workers : \A j \in Files(w) \ Files(w)' : result[j] # 0]_vars
  BY TypeNext, RecordedNext
<1>3. QED
  BY <1>1, <1>2, PTL DEF Spec, UnlinkedAfterRecorded

-----------------------------------------------------------------------------
(* One broker call at a time.                                              *)

LEMMA SerialInit == Init => SerialInv
BY DEF Init, SerialInv, StoreMutex, RowState, WorkerState, SpoolState, NoFile, InStore,
       Holding, Delivered, Written

LEMMA SerialStep ==
  ASSUME SerialBroker, TypeOK, HasJob, SerialInv,
         NEW w \in Workers, WorkerStep(w) \/ WorkerFault(w)
  PROVE  SerialInv'
<1> USE DEF store, history, Goto, Return, NoWork, LeaseOn
<1>1. CASE PollFound(w)
  <2>1. StoreMutex' /\ \A j \in Jobs : (leaseToken[j] <= issued)'
    BY <1>1 DEF PollFound, Oldest, Claimable, Candidate, Files, TypeOK, HasJob, SerialInv, StoreMutex, StoreFree, InStore
  <2>2. \A j \in Jobs : RowState(j)'
    BY <1>1 DEF PollFound, Oldest, Claimable, Candidate, Files, TypeOK, HasJob, SerialInv, RowState, WorkerState, Holding, Steps, Delivered
  <2>3. \A v \in Workers : WorkerState(v)'
    BY <1>1 DEF PollFound, Oldest, Claimable, Candidate, Files, TypeOK, HasJob, SerialInv, StoreMutex, InStore, RowState, WorkerState, SpoolState, Holding, Steps, Delivered, Written
  <2>4. \A v \in Workers, j \in Jobs : SpoolState(v, j)'
    BY <1>1 DEF PollFound, SerialInv, SpoolState
  <2>5. QED
    BY <2>1, <2>2, <2>3, <2>4 DEF SerialInv
<1>2. CASE PollStale(w)
  <2>1. StoreMutex' /\ \A j \in Jobs : (leaseToken[j] <= issued)'
    BY <1>2 DEF PollStale, Oldest, Stale, Candidate, Files, TypeOK, HasJob, SerialInv, StoreMutex, StoreFree, InStore
  <2>2. \A j \in Jobs : RowState(j)'
    BY <1>2 DEF PollStale, Oldest, Stale, Candidate, Files, TypeOK, HasJob, SerialInv, RowState, WorkerState, Holding, Steps, Delivered
  <2>3. \A v \in Workers : WorkerState(v)'
    BY <1>2 DEF PollStale, Oldest, Stale, Candidate, Files, TypeOK, HasJob, SerialInv, StoreMutex, InStore, RowState, WorkerState, SpoolState, Holding, Steps, Delivered, Written
  <2>4. \A v \in Workers, j \in Jobs : SpoolState(v, j)'
    BY <1>2 DEF PollStale, SerialInv, SpoolState
  <2>5. QED
    BY <2>1, <2>2, <2>3, <2>4 DEF SerialInv
<1>3. CASE PollNothing(w)
  <2>1. StoreMutex' /\ \A j \in Jobs : (leaseToken[j] <= issued)'
    BY <1>3 DEF PollNothing, TypeOK, HasJob, SerialInv, StoreMutex, StoreFree, InStore
  <2>2. \A j \in Jobs : RowState(j)'
    BY <1>3 DEF PollNothing, TypeOK, HasJob, SerialInv, RowState, WorkerState, Holding, Steps, Delivered
  <2>3. \A v \in Workers : WorkerState(v)'
    BY <1>3 DEF PollNothing, TypeOK, HasJob, SerialInv, StoreMutex, InStore, RowState, WorkerState, SpoolState, Holding, Steps, Delivered, Written
  <2>4. \A v \in Workers, j \in Jobs : SpoolState(v, j)'
    BY <1>3 DEF PollNothing, TypeOK, HasJob, SerialInv, RowState, WorkerState, SpoolState, Holding, Steps, Delivered, Written
  <2>5. QED
    BY <2>1, <2>2, <2>3, <2>4 DEF SerialInv
<1>4. CASE ExpireUpdate(w)
  <2>1. StoreMutex' /\ \A j \in Jobs : (leaseToken[j] <= issued)'
    BY <1>4 DEF ExpireUpdate, TypeOK, HasJob, SerialInv, StoreMutex, StoreFree, InStore
  <2>2. \A j \in Jobs : RowState(j)'
    BY <1>4 DEF ExpireUpdate, TypeOK, HasJob, SerialInv, RowState, WorkerState, Holding, Steps, Delivered
  <2>3. \A v \in Workers : WorkerState(v)'
    BY <1>4 DEF ExpireUpdate, TypeOK, HasJob, SerialInv, StoreMutex, InStore, RowState, WorkerState, SpoolState, Holding, Steps, Delivered, Written
  <2>4. \A v \in Workers, j \in Jobs : SpoolState(v, j)'
    BY <1>4 DEF ExpireUpdate, TypeOK, HasJob, SerialInv, RowState, WorkerState, SpoolState, Holding, Steps, Delivered, Written
  <2>5. QED
    BY <2>1, <2>2, <2>3, <2>4 DEF SerialInv
<1>5. CASE LeaseSelect(w)
  <2>1. StoreMutex' /\ \A j \in Jobs : (leaseToken[j] <= issued)'
    BY <1>5 DEF LeaseSelect, TypeOK, HasJob, SerialInv, StoreMutex, StoreFree, InStore
  <2>2. \A j \in Jobs : RowState(j)'
    BY <1>5 DEF LeaseSelect, TypeOK, HasJob, SerialInv, RowState, WorkerState, Holding, Steps, Delivered
  <2>3. \A v \in Workers : WorkerState(v)'
    BY <1>5 DEF LeaseSelect, TypeOK, HasJob, SerialInv, StoreMutex, InStore, RowState, WorkerState, SpoolState, Holding, Steps, Delivered, Written
  <2>4. \A v \in Workers, j \in Jobs : SpoolState(v, j)'
    BY <1>5 DEF LeaseSelect, TypeOK, HasJob, SerialInv, RowState, WorkerState, SpoolState, Holding, Steps, Delivered, Written
  <2>5. QED
    BY <2>1, <2>2, <2>3, <2>4 DEF SerialInv
<1>6. CASE LeaseRefused(w)
  <2>1. StoreMutex' /\ \A j \in Jobs : (leaseToken[j] <= issued)'
    BY <1>6 DEF LeaseRefused, TypeOK, HasJob, SerialInv, StoreMutex, StoreFree, InStore
  <2>2. \A j \in Jobs : RowState(j)'
    BY <1>6 DEF LeaseRefused, TypeOK, HasJob, SerialInv, RowState, WorkerState, Holding, Steps, Delivered
  <2>3. \A v \in Workers : WorkerState(v)'
    BY <1>6 DEF LeaseRefused, TypeOK, HasJob, SerialInv, StoreMutex, InStore, RowState, WorkerState, SpoolState, Holding, Steps, Delivered, Written
  <2>4. \A v \in Workers, j \in Jobs : SpoolState(v, j)'
    BY <1>6 DEF LeaseRefused, TypeOK, HasJob, SerialInv, RowState, WorkerState, SpoolState, Holding, Steps, Delivered, Written
  <2>5. QED
    BY <2>1, <2>2, <2>3, <2>4 DEF SerialInv
<1>7. CASE LeaseUpdate(w)
  <2>1. StoreMutex' /\ \A j \in Jobs : (leaseToken[j] <= issued)'
    BY <1>7 DEF LeaseUpdate, LeaseOn, TypeOK, HasJob, SerialInv, StoreMutex, StoreFree, InStore
  <2>2. \A j \in Jobs : RowState(j)'
    BY <1>7 DEF LeaseUpdate, LeaseOn, TypeOK, HasJob, SerialInv, RowState, WorkerState, Holding, Steps, Delivered
  <2>3. \A v \in Workers : WorkerState(v)'
    BY <1>7 DEF LeaseUpdate, LeaseOn, TypeOK, HasJob, SerialInv, StoreMutex, InStore, RowState, WorkerState, SpoolState, Holding, Steps, Delivered, Written
  <2>4. \A v \in Workers, j \in Jobs : SpoolState(v, j)'
    BY <1>7 DEF LeaseUpdate, LeaseOn, TypeOK, HasJob, SerialInv, RowState, WorkerState, SpoolState, Holding, Steps, Delivered, Written
  <2>5. QED
    BY <2>1, <2>2, <2>3, <2>4 DEF SerialInv
<1>8. CASE SpoolClaim(w)
  <2>1. StoreMutex' /\ \A j \in Jobs : (leaseToken[j] <= issued)'
    BY <1>8 DEF SpoolClaim, Write, TypeOK, HasJob, SerialInv, StoreMutex, StoreFree, InStore
  <2>2. \A j \in Jobs : RowState(j)'
    BY <1>8 DEF SpoolClaim, Write, TypeOK, HasJob, SerialInv, RowState, WorkerState, Holding, Steps, Delivered
  <2>3. \A v \in Workers : WorkerState(v)'
    BY <1>8 DEF SpoolClaim, Write, TypeOK, HasJob, SerialInv, StoreMutex, InStore, RowState, WorkerState, SpoolState, Holding, Steps, Delivered, Written
  <2>4. \A v \in Workers, j \in Jobs : SpoolState(v, j)'
    BY <1>8 DEF SpoolClaim, Write, TypeOK, HasJob, SerialInv, RowState, WorkerState, SpoolState, Holding, Steps, Delivered, Written
  <2>5. QED
    BY <2>1, <2>2, <2>3, <2>4 DEF SerialInv
<1>9. CASE Execute(w)
  <2>1. StoreMutex' /\ \A j \in Jobs : (leaseToken[j] <= issued)'
    BY <1>9 DEF Execute, TypeOK, HasJob, SerialInv, StoreMutex, StoreFree, InStore
  <2>2. \A j \in Jobs : RowState(j)'
    BY <1>9 DEF Execute, TypeOK, HasJob, SerialInv, RowState, WorkerState, Holding, Steps, Delivered
  <2>3. \A v \in Workers : WorkerState(v)'
    BY <1>9 DEF Execute, TypeOK, HasJob, SerialInv, StoreMutex, InStore, RowState, WorkerState, SpoolState, Holding, Steps, Delivered, Written
  <2>4. \A v \in Workers, j \in Jobs : SpoolState(v, j)'
    BY <1>9 DEF Execute, TypeOK, HasJob, SerialInv, RowState, WorkerState, SpoolState, Holding, Steps, Delivered, Written
  <2>5. QED
    BY <2>1, <2>2, <2>3, <2>4 DEF SerialInv
<1>10. CASE SpoolResult(w)
  <2>1. StoreMutex' /\ \A j \in Jobs : (leaseToken[j] <= issued)'
    BY <1>10 DEF SpoolResult, Write, TypeOK, HasJob, SerialInv, StoreMutex, StoreFree, InStore
  <2>2. \A j \in Jobs : RowState(j)'
    BY <1>10 DEF SpoolResult, Write, TypeOK, HasJob, SerialInv, RowState, WorkerState, Holding, Steps, Delivered
  <2>3. \A v \in Workers : WorkerState(v)'
    BY <1>10 DEF SpoolResult, Write, TypeOK, HasJob, SerialInv, StoreMutex, InStore, RowState, WorkerState, SpoolState, Holding, Steps, Delivered, Written
  <2>4. \A v \in Workers, j \in Jobs : SpoolState(v, j)'
    BY <1>10 DEF SpoolResult, Write, TypeOK, HasJob, SerialInv, RowState, WorkerState, SpoolState, Holding, Steps, Delivered, Written
  <2>5. QED
    BY <2>1, <2>2, <2>3, <2>4 DEF SerialInv
<1>11. CASE CompleteSelect(w)
  <2>1. StoreMutex' /\ \A j \in Jobs : (leaseToken[j] <= issued)'
    BY <1>11 DEF CompleteSelect, LeaseHonoured, TypeOK, HasJob, SerialInv, StoreMutex, StoreFree, InStore
  <2>2. \A j \in Jobs : RowState(j)'
    BY <1>11 DEF CompleteSelect, LeaseHonoured, TypeOK, HasJob, SerialInv, RowState, WorkerState, Holding, Steps, Delivered
  <2>3. \A v \in Workers : WorkerState(v)'
    BY <1>11 DEF CompleteSelect, LeaseHonoured, TypeOK, HasJob, SerialInv, StoreMutex, InStore, RowState, WorkerState, SpoolState, Holding, Steps, Delivered, Written
  <2>4. \A v \in Workers, j \in Jobs : SpoolState(v, j)'
    BY <1>11 DEF CompleteSelect, LeaseHonoured, TypeOK, HasJob, SerialInv, RowState, WorkerState, SpoolState, Holding, Steps, Delivered, Written
  <2>5. QED
    BY <2>1, <2>2, <2>3, <2>4 DEF SerialInv
<1>12. CASE CompleteReplay(w)
  <2>1. StoreMutex' /\ \A j \in Jobs : (leaseToken[j] <= issued)'
    BY <1>12 DEF CompleteReplay, TypeOK, HasJob, SerialInv, StoreMutex, StoreFree, InStore
  <2>2. \A j \in Jobs : RowState(j)'
    BY <1>12 DEF CompleteReplay, TypeOK, HasJob, SerialInv, RowState, WorkerState, Holding, Steps, Delivered
  <2>3. \A v \in Workers : WorkerState(v)'
    BY <1>12 DEF CompleteReplay, TypeOK, HasJob, SerialInv, StoreMutex, InStore, RowState, WorkerState, SpoolState, Holding, Steps, Delivered, Written
  <2>4. \A v \in Workers, j \in Jobs : SpoolState(v, j)'
    BY <1>12 DEF CompleteReplay, TypeOK, HasJob, SerialInv, RowState, WorkerState, SpoolState, Holding, Steps, Delivered, Written
  <2>5. QED
    BY <2>1, <2>2, <2>3, <2>4 DEF SerialInv
<1>13. CASE CompleteRefused(w)
  <2>1. StoreMutex' /\ \A j \in Jobs : (leaseToken[j] <= issued)'
    BY <1>13 DEF CompleteRefused, TypeOK, HasJob, SerialInv, StoreMutex, StoreFree, InStore
  <2>2. \A j \in Jobs : RowState(j)'
    BY <1>13 DEF CompleteRefused, TypeOK, HasJob, SerialInv, RowState, WorkerState, Holding, Steps, Delivered
  <2>3. \A v \in Workers : WorkerState(v)'
    BY <1>13 DEF CompleteRefused, TypeOK, HasJob, SerialInv, StoreMutex, InStore, RowState, WorkerState, SpoolState, Holding, Steps, Delivered, Written
  <2>4. \A v \in Workers, j \in Jobs : SpoolState(v, j)'
    BY <1>13 DEF CompleteRefused, TypeOK, HasJob, SerialInv, RowState, WorkerState, SpoolState, Holding, Steps, Delivered, Written
  <2>5. QED
    BY <2>1, <2>2, <2>3, <2>4 DEF SerialInv
<1>14. CASE CompleteUpdate(w)
  <2>1. StoreMutex' /\ \A j \in Jobs : (leaseToken[j] <= issued)'
    BY <1>14 DEF CompleteUpdate, TypeOK, HasJob, SerialInv, StoreMutex, StoreFree, InStore
  <2>2. \A j \in Jobs : RowState(j)'
    BY <1>14 DEF CompleteUpdate, TypeOK, HasJob, SerialInv, RowState, WorkerState, Holding, Steps, Delivered
  <2>3. \A v \in Workers : WorkerState(v)'
    BY <1>14 DEF CompleteUpdate, TypeOK, HasJob, SerialInv, StoreMutex, InStore, RowState, WorkerState, SpoolState, Holding, Steps, Delivered, Written
  <2>4. \A v \in Workers, j \in Jobs : SpoolState(v, j)'
    BY <1>14 DEF CompleteUpdate, TypeOK, HasJob, SerialInv, RowState, WorkerState, SpoolState, Holding, Steps, Delivered, Written
  <2>5. QED
    BY <2>1, <2>2, <2>3, <2>4 DEF SerialInv
<1>15. CASE Ingest(w)
  <2>1. StoreMutex' /\ \A j \in Jobs : (leaseToken[j] <= issued)'
    BY <1>15 DEF Ingest, TypeOK, HasJob, SerialInv, StoreMutex, StoreFree, InStore
  <2>2. \A j \in Jobs : RowState(j)'
    BY <1>15 DEF Ingest, TypeOK, HasJob, SerialInv, RowState, WorkerState, Holding, Steps, Delivered
  <2>3. \A v \in Workers : WorkerState(v)'
    BY <1>15 DEF Ingest, TypeOK, HasJob, SerialInv, StoreMutex, InStore, RowState, WorkerState, SpoolState, Holding, Steps, Delivered, Written
  <2>4. \A v \in Workers, j \in Jobs : SpoolState(v, j)'
    BY <1>15 DEF Ingest, TypeOK, HasJob, SerialInv, RowState, WorkerState, SpoolState, Holding, Steps, Delivered, Written
  <2>5. QED
    BY <2>1, <2>2, <2>3, <2>4 DEF SerialInv
<1>16. CASE SpoolSubmitted(w)
  <2>1. StoreMutex' /\ \A j \in Jobs : (leaseToken[j] <= issued)'
    BY <1>16 DEF SpoolSubmitted, Write, TypeOK, HasJob, SerialInv, StoreMutex, StoreFree, InStore
  <2>2. \A j \in Jobs : RowState(j)'
    BY <1>16 DEF SpoolSubmitted, Write, TypeOK, HasJob, SerialInv, RowState, WorkerState, Holding, Steps, Delivered
  <2>3. \A v \in Workers : WorkerState(v)'
    BY <1>16 DEF SpoolSubmitted, Write, TypeOK, HasJob, SerialInv, StoreMutex, InStore, RowState, WorkerState, SpoolState, Holding, Steps, Delivered, Written
  <2>4. \A v \in Workers, j \in Jobs : SpoolState(v, j)'
    BY <1>16 DEF SpoolSubmitted, Write, TypeOK, HasJob, SerialInv, RowState, WorkerState, SpoolState, Holding, Steps, Delivered, Written
  <2>5. QED
    BY <2>1, <2>2, <2>3, <2>4 DEF SerialInv
<1>17. CASE Unlink(w)
  <2>1. StoreMutex' /\ \A j \in Jobs : (leaseToken[j] <= issued)'
    BY <1>17 DEF Unlink, NoFile, TypeOK, HasJob, SerialInv, StoreMutex, StoreFree, InStore
  <2>2. \A j \in Jobs : RowState(j)'
    BY <1>17 DEF Unlink, NoFile, TypeOK, HasJob, SerialInv, RowState, WorkerState, Holding, Steps, Delivered
  <2>3. \A v \in Workers : WorkerState(v)'
    BY <1>17 DEF Unlink, NoFile, TypeOK, HasJob, SerialInv, StoreMutex, InStore, RowState, WorkerState, SpoolState, Holding, Steps, Delivered, Written
  <2>4. \A v \in Workers, j \in Jobs : SpoolState(v, j)'
    BY <1>17 DEF Unlink, NoFile, TypeOK, HasJob, SerialInv, RowState, WorkerState, SpoolState, Holding, Steps, Delivered, Written
  <2>5. QED
    BY <2>1, <2>2, <2>3, <2>4 DEF SerialInv
<1>18. CASE RecoverLoad(w)
  <2>1. StoreMutex' /\ \A j \in Jobs : (leaseToken[j] <= issued)'
    BY <1>18 DEF RecoverLoad, Files, LeaseOn, ResumeAt, TypeOK, HasJob, SerialInv, StoreMutex, StoreFree, InStore
  <2>2. \A j \in Jobs : RowState(j)'
    BY <1>18 DEF RecoverLoad, Files, LeaseOn, ResumeAt, TypeOK, HasJob, SerialInv, RowState, WorkerState, Holding, Steps, Delivered
  <2>3. \A v \in Workers : WorkerState(v)'
    BY <1>18 DEF RecoverLoad, Files, LeaseOn, ResumeAt, TypeOK, HasJob, SerialInv, StoreMutex, InStore, RowState, WorkerState, SpoolState, Holding, Steps, Delivered, Written
  <2>4. \A v \in Workers, j \in Jobs : SpoolState(v, j)'
    BY <1>18 DEF RecoverLoad, Files, LeaseOn, ResumeAt, TypeOK, HasJob, SerialInv, RowState, WorkerState, SpoolState, Holding, Steps, Delivered, Written
  <2>5. QED
    BY <2>1, <2>2, <2>3, <2>4 DEF SerialInv
<1>19. CASE Crash(w)
  <2>1. StoreMutex' /\ \A j \in Jobs : (leaseToken[j] <= issued)'
    BY <1>19 DEF Crash, Fault, TypeOK, HasJob, SerialInv, StoreMutex, StoreFree, InStore
  <2>2. \A j \in Jobs : RowState(j)'
    BY <1>19 DEF Crash, Fault, TypeOK, HasJob, SerialInv, RowState, WorkerState, Holding, Steps, Delivered
  <2>3. \A v \in Workers : WorkerState(v)'
    BY <1>19 DEF Crash, Fault, TypeOK, HasJob, SerialInv, StoreMutex, InStore, RowState, WorkerState, SpoolState, Holding, Steps, Delivered, Written
  <2>4. \A v \in Workers, j \in Jobs : SpoolState(v, j)'
    BY <1>19 DEF Crash, Fault, TypeOK, HasJob, SerialInv, RowState, WorkerState, SpoolState, Holding, Steps, Delivered, Written
  <2>5. QED
    BY <2>1, <2>2, <2>3, <2>4 DEF SerialInv
<1>20. CASE CrashInWrite(w)
  <2>1. StoreMutex' /\ \A j \in Jobs : (leaseToken[j] <= issued)'
    BY <1>20 DEF CrashInWrite, Fault, TornFile, TypeOK, HasJob, SerialInv, StoreMutex, StoreFree, InStore
  <2>2. \A j \in Jobs : RowState(j)'
    BY <1>20 DEF CrashInWrite, Fault, TornFile, TypeOK, HasJob, SerialInv, RowState, WorkerState, Holding, Steps, Delivered
  <2>3. \A v \in Workers : WorkerState(v)'
    BY <1>20 DEF CrashInWrite, Fault, TornFile, TypeOK, HasJob, SerialInv, StoreMutex, InStore, RowState, WorkerState, SpoolState, Holding, Steps, Delivered, Written
  <2>4. \A v \in Workers, j \in Jobs : SpoolState(v, j)'
    BY <1>20 DEF CrashInWrite, Fault, TornFile, TypeOK, HasJob, SerialInv, RowState, WorkerState, SpoolState, Holding, Steps, Delivered, Written
  <2>5. QED
    BY <2>1, <2>2, <2>3, <2>4 DEF SerialInv
<1>21. CASE ExecuteFails(w)
  <2>1. StoreMutex' /\ \A j \in Jobs : (leaseToken[j] <= issued)'
    BY <1>21 DEF ExecuteFails, Fault, TypeOK, HasJob, SerialInv, StoreMutex, StoreFree, InStore
  <2>2. \A j \in Jobs : RowState(j)'
    BY <1>21 DEF ExecuteFails, Fault, TypeOK, HasJob, SerialInv, RowState, WorkerState, Holding, Steps, Delivered
  <2>3. \A v \in Workers : WorkerState(v)'
    BY <1>21 DEF ExecuteFails, Fault, TypeOK, HasJob, SerialInv, StoreMutex, InStore, RowState, WorkerState, SpoolState, Holding, Steps, Delivered, Written
  <2>4. \A v \in Workers, j \in Jobs : SpoolState(v, j)'
    BY <1>21 DEF ExecuteFails, Fault, TypeOK, HasJob, SerialInv, RowState, WorkerState, SpoolState, Holding, Steps, Delivered, Written
  <2>5. QED
    BY <2>1, <2>2, <2>3, <2>4 DEF SerialInv
<1>22. CASE IngestFails(w)
  <2>1. StoreMutex' /\ \A j \in Jobs : (leaseToken[j] <= issued)'
    BY <1>22 DEF IngestFails, Fault, TypeOK, HasJob, SerialInv, StoreMutex, StoreFree, InStore
  <2>2. \A j \in Jobs : RowState(j)'
    BY <1>22 DEF IngestFails, Fault, TypeOK, HasJob, SerialInv, RowState, WorkerState, Holding, Steps, Delivered
  <2>3. \A v \in Workers : WorkerState(v)'
    BY <1>22 DEF IngestFails, Fault, TypeOK, HasJob, SerialInv, StoreMutex, InStore, RowState, WorkerState, SpoolState, Holding, Steps, Delivered, Written
  <2>4. \A v \in Workers, j \in Jobs : SpoolState(v, j)'
    BY <1>22 DEF IngestFails, Fault, TypeOK, HasJob, SerialInv, RowState, WorkerState, SpoolState, Holding, Steps, Delivered, Written
  <2>5. QED
    BY <2>1, <2>2, <2>3, <2>4 DEF SerialInv
<1>23. QED
  BY <1>1, <1>2, <1>3, <1>4, <1>5, <1>6, <1>7, <1>8, <1>9, <1>10, <1>11, <1>12, <1>13, <1>14, <1>15, <1>16, <1>17, <1>18, <1>19, <1>20, <1>21, <1>22 DEF WorkerStep, WorkerFault

LEMMA SerialNext ==
  ASSUME SerialBroker
  PROVE  TypeOK /\ HasJob /\ SerialInv /\ [Next]_vars => SerialInv'
<1> SUFFICES ASSUME TypeOK, HasJob, SerialInv, [Next]_vars PROVE SerialInv'
  OBVIOUS
<1> USE DEF TypeOK, SerialInv, StoreMutex, RowState, WorkerState, SpoolState
<1>1. CASE Create
  <2>1. PICK j \in Jobs, at \in 0..now, ttl \in Ttls : CreateJob(j, at, ttl)
    BY <1>1 DEF Create
  <2>2. \A k \in Jobs : status'[k] = IF k = j THEN "pending" ELSE status[k]
    BY <2>1 DEF CreateJob
  <2>3. UNCHANGED <<leaseToken, result, pc, work, spool, ingested, grants, issued>>
    BY <2>1 DEF CreateJob, history
  <2>4. status[j] = "absent"
    BY <2>1 DEF CreateJob
  <2>5. StoreMutex' /\ \A k \in Jobs : (leaseToken[k] <= issued)'
    BY <2>3
  <2>6. \A k \in Jobs : RowState(k)'
    BY <2>2, <2>3, <2>4
  <2>7. ASSUME NEW v \in Workers PROVE WorkerState(v)'
    <3>1. pc[v] # "idle" => work[v].job \in Jobs
      BY DEF HasJob
    <3>2. pc[v] = "idle" \/ work[v].job # j
      BY <2>4, <3>1 DEF Holding, Steps
    <3>3. QED
      BY <2>2, <2>3, <3>1, <3>2 DEF Holding, Delivered
  <2>8. \A v \in Workers, k \in Jobs : SpoolState(v, k)'
    BY <2>2, <2>3, <2>4
  <2>9. QED
    BY <2>5, <2>6, <2>7, <2>8
<1>2. CASE \E w \in Workers : WorkerStep(w) \/ WorkerFault(w)
  BY <1>2, SerialStep
<1>3. CASE Tick
  BY <1>3 DEF Tick, store, history
<1>4. CASE UNCHANGED vars
  BY <1>4 DEF vars, store, history
<1>5. QED
  BY <1>1, <1>2, <1>3, <1>4 DEF Next

LEMMA SerialCorrect ==
  ASSUME SerialBroker
  PROVE  Spec => [](TypeOK /\ HasJob /\ SerialInv)
<1>1. Init => TypeOK /\ HasJob /\ SerialInv
  BY TypeInit, SerialInit DEF Init, HasJob
<1>2. TypeOK /\ HasJob /\ SerialInv /\ [Next]_vars => (TypeOK /\ HasJob /\ SerialInv)'
  BY TypeNext, SerialNext
<1>3. QED
  BY <1>1, <1>2, PTL DEF Spec

\* With one broker call at a time no job is ever leased twice.
THEOREM LeasesAreSingleUse ==
  ASSUME SerialBroker
  PROVE  Spec => []SingleUseLease
<1>1. TypeOK /\ SerialInv => SingleUseLease
  BY DEF SerialInv, RowState, TypeOK, Statuses, SingleUseLease
<1>2. QED
  BY <1>1, SerialCorrect, PTL

\* With one broker call at a time the evidence the platform holds for a job is
\* the result the broker recorded for it.
THEOREM EvidenceIsRecorded ==
  ASSUME SerialBroker
  PROVE  Spec => []IngestedIsRecorded
<1>1. TypeOK /\ SerialInv => IngestedIsRecorded
  BY DEF SerialInv, RowState, TypeOK, Statuses, IngestedIsRecorded
<1>2. QED
  BY <1>1, SerialCorrect, PTL

-----------------------------------------------------------------------------
(* The broker implements the job life cycle.                               *)

LEMMA ContractInit == Init => Contract!Init
BY DEF Init, Contract!Init

LEMMA ContractStep ==
  ASSUME SerialBroker, TypeOK, HasJob, SerialInv, [Next]_vars
  PROVE  [Contract!Next]_(Contract!vars)
<1> USE DEF Contract!Next, Contract!vars
<1>1. CASE Create
  BY <1>1 DEF Create, CreateJob, Contract!Request
<1>2. ASSUME NEW w \in Workers, LeaseUpdate(w) PROVE [Contract!Next]_(Contract!vars)
  <2> DEFINE j == work[w].job
  <2>1. j \in Jobs /\ status[j] = "pending"
    BY <1>2 DEF LeaseUpdate, HasJob, SerialInv, WorkerState
  <2>2. /\ leaseToken' = [leaseToken EXCEPT ![j] = issued + 1]
        /\ status' = [status EXCEPT ![j] = "leased"]
        /\ UNCHANGED result
    BY <1>2 DEF LeaseUpdate
  <2>3. leaseToken' \in [Jobs -> Nat]
    BY <2>1, <2>2 DEF TypeOK
  <2>4. \A k \in Jobs : leaseToken[k] < leaseToken'[j]
    BY <2>1, <2>2 DEF TypeOK, SerialInv
  <2>5. Contract!Lease(j)
    BY <2>1, <2>2, <2>3, <2>4 DEF Contract!Lease, TypeOK
  <2>6. QED
    BY <2>1, <2>5
<1>3. ASSUME NEW w \in Workers, CompleteUpdate(w) PROVE [Contract!Next]_(Contract!vars)
  <2> DEFINE j == work[w].job
  <2>1. j \in Jobs /\ status[j] = "leased" /\ work[w].token = leaseToken[j]
    BY <1>3 DEF CompleteUpdate, HasJob, SerialInv, WorkerState, RowState, Holding, Steps
  <2>2. Contract!Record(j)
    BY <1>3, <2>1 DEF CompleteUpdate, Contract!Record
  <2>3. QED
    BY <2>1, <2>2
<1>4. ASSUME NEW w \in Workers, ExpireUpdate(w) PROVE [Contract!Next]_(Contract!vars)
  BY <1>4 DEF ExpireUpdate, HasJob, SerialInv, WorkerState, Contract!Expire
<1>5. ASSUME NEW w \in Workers, WorkerStep(w), ~LeaseUpdate(w), ~CompleteUpdate(w), ~ExpireUpdate(w)
      PROVE  UNCHANGED store
  BY <1>5 DEF WorkerStep, PollFound, PollStale, PollNothing, LeaseSelect, LeaseRefused,
       SpoolClaim, Execute, SpoolResult, CompleteSelect, CompleteReplay, CompleteRefused,
       Ingest, SpoolSubmitted, Unlink, RecoverLoad
<1>6. ASSUME NEW w \in Workers, WorkerFault(w) PROVE UNCHANGED store
  BY <1>6 DEF WorkerFault, Crash, CrashInWrite, ExecuteFails, IngestFails
<1>7. CASE Tick \/ UNCHANGED vars
  BY <1>7 DEF Tick, vars, store
<1>8. QED
  BY <1>1, <1>2, <1>3, <1>4, <1>5, <1>6, <1>7 DEF Next, store

\* With one broker call at a time the job table implements the single-use job
\* life cycle: no step of a worker, a crash or the clock takes a row elsewhere.
THEOREM BrokerImplementsContract ==
  ASSUME SerialBroker
  PROVE  Spec => JobContract
<1>1. TypeOK /\ HasJob /\ SerialInv /\ [Next]_vars => [Contract!Next]_(Contract!vars)
  BY ContractStep
<1>2. QED
  BY <1>1, ContractInit, SerialCorrect, PTL DEF Spec, JobContract, Contract!Spec

-----------------------------------------------------------------------------
(* What an outage does to a spooled result.                                *)

\* The bound of the clock lets every lease outlive any outage.
Timely ==
  /\ now <= MaxTime
  /\ \A j \in Jobs : status[j] = "leased" => leaseExpires[j] >= LeaseTime

LEMMA TimelyNext ==
  ASSUME TypeOK, HasJob, Timely, [Next]_vars
  PROVE  Timely'
<1>1. CASE Create
  BY <1>1 DEF Create, CreateJob, Timely, TypeOK
<1>2. ASSUME NEW w \in Workers, LeaseUpdate(w) PROVE Timely'
  <2>1. work[w].job \in Jobs /\ work[w].at \in Nat
    BY <1>2, WorkFields DEF LeaseUpdate, HasJob, TypeOK
  <2>2. \A j \in Jobs : leaseExpires'[j] =
          IF j = work[w].job THEN work[w].at + LeaseTime ELSE leaseExpires[j]
    BY <1>2, <2>1 DEF LeaseUpdate, TypeOK
  <2>3. \A j \in Jobs \ {work[w].job} : status'[j] = status[j]
    BY <1>2, <2>1 DEF LeaseUpdate, TypeOK
  <2>4. QED
    BY <1>2, <2>1, <2>2, <2>3 DEF LeaseUpdate, Timely
<1>3. ASSUME NEW w \in Workers, WorkerStep(w), ~LeaseUpdate(w)
      PROVE  UNCHANGED <<now, leaseExpires>> /\ \A j \in Jobs : status'[j] = "leased" => status[j] = "leased"
  BY <1>3 DEF WorkerStep, PollFound, PollStale, PollNothing, ExpireUpdate, LeaseSelect, LeaseRefused,
       SpoolClaim, Execute, SpoolResult, CompleteSelect, CompleteReplay, CompleteRefused,
       CompleteUpdate, Ingest, SpoolSubmitted, Unlink, RecoverLoad, store, TypeOK
<1>4. ASSUME NEW w \in Workers, WorkerFault(w) PROVE UNCHANGED <<now, store>>
  BY <1>4 DEF WorkerFault, Crash, CrashInWrite, ExecuteFails, IngestFails
<1>5. CASE Tick
  BY <1>5 DEF Tick, Timely, store, TypeOK
<1>6. QED
  BY <1>1, <1>2, <1>3, <1>4, <1>5 DEF Next, Timely, vars, store

\* complete_job accepts what the worker has spooled, or has recorded it before.
Accepted ==
  \A w \in Workers :
    pc[w] = "spooled" => status[work[w].job] = "completed" \/ LeaseHonoured(w)

\* As long as leases outlive an outage, no worker ever raises on a result it
\* comes back with: _recover_spool meets no DiagnosticLeaseError.
THEOREM SpooledIsAccepted ==
  ASSUME SerialBroker, MaxTime <= LeaseTime
  PROVE  Spec => []Accepted
<1>1. Init => Timely
  BY DEF Init, Timely
<1>2. TypeOK /\ HasJob /\ SerialInv /\ Timely => Accepted
  <2>1. SUFFICES ASSUME TypeOK, HasJob, SerialInv, Timely, NEW w \in Workers, pc[w] = "spooled"
                 PROVE  status[work[w].job] = "completed" \/ LeaseHonoured(w)
    BY DEF Accepted
  <2> DEFINE j == work[w].job
  <2>2. j \in Jobs /\ work[w].token \in grants[j]
    BY <2>1 DEF HasJob, SerialInv, WorkerState, Holding, Steps
  <2>3. status[j] = "completed" \/ (status[j] = "leased" /\ grants[j] = {leaseToken[j]})
    <3>1. status[j] \in Statuses /\ grants[j] # {} /\ RowState(j)
      BY <2>1, <2>2 DEF SerialInv, TypeOK
    <3>2. QED
      BY <3>1 DEF RowState, Statuses
  <2>4. status[j] = "leased" => leaseExpires[j] >= now
    <3>1. leaseExpires[j] \in Nat /\ now \in Nat /\ MaxTime \in Nat /\ LeaseTime \in Nat
      BY <2>1, <2>2 DEF TypeOK
    <3>2. now <= MaxTime /\ (status[j] = "leased" => leaseExpires[j] >= LeaseTime)
      BY <2>1, <2>2 DEF Timely
    <3>3. QED
      BY <3>1, <3>2
  <2>5. QED
    BY <2>2, <2>3, <2>4 DEF LeaseHonoured
<1>3. QED
  BY <1>1, <1>2, SerialCorrect, TimelyNext, PTL DEF Spec

\* The worker that has a lease: in its locals or as a file of its spool.
Holds(w, j) == (pc[w] \in Holding /\ work[w].job = j) \/ spool[w][j].state # "none"

OneHolder ==
  /\ \A w \in Workers, j \in Jobs : Holds(w, j) => grants[j] # {}
  /\ \A v, w \in Workers, j \in Jobs : Holds(v, j) /\ Holds(w, j) => v = w

\* Only a lease gives a worker a job it did not have.
LEMMA HoldsStep ==
  ASSUME TypeOK, HasJob, NEW w \in Workers, WorkerStep(w) \/ WorkerFault(w)
  PROVE  /\ \A v \in Workers \ {w}, j \in Jobs : Holds(v, j)' = Holds(v, j)
         /\ ~LeaseUpdate(w) => \A j \in Jobs : Holds(w, j)' => Holds(w, j)
         /\ ~LeaseUpdate(w) => grants' = grants
<1>1. pc[w] # "idle" => work[w].job \in Jobs
  BY DEF HasJob
<1> USE <1>1 DEF Holds, TypeOK, Goto, Return, store, history, NoWork, LeaseOn, Candidate
<1>2. CASE PollFound(w) \/ PollStale(w) \/ PollNothing(w)
  BY <1>2 DEF PollFound, PollStale, PollNothing, Holding
<1>3. CASE ExpireUpdate(w) \/ LeaseSelect(w) \/ LeaseRefused(w)
  BY <1>3 DEF ExpireUpdate, LeaseSelect, LeaseRefused, Holding
<1>4. CASE LeaseUpdate(w)
  BY <1>4 DEF LeaseUpdate
<1>5. CASE SpoolClaim(w) \/ SpoolResult(w) \/ SpoolSubmitted(w)
  BY <1>5 DEF SpoolClaim, SpoolResult, SpoolSubmitted, Write, Holding, Steps
<1>6. CASE Execute(w) \/ CompleteSelect(w) \/ CompleteReplay(w) \/ CompleteRefused(w)
  BY <1>6 DEF Execute, CompleteSelect, CompleteReplay, CompleteRefused, Holding, Steps
<1>7. CASE CompleteUpdate(w) \/ Ingest(w)
  BY <1>7 DEF CompleteUpdate, Ingest, Holding, Steps
<1>8. CASE Unlink(w)
  BY <1>8 DEF Unlink, NoFile, Holding, Steps
<1>9. CASE RecoverLoad(w)
  BY <1>9 DEF RecoverLoad, Files, Holding, Steps
<1>10. CASE Crash(w) \/ ExecuteFails(w) \/ IngestFails(w)
  BY <1>10 DEF Crash, ExecuteFails, IngestFails, Holding, Steps
<1>11. CASE CrashInWrite(w)
  BY <1>11 DEF CrashInWrite, TornFile, Holding, Steps
<1>12. QED
  BY <1>2, <1>3, <1>4, <1>5, <1>6, <1>7, <1>8, <1>9, <1>10, <1>11 DEF WorkerStep, WorkerFault

LEMMA OneHolderNext ==
  ASSUME SerialBroker, TypeOK, HasJob, SerialInv, OneHolder, [Next]_vars
  PROVE  OneHolder'
<1>1. ASSUME NEW w \in Workers, LeaseUpdate(w) PROVE OneHolder'
  <2> DEFINE j == work[w].job
  <2>1. j \in Jobs /\ grants[j] = {}
    BY <1>1 DEF LeaseUpdate, HasJob, SerialInv, WorkerState, RowState
  <2>2. \A v \in Workers \ {w}, k \in Jobs : Holds(v, k)' = Holds(v, k)
    BY <1>1, HoldsStep DEF WorkerStep
  <2>3. \A k \in Jobs \ {j} : Holds(w, k)' => Holds(w, k)
    BY <1>1, <2>1 DEF LeaseUpdate, Holds, LeaseOn, TypeOK
  <2>4. grants'[j] # {} /\ \A k \in Jobs \ {j} : grants'[k] = grants[k]
    BY <1>1, <2>1 DEF LeaseUpdate, TypeOK
  <2>5. \A v \in Workers : ~Holds(v, j)
    BY <2>1 DEF OneHolder
  <2>6. QED
    BY <2>1, <2>2, <2>3, <2>4, <2>5 DEF OneHolder
<1>2. ASSUME NEW w \in Workers, WorkerStep(w) \/ WorkerFault(w), ~LeaseUpdate(w) PROVE OneHolder'
  <2>1. \A v \in Workers, j \in Jobs : Holds(v, j)' => Holds(v, j)
    BY <1>2, HoldsStep
  <2>2. grants' = grants
    BY <1>2, HoldsStep
  <2>3. QED
    BY <2>1, <2>2 DEF OneHolder
<1>3. CASE Create \/ Tick \/ UNCHANGED vars
  <2>1. UNCHANGED <<pc, work, spool, grants>>
    BY <1>3 DEF Create, CreateJob, Tick, vars, history
  <2>2. QED
    BY <2>1 DEF OneHolder, Holds
<1>4. QED
  BY <1>1, <1>2, <1>3 DEF Next, WorkerStep

\* A worker whose first spool file it can never deliver: the file is torn, or
\* its result outlived the lease.
Stuck(w, j) ==
  /\ j \in Files(w) /\ \A k \in Files(w) : j <= k
  /\ \/ spool[w][j].state = "torn" /\ pc[w] = "idle"
     \/ /\ spool[w][j].state = "executed"
        /\ status[j] = "leased" /\ leaseExpires[j] < now
        /\ pc[w] = "idle" \/ (pc[w] = "spooled" /\ work[w].job = j)

StaysStuck ==
  [][\A w \in Workers, j \in Jobs : Stuck(w, j) => Stuck(w, j)' /\ spool'[w] = spool[w]]_vars

\* What the other steps leave of a stuck worker.
LEMMA StuckAside ==
  ASSUME NEW w \in Workers, NEW j \in Jobs, Stuck(w, j), TypeOK, TypeOK',
         pc'[w] = pc[w], work'[w] = work[w], spool'[w] = spool[w],
         status[j] = "leased" => status'[j] = "leased" /\ leaseExpires'[j] = leaseExpires[j],
         now <= now'
  PROVE  Stuck(w, j)' /\ spool'[w] = spool[w]
BY DEF Stuck, Files, TypeOK

LEMMA StuckNext ==
  ASSUME TypeOK, TypeOK', HasJob, SerialInv, OneHolder, [Next]_vars,
         NEW w \in Workers, NEW j \in Jobs, Stuck(w, j)
  PROVE  Stuck(w, j)' /\ spool'[w] = spool[w]
<1>1. CASE WorkerStep(w) \/ WorkerFault(w)
  <2>1. j \in Files(w) /\ (pc[w] = "idle" \/ pc[w] = "spooled")
    BY DEF Stuck
  <2>2. CASE RecoverLoad(w)
    <3>1. PICK k \in Files(w) : /\ \A i \in Files(w) : k <= i
                                /\ spool[w][k].state # "torn"
                                /\ work' = [work EXCEPT ![w] = LeaseOn(k, spool[w][k].token)]
                                /\ Goto(w, ResumeAt(spool[w][k].state))
      BY <2>2 DEF RecoverLoad
    <3>2. k = j
      <4>1. k \in Nat /\ j \in Nat /\ k <= j /\ j <= k
        BY <3>1 DEF Stuck, Files
      <4>2. QED
        BY <4>1
    <3>3. spool[w][j].state = "executed" /\ status[j] = "leased" /\ leaseExpires[j] < now
      BY <3>1, <3>2 DEF Stuck
    <3>4. pc'[w] = "spooled" /\ work'[w].job = j /\ UNCHANGED <<spool, status, leaseExpires, now>>
      BY <2>2, <3>1, <3>2, <3>3 DEF RecoverLoad, Goto, ResumeAt, LeaseOn, TypeOK, store
    <3>5. QED
      BY <3>3, <3>4 DEF Stuck, Files
  <2>3. CASE CompleteRefused(w) \/ Crash(w)
    <3>1. pc'[w] = "idle" /\ UNCHANGED <<spool, status, leaseExpires, now>>
      BY <2>3 DEF CompleteRefused, Crash, Return, Goto, TypeOK, store
    <3>2. pc[w] = "spooled"
      BY <2>1, <2>3 DEF CompleteRefused, Crash
    <3>3. QED
      BY <3>1, <3>2 DEF Stuck, Files
  <2>4. ~(CompleteSelect(w) \/ CompleteReplay(w))
    <3>1. SUFFICES ASSUME pc[w] = "spooled" PROVE ~LeaseHonoured(w) /\ status[work[w].job] # "completed"
      BY DEF CompleteSelect, CompleteReplay
    <3>2. work[w].job = j /\ status[j] = "leased" /\ leaseExpires[j] < now
      BY <3>1 DEF Stuck
    <3>3. leaseExpires[j] \in Nat /\ now \in Nat
      BY DEF TypeOK
    <3>4. QED
      BY <3>2, <3>3 DEF LeaseHonoured
  <2>5. QED
    BY <1>1, <2>1, <2>2, <2>3, <2>4 DEF WorkerStep, WorkerFault, PollFound, PollStale, PollNothing,
       ExpireUpdate, LeaseSelect, LeaseRefused, LeaseUpdate, SpoolClaim, Execute, SpoolResult,
       CompleteUpdate, Ingest, SpoolSubmitted, Unlink, CrashInWrite, ExecuteFails, IngestFails
<1>2. ASSUME NEW v \in Workers, v # w, WorkerStep(v) \/ WorkerFault(v)
      PROVE  Stuck(w, j)' /\ spool'[w] = spool[w]
  <2>1. Holds(w, j) /\ ~Holds(v, j)
    BY <1>2 DEF OneHolder, Holds, Stuck, Files
  <2>2. now' = now /\ pc'[w] = pc[w] /\ work'[w] = work[w] /\ spool'[w] = spool[w]
    BY <1>2 DEF WorkerStep, WorkerFault, PollFound, PollStale, PollNothing, ExpireUpdate, LeaseSelect,
       LeaseRefused, LeaseUpdate, SpoolClaim, Execute, SpoolResult, CompleteSelect, CompleteReplay,
       CompleteRefused, CompleteUpdate, Ingest, SpoolSubmitted, Unlink, RecoverLoad, Crash,
       CrashInWrite, ExecuteFails, IngestFails, Goto, Return, Write, TypeOK
  <2>3. ASSUME status[j] = "leased" PROVE status'[j] = "leased" /\ leaseExpires'[j] = leaseExpires[j]
    <3>1. CASE LeaseUpdate(v) \/ ExpireUpdate(v)
      <4>1. status[work[v].job] = "pending"
        BY <3>1 DEF LeaseUpdate, ExpireUpdate, SerialInv, WorkerState
      <4>2. work[v].job # j
        BY <2>3, <4>1
      <4>3. QED
        BY <2>3, <3>1, <4>2 DEF LeaseUpdate, ExpireUpdate, TypeOK
    <3>2. CASE CompleteUpdate(v)
      <4>1. work[v].job # j
        BY <2>1, <3>2 DEF CompleteUpdate, Holds, Holding, Steps
      <4>2. QED
        BY <2>3, <3>2, <4>1 DEF CompleteUpdate, TypeOK
    <3>3. CASE ~(LeaseUpdate(v) \/ ExpireUpdate(v) \/ CompleteUpdate(v))
      BY <1>2, <2>3, <3>3 DEF WorkerStep, WorkerFault, PollFound, PollStale, PollNothing, LeaseSelect,
         LeaseRefused, SpoolClaim, Execute, SpoolResult, CompleteSelect, CompleteReplay,
         CompleteRefused, Ingest, SpoolSubmitted, Unlink, RecoverLoad, Crash, CrashInWrite,
         ExecuteFails, IngestFails, store
    <3>4. QED
      BY <3>1, <3>2, <3>3
  <2>4. now <= now'
    BY <2>2 DEF TypeOK
  <2>5. QED
    BY <2>2, <2>3, <2>4, StuckAside
<1>3. CASE Create
  <2>1. PICK k \in Jobs, at \in 0..now, ttl \in Ttls : CreateJob(k, at, ttl)
    BY <1>3 DEF Create
  <2>2. UNCHANGED <<now, leaseExpires, pc, work, spool>>
        /\ (status[j] = "leased" => status'[j] = "leased")
    BY <2>1 DEF CreateJob, TypeOK
  <2>3. now <= now'
    BY <2>2 DEF TypeOK
  <2>4. QED
    BY <2>2, <2>3, StuckAside
<1>4. CASE Tick \/ UNCHANGED vars
  <2>1. UNCHANGED <<status, leaseExpires, pc, work, spool>> /\ now <= now'
    BY <1>4 DEF Tick, vars, store, TypeOK
  <2>2. QED
    BY <2>1, StuckAside
<1>5. QED
  BY <1>1, <1>2, <1>3, <1>4 DEF Next

\* A stuck worker stays stuck, and with it every file of its spool: what one
\* torn file or one result that outlived its lease holds up is never delivered,
\* whatever the other workers, the clock or later restarts do.
THEOREM OutlivedIsStuck ==
  ASSUME SerialBroker
  PROVE  Spec => StaysStuck
<1>1. Init => OneHolder
  BY DEF Init, OneHolder, Holds, Holding, NoFile
<1>2. TypeOK /\ TypeOK' /\ HasJob /\ SerialInv /\ OneHolder /\ [Next]_vars
        => [\A w \in Workers, j \in Jobs : Stuck(w, j) => Stuck(w, j)' /\ spool'[w] = spool[w]]_vars
  BY StuckNext
<1>3. QED
  BY <1>1, <1>2, SerialCorrect, OneHolderNext, PTL DEF Spec, StaysStuck

-----------------------------------------------------------------------------
(* How far a race can go.                                                  *)

\* The workers whose lease_job may still write the row.
Claiming(j) == {w \in Workers : pc[w] \in {"polled", "leasing"} /\ work[w].job = j}

\* A row never becomes pending again, so once a lease was granted only the
\* workers already claiming it can be granted another.
RaceInv(j) ==
  /\ status[j] \in {"absent", "pending"} => grants[j] = {}
  /\ IsFiniteSet(grants[j])
  /\ Cardinality(grants[j]) + Cardinality(Claiming(j)) <= Cardinality(Workers)

LEMMA ClaimingFinite ==
  ASSUME IsFiniteSet(Workers), NEW j
  PROVE  /\ IsFiniteSet(Claiming(j)) /\ Cardinality(Claiming(j)) \in Nat
         /\ Cardinality(Workers) \in Nat /\ Cardinality(Claiming(j)) <= Cardinality(Workers)
BY FS_Subset, FS_CardinalityType DEF Claiming

LEMMA NoneGranted ==
  Cardinality({}) = 0 /\ IsFiniteSet({})
BY FS_EmptySet

\* A step that grants nothing and makes nobody claim the job.
LEMMA RaceKept ==
  ASSUME IsFiniteSet(Workers), NEW j \in Jobs, RaceInv(j), grants'[j] = grants[j],
         status'[j] \in {"absent", "pending"} => status[j] \in {"absent", "pending"},
         \A v \in Workers : v \in Claiming(j)' => v \in Claiming(j)
  PROVE  RaceInv(j)'
<1>1. Claiming(j)' \subseteq Claiming(j) /\ IsFiniteSet(Claiming(j))
  BY ClaimingFinite DEF Claiming
<1>2. IsFiniteSet(Claiming(j)') /\ Cardinality(Claiming(j)') <= Cardinality(Claiming(j))
  BY <1>1, FS_Subset
<1>3. Cardinality(grants[j]) \in Nat /\ Cardinality(Claiming(j)') \in Nat
  BY <1>2, FS_CardinalityType DEF RaceInv
<1>4. QED
  BY <1>2, <1>3, ClaimingFinite DEF RaceInv

LEMMA RaceNext ==
  ASSUME IsFiniteSet(Workers), TypeOK, HasJob, [Next]_vars, NEW j \in Jobs, RaceInv(j)
  PROVE  RaceInv(j)'
<1>1. ASSUME NEW w \in Workers, PollFound(w), status[j] = "pending" PROVE RaceInv(j)'
  <2>1. grants' = grants /\ status' = status
    BY <1>1 DEF PollFound, history, store
  <2>2. grants'[j] = {}
    BY <1>1, <2>1 DEF RaceInv
  <2>3. /\ Claiming(j)' \subseteq Workers /\ IsFiniteSet(Claiming(j)')
        /\ Cardinality(Claiming(j)') <= Cardinality(Workers)
    <3>1. Claiming(j)' \subseteq Workers
      BY DEF Claiming
    <3>2. QED
      BY <3>1, FS_Subset
  <2>4. Cardinality(Claiming(j)') \in Nat
    BY <2>3, FS_CardinalityType
  <2>5. QED
    BY <2>2, <2>3, <2>4, NoneGranted, ClaimingFinite DEF RaceInv
<1>2. ASSUME NEW w \in Workers, PollFound(w), status[j] # "pending" PROVE RaceInv(j)'
  <2>1. PICK k \in Jobs : status[k] = "pending" /\ work' = [work EXCEPT ![w] = Candidate(k, now)]
    BY <1>2 DEF PollFound, Oldest, Claimable
  <2>2. k # j /\ work'[w].job = k /\ \A v \in Workers \ {w} : work'[v] = work[v] /\ pc'[v] = pc[v]
    BY <1>2, <2>1 DEF PollFound, Goto, Candidate, TypeOK
  <2>3. \A v \in Workers : v \in Claiming(j)' => v \in Claiming(j)
    BY <2>2 DEF Claiming
  <2>4. grants' = grants /\ status' = status
    BY <1>2 DEF PollFound, history, store
  <2>5. QED
    BY <2>3, <2>4, RaceKept
<1>3. ASSUME NEW w \in Workers, LeaseUpdate(w), work[w].job = j PROVE RaceInv(j)'
  <2>1. /\ grants'[j] = grants[j] \cup {issued + 1} /\ status'[j] = "leased"
        /\ pc'[w] = "leased" /\ pc[w] = "leasing"
        /\ \A v \in Workers \ {w} : work'[v] = work[v] /\ pc'[v] = pc[v]
    BY <1>3 DEF LeaseUpdate, Goto, TypeOK
  <2>2. Claiming(j)' = Claiming(j) \ {w} /\ w \in Claiming(j)
    BY <1>3, <2>1 DEF Claiming
  <2>3. /\ IsFiniteSet(Claiming(j)')
        /\ Cardinality(Claiming(j)') = Cardinality(Claiming(j)) - 1
    BY <2>2, ClaimingFinite, FS_RemoveElement
  <2>4. /\ IsFiniteSet(grants'[j]) /\ Cardinality(grants[j]) \in Nat
        /\ Cardinality(grants'[j]) = Cardinality(grants[j])
           \/ Cardinality(grants'[j]) = Cardinality(grants[j]) + 1
    <3>1. IsFiniteSet(grants[j])
      BY DEF RaceInv
    <3>2. /\ IsFiniteSet(grants[j] \cup {issued + 1})
          /\ Cardinality(grants[j] \cup {issued + 1}) =
               IF issued + 1 \in grants[j] THEN Cardinality(grants[j]) ELSE Cardinality(grants[j]) + 1
      BY <3>1, FS_AddElement
    <3>3. Cardinality(grants[j]) \in Nat
      BY <3>1, FS_CardinalityType
    <3>4. QED
      BY <2>1, <3>2, <3>3
  <2>5. QED
    BY <2>1, <2>3, <2>4, ClaimingFinite DEF RaceInv
<1>4. ASSUME NEW w \in Workers, LeaseUpdate(w), work[w].job # j PROVE RaceInv(j)'
  <2>1. work[w].job \in Jobs
    BY <1>4 DEF LeaseUpdate, HasJob
  <2>2. /\ grants'[j] = grants[j] /\ status'[j] = status[j] /\ pc'[w] = "leased"
        /\ \A v \in Workers \ {w} : work'[v] = work[v] /\ pc'[v] = pc[v]
    BY <1>4, <2>1 DEF LeaseUpdate, Goto, TypeOK
  <2>3. \A v \in Workers : v \in Claiming(j)' => v \in Claiming(j)
    BY <2>2 DEF Claiming
  <2>4. QED
    BY <2>2, <2>3, RaceKept
<1>5. ASSUME NEW w \in Workers, WorkerStep(w) \/ WorkerFault(w), ~PollFound(w), ~LeaseUpdate(w)
      PROVE  RaceInv(j)'
  <2>1. /\ grants' = grants
        /\ \A v \in Workers \ {w} : work'[v] = work[v] /\ pc'[v] = pc[v]
        /\ pc'[w] \notin {"polled", "leasing"} \/ (pc[w] = "polled" /\ work'[w].job = work[w].job)
        /\ status'[j] = status[j] \/ status'[j] \in {"expired", "completed"}
    <3>1. CASE LeaseSelect(w)
      BY <3>1, WorkFields DEF LeaseSelect, Goto, TypeOK, history, store, Work
    <3>2. CASE ExpireUpdate(w) \/ CompleteUpdate(w)
      BY <3>2 DEF ExpireUpdate, CompleteUpdate, Return, Goto, TypeOK, history
    <3>3. CASE ~(LeaseSelect(w) \/ ExpireUpdate(w) \/ CompleteUpdate(w)) /\ ~RecoverLoad(w)
      BY <1>5, <3>3 DEF WorkerStep, WorkerFault, PollStale, PollNothing, LeaseRefused, SpoolClaim,
         Execute, SpoolResult, CompleteSelect, CompleteReplay, CompleteRefused, Ingest,
         SpoolSubmitted, Unlink, Crash, CrashInWrite, ExecuteFails, IngestFails, Return, Goto, Write,
         TypeOK, history, store
    <3>4. CASE RecoverLoad(w)
      BY <3>4 DEF RecoverLoad, ResumeAt, Goto, TypeOK, history, store
    <3>5. QED
      BY <3>1, <3>2, <3>3, <3>4
  <2>2. \A v \in Workers : v \in Claiming(j)' => v \in Claiming(j)
    BY <2>1 DEF Claiming
  <2>3. QED
    BY <2>1, <2>2, RaceKept
<1>6. CASE Create \/ Tick \/ UNCHANGED vars
  <2>1. UNCHANGED <<grants, pc, work>>
    BY <1>6 DEF Create, CreateJob, Tick, vars, history
  <2>2. status'[j] = status[j] \/ status[j] = "absent"
    BY <1>6 DEF Create, CreateJob, Tick, vars, store, TypeOK
  <2>3. \A v \in Workers : v \in Claiming(j)' => v \in Claiming(j)
    BY <2>1 DEF Claiming
  <2>4. QED
    BY <2>1, <2>2, <2>3, RaceKept
<1>7. QED
  BY <1>1, <1>2, <1>3, <1>4, <1>5, <1>6 DEF Next, WorkerStep

\* However the broker calls of the workers interleave, a job is granted no more
\* leases than there are workers: once it was leased, no other worker polls it,
\* and each that had polled it before writes its lease once (lease_job).
THEOREM RaceIsBounded ==
  ASSUME IsFiniteSet(Workers)
  PROVE  Spec => [](\A j \in Jobs : Cardinality(grants[j]) <= Cardinality(Workers))
<1>1. Init => TypeOK /\ HasJob /\ \A j \in Jobs : RaceInv(j)
  <2>1. SUFFICES ASSUME Init, NEW j \in Jobs PROVE RaceInv(j)
    BY TypeInit DEF Init, HasJob
  <2>2. grants[j] = {}
    BY <2>1 DEF Init
  <2>3. QED
    BY <2>2, NoneGranted, ClaimingFinite DEF RaceInv
<1>2. TypeOK /\ HasJob /\ (\A j \in Jobs : RaceInv(j)) /\ [Next]_vars
        => (TypeOK /\ HasJob /\ \A j \in Jobs : RaceInv(j))'
  BY TypeNext, RaceNext
<1>3. (\A j \in Jobs : RaceInv(j)) => \A j \in Jobs : Cardinality(grants[j]) <= Cardinality(Workers)
  <2>1. SUFFICES ASSUME NEW j \in Jobs, RaceInv(j) PROVE Cardinality(grants[j]) <= Cardinality(Workers)
    OBVIOUS
  <2>2. Cardinality(grants[j]) \in Nat
    BY <2>1, FS_CardinalityType DEF RaceInv
  <2>3. QED
    BY <2>1, <2>2, ClaimingFinite DEF RaceInv
<1>4. QED
  BY <1>1, <1>2, <1>3, PTL DEF Spec
=============================================================================
