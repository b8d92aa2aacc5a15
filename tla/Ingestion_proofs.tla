-------------------------- MODULE Ingestion_proofs --------------------------
(***************************************************************************)
(* Proofs about IngestionQueue and IngestionWorker: whatever fails, the    *)
(* queue loses no job, in memory or in its file, keeps to its attempt      *)
(* budget and is an EvidenceIntake ledger; the worker thread is one of the *)
(* queue's callers, and when it rests nothing it has seen is left undone.  *)
(***************************************************************************)
EXTENDS IngestionWorker, Subsequences_proofs

LEMMA IdsAre == \A list : Ids(list) = {e.id : e \in In(list)}
BY DEF Ids, In

-----------------------------------------------------------------------------
(* The inductive invariant.                                                 *)

\* A queue that lost nothing.
QueueOK(q) == q \in Queue /\ q.seen = Tracked(q)

\* The same of the queue in memory.
MemoryOK ==
  /\ pending \in Seq(Entry) /\ inProgress \in [Jobs -> Nat] /\ completed \subseteq Jobs
  /\ deadLetters \in Seq(Dead) /\ seen \subseteq Jobs /\ state \in [Jobs -> States]
  /\ seen = {e.id : e \in In(pending)} \cup {j \in Jobs : inProgress[j] > 0}
              \cup completed \cup {e.id : e \in In(deadLetters)}

LEMMA MemoryIsQueue == MemoryOK <=> QueueOK(Snapshot)
<1>1. /\ Snapshot.pending = pending /\ Snapshot.inProgress = inProgress
      /\ Snapshot.completed = completed /\ Snapshot.deadLetters = deadLetters
      /\ Snapshot.seen = seen /\ Snapshot.state = state
  BY DEF Snapshot
<1>2. Snapshot \in Queue <=>
        /\ pending \in Seq(Entry) /\ inProgress \in [Jobs -> Nat] /\ completed \subseteq Jobs
        /\ deadLetters \in Seq(Dead) /\ seen \subseteq Jobs /\ state \in [Jobs -> States]
  BY DEF Snapshot, Queue
<1>3. Tracked(Snapshot) = {e.id : e \in In(pending)} \cup {j \in Jobs : inProgress[j] > 0}
              \cup completed \cup {e.id : e \in In(deadLetters)}
  BY <1>1, IdsAre DEF Tracked
<1>4. QED
  BY <1>1, <1>2, <1>3 DEF MemoryOK, QueueOK

\* What the memory makes of a job; StageIn(disk, j) is what the file does.
Held(j) == StageIn(Snapshot, j)

\* Where the job of the thread is claimed in the file, and where it is known
\* to be indexed.
Working == Places \ {"idle", "discovered"}
Stored  == {"written", "parsed", "chunked", "embedded", "indexed"}

ThreadOK ==
  /\ at \in Places
  /\ at = "idle" => job = NoEntry
  /\ at # "idle" => job \in Entry
  /\ at \in Working => disk.inProgress[job.id] > 0
  /\ at \in Working \ {"failing"} => inProgress[job.id] > 0
  /\ at \in Stored => job.id \in indexed

OutsideOK ==
  /\ indexed \subseteq Jobs /\ acknowledged \subseteq Jobs
  /\ retries \in Nat /\ faults \in Nat
  /\ completed \subseteq indexed /\ disk.completed \subseteq indexed

\* A save may publish what the memory holds, whenever the next one succeeds.
Publishable == \A j \in Jobs : <<StageIn(disk, j), Held(j)>> \in Intake!Moves

QueueInv ==
  /\ MemoryOK /\ QueueOK(disk)
  /\ ThreadOK /\ OutsideOK /\ Publishable

LEMMA StagesOnly ==
  ASSUME NEW q, NEW j
  PROVE  StageIn(q, j) \in Intake!Stages
BY DEF StageIn, Intake!Stages

\* A step that changes the memory and saves it, or fails to: the file is
\* what it was or what the memory is now, which is one step of the ledger.
LEMMA SaveStep ==
  ASSUME QueueInv, NEW saved \in BOOLEAN, Persist(saved),
         MemoryOK',
         \A j \in Jobs : <<StageIn(disk, j), Held(j)'>> \in Intake!Moves,
         completed' \subseteq indexed, UNCHANGED indexed
  PROVE  /\ QueueOK(disk)' /\ Publishable'
         /\ disk'.completed \subseteq indexed'
         /\ [Intake!Next]_(Intake!vars)
<1>1. CASE saved = TRUE
  <2>1. disk' = Snapshot'
    BY <1>1 DEF Persist
  <2>2. QueueOK(disk)'
    BY <2>1, MemoryIsQueue DEF MemoryOK, QueueOK, Snapshot, Queue, Tracked, Ids, In
  <2>3. \A j \in Jobs : StageIn(disk, j)' = Held(j)'
    BY <2>1 DEF Held, StageIn
  <2>4. Publishable'
    BY <2>3, StagesOnly DEF Publishable, Intake!Moves, Held
  <2>5. disk'.completed = completed'
    BY <2>1 DEF Snapshot
  <2>6. Intake!Save
    <3>1. \A j \in Jobs : stage[j] = StageIn(disk, j) /\ stage'[j] = Held(j)'
      BY <2>3 DEF stage
    <3>2. \A j \in Jobs : Held(j)' = "done" => j \in completed'
      BY DEF Held, StageIn, Snapshot
    <3>3. stage' \in [Jobs -> Intake!Stages]
      BY StagesOnly DEF stage
    <3>4. QED
      BY <3>1, <3>2, <3>3 DEF Intake!Save
  <2>7. QED
    BY <2>2, <2>4, <2>5, <2>6 DEF Intake!Next
<1>2. CASE saved = FALSE
  <2>1. UNCHANGED disk
    BY <1>2 DEF Persist
  <2>2. QueueOK(disk)'
    BY <2>1 DEF QueueInv, QueueOK, Tracked, Ids, In
  <2>3. Publishable'
    BY <2>1 DEF Publishable, Held, StageIn
  <2>4. UNCHANGED Intake!vars
    BY <2>1 DEF Intake!vars, stage, StageIn
  <2>5. QED
    BY <2>1, <2>2, <2>3, <2>4 DEF QueueInv, OutsideOK
<1>3. QED
  BY <1>1, <1>2

-----------------------------------------------------------------------------
(* One job at a time.                                                       *)

\* Nothing but job j changes its place in the memory.
Only(j) ==
  \A k \in Jobs \ {j} :
    /\ k \in seen' <=> k \in seen
    /\ k \in completed' <=> k \in completed
    /\ k \in Ids(pending') <=> k \in Ids(pending)
    /\ inProgress'[k] = inProgress[k]

LEMMA OnlyOne ==
  ASSUME Publishable, NEW j \in Jobs, Only(j),
         <<StageIn(disk, j), Held(j)'>> \in Intake!Moves
  PROVE  \A k \in Jobs : <<StageIn(disk, k), Held(k)'>> \in Intake!Moves
<1>1. ASSUME NEW k \in Jobs \ {j} PROVE Held(k)' = Held(k)
  BY DEF Only, Held, StageIn, Snapshot
<1>2. QED
  BY <1>1 DEF Publishable

\* What the memory makes of a job that was taken.
LEMMA HeldWhenSeen ==
  ASSUME NEW j \in seen
  PROVE  Held(j) = IF j \in completed THEN "done"
                   ELSE IF j \in Ids(pending) \/ inProgress[j] > 0 THEN "accepted"
                   ELSE "quarantined"
BY DEF Held, StageIn, Snapshot


LEMMA CountersGrow ==
  ASSUME OutsideOK, retries' \in {retries, retries + 1}, faults' \in {faults, faults + 1}
  PROVE  retries' \in Nat /\ faults' \in Nat
BY DEF OutsideOK

LEMMA PersistFaults ==
  ASSUME NEW saved \in BOOLEAN, Persist(saved)
  PROVE  faults' \in {faults, faults + 1}
BY DEF Persist, Fault

LEMMA EntriesTyped ==
  ASSUME MemoryOK
  PROVE  /\ In(pending) \subseteq Entry /\ In(deadLetters) \subseteq Dead
         /\ \A e \in In(pending) : e.id \in Jobs /\ e.attempts \in Nat
         /\ \A e \in In(deadLetters) : e.id \in Jobs /\ e.attempts \in Nat
<1>1. In(pending) \subseteq Entry /\ In(deadLetters) \subseteq Dead
  BY InOf DEF MemoryOK
<1>2. QED
  BY <1>1 DEF Entry, Dead

\* What is left to show of a step that ends in a save.
LEMMA StepCloses ==
  ASSUME QueueInv, NEW saved \in BOOLEAN, Persist(saved),
         MemoryOK', completed' \subseteq indexed, UNCHANGED indexed,
         retries' \in {retries, retries + 1}, acknowledged' \subseteq Jobs,
         \A k \in Jobs : <<StageIn(disk, k), Held(k)'>> \in Intake!Moves,
         ThreadOK'
  PROVE  QueueInv' /\ [Intake!Next]_(Intake!vars)
<1>1. retries' \in Nat /\ faults' \in Nat
  BY CountersGrow, PersistFaults DEF QueueInv
<1>2. /\ QueueOK(disk)' /\ Publishable'
      /\ disk'.completed \subseteq indexed'
      /\ [Intake!Next]_(Intake!vars)
  BY <1>1, SaveStep
<1>3. OutsideOK'
  BY <1>1, <1>2 DEF QueueInv, OutsideOK
<1>4. QED
  BY <1>2, <1>3 DEF QueueInv

LEMMA EntriesKnown ==
  ASSUME QueueInv
  PROVE  /\ In(pending) \subseteq Entry /\ In(deadLetters) \subseteq Dead
         /\ \A e \in In(pending) : e.id \in Jobs /\ e.attempts \in Nat
         /\ \A e \in In(deadLetters) : e.id \in Jobs /\ e.attempts \in Nat
BY EntriesTyped DEF QueueInv

LEMMA EnqueueStep ==
  ASSUME QueueInv, NEW j \in Jobs, NEW saved \in BOOLEAN, Enqueue(j, saved)
  PROVE  QueueInv' /\ [Intake!Next]_(Intake!vars)
<1> DEFINE e == JobOf(j, 0)
<1>1. e \in Entry /\ e.id = j /\ e.attempts = 0
  BY DEF JobOf, Entry
<1>2. /\ at = "idle" /\ j \notin seen /\ pending' = Append(pending, e)
      /\ seen' = seen \cup {j} /\ state' = [state EXCEPT ![j] = "received"]
      /\ UNCHANGED <<inProgress, completed, deadLetters, indexed, retries>>
      /\ Persist(saved)
      /\ at' \in {"idle", "discovered"}
      /\ at' = "idle" => job' = NoEntry
      /\ at' # "idle" => job' = e
      /\ acknowledged' \subseteq acknowledged \cup {j}
  BY DEF Enqueue, Goto, thread, QueueInv, ThreadOK, e
<1> HIDE DEF e
<1>4. pending' \in Seq(Entry) /\ In(pending') = In(pending) \cup {e}
  BY <1>1, <1>2, InAppend DEF QueueInv, MemoryOK
<1>5. MemoryOK'
  <2>1. state' \in [Jobs -> States]
    BY <1>2 DEF QueueInv, MemoryOK, States, Milestones
  <2>2. seen' = {d.id : d \in In(pending')} \cup {k \in Jobs : inProgress'[k] > 0}
              \cup completed' \cup {d.id : d \in In(deadLetters')}
    BY <1>1, <1>2, <1>4 DEF QueueInv, MemoryOK
  <2>5. QED
    BY <1>2, <1>4, <2>1, <2>2 DEF QueueInv, MemoryOK
<1>6. \A k \in Jobs : <<StageIn(disk, k), Held(k)'>> \in Intake!Moves
  <2>1. Ids(pending') = Ids(pending) \cup {j}
    BY <1>1, <1>4, IdsAre
  <2>2. Only(j)
    BY <1>2, <2>1 DEF Only
  <2>3. Held(j) = "unknown"
    BY <1>2 DEF Held, StageIn, Snapshot
  <2>4. j \notin completed
    BY <1>2 DEF QueueInv, MemoryOK
  <2>5. Held(j)' = "accepted"
    BY <1>2, <2>1, <2>4 DEF Held, StageIn, Snapshot
  <2>6. StageIn(disk, j) = "unknown"
    BY <2>3 DEF QueueInv, Publishable, Intake!Moves
  <2>7. <<StageIn(disk, j), Held(j)'>> \in Intake!Moves
    BY <2>5, <2>6 DEF Intake!Moves
  <2>8. QED
    BY <2>2, <2>7, OnlyOne DEF QueueInv
<1>7. ThreadOK'
  BY <1>1, <1>2 DEF ThreadOK, Places, Working, Stored
<1>8. QED
  BY <1>2, <1>5, <1>6, <1>7, StepCloses DEF QueueInv, OutsideOK

LEMMA FileSaved ==
  ASSUME NEW saved \in BOOLEAN, Persist(saved)
  PROVE  /\ saved = TRUE => disk'.inProgress = inProgress'
         /\ saved = FALSE => disk' = disk
BY DEF Persist, Snapshot

\* A job that is claimed keeps its place: it is indexed already, or accepted.
LEMMA ClaimHolds ==
  ASSUME QueueInv, NEW j \in Jobs, j \in Ids(pending),
         seen' = seen, completed' = completed, inProgress'[j] > 0
  PROVE  <<StageIn(disk, j), Held(j)'>> \in Intake!Moves
<1>1. j \in seen /\ j \in seen'
  BY IdsAre DEF QueueInv, MemoryOK
<1>2. Held(j) = IF j \in completed THEN "done" ELSE "accepted"
  BY <1>1, HeldWhenSeen
<1>3. Held(j)' = IF j \in completed THEN "done" ELSE "accepted"
  BY <1>1 DEF Held, StageIn, Snapshot
<1>4. QED
  BY <1>2, <1>3 DEF QueueInv, Publishable

LEMMA ClaimStep ==
  ASSUME QueueInv, NEW saved \in BOOLEAN, Claim(saved)
  PROVE  QueueInv' /\ [Intake!Next]_(Intake!vars)
<1> DEFINE e == JobOf(Head(pending).id, Head(pending).attempts + 1)
           h == Head(pending)
<1>1. /\ pending # <<>> /\ pending' = Tail(pending)
      /\ inProgress' = [inProgress EXCEPT ![e.id] = e.attempts]
      /\ state' = [state EXCEPT ![e.id] = "running"]
      /\ UNCHANGED <<completed, deadLetters, seen, indexed, acknowledged, retries>>
      /\ Persist(saved)
      /\ saved = TRUE => at' = "claimed" /\ job' = e
      /\ saved = FALSE => at' = "idle" /\ job' = NoEntry
  BY DEF Claim, Goto, Return, outside, e
<1>2. /\ pending' \in Seq(Entry) /\ h \in Entry
      /\ In(pending) = In(pending') \cup {h}
  BY <1>1, InTail DEF QueueInv, MemoryOK
<1>3. \A d \in In(pending) : d.id \in Jobs /\ d.attempts \in Nat
  BY EntriesKnown
<1>5. /\ e.id = h.id /\ e.id \in Jobs /\ e.attempts \in Nat /\ e.attempts > 0
      /\ e \in Entry
  BY <1>2, <1>3 DEF JobOf, Entry
<1> HIDE DEF e, h
<1>6. \A k \in Jobs : inProgress'[k] = IF k = e.id THEN e.attempts ELSE inProgress[k]
  BY <1>1 DEF QueueInv, MemoryOK
<1>7. MemoryOK'
  <2>1. state' \in [Jobs -> States] /\ inProgress' \in [Jobs -> Nat]
    BY <1>1, <1>5 DEF QueueInv, MemoryOK, States, Milestones
  <2>2. seen' = {d.id : d \in In(pending')} \cup {k \in Jobs : inProgress'[k] > 0}
              \cup completed' \cup {d.id : d \in In(deadLetters')}
    BY <1>1, <1>2, <1>5, <1>6 DEF QueueInv, MemoryOK
  <2>5. QED
    BY <1>1, <1>2, <2>1, <2>2 DEF QueueInv, MemoryOK
<1>8. \A k \in Jobs : <<StageIn(disk, k), Held(k)'>> \in Intake!Moves
  <2>1. e.id \in Ids(pending)
    BY <1>2, <1>5, IdsAre
  <2>2. \A k \in Jobs \ {e.id} : k \in Ids(pending') <=> k \in Ids(pending)
    BY <1>2, <1>5, IdsAre
  <2>3. Only(e.id)
    BY <1>1, <1>6, <2>2 DEF Only
  <2>4. PICK j \in Jobs : j = e.id
    BY <1>5
  <2>5. Only(j)
    BY <2>3, <2>4
  <2>6. <<StageIn(disk, j), Held(j)'>> \in Intake!Moves
    BY <1>1, <1>5, <1>6, <2>1, <2>4, ClaimHolds
  <2>7. Publishable
    BY DEF QueueInv
  <2>8. QED
    BY <2>5, <2>6, <2>7, OnlyOne
<1>9. ThreadOK'
  <2>1. saved = TRUE => disk'.inProgress = inProgress'
    BY <1>1, FileSaved
  <2>2. CASE saved = TRUE
    <3>1. at' = "claimed" /\ job' = e /\ disk'.inProgress = inProgress' /\ inProgress'[e.id] > 0
      BY <1>1, <1>5, <1>6, <2>1, <2>2
    <3>3. QED
      BY <1>5, <3>1 DEF ThreadOK, Places, Working, Stored
  <2>3. CASE saved = FALSE
    BY <1>1, <2>3 DEF ThreadOK, Places, Working, Stored
  <2>4. QED
    BY <2>2, <2>3
<1>10. QED
  BY <1>1, <1>7, <1>8, <1>9, StepCloses DEF QueueInv, OutsideOK

LEMMA FirstFound ==
  ASSUME NEW S, NEW list \in Seq(S), NEW j \in Ids(list)
  PROVE  FirstOf(list, j) \in In(list) /\ FirstOf(list, j).id = j
<1> DEFINE matching == {i \in DOMAIN list : list[i].id = j}
           found == Picked(list, matching)
<1>1. matching \in SUBSET (DOMAIN list) /\ matching # {}
  BY DEF Ids
<1>2. \A i \in matching : list[i].id = j /\ list[i] \in In(list)
  BY DEF In
<1>3. FirstOf(list, j) = found[1]
  BY DEF FirstOf
<1>4. found \in Seq(S) /\ In(found) = {list[i] : i \in matching}
  <2> HIDE DEF matching
  <2>1. QED
    BY <1>1, InPicked
<1> HIDE DEF found, matching
<1>5. In(found) # {}
  BY <1>1, <1>4
<1>6. 1 \in DOMAIN found
  BY <1>4, <1>5, LenProperties DEF In
<1>7. found[1] \in In(found)
  BY <1>6 DEF In
<1>8. QED
  BY <1>2, <1>3, <1>4, <1>7

LEMMA OthersKept ==
  ASSUME NEW S, NEW list \in Seq(S), NEW j
  PROVE  Others(list, j) \in Seq(S) /\ In(Others(list, j)) = {d \in In(list) : d.id # j}
<1> DEFINE kept == {i \in DOMAIN list : list[i].id # j}
<1>1. kept \in SUBSET (DOMAIN list) /\ Others(list, j) = Picked(list, kept)
  BY DEF Others
<1>2. {list[i] : i \in kept} = {d \in In(list) : d.id # j}
  BY DEF In
<1> HIDE DEF kept
<1>3. QED
  BY <1>1, <1>2, InPicked

LEMMA QuarantineClaimStep ==
  ASSUME QueueInv, NEW saved \in BOOLEAN, QuarantineClaim(saved)
  PROVE  QueueInv' /\ [Intake!Next]_(Intake!vars)
<1> DEFINE j == job.id
           e == JobOf(j, FirstOf(pending, j).attempts + 1)
<1>1. /\ at = "discovered" /\ j \in Ids(pending) /\ pending' = Others(pending, j)
      /\ inProgress' = [inProgress EXCEPT ![j] = e.attempts]
      /\ state' = [state EXCEPT ![j] = "running"]
      /\ UNCHANGED <<completed, deadLetters, seen, indexed, acknowledged, retries>>
      /\ Persist(saved)
      /\ saved = TRUE => at' = "refusing" /\ job' = e
      /\ saved = FALSE => at' = "idle" /\ job' = NoEntry
  BY DEF QuarantineClaim, Refusable, Goto, Return, outside, JobOf
<1>3. pending \in Seq(Entry) /\ job \in Entry /\ j \in Jobs
  BY <1>1 DEF QueueInv, MemoryOK, ThreadOK, Entry
<1>5. pending' \in Seq(Entry) /\ In(pending') = {d \in In(pending) : d.id # j}
  BY <1>1, <1>3, OthersKept
<1>6. FirstOf(pending, j) \in In(pending)
  BY <1>1, <1>3, FirstFound
<1>7. \A d \in In(pending) : d.id \in Jobs /\ d.attempts \in Nat
  BY EntriesKnown
<1>9. /\ e.id = j /\ e.attempts \in Nat /\ e.attempts > 0
      /\ e \in Entry
  BY <1>3, <1>6, <1>7 DEF JobOf, Entry
<1> HIDE DEF e, j
<1>10. \A k \in Jobs : inProgress'[k] = IF k = j THEN e.attempts ELSE inProgress[k]
  BY <1>1 DEF QueueInv, MemoryOK
<1>11. MemoryOK'
  <2>1. state' \in [Jobs -> States] /\ inProgress' \in [Jobs -> Nat]
    BY <1>1, <1>9 DEF QueueInv, MemoryOK, States, Milestones
  <2>2. seen' = {d.id : d \in In(pending')} \cup {k \in Jobs : inProgress'[k] > 0}
              \cup completed' \cup {d.id : d \in In(deadLetters')}
    <3>1. {d.id : d \in In(pending)} \ {j} = {d.id : d \in In(pending')}
      BY <1>5
    <3>2. {k \in Jobs : inProgress'[k] > 0} = {k \in Jobs : inProgress[k] > 0} \cup {j}
      BY <1>3, <1>9, <1>10
    <3>3. j \in seen
      BY <1>1, IdsAre DEF QueueInv, MemoryOK
    <3>4. QED
      BY <1>1, <3>1, <3>2, <3>3 DEF QueueInv, MemoryOK
  <2>5. QED
    BY <1>1, <1>5, <2>1, <2>2 DEF QueueInv, MemoryOK
<1>12. \A k \in Jobs : <<StageIn(disk, k), Held(k)'>> \in Intake!Moves
  <2>1. \A k \in Jobs \ {j} : k \in Ids(pending') <=> k \in Ids(pending)
    BY <1>5, IdsAre
  <2>2. Only(j)
    BY <1>1, <1>10, <2>1 DEF Only
  <2>3. PICK k \in Jobs : k = j
    BY <1>3
  <2>4. Only(k)
    BY <2>2, <2>3
  <2>5. <<StageIn(disk, k), Held(k)'>> \in Intake!Moves
    BY <1>1, <1>3, <1>9, <1>10, <2>3, ClaimHolds
  <2>6. Publishable
    BY DEF QueueInv
  <2>7. QED
    BY <2>4, <2>5, <2>6, OnlyOne
<1>13. ThreadOK'
  <2>1. saved = TRUE => disk'.inProgress = inProgress'
    BY <1>1, FileSaved
  <2>2. CASE saved = TRUE
    <3>1. at' = "refusing" /\ job' = e /\ disk'.inProgress = inProgress' /\ inProgress'[e.id] > 0
      BY <1>1, <1>3, <1>9, <1>10, <2>1, <2>2
    <3>3. QED
      BY <1>9, <3>1 DEF ThreadOK, Places, Working, Stored
  <2>3. CASE saved = FALSE
    BY <1>1, <2>3 DEF ThreadOK, Places, Working, Stored
  <2>4. QED
    BY <2>2, <2>3
<1>14. QED
  BY <1>1, <1>11, <1>12, <1>13, StepCloses DEF QueueInv, OutsideOK

\* The job of a thread at work was claimed, in the file and in memory.
LEMMA AtWork ==
  ASSUME QueueInv, at \in Working
  PROVE  /\ job \in Entry /\ job.id \in Jobs /\ job.attempts \in Nat
         /\ job.id \in seen
         /\ StageIn(disk, job.id) = IF job.id \in disk.completed THEN "done" ELSE "accepted"
         /\ job.id \in disk.completed => job.id \in completed
<1>1. job \in Entry /\ disk.inProgress[job.id] > 0
  BY DEF QueueInv, ThreadOK, Working
<1>2. job.id \in Jobs /\ job.attempts \in Nat
  BY <1>1 DEF Entry
<1>3. job.id \in disk.seen
  BY <1>1, <1>2 DEF QueueInv, QueueOK, Tracked
<1>4. StageIn(disk, job.id) = IF job.id \in disk.completed THEN "done" ELSE "accepted"
  BY <1>1, <1>3 DEF StageIn
<1>5. <<StageIn(disk, job.id), Held(job.id)>> \in Intake!Moves
  BY <1>2 DEF QueueInv, Publishable
<1>6. Held(job.id) # "unknown"
  BY <1>4, <1>5 DEF Intake!Moves
<1>7. job.id \in seen
  BY <1>6 DEF Held, StageIn, Snapshot
<1>8. ASSUME job.id \in disk.completed PROVE job.id \in completed
  <2>1. Held(job.id) = "done"
    BY <1>4, <1>5, <1>8 DEF Intake!Moves
  <2>2. QED
    BY <1>7, <2>1, HeldWhenSeen
<1>9. QED
  BY <1>1, <1>2, <1>4, <1>7, <1>8

\* Every way a claimed job may end may be published.
LEMMA EndMayBePublished ==
  ASSUME QueueInv, at \in Working, completed \subseteq completed', seen' = seen,
         NEW j \in Jobs, j = job.id
  PROVE  <<StageIn(disk, j), Held(j)'>> \in Intake!Moves
<1>1. /\ j \in seen
      /\ StageIn(disk, j) = IF j \in disk.completed THEN "done" ELSE "accepted"
      /\ j \in disk.completed => j \in completed
  BY AtWork
<1>2. Held(j)' \in {"done", "accepted", "quarantined"}
  BY <1>1 DEF Held, StageIn, Snapshot
<1>3. j \in completed => Held(j)' = "done"
  BY <1>1 DEF Held, StageIn, Snapshot
<1>4. CASE j \in disk.completed
  <2>1. StageIn(disk, j) = "done" /\ Held(j)' = "done"
    BY <1>1, <1>3, <1>4
  <2>2. QED
    BY <2>1 DEF Intake!Moves, Intake!Stages
<1>5. CASE j \notin disk.completed
  <2>1. StageIn(disk, j) = "accepted"
    BY <1>1, <1>5
  <2>2. QED
    BY <1>2, <2>1 DEF Intake!Moves, Intake!Stages
<1>6. QED
  BY <1>4, <1>5

LEMMA FailureStep ==
  ASSUME QueueInv, at \in Working, NEW retryable \in BOOLEAN, RecordFailure(job, retryable),
         Return, UNCHANGED <<completed, seen, outside>>,
         NEW saved \in BOOLEAN, Persist(saved)
  PROVE  QueueInv' /\ [Intake!Next]_(Intake!vars)
<1> DEFINE dead == [id |-> job.id, attempts |-> job.attempts, retryable |-> retryable]
<1>1. job \in Entry /\ job.id \in Jobs /\ job.attempts \in Nat /\ job.id \in seen
  BY AtWork
<1>2. dead \in Dead /\ dead.id = job.id /\ dead.attempts = job.attempts
  BY <1>1 DEF Dead
<1>3. /\ inProgress' = [inProgress EXCEPT ![job.id] = 0]
      /\ deadLetters' = Append(deadLetters, dead)
      /\ \/ pending' = Append(pending, job) /\ state' = [state EXCEPT ![job.id] = "retry"]
            /\ job.attempts < MaxAttempts
         \/ pending' = pending /\ state' = [state EXCEPT ![job.id] = "quarantined"]
  BY DEF RecordFailure
<1> HIDE DEF dead
<1>4. pending \in Seq(Entry) /\ deadLetters \in Seq(Dead)
  BY DEF QueueInv, MemoryOK
<1>5. deadLetters' \in Seq(Dead) /\ In(deadLetters') = In(deadLetters) \cup {dead}
  BY <1>2, <1>3, <1>4, InAppend
<1>6. /\ pending' \in Seq(Entry)
      /\ In(pending') = In(pending) \/ (In(pending') = In(pending) \cup {job} /\ job.attempts < MaxAttempts)
  <2>1. Append(pending, job) \in Seq(Entry) /\ In(Append(pending, job)) = In(pending) \cup {job}
    BY <1>1, <1>4, InAppend
  <2>2. QED
    BY <1>3, <1>4, <2>1
<1>9. \A k \in Jobs : inProgress'[k] = IF k = job.id THEN 0 ELSE inProgress[k]
  BY <1>3 DEF QueueInv, MemoryOK
<1>10. MemoryOK'
  <2>1. state' \in [Jobs -> States] /\ inProgress' \in [Jobs -> Nat]
    BY <1>1, <1>3 DEF QueueInv, MemoryOK, States, Milestones
  <2>2. seen' = {d.id : d \in In(pending')} \cup {k \in Jobs : inProgress'[k] > 0}
              \cup completed' \cup {d.id : d \in In(deadLetters')}
    <3>1. {d.id : d \in In(deadLetters')} = {d.id : d \in In(deadLetters)} \cup {job.id}
      BY <1>2, <1>5
    <3>2. {d.id : d \in In(pending')} \cup {job.id} = {d.id : d \in In(pending)} \cup {job.id}
      BY <1>6
    <3>3. {k \in Jobs : inProgress[k] > 0} \cup {job.id} = {k \in Jobs : inProgress'[k] > 0} \cup {job.id}
      BY <1>1, <1>9
    <3>4. QED
      BY <1>1, <3>1, <3>2, <3>3 DEF QueueInv, MemoryOK
  <2>6. QED
    BY <1>5, <1>6, <2>1, <2>2 DEF QueueInv, MemoryOK
<1>11. \A k \in Jobs : <<StageIn(disk, k), Held(k)'>> \in Intake!Moves
  <2>1. PICK j \in Jobs : j = job.id
    BY <1>1
  <2>2. \A k \in Jobs \ {j} : k \in Ids(pending') <=> k \in Ids(pending)
    BY <1>6, <2>1, IdsAre
  <2>3. Only(j)
    BY <1>9, <2>1, <2>2 DEF Only
  <2>4. <<StageIn(disk, j), Held(j)'>> \in Intake!Moves
    BY <2>1, EndMayBePublished
  <2>5. Publishable
    BY DEF QueueInv
  <2>6. QED
    BY <2>3, <2>4, <2>5, OnlyOne
<1>12. ThreadOK'
  BY DEF Return, Goto, ThreadOK, Places, Working, Stored
<1>13. QED
  BY <1>10, <1>11, <1>12, StepCloses DEF QueueInv, OutsideOK, outside

LEMMA RewrittenIs ==
  ASSUME NEW list \in Seq(Entry), NEW e \in Entry
  PROVE  /\ Rewritten(list, e) \in Seq(Entry)
         /\ {d.id : d \in In(Rewritten(list, e))} = {d.id : d \in In(list)}
         /\ \A d \in In(Rewritten(list, e)) : d = e \/ (d.id # e.id /\ d \in In(list))
<1> DEFINE new == Rewritten(list, e)
<1>1. Len(list) \in Nat /\ DOMAIN list = 1..Len(list) /\ \A i \in DOMAIN list : list[i] \in Entry
  BY LenProperties, ElementOfSeq
<1>2. DOMAIN new = DOMAIN list
  BY DEF Rewritten
<1>3. \A i \in DOMAIN list : new[i] = IF list[i].id = e.id THEN e ELSE list[i]
  BY DEF Rewritten
<1> HIDE DEF new
<1>4. \A i \in DOMAIN list : new[i].id = list[i].id
  BY <1>3
<1>5. new \in [1..Len(list) -> Entry]
  BY <1>1, <1>3 DEF new, Rewritten
<1>6. new \in Seq(Entry)
  BY <1>1, <1>5, SeqDef
<1>7. {d.id : d \in In(new)} = {d.id : d \in In(list)}
  BY <1>2, <1>4 DEF In
<1>8. \A d \in In(new) : d = e \/ (d.id # e.id /\ d \in In(list))
  BY <1>2, <1>3 DEF In
<1>9. QED
  BY <1>6, <1>7, <1>8 DEF new

\* A milestone changes the state of a job and the entries of its copies, and
\* no other job.
LEMMA TransitionStep ==
  ASSUME QueueInv, NEW from, NEW milestone, NEW saved \in BOOLEAN,
         <<from, milestone>> \in {<<"claimed", "validated">>, <<"validated", "stored">>,
             <<"written", "parsed">>, <<"parsed", "chunked">>, <<"chunked", "embedded">>,
             <<"embedded", "indexed">>},
         Transition(from, milestone, saved)
  PROVE  QueueInv' /\ [Intake!Next]_(Intake!vars)
<1>1. /\ at = from /\ state' = [state EXCEPT ![job.id] = milestone] /\ job' = job
      /\ saved = TRUE => at' = milestone
      /\ saved = FALSE => at' = "failing"
      /\ pending' = Rewritten(pending, job)
      /\ UNCHANGED <<inProgress, completed, deadLetters, seen, outside>>
      /\ Persist(saved)
  BY DEF Transition, Goto
<1>2. at \in Working \ {"failing"} /\ milestone \in Places /\ milestone \in States
  BY <1>1 DEF Working, Places, States, Milestones
<1>3. job \in Entry /\ job.id \in Jobs /\ job.attempts \in Nat /\ job.id \in seen
  BY <1>2, AtWork
<1>4. pending' \in Seq(Entry) /\ {d.id : d \in In(pending')} = {d.id : d \in In(pending)}
  BY <1>1, <1>3, RewrittenIs DEF QueueInv, MemoryOK
<1>5. state' \in [Jobs -> States]
  BY <1>1, <1>2 DEF QueueInv, MemoryOK
<1>6. MemoryOK'
  BY <1>1, <1>4, <1>5 DEF QueueInv, MemoryOK
<1>7. \A k \in Jobs : <<StageIn(disk, k), Held(k)'>> \in Intake!Moves
  <2>1. Ids(pending') = Ids(pending)
    BY <1>4, IdsAre
  <2>2. QED
    BY <1>1, <2>1 DEF QueueInv, Publishable, Held, StageIn, Snapshot
<1>8. ThreadOK'
  <2>1. inProgress[job.id] > 0 /\ disk.inProgress[job.id] > 0
    BY <1>2 DEF QueueInv, ThreadOK
  <2>2. disk'.inProgress[job.id] > 0
    BY <1>1, <2>1, FileSaved
  <2>3. milestone \in Stored => job.id \in indexed
    BY <1>1 DEF QueueInv, ThreadOK, Stored
  <2>4. at' \in {milestone, "failing"}
    BY <1>1
  <2>6. indexed' = indexed
    BY <1>1 DEF outside
  <2>7. at' # "idle"
    BY <2>4
  <2>8. QED
    BY <1>1, <1>2, <1>3, <2>1, <2>2, <2>3, <2>4, <2>6, <2>7 DEF ThreadOK, Places, Stored
<1>9. QED
  BY <1>1, <1>6, <1>7, <1>8, StepCloses DEF QueueInv, OutsideOK, outside

LEMMA AckStep ==
  ASSUME QueueInv, NEW saved \in BOOLEAN, Ack(saved)
  PROVE  QueueInv' /\ [Intake!Next]_(Intake!vars)
<1>1. /\ at = "indexed" /\ inProgress' = [inProgress EXCEPT ![job.id] = 0]
      /\ completed' = completed \cup {job.id}
      /\ state' = [state EXCEPT ![job.id] = "indexed"]
      /\ UNCHANGED <<pending, deadLetters, seen, outside>>
      /\ Persist(saved)
  BY DEF Ack
<1>2. (at' = "idle" /\ job' = NoEntry) \/ (saved = FALSE /\ at' = "failing" /\ job' = job)
  BY DEF Ack, Return, Goto
<1>3. at \in Working /\ job.id \in indexed /\ disk.inProgress[job.id] > 0
  BY <1>1 DEF QueueInv, ThreadOK, Working, Places, Stored
<1>4. job \in Entry /\ job.id \in Jobs /\ job.attempts \in Nat /\ job.id \in seen
  BY <1>3, AtWork
<1>7. \A k \in Jobs : inProgress'[k] = IF k = job.id THEN 0 ELSE inProgress[k]
  BY <1>1 DEF QueueInv, MemoryOK
<1>8. MemoryOK'
  <2>1. state' \in [Jobs -> States] /\ inProgress' \in [Jobs -> Nat] /\ completed' \subseteq Jobs
    BY <1>1, <1>4 DEF QueueInv, MemoryOK, States, Milestones
  <2>2. seen' = {d.id : d \in In(pending')} \cup {k \in Jobs : inProgress'[k] > 0}
              \cup completed' \cup {d.id : d \in In(deadLetters')}
    <3>1. {k \in Jobs : inProgress[k] > 0} \cup {job.id} = {k \in Jobs : inProgress'[k] > 0} \cup {job.id}
      BY <1>4, <1>7
    <3>2. QED
      BY <1>1, <1>4, <3>1 DEF QueueInv, MemoryOK
  <2>5. QED
    BY <1>1, <2>1, <2>2 DEF QueueInv, MemoryOK
<1>9. \A k \in Jobs : <<StageIn(disk, k), Held(k)'>> \in Intake!Moves
  <2>1. PICK j \in Jobs : j = job.id
    BY <1>4
  <2>2. Only(j)
    BY <1>1, <1>7, <2>1 DEF Only
  <2>3. <<StageIn(disk, j), Held(j)'>> \in Intake!Moves
    BY <1>1, <1>3, <2>1, EndMayBePublished
  <2>4. Publishable
    BY DEF QueueInv
  <2>5. QED
    BY <2>2, <2>3, <2>4, OnlyOne
<1>10. ThreadOK'
  <2>1. CASE at' = "idle" /\ job' = NoEntry
    BY <2>1 DEF ThreadOK, Places, Working, Stored
  <2>2. CASE saved = FALSE /\ at' = "failing" /\ job' = job
    <3>1. disk' = disk
      BY <1>1, <2>2 DEF Persist
    <3>3. QED
      BY <1>3, <1>4, <2>2, <3>1 DEF ThreadOK, Places, Working, Stored
  <2>3. QED
    BY <1>2, <2>1, <2>2
<1>11. completed' \subseteq indexed
  BY <1>1, <1>3 DEF QueueInv, OutsideOK
<1>12. QED
  BY <1>1, <1>8, <1>9, <1>10, <1>11, StepCloses DEF QueueInv, OutsideOK, outside

LEMMA RetryStep ==
  ASSUME QueueInv, NEW j \in Jobs, NEW saved \in BOOLEAN, RetryDeadLetter(j, saved)
  PROVE  QueueInv' /\ [Intake!Next]_(Intake!vars)
<1>1. PICK i \in DOMAIN deadLetters :
        /\ deadLetters[i].id = j
        /\ deadLetters' = Picked(deadLetters, DOMAIN deadLetters \ {i})
        /\ pending' = Append(pending, JobOf(j, deadLetters[i].attempts))
  BY DEF RetryDeadLetter, WithoutIndex
<1>2. /\ at = "idle" /\ state' = [state EXCEPT ![j] = "retry"] /\ seen' = seen \cup {j}
      /\ retries' = retries + 1
      /\ UNCHANGED <<inProgress, completed, thread, indexed, acknowledged>>
      /\ Persist(saved)
  BY DEF RetryDeadLetter
<1> DEFINE e == JobOf(j, deadLetters[i].attempts)
<1>3. pending \in Seq(Entry) /\ deadLetters \in Seq(Dead)
  BY DEF QueueInv, MemoryOK
<1>4. \A d \in In(deadLetters) : d.attempts \in Nat
  BY EntriesKnown
<1>5. deadLetters[i] \in In(deadLetters)
  BY DEF In
<1>6. e \in Entry /\ e.id = j /\ e.attempts \in Nat
  BY <1>4, <1>5 DEF JobOf, Entry
<1>8. pending' \in Seq(Entry) /\ In(pending') = In(pending) \cup {e}
  <2> HIDE DEF e
  <2>1. Append(pending, e) \in Seq(Entry) /\ In(Append(pending, e)) = In(pending) \cup {e}
    BY <1>3, <1>6, InAppend
  <2>2. QED
    BY <1>1, <2>1 DEF e
<1>9. /\ deadLetters' \in Seq(Dead) /\ In(deadLetters') \subseteq In(deadLetters)
      /\ \A d \in In(deadLetters) : d.id # j => d \in In(deadLetters')
  <2> DEFINE kept == DOMAIN deadLetters \ {i}
  <2>1. kept \in SUBSET (DOMAIN deadLetters)
    OBVIOUS
  <2>2. deadLetters' \in Seq(Dead) /\ In(deadLetters') = {deadLetters[h] : h \in kept}
    <3>1. deadLetters' = Picked(deadLetters, kept)
      BY <1>1
    <3> HIDE DEF kept
    <3>2. QED
      BY <1>3, <2>1, <3>1, InPicked
  <2>3. QED
    BY <1>1, <2>2 DEF In
<1> HIDE DEF e
<1>10. j \in seen
  BY <1>1, <1>5 DEF QueueInv, MemoryOK
<1>11. MemoryOK'
  <2>1. state' \in [Jobs -> States]
    BY <1>2 DEF QueueInv, MemoryOK, States, Milestones
  <2>2. seen' = {d.id : d \in In(pending')} \cup {k \in Jobs : inProgress'[k] > 0}
              \cup completed' \cup {d.id : d \in In(deadLetters')}
    <3>1. {d.id : d \in In(pending')} = {d.id : d \in In(pending)} \cup {j}
      BY <1>6, <1>8
    <3>2. {d.id : d \in In(deadLetters)} \cup {j} = {d.id : d \in In(deadLetters')} \cup {j}
      BY <1>1, <1>5, <1>9
    <3>3. QED
      BY <1>2, <1>10, <3>1, <3>2 DEF QueueInv, MemoryOK
  <2>6. QED
    BY <1>2, <1>8, <1>9, <2>1, <2>2 DEF QueueInv, MemoryOK
<1>12. \A k \in Jobs : <<StageIn(disk, k), Held(k)'>> \in Intake!Moves
  <2>1. Ids(pending') = Ids(pending) \cup {j}
    BY <1>6, <1>8, IdsAre
  <2>2. Only(j)
    BY <1>2, <2>1 DEF Only
  <2>3. Held(j)' = IF j \in completed THEN "done" ELSE "accepted"
    BY <1>2, <2>1 DEF Held, StageIn, Snapshot
  <2>4. Held(j) = IF j \in completed THEN "done"
                  ELSE IF j \in Ids(pending) \/ inProgress[j] > 0 THEN "accepted"
                  ELSE "quarantined"
    BY <1>10, HeldWhenSeen
  <2>5. <<StageIn(disk, j), Held(j)>> \in Intake!Moves
    BY DEF QueueInv, Publishable
  <2>6. <<StageIn(disk, j), Held(j)'>> \in Intake!Moves
    BY <2>3, <2>4, <2>5 DEF Intake!Moves, Intake!Stages
  <2>7. Publishable
    BY DEF QueueInv
  <2>8. QED
    BY <2>2, <2>6, <2>7, OnlyOne
<1>13. ThreadOK'
  BY <1>2 DEF QueueInv, ThreadOK, thread, Places, Working, Stored
<1>14. QED
  BY <1>2, <1>11, <1>12, <1>13, StepCloses DEF QueueInv, OutsideOK

\* A step that leaves the memory and the file alone.
LEMMA QuietStep ==
  ASSUME QueueInv, UNCHANGED <<memory, disk, retries>>, faults' \in {faults, faults + 1},
         indexed \subseteq indexed', indexed' \subseteq Jobs, acknowledged' \subseteq Jobs,
         ThreadOK'
  PROVE  QueueInv'
<1>1. /\ UNCHANGED <<pending, inProgress, completed, deadLetters, seen, state>>
      /\ disk' = disk /\ retries' = retries
  BY DEF memory
<1>2. retries' \in Nat /\ faults' \in Nat
  BY <1>1, CountersGrow DEF QueueInv
<1>3. MemoryOK'
  BY <1>1 DEF QueueInv, MemoryOK
<1>4. QueueOK(disk)'
  BY <1>1 DEF QueueInv, QueueOK, Tracked, Ids, In
<1>5. Publishable'
  BY <1>1 DEF QueueInv, Publishable, Held, StageIn, Snapshot
<1>6. OutsideOK'
  BY <1>1, <1>2 DEF QueueInv, OutsideOK
<1>7. QED
  BY <1>3, <1>4, <1>5, <1>6 DEF QueueInv

LEMMA SameStage ==
  ASSUME disk' = disk
  PROVE  stage' = stage
BY DEF stage, StageIn

LEMMA ResubmitStep ==
  ASSUME QueueInv, NEW j \in Jobs, Resubmit(j)
  PROVE  QueueInv' /\ [Intake!Next]_(Intake!vars)
<1>1. /\ at = "idle" /\ acknowledged' = acknowledged \cup {j}
      /\ UNCHANGED <<memory, disk, indexed, retries, faults>>
      /\ \/ at' = "discovered" /\ job' = JobOf(j, 0)
         \/ UNCHANGED <<at, job>>
  BY DEF Resubmit, Goto, thread
<1>2. JobOf(j, 0) \in Entry /\ JobOf(j, 0).attempts = 0
  BY DEF JobOf, Entry
<1>4. ThreadOK'
  <2>1. CASE at' = "discovered" /\ job' = JobOf(j, 0)
    BY <1>2, <2>1 DEF ThreadOK, Places, Working, Stored
  <2>2. CASE UNCHANGED <<at, job>>
    BY <1>1, <2>2 DEF QueueInv, ThreadOK, Places, Working, Stored
  <2>3. QED
    BY <1>1, <2>1, <2>2
<1>5. indexed' \subseteq Jobs /\ acknowledged' \subseteq Jobs
  BY <1>1 DEF QueueInv, OutsideOK
<1>6. QueueInv'
  BY <1>1, <1>4, <1>5, QuietStep
<1>7. UNCHANGED Intake!vars
  BY <1>1, SameStage DEF Intake!vars
<1>8. QED
  BY <1>6, <1>7

LEMMA LandingFailsStep ==
  ASSUME QueueInv, LandingFails
  PROVE  QueueInv' /\ [Intake!Next]_(Intake!vars)
<1>1. /\ at = "idle" /\ faults' \in {faults, faults + 1}
      /\ UNCHANGED <<memory, disk, at, job, indexed, acknowledged, retries>>
  BY DEF LandingFails, Fault, thread, outside
<1>2. ThreadOK'
  BY <1>1 DEF QueueInv, ThreadOK, Places, Working, Stored
<1>3. indexed' \subseteq Jobs /\ acknowledged' \subseteq Jobs
  BY <1>1 DEF QueueInv, OutsideOK
<1>4. QueueInv'
  BY <1>1, <1>2, <1>3, QuietStep
<1>5. UNCHANGED Intake!vars
  BY <1>1, SameStage DEF Intake!vars
<1>6. QED
  BY <1>4, <1>5

LEMMA SkippedStep ==
  ASSUME QueueInv, QuarantineSkipped
  PROVE  QueueInv' /\ [Intake!Next]_(Intake!vars)
<1>1. /\ at' = "idle" /\ job' = NoEntry
      /\ UNCHANGED <<memory, disk, indexed, acknowledged, retries, faults>>
  BY DEF QuarantineSkipped, Return, Goto, outside
<1>2. ThreadOK'
  BY <1>1 DEF ThreadOK, Places, Working, Stored
<1>3. indexed' \subseteq Jobs /\ acknowledged' \subseteq Jobs
  BY <1>1 DEF QueueInv, OutsideOK
<1>4. QueueInv'
  BY <1>1, <1>2, <1>3, QuietStep
<1>5. UNCHANGED Intake!vars
  BY <1>1, SameStage DEF Intake!vars
<1>6. QED
  BY <1>4, <1>5

LEMMA ProcessStep ==
  ASSUME QueueInv, ProcessJob
  PROVE  QueueInv' /\ [Intake!Next]_(Intake!vars)
<1>1. /\ at = "stored" /\ at' = "written" /\ job' = job
      /\ indexed' = indexed \cup {job.id}
      /\ UNCHANGED <<pending, inProgress, completed, deadLetters, seen, state,
                      disk, acknowledged, retries, faults>>
  BY DEF ProcessJob, Goto, memory
<1>2. at \in Working \ {"failing"}
  BY <1>1 DEF Working, Places
<1>3. job \in Entry /\ job.id \in Jobs
  BY <1>2, AtWork
<1>5. inProgress[job.id] > 0 /\ disk.inProgress[job.id] > 0
  BY <1>2 DEF QueueInv, ThreadOK
<1>6. ThreadOK'
  BY <1>1, <1>3, <1>5 DEF ThreadOK, Places, Working, Stored
<1>7. indexed \subseteq indexed' /\ indexed' \subseteq Jobs /\ acknowledged' \subseteq Jobs
  BY <1>1, <1>3 DEF QueueInv, OutsideOK
<1>8. QueueInv'
  BY <1>1, <1>6, <1>7, QuietStep DEF memory
<1>9. Intake!Index
  <2>1. stage' = stage
    BY <1>1, SameStage
  <2>2. QED
    BY <1>1, <1>3, <2>1 DEF Intake!Index
<1>10. QED
  BY <1>8, <1>9 DEF Intake!Next

LEMMA ProcessFailsStep ==
  ASSUME QueueInv, ProcessFails
  PROVE  QueueInv' /\ [Intake!Next]_(Intake!vars)
<1>1. /\ at \in {"claimed", "stored"} /\ at' = "failing" /\ job' = job
      /\ UNCHANGED <<memory, disk, indexed, acknowledged, retries, faults>>
  BY DEF ProcessFails, Goto, outside
<1>2. at \in Working
  BY <1>1 DEF Working, Places
<1>3. job \in Entry
  BY <1>2, AtWork
<1>5. disk.inProgress[job.id] > 0
  BY <1>2 DEF QueueInv, ThreadOK
<1>6. ThreadOK'
  BY <1>1, <1>3, <1>5 DEF ThreadOK, Places, Working, Stored
<1>7. indexed' \subseteq Jobs /\ acknowledged' \subseteq Jobs
  BY <1>1 DEF QueueInv, OutsideOK
<1>8. QueueInv'
  BY <1>1, <1>6, <1>7, QuietStep
<1>9. UNCHANGED Intake!vars
  BY <1>1, SameStage DEF Intake!vars
<1>10. QED
  BY <1>8, <1>9

LEMMA EndingStep ==
  ASSUME QueueInv, NEW saved \in BOOLEAN, QuarantineFail(saved) \/ Fail(saved)
  PROVE  QueueInv' /\ [Intake!Next]_(Intake!vars)
<1>1. at \in Working
  BY DEF QuarantineFail, Fail, Working, Places
<1>2. CASE QuarantineFail(saved)
  BY <1>1, <1>2, FailureStep DEF QuarantineFail
<1>3. CASE Fail(saved)
  BY <1>1, <1>3, FailureStep DEF Fail
<1>4. QED
  BY <1>2, <1>3

-----------------------------------------------------------------------------
(* The restart, and the theorems.                                           *)

LEMMA ClaimedListed ==
  ASSUME NEW q, q.inProgress \in [Jobs -> Nat], NEW s \in Orders(Claimed(q))
  PROVE  s \in Seq(Entry) /\ In(s) = Claimed(q)
<1> DEFINE held == {k \in Jobs : q.inProgress[k] > 0}
           f == [j \in held |-> JobOf(j, q.inProgress[j])]
           S == Claimed(q)
<1>1. IsFiniteSet(held)
  BY QueueAssumption, FS_Subset
<1>2. f \in Surjection(held, S)
  <2>1. f \in [held -> S]
    BY DEF Claimed
  <2>2. \A e \in S : \E j \in held : f[j] = e
    BY DEF Claimed
  <2>3. QED
    BY <2>1, <2>2 DEF Surjection
<1>3. S \subseteq Entry
  BY DEF Claimed, JobOf, Entry
<1> HIDE DEF held, f, S
<1>4. IsFiniteSet(S)
  BY <1>1, <1>2, FS_Surjection
<1>5. Cardinality(S) \in Nat
  BY <1>4, FS_CardinalityType
<1>6. s \in [1..Cardinality(S) -> S] /\ \A e \in S : \E i \in DOMAIN s : s[i] = e
  BY DEF Orders, S
<1>7. s \in Seq(S)
  BY <1>5, <1>6, SeqDef
<1>8. s \in Seq(Entry)
  BY <1>3, <1>5, <1>6, SeqDef
<1>9. In(s) = S
  BY <1>6 DEF In
<1>10. QED
  BY <1>8, <1>9 DEF S

LEMMA ClaimedIds == \A q : {e.id : e \in Claimed(q)} = {j \in Jobs : q.inProgress[j] > 0}
<1>1. ASSUME NEW q, NEW e \in Claimed(q) PROVE e.id \in Jobs /\ q.inProgress[e.id] > 0
  BY DEF Claimed, JobOf
<1>2. ASSUME NEW q, NEW j \in Jobs, q.inProgress[j] > 0
      PROVE  \E e \in Claimed(q) : e.id = j
  <2>1. JobOf(j, q.inProgress[j]) \in Claimed(q)
    BY <1>2 DEF Claimed
  <2>2. JobOf(j, q.inProgress[j]).id = j
    BY DEF JobOf
  <2>3. QED
    BY <2>1, <2>2
<1>3. QED
  BY <1>1, <1>2

LEMMA RestartStep ==
  ASSUME QueueInv, Restart
  PROVE  QueueInv' /\ [Intake!Next]_(Intake!vars)
<1>1. /\ pending' \in Requeued(disk) /\ inProgress' = [j \in Jobs |-> 0]
      /\ completed' = disk.completed /\ deadLetters' = disk.deadLetters
      /\ seen' = disk.seen /\ state' = disk.state
      /\ at' = "idle" /\ job' = NoEntry
      /\ UNCHANGED <<indexed, acknowledged, retries>>
      /\ disk' = Snapshot' /\ faults' = faults + 1
  BY DEF Restart, Return, Goto, outside, Fault
<1>2. faults' \in Nat
  BY <1>1 DEF QueueInv, OutsideOK
<1>3. /\ QueueOK(disk)
      /\ disk.pending \in Seq(Entry) /\ disk.inProgress \in [Jobs -> Nat]
      /\ disk.completed \subseteq Jobs /\ disk.deadLetters \in Seq(Dead)
      /\ disk.seen \subseteq Jobs /\ disk.state \in [Jobs -> States]
  BY DEF QueueInv, QueueOK, Queue
<1>4. PICK s \in Orders(Claimed(disk)) : pending' = disk.pending \o s
  BY <1>1 DEF Requeued
<1>5. s \in Seq(Entry) /\ In(s) = Claimed(disk)
  BY <1>3, ClaimedListed
<1>6. pending' \in Seq(Entry) /\ In(pending') = In(disk.pending) \cup Claimed(disk)
  BY <1>3, <1>4, <1>5, InConcat
<1>7. {e.id : e \in Claimed(disk)} = {j \in Jobs : disk.inProgress[j] > 0}
  BY ClaimedIds
<1>8. {e.id : e \in In(pending')} = Ids(disk.pending) \cup {j \in Jobs : disk.inProgress[j] > 0}
  BY <1>6, <1>7, IdsAre
<1>9. MemoryOK'
  <2>5. \A j \in Jobs : inProgress'[j] = 0
    BY <1>1
  <2>6. seen' = {e.id : e \in In(pending')} \cup {j \in Jobs : inProgress'[j] > 0}
              \cup completed' \cup {e.id : e \in In(deadLetters')}
    <3>1. {j \in Jobs : inProgress'[j] > 0} = {}
      BY <2>5
    <3>2. disk.seen = Ids(disk.pending) \cup {j \in Jobs : disk.inProgress[j] > 0}
                \cup disk.completed \cup {e.id : e \in In(disk.deadLetters)}
      BY <1>3, IdsAre DEF QueueOK, Tracked
    <3>3. QED
      BY <1>1, <1>8, <3>1, <3>2
  <2>7. inProgress' \in [Jobs -> Nat]
    BY <1>1
  <2>8. QED
    BY <1>1, <1>3, <1>6, <2>6, <2>7 DEF MemoryOK
<1>10. QueueOK(disk)'
  BY <1>1, <1>9, MemoryIsQueue DEF MemoryOK, QueueOK, Snapshot, Queue, Tracked, Ids, In
<1>11. \A j \in Jobs : Held(j)' = StageIn(disk, j)
  <2>1. \A j \in Jobs : j \in Ids(pending)' <=> j \in Ids(disk.pending) \/ disk.inProgress[j] > 0
    BY <1>8, IdsAre
  <2>2. \A j \in Jobs : inProgress'[j] = 0
    BY <1>1
  <2>3. QED
    BY <1>1, <2>1, <2>2 DEF Held, StageIn, Snapshot
<1>12. \A j \in Jobs : StageIn(disk, j)' = Held(j)'
  BY <1>1 DEF Held, StageIn
<1>13. Publishable'
  BY <1>12, StagesOnly DEF Publishable, Intake!Moves, Held
<1>14. stage' = stage
  BY <1>11, <1>12 DEF stage
<1>15. OutsideOK'
  <2>1. disk'.completed = completed'
    BY <1>1 DEF Snapshot
  <2>2. QED
    BY <1>1, <1>2, <2>1 DEF QueueInv, OutsideOK
<1>16. ThreadOK'
  BY <1>1 DEF ThreadOK, Places, Working, Stored
<1>17. QueueInv'
  BY <1>9, <1>10, <1>13, <1>15, <1>16 DEF QueueInv
<1>18. QED
  BY <1>1, <1>14, <1>17 DEF Intake!vars

LEMMA QueueStarts ==
  ASSUME Init
  PROVE  QueueInv /\ Intake!Init
<1>1. /\ pending = <<>> /\ inProgress = [j \in Jobs |-> 0] /\ completed = {}
      /\ deadLetters = <<>> /\ seen = {} /\ state = [j \in Jobs |-> "absent"]
      /\ disk = Snapshot /\ at = "idle" /\ job = NoEntry
      /\ indexed = {} /\ acknowledged = {} /\ retries = 0 /\ faults = 0
  BY DEF Init
<1>2. In(pending) = {} /\ In(deadLetters) = {} /\ Ids(pending) = {}
  BY <1>1 DEF In, Ids
<1>4. MemoryOK
  <2>1. pending \in Seq(Entry) /\ deadLetters \in Seq(Dead)
    BY <1>1, EmptySeq
  <2>2. inProgress \in [Jobs -> Nat] /\ \A j \in Jobs : inProgress[j] = 0
    BY <1>1
  <2>3. state \in [Jobs -> States]
    BY <1>1 DEF States
  <2>4. seen = {e.id : e \in In(pending)} \cup {j \in Jobs : inProgress[j] > 0}
              \cup completed \cup {e.id : e \in In(deadLetters)}
    BY <1>1, <1>2, <2>2
  <2>5. QED
    BY <1>1, <1>2, <2>1, <2>2, <2>3, <2>4 DEF MemoryOK
<1>5. QueueOK(disk)
  BY <1>1, <1>4, MemoryIsQueue
<1>6. \A j \in Jobs : StageIn(disk, j) = "unknown" /\ Held(j) = "unknown"
  BY <1>1 DEF StageIn, Held, Snapshot
<1>7. Publishable
  BY <1>6 DEF Publishable, Intake!Moves, Intake!Stages
<1>8. ThreadOK
  BY <1>1 DEF ThreadOK, Places, Working, Stored
<1>9. OutsideOK
  BY <1>1 DEF OutsideOK, Snapshot
<1>10. stage = [j \in Jobs |-> "unknown"]
  BY <1>6 DEF stage
<1>11. QED
  BY <1>1, <1>4, <1>5, <1>7, <1>8, <1>9, <1>10 DEF QueueInv, Intake!Init

LEMMA QueueSteps ==
  ASSUME QueueInv, [Next]_vars
  PROVE  QueueInv' /\ [Intake!Next]_(Intake!vars)
<1>1. CASE Submit
  BY <1>1, LandingFailsStep, ResubmitStep, EnqueueStep DEF Submit
<1>2. CASE Quarantine
  BY <1>2, SkippedStep, QuarantineClaimStep, EndingStep DEF Quarantine
<1>3. CASE ProcessNext
  <2>1. CASE ProcessJob
    BY <2>1, ProcessStep
  <2>2. CASE ProcessFails
    BY <2>2, ProcessFailsStep
  <2>3. ASSUME NEW saved \in BOOLEAN, Milestone(saved)
        PROVE  QueueInv' /\ [Intake!Next]_(Intake!vars)
    BY <2>3, TransitionStep DEF Milestone
  <2>4. QED
    BY <1>3, <2>1, <2>2, <2>3, ClaimStep, AckStep, EndingStep DEF ProcessNext
<1>4. CASE Retry
  BY <1>4, RetryStep DEF Retry
<1>5. CASE Restart
  BY <1>5, RestartStep
<1>6. CASE UNCHANGED vars
  <2>1. UNCHANGED <<memory, disk, at, job, indexed, acknowledged, retries, faults>>
    BY <1>6 DEF vars, thread, outside
  <2>2. ThreadOK'
    BY <2>1 DEF QueueInv, ThreadOK, Places, Working, Stored, memory
  <2>3. indexed' \subseteq Jobs /\ acknowledged' \subseteq Jobs
    BY <2>1 DEF QueueInv, OutsideOK
  <2>4. QueueInv'
    BY <2>1, <2>2, <2>3, QuietStep
  <2>5. UNCHANGED Intake!vars
    BY <2>1, SameStage DEF Intake!vars
  <2>6. QED
    BY <2>4, <2>5
<1>7. QED
  BY <1>1, <1>2, <1>3, <1>4, <1>5, <1>6 DEF Next

LEMMA QueueMeans ==
  ASSUME QueueInv
  PROVE  TypeOK /\ NothingLost
<1>1. QueueOK(Snapshot) /\ QueueOK(disk)
  BY MemoryIsQueue DEF QueueInv
<1>2. job \in Entry \cup {NoEntry} /\ at \in Places
  BY DEF QueueInv, ThreadOK
<1>3. TypeOK
  BY <1>1, <1>2 DEF QueueInv, OutsideOK, QueueOK, TypeOK
<1>4. NothingLost
  <2>1. Snapshot.seen = seen
    BY DEF Snapshot
  <2>2. QED
    BY <1>1, <2>1 DEF QueueOK, NothingLost
<1>5. QED
  BY <1>3, <1>4

\* The inductive invariant of the queue, whoever calls it and whatever fails.
THEOREM QueueAlways == Spec => []QueueInv
<1>1. Init => QueueInv
  BY QueueStarts
<1>2. QueueInv /\ [Next]_vars => QueueInv'
  BY QueueSteps
<1>3. QED
  BY <1>1, <1>2, PTL DEF Spec

\* The queue is well typed, in memory and in its file.
THEOREM QueueTyped == Spec => []TypeOK
BY QueueAlways, QueueMeans, PTL

\* No save that fails and no restart loses a job that was taken: it waits,
\* is claimed, has an outcome or is a dead letter.
THEOREM NoJobIsLost == Spec => []NothingLost
BY QueueAlways, QueueMeans, PTL

\* Whatever fails, the queue file is the ledger EvidenceIntake promises: what
\* a save recorded stays recorded, done is final and only what is indexed.
THEOREM FileIsLedger == Spec => IntakeContract
<1>1. Init => Intake!Init
  BY QueueStarts
<1>2. QueueInv /\ [Next]_vars => [Intake!Next]_(Intake!vars)
  BY QueueSteps
<1>3. QED
  BY <1>1, <1>2, QueueAlways, PTL DEF Spec, IntakeContract, Intake!Spec

-----------------------------------------------------------------------------
(* How often a job waits in a list.                                         *)

Spots(list, j)  == {i \in DOMAIN list : list[i].id = j}
Copies(list, j) == Cardinality(Spots(list, j))

LEMMA CopiesType ==
  ASSUME NEW S, NEW list \in Seq(S), NEW j
  PROVE  IsFiniteSet(Spots(list, j)) /\ Copies(list, j) \in Nat
<1>1. DOMAIN list = 1..Len(list) /\ Len(list) \in Nat
  BY LenProperties
<1>2. IsFiniteSet(DOMAIN list)
  BY <1>1, FS_Interval
<1>3. Spots(list, j) \in SUBSET (DOMAIN list)
  BY DEF Spots
<1>4. QED
  BY <1>2, <1>3, FS_Subset, FS_CardinalityType DEF Copies

LEMMA CopiesNone ==
  ASSUME NEW S, NEW list \in Seq(S), NEW j
  PROVE  Copies(list, j) = 0 <=> j \notin Ids(list)
<1>1. Spots(list, j) = {} <=> j \notin Ids(list)
  BY DEF Spots, Ids
<1>2. QED
  BY <1>1, CopiesType, FS_EmptySet DEF Copies

LEMMA CopiesAppend ==
  ASSUME NEW S, NEW list \in Seq(S), NEW e \in S, NEW j
  PROVE  Copies(Append(list, e), j) = Copies(list, j) + (IF e.id = j THEN 1 ELSE 0)
<1> DEFINE new == Append(list, e)
           n == Len(list)
<1>1. /\ Len(new) = n + 1
      /\ \A i \in 1..n : new[i] = list[i]
      /\ new[n + 1] = e
      /\ new \in Seq(S)
  BY AppendProperties
<1>2. n \in Nat /\ DOMAIN list = 1..n /\ DOMAIN new = 1..(n + 1)
  BY <1>1, LenProperties
<1> HIDE DEF new, n
<1>3. 1..(n + 1) = (1..n) \cup {n + 1} /\ n + 1 \notin 1..n
  BY <1>2
<1>4. Spots(new, j) = Spots(list, j) \cup {i \in {n + 1} : e.id = j}
  BY <1>1, <1>2, <1>3 DEF Spots
<1>5. IsFiniteSet(Spots(list, j)) /\ n + 1 \notin Spots(list, j) /\ Copies(list, j) \in Nat
  BY <1>2, <1>3, CopiesType DEF Spots
<1>6. CASE e.id = j
  <2>1. Spots(new, j) = Spots(list, j) \cup {n + 1}
    BY <1>4, <1>6
  <2>2. Cardinality(Spots(list, j) \cup {n + 1}) = Cardinality(Spots(list, j)) + 1
    BY <1>5, FS_AddElement
  <2>3. QED
    BY <1>6, <2>1, <2>2 DEF Copies, new
<1>7. CASE e.id # j
  <2>1. Spots(new, j) = Spots(list, j)
    BY <1>4, <1>7
  <2>2. QED
    BY <1>5, <1>7, <2>1 DEF Copies, new
<1>8. QED
  BY <1>6, <1>7

\* The entries of a list that stand, in the same order or another, in places
\* of their own of a second list are no more copies than that one has.
LEMMA CopiesMapped ==
  ASSUME NEW S, NEW list \in Seq(S), NEW new \in Seq(S), NEW j, NEW T, T \subseteq Spots(list, j),
         NEW f, f \in [Spots(new, j) -> T],
         \A x, y \in Spots(new, j) : f[x] = f[y] => x = y
  PROVE  Copies(new, j) <= Cardinality(T) /\ Cardinality(T) <= Copies(list, j)
         /\ Cardinality(T) \in Nat
<1>1. IsFiniteSet(Spots(list, j))
  BY CopiesType
<1>2. IsFiniteSet(T) /\ Cardinality(T) <= Cardinality(Spots(list, j))
  BY <1>1, FS_Subset
<1>3. f \in Injection(Spots(new, j), T)
  BY DEF Injection, IsInjective
<1>4. Cardinality(Spots(new, j)) <= Cardinality(T)
  BY <1>2, <1>3, FS_Injection
<1>5. QED
  BY <1>2, <1>4, FS_CardinalityType DEF Copies

LEMMA CopiesTail ==
  ASSUME NEW S, NEW list \in Seq(S), list # <<>>, NEW j
  PROVE  Copies(Tail(list), j) + (IF Head(list).id = j THEN 1 ELSE 0) <= Copies(list, j)
<1> DEFINE rest == Tail(list)
           T == Spots(list, j) \ {1}
           f == [i \in Spots(rest, j) |-> i + 1]
<1>1. Len(list) \in Nat \ {0} /\ DOMAIN list = 1..Len(list)
  BY EmptySeq, LenProperties
<1>2. /\ rest \in Seq(S) /\ Len(rest) = Len(list) - 1 /\ Head(list) = list[1]
      /\ \A i \in 1..Len(rest) : rest[i] = list[i + 1]
  BY HeadTailProperties
<1>3. DOMAIN rest = 1..Len(rest) /\ Len(rest) \in Nat
  BY <1>2, LenProperties
<1> HIDE DEF rest
<1>4. \A i \in Spots(rest, j) : i \in Nat /\ i + 1 \in T
  BY <1>1, <1>2, <1>3 DEF Spots
<1>5. f \in [Spots(rest, j) -> T] /\ \A x, y \in Spots(rest, j) : f[x] = f[y] => x = y
  BY <1>4
<1> HIDE DEF f
<1>6. T \subseteq Spots(list, j)
  OBVIOUS
<1>7. Copies(rest, j) <= Cardinality(T) /\ Cardinality(T) \in Nat
  <2> HIDE DEF T
  <2>1. QED
    BY <1>2, <1>5, <1>6, CopiesMapped
<1>8. Cardinality(T) = IF 1 \in Spots(list, j) THEN Copies(list, j) - 1 ELSE Copies(list, j)
  BY CopiesType, FS_RemoveElement DEF Copies
<1>9. 1 \in Spots(list, j) <=> Head(list).id = j
  BY <1>1, <1>2 DEF Spots
<1>10. Copies(list, j) \in Nat /\ Copies(rest, j) \in Nat
  BY <1>2, CopiesType
<1> HIDE DEF T
<1>11. QED
  BY <1>7, <1>8, <1>9, <1>10 DEF rest

LEMMA CopiesPicked ==
  ASSUME NEW S, NEW list \in Seq(S), NEW kept \in SUBSET (DOMAIN list), NEW j
  PROVE  Copies(Picked(list, kept), j) <= Copies(list, j)
<1> DEFINE new == Picked(list, kept)
           index(k) == CHOOSE i \in kept : Place(kept, i) = k
           f == [k \in Spots(new, j) |-> index(k)]
<1>1. IsFiniteSet(kept) /\ Cardinality(kept) \in Nat /\ kept \subseteq Nat /\ new \in Seq(S)
  BY KeptFinite, PickedProperties
<1>2. \A k \in 1..Cardinality(kept) : index(k) \in kept /\ Place(kept, index(k)) = k
  BY <1>1, PlacesTaken
<1>3. DOMAIN new = 1..Cardinality(kept) /\ \A k \in DOMAIN new : new[k] = list[index(k)]
  BY DEF Picked
<1> HIDE DEF new, index
<1>4. \A k \in Spots(new, j) : index(k) \in Spots(list, j) /\ Place(kept, index(k)) = k
  BY <1>2, <1>3 DEF Spots
<1>5. f \in [Spots(new, j) -> Spots(list, j)] /\ \A x, y \in Spots(new, j) : f[x] = f[y] => x = y
  BY <1>4
<1> HIDE DEF f
<1>6. PICK T : T = Spots(list, j)
  OBVIOUS
<1>7. Copies(new, j) <= Cardinality(T)
  BY <1>1, <1>5, <1>6, CopiesMapped
<1>8. QED
  BY <1>6, <1>7 DEF Copies, new

LEMMA CopiesRewritten ==
  ASSUME NEW list \in Seq(Entry), NEW e \in Entry, NEW j
  PROVE  Copies(Rewritten(list, e), j) = Copies(list, j)
<1>1. DOMAIN Rewritten(list, e) = DOMAIN list
  BY DEF Rewritten
<1>2. \A i \in DOMAIN list : Rewritten(list, e)[i].id = list[i].id
  BY DEF Rewritten
<1>3. Spots(Rewritten(list, e), j) = Spots(list, j)
  BY <1>1, <1>2 DEF Spots
<1>4. QED
  BY <1>3 DEF Copies

LEMMA CopiesConcat ==
  ASSUME NEW S, NEW s \in Seq(S), NEW t \in Seq(S), NEW j
  PROVE  Copies(s \o t, j) <= Copies(s, j) + Copies(t, j)
<1> DEFINE both == s \o t
           later == Spots(both, j) \ Spots(s, j)
           f == [i \in later |-> i - Len(s)]
<1>1. /\ both \in Seq(S) /\ Len(both) = Len(s) + Len(t)
      /\ \A i \in 1..(Len(s) + Len(t)) : both[i] = IF i <= Len(s) THEN s[i] ELSE t[i - Len(s)]
  BY ConcatProperties
<1>2. /\ Len(s) \in Nat /\ Len(t) \in Nat /\ DOMAIN s = 1..Len(s) /\ DOMAIN t = 1..Len(t)
      /\ DOMAIN both = 1..(Len(s) + Len(t))
  BY <1>1, LenProperties
<1> HIDE DEF both
<1>3. \A i \in later : i \in Nat /\ i - Len(s) \in Spots(t, j)
  BY <1>1, <1>2 DEF Spots
<1>4. f \in [later -> Spots(t, j)] /\ \A x, y \in later : f[x] = f[y] => x = y
  BY <1>2, <1>3
<1>5. f \in Injection(later, Spots(t, j))
  <2> HIDE DEF f
  <2>1. QED
    BY <1>4 DEF Injection, IsInjective
<1>6. IsFiniteSet(Spots(t, j)) /\ IsFiniteSet(Spots(s, j)) /\ IsFiniteSet(Spots(both, j))
  BY <1>1, CopiesType
<1>7. IsFiniteSet(later) /\ Cardinality(later) <= Copies(t, j)
  <2> HIDE DEF f, later
  <2>1. QED
    BY <1>5, <1>6, FS_Injection DEF Copies
<1>8. IsFiniteSet(Spots(s, j) \cup later) /\ Spots(both, j) \in SUBSET (Spots(s, j) \cup later)
  BY <1>6, <1>7, FS_Union
<1>9. Cardinality(Spots(both, j)) <= Cardinality(Spots(s, j) \cup later)
  BY <1>8, FS_Subset
<1>10. Cardinality(Spots(s, j) \cup later)
         = Cardinality(Spots(s, j)) + Cardinality(later) - Cardinality(Spots(s, j) \cap later)
  BY <1>6, <1>7, FS_Union
<1>11. Spots(s, j) \cap later = {}
  OBVIOUS
<1> HIDE DEF later
<1>12. Cardinality(Spots(s, j) \cap later) = 0 /\ Cardinality(later) \in Nat
       /\ Cardinality(Spots(s, j)) \in Nat /\ Cardinality(Spots(both, j)) \in Nat
       /\ Cardinality(Spots(t, j)) \in Nat
  BY <1>6, <1>7, <1>11, FS_EmptySet, FS_CardinalityType
<1>13. QED
  BY <1>7, <1>9, <1>10, <1>12 DEF Copies, both

-----------------------------------------------------------------------------
(* The attempts a job may have had.                                         *)

Limit == MaxAttempts + retries + faults

Busy(a)  == IF a > 0 THEN 1 ELSE 0
Spare(a) == IF a > 0 /\ a < MaxAttempts THEN 1 ELSE 0

\* A job that waits n times and is claimed at its a-th attempt (0: is not)
\* has attempts left for all of them: each copy can buy one, a claimed one that
\* may still be queued again too, and there are no more copies than the
\* operator and the faults paid for.
Room(waiting, dead, j, n, a, limit) ==
  /\ \A e \in waiting : e.id = j => e.attempts + n + Spare(a) <= limit
  /\ \A d \in dead : d.id = j => d.attempts + n + Spare(a) <= limit
  /\ a + n <= limit
  /\ MaxAttempts + n + Busy(a) <= limit + 1

\* The attempts of the claimed job, which fail() goes by when ack() has taken
\* the job out of in_progress already.
Hand(j) == IF at \in Working /\ job.id = j THEN job.attempts ELSE inProgress[j]

HandIsClaimed == at \in Working => job.attempts > 0 /\ inProgress[job.id] \in {0, job.attempts}

MemoryHasRoom ==
  \A j \in Jobs : Room(In(pending), In(deadLetters), j, Copies(pending, j), Hand(j), Limit)

FileHasRoom ==
  \A j \in Jobs :
    Room(In(disk.pending), In(disk.deadLetters), j, Copies(disk.pending, j), disk.inProgress[j], Limit)

WithinBudget == HandIsClaimed /\ MemoryHasRoom /\ FileHasRoom

LEMMA LimitGrows ==
  ASSUME OutsideOK, retries' \in {retries, retries + 1}, faults' \in {faults, faults + 1}
  PROVE  /\ Limit \in Nat \ {0} /\ Limit' \in Nat \ {0} /\ Limit <= Limit'
         /\ MaxAttempts \in Nat \ {0} /\ MaxAttempts <= Limit
         /\ (retries' # retries \/ faults' # faults) => Limit < Limit'
<1>1. retries \in Nat /\ faults \in Nat /\ MaxAttempts \in Nat \ {0}
  BY QueueAssumption DEF OutsideOK
<1>2. ASSUME NEW r \in Nat, NEW f \in Nat, NEW rr \in {r, r + 1}, NEW ff \in {f, f + 1}
      PROVE  LET before == MaxAttempts + r + f
                 after == MaxAttempts + rr + ff
             IN  /\ before \in Nat \ {0} /\ after \in Nat \ {0} /\ before <= after
                 /\ MaxAttempts <= before
                 /\ (rr # r \/ ff # f) => before < after
  BY <1>1
<1>3. QED
  BY <1>1, <1>2 DEF Limit

\* A claim that ended asks for no more room than the claim did.
LEMMA ClaimEnds ==
  ASSUME NEW a \in Nat, NEW aa \in {0, a}
  PROVE  /\ Spare(a) \in {0, 1} /\ Spare(aa) \in {0, 1} /\ Spare(aa) <= Spare(a)
         /\ Busy(a) \in {0, 1} /\ Busy(aa) \in {0, 1} /\ Busy(aa) <= Busy(a)
BY QueueAssumption DEF Spare, Busy

LEMMA RoomStays ==
  ASSUME NEW w, NEW d, NEW j, NEW n \in Nat, NEW a \in Nat, NEW aa \in {0, a},
         NEW limit \in Nat, NEW more \in Nat, limit <= more,
         \A e \in w \cup d : e.attempts \in Nat,
         Room(w, d, j, n, a, limit)
  PROVE  Room(w, d, j, n, aa, more)
<1>1. MaxAttempts \in Nat
  BY QueueAssumption
<1>2. /\ \A e \in w \cup d : e.id = j => e.attempts + n + Spare(aa) <= more
  BY ClaimEnds DEF Room
<1>3. aa + n <= more /\ MaxAttempts + n + Busy(aa) <= more + 1
  BY <1>1, ClaimEnds DEF Room
<1>4. QED
  BY <1>2, <1>3 DEF Room

LEMMA HandType ==
  ASSUME QueueInv, NEW j \in Jobs
  PROVE  /\ Hand(j) \in Nat /\ inProgress[j] \in Nat /\ Copies(pending, j) \in Nat
         /\ pending \in Seq(Entry) /\ deadLetters \in Seq(Dead)
         /\ \A e \in In(pending) \cup In(deadLetters) : e.attempts \in Nat
         /\ at \notin Working => Hand(j) = inProgress[j]
<1>1. pending \in Seq(Entry) /\ deadLetters \in Seq(Dead) /\ inProgress \in [Jobs -> Nat]
  BY DEF QueueInv, MemoryOK
<1>2. QED
  BY <1>1, AtWork, CopiesType, EntriesKnown DEF Hand

\* A job that a step does not touch.
LEMMA RoomElsewhere ==
  ASSUME QueueInv, QueueInv', WithinBudget, NEW k \in Jobs,
         retries' \in {retries, retries + 1}, faults' \in {faults, faults + 1},
         Copies(pending', k) <= Copies(pending, k),
         \A e \in In(pending') : e.id = k => e \in In(pending),
         \A e \in In(deadLetters') : e.id = k => e \in In(deadLetters),
         Hand(k)' \in {0, Hand(k)}
  PROVE  Room(In(pending), In(deadLetters), k, Copies(pending, k), Hand(k), Limit)'
<1>1. /\ Hand(k) \in Nat /\ Copies(pending, k) \in Nat
      /\ \A e \in In(pending) \cup In(deadLetters) : e.attempts \in Nat
  BY HandType
<1>2. Copies(pending', k) \in Nat
  BY CopiesType DEF QueueInv, MemoryOK
<1>3. Limit \in Nat /\ Limit' \in Nat /\ Limit <= Limit'
  BY LimitGrows DEF QueueInv
<1>4. Room(In(pending), In(deadLetters), k, Copies(pending, k), Hand(k), Limit)
  BY DEF WithinBudget, MemoryHasRoom
<1>5. PICK h : h = Hand(k)'
  OBVIOUS
<1>6. PICK l : l = Limit'
  OBVIOUS
<1>7. Room(In(pending'), In(deadLetters'), k, Copies(pending', k), h, l)
  <2> DEFINE w == In(pending)
             d == In(deadLetters)
             ww == In(pending')
             dd == In(deadLetters')
             n == Copies(pending, k)
             nn == Copies(pending', k)
             a == Hand(k)
  <2>1. /\ n \in Nat /\ nn \in Nat /\ nn <= n /\ a \in Nat /\ h \in {0, a}
        /\ Limit \in Nat /\ l \in Nat /\ Limit <= l
    BY <1>1, <1>2, <1>3, <1>5, <1>6
  <2>2. /\ \A e \in w \cup d : e.attempts \in Nat
        /\ \A e \in ww : e.id = k => e \in w
        /\ \A e \in dd : e.id = k => e \in d
        /\ Room(w, d, k, n, a, Limit)
    BY <1>1, <1>4
  <2> HIDE DEF w, d, ww, dd, n, nn, a
  <2>3. /\ Spare(a) \in {0, 1} /\ Spare(h) \in {0, 1} /\ Spare(h) <= Spare(a)
        /\ Busy(a) \in {0, 1} /\ Busy(h) \in {0, 1} /\ Busy(h) <= Busy(a)
    BY <2>1, ClaimEnds
  <2>4. /\ \A e \in ww : e.id = k => e.attempts + nn + Spare(h) <= l
        /\ \A e \in dd : e.id = k => e.attempts + nn + Spare(h) <= l
    BY <2>1, <2>2, <2>3 DEF Room
  <2>5. h + nn <= l /\ MaxAttempts + nn + Busy(h) <= l + 1
    BY <2>1, <2>2, <2>3, QueueAssumption DEF Room
  <2>6. QED
    BY <2>4, <2>5 DEF Room, ww, dd, nn
<1>8. QED
  BY <1>5, <1>6, <1>7 DEF Room, In, Copies, Spots

LEMMA FileTypes ==
  ASSUME QueueInv, NEW j \in Jobs
  PROVE  /\ disk.inProgress[j] \in Nat /\ Copies(disk.pending, j) \in Nat
         /\ disk.pending \in Seq(Entry) /\ disk.deadLetters \in Seq(Dead)
         /\ \A e \in In(disk.pending) \cup In(disk.deadLetters) : e.attempts \in Nat
<1>1. disk.pending \in Seq(Entry) /\ disk.deadLetters \in Seq(Dead) /\ disk.inProgress \in [Jobs -> Nat]
  BY DEF QueueInv, QueueOK, Queue
<1>2. In(disk.pending) \subseteq Entry /\ In(disk.deadLetters) \subseteq Dead
  BY <1>1, InOf
<1>3. QED
  BY <1>1, <1>2, CopiesType DEF Entry, Dead

LEMMA FileRoomGrows ==
  ASSUME QueueInv, FileHasRoom, disk' = disk, Limit \in Nat, Limit' \in Nat, Limit <= Limit'
  PROVE  FileHasRoom'
<1>1. PICK l : l = Limit'
  OBVIOUS
<1>2. ASSUME NEW j \in Jobs
      PROVE  Room(In(disk.pending), In(disk.deadLetters), j, Copies(disk.pending, j), disk.inProgress[j], l)
  <2>1. Room(In(disk.pending), In(disk.deadLetters), j, Copies(disk.pending, j), disk.inProgress[j], Limit)
    BY DEF FileHasRoom
  <2>2. /\ disk.inProgress[j] \in Nat /\ Copies(disk.pending, j) \in Nat
        /\ \A e \in In(disk.pending) \cup In(disk.deadLetters) : e.attempts \in Nat
    BY FileTypes
  <2> DEFINE w == In(disk.pending)
             d == In(disk.deadLetters)
             n == Copies(disk.pending, j)
             a == disk.inProgress[j]
  <2>3. /\ n \in Nat /\ a \in Nat /\ a \in {0, a} /\ l \in Nat /\ Limit <= l
        /\ \A e \in w \cup d : e.attempts \in Nat
        /\ Room(w, d, j, n, a, Limit)
    BY <1>1, <2>1, <2>2
  <2> HIDE DEF w, d, n, a
  <2>4. Room(w, d, j, n, a, l)
    BY <2>3, RoomStays
  <2>5. QED
    BY <2>4 DEF w, d, n, a
<1>3. QED
  BY <1>1, <1>2 DEF FileHasRoom, Room, In, Copies, Spots

\* A save, or one that fails, keeps the file within the budget of the memory.
LEMMA FileKeepsRoom ==
  ASSUME QueueInv, QueueInv', WithinBudget, NEW saved \in BOOLEAN, Persist(saved),
         retries' \in {retries, retries + 1},
         HandIsClaimed', MemoryHasRoom'
  PROVE  WithinBudget'
<1>1. Limit \in Nat /\ Limit' \in Nat /\ Limit <= Limit'
  BY LimitGrows, PersistFaults DEF QueueInv
<1>2. CASE saved = TRUE
  <2>1. disk'.pending = pending' /\ disk'.deadLetters = deadLetters' /\ disk'.inProgress = inProgress'
    BY <1>2 DEF Persist, Snapshot
  <2>2. ASSUME NEW j \in Jobs
        PROVE  Room(In(pending'), In(deadLetters'), j, Copies(pending', j), inProgress'[j], Limit')
    <3>1. /\ Hand(j)' \in Nat /\ Copies(pending, j)' \in Nat
          /\ \A e \in In(pending') \cup In(deadLetters') : e.attempts \in Nat
      <4>1. pending' \in Seq(Entry) /\ deadLetters' \in Seq(Dead) /\ inProgress' \in [Jobs -> Nat]
        BY DEF QueueInv, MemoryOK
      <4>2. In(pending') \subseteq Entry /\ In(deadLetters') \subseteq Dead
        BY <4>1, InOf
      <4>3. at' \in Working => job' \in Entry
        BY DEF QueueInv, ThreadOK, Working
      <4>4. Cardinality({i \in DOMAIN pending' : pending'[i].id = j}) \in Nat
        BY <4>1, CopiesType DEF Copies, Spots
      <4>5. Copies(pending, j)' \in Nat
        BY <4>4 DEF Copies, Spots
      <4>6. Hand(j)' \in Nat
        BY <4>1, <4>3 DEF Hand, Entry
      <4>7. QED
        BY <4>2, <4>5, <4>6 DEF Entry, Dead
    <3>2. inProgress'[j] \in {0, Hand(j)'}
      BY DEF HandIsClaimed, Hand
    <3>3. PICK h : h = Hand(j)'
      OBVIOUS
    <3>4. PICK l : l = Limit'
      OBVIOUS
    <3>5. Room(In(pending'), In(deadLetters'), j, Copies(pending', j), h, l)
      BY <3>3, <3>4 DEF MemoryHasRoom, Room, In, Copies, Spots
    <3>6. Copies(pending', j) \in Nat
      BY <3>1 DEF Copies, Spots
    <3>7. Room(In(pending'), In(deadLetters'), j, Copies(pending', j), inProgress'[j], l)
      BY <1>1, <3>1, <3>2, <3>3, <3>4, <3>5, <3>6, RoomStays
    <3>8. QED
      BY <3>4, <3>7
  <2>3. FileHasRoom'
    BY <2>1, <2>2 DEF FileHasRoom, Room, In, Copies, Spots
  <2>4. QED
    BY <2>3 DEF WithinBudget
<1>3. CASE saved = FALSE
  <2>1. disk' = disk
    BY <1>3 DEF Persist
  <2>2. FileHasRoom'
    BY <1>1, <2>1, FileRoomGrows DEF WithinBudget
  <2>3. QED
    BY <2>2 DEF WithinBudget
<1>4. QED
  BY <1>2, <1>3

\* What is left to show of a step that works on job j and saves.
LEMMA BudgetCloses ==
  ASSUME QueueInv, QueueInv', WithinBudget, NEW saved \in BOOLEAN, Persist(saved),
         retries' \in {retries, retries + 1}, HandIsClaimed',
         NEW j \in Jobs,
         \A k \in Jobs \ {j} : Copies(pending', k) <= Copies(pending, k) /\ Hand(k)' \in {0, Hand(k)},
         \A e \in In(pending') : e.id # j => e \in In(pending),
         \A e \in In(deadLetters') : e.id # j => e \in In(deadLetters),
         NEW h, h = Hand(j)', NEW l, l = Limit',
         Room(In(pending'), In(deadLetters'), j, Copies(pending', j), h, l)
  PROVE  WithinBudget'
<1>1. faults' \in {faults, faults + 1}
  BY PersistFaults
<1>2. ASSUME NEW k \in Jobs \ {j}
      PROVE  Room(In(pending), In(deadLetters), k, Copies(pending, k), Hand(k), Limit)'
  BY <1>1, <1>2, RoomElsewhere
<1>3. Room(In(pending), In(deadLetters), j, Copies(pending, j), Hand(j), Limit)'
  BY DEF Room, In, Copies, Spots
<1>4. MemoryHasRoom'
  BY <1>2, <1>3 DEF MemoryHasRoom
<1>5. QED
  BY <1>4, FileKeepsRoom

\* What the budget says of one job.
LEMMA RoomOf ==
  ASSUME QueueInv, WithinBudget, NEW j \in Jobs
  PROVE  /\ \A e \in In(pending) : e.id = j => e.attempts + Copies(pending, j) + Spare(Hand(j)) <= Limit
         /\ \A d \in In(deadLetters) : d.id = j => d.attempts + Copies(pending, j) + Spare(Hand(j)) <= Limit
         /\ Hand(j) + Copies(pending, j) <= Limit
         /\ MaxAttempts + Copies(pending, j) + Busy(Hand(j)) <= Limit + 1
         /\ Spare(Hand(j)) \in {0, 1} /\ Busy(Hand(j)) \in {0, 1}
BY DEF WithinBudget, MemoryHasRoom, Room, Spare, Busy

LEMMA Resting ==
  ASSUME at' \in {"idle", "discovered"}
  PROVE  HandIsClaimed' /\ \A k \in Jobs : Hand(k)' = inProgress'[k]
BY DEF HandIsClaimed, Hand, Working

LEMMA EnqueueBudget ==
  ASSUME QueueInv, QueueInv', WithinBudget, NEW j \in Jobs, NEW saved \in BOOLEAN, Enqueue(j, saved)
  PROVE  WithinBudget'
<1> DEFINE e == JobOf(j, 0)
<1>1. /\ at = "idle" /\ j \notin seen /\ pending' = Append(pending, e)
      /\ UNCHANGED <<inProgress, deadLetters, retries>> /\ Persist(saved)
      /\ at' \in {"idle", "discovered"}
  BY DEF Enqueue, Goto, thread
<1>2. e \in Entry /\ e.id = j /\ e.attempts = 0
  BY DEF JobOf, Entry
<1> HIDE DEF e
<1>3. pending \in Seq(Entry) /\ In(pending') = In(pending) \cup {e}
  BY <1>1, <1>2, InAppend DEF QueueInv, MemoryOK
<1>4. \A k \in Jobs : Copies(pending', k) = Copies(pending, k) + (IF k = j THEN 1 ELSE 0)
  BY <1>1, <1>2, <1>3, CopiesAppend
<1>5. \A k \in Jobs : Hand(k)' = inProgress[k] /\ Hand(k) = inProgress[k]
  BY <1>1, Resting DEF Hand, Working
<1>6. /\ j \notin Ids(pending) /\ inProgress[j] = 0 /\ \A d \in In(deadLetters) : d.id # j
      /\ \A d \in In(pending) : d.id # j
  BY <1>1, IdsAre DEF QueueInv, MemoryOK
<1>7. Copies(pending, j) = 0
  BY <1>3, <1>6, CopiesNone
<1>8. \A k \in Jobs : Copies(pending, k) \in Nat /\ Hand(k) \in Nat
  BY HandType
<1>9. /\ Limit' \in Nat \ {0} /\ MaxAttempts \in Nat \ {0} /\ MaxAttempts <= Limit'
  BY <1>1, LimitGrows, PersistFaults DEF QueueInv
<1>10. PICK h, l : h = Hand(j)' /\ l = Limit'
  OBVIOUS
<1>11. Copies(pending', j) = 1 /\ h = 0
  BY <1>4, <1>5, <1>6, <1>7, <1>10
<1>12. Spare(h) = 0 /\ Busy(h) = 0
  BY <1>11 DEF Spare, Busy
<1>13. Room(In(pending'), In(deadLetters'), j, Copies(pending', j), h, l)
  BY <1>1, <1>2, <1>3, <1>6, <1>9, <1>10, <1>11, <1>12 DEF Room
<1>14. \A k \in Jobs \ {j} : Copies(pending', k) <= Copies(pending, k) /\ Hand(k)' \in {0, Hand(k)}
  BY <1>4, <1>5, <1>8
<1>15. HandIsClaimed'
  BY <1>1, Resting
<1>16. \A d \in In(pending') : d.id # j => d \in In(pending)
  BY <1>2, <1>3
<1>17. \A d \in In(deadLetters') : d.id # j => d \in In(deadLetters)
  BY <1>1
<1>18. QED
  BY <1>1, <1>10, <1>13, <1>14, <1>15, <1>16, <1>17, BudgetCloses

LEMMA ClaimBudget ==
  ASSUME QueueInv, QueueInv', WithinBudget, NEW saved \in BOOLEAN, Claim(saved)
  PROVE  WithinBudget'
<1> DEFINE head == Head(pending)
           e == JobOf(head.id, head.attempts + 1)
<1>1. /\ at = "idle" /\ pending # <<>> /\ pending' = Tail(pending)
      /\ inProgress' = [inProgress EXCEPT ![e.id] = e.attempts]
      /\ UNCHANGED <<deadLetters, retries>> /\ Persist(saved)
      /\ (at' = "claimed" /\ job' = e) \/ (at' = "idle" /\ job' = NoEntry)
  BY DEF Claim, Goto, Return, outside
<1>2. pending \in Seq(Entry) /\ head \in Entry /\ In(pending) = In(pending') \cup {head}
  BY <1>1, InTail DEF QueueInv, MemoryOK
<1>3. e.id = head.id /\ e.attempts = head.attempts + 1
  BY DEF JobOf
<1>4. head.id \in Jobs /\ head.attempts \in Nat /\ e.attempts > 0
  BY <1>2, <1>3 DEF Entry
<1>5. \A k \in Jobs : Copies(pending', k) + (IF head.id = k THEN 1 ELSE 0) <= Copies(pending, k)
  BY <1>1, <1>2, CopiesTail
<1> HIDE DEF e, head
<1>6. PICK j \in Jobs : j = e.id
  BY <1>3, <1>4
<1>7. \A k \in Jobs : inProgress'[k] = IF k = j THEN e.attempts ELSE inProgress[k]
  BY <1>1, <1>6 DEF QueueInv, MemoryOK
<1>8. \A k \in Jobs : Hand(k) = inProgress[k] /\ Hand(k)' = inProgress'[k]
  BY <1>1, <1>6, <1>7 DEF Hand, Working
<1>9. HandIsClaimed'
  BY <1>1, <1>4, <1>6, <1>7 DEF HandIsClaimed, Working
<1>10. \A k \in Jobs : Copies(pending, k) \in Nat /\ Copies(pending', k) \in Nat /\ Hand(k) \in Nat
  BY CopiesType, HandType DEF QueueInv, MemoryOK
<1>11. Limit \in Nat /\ Limit' \in Nat /\ Limit <= Limit' /\ MaxAttempts \in Nat
  BY <1>1, LimitGrows, PersistFaults DEF QueueInv
<1>12. PICK h, l : h = Hand(j)' /\ l = Limit'
  OBVIOUS
<1>13. h = head.attempts + 1 /\ h \in Nat
  BY <1>3, <1>4, <1>7, <1>8, <1>12
<1>14. Spare(h) \in {0, 1} /\ Busy(h) = 1
  BY <1>13, <1>4 DEF Spare, Busy
<1>15. Copies(pending', j) + 1 <= Copies(pending, j)
  BY <1>3, <1>5, <1>6
<1>16. /\ \A d \in In(pending) : d.id \in Jobs /\ d.attempts \in Nat
       /\ \A d \in In(deadLetters) : d.id \in Jobs /\ d.attempts \in Nat
  BY EntriesKnown
<1>17. /\ \A d \in In(pending') : d.id = j => d.attempts + Copies(pending', j) + Spare(h) <= l
       /\ \A d \in In(deadLetters') : d.id = j => d.attempts + Copies(pending', j) + Spare(h) <= l
  <2>1. /\ \A d \in In(pending) : d.id = j => d.attempts + Copies(pending, j) + Spare(Hand(j)) <= Limit
        /\ \A d \in In(deadLetters) : d.id = j => d.attempts + Copies(pending, j) + Spare(Hand(j)) <= Limit
        /\ Spare(Hand(j)) \in {0, 1}
    BY RoomOf
  <2>2. ASSUME NEW d \in In(pending) \cup In(deadLetters), d.id = j
        PROVE  d.attempts + Copies(pending', j) + Spare(h) <= l
    <3>1. d.attempts \in Nat /\ d.attempts + Copies(pending, j) + Spare(Hand(j)) <= Limit
      BY <1>16, <2>1, <2>2
    <3>2. QED
      BY <1>10, <1>11, <1>12, <1>14, <1>15, <2>1, <3>1
  <2>3. QED
    BY <1>1, <1>2, <2>2
<1>18. h + Copies(pending', j) <= l /\ MaxAttempts + Copies(pending', j) + Busy(h) <= l + 1
  <2>1. head.attempts + Copies(pending, j) + Spare(Hand(j)) <= Limit
    BY <1>2, <1>3, <1>6, RoomOf
  <2>2. QED
    BY <1>4, <1>10, <1>11, <1>12, <1>13, <1>14, <1>15, <2>1, RoomOf
<1>19. Room(In(pending'), In(deadLetters'), j, Copies(pending', j), h, l)
  BY <1>17, <1>18 DEF Room
<1>20. \A k \in Jobs \ {j} : Copies(pending', k) <= Copies(pending, k) /\ Hand(k)' \in {0, Hand(k)}
  BY <1>3, <1>5, <1>6, <1>7, <1>8, <1>10
<1>21. /\ \A d \in In(pending') : d.id # j => d \in In(pending)
       /\ \A d \in In(deadLetters') : d.id # j => d \in In(deadLetters)
  BY <1>1, <1>2
<1>22. QED
  BY <1>1, <1>9, <1>12, <1>19, <1>20, <1>21, BudgetCloses

LEMMA QuarantineClaimBudget ==
  ASSUME QueueInv, QueueInv', WithinBudget, NEW saved \in BOOLEAN, QuarantineClaim(saved)
  PROVE  WithinBudget'
<1> DEFINE first == FirstOf(pending, job.id)
           e == JobOf(job.id, first.attempts + 1)
<1>1. /\ at = "discovered" /\ job.id \in Ids(pending) /\ pending' = Others(pending, job.id)
      /\ inProgress' = [inProgress EXCEPT ![job.id] = e.attempts]
      /\ UNCHANGED <<deadLetters, retries>> /\ Persist(saved)
      /\ (at' = "refusing" /\ job' = e) \/ (at' = "idle" /\ job' = NoEntry)
  BY DEF QuarantineClaim, Refusable, Goto, Return, outside, JobOf
<1>2. pending \in Seq(Entry) /\ job \in Entry
  BY <1>1 DEF QueueInv, MemoryOK, ThreadOK
<1>3. PICK j \in Jobs : j = job.id
  BY <1>2 DEF Entry
<1>4. /\ In(pending') = {d \in In(pending) : d.id # j} /\ first \in In(pending) /\ first.id = j
      /\ pending' \in Seq(Entry)
  BY <1>1, <1>2, <1>3, OthersKept, FirstFound
<1>5. e.id = j /\ e.attempts = first.attempts + 1
  BY <1>3 DEF JobOf
<1>6. /\ \A d \in In(pending) : d.id \in Jobs /\ d.attempts \in Nat
      /\ \A d \in In(deadLetters) : d.id \in Jobs /\ d.attempts \in Nat
  BY EntriesKnown
<1>7. first.attempts \in Nat /\ e.attempts > 0
  BY <1>4, <1>5, <1>6
<1> HIDE DEF e, first
<1>8. \A k \in Jobs : Copies(pending, k) \in Nat /\ Copies(pending', k) \in Nat /\ Hand(k) \in Nat
  BY CopiesType, HandType DEF QueueInv, MemoryOK
<1>9. \A k \in Jobs : Copies(pending', k) <= Copies(pending, k)
  <2> DEFINE kept == {i \in DOMAIN pending : pending[i].id # job.id}
  <2>1. kept \in SUBSET (DOMAIN pending) /\ pending' = Picked(pending, kept)
    BY <1>1 DEF Others
  <2> HIDE DEF kept
  <2>2. QED
    BY <1>2, <2>1, CopiesPicked
<1>10. Copies(pending', j) = 0 /\ Copies(pending, j) >= 1
  <2>1. j \notin Ids(pending')
    BY <1>4, IdsAre
  <2>2. j \in Ids(pending)
    BY <1>1, <1>3
  <2>3. QED
    BY <1>2, <1>4, <1>8, <2>1, <2>2, CopiesNone
<1>11. \A k \in Jobs : inProgress'[k] = IF k = j THEN e.attempts ELSE inProgress[k]
  BY <1>1, <1>3 DEF QueueInv, MemoryOK
<1>12. \A k \in Jobs : Hand(k) = inProgress[k] /\ Hand(k)' = inProgress'[k]
  BY <1>1, <1>5, <1>11 DEF Hand, Working
<1>13. HandIsClaimed'
  BY <1>1, <1>5, <1>7, <1>11 DEF HandIsClaimed, Working
<1>14. Limit \in Nat /\ Limit' \in Nat /\ Limit <= Limit' /\ MaxAttempts \in Nat /\ MaxAttempts <= Limit
  BY <1>1, LimitGrows, PersistFaults DEF QueueInv
<1>15. PICK h, l : h = Hand(j)' /\ l = Limit'
  OBVIOUS
<1>16. h = first.attempts + 1 /\ h \in Nat
  BY <1>5, <1>7, <1>11, <1>12, <1>15
<1>17. Spare(h) \in {0, 1} /\ Busy(h) = 1
  BY <1>7, <1>16 DEF Spare, Busy
<1>18. /\ \A d \in In(pending') : d.id # j
       /\ \A d \in In(deadLetters') : d.id = j => d.attempts + Copies(pending', j) + Spare(h) <= l
  <2>1. /\ \A d \in In(deadLetters) : d.id = j => d.attempts + Copies(pending, j) + Spare(Hand(j)) <= Limit
        /\ Spare(Hand(j)) \in {0, 1}
    BY RoomOf
  <2>2. ASSUME NEW d \in In(deadLetters), d.id = j
        PROVE  d.attempts + Copies(pending', j) + Spare(h) <= l
    <3>1. d.attempts \in Nat /\ d.attempts + Copies(pending, j) + Spare(Hand(j)) <= Limit
      BY <1>6, <2>1, <2>2
    <3>2. QED
      BY <1>8, <1>10, <1>14, <1>15, <1>17, <2>1, <3>1
  <2>3. QED
    BY <1>1, <1>4, <2>2
<1>19. h + Copies(pending', j) <= l /\ MaxAttempts + Copies(pending', j) + Busy(h) <= l + 1
  <2>1. first.attempts + Copies(pending, j) + Spare(Hand(j)) <= Limit
    BY <1>4, RoomOf
  <2>2. Spare(Hand(j)) \in {0, 1}
    BY RoomOf
  <2>3. QED
    BY <1>7, <1>8, <1>10, <1>14, <1>15, <1>16, <1>17, <2>1, <2>2
<1>20. Room(In(pending'), In(deadLetters'), j, Copies(pending', j), h, l)
  BY <1>18, <1>19 DEF Room
<1>21. \A k \in Jobs \ {j} : Copies(pending', k) <= Copies(pending, k) /\ Hand(k)' \in {0, Hand(k)}
  BY <1>9, <1>11, <1>12
<1>22. /\ \A d \in In(pending') : d.id # j => d \in In(pending)
       /\ \A d \in In(deadLetters') : d.id # j => d \in In(deadLetters)
  BY <1>1, <1>4
<1>23. QED
  BY <1>1, <1>13, <1>15, <1>20, <1>21, <1>22, BudgetCloses

LEMMA FailureBudget ==
  ASSUME QueueInv, QueueInv', WithinBudget, at \in Working, NEW retryable \in BOOLEAN,
         RecordFailure(job, retryable), Return, retries' = retries,
         NEW saved \in BOOLEAN, Persist(saved)
  PROVE  WithinBudget'
<1> DEFINE dead == [id |-> job.id, attempts |-> job.attempts, retryable |-> retryable]
<1>1. job \in Entry /\ job.id \in Jobs /\ job.attempts \in Nat
  BY AtWork
<1>2. dead \in Dead /\ dead.id = job.id /\ dead.attempts = job.attempts
  BY <1>1 DEF Dead
<1>3. /\ inProgress' = [inProgress EXCEPT ![job.id] = 0]
      /\ deadLetters' = Append(deadLetters, dead)
      /\ (pending' = Append(pending, job) /\ job.attempts < MaxAttempts) \/ pending' = pending
      /\ at' = "idle"
  BY DEF RecordFailure, Return, Goto
<1> HIDE DEF dead
<1>4. PICK j \in Jobs : j = job.id
  BY <1>1
<1>5. In(deadLetters') = In(deadLetters) \cup {dead} /\ pending \in Seq(Entry)
  BY <1>2, <1>3, InAppend DEF QueueInv, MemoryOK
<1>6. \/ /\ In(pending') = In(pending) \cup {job} /\ job.attempts < MaxAttempts
         /\ \A k \in Jobs : Copies(pending', k) = Copies(pending, k) + (IF k = j THEN 1 ELSE 0)
      \/ In(pending') = In(pending) /\ \A k \in Jobs : Copies(pending', k) = Copies(pending, k)
  <2>1. CASE pending' = Append(pending, job) /\ job.attempts < MaxAttempts
    BY <1>1, <1>4, <1>5, <2>1, InAppend, CopiesAppend
  <2>2. QED
    BY <1>3, <2>1
<1>7. \A k \in Jobs : inProgress'[k] = IF k = j THEN 0 ELSE inProgress[k]
  BY <1>3, <1>4 DEF QueueInv, MemoryOK
<1>8. /\ HandIsClaimed' /\ \A k \in Jobs : Hand(k)' = inProgress'[k]
      /\ Hand(j) = job.attempts /\ job.attempts > 0
      /\ \A k \in Jobs \ {j} : Hand(k) = inProgress[k]
  BY <1>3, <1>4, Resting DEF Hand, WithinBudget, HandIsClaimed
<1>9. \A k \in Jobs : Copies(pending, k) \in Nat /\ Copies(pending', k) \in Nat
  BY CopiesType DEF QueueInv, MemoryOK
<1>10. Limit \in Nat /\ Limit' \in Nat /\ Limit <= Limit' /\ MaxAttempts \in Nat
  BY LimitGrows, PersistFaults DEF QueueInv
<1>11. PICK h, l : h = Hand(j)' /\ l = Limit'
  OBVIOUS
<1>12. h = 0 /\ Spare(h) = 0 /\ Busy(h) = 0
  BY <1>7, <1>8, <1>11 DEF Spare, Busy
<1>13. /\ \A d \in In(pending) : d.id = j => d.attempts + Copies(pending, j) + Spare(Hand(j)) <= Limit
       /\ \A d \in In(deadLetters) : d.id = j => d.attempts + Copies(pending, j) + Spare(Hand(j)) <= Limit
       /\ Hand(j) + Copies(pending, j) <= Limit
       /\ MaxAttempts + Copies(pending, j) + Busy(Hand(j)) <= Limit + 1
       /\ Spare(Hand(j)) \in {0, 1} /\ Busy(Hand(j)) = 1
  BY <1>8, RoomOf DEF Busy
<1>14. /\ \A d \in In(pending) : d.attempts \in Nat
       /\ \A d \in In(deadLetters) : d.attempts \in Nat
  BY EntriesKnown
\* Being queued again takes the room the claim had spare.
<1>15. \/ Copies(pending', j) = Copies(pending, j)
       \/ Copies(pending', j) = Copies(pending, j) + 1 /\ Spare(Hand(j)) = 1 /\ job.attempts < MaxAttempts
  BY <1>1, <1>6, <1>8 DEF Spare
<1>16. Copies(pending', j) <= Copies(pending, j) + Spare(Hand(j))
  BY <1>9, <1>13, <1>15
<1>17. /\ job.attempts + Copies(pending', j) <= Limit
       /\ MaxAttempts + Copies(pending', j) <= Limit + 1
  BY <1>1, <1>8, <1>9, <1>10, <1>13, <1>15
<1>18. ASSUME NEW d \in In(pending) \cup In(deadLetters), d.id = j
       PROVE  d.attempts + Copies(pending', j) <= Limit
  <2>1. d.attempts \in Nat /\ d.attempts + Copies(pending, j) + Spare(Hand(j)) <= Limit
    BY <1>13, <1>14, <1>18
  <2>2. QED
    BY <1>9, <1>10, <1>13, <1>16, <2>1
<1>19. ASSUME NEW d \in In(pending') \cup In(deadLetters'), d.id = j
       PROVE  d.attempts + Copies(pending', j) + Spare(h) <= l
  <2>1. d.attempts \in Nat /\ d.attempts + Copies(pending', j) <= Limit
    BY <1>1, <1>2, <1>5, <1>6, <1>14, <1>17, <1>18, <1>19
  <2>2. QED
    BY <1>9, <1>10, <1>11, <1>12, <2>1
<1>20. h + Copies(pending', j) <= l /\ MaxAttempts + Copies(pending', j) + Busy(h) <= l + 1
  BY <1>1, <1>9, <1>10, <1>11, <1>12, <1>17
<1>21. Room(In(pending'), In(deadLetters'), j, Copies(pending', j), h, l)
  BY <1>19, <1>20 DEF Room
<1>22. \A k \in Jobs \ {j} : Copies(pending', k) <= Copies(pending, k) /\ Hand(k)' \in {0, Hand(k)}
  BY <1>6, <1>7, <1>8, <1>9
<1>23. /\ \A d \in In(pending') : d.id # j => d \in In(pending)
       /\ \A d \in In(deadLetters') : d.id # j => d \in In(deadLetters)
  BY <1>2, <1>4, <1>5, <1>6
<1>24. QED
  BY <1>8, <1>11, <1>21, <1>22, <1>23, BudgetCloses

\* The copies get the attempts of the claimed job: there is room for that, for
\* they are no more than the operator and the faults paid for.
LEMMA TransitionBudget ==
  ASSUME QueueInv, QueueInv', WithinBudget, NEW from \in Working \ {"failing"},
         NEW milestone \in Working, NEW saved \in BOOLEAN, Transition(from, milestone, saved)
  PROVE  WithinBudget'
<1>1. /\ at = from /\ at' \in Working /\ job' = job
      /\ pending' = Rewritten(pending, job)
      /\ inProgress' = inProgress /\ deadLetters' = deadLetters /\ retries' = retries
      /\ Persist(saved)
  BY DEF Transition, Goto, outside, Working, Places
<1>2. job \in Entry /\ job.id \in Jobs /\ job.attempts \in Nat
  BY <1>1, AtWork
<1>3. PICK j \in Jobs : j = job.id
  BY <1>2
<1>4. pending \in Seq(Entry) /\ deadLetters \in Seq(Dead)
  BY DEF QueueInv, MemoryOK
<1>5. /\ \A d \in In(pending') : d = job \/ (d.id # j /\ d \in In(pending))
      /\ \A k \in Jobs : Copies(pending', k) = Copies(pending, k) /\ Copies(pending, k) \in Nat
  BY <1>1, <1>2, <1>3, <1>4, RewrittenIs, CopiesRewritten, CopiesType
<1>6. \A k \in Jobs : Hand(k)' = Hand(k)
  BY <1>1 DEF Hand
<1>7. HandIsClaimed' /\ job.attempts > 0 /\ Hand(j) = job.attempts
  BY <1>1, <1>3 DEF WithinBudget, HandIsClaimed, Hand
<1>8. Limit \in Nat /\ Limit' \in Nat /\ Limit <= Limit' /\ MaxAttempts \in Nat
  BY <1>1, LimitGrows, PersistFaults DEF QueueInv
<1>9. PICK h, l : h = Hand(j)' /\ l = Limit'
  OBVIOUS
<1>10. h = job.attempts /\ h = Hand(j)
  BY <1>6, <1>7, <1>9
<1>11. /\ \A d \in In(deadLetters) : d.id = j => d.attempts + Copies(pending, j) + Spare(h) <= Limit
       /\ h + Copies(pending, j) <= Limit
       /\ MaxAttempts + Copies(pending, j) + Busy(h) <= Limit + 1
  BY <1>10, RoomOf
<1>12. Busy(h) = 1 /\ (Spare(h) = 0 \/ (Spare(h) = 1 /\ h < MaxAttempts))
  BY <1>7, <1>10 DEF Busy, Spare
<1>13. h + Copies(pending, j) + Spare(h) <= Limit
  BY <1>2, <1>5, <1>8, <1>10, <1>11, <1>12
<1>14. ASSUME NEW d \in In(pending') \cup In(deadLetters'), d.id = j
       PROVE  d.attempts + Copies(pending', j) + Spare(h) <= l
  <2>1. d.attempts \in Nat /\ d.attempts + Copies(pending, j) + Spare(h) <= Limit
    <3>1. \A x \in In(deadLetters) : x.attempts \in Nat
      BY EntriesKnown
    <3>2. In(deadLetters') = In(deadLetters)
      BY <1>1
    <3>3. CASE d \in In(deadLetters)
      BY <1>11, <1>14, <3>1, <3>3
    <3>4. CASE d \in In(pending')
      BY <1>2, <1>5, <1>10, <1>13, <1>14, <3>4
    <3>5. QED
      BY <3>2, <3>3, <3>4
  <2>2. QED
    BY <1>5, <1>8, <1>9, <1>12, <2>1
<1>15. h + Copies(pending', j) <= l /\ MaxAttempts + Copies(pending', j) + Busy(h) <= l + 1
  BY <1>2, <1>5, <1>8, <1>9, <1>10, <1>11, <1>12
<1>16. Room(In(pending'), In(deadLetters'), j, Copies(pending', j), h, l)
  BY <1>14, <1>15 DEF Room
<1>17. \A k \in Jobs \ {j} : Copies(pending', k) <= Copies(pending, k) /\ Hand(k)' \in {0, Hand(k)}
  BY <1>5, <1>6
<1>18. /\ \A d \in In(pending') : d.id # j => d \in In(pending)
       /\ \A d \in In(deadLetters') : d.id # j => d \in In(deadLetters)
  BY <1>1, <1>3, <1>5
<1>19. QED
  BY <1>1, <1>7, <1>9, <1>16, <1>17, <1>18, BudgetCloses

LEMMA AckBudget ==
  ASSUME QueueInv, QueueInv', WithinBudget, NEW saved \in BOOLEAN, Ack(saved)
  PROVE  WithinBudget'
<1>1. /\ at = "indexed" /\ inProgress' = [inProgress EXCEPT ![job.id] = 0]
      /\ pending' = pending /\ deadLetters' = deadLetters /\ retries' = retries
      /\ Persist(saved)
      /\ at' = "idle" \/ (at' = "failing" /\ job' = job)
  BY DEF Ack, Return, Goto, outside
<1>2. at \in Working
  BY <1>1 DEF Working, Places
<1>3. job.id \in Jobs
  BY <1>2, AtWork
<1>4. \A k \in Jobs : inProgress'[k] = IF k = job.id THEN 0 ELSE inProgress[k]
  BY <1>1 DEF QueueInv, MemoryOK
<1>5. HandIsClaimed'
  BY <1>1, <1>2, <1>3, <1>4 DEF WithinBudget, HandIsClaimed, Working
<1>6. \A k \in Jobs : Hand(k)' \in {0, Hand(k)}
  BY <1>1, <1>2, <1>4 DEF Hand, Working, Places
<1>7. \A k \in Jobs : Copies(pending, k) \in Nat /\ Copies(pending', k) = Copies(pending, k)
  BY <1>1, HandType
<1>8. faults' \in {faults, faults + 1}
  BY <1>1, PersistFaults
<1>9. ASSUME NEW k \in Jobs
      PROVE  Room(In(pending), In(deadLetters), k, Copies(pending, k), Hand(k), Limit)'
  <2>1. Copies(pending', k) <= Copies(pending, k) /\ Hand(k)' \in {0, Hand(k)}
    BY <1>6, <1>7
  <2>2. QED
    BY <1>1, <1>8, <2>1, RoomElsewhere
<1>10. MemoryHasRoom'
  BY <1>9 DEF MemoryHasRoom
<1>11. QED
  BY <1>1, <1>5, <1>10, FileKeepsRoom

LEMMA RetryBudget ==
  ASSUME QueueInv, QueueInv', WithinBudget, NEW j \in Jobs, NEW saved \in BOOLEAN,
         RetryDeadLetter(j, saved)
  PROVE  WithinBudget'
<1>1. PICK i \in DOMAIN deadLetters :
        /\ deadLetters[i].id = j
        /\ deadLetters' = Picked(deadLetters, DOMAIN deadLetters \ {i})
        /\ pending' = Append(pending, JobOf(j, deadLetters[i].attempts))
  BY DEF RetryDeadLetter, WithoutIndex
<1>2. /\ at = "idle" /\ at' = "idle" /\ retries' = retries + 1 /\ inProgress' = inProgress
      /\ Persist(saved)
  BY DEF RetryDeadLetter, thread
<1> DEFINE dead == deadLetters[i]
           e == JobOf(j, dead.attempts)
           kept == DOMAIN deadLetters \ {i}
<1>3. pending \in Seq(Entry) /\ deadLetters \in Seq(Dead) /\ dead \in In(deadLetters) /\ dead.id = j
  BY <1>1 DEF QueueInv, MemoryOK, In
<1>4. e \in Entry /\ e.id = j /\ e.attempts = dead.attempts /\ dead.attempts \in Nat
  BY <1>3, EntriesKnown DEF JobOf, Entry
<1>5. kept \in SUBSET (DOMAIN deadLetters) /\ pending' = Append(pending, e)
      /\ deadLetters' = Picked(deadLetters, kept)
  BY <1>1
<1> HIDE DEF e, dead, kept
<1>6. In(deadLetters') \subseteq In(deadLetters)
  <2>1. In(deadLetters') = {deadLetters[x] : x \in kept}
    BY <1>3, <1>5, InPicked
  <2>2. QED
    BY <1>5, <2>1 DEF In
<1>7. In(pending') = In(pending) \cup {e}
  BY <1>3, <1>4, <1>5, InAppend
<1>8. \A k \in Jobs : Copies(pending', k) = Copies(pending, k) + (IF k = j THEN 1 ELSE 0)
  BY <1>3, <1>4, <1>5, CopiesAppend
<1>9. HandIsClaimed' /\ \A k \in Jobs : Hand(k)' = Hand(k) /\ Hand(k) \in Nat /\ Copies(pending, k) \in Nat
  BY <1>2, Resting, HandType DEF Hand, Working
<1>10. Limit \in Nat /\ Limit' \in Nat /\ Limit + 1 <= Limit' /\ MaxAttempts \in Nat
  <2>1. retries \in Nat /\ retries' # retries
    BY <1>2 DEF QueueInv, OutsideOK
  <2>2. QED
    BY <1>2, <2>1, LimitGrows, PersistFaults DEF QueueInv
<1>11. PICK h, l : h = Hand(j)' /\ l = Limit'
  OBVIOUS
<1>12. /\ \A d \in In(pending) : d.id = j => d.attempts + Copies(pending, j) + Spare(h) <= Limit
       /\ \A d \in In(deadLetters) : d.id = j => d.attempts + Copies(pending, j) + Spare(h) <= Limit
       /\ h + Copies(pending, j) <= Limit
       /\ MaxAttempts + Copies(pending, j) + Busy(h) <= Limit + 1
       /\ Spare(h) \in {0, 1} /\ Busy(h) \in {0, 1}
  BY <1>9, <1>11, RoomOf
<1>13. h \in Nat /\ Copies(pending, j) \in Nat /\ Copies(pending', j) = Copies(pending, j) + 1
  BY <1>8, <1>9, <1>11
<1>14. ASSUME NEW d \in In(pending) \cup In(deadLetters), d.id = j
       PROVE  d.attempts \in Nat /\ d.attempts + Copies(pending', j) + Spare(h) <= l
  <2>1. d.attempts \in Nat /\ d.attempts + Copies(pending, j) + Spare(h) <= Limit
    BY <1>12, <1>14, EntriesKnown
  <2>2. QED
    BY <1>10, <1>11, <1>12, <1>13, <2>1
<1>15. dead.attempts + Copies(pending', j) + Spare(h) <= l
  BY <1>3, <1>14
<1>16. /\ \A d \in In(pending') : d.id = j => d.attempts + Copies(pending', j) + Spare(h) <= l
       /\ \A d \in In(deadLetters') : d.id = j => d.attempts + Copies(pending', j) + Spare(h) <= l
  BY <1>4, <1>6, <1>7, <1>14, <1>15
<1>17. h + Copies(pending', j) <= l /\ MaxAttempts + Copies(pending', j) + Busy(h) <= l + 1
  BY <1>10, <1>11, <1>12, <1>13
<1>18. Room(In(pending'), In(deadLetters'), j, Copies(pending', j), h, l)
  BY <1>16, <1>17 DEF Room
<1>19. \A k \in Jobs \ {j} : Copies(pending', k) <= Copies(pending, k) /\ Hand(k)' \in {0, Hand(k)}
  BY <1>8, <1>9
<1>20. /\ \A d \in In(pending') : d.id # j => d \in In(pending)
       /\ \A d \in In(deadLetters') : d.id # j => d \in In(deadLetters)
  BY <1>4, <1>6, <1>7
<1>21. QED
  BY <1>2, <1>9, <1>11, <1>18, <1>19, <1>20, BudgetCloses

\* A step that leaves the lists and the file alone.
LEMMA QuietBudget ==
  ASSUME QueueInv, QueueInv', WithinBudget, UNCHANGED <<memory, disk, retries>>,
         faults' \in {faults, faults + 1},
         \/ at \notin Working /\ at' \in {"idle", "discovered"}
         \/ at' = at /\ job' = job
         \/ at \in Working /\ at' \in Working /\ job' = job
  PROVE  WithinBudget'
<1>1. /\ pending' = pending /\ deadLetters' = deadLetters /\ inProgress' = inProgress
      /\ disk' = disk /\ retries' = retries
  BY DEF memory
<1>2. HandIsClaimed' /\ \A k \in Jobs : Hand(k)' = Hand(k)
  <2>1. CASE at \notin Working /\ at' \in {"idle", "discovered"}
    BY <1>1, <2>1, Resting DEF Hand
  <2>2. CASE (at \in Working <=> at' \in Working) /\ job' = job
    BY <1>1, <2>2 DEF WithinBudget, HandIsClaimed, Hand
  <2>3. QED
    BY <2>1, <2>2
<1>3. \A k \in Jobs : Copies(pending, k) \in Nat /\ Copies(pending', k) = Copies(pending, k)
  BY <1>1, HandType
<1>4. ASSUME NEW k \in Jobs
      PROVE  Room(In(pending), In(deadLetters), k, Copies(pending, k), Hand(k), Limit)'
  <2>1. Copies(pending', k) <= Copies(pending, k) /\ Hand(k)' \in {0, Hand(k)}
    BY <1>2, <1>3
  <2>2. QED
    BY <1>1, <2>1, RoomElsewhere
<1>5. MemoryHasRoom'
  BY <1>4 DEF MemoryHasRoom
<1>6. FileHasRoom'
  BY <1>1, LimitGrows, FileRoomGrows DEF WithinBudget, QueueInv
<1>7. QED
  BY <1>2, <1>5, <1>6 DEF WithinBudget

LEMMA CopiesClaimed ==
  ASSUME NEW q, q.inProgress \in [Jobs -> Nat], NEW s \in Orders(Claimed(q)), NEW j \in Jobs
  PROVE  s \in Seq(Entry) /\ Copies(s, j) <= Busy(q.inProgress[j])
<1> DEFINE S == Claimed(q)
           n == Cardinality(S)
<1>1. s \in Seq(Entry) /\ In(s) = S
  BY ClaimedListed
<1>2. IsFiniteSet(S) /\ n \in Nat
  <2>1. IsFiniteSet({k \in Jobs : q.inProgress[k] > 0})
    BY QueueAssumption, FS_Subset
  <2> DEFINE held == {k \in Jobs : q.inProgress[k] > 0}
             f == [k \in held |-> JobOf(k, q.inProgress[k])]
  <2>2. f \in Surjection(held, S)
    <3>1. f \in [held -> S] /\ \A e \in S : \E k \in held : f[k] = e
      BY DEF Claimed
    <3>2. QED
      BY <3>1 DEF Surjection
  <2> HIDE DEF f, held, S
  <2>3. IsFiniteSet(S)
    BY <2>1, <2>2, FS_Surjection DEF held
  <2>4. QED
    BY <2>3, FS_CardinalityType
<1>3. s \in [1..n -> S] /\ \A e \in S : \E i \in DOMAIN s : s[i] = e
  BY DEF Orders
<1>4. \A e \in S : e.id \in Jobs /\ q.inProgress[e.id] > 0 /\ e = JobOf(e.id, q.inProgress[e.id])
  BY DEF Claimed, JobOf
<1> HIDE DEF S, n
<1>5. s \in Surjection(1..n, S)
  BY <1>3 DEF Surjection
<1>6. s \in Injection(1..n, S)
  <2>1. IsFiniteSet(1..n) /\ Cardinality(1..n) = n
    BY <1>2, FS_Interval
  <2>2. QED
    BY <1>5, <2>1, FS_SurjSameCardinalityImpliesInj DEF n
<1>7. \A x, y \in 1..n : s[x].id = s[y].id => x = y
  <2>1. ASSUME NEW x \in 1..n, NEW y \in 1..n, s[x].id = s[y].id PROVE x = y
    <3>1. s[x] \in S /\ s[y] \in S
      BY <1>3
    <3>2. s[x] = s[y]
      BY <1>4, <2>1, <3>1
    <3>3. QED
      BY <1>6, <3>2 DEF Injection, IsInjective
  <2>2. QED
    BY <2>1
<1>8. DOMAIN s = 1..n
  BY <1>3
<1>9. CASE q.inProgress[j] = 0
  <2>1. \A i \in 1..n : s[i].id # j
    BY <1>3, <1>4, <1>9
  <2>2. Spots(s, j) = {}
    BY <1>8, <2>1 DEF Spots
  <2>3. QED
    BY <1>1, <1>9, <2>2, FS_EmptySet DEF Copies, Busy
<1>10. CASE q.inProgress[j] > 0
  <2>1. \A x, y \in Spots(s, j) : x = y
    BY <1>7, <1>8 DEF Spots
  <2>2. Spots(s, j) = {} \/ \E x : Spots(s, j) = {x}
    BY <2>1
  <2>3. Copies(s, j) = 0 \/ Copies(s, j) = 1
    BY <2>2, FS_EmptySet, FS_Singleton DEF Copies
  <2>4. QED
    BY <1>1, <1>10, <2>3 DEF Busy
<1>11. QED
  BY <1>9, <1>10

\* A restart queues the claimed jobs again, each for one more attempt.
LEMMA RestartBudget ==
  ASSUME QueueInv, QueueInv', WithinBudget, Restart
  PROVE  WithinBudget'
<1>1. /\ pending' \in Requeued(disk) /\ inProgress' = [j \in Jobs |-> 0]
      /\ deadLetters' = disk.deadLetters
      /\ at' = "idle" /\ retries' = retries /\ faults' = faults + 1 /\ disk' = Snapshot'
  BY DEF Restart, Return, Goto, outside, Fault
<1>2. PICK s \in Orders(Claimed(disk)) : pending' = disk.pending \o s
  BY <1>1 DEF Requeued
<1>3. disk.pending \in Seq(Entry) /\ disk.inProgress \in [Jobs -> Nat]
  BY DEF QueueInv, QueueOK, Queue
<1>4. In(pending') = In(disk.pending) \cup Claimed(disk)
  BY <1>2, <1>3, ClaimedListed, InConcat
<1>5. Limit \in Nat /\ Limit' \in Nat /\ Limit + 1 <= Limit' /\ MaxAttempts \in Nat
  <2>1. faults \in Nat /\ faults' # faults
    BY <1>1 DEF QueueInv, OutsideOK
  <2>2. QED
    BY <1>1, <2>1, LimitGrows DEF QueueInv
<1>6. PICK l : l = Limit'
  OBVIOUS
<1>7. ASSUME NEW j \in Jobs
      PROVE  Room(In(pending'), In(deadLetters'), j, Copies(pending', j), 0, l)
  <2> DEFINE a == disk.inProgress[j]
             n == Copies(disk.pending, j)
             nn == Copies(pending', j)
  <2>1. /\ a \in Nat /\ n \in Nat
        /\ \A e \in In(disk.pending) \cup In(disk.deadLetters) : e.attempts \in Nat
    BY FileTypes
  <2>2. /\ \A e \in In(disk.pending) : e.id = j => e.attempts + n + Spare(a) <= Limit
        /\ \A d \in In(disk.deadLetters) : d.id = j => d.attempts + n + Spare(a) <= Limit
        /\ a + n <= Limit /\ MaxAttempts + n + Busy(a) <= Limit + 1
    BY DEF WithinBudget, FileHasRoom, Room
  <2>3. s \in Seq(Entry) /\ Copies(s, j) <= Busy(a) /\ Copies(s, j) \in Nat
    BY <1>3, CopiesClaimed, CopiesType
  <2>4. nn <= n + Copies(s, j)
    BY <1>2, <1>3, <2>3, CopiesConcat
  <2>5. nn \in Nat
    BY CopiesType DEF QueueInv, MemoryOK
  <2>6. \A e \in Claimed(disk) : e.id = j => e.attempts = a
    BY DEF Claimed, JobOf
  <2>7. Spare(0) = 0 /\ Busy(0) = 0 /\ Spare(a) \in {0, 1} /\ Busy(a) \in {0, 1}
    BY DEF Spare, Busy
  <2> HIDE DEF a, n, nn
  <2>8. nn <= n + Busy(a)
    BY <2>1, <2>3, <2>4, <2>5, <2>7
  <2>9. ASSUME NEW e \in In(disk.pending) \cup In(disk.deadLetters), e.id = j
        PROVE  e.attempts + nn + Spare(0) <= l
    <3>1. e.attempts \in Nat /\ e.attempts + n + Spare(a) <= Limit
      BY <2>1, <2>2, <2>9
    <3>2. QED
      BY <1>5, <1>6, <2>1, <2>5, <2>7, <2>8, <3>1
  <2>10. a + nn + Spare(0) <= l /\ 0 + nn <= l /\ MaxAttempts + nn + Busy(0) <= l + 1
    BY <1>5, <1>6, <2>1, <2>2, <2>5, <2>7, <2>8
  <2>11. /\ \A e \in In(pending') : e.id = j => e.attempts + nn + Spare(0) <= l
         /\ \A d \in In(deadLetters') : d.id = j => d.attempts + nn + Spare(0) <= l
    BY <1>1, <1>4, <2>6, <2>9, <2>10
  <2>12. QED
    BY <2>10, <2>11 DEF Room, nn
<1>8. HandIsClaimed' /\ \A j \in Jobs : Hand(j)' = 0
  BY <1>1, Resting
<1>9. MemoryHasRoom'
  BY <1>6, <1>7, <1>8 DEF MemoryHasRoom, Room, In, Copies, Spots
<1>10. disk'.pending = pending' /\ disk'.deadLetters = deadLetters' /\ \A j \in Jobs : disk'.inProgress[j] = 0
  BY <1>1 DEF Snapshot
<1>11. FileHasRoom'
  BY <1>6, <1>7, <1>10 DEF FileHasRoom, Room, In, Copies, Spots
<1>12. QED
  BY <1>8, <1>9, <1>11 DEF WithinBudget

LEMMA StartsWithinBudget ==
  ASSUME Init
  PROVE  WithinBudget
<1>1. /\ pending = <<>> /\ deadLetters = <<>> /\ inProgress = [j \in Jobs |-> 0]
      /\ disk = Snapshot /\ at = "idle" /\ retries = 0 /\ faults = 0
  BY DEF Init
<1>2. In(pending) = {} /\ In(deadLetters) = {}
  BY <1>1 DEF In
<1>3. Limit = MaxAttempts /\ MaxAttempts \in Nat
  BY <1>1, QueueAssumption DEF Limit
<1>4. ASSUME NEW j \in Jobs
      PROVE  Room(In(pending), In(deadLetters), j, Copies(pending, j), 0, Limit)
  <2>1. Spots(pending, j) = {}
    BY <1>1 DEF Spots
  <2>2. Copies(pending, j) = 0
    BY <2>1, FS_EmptySet DEF Copies
  <2>3. QED
    BY <1>2, <1>3, <2>2 DEF Room, Busy
<1>5. \A j \in Jobs : Hand(j) = 0 /\ disk.inProgress[j] = 0
  BY <1>1 DEF Hand, Working, Snapshot
<1>6. disk.pending = pending /\ disk.deadLetters = deadLetters
  BY <1>1 DEF Snapshot
<1>7. QED
  BY <1>1, <1>4, <1>5, <1>6 DEF WithinBudget, HandIsClaimed, Working, MemoryHasRoom, FileHasRoom

LEMMA StepsKeepBudget ==
  ASSUME QueueInv, QueueInv', WithinBudget, [Next]_vars
  PROVE  WithinBudget'
<1>1. CASE Submit
  <2>1. CASE LandingFails
    BY <2>1, QuietBudget DEF LandingFails, Fault, thread, outside
  <2>2. ASSUME NEW j \in Jobs, Resubmit(j) PROVE WithinBudget'
    <3>1. at \notin Working /\ at' \in {"idle", "discovered"}
      BY <2>2 DEF Resubmit, Goto, thread, Working
    <3>2. QED
      BY <2>2, <3>1, QuietBudget DEF Resubmit
  <2>3. QED
    BY <1>1, <2>1, <2>2, EnqueueBudget DEF Submit
<1>2. CASE Quarantine
  <2>1. CASE QuarantineSkipped
    <3>1. at \notin Working /\ at' \in {"idle", "discovered"}
      BY <2>1 DEF QuarantineSkipped, Return, Goto, Working
    <3>2. QED
      BY <2>1, <3>1, QuietBudget DEF QuarantineSkipped, outside
  <2>2. ASSUME NEW saved \in BOOLEAN, QuarantineFail(saved) PROVE WithinBudget'
    BY <2>2, FailureBudget DEF QuarantineFail, Working, Places, outside
  <2>3. QED
    BY <1>2, <2>1, <2>2, QuarantineClaimBudget DEF Quarantine
<1>3. CASE ProcessNext
  <2>1. CASE ProcessJob \/ ProcessFails
    <3>1. at \in Working /\ at' \in Working /\ job' = job
      BY <2>1 DEF ProcessJob, ProcessFails, Goto, Working, Places
    <3>2. UNCHANGED <<memory, disk, retries>> /\ faults' = faults
      BY <2>1 DEF ProcessJob, ProcessFails, outside
    <3>3. QED
      BY <3>1, <3>2, QuietBudget
  <2>2. ASSUME NEW saved \in BOOLEAN, Milestone(saved) PROVE WithinBudget'
    BY <2>2, TransitionBudget DEF Milestone, Working, Places
  <2>3. ASSUME NEW saved \in BOOLEAN, Fail(saved) PROVE WithinBudget'
    BY <2>3, FailureBudget DEF Fail, Working, Places, outside
  <2>4. QED
    BY <1>3, <2>1, <2>2, <2>3, ClaimBudget, AckBudget DEF ProcessNext
<1>4. CASE Retry
  BY <1>4, RetryBudget DEF Retry
<1>5. CASE Restart
  BY <1>5, RestartBudget
<1>6. CASE UNCHANGED vars
  <2>1. UNCHANGED <<memory, disk, retries>> /\ faults' = faults /\ at' = at /\ job' = job
    BY <1>6 DEF vars, thread, outside
  <2>2. QED
    BY <2>1, QuietBudget
<1>7. QED
  BY <1>1, <1>2, <1>3, <1>4, <1>5, <1>6 DEF Next

LEMMA BudgetMeans ==
  ASSUME QueueInv, WithinBudget
  PROVE  AttemptBudget
<1>1. ASSUME NEW j \in Jobs PROVE inProgress[j] <= MaxAttempts + retries + faults
  <2>1. Hand(j) + Copies(pending, j) <= Limit
    BY RoomOf
  <2>2. inProgress[j] \in {0, Hand(j)}
    BY DEF WithinBudget, HandIsClaimed, Hand
  <2>3. Limit \in Nat
    BY QueueAssumption DEF Limit, QueueInv, OutsideOK
  <2>4. inProgress[j] <= Limit
    BY <2>1, <2>2, <2>3, HandType
  <2>5. QED
    BY <2>4 DEF Limit
<1>2. QED
  BY <1>1 DEF AttemptBudget

\* max_attempts bounds the work on a job, but for what an operator's retry
\* and a fault buy it, although a milestone of a job that waits twice gives
\* the waiting copy the attempts of the claimed one.
THEOREM AttemptsBounded == Spec => []AttemptBudget
<1>1. Init => WithinBudget
  BY StartsWithinBudget
<1>2. QueueInv /\ QueueInv' /\ WithinBudget /\ [Next]_vars => WithinBudget'
  BY StepsKeepBudget
<1>3. QueueInv /\ WithinBudget => AttemptBudget
  BY BudgetMeans
<1>4. QED
  BY <1>1, <1>2, <1>3, QueueAlways, PTL DEF Spec

-----------------------------------------------------------------------------
(* What becomes of a job.                                                   *)

\* A job that neither waits nor is claimed has an outcome, or its last failure
\* was final and its dead letter is there for an operator.
Decided(q, j) == j \in q.completed \/ (q.state[j] = "quarantined" /\ j \in Ids(q.deadLetters))

Placed(q) == \A j \in q.seen : j \in Ids(q.pending) \/ q.inProgress[j] > 0 \/ Decided(q, j)

Accounted == Placed(Snapshot) /\ Placed(disk)

\* The same of the queue in memory, job by job.
InPlace(j) ==
  j \in seen => j \in Ids(pending) \/ inProgress[j] > 0 \/ Settled(j)

LEMMA PlacedInMemory == Placed(Snapshot) <=> \A j \in seen : InPlace(j)
BY DEF Placed, Decided, Snapshot, InPlace, Settled

LEMMA PlacedAfter == Placed(Snapshot)' <=> \A j \in seen' : InPlace(j)'
BY DEF Placed, Decided, Snapshot, InPlace, Settled

\* A job of which nothing is taken away.
Undisturbed(k) ==
  /\ k \in seen' => k \in seen
  /\ k \in completed => k \in completed'
  /\ k \in Ids(pending) => k \in Ids(pending')
  /\ k \in Ids(deadLetters) => k \in Ids(deadLetters')
  /\ inProgress'[k] = inProgress[k] /\ state'[k] = state[k]

LEMMA StillPlaced ==
  ASSUME NEW saved \in BOOLEAN, Persist(saved), QueueInv, Accounted,
         NEW j, InPlace(j)', seen' \subseteq Jobs,
         \A k \in Jobs \ {j} : Undisturbed(k)
  PROVE  Accounted'
<1>1. ASSUME NEW k \in seen' PROVE InPlace(k)'
  <2>1. CASE k = j
    BY <2>1
  <2>2. CASE k # j
    <3>1. Undisturbed(k)
      BY <2>2
    <3>2. InPlace(k)
      BY <3>1, PlacedInMemory DEF Accounted, Undisturbed
    <3>3. QED
      BY <3>1, <3>2 DEF Undisturbed, InPlace, Settled
  <2>3. QED
    BY <2>1, <2>2
<1>2. Placed(Snapshot)'
  BY <1>1, PlacedAfter
<1>3. Placed(disk)'
  <2>1. CASE saved = TRUE
    <3>1. disk' = Snapshot'
      BY <2>1 DEF Persist
    <3>2. QED
      BY <1>2, <3>1 DEF Placed, Decided
  <2>2. CASE saved = FALSE
    <3>1. disk' = disk
      BY <2>2 DEF Persist
    <3>2. QED
      BY <3>1 DEF Accounted, Placed, Decided
  <2>3. QED
    BY <2>1, <2>2
<1>4. QED
  BY <1>2, <1>3 DEF Accounted

LEMMA SamePlaces ==
  ASSUME Accounted, UNCHANGED <<memory, disk>>
  PROVE  Accounted'
BY DEF Accounted, Placed, Decided, Snapshot, memory, Ids

LEMMA EnqueuePlaces ==
  ASSUME QueueInv, Accounted, NEW j \in Jobs, NEW saved \in BOOLEAN, Enqueue(j, saved)
  PROVE  Accounted'
<1>1. /\ pending' = Append(pending, JobOf(j, 0)) /\ seen' = seen \cup {j}
      /\ state' = [state EXCEPT ![j] = "received"]
      /\ UNCHANGED <<inProgress, completed, deadLetters>> /\ Persist(saved)
  BY DEF Enqueue
<1>2. JobOf(j, 0) \in Entry /\ JobOf(j, 0).id = j
  BY DEF JobOf, Entry
<1>3. In(pending') = In(pending) \cup {JobOf(j, 0)}
  BY <1>1, <1>2, InAppend DEF QueueInv, MemoryOK
<1>4. Ids(pending') = Ids(pending) \cup {j}
  BY <1>2, <1>3, IdsAre
<1>5. InPlace(j)'
  BY <1>4 DEF InPlace
<1>6. \A k \in Jobs \ {j} : Undisturbed(k)
  BY <1>1, <1>4 DEF Undisturbed, QueueInv, MemoryOK
<1>7. seen' \subseteq Jobs
  BY <1>1 DEF QueueInv, MemoryOK
<1>8. QED
  BY <1>1, <1>5, <1>6, <1>7, StillPlaced

LEMMA ClaimPlaces ==
  ASSUME QueueInv, Accounted, NEW saved \in BOOLEAN, Claim(saved)
  PROVE  Accounted'
<1> DEFINE e == JobOf(Head(pending).id, Head(pending).attempts + 1)
<1>1. /\ pending # <<>> /\ pending' = Tail(pending)
      /\ inProgress' = [inProgress EXCEPT ![e.id] = e.attempts]
      /\ state' = [state EXCEPT ![e.id] = "running"]
      /\ UNCHANGED <<completed, deadLetters, seen>> /\ Persist(saved)
  BY DEF Claim
<1>2. pending \in Seq(Entry) /\ In(pending) = In(pending') \cup {Head(pending)}
  BY <1>1, InTail DEF QueueInv, MemoryOK
<1>3. e.id = Head(pending).id /\ e.attempts = Head(pending).attempts + 1
  BY DEF JobOf
<1>4. Head(pending).attempts \in Nat /\ Head(pending).id \in Jobs
  BY <1>2, EntriesKnown
<1>5. PICK j \in Jobs : j = e.id
  BY <1>3, <1>4
<1>6. e.attempts > 0
  BY <1>3, <1>4
<1> HIDE DEF e
<1>7. InPlace(j)'
  BY <1>1, <1>5, <1>6 DEF InPlace, QueueInv, MemoryOK
<1>8. \A k \in Jobs \ {j} : Undisturbed(k)
  <2>1. \A k \in Jobs \ {j} : k \in Ids(pending) => k \in Ids(pending')
    BY <1>2, <1>3, <1>5, IdsAre
  <2>2. QED
    BY <1>1, <1>5, <2>1 DEF Undisturbed, QueueInv, MemoryOK
<1>9. QED
  BY <1>1, <1>7, <1>8, StillPlaced DEF QueueInv, MemoryOK

LEMMA QuarantineClaimPlaces ==
  ASSUME QueueInv, Accounted, NEW saved \in BOOLEAN, QuarantineClaim(saved)
  PROVE  Accounted'
<1> DEFINE n == FirstOf(pending, job.id).attempts + 1
<1>1. /\ at = "discovered" /\ job.id \in Ids(pending) /\ pending' = Others(pending, job.id)
      /\ inProgress' = [inProgress EXCEPT ![job.id] = n]
      /\ state' = [state EXCEPT ![job.id] = "running"]
      /\ UNCHANGED <<completed, deadLetters, seen>> /\ Persist(saved)
  BY DEF QuarantineClaim, Refusable
<1>2. pending \in Seq(Entry) /\ job \in Entry /\ seen \subseteq Jobs
  BY <1>1 DEF QueueInv, MemoryOK, ThreadOK
<1>3. PICK j \in Jobs : j = job.id
  BY <1>2 DEF Entry
<1>4. n > 0
  BY <1>1, <1>2, FirstFound, EntriesKnown
<1> HIDE DEF n
<1>5. InPlace(j)'
  BY <1>1, <1>3, <1>4 DEF InPlace, QueueInv, MemoryOK
<1>6. \A k \in Jobs \ {j} : Undisturbed(k)
  <2>1. \A k \in Jobs \ {j} : k \in Ids(pending) => k \in Ids(pending')
    BY <1>1, <1>2, <1>3, OthersKept, IdsAre
  <2>2. QED
    BY <1>1, <1>3, <2>1 DEF Undisturbed, QueueInv, MemoryOK
<1>7. QED
  BY <1>1, <1>2, <1>5, <1>6, StillPlaced

LEMMA FailurePlaces ==
  ASSUME QueueInv, Accounted, at \in Working, NEW retryable \in BOOLEAN,
         RecordFailure(job, retryable), UNCHANGED <<completed, seen>>,
         NEW saved \in BOOLEAN, Persist(saved)
  PROVE  Accounted'
<1> DEFINE dead == [id |-> job.id, attempts |-> job.attempts, retryable |-> retryable]
<1>1. /\ inProgress' = [inProgress EXCEPT ![job.id] = 0]
      /\ deadLetters' = Append(deadLetters, dead)
      /\ \/ pending' = Append(pending, job) /\ state' = [state EXCEPT ![job.id] = "retry"]
         \/ pending' = pending /\ state' = [state EXCEPT ![job.id] = "quarantined"]
  BY DEF RecordFailure
<1>2. job \in Entry /\ job.id \in Jobs /\ job.attempts \in Nat /\ seen \subseteq Jobs
  BY AtWork DEF QueueInv, MemoryOK
<1>3. dead \in Dead /\ dead.id = job.id
  BY <1>2 DEF Dead
<1> HIDE DEF dead
<1>4. PICK j \in Jobs : j = job.id
  BY <1>2
<1>5. In(deadLetters') = In(deadLetters) \cup {dead}
  BY <1>1, <1>3, InAppend DEF QueueInv, MemoryOK
<1>6. Ids(deadLetters') = Ids(deadLetters) \cup {j}
  BY <1>3, <1>4, <1>5, IdsAre
<1>7. \/ Ids(pending') = Ids(pending) \cup {j}
      \/ Ids(pending') = Ids(pending) /\ state'[j] = "quarantined"
  <2>1. CASE pending' = Append(pending, job)
    <3>1. In(pending') = In(pending) \cup {job}
      BY <1>2, <2>1, InAppend DEF QueueInv, MemoryOK
    <3>2. QED
      BY <1>4, <3>1, IdsAre
  <2>2. CASE pending' = pending /\ state' = [state EXCEPT ![job.id] = "quarantined"]
    BY <1>4, <2>2 DEF QueueInv, MemoryOK
  <2>3. QED
    BY <1>1, <2>1, <2>2
<1>8. InPlace(j)'
  BY <1>6, <1>7 DEF InPlace, Settled
<1>9. \A k \in Jobs \ {j} : Undisturbed(k)
  <2>1. \A k \in Jobs \ {j} : inProgress'[k] = inProgress[k] /\ state'[k] = state[k]
    BY <1>1, <1>4 DEF QueueInv, MemoryOK
  <2>2. QED
    BY <1>6, <1>7, <2>1 DEF Undisturbed
<1>10. QED
  BY <1>2, <1>8, <1>9, StillPlaced

LEMMA TransitionPlaces ==
  ASSUME QueueInv, Accounted, NEW from \in Working \ {"failing"}, NEW milestone,
         NEW saved \in BOOLEAN, Transition(from, milestone, saved)
  PROVE  Accounted'
<1>1. /\ at = from /\ state' = [state EXCEPT ![job.id] = milestone]
      /\ pending' = Rewritten(pending, job)
      /\ UNCHANGED <<inProgress, completed, deadLetters, seen>> /\ Persist(saved)
  BY DEF Transition
<1>2. job \in Entry /\ job.id \in Jobs /\ inProgress[job.id] > 0 /\ seen \subseteq Jobs
  BY <1>1, AtWork DEF QueueInv, ThreadOK, MemoryOK
<1>3. PICK j \in Jobs : j = job.id
  BY <1>2
<1>4. InPlace(j)'
  BY <1>1, <1>2, <1>3 DEF InPlace
<1>5. \A k \in Jobs \ {j} : Undisturbed(k)
  <2>1. Ids(pending') = Ids(pending)
    BY <1>1, <1>2, RewrittenIs, IdsAre DEF QueueInv, MemoryOK
  <2>2. QED
    BY <1>1, <1>3, <2>1 DEF Undisturbed, QueueInv, MemoryOK
<1>6. QED
  BY <1>1, <1>2, <1>4, <1>5, StillPlaced

LEMMA AckPlaces ==
  ASSUME QueueInv, Accounted, NEW saved \in BOOLEAN, Ack(saved)
  PROVE  Accounted'
<1>1. /\ at = "indexed" /\ inProgress' = [inProgress EXCEPT ![job.id] = 0]
      /\ completed' = completed \cup {job.id}
      /\ state' = [state EXCEPT ![job.id] = "indexed"]
      /\ UNCHANGED <<pending, deadLetters, seen>> /\ Persist(saved)
  BY DEF Ack
<1>2. at \in Working
  BY <1>1 DEF Working, Places
<1>3. job.id \in Jobs /\ seen \subseteq Jobs
  BY <1>2, AtWork DEF QueueInv, MemoryOK
<1>4. PICK j \in Jobs : j = job.id
  BY <1>3
<1>5. InPlace(j)'
  BY <1>1, <1>4 DEF InPlace, Settled
<1>6. \A k \in Jobs \ {j} : Undisturbed(k)
  BY <1>1, <1>4 DEF Undisturbed, QueueInv, MemoryOK
<1>7. QED
  BY <1>1, <1>3, <1>5, <1>6, StillPlaced

LEMMA RetryPlaces ==
  ASSUME QueueInv, Accounted, NEW j \in Jobs, NEW saved \in BOOLEAN, RetryDeadLetter(j, saved)
  PROVE  Accounted'
<1>1. PICK i \in DOMAIN deadLetters :
        /\ deadLetters[i].id = j
        /\ deadLetters' = Picked(deadLetters, DOMAIN deadLetters \ {i})
        /\ pending' = Append(pending, JobOf(j, deadLetters[i].attempts))
  BY DEF RetryDeadLetter, WithoutIndex
<1>2. /\ state' = [state EXCEPT ![j] = "retry"] /\ seen' = seen \cup {j}
      /\ UNCHANGED <<inProgress, completed>> /\ Persist(saved)
  BY DEF RetryDeadLetter
<1> DEFINE e == JobOf(j, deadLetters[i].attempts)
           kept == DOMAIN deadLetters \ {i}
<1>3. pending \in Seq(Entry) /\ deadLetters \in Seq(Dead) /\ seen' \subseteq Jobs
  BY <1>2 DEF QueueInv, MemoryOK
<1>4. e \in Entry /\ e.id = j
  <2>1. deadLetters[i] \in In(deadLetters)
    BY DEF In
  <2>2. QED
    BY <2>1, EntriesKnown DEF JobOf, Entry
<1>5. kept \in SUBSET (DOMAIN deadLetters) /\ pending' = Append(pending, e)
      /\ deadLetters' = Picked(deadLetters, kept)
  BY <1>1
<1> HIDE DEF e
<1>6. Ids(pending') = Ids(pending) \cup {j}
  <2>1. In(pending') = In(pending) \cup {e}
    BY <1>3, <1>4, <1>5, InAppend
  <2>2. QED
    BY <1>4, <2>1, IdsAre
<1>7. \A d \in In(deadLetters) : d.id # j => d \in In(deadLetters')
  <2>1. \A h \in DOMAIN deadLetters : deadLetters[h].id # j => h \in kept
    BY <1>1
  <2> HIDE DEF kept
  <2>2. In(deadLetters') = {deadLetters[h] : h \in kept}
    BY <1>3, <1>5, InPicked
  <2>3. QED
    BY <2>1, <2>2 DEF In
<1>8. InPlace(j)'
  BY <1>6 DEF InPlace
<1>9. \A k \in Jobs \ {j} : Undisturbed(k)
  <2>1. \A k \in Jobs \ {j} : k \in Ids(deadLetters) => k \in Ids(deadLetters')
    BY <1>7, IdsAre
  <2>2. QED
    BY <1>2, <1>6, <2>1 DEF Undisturbed, QueueInv, MemoryOK
<1>10. QED
  BY <1>2, <1>3, <1>8, <1>9, StillPlaced

LEMMA RestartPlaces ==
  ASSUME QueueInv, Accounted, Restart
  PROVE  Accounted'
<1>1. /\ pending' \in Requeued(disk) /\ seen' = disk.seen
      /\ completed' = disk.completed /\ deadLetters' = disk.deadLetters
      /\ state' = disk.state /\ disk' = Snapshot'
  BY DEF Restart
<1>2. disk.pending \in Seq(Entry) /\ disk.inProgress \in [Jobs -> Nat] /\ disk.seen \subseteq Jobs
  BY DEF QueueInv, QueueOK, Queue
<1>3. PICK s \in Orders(Claimed(disk)) : pending' = disk.pending \o s
  BY <1>1 DEF Requeued
<1>4. In(pending') = In(disk.pending) \cup Claimed(disk)
  BY <1>2, <1>3, ClaimedListed, InConcat
<1>5. Ids(pending') = Ids(disk.pending) \cup {j \in Jobs : disk.inProgress[j] > 0}
  BY <1>4, ClaimedIds, IdsAre
<1>6. ASSUME NEW j \in seen' PROVE InPlace(j)'
  <2>1. j \in Ids(disk.pending) \/ disk.inProgress[j] > 0 \/ Decided(disk, j)
    BY <1>1, <1>6 DEF Accounted, Placed
  <2>2. j \in Jobs
    BY <1>1, <1>2, <1>6
  <2>3. QED
    BY <1>1, <1>5, <2>1, <2>2 DEF InPlace, Decided, Settled
<1>7. Placed(Snapshot)'
  BY <1>6, PlacedAfter
<1>8. Placed(disk)'
  BY <1>1, <1>7 DEF Placed, Decided
<1>9. QED
  BY <1>7, <1>8 DEF Accounted

LEMMA StartsAccounted ==
  ASSUME Init
  PROVE  Accounted
BY DEF Init, Accounted, Placed, Decided, Snapshot

LEMMA StepsAccount ==
  ASSUME QueueInv, Accounted, [Next]_vars
  PROVE  Accounted'
<1>1. CASE Submit
  <2>1. CASE LandingFails
    BY <2>1, SamePlaces DEF LandingFails
  <2>2. ASSUME NEW j \in Jobs, Resubmit(j) PROVE Accounted'
    BY <2>2, SamePlaces DEF Resubmit
  <2>3. QED
    BY <1>1, <2>1, <2>2, EnqueuePlaces DEF Submit
<1>2. CASE Quarantine
  <2>1. CASE QuarantineSkipped
    BY <2>1, SamePlaces DEF QuarantineSkipped
  <2>2. ASSUME NEW saved \in BOOLEAN, QuarantineFail(saved) PROVE Accounted'
    BY <2>2, FailurePlaces DEF QuarantineFail, Working, Places
  <2>3. QED
    BY <1>2, <2>1, <2>2, QuarantineClaimPlaces DEF Quarantine
<1>3. CASE ProcessNext
  <2>1. CASE ProcessJob \/ ProcessFails
    BY <2>1, SamePlaces DEF ProcessJob, ProcessFails
  <2>2. ASSUME NEW saved \in BOOLEAN, Milestone(saved) PROVE Accounted'
    BY <2>2, TransitionPlaces DEF Milestone, Working, Places
  <2>3. ASSUME NEW saved \in BOOLEAN, Fail(saved) PROVE Accounted'
    BY <2>3, FailurePlaces DEF Fail, Working, Places
  <2>4. QED
    BY <1>3, <2>1, <2>2, <2>3, ClaimPlaces, AckPlaces DEF ProcessNext
<1>4. CASE Retry
  BY <1>4, RetryPlaces DEF Retry
<1>5. CASE Restart
  BY <1>5, RestartPlaces
<1>6. CASE UNCHANGED vars
  BY <1>6, SamePlaces DEF vars
<1>7. QED
  BY <1>1, <1>2, <1>3, <1>4, <1>5, <1>6 DEF Next

\* Every job that was taken has a place, in memory and in the file: it waits,
\* is claimed, has an outcome, or its failure is final and its dead letter is
\* there.  A job in the state of a finished one that no list holds is not.
THEOREM EveryJobHasAPlace == Spec => []Accounted
<1>1. Init => Accounted
  BY StartsAccounted
<1>2. QueueInv /\ Accounted /\ [Next]_vars => Accounted'
  BY StepsAccount
<1>3. QED
  BY <1>1, <1>2, QueueAlways, PTL DEF Spec

-----------------------------------------------------------------------------
(* What a save that fails costs.                                            *)

\* The file is what the memory holds, and what was acknowledged is known.
FileFollows == disk = Snapshot /\ acknowledged \subseteq seen

LEMMA SavedFollows ==
  ASSUME "disk" \notin FaultKinds, FileFollows, NEW saved \in BOOLEAN, Persist(saved),
         seen \subseteq seen', acknowledged' \subseteq acknowledged \cup seen'
  PROVE  FileFollows'
BY DEF Persist, Fault, FileFollows

LEMMA QuietFollows ==
  ASSUME FileFollows, UNCHANGED <<memory, disk>>, acknowledged' \subseteq acknowledged \cup seen
  PROVE  FileFollows'
BY DEF FileFollows, memory, Snapshot

LEMMA FollowSteps ==
  ASSUME "disk" \notin FaultKinds, FileFollows, [Next]_vars
  PROVE  FileFollows'
<1>1. CASE Submit
  <2>1. CASE LandingFails
    BY <2>1 DEF LandingFails, Fault
  <2>2. ASSUME NEW j \in Jobs, Resubmit(j) PROVE FileFollows'
    BY <2>2, QuietFollows DEF Resubmit
  <2>3. ASSUME NEW j \in Jobs, NEW saved \in BOOLEAN, Enqueue(j, saved) PROVE FileFollows'
    BY <2>3, SavedFollows DEF Enqueue
  <2>4. QED
    BY <1>1, <2>1, <2>2, <2>3 DEF Submit
<1>2. CASE Quarantine
  <2>1. CASE QuarantineSkipped
    BY <2>1, QuietFollows DEF QuarantineSkipped, outside
  <2>2. ASSUME NEW saved \in BOOLEAN, QuarantineClaim(saved) PROVE FileFollows'
    BY <2>2, SavedFollows DEF QuarantineClaim, outside
  <2>3. ASSUME NEW saved \in BOOLEAN, QuarantineFail(saved) PROVE FileFollows'
    BY <2>3, SavedFollows DEF QuarantineFail, outside
  <2>4. QED
    BY <1>2, <2>1, <2>2, <2>3 DEF Quarantine
<1>3. CASE ProcessNext
  <2>1. CASE ProcessJob \/ ProcessFails
    BY <2>1, QuietFollows DEF ProcessJob, ProcessFails, outside
  <2>2. ASSUME NEW saved \in BOOLEAN, Claim(saved) \/ Ack(saved) \/ Fail(saved) PROVE FileFollows'
    BY <2>2, SavedFollows DEF Claim, Ack, Fail, outside
  <2>3. ASSUME NEW saved \in BOOLEAN, Milestone(saved) PROVE FileFollows'
    BY <2>3, SavedFollows DEF Milestone, Transition, outside
  <2>4. QED
    BY <1>3, <2>1, <2>2, <2>3 DEF ProcessNext
<1>4. CASE Retry
  BY <1>4, SavedFollows DEF Retry, RetryDeadLetter
<1>5. CASE Restart
  BY <1>5 DEF Restart, outside, FileFollows, Snapshot
<1>6. CASE UNCHANGED vars
  BY <1>6, QuietFollows DEF vars, outside
<1>7. QED
  BY <1>1, <1>2, <1>3, <1>4, <1>5, <1>6 DEF Next

\* Where no save fails, every submission that returned to its caller survives
\* every restart: what the resubmission of a job costs, which is acknowledged
\* without a save, it costs only after a save that failed.
THEOREM AcknowledgedSurvives ==
  ASSUME "disk" \notin FaultKinds
  PROVE  Spec => []AcknowledgedIsKnown
<1>1. Init => FileFollows
  BY DEF Init, FileFollows
<1>2. FileFollows /\ [Next]_vars => FileFollows'
  BY FollowSteps
<1>3. FileFollows => AcknowledgedIsKnown
  BY DEF FileFollows, AcknowledgedIsKnown
<1>4. QED
  BY <1>1, <1>2, <1>3, PTL DEF Spec

-----------------------------------------------------------------------------
(* The worker thread takes steps of the queue, and no others.               *)

Files == {Absent} \cup [content : Contents, mark : Nat]

WorkerOK ==
  /\ tree \in [Paths -> Files] /\ writes \in Nat
  /\ \A p \in Paths : Here(p) => <<p, tree[p].content>> \in DOMAIN Reads
  /\ todo \subseteq Paths
  /\ turn \in {"read", "refuse", "submit"} => hand.path \in Paths
  /\ turn = "submit" => hand.jobs \in Seq(Jobs)
  /\ turn = "refuse" => MayBeInvalid(hand.path)

LEMMA ReadingTyped ==
  ASSUME WorkerOK, NEW p \in Paths, Here(p)
  PROVE  /\ Reading(p).jobs \in Seq(Jobs)
         /\ MayBeInvalid(p) => Reading(p).refused \in Jobs
         /\ Invalid(p) => MayBeInvalid(p)
<1> DEFINE f == <<p, tree[p].content>>
<1>1. f \in DOMAIN Reads /\ f[1] = p /\ Reading(p) = Reads[f]
  BY DEF WorkerOK, Reading
<1> HIDE DEF f
<1>2. Reads[f] \in [jobs : Seq(Jobs), end : {"taken", "invalid", "raises"}, refused : Jobs \cup {0}]
  BY <1>1, WorkerAssumption
<1>3. MayBeInvalid(p) => Reads[f].refused # 0
  BY <1>1, WorkerAssumption
<1>4. Invalid(p) => MayBeInvalid(p)
  BY <1>1 DEF Invalid, MayBeInvalid
<1>5. QED
  BY <1>1, <1>2, <1>3, <1>4

LEMMA TakeIsSubmit ==
  ASSUME NEW j \in Jobs, NEW saved \in BOOLEAN, Take(j, saved)
  PROVE  Next
BY DEF Take, Submit, Next

\* The thread moves on, between files or from one to the next call.
LEMMA TreeUnchanged ==
  ASSUME WorkerOK, UNCHANGED landing, todo' \subseteq Paths,
         turn' \in {"read", "refuse", "submit"} => hand'.path \in Paths,
         turn' = "submit" => hand'.jobs \in Seq(Jobs),
         turn' = "refuse" => MayBeInvalid(hand'.path)
  PROVE  WorkerOK'
BY DEF WorkerOK, landing, Here

LEMMA ScanSteps ==
  ASSUME WorkerOK, Scan
  PROVE  WorkerOK' /\ [Next]_vars
<1>0. todo \subseteq Paths /\ (turn \in {"read", "refuse", "submit"} => hand.path \in Paths)
  BY DEF WorkerOK
<1>1. CASE List
  <2>1. todo' \subseteq Paths /\ turn' = "look" /\ UNCHANGED <<vars, landing>>
    BY <1>1 DEF List
  <2>2. QED
    BY <2>1, TreeUnchanged
<1>2. CASE ScanEnds
  <2>1. todo' = todo /\ turn' = "work" /\ UNCHANGED <<vars, landing>>
    BY <1>2 DEF ScanEnds
  <2>2. QED
    BY <1>0, <2>1, TreeUnchanged
<1>3. CASE Vanished
  <2>1. todo' = todo /\ turn' = "dead" /\ UNCHANGED <<vars, landing>>
    BY <1>3 DEF Vanished, Die
  <2>2. QED
    BY <1>0, <2>1, TreeUnchanged
<1>4. CASE Read
  <2>1. /\ turn = "read" /\ Here(hand.path) /\ todo' = todo /\ UNCHANGED <<vars, landing>>
        /\ hand' = [hand EXCEPT !.jobs = Reading(hand.path).jobs, !.end = Reading(hand.path).end]
        /\ turn' = IF Invalid(hand.path) THEN "refuse" ELSE "submit"
    BY <1>4 DEF Read
  <2>2. hand.path \in Paths
    BY <1>0, <2>1
  <2>3. Reading(hand.path).jobs \in Seq(Jobs) /\ (Invalid(hand.path) => MayBeInvalid(hand.path))
    BY <2>1, <2>2, ReadingTyped
  <2>4. QED
    BY <1>0, <2>1, <2>2, <2>3, TreeUnchanged
<1>5. CASE SubmitFails
  <2>1. todo' = todo /\ turn' = "dead" /\ UNCHANGED landing /\ LandingFails
    BY <1>5 DEF SubmitFails, Die
  <2>2. QED
    BY <1>0, <2>1, TreeUnchanged DEF Submit, Next
<1>6. CASE SubmitEnds
  <2>1. todo' \subseteq Paths /\ turn' \in {"dead", "look"} /\ UNCHANGED <<vars, landing>>
    BY <1>0, <1>6 DEF SubmitEnds, Die, Observe
  <2>2. QED
    BY <2>1, TreeUnchanged
<1>7. CASE Refusing
  <2>1. /\ UNCHANGED landing /\ Quarantine
        /\ \/ todo' \subseteq Paths /\ turn' \in {"dead", "look"}
           \/ UNCHANGED scanning
    BY <1>0, <1>7 DEF Refusing, Quarantine, Die, Observe
  <2>2. turn = "refusing"
    BY <1>7 DEF Refusing
  <2>3. WorkerOK'
    BY <1>0, <2>1, <2>2, TreeUnchanged DEF scanning
  <2>4. QED
    BY <2>1, <2>3 DEF Next
<1>8. CASE \E p \in Paths : Skip(p) \/ Stat(p)
  <2>1. PICK p \in Paths : Skip(p) \/ Stat(p)
    BY <1>8
  <2>2. CASE Skip(p)
    <3>1. todo' \subseteq Paths /\ turn' = "look" /\ UNCHANGED <<vars, landing>>
      BY <1>0, <2>2 DEF Skip, Looks
    <3>2. QED
      BY <3>1, TreeUnchanged
  <2>3. CASE Stat(p)
    <3>1. todo' = todo /\ turn' = "read" /\ hand'.path = p /\ UNCHANGED <<vars, landing>>
      BY <2>3 DEF Stat, NoFile
    <3>2. QED
      BY <1>0, <3>1, TreeUnchanged
  <2>4. QED
    BY <2>1, <2>2, <2>3
<1>9. ASSUME NEW saved \in BOOLEAN, SubmitNext(saved) PROVE WorkerOK' /\ [Next]_vars
  <2>1. /\ turn = "submit" /\ hand.jobs # <<>> /\ Take(Head(hand.jobs), saved) /\ UNCHANGED landing
        /\ todo' = todo
        /\ \/ hand' = [hand EXCEPT !.jobs = Tail(hand.jobs)] /\ turn' = turn
           \/ turn' = "dead"
    BY <1>9 DEF SubmitNext, Die
  <2>2. hand.jobs \in Seq(Jobs) /\ hand.path \in Paths
    BY <1>0, <2>1 DEF WorkerOK
  <2>3. Head(hand.jobs) \in Jobs /\ Tail(hand.jobs) \in Seq(Jobs)
    BY <2>1, <2>2, HeadTailProperties
  <2>4. Next
    BY <2>1, <2>3, TakeIsSubmit
  <2>5. WorkerOK'
    <3>1. CASE hand' = [hand EXCEPT !.jobs = Tail(hand.jobs)] /\ turn' = turn
      <4>1. hand'.path \in Paths /\ hand'.jobs \in Seq(Jobs)
        BY <2>2, <2>3, <3>1
      <4>2. QED
        BY <1>0, <2>1, <3>1, <4>1, TreeUnchanged
    <3>2. CASE turn' = "dead"
      BY <1>0, <2>1, <3>2, TreeUnchanged
    <3>3. QED
      BY <2>1, <3>1, <3>2
  <2>6. QED
    BY <2>4, <2>5
<1>10. ASSUME NEW saved \in BOOLEAN, Refuse(saved) PROVE WorkerOK' /\ [Next]_vars
  <2>1. /\ turn = "refuse" /\ Here(hand.path) /\ Take(Reading(hand.path).refused, saved)
        /\ turn' \in {"refusing", "dead"} /\ UNCHANGED landing /\ todo' = todo
    BY <1>10 DEF Refuse
  <2>2. hand.path \in Paths /\ MayBeInvalid(hand.path)
    BY <1>0, <2>1 DEF WorkerOK
  <2>3. Reading(hand.path).refused \in Jobs
    BY <2>1, <2>2, ReadingTyped
  <2>4. Next
    BY <2>1, <2>3, TakeIsSubmit
  <2>5. WorkerOK'
    BY <1>0, <2>1, TreeUnchanged
  <2>6. QED
    BY <2>4, <2>5
<1>11. QED
  BY <1>1, <1>2, <1>3, <1>4, <1>5, <1>6, <1>7, <1>8, <1>9, <1>10 DEF Scan

LEMMA ChangeKeeps ==
  ASSUME WorkerOK, NEW p \in Paths, NEW file \in Files, Change(p, file),
         file # Absent => <<p, file.content>> \in DOMAIN Reads
  PROVE  WorkerOK' /\ UNCHANGED vars
<1>1. /\ tree' = [tree EXCEPT ![p] = file] /\ writes' = writes + 1
      /\ UNCHANGED <<vars, observed, turn, todo, hand>>
  BY DEF Change, scanning
<1>2. tree' \in [Paths -> Files] /\ writes' \in Nat
  BY <1>1 DEF WorkerOK
<1>3. \A q \in Paths : tree'[q] = IF q = p THEN file ELSE tree[q]
  BY <1>1 DEF WorkerOK
<1>4. \A q \in Paths : tree'[q] # Absent => <<q, tree'[q].content>> \in DOMAIN Reads
  BY <1>3 DEF WorkerOK, Here
<1>5. QED
  BY <1>1, <1>2, <1>4 DEF WorkerOK, Here

LEMMA SenderSteps ==
  ASSUME WorkerOK, Sender
  PROVE  WorkerOK' /\ UNCHANGED vars
<1>1. PICK p \in Paths : Discard(p) \/ \E c \in Contents : Deliver(p, c)
  BY DEF Sender
<1>2. CASE Discard(p)
  BY <1>2, ChangeKeeps DEF Discard, Files
<1>3. ASSUME NEW c \in Contents, Deliver(p, c) PROVE WorkerOK' /\ UNCHANGED vars
  <2> DEFINE file == [content |-> c, mark |-> writes + 1]
  <2>1. file \in Files /\ file.content = c
    BY DEF Files, WorkerOK
  <2>2. <<p, c>> \in DOMAIN Reads /\ Change(p, file)
    BY <1>3 DEF Deliver
  <2> HIDE DEF file
  <2>3. QED
    BY <2>1, <2>2, ChangeKeeps
<1>4. QED
  BY <1>1, <1>2, <1>3

LEMMA ServiceSteps ==
  ASSUME WorkerOK, [ServiceNext]_workerVars
  PROVE  WorkerOK' /\ [Next]_vars
<1>0. todo \subseteq Paths /\ (turn \in {"read", "refuse", "submit"} => hand.path \in Paths)
  BY DEF WorkerOK
<1>1. CASE Scan
  BY <1>1, ScanSteps
<1>2. CASE Work
  <2>1. turn = "work" /\ UNCHANGED landing
    BY <1>2 DEF Work
  <2>2. turn' \in {"list", "work", "dead"} /\ todo' = todo
    BY <1>2 DEF Work, NextPass, Die, scanning
  <2>3. WorkerOK'
    BY <1>0, <2>1, <2>2, TreeUnchanged
  <2>4. ProcessNext \/ UNCHANGED vars
    BY <1>2 DEF Work, ProcessNext
  <2>5. QED
    BY <2>3, <2>4 DEF Next
<1>3. CASE Sender
  BY <1>3, SenderSteps
<1>4. CASE Operator
  <2>1. Retry /\ UNCHANGED <<landing, observed, turn, todo, hand>>
    BY <1>4 DEF Operator, scanning
  <2>2. WorkerOK'
    BY <2>1 DEF WorkerOK, Here, landing
  <2>3. QED
    BY <2>1, <2>2 DEF Next
<1>5. CASE StartAgain
  <2>1. Restart /\ UNCHANGED landing /\ turn' = "list" /\ todo' = {}
    BY <1>5 DEF StartAgain
  <2>2. WorkerOK'
    BY <2>1, TreeUnchanged
  <2>3. QED
    BY <2>1, <2>2 DEF Next
<1>6. CASE UNCHANGED workerVars
  BY <1>6 DEF workerVars, landing, scanning, WorkerOK, Here
<1>7. QED
  BY <1>1, <1>2, <1>3, <1>4, <1>5, <1>6 DEF ServiceNext

\* The service is one of the queue's callers: whatever the watcher finds and
\* whatever ends the thread, the queue sees its own operations only, so that
\* what is proved of the queue holds while the service runs.
THEOREM ServiceUsesQueue == ServiceSpec => Spec
<1>1. ServiceInit => Init /\ WorkerOK
  <2>1. SUFFICES ASSUME ServiceInit PROVE WorkerOK
    BY DEF ServiceInit
  <2>2. /\ tree = [p \in Paths |-> Absent] /\ writes = 0
        /\ turn = "list" /\ todo = {}
    BY <2>1 DEF ServiceInit
  <2>3. tree \in [Paths -> Files] /\ \A p \in Paths : ~Here(p)
    BY <2>2 DEF Files, Here
  <2>4. QED
    BY <2>2, <2>3 DEF WorkerOK
<1>2. WorkerOK /\ [ServiceNext]_workerVars => WorkerOK' /\ [Next]_vars
  BY ServiceSteps
<1>3. QED
  BY <1>1, <1>2, PTL DEF ServiceSpec, Spec

-----------------------------------------------------------------------------
(* A file that the watcher remembers was taken, and a thread that finds     *)
(* nothing more to do has settled everything.                               *)

Turns == {"list", "look", "read", "submit", "refuse", "refusing", "work", "dead"}

\* Which calls of the queue the thread may be in the middle of.
TurnOK ==
  /\ turn \in Turns
  /\ turn \in {"list", "look", "read", "submit", "refuse"} => at = "idle"
  /\ turn = "refusing" => at \in {"discovered", "refusing"}
  /\ turn = "work" => at \notin {"discovered", "refusing"}

\* While the thread lives, no job is claimed but the one it works on.
HandsOn ==
  turn # "dead" => \A j \in Jobs : inProgress[j] > 0 => at \in Working /\ job.id = j

LEMMA TakeEffect ==
  ASSUME NEW j \in Jobs, NEW saved \in BOOLEAN, Take(j, saved)
  PROVE  /\ at = "idle" /\ inProgress' = inProgress /\ seen' = seen \cup {j}
         /\ at' = IF saved /\ j \in Malformed THEN "discovered" ELSE "idle"
<1>1. CASE j \in seen
  BY <1>1 DEF Take, Resubmit, Goto, thread, memory
<1>2. CASE j \notin seen
  BY <1>2 DEF Take, Enqueue, Goto, thread
<1>3. QED
  BY <1>1, <1>2

LEMMA NoneClaimed ==
  ASSUME QueueInv, HandsOn, turn # "dead", at \in {"idle", "discovered"}
  PROVE  \A j \in Jobs : inProgress[j] = 0
<1>1. \A j \in Jobs : inProgress[j] \in Nat
  BY DEF QueueInv, MemoryOK
<1>2. at \notin Working
  BY DEF Working
<1>3. QED
  BY <1>1, <1>2 DEF HandsOn

\* A call that ends where nothing was claimed before, or the last claim ends.
LEMMA OneClaimed ==
  ASSUME QueueInv, HandsOn, turn # "dead", NEW j \in Jobs, NEW n,
         at \in {"idle", "discovered"} \/ job.id = j,
         inProgress' = [inProgress EXCEPT ![j] = n],
         n = 0 \/ (at' \in Working /\ job'.id = j)
  PROVE  HandsOn'
<1>1. inProgress \in [Jobs -> Nat]
  BY DEF QueueInv, MemoryOK
<1>2. \A k \in Jobs \ {j} : inProgress[k] = 0
  <2>1. CASE at \in {"idle", "discovered"}
    BY <2>1, NoneClaimed
  <2>2. CASE job.id = j
    BY <1>1, <2>2 DEF HandsOn
  <2>3. QED
    BY <2>1, <2>2
<1>3. \A k \in Jobs \ {j} : inProgress'[k] = 0
  BY <1>1, <1>2
<1>4. inProgress'[j] = n
  BY <1>1
<1>5. QED
  BY <1>3, <1>4 DEF HandsOn

LEMMA WorkHands ==
  ASSUME QueueInv, TurnOK, HandsOn, Work
  PROVE  TurnOK' /\ HandsOn' /\ seen' = seen
<1>0. turn = "work" /\ at \notin {"discovered", "refusing"}
  BY DEF Work, TurnOK
<1>1. CASE at = "idle" /\ NextPass /\ UNCHANGED vars
  BY <1>1, <1>0, NoneClaimed DEF NextPass, vars, memory, thread, TurnOK, Turns, HandsOn
<1>2. CASE ProcessJob /\ UNCHANGED scanning
  BY <1>0, <1>2 DEF ProcessJob, Goto, scanning, memory, TurnOK, HandsOn, Working, Places
<1>3. CASE ProcessFails /\ UNCHANGED scanning
  BY <1>0, <1>3 DEF ProcessFails, Goto, scanning, memory, TurnOK, HandsOn, Working, Places
<1>4. CASE Claim(TRUE) /\ UNCHANGED scanning
  <2> DEFINE e == JobOf(Head(pending).id, Head(pending).attempts + 1)
  <2>1. /\ at = "idle" /\ pending # <<>> /\ inProgress' = [inProgress EXCEPT ![e.id] = e.attempts]
        /\ at' = "claimed" /\ job' = e /\ seen' = seen /\ turn' = turn
    BY <1>4 DEF Claim, Goto, scanning
  <2>2. e.id = Head(pending).id
    BY DEF JobOf
  <2>3. Head(pending) \in Entry
    BY <2>1, InTail DEF QueueInv, MemoryOK
  <2>4. PICK j \in Jobs : j = e.id
    BY <2>2, <2>3 DEF Entry
  <2> HIDE DEF e
  <2>5. at' \in Working
    BY <2>1 DEF Working, Places
  <2>6. HandsOn'
    BY <1>0, <2>1, <2>4, <2>5, OneClaimed
  <2>7. TurnOK'
    BY <1>0, <2>1 DEF TurnOK
  <2>8. QED
    BY <2>1, <2>6, <2>7
<1>5. ASSUME NEW saved \in BOOLEAN, Milestone(saved), UNCHANGED scanning
      PROVE  TurnOK' /\ HandsOn' /\ seen' = seen
  <2>1. /\ at \in Working /\ at' \in Working \ {"refusing"}
        /\ job' = job /\ inProgress' = inProgress /\ seen' = seen /\ turn' = turn
    BY <1>5 DEF Milestone, Transition, Goto, scanning, Working, Places
  <2>2. QED
    BY <1>0, <2>1 DEF TurnOK, HandsOn, Working
<1>6. ASSUME NEW saved \in BOOLEAN, Ack(saved), UNCHANGED scanning
      PROVE  TurnOK' /\ HandsOn' /\ seen' = seen
  <2>1. /\ at = "indexed" /\ inProgress' = [inProgress EXCEPT ![job.id] = 0]
        /\ at' \in {"idle", "failing"} /\ seen' = seen /\ turn' = turn
    BY <1>6 DEF Ack, Return, Goto, scanning
  <2>2. PICK j \in Jobs : j = job.id
    BY <2>1, AtWork DEF Working, Places
  <2>3. HandsOn'
    BY <1>0, <2>1, <2>2, OneClaimed
  <2>4. QED
    BY <1>0, <2>1, <2>3 DEF TurnOK
<1>7. CASE Fail(TRUE) /\ NextPass
  <2>1. /\ at = "failing" /\ inProgress' = [inProgress EXCEPT ![job.id] = 0]
        /\ at' = "idle" /\ seen' = seen /\ turn' = "list"
    BY <1>7 DEF Fail, RecordFailure, Return, Goto, NextPass
  <2>2. PICK j \in Jobs : j = job.id
    BY <2>1, AtWork DEF Working, Places
  <2>3. HandsOn'
    BY <1>0, <2>1, <2>2, OneClaimed
  <2>4. QED
    BY <2>1, <2>3 DEF TurnOK, Turns
<1>8. CASE (Claim(FALSE) \/ Fail(FALSE)) /\ Die
  BY <1>8 DEF Claim, Fail, Die, TurnOK, Turns, HandsOn
<1>9. QED
  BY <1>1, <1>2, <1>3, <1>4, <1>5, <1>6, <1>7, <1>8 DEF Work

LEMMA RefusingHands ==
  ASSUME QueueInv, TurnOK, HandsOn, Refusing
  PROVE  TurnOK' /\ HandsOn' /\ seen' = seen
<1>0. turn = "refusing" /\ at \in {"discovered", "refusing"}
  BY DEF Refusing, TurnOK
<1>1. CASE QuarantineSkipped /\ Observe
  <2>1. /\ at = "discovered" /\ at' = "idle" /\ turn' = "look"
        /\ inProgress' = inProgress /\ seen' = seen
    BY <1>1 DEF QuarantineSkipped, Return, Goto, Observe, memory
  <2>2. QED
    BY <1>0, <2>1, NoneClaimed DEF TurnOK, Turns, HandsOn
<1>2. CASE QuarantineClaim(TRUE) /\ UNCHANGED scanning
  <2> DEFINE n == FirstOf(pending, job.id).attempts + 1
  <2>1. /\ at = "discovered" /\ at' = "refusing" /\ job' = JobOf(job.id, n)
        /\ inProgress' = [inProgress EXCEPT ![job.id] = n]
        /\ seen' = seen /\ turn' = turn
    BY <1>2 DEF QuarantineClaim, Goto, scanning
  <2>2. job'.id = job.id
    BY <2>1 DEF JobOf
  <2> HIDE DEF n
  <2>3. PICK j \in Jobs : j = job.id
    BY <2>1 DEF QueueInv, ThreadOK, Entry
  <2>4. at' \in Working
    BY <2>1 DEF Working, Places
  <2>5. HandsOn'
    BY <1>0, <2>1, <2>2, <2>3, <2>4, OneClaimed
  <2>6. QED
    BY <1>0, <2>1, <2>5 DEF TurnOK
<1>3. CASE QuarantineFail(TRUE) /\ Observe
  <2>1. /\ at = "refusing" /\ inProgress' = [inProgress EXCEPT ![job.id] = 0]
        /\ at' = "idle" /\ seen' = seen /\ turn' = "look"
    BY <1>3 DEF QuarantineFail, RecordFailure, Return, Goto, Observe
  <2>2. PICK j \in Jobs : j = job.id
    BY <2>1, AtWork DEF Working, Places
  <2>3. HandsOn'
    BY <1>0, <2>1, <2>2, OneClaimed
  <2>4. QED
    BY <2>1, <2>3 DEF TurnOK, Turns
<1>4. CASE (QuarantineClaim(FALSE) \/ QuarantineFail(FALSE)) /\ Die
  BY <1>4 DEF QuarantineClaim, QuarantineFail, Die, TurnOK, Turns, HandsOn
<1>5. QED
  BY <1>1, <1>2, <1>3, <1>4 DEF Refusing

\* The marks of the tree are fresh, and none is known before it was given.
MarksOK ==
  /\ \A p \in Paths : Here(p) => tree[p].mark \in 1..writes
  /\ observed \in [Paths -> 0..writes]
  /\ hand \in [path : Paths \cup {0}, mark : 0..writes, jobs : Seq(Jobs),
               end : {"taken", "invalid", "raises"}]

\* All that lies at a path was submitted, or refused.
Taken(p) ==
  /\ JobsOf(Reading(p)) \subseteq seen
  /\ Invalid(p) => Reading(p).refused \in seen
  /\ Reading(p).end # "raises"

\* The file in hand, as long as it is the one that was looked at.
InHand(p) ==
  /\ turn = "submit" => /\ ~Invalid(p) /\ hand.end = Reading(p).end
                        /\ JobsOf(Reading(p)) \subseteq seen \cup JobsOf(hand)
  /\ turn = "refuse" => Invalid(p)
  /\ turn = "refusing" => Invalid(p) /\ Reading(p).refused \in seen

HandOK ==
  /\ turn \in {"read", "submit", "refuse", "refusing"} => hand.path \in Paths
  /\ turn = "submit" => JobsOf(hand) \cap Malformed = {}
  /\ \A p \in Paths : (p = hand.path /\ Here(p) /\ tree[p].mark = hand.mark) => InHand(p)

\* What the watcher remembers at the mark it has now was taken.
WatchOK == \A p \in Paths : (Here(p) /\ observed[p] = tree[p].mark) => Taken(p)

TreeOK == MarksOK /\ HandOK /\ WatchOK

LEMMA ReadingMeans ==
  ASSUME WorkerOK, NEW p \in Paths, Here(p)
  PROVE  /\ Reading(p).jobs \in Seq(Jobs) /\ Reading(p).end \in {"taken", "invalid", "raises"}
         /\ JobsOf(Reading(p)) \cap Malformed = {}
         /\ Invalid(p) => JobsOf(Reading(p)) = {}
         /\ MayBeInvalid(p) => Reading(p).refused \in Malformed
<1> DEFINE f == <<p, tree[p].content>>
<1>1. f \in DOMAIN Reads /\ f[1] = p /\ Reading(p) = Reads[f]
  BY DEF WorkerOK, Reading
<1> HIDE DEF f
<1>2. /\ Reads[f] \in [jobs : Seq(Jobs), end : {"taken", "invalid", "raises"}, refused : Jobs \cup {0}]
      /\ JobsOf(Reads[f]) \cap Malformed = {}
      /\ Reads[f].refused \in Malformed \cup {0}
      /\ Reads[f].end = "invalid" => Reads[f].jobs = <<>>
      /\ MayBeInvalid(p) => Reads[f].refused # 0
  BY <1>1, WorkerAssumption
<1>3. Reads[f].jobs = <<>> => JobsOf(Reads[f]) = {}
  BY DEF JobsOf
<1>4. QED
  BY <1>1, <1>2, <1>3 DEF Invalid

\* A step that leaves the tree and what the watcher remembers alone.
LEMMA TreeStays ==
  ASSUME TreeOK, UNCHANGED <<tree, writes, observed>>, seen \subseteq seen',
         hand' \in [path : Paths \cup {0}, mark : 0..writes, jobs : Seq(Jobs),
                    end : {"taken", "invalid", "raises"}],
         HandOK'
  PROVE  TreeOK'
<1>1. MarksOK'
  BY DEF TreeOK, MarksOK, Here
<1>2. WatchOK'
  <2>1. ASSUME NEW p \in Paths, Here(p)', observed'[p] = tree'[p].mark PROVE Taken(p)'
    <3>1. Taken(p)
      BY <2>1 DEF TreeOK, WatchOK, Here
    <3>2. QED
      BY <3>1 DEF Taken, Invalid, Reading
  <2>2. QED
    BY <2>1 DEF WatchOK
<1>3. QED
  BY <1>1, <1>2 DEF TreeOK

\* The thread leaves the file in hand.
LEMMA HandEmpty ==
  ASSUME turn' \in {"list", "look", "work", "dead"}
  PROVE  HandOK'
BY DEF HandOK, InHand

\* What is remembered of the file in hand may be remembered.
LEMMA ObserveStep ==
  ASSUME WorkerOK, TreeOK, Observe, UNCHANGED landing, seen' = seen, hand.path \in Paths,
         \A p \in Paths : (p = hand.path /\ Here(p) /\ tree[p].mark = hand.mark) => Taken(p)
  PROVE  TreeOK'
<1>1. /\ observed' = [observed EXCEPT ![hand.path] = hand.mark]
      /\ turn' = "look" /\ hand' = NoFile /\ tree' = tree /\ writes' = writes
  BY DEF Observe, landing
<1>2. hand.mark \in 0..writes /\ observed \in [Paths -> 0..writes]
  BY DEF TreeOK, MarksOK
<1>3. MarksOK'
  <2>1. observed' \in [Paths -> 0..writes]
    BY <1>1, <1>2
  <2>2. 0 \in 0..writes
    BY DEF WorkerOK
  <2>3. <<>> \in Seq(Jobs)
    BY EmptySeq
  <2>4. NoFile \in [path : Paths \cup {0}, mark : 0..writes, jobs : Seq(Jobs),
                    end : {"taken", "invalid", "raises"}]
    BY <2>2, <2>3 DEF NoFile
  <2>5. QED
    BY <1>1, <2>1, <2>4 DEF TreeOK, MarksOK, Here
<1>4. HandOK'
  BY <1>1, HandEmpty
<1>5. WatchOK'
  <2>1. ASSUME NEW p \in Paths, Here(p)', observed'[p] = tree'[p].mark PROVE Taken(p)'
    <3>1. Here(p) /\ ((p = hand.path /\ tree[p].mark = hand.mark) \/ observed[p] = tree[p].mark)
      BY <1>1, <1>2, <2>1 DEF Here
    <3>2. Taken(p)
      BY <3>1 DEF TreeOK, WatchOK
    <3>3. QED
      BY <1>1, <3>2 DEF Taken, Invalid, Reading
  <2>2. QED
    BY <2>1 DEF WatchOK
<1>6. QED
  BY <1>3, <1>4, <1>5 DEF TreeOK

LEMMA ReadTree ==
  ASSUME WorkerOK, TreeOK, Read
  PROVE  TreeOK'
<1>1. /\ turn = "read" /\ Here(hand.path) /\ UNCHANGED <<tree, writes, observed, seen>>
      /\ hand' = [hand EXCEPT !.jobs = Reading(hand.path).jobs, !.end = Reading(hand.path).end]
      /\ turn' = IF Invalid(hand.path) THEN "refuse" ELSE "submit"
  BY DEF Read, landing, vars, memory
<1>2. PICK p \in Paths : p = hand.path
  BY <1>1 DEF TreeOK, HandOK
<1>3. /\ Reading(p).jobs \in Seq(Jobs) /\ Reading(p).end \in {"taken", "invalid", "raises"}
      /\ JobsOf(Reading(p)) \cap Malformed = {}
  BY <1>1, <1>2, ReadingMeans
<1>4. /\ hand' \in [path : Paths \cup {0}, mark : 0..writes, jobs : Seq(Jobs),
                    end : {"taken", "invalid", "raises"}]
      /\ hand'.path = p /\ hand'.mark = hand.mark
      /\ hand'.jobs = Reading(p).jobs /\ hand'.end = Reading(p).end
  BY <1>1, <1>2, <1>3 DEF TreeOK, MarksOK
<1>5. JobsOf(hand') = JobsOf(Reading(p))
  BY <1>4 DEF JobsOf
<1>6. InHand(p)'
  <2>1. Invalid(p)' <=> Invalid(p)
    BY <1>1 DEF Invalid, Reading
  <2>2. Reading(p)' = Reading(p)
    BY <1>1 DEF Reading
  <2>3. turn' = IF Invalid(p) THEN "refuse" ELSE "submit"
    BY <1>1, <1>2
  <2>4. JobsOf(Reading(p))' = JobsOf(Reading(p))
    BY <2>2 DEF JobsOf
  <2>5. CASE Invalid(p)
    BY <2>1, <2>3, <2>5 DEF InHand
  <2>6. CASE ~Invalid(p)
    <3>1. turn' = "submit"
      BY <2>3, <2>6
    <3>2. JobsOf(Reading(p))' \subseteq seen' \cup JobsOf(hand)'
      BY <1>5, <2>4
    <3>3. QED
      BY <1>4, <2>1, <2>2, <2>6, <3>1, <3>2 DEF InHand
  <2>7. QED
    BY <2>5, <2>6
<1>7. HandOK'
  <2>1. JobsOf(hand)' \cap Malformed = {}
    BY <1>3, <1>5
  <2>2. QED
    BY <1>4, <1>6, <2>1 DEF HandOK
<1>8. QED
  BY <1>1, <1>4, <1>7, TreeStays

LEMMA SubmitTree ==
  ASSUME WorkerOK, TreeOK, NEW saved \in BOOLEAN, SubmitNext(saved)
  PROVE  TreeOK' /\ at = "idle" /\ inProgress' = inProgress /\ at' = "idle" /\ turn' \in {"submit", "dead"}
<1>1. /\ turn = "submit" /\ hand.jobs # <<>> /\ Take(Head(hand.jobs), saved)
      /\ UNCHANGED <<tree, writes, observed>>
      /\ \/ saved = TRUE /\ hand' = [hand EXCEPT !.jobs = Tail(hand.jobs)] /\ turn' = turn
         \/ hand' = hand /\ turn' = "dead"
  BY DEF SubmitNext, Die, landing
<1>2. hand.jobs \in Seq(Jobs) /\ hand.path \in Paths
  BY <1>1 DEF TreeOK, MarksOK, HandOK
<1> DEFINE h == Head(hand.jobs)
           rest == Tail(hand.jobs)
           first == hand.jobs
<1>3. h \in Jobs /\ rest \in Seq(Jobs) /\ In(first) = In(rest) \cup {h}
  <2>1. first \in Seq(Jobs) /\ first # <<>>
    BY <1>1, <1>2
  <2>2. Head(first) \in Jobs /\ Tail(first) \in Seq(Jobs) /\ In(first) = In(Tail(first)) \cup {Head(first)}
    <3> HIDE DEF first
    <3>1. QED
      BY <2>1, InTail
  <2>3. QED
    BY <2>2
<1>4. JobsOf(hand) = In(first)
  BY DEF JobsOf, In
<1>5. h \notin Malformed
  BY <1>1, <1>3, <1>4 DEF TreeOK, HandOK
<1>6. Take(h, saved)
  BY <1>1
<1> HIDE DEF h, rest, first
<1>7. /\ at = "idle" /\ inProgress' = inProgress /\ seen' = seen \cup {h}
      /\ at' = "idle"
  BY <1>3, <1>5, <1>6, TakeEffect
<1>8. CASE saved = TRUE /\ hand' = [hand EXCEPT !.jobs = rest] /\ turn' = turn
  <2>1. /\ hand' \in [path : Paths \cup {0}, mark : 0..writes, jobs : Seq(Jobs),
                      end : {"taken", "invalid", "raises"}]
        /\ hand'.path = hand.path /\ hand'.mark = hand.mark
        /\ hand'.jobs = rest /\ hand'.end = hand.end
    BY <1>3, <1>8 DEF TreeOK, MarksOK
  <2>2. JobsOf(hand)' = In(rest)
    BY <2>1 DEF JobsOf, In
  <2>3. ASSUME NEW p \in Paths, p = hand.path, Here(p), tree[p].mark = hand.mark PROVE InHand(p)'
    <3>1. /\ ~Invalid(p) /\ hand.end = Reading(p).end
          /\ JobsOf(Reading(p)) \subseteq seen \cup JobsOf(hand)
      BY <1>1, <2>3 DEF TreeOK, HandOK, InHand
    <3>2. Reading(p)' = Reading(p) /\ (Invalid(p)' <=> Invalid(p))
      BY <1>1 DEF Reading, Invalid
    <3>3. JobsOf(Reading(p))' = JobsOf(Reading(p))
      BY <3>2 DEF JobsOf
    <3>4. JobsOf(Reading(p))' \subseteq seen' \cup JobsOf(hand)'
      BY <1>3, <1>4, <1>7, <2>2, <3>1, <3>3
    <3>5. turn' = "submit" /\ hand'.end = Reading(p)'.end
      BY <1>1, <1>8, <2>1, <3>1, <3>2
    <3>6. QED
      BY <3>1, <3>2, <3>4, <3>5 DEF InHand
  <2>4. HandOK'
    <3>1. turn' = "submit" /\ hand'.path \in Paths
      BY <1>1, <1>2, <1>8, <2>1
    <3>2. JobsOf(hand)' \cap Malformed = {}
      BY <1>1, <1>3, <1>4, <2>2 DEF TreeOK, HandOK
    <3>3. \A p \in Paths : (p = hand' .path /\ Here(p)' /\ tree'[p].mark = hand'.mark) => InHand(p)'
      BY <1>1, <2>1, <2>3 DEF Here
    <3>4. QED
      BY <3>1, <3>2, <3>3 DEF HandOK
  <2>5. TreeOK'
    BY <1>1, <1>7, <2>1, <2>4, TreeStays
  <2>6. QED
    BY <1>1, <1>7, <1>8, <2>5
<1>9. CASE hand' = hand /\ turn' = "dead"
  <2>1. HandOK'
    BY <1>9, HandEmpty
  <2>2. TreeOK'
    BY <1>1, <1>7, <1>9, <2>1, TreeStays DEF TreeOK, MarksOK
  <2>3. QED
    BY <1>7, <1>9, <2>2
<1>10. QED
  BY <1>1, <1>8, <1>9 DEF rest

LEMMA RefuseTree ==
  ASSUME WorkerOK, TreeOK, NEW saved \in BOOLEAN, Refuse(saved)
  PROVE  /\ TreeOK' /\ at = "idle" /\ inProgress' = inProgress
         /\ \/ turn' = "refusing" /\ at' = "discovered"
            \/ turn' = "dead"
<1>1. /\ turn = "refuse" /\ Here(hand.path) /\ Take(Reading(hand.path).refused, saved)
      /\ turn' = IF saved THEN "refusing" ELSE "dead"
      /\ UNCHANGED <<tree, writes, observed, hand>>
  BY DEF Refuse, landing
<1>2. PICK p \in Paths : p = hand.path
  BY <1>1 DEF TreeOK, HandOK
<1>3. MayBeInvalid(p)
  BY <1>1, <1>2 DEF WorkerOK
<1>4. Reading(p).refused \in Malformed /\ Reading(p).refused \in Jobs
  BY <1>1, <1>2, <1>3, ReadingMeans, QueueAssumption
<1>5. PICK j \in Jobs : j = Reading(p).refused
  BY <1>4
<1>6. Take(j, saved) /\ j \in Malformed
  BY <1>1, <1>2, <1>4, <1>5
<1>7. /\ at = "idle" /\ inProgress' = inProgress /\ seen' = seen \cup {j}
      /\ at' = IF saved THEN "discovered" ELSE "idle"
  BY <1>6, TakeEffect
<1>8. HandOK'
  <2>1. CASE saved = TRUE
    <3>1. turn' = "refusing" /\ hand' = hand /\ tree' = tree
      BY <1>1, <2>1
    <3>2. ASSUME tree[p].mark = hand.mark PROVE InHand(p)'
      <4>1. Invalid(p)
        BY <1>1, <1>2, <3>2 DEF TreeOK, HandOK, InHand
      <4>2. Reading(p)' = Reading(p) /\ Invalid(p)'
        BY <3>1, <4>1 DEF Reading, Invalid
      <4>3. Reading(p)'.refused \in seen'
        BY <1>5, <1>7, <4>2
      <4>4. QED
        BY <3>1, <4>2, <4>3 DEF InHand
    <3>3. QED
      BY <1>2, <3>1, <3>2 DEF HandOK
  <2>2. CASE saved = FALSE
    BY <1>1, <2>2, HandEmpty
  <2>3. QED
    BY <2>1, <2>2
<1>9. TreeOK'
  BY <1>1, <1>7, <1>8, TreeStays DEF TreeOK, MarksOK
<1>10. QED
  BY <1>1, <1>7, <1>9

LEMMA RefusingTree ==
  ASSUME WorkerOK, TreeOK, Refusing, seen' = seen
  PROVE  TreeOK'
<1>1. turn = "refusing" /\ UNCHANGED landing /\ hand.path \in Paths
  BY DEF Refusing, TreeOK, HandOK
<1>2. CASE Observe
  <2>1. ASSUME NEW p \in Paths, p = hand.path, Here(p), tree[p].mark = hand.mark PROVE Taken(p)
    <3>1. Invalid(p) /\ Reading(p).refused \in seen
      BY <1>1, <2>1 DEF TreeOK, HandOK, InHand
    <3>2. JobsOf(Reading(p)) = {}
      BY <2>1, <3>1, ReadingMeans
    <3>3. QED
      BY <3>1, <3>2 DEF Taken, Invalid
  <2>2. QED
    BY <1>1, <1>2, <2>1, ObserveStep
<1>3. CASE UNCHANGED scanning
  <2>1. UNCHANGED <<tree, writes, observed, turn, hand>>
    BY <1>1, <1>3 DEF scanning, landing
  <2>2. HandOK'
    BY <2>1 DEF TreeOK, HandOK, InHand, Here, Invalid, Reading, JobsOf
  <2>3. QED
    BY <2>1, <2>2, TreeStays DEF TreeOK, MarksOK
<1>4. CASE Die
  <2>1. UNCHANGED <<tree, writes, observed, hand>> /\ turn' = "dead"
    BY <1>1, <1>4 DEF Die, landing
  <2>2. QED
    BY <2>1, HandEmpty, TreeStays DEF TreeOK, MarksOK
<1>5. QED
  BY <1>2, <1>3, <1>4 DEF Refusing

LEMMA SubmitEndsTree ==
  ASSUME WorkerOK, TreeOK, SubmitEnds
  PROVE  TreeOK'
<1>1. /\ turn = "submit" /\ hand.jobs = <<>> /\ UNCHANGED landing /\ seen' = seen /\ hand.path \in Paths
  BY DEF SubmitEnds, vars, memory, TreeOK, HandOK
<1>2. CASE ~Unparsable(hand) /\ Observe
  <2>1. ASSUME NEW p \in Paths, p = hand.path, Here(p), tree[p].mark = hand.mark PROVE Taken(p)
    <3>1. /\ ~Invalid(p) /\ hand.end = Reading(p).end
          /\ JobsOf(Reading(p)) \subseteq seen \cup JobsOf(hand)
      BY <1>1, <2>1 DEF TreeOK, HandOK, InHand
    <3>2. JobsOf(hand) = {}
      BY <1>1 DEF JobsOf
    <3>3. QED
      BY <1>2, <3>1, <3>2 DEF Taken, Unparsable
  <2>2. QED
    BY <1>1, <1>2, <2>1, ObserveStep
<1>3. CASE Die
  <2>1. UNCHANGED <<tree, writes, observed, hand>> /\ turn' = "dead"
    BY <1>1, <1>3 DEF Die, landing
  <2>2. QED
    BY <1>1, <2>1, HandEmpty, TreeStays DEF TreeOK, MarksOK
<1>4. QED
  BY <1>2, <1>3 DEF SubmitEnds

LEMMA StatTree ==
  ASSUME WorkerOK, TreeOK, NEW p \in Paths, Stat(p)
  PROVE  TreeOK'
<1>1. /\ Here(p) /\ hand' = [NoFile EXCEPT !.path = p, !.mark = tree[p].mark]
      /\ turn' = "read" /\ UNCHANGED <<tree, writes, observed, seen>>
  BY DEF Stat, landing, vars, memory
<1>2. tree[p].mark \in 1..writes /\ writes \in Nat
  BY <1>1 DEF WorkerOK, TreeOK, MarksOK
<1>3. tree[p].mark \in 0..writes
  BY <1>2
<1>4. hand' = [path |-> p, mark |-> tree[p].mark, jobs |-> <<>>, end |-> "taken"]
  BY <1>1 DEF NoFile
<1>5. <<>> \in Seq(Jobs)
  BY EmptySeq
<1>6. hand' \in [path : Paths \cup {0}, mark : 0..writes, jobs : Seq(Jobs),
                 end : {"taken", "invalid", "raises"}]
  BY <1>3, <1>4, <1>5
<1>7. HandOK'
  BY <1>1, <1>4 DEF HandOK, InHand
<1>8. QED
  BY <1>1, <1>6, <1>7, TreeStays

ServiceInv == QueueInv /\ WorkerOK /\ Accounted /\ TurnOK /\ HandsOn /\ TreeOK

\* A step of the scan, or of the work, that the other lemmas do not name.
LEMMA ScanKeeps ==
  ASSUME ServiceInv, Scan
  PROVE  TurnOK' /\ HandsOn' /\ TreeOK'
<1>0. QueueInv /\ WorkerOK /\ TurnOK /\ HandsOn /\ TreeOK
  BY DEF ServiceInv
<1>1. CASE List \/ ScanEnds \/ Vanished \/ \E p \in Paths : Skip(p)
  <2>1. /\ turn' \in {"list", "look", "work", "dead"} /\ turn \in {"list", "look", "read", "refuse"}
        /\ UNCHANGED <<tree, writes, observed, hand, seen, inProgress, at, job>>
    BY <1>1 DEF List, ScanEnds, Vanished, Skip, Looks, Die, landing, vars, memory, thread
  <2>2. TreeOK'
    BY <1>0, <2>1, HandEmpty, TreeStays DEF TreeOK, MarksOK
  <2>3. QED
    BY <1>0, <2>1, <2>2 DEF TurnOK, Turns, HandsOn
<1>2. CASE Read
  <2>1. turn = "read" /\ turn' \in {"refuse", "submit"} /\ UNCHANGED <<inProgress, at, job>>
    BY <1>2 DEF Read, vars, memory, thread
  <2>2. QED
    BY <1>0, <1>2, <2>1, ReadTree DEF TurnOK, Turns, HandsOn
<1>3. CASE SubmitFails
  <2>1. UNCHANGED <<tree, writes, observed, hand, seen, inProgress>> /\ turn' = "dead"
    BY <1>3 DEF SubmitFails, LandingFails, Die, landing, memory
  <2>2. TreeOK'
    BY <1>0, <2>1, HandEmpty, TreeStays DEF TreeOK, MarksOK
  <2>3. QED
    BY <2>1, <2>2 DEF TurnOK, Turns, HandsOn
<1>4. CASE SubmitEnds
  <2>1. turn = "submit" /\ turn' \in {"look", "dead"} /\ UNCHANGED <<inProgress, at, job>>
    BY <1>4 DEF SubmitEnds, Observe, Die, vars, memory, thread
  <2>2. QED
    BY <1>0, <1>4, <2>1, SubmitEndsTree DEF TurnOK, Turns, HandsOn
<1>5. CASE Refusing
  BY <1>0, <1>5, RefusingHands, RefusingTree
<1>6. ASSUME NEW p \in Paths, Stat(p) PROVE TurnOK' /\ HandsOn' /\ TreeOK'
  <2>1. turn = "look" /\ turn' = "read" /\ UNCHANGED <<inProgress, at, job>>
    BY <1>6 DEF Stat, Looks, vars, memory, thread
  <2>2. QED
    BY <1>0, <1>6, <2>1, StatTree DEF TurnOK, Turns, HandsOn
<1>7. ASSUME NEW saved \in BOOLEAN, SubmitNext(saved) PROVE TurnOK' /\ HandsOn' /\ TreeOK'
  <2>1. TreeOK' /\ at = "idle" /\ inProgress' = inProgress /\ at' = "idle" /\ turn' \in {"submit", "dead"}
    BY <1>0, <1>7, SubmitTree
  <2>2. turn = "submit"
    BY <1>7 DEF SubmitNext
  <2>3. \A j \in Jobs : inProgress[j] = 0
    BY <1>0, <2>1, <2>2, NoneClaimed
  <2>4. QED
    BY <2>1, <2>3 DEF TurnOK, Turns, HandsOn
<1>8. ASSUME NEW saved \in BOOLEAN, Refuse(saved) PROVE TurnOK' /\ HandsOn' /\ TreeOK'
  <2>1. /\ TreeOK' /\ at = "idle" /\ inProgress' = inProgress
        /\ \/ turn' = "refusing" /\ at' = "discovered"
           \/ turn' = "dead"
    BY <1>0, <1>8, RefuseTree
  <2>2. turn = "refuse"
    BY <1>8 DEF Refuse
  <2>3. \A j \in Jobs : inProgress[j] = 0
    BY <1>0, <2>1, <2>2, NoneClaimed
  <2>4. QED
    BY <2>1, <2>3 DEF TurnOK, Turns, HandsOn
<1>9. QED
  BY <1>1, <1>2, <1>3, <1>4, <1>5, <1>6, <1>7, <1>8 DEF Scan

LEMMA WorkKeeps ==
  ASSUME ServiceInv, Work
  PROVE  TurnOK' /\ HandsOn' /\ TreeOK'
<1>0. QueueInv /\ WorkerOK /\ TurnOK /\ HandsOn /\ TreeOK
  BY DEF ServiceInv
<1>1. TurnOK' /\ HandsOn' /\ seen' = seen
  BY <1>0, WorkHands
<1>2. UNCHANGED <<tree, writes, observed, hand>> /\ turn' \in {"work", "list", "dead"}
  BY DEF Work, NextPass, Die, scanning, landing
<1>3. TreeOK'
  BY <1>0, <1>1, <1>2, HandEmpty, TreeStays DEF TreeOK, MarksOK
<1>4. QED
  BY <1>1, <1>3

LEMMA ChangeTree ==
  ASSUME WorkerOK, TreeOK, NEW p \in Paths, NEW file \in Files, Change(p, file),
         file = Absent \/ (file # Absent /\ file.mark = writes + 1)
  PROVE  TreeOK'
<1>1. /\ tree' = [tree EXCEPT ![p] = file] /\ writes' = writes + 1
      /\ UNCHANGED <<observed, turn, hand, seen>>
  BY DEF Change, scanning, vars, memory
<1>2. writes \in Nat /\ \A q \in Paths : tree'[q] = IF q = p THEN file ELSE tree[q]
  BY <1>1 DEF WorkerOK
<1>3. \A m \in 0..writes : m \in 0..writes' /\ m # writes + 1
  BY <1>1, <1>2
<1>4. \A q \in Paths \ {p} : /\ Here(q)' <=> Here(q)
                             /\ tree'[q] = tree[q]
                             /\ Reading(q)' = Reading(q) /\ (Invalid(q)' <=> Invalid(q))
  BY <1>2 DEF Here, Reading, Invalid
<1>5. Here(p)' => tree'[p].mark = writes + 1
  BY <1>2 DEF Here
<1>6. MarksOK'
  <2>1. \A q \in Paths : Here(q)' => tree'[q].mark \in 1..writes'
    BY <1>1, <1>2, <1>4, <1>5 DEF TreeOK, MarksOK
  <2>2. observed' \in [Paths -> 0..writes']
    BY <1>1, <1>3 DEF TreeOK, MarksOK
  <2>3. hand' \in [path : Paths \cup {0}, mark : 0..writes', jobs : Seq(Jobs),
                   end : {"taken", "invalid", "raises"}]
    BY <1>1, <1>3 DEF TreeOK, MarksOK
  <2>4. QED
    BY <2>1, <2>2, <2>3 DEF MarksOK
<1>7. HandOK'
  <2>1. ASSUME NEW q \in Paths, q = hand.path, Here(q)', tree'[q].mark = hand.mark PROVE InHand(q)'
    <3>1. hand.mark \in 0..writes
      BY DEF TreeOK, MarksOK
    <3>2. q # p
      BY <1>3, <1>5, <2>1, <3>1
    <3>3. InHand(q)
      BY <1>4, <2>1, <3>2 DEF TreeOK, HandOK
    <3>4. QED
      BY <1>1, <1>4, <3>2, <3>3 DEF InHand, JobsOf
  <2>2. QED
    BY <1>1, <2>1 DEF TreeOK, HandOK, JobsOf
<1>8. WatchOK'
  <2>1. ASSUME NEW q \in Paths, Here(q)', observed'[q] = tree'[q].mark PROVE Taken(q)'
    <3>1. observed[q] \in 0..writes
      BY DEF TreeOK, MarksOK
    <3>2. q # p
      BY <1>1, <1>3, <1>5, <2>1, <3>1
    <3>3. Taken(q)
      BY <1>1, <1>4, <2>1, <3>2 DEF TreeOK, WatchOK
    <3>4. QED
      BY <1>1, <1>4, <3>2, <3>3 DEF Taken, JobsOf
  <2>2. QED
    BY <2>1 DEF WatchOK
<1>9. QED
  BY <1>6, <1>7, <1>8 DEF TreeOK

LEMMA SenderKeeps ==
  ASSUME ServiceInv, Sender
  PROVE  TurnOK' /\ HandsOn' /\ TreeOK'
<1>0. QueueInv /\ WorkerOK /\ TurnOK /\ HandsOn /\ TreeOK
  BY DEF ServiceInv
<1>1. PICK p \in Paths : Discard(p) \/ \E c \in Contents : Deliver(p, c)
  BY DEF Sender
<1>2. UNCHANGED <<turn, at, inProgress, job>>
  BY <1>1 DEF Discard, Deliver, Change, vars, memory, thread, scanning
<1>3. ASSUME Discard(p) PROVE TreeOK'
  BY <1>0, <1>3, ChangeTree DEF Discard, Files
<1>4. ASSUME NEW c \in Contents, Deliver(p, c) PROVE TreeOK'
  <2> DEFINE file == [content |-> c, mark |-> writes + 1]
  <2>1. file \in Files /\ file.mark = writes + 1
    BY <1>0 DEF Files, WorkerOK
  <2>2. Change(p, file)
    BY <1>4 DEF Deliver
  <2> HIDE DEF file
  <2>3. QED
    BY <1>0, <2>1, <2>2, ChangeTree
<1>5. TreeOK'
  BY <1>1, <1>3, <1>4
<1>6. TurnOK' /\ HandsOn'
  BY <1>0, <1>2 DEF TurnOK, HandsOn
<1>7. QED
  BY <1>5, <1>6

LEMMA OperatorKeeps ==
  ASSUME ServiceInv, Operator
  PROVE  TurnOK' /\ HandsOn' /\ TreeOK'
<1>0. QueueInv /\ WorkerOK /\ TurnOK /\ HandsOn /\ TreeOK
  BY DEF ServiceInv
<1>1. /\ turn = "list" /\ UNCHANGED <<tree, writes, observed, turn, hand, at, job, inProgress>>
      /\ seen \subseteq seen'
  BY DEF Operator, Retry, RetryDeadLetter, landing, scanning, thread
<1>2. TreeOK'
  BY <1>0, <1>1, HandEmpty, TreeStays DEF TreeOK, MarksOK
<1>3. QED
  BY <1>0, <1>1, <1>2 DEF TurnOK, HandsOn

LEMMA StartAgainKeeps ==
  ASSUME ServiceInv, StartAgain
  PROVE  TurnOK' /\ HandsOn' /\ TreeOK'
<1>0. WorkerOK /\ TreeOK
  BY DEF ServiceInv
<1>1. /\ UNCHANGED <<tree, writes>> /\ observed' = [p \in Paths |-> 0] /\ turn' = "list"
      /\ hand' = NoFile /\ at' = "idle" /\ inProgress' = [j \in Jobs |-> 0]
  BY DEF StartAgain, Restart, Return, Goto, landing
<1>2. 0 \in 0..writes /\ <<>> \in Seq(Jobs)
  BY <1>0, EmptySeq DEF WorkerOK
<1>3. MarksOK'
  <2>1. NoFile \in [path : Paths \cup {0}, mark : 0..writes, jobs : Seq(Jobs),
                    end : {"taken", "invalid", "raises"}]
    BY <1>2 DEF NoFile
  <2>2. observed' \in [Paths -> 0..writes]
    BY <1>1, <1>2
  <2>3. QED
    BY <1>0, <1>1, <2>1, <2>2 DEF TreeOK, MarksOK, Here
<1>4. HandOK'
  BY <1>1, HandEmpty
<1>5. WatchOK'
  <2>1. \A p \in Paths : Here(p)' => tree'[p].mark # 0
    <3>1. \A m \in 1..writes : m # 0
      BY <1>0 DEF WorkerOK
    <3>2. QED
      BY <1>0, <1>1, <3>1 DEF TreeOK, MarksOK, Here
  <2>2. QED
    BY <1>1, <2>1 DEF WatchOK
<1>6. TurnOK' /\ HandsOn'
  BY <1>1 DEF TurnOK, Turns, HandsOn
<1>7. QED
  BY <1>3, <1>4, <1>5, <1>6 DEF TreeOK

LEMMA ServiceStarts ==
  ASSUME ServiceInit
  PROVE  ServiceInv
<1>1. /\ Init /\ tree = [p \in Paths |-> Absent] /\ writes = 0
      /\ observed = [p \in Paths |-> 0] /\ turn = "list" /\ todo = {} /\ hand = NoFile
  BY DEF ServiceInit
<1>2. QueueInv /\ Accounted
  BY <1>1, QueueStarts, StartsAccounted
<1>3. tree \in [Paths -> Files] /\ \A p \in Paths : ~Here(p)
  BY <1>1 DEF Files, Here
<1>4. WorkerOK
  BY <1>1, <1>3 DEF WorkerOK
<1>5. TurnOK /\ HandsOn
  BY <1>1 DEF Init, TurnOK, Turns, HandsOn
<1>6. MarksOK
  <2>1. 0 \in 0..writes /\ <<>> \in Seq(Jobs)
    BY <1>1, EmptySeq
  <2>2. hand \in [path : Paths \cup {0}, mark : 0..writes, jobs : Seq(Jobs),
                  end : {"taken", "invalid", "raises"}]
    BY <1>1, <2>1 DEF NoFile
  <2>3. QED
    BY <1>1, <1>3, <2>1, <2>2 DEF MarksOK
<1>7. HandOK /\ WatchOK
  BY <1>1, <1>3 DEF HandOK, InHand, WatchOK
<1>8. QED
  BY <1>2, <1>4, <1>5, <1>6, <1>7 DEF ServiceInv, TreeOK

LEMMA ServiceKeeps ==
  ASSUME ServiceInv, [ServiceNext]_workerVars
  PROVE  ServiceInv'
<1>1. WorkerOK' /\ [Next]_vars
  BY ServiceSteps DEF ServiceInv
<1>2. QueueInv' /\ Accounted'
  <2>1. QueueInv'
    BY <1>1, QueueSteps DEF ServiceInv
  <2>2. Accounted'
    BY <1>1, StepsAccount DEF ServiceInv
  <2>3. QED
    BY <2>1, <2>2
<1>3. TurnOK' /\ HandsOn' /\ TreeOK'
  <2>1. CASE UNCHANGED workerVars
    <3>1. UNCHANGED <<turn, at, job, inProgress, tree, writes, observed, hand, seen>>
      BY <2>1 DEF workerVars, vars, memory, thread, landing, scanning
    <3>2. TreeOK'
      BY <3>1 DEF ServiceInv, TreeOK, MarksOK, HandOK, InHand, WatchOK, Taken, Here, Reading,
                  Invalid, JobsOf
    <3>3. QED
      BY <3>1, <3>2 DEF ServiceInv, TurnOK, HandsOn
  <2>2. QED
    BY <2>1, ScanKeeps, WorkKeeps, SenderKeeps, OperatorKeeps, StartAgainKeeps DEF ServiceNext
<1>4. QED
  BY <1>1, <1>2, <1>3 DEF ServiceInv

\* The running service keeps the invariant of the queue, the places of its
\* jobs, and what the watcher relies on, whoever changes the tree meanwhile.
THEOREM ServiceAlways == ServiceSpec => []ServiceInv
<1>1. ServiceInit => ServiceInv
  BY ServiceStarts
<1>2. ServiceInv /\ [ServiceNext]_workerVars => ServiceInv'
  BY ServiceKeeps
<1>3. QED
  BY <1>1, <1>2, PTL DEF ServiceSpec

\* What lies at a path and is remembered by the watcher.
Watched(j) ==
  \E p \in Paths : /\ Here(p) /\ observed[p] = tree[p].mark
                   /\ \/ j \in JobsOf(Reading(p))
                      \/ Invalid(p) /\ j = Reading(p).refused

IdleIsSettled ==
  (turn = "work" /\ at = "idle" /\ pending = <<>>) =>
    \A j \in Jobs : (j \in seen \/ Watched(j)) => Settled(j)

\* A thread that finds nothing more to do has nothing left undone: whatever
\* was taken, and whatever the tree holds in a file that is as the watcher
\* remembers it, is indexed or set aside, however the files were changed
\* while they were read.
THEOREM NothingIsLeftUndone == ServiceSpec => []IdleIsSettled
<1>1. ServiceInv => IdleIsSettled
  <2>1. SUFFICES ASSUME ServiceInv, turn = "work", at = "idle", pending = <<>>,
                        NEW j \in Jobs, j \in seen \/ Watched(j)
                 PROVE  Settled(j)
    BY DEF IdleIsSettled
  <2>2. j \in seen
    BY <2>1 DEF Watched, ServiceInv, TreeOK, WatchOK, Taken
  <2>3. inProgress[j] = 0
    BY <2>1, NoneClaimed DEF ServiceInv
  <2>4. Ids(pending) = {}
    BY <2>1 DEF Ids
  <2>5. InPlace(j)
    BY <2>1, <2>2, PlacedInMemory DEF ServiceInv, Accounted
  <2>6. QED
    BY <2>2, <2>3, <2>4, <2>5 DEF InPlace
<1>2. QED
  BY <1>1, ServiceAlways, PTL
=============================================================================
