------------------------ MODULE ChannelAdapter_proofs ------------------------
(***************************************************************************)
(* Proofs about ChannelAdapter for every feed, allow list, backlog, page   *)
(* size, number of replies and attempts, and every mix of faults: what the *)
(* ledger suppresses was served, a repeated delivery was paid for by a     *)
(* fault, and a sync moves on unless its feed ends with a full page.       *)
(***************************************************************************)
EXTENDS ChannelAdapter, Subsequences_proofs

USE AdapterAssumption

-----------------------------------------------------------------------------
(* Type correctness.  While an event is under way it is one of the feed,    *)
(* and the deliveries of its answer are sent one after the other.           *)

UnderWay == at \in {"ingest", "run", "work", "failing", "handle", "send"}

SentOK ==
    /\ sent = [e \in Events |-> sent[e]]
    /\ \A e \in Events : sent[e] \in [1..Deliveries(e) -> Nat]

QueueOK ==
  /\ pending \in Seq(Jobs) /\ claimed \in Seq(Jobs)
  /\ taken \subseteq Jobs /\ settled \subseteq Jobs
  /\ file \in Lists /\ job \in Jobs \cup {0} /\ dropped \subseteq Jobs
  /\ at \in {"work", "failing"} => job \in Jobs

CallOK ==
    /\ at \in Steps /\ event \in Events \cup {0}
    /\ delivery \in 0..(Replies + 2) /\ failures \in 0..(MaxAttempts - 1)
    /\ UnderWay => event \in Events /\ delivery \in 1..(Deliveries(event) + 1)

SyncOK ==
    /\ syncing \in BOOLEAN /\ page \in Seq(Events) /\ item \in Nat
    /\ cursor \in 0..Len(Feed) /\ synced \in BOOLEAN

Typed == SentOK /\ QueueOK /\ CallOK /\ SyncOK /\ ledger \subseteq Events /\ faults \in Nat

LEMMA FeedType ==
  Feed \in Seq(Events) /\ Events \subseteq Nat /\ 0 \in 0..Len(Feed) /\ <<>> \in Seq(Events)
BY DEF Events

LEMMA DeliveriesBound ==
  ASSUME NEW e \in Events
  PROVE  Deliveries(e) \in Nat /\ 1 \in 1..(Deliveries(e) + 1) /\ Deliveries(e) + 1 <= Replies + 2
BY DEF Deliveries

LEMMA TypedInit == Init => Typed
<1> SUFFICES ASSUME Init PROVE Typed
  OBVIOUS
<1>1. pending \in Seq(Jobs)
  <2>1. CASE pending = <<>>
    BY <2>1
  <2>2. CASE pending \in [1..2 -> Backlog]
    <3>1. pending \in UNION {[1..n -> Backlog] : n \in Nat}
      BY <2>2
    <3>2. pending \in Seq(Backlog)
      BY <3>1, SeqDef, Zenon
    <3>3. Backlog \subseteq Jobs
      BY DEF Jobs
    <3>4. QED
      BY <3>2, <3>3, SeqMonotonic
  <2>3. QED
    BY <2>1, <2>2 DEF Init
<1>2. QueueOK
  <2>1. taken \subseteq Jobs
    BY <1>1, InOf DEF Init, In
  <2>2. Queue \in Lists
    BY <1>1, <2>1 DEF Init, Queue, Lists
  <2>3. QED
    BY <1>1, <2>1, <2>2 DEF Init, QueueOK
<1>6. SentOK
  BY DEF Init, SentOK
<1>3. CallOK
  BY DEF Init, CallOK, UnderWay, Steps
<1>4. SyncOK
  BY FeedType DEF Init, SyncOK
<1>5. QED
  BY <1>2, <1>3, <1>4, <1>6 DEF Init, Typed

\* The call returns to its caller or to sync(), or raises.
LEMMA LeaveStep ==
  ASSUME NEW step \in {"idle", "fetch", "items"}, Leave(step)
  PROVE  /\ at' = step /\ event' = 0 /\ delivery' = 0 /\ failures' = 0
         /\ ~UnderWay' /\ CallOK'
BY DEF Leave, UnderWay, CallOK, Steps

LEMMA GotoStep ==
  ASSUME NEW step \in {"ingest", "run", "work", "failing", "handle", "send"}, NEW e \in Events, Goto(step, e)
  PROVE  /\ at' = step /\ event' = e /\ delivery' = 1 /\ failures' = 0
         /\ UnderWay' /\ CallOK'
<1>1. at' = step /\ event' = e /\ delivery' = 1 /\ failures' = 0 /\ UnderWay'
  BY DEF Goto, UnderWay
<1>2. delivery' \in 1..(Deliveries(event') + 1) /\ delivery' \in 0..(Replies + 2)
  BY <1>1, DeliveriesBound
<1>3. QED
  BY <1>1, <1>2 DEF CallOK, Steps, UnderWay

LEMMA RaiseStep ==
  ASSUME Raise
  PROVE  at' = "idle" /\ ~UnderWay' /\ CallOK' /\ (SyncOK /\ UNCHANGED synced => SyncOK')
BY LeaveStep, FeedType DEF Raise, SyncOK

LEMMA RetryStep ==
  ASSUME Typed, Retry
  PROVE  /\ \/ Raise
            \/ UNCHANGED <<at, event, delivery, paging>>
         /\ CallOK' /\ (UNCHANGED synced => SyncOK')
<1>1. CASE Raise
  BY <1>1, RaiseStep DEF Typed
<1>2. CASE failures' = failures + 1 /\ failures + 1 # MaxAttempts /\ UNCHANGED <<at, event, delivery, paging>>
  <2>1. failures' \in 0..(MaxAttempts - 1)
    BY <1>2 DEF Typed, CallOK
  <2>2. QED
    BY <1>2, <2>1 DEF Typed, CallOK, SyncOK, paging, UnderWay
<1>3. QED
  BY <1>1, <1>2 DEF Retry

LEMMA AcceptStep ==
  ASSUME NEW e \in Events, Accept(e)
  PROVE  /\ \/ e \in ledger /\ Leave(Home)
            \/ e \in Allowed \ ledger /\ Goto("ingest", e)
            \/ e \notin Allowed /\ e \notin ledger /\ Goto("send", e)
         /\ CallOK' /\ at' \in {"ingest", "send", "idle", "items"}
BY LeaveStep, GotoStep DEF Accept, Home

\* One more delivery of the current event has reached the provider.
LEMMA DeliveredStep ==
  ASSUME Typed, at = "send", delivery <= Deliveries(event), sent' = Delivered
  PROVE  /\ SentOK' /\ event \in Events
         /\ \A e \in Events \ {event} : sent'[e] = sent[e]
         /\ \A d \in 1..Deliveries(event) :
              sent'[event][d] = IF d = delivery THEN sent[event][d] + 1 ELSE sent[event][d]
<1>1. event \in Events /\ delivery \in 1..Deliveries(event)
  BY DEF Typed, CallOK, UnderWay, Deliveries
<1>2. sent[event] \in [1..Deliveries(event) -> Nat]
  BY <1>1 DEF Typed, SentOK
<1> DEFINE more == [sent[event] EXCEPT ![delivery] = sent[event][delivery] + 1]
<1>3. sent[event][delivery] \in Nat
  BY <1>1, <1>2
<1>4. sent[event][delivery] + 1 \in Nat
  BY <1>3
<1>5. more \in [1..Deliveries(event) -> Nat]
  BY <1>1, <1>2, <1>4
<1>6. sent' = [sent EXCEPT ![event] = more]
  BY DEF Delivered
<1>7. sent' = [e \in Events |-> IF e = event THEN more ELSE sent[e]]
  BY <1>1, <1>6 DEF Typed, SentOK
<1>8. /\ sent'[event] = more
      /\ \A e \in Events \ {event} : sent'[e] = sent[e]
  BY <1>1, <1>7
<1>9. SentOK'
  <2>1. sent' = [e \in Events |-> sent'[e]]
    BY <1>7
  <2>2. \A e \in Events : sent'[e] \in [1..Deliveries(e) -> Nat]
    BY <1>5, <1>8 DEF Typed, SentOK
  <2>3. QED
    BY <2>1, <2>2 DEF SentOK
<1>10. \A d \in 1..Deliveries(event) :
          more[d] = IF d = delivery THEN sent[event][d] + 1 ELSE sent[event][d]
  BY <1>1, <1>2
<1>11. QED
  BY <1>1, <1>8, <1>9, <1>10

\* The steps of the queue lead to the handler or raise; they touch neither the
\* ledger nor what was sent.
WorkMoves ==
  /\ at \in {"ingest", "run", "work", "failing"} /\ event \in Events
  /\ UNCHANGED <<ledger, sent, synced>>
  /\ UNCHANGED faults \/ \E kind \in AllFaults : Fault(kind)
  /\ \/ Raise
     \/ /\ Goto(at', event) /\ UNCHANGED paging
        /\ \/ at = "ingest" /\ at' = "run"
           \/ at = "run" /\ at' \in {"work", "handle"}
           \/ at = "work" /\ at' \in {"failing", "handle"}
           \/ at = "failing" /\ at' = "handle"

LEMMA WorkStep ==
  ASSUME Typed, Working \/ WorkFails
  PROVE  WorkMoves
<1>1. CASE SubmitSeen \/ RunEmpty
  BY <1>1 DEF SubmitSeen, RunEmpty, Submitted, Goto, durable, Typed, CallOK, UnderWay, WorkMoves
<1>2. ASSUME NEW saved \in BOOLEAN, Submit(saved) \/ Claim(saved) \/ Ack(saved)
      PROVE  WorkMoves
  BY <1>2 DEF Submit, Claim, Ack, Submitted, Persist, AllFaults, Goto, Typed, CallOK, UnderWay, WorkMoves
<1>3. ASSUME NEW kind \in {"job", "disk"}, JobFails(kind)
      PROVE  WorkMoves
  BY <1>3 DEF JobFails, AllFaults, Goto, durable, Typed, CallOK, UnderWay, WorkMoves
<1>4. ASSUME NEW again \in BOOLEAN, NEW saved \in BOOLEAN, Fail(again, saved)
      PROVE  WorkMoves
  BY <1>4 DEF Fail, Persist, AllFaults, Goto, Typed, CallOK, UnderWay, WorkMoves
<1>5. QED
  BY <1>1, <1>2, <1>3, <1>4 DEF Working, WorkFails

LEMMA WorkTyped ==
  ASSUME Typed, WorkMoves
  PROVE  CallOK' /\ SyncOK' /\ SentOK' /\ faults' \in Nat
<1>1. SentOK' /\ faults' \in Nat
  BY DEF WorkMoves, Typed, SentOK, Fault
<1>2. CASE Raise
  BY <1>1, <1>2, RaiseStep DEF WorkMoves, Typed
<1>3. CASE Goto(at', event) /\ UNCHANGED paging
  <2>1. at' \in {"ingest", "run", "work", "failing", "handle", "send"} \/ Raise
    BY DEF WorkMoves
  <2>2. CallOK'
    BY <1>2, <1>3, <2>1, GotoStep DEF WorkMoves
  <2>3. SyncOK'
    BY <1>3 DEF WorkMoves, Typed, SyncOK, paging
  <2>4. QED
    BY <1>1, <2>2, <2>3
<1>4. QED
  BY <1>2, <1>3 DEF WorkMoves

\* Taking the job of the call off in_progress.
LEMMA UnclaimedIs ==
  ASSUME QueueOK
  PROVE  /\ Unclaimed \in Seq(Jobs)
         /\ In(claimed) \subseteq In(Unclaimed) \cup {job}
<1> DEFINE kept == {i \in DOMAIN claimed : claimed[i] # job}
<1>1. claimed \in Seq(Jobs) /\ kept \in SUBSET (DOMAIN claimed)
  BY DEF QueueOK
<1>2. Unclaimed \in Seq(Jobs) /\ In(Unclaimed) = {claimed[i] : i \in kept}
  BY <1>1, InPicked DEF Unclaimed
<1>3. QED
  BY <1>2 DEF In

\* What a save leaves in the file.
LEMMA SavedLists ==
  ASSUME file \in Lists, NEW saved \in BOOLEAN, Persist(saved),
         pending' \in Seq(Jobs), claimed' \in Seq(Jobs), taken' \subseteq Jobs, settled' \subseteq Jobs
  PROVE  file' \in Lists
<1>1. file' \in {file, [pending |-> pending', claimed |-> claimed', taken |-> taken', settled |-> settled']}
  BY DEF Persist, Queue
<1>2. [pending |-> pending', claimed |-> claimed', taken |-> taken', settled |-> settled'] \in Lists
  BY DEF Lists
<1>3. QED
  BY <1>1, <1>2

LEMMA QueueNext ==
  ASSUME Typed, Working \/ WorkFails
  PROVE  QueueOK'
<1>1. QueueOK /\ WorkMoves /\ event \in Jobs /\ file \in Lists
  BY WorkStep DEF Typed, QueueOK, WorkMoves, Jobs
<1>2. CASE SubmitSeen \/ RunEmpty
  BY <1>1, <1>2 DEF SubmitSeen, RunEmpty, Submitted, Goto, durable, queue, memory, QueueOK
<1>3. ASSUME NEW saved \in BOOLEAN, Submit(saved) PROVE QueueOK'
  <2>1. pending' \in Seq(Jobs) /\ taken' \subseteq Jobs /\ claimed' = claimed /\ settled' = settled
    BY <1>1, <1>3, InAppend DEF Submit, QueueOK
  <2>2. file' \in Lists
    BY <1>1, <1>3, <2>1, SavedLists DEF Submit, QueueOK
  <2>3. at' \notin {"work", "failing"} /\ job' = job /\ dropped' \subseteq Jobs
    BY <1>1, <1>3 DEF Submit, Submitted, Goto, Raise, Leave, QueueOK
  <2>4. QED
    BY <1>1, <2>1, <2>2, <2>3 DEF QueueOK
<1>4. ASSUME NEW saved \in BOOLEAN, Claim(saved) PROVE QueueOK'
  <2>1. Head(pending) \in Jobs /\ pending' \in Seq(Jobs)
    BY <1>1, <1>4, InTail DEF Claim, QueueOK
  <2>2. claimed' \in Seq(Jobs) /\ taken' = taken /\ settled' = settled
    BY <1>1, <1>4, <2>1, InAppend DEF Claim, QueueOK
  <2>3. file' \in Lists
    BY <1>1, <1>4, <2>1, <2>2, SavedLists DEF Claim, QueueOK
  <2>4. job' \in Jobs \cup {0} /\ (at' \in {"work", "failing"} => job' \in Jobs) /\ dropped' = dropped
    BY <1>1, <1>4, <2>1 DEF Claim, Raise, Leave, QueueOK
  <2>5. QED
    BY <1>1, <2>1, <2>2, <2>3, <2>4 DEF QueueOK
<1>5. ASSUME NEW saved \in BOOLEAN, Ack(saved) PROVE QueueOK'
  <2>1. job \in Jobs /\ pending' = pending /\ taken' = taken
    BY <1>1, <1>5 DEF Ack, QueueOK
  <2>2. claimed' \in Seq(Jobs) /\ settled' \subseteq Jobs
    BY <1>1, <1>5, <2>1, UnclaimedIs DEF Ack, QueueOK
  <2>3. file' \in Lists
    BY <1>1, <1>5, <2>1, <2>2, SavedLists DEF Ack, QueueOK
  <2>4. job' \in Jobs \cup {0} /\ (at' \in {"work", "failing"} => job' \in Jobs) /\ dropped' = dropped
    BY <1>5, <2>1 DEF Ack, Goto
  <2>5. QED
    BY <1>1, <2>1, <2>2, <2>3, <2>4 DEF QueueOK
<1>6. ASSUME NEW kind \in {"job", "disk"}, JobFails(kind) PROVE QueueOK'
  BY <1>1, <1>6 DEF JobFails, durable, queue, memory, QueueOK
<1>7. ASSUME NEW again \in BOOLEAN, NEW saved \in BOOLEAN, Fail(again, saved) PROVE QueueOK'
  <2>1. job \in Jobs /\ taken' = taken
    BY <1>1, <1>7 DEF Fail, QueueOK
  <2>2. claimed' \in Seq(Jobs) /\ settled' \subseteq Jobs
    BY <1>1, <1>7, <2>1, UnclaimedIs DEF Fail, QueueOK
  <2>3. pending' \in Seq(Jobs)
    BY <1>1, <1>7, <2>1, InAppend DEF Fail, QueueOK
  <2>4. file' \in Lists
    BY <1>1, <1>7, <2>1, <2>2, <2>3, SavedLists DEF Fail, QueueOK
  <2>5. job' = 0 /\ at' \notin {"work", "failing"} /\ dropped' = dropped
    BY <1>7 DEF Fail, Goto, Raise, Leave
  <2>6. QED
    BY <1>1, <2>1, <2>2, <2>3, <2>4, <2>5 DEF QueueOK
<1>8. QED
  BY <1>2, <1>3, <1>4, <1>5, <1>6, <1>7 DEF Working, WorkFails

\* restore() queues the claimed jobs of the file behind its pending ones.
LEMMA CrashLists ==
  ASSUME Typed, Crash
  PROVE  /\ QueueOK' /\ faults' \in Nat /\ SentOK'
         /\ In(pending') = In(file.pending) \cup In(file.claimed)
<1>1. /\ file.pending \in Seq(Jobs) /\ file.claimed \in Seq(Jobs)
      /\ file.taken \subseteq Jobs /\ file.settled \subseteq Jobs
  BY DEF Typed, QueueOK, Lists
<1>2. pending' \in Seq(Jobs) /\ In(pending') = In(file.pending) \cup In(file.claimed)
  BY <1>1, InConcat DEF Crash
<1>3. file' = [pending |-> pending', claimed |-> claimed', taken |-> taken', settled |-> settled']
  BY DEF Crash, Queue
<1>4. claimed' \in Seq(Jobs) /\ taken' \subseteq Jobs /\ settled' \subseteq Jobs
  BY <1>1 DEF Crash
<1>5. file' \in Lists
  BY <1>2, <1>3, <1>4 DEF Lists
<1>6. at' = "idle" /\ job' = 0 /\ dropped' \subseteq Jobs
  BY DEF Crash, Raise, Leave, Typed, QueueOK
<1>7. QueueOK'
  BY <1>2, <1>4, <1>5, <1>6 DEF QueueOK
<1>8. SentOK' /\ faults' \in Nat
  BY DEF Crash, Fault, Typed, SentOK
<1>9. QED
  BY <1>2, <1>7, <1>8

LEMMA PageType ==
  ASSUME SyncOK
  PROVE  /\ PageAt(cursor) \in Seq(Events)
         /\ cursor + Limit < Len(Feed) => cursor + Limit \in 0..Len(Feed)
<1>1. cursor \in 0..Len(Feed) /\ Feed \in Seq(Events)
  BY DEF SyncOK, Events
<1>2. QED
  BY <1>1 DEF PageAt, MinOf

LEMMA FaultStep ==
  ASSUME Typed, NEW kind, Fault(kind)
  PROVE  faults' \in Nat
BY DEF Fault, Typed

\* sync() is at an item of its page whenever it is not fetching the next one.
Paged ==
    /\ at = "idle" => ~syncing
    /\ at \in {"fetch", "items"} => syncing
    /\ syncing /\ at # "fetch" => item >= 1

LEMMA PagedNext ==
  ASSUME Typed, Paged, [Next]_vars
  PROVE  Paged'
<1>1. CASE (\E e \in Events : Webhook(e)) \/ NextItem
  <2>1. ASSUME NEW e, Accept(e) PROVE at' \in {"ingest", "send", Home}
    BY <2>1 DEF Accept, Goto, Leave
  <2>2. CASE \E e \in Events : Webhook(e)
    BY <2>1, <2>2 DEF Webhook, Home, Paged, paging
  <2>3. CASE NextItem
    <3>1. at' \in {"ingest", "send", "items"} /\ syncing' /\ item' = item + 1 /\ item >= 1
      BY <2>1, <2>3 DEF NextItem, Home, Paged
    <3>2. QED
      BY <3>1 DEF Paged, Typed, SyncOK
  <2>4. QED
    BY <1>1, <2>2, <2>3
<1>2. CASE Handle \/ Send \/ Record
  BY <1>2 DEF Handle, Send, Record, Goto, Leave, Home, Paged, paging
<1>8. CASE Working \/ WorkFails
  <2>1. WorkMoves
    BY <1>8, WorkStep
  <2>2. CASE Raise
    BY <2>2 DEF Raise, Leave, Paged
  <2>3. CASE ~Raise
    BY <2>1, <2>3 DEF WorkMoves, Paged, paging
  <2>4. QED
    BY <2>2, <2>3
<1>3. CASE StartSync \/ CallRaises \/ Crash
  BY <1>3 DEF StartSync, CallRaises, Crash, Raise, Leave, Paged
<1>4. CASE SendFails \/ SendUnconfirmed \/ FetchFails
  BY <1>4 DEF SendFails, SendUnconfirmed, FetchFails, Retry, Raise, Leave, Paged, paging
<1>5. CASE FetchPage \/ NextPage
  BY <1>5 DEF FetchPage, NextPage, SyncReturns, Leave, Paged
<1>6. CASE UNCHANGED vars
  BY <1>6 DEF vars, call, paging, Paged
<1>7. QED
  BY <1>1, <1>2, <1>3, <1>4, <1>5, <1>6, <1>8 DEF Next, Step, Failure

LEMMA ItemType ==
  ASSUME Typed, Paged, at = "items", item <= Len(page)
  PROVE  item \in 1..Len(page) /\ page[item] \in Events
<1>1. item \in 1..Len(page)
  BY DEF Typed, SyncOK, Paged
<1>2. QED
  BY <1>1, ElementOfSeq DEF Typed, SyncOK

LEMMA TypedNext ==
  ASSUME Typed, Paged, [Next]_vars
  PROVE  Typed'
<1> USE DEF Typed
<1>1. UNCHANGED sent => SentOK'
  BY DEF SentOK
<1>2. UNCHANGED queue /\ (at' \notin {"work", "failing"} \/ UNCHANGED at) => QueueOK'
  BY DEF QueueOK, queue, memory
<1>3. UNCHANGED <<paging, synced>> => SyncOK'
  BY DEF SyncOK, paging
<1>4. ASSUME NEW e \in Events, Webhook(e) PROVE Typed'
  BY <1>1, <1>2, <1>3, <1>4, AcceptStep DEF Webhook, durable
<1>5. CASE StartSync
  BY <1>1, <1>2, <1>5, LeaveStep, FeedType DEF StartSync, durable, SyncOK
<1>6. CASE Working \/ WorkFails
  BY <1>6, WorkStep, WorkTyped, QueueNext DEF WorkMoves
<1>8. CASE Handle
  <2>1. event \in Events
    BY <1>8 DEF Handle, CallOK, UnderWay
  <2>2. QED
    BY <1>1, <1>2, <1>3, <1>8, <2>1, GotoStep DEF Handle, durable
<1>9. CASE Send
  <2>1. CallOK'
    <3>1. event \in Events /\ delivery \in 1..(Deliveries(event) + 1)
      BY <1>9 DEF Send, CallOK, UnderWay
    <3>2. delivery + 1 \in 1..(Deliveries(event) + 1) /\ delivery + 1 \in 0..(Replies + 2)
      BY <1>9, <3>1, DeliveriesBound DEF Send
    <3>3. QED
      BY <1>9, <3>1, <3>2 DEF Send, CallOK, UnderWay
  <2>2. SentOK'
    BY <1>9, DeliveredStep DEF Send
  <2>3. QED
    BY <1>2, <1>3, <1>9, <2>1, <2>2 DEF Send
<1>10. CASE SendFails \/ FetchFails
  <2>1. at' = "idle" \/ UNCHANGED at
    BY <1>10, RetryStep, RaiseStep DEF SendFails, FetchFails
  <2>2. QED
    BY <1>1, <1>2, <1>10, <2>1, FaultStep, RetryStep DEF SendFails, FetchFails, durable
<1>11. CASE CallRaises \/ Crash
  BY <1>1, <1>2, <1>11, FaultStep, RaiseStep, CrashLists DEF CallRaises, Crash, durable
<1>12. CASE SendUnconfirmed
  <2>1. SentOK' /\ CallOK' /\ faults' \in Nat
    BY <1>12, FaultStep, RetryStep, DeliveredStep DEF SendUnconfirmed
  <2>2. SyncOK' /\ (at' = "idle" \/ UNCHANGED at)
    BY <1>12, RetryStep, RaiseStep DEF SendUnconfirmed
  <2>3. QED
    BY <1>2, <1>12, <2>1, <2>2 DEF SendUnconfirmed
<1>13. CASE Record
  <2>1. event \in Events
    BY <1>13 DEF Record, CallOK, UnderWay
  <2>2. QED
    BY <1>1, <1>2, <1>3, <1>13, <2>1, LeaveStep DEF Record, Home
<1>14. CASE FetchPage
  <2>1. CASE SyncReturns
    BY <1>1, <1>2, <1>14, <2>1, LeaveStep, FeedType DEF FetchPage, SyncReturns, SyncOK, durable
  <2>2. CASE page' = PageAt(cursor) /\ item' = 1 /\ Leave("items") /\ UNCHANGED <<syncing, cursor, synced>>
    <3>1. SyncOK'
      BY <2>2, PageType DEF SyncOK
    <3>2. QED
      BY <1>1, <1>2, <1>14, <2>2, <3>1, LeaveStep DEF FetchPage, durable
  <2>3. QED
    BY <1>14, <2>1, <2>2 DEF FetchPage
<1>15. CASE NextItem
  <2>1. page[item] \in Events
    BY <1>15, ItemType DEF NextItem
  <2>2. SyncOK'
    BY <1>15 DEF NextItem, SyncOK
  <2>3. QED
    BY <1>1, <1>2, <1>15, <2>1, <2>2, AcceptStep DEF NextItem, durable
<1>16. CASE NextPage
  <2>1. CASE SyncReturns
    BY <1>1, <1>2, <1>16, <2>1, LeaveStep, FeedType DEF NextPage, SyncReturns, SyncOK, durable
  <2>2. CASE /\ cursor' = IF HasNextCursor THEN cursor + Limit ELSE 0
             /\ Leave("fetch") /\ UNCHANGED <<syncing, page, item, synced>>
    <3>1. SyncOK'
      BY <2>2, FeedType, PageType DEF HasNextCursor, SyncOK
    <3>2. QED
      BY <1>1, <1>2, <1>16, <2>2, <3>1, LeaveStep DEF NextPage, durable
  <2>3. QED
    BY <1>16, <2>1, <2>2 DEF NextPage
<1>17. CASE UNCHANGED vars
  BY <1>1, <1>2, <1>3, <1>17 DEF vars, durable, call, CallOK, UnderWay
<1>18. QED
  BY <1>4, <1>5, <1>6, <1>8, <1>9, <1>10, <1>11, <1>12, <1>13, <1>14, <1>15, <1>16, <1>17
     DEF Next, Step, Failure

LEMMA TypedAlways == Spec => [](Typed /\ Paged)
<1>1. Init => Paged
  BY DEF Init, Paged
<1>2. QED
  BY <1>1, TypedInit, TypedNext, PagedNext, PTL DEF Spec

\* The adapter's state keeps its type; in particular no send is tried more
\* than MaxAttempts times in one call.
THEOREM TypeCorrect == Spec => []TypeOK
<1>1. Typed => TypeOK
  <2>1. Typed => Queue \in Lists
    BY DEF Typed, QueueOK, Queue, Lists
  <2>2. QED
    BY <2>1 DEF Typed, TypeOK, SentOK, QueueOK, CallOK, SyncOK
<1>2. QED
  BY <1>1, TypedAlways, PTL

-----------------------------------------------------------------------------
(* An event under way is not recorded yet: the ledger is asked before, and  *)
(* the one thread records nothing but what it works on.                     *)

Fresh == UnderWay => event \notin ledger

LEMMA FreshNext ==
  ASSUME Typed, Paged, Fresh, [Next]_vars
  PROVE  Fresh'
<1>1. ASSUME NEW e \in Events, Accept(e), UNCHANGED ledger PROVE Fresh'
  BY <1>1, AcceptStep, LeaveStep, GotoStep DEF Home, Fresh
<1>2. CASE (\E e \in Events : Webhook(e)) \/ NextItem
  BY <1>1, <1>2, ItemType DEF Webhook, NextItem, durable
<1>3. CASE Handle \/ Send
  BY <1>3 DEF Handle, Send, Goto, Fresh, UnderWay, durable
<1>8. CASE Working \/ WorkFails
  BY <1>8, WorkStep, RaiseStep DEF WorkMoves, Goto, Fresh, UnderWay
<1>4. CASE StartSync \/ CallRaises \/ Crash \/ Record \/ FetchPage \/ NextPage
  BY <1>4 DEF StartSync, CallRaises, Crash, Raise, Record, FetchPage, NextPage, SyncReturns, Home, Leave,
     Fresh, UnderWay
<1>5. CASE SendFails \/ SendUnconfirmed \/ FetchFails
  BY <1>5 DEF SendFails, SendUnconfirmed, FetchFails, Retry, Raise, Leave, Fresh, UnderWay, durable
<1>6. CASE UNCHANGED vars
  BY <1>6 DEF vars, durable, call, Fresh, UnderWay
<1>7. QED
  BY <1>2, <1>3, <1>4, <1>5, <1>6, <1>8 DEF Next, Step, Failure

\* Once an event is recorded, neither a webhook nor a sync answers it again.
THEOREM RecordedIsSilent == Spec => SilentOnceRecorded
<1>1. Init => Fresh
  BY DEF Init, Fresh, UnderWay
<1>2. Spec => [](Typed /\ Fresh)
  BY <1>1, FreshNext, TypedAlways, PTL DEF Spec
<1>3. ASSUME Typed, Fresh, [Next]_vars
      PROVE  [\A e \in ledger : sent'[e] = sent[e]]_vars
  <2>1. CASE Send \/ SendUnconfirmed
    <3>1. \A e \in Events \ {event} : sent'[e] = sent[e]
      BY <1>3, <2>1, DeliveredStep DEF Send, SendUnconfirmed
    <3>2. event \notin ledger /\ ledger \subseteq Events
      BY <1>3, <2>1 DEF Send, SendUnconfirmed, Fresh, UnderWay, Typed
    <3>3. QED
      BY <3>1, <3>2
  <2>2. CASE ~(Send \/ SendUnconfirmed)
    <3>1. UNCHANGED sent
      BY <1>3, <2>2, WorkStep DEF WorkMoves, Next, vars, durable, Step, Failure, Webhook, StartSync, Handle,
         Record, FetchPage, NextItem, NextPage, CallRaises, SendFails, FetchFails, Crash
    <3>2. QED
      BY <3>1
  <2>3. QED
    BY <2>1, <2>2
<1>4. QED
  BY <1>2, <1>3, PTL DEF Spec, SilentOnceRecorded

-----------------------------------------------------------------------------
(* What is recorded was delivered, and its evidence is with ingestion: the  *)
(* deliveries before the one being sent are out, what the queue has taken   *)
(* is waiting or settled, and an allowed event is taken before its run.     *)

\* A queue that has every job it took.
Whole(q) == q.taken \subseteq Kept(q)

CallServed ==
    /\ at \in {"run", "work", "failing", "handle"} => event \in taken
    /\ at = "ingest" => event \in Allowed
    /\ at = "send" =>
          /\ event \in Allowed => event \in taken
          /\ \A d \in 1..Deliveries(event) : d < delivery => sent[event][d] > 0

Recorded(e) ==
    /\ \A d \in 1..Deliveries(e) : sent[e][d] > 0
    /\ e \in Allowed => e \in taken \cup dropped

Served ==
    /\ Whole(Queue) /\ Whole(file)
    /\ CallServed
    /\ \A e \in ledger : Recorded(e)

\* The queue in memory has every job it took.
InMemory == taken \subseteq settled \cup In(pending) \cup In(claimed)

LEMMA MemoryWhole == Whole(Queue) <=> InMemory
BY DEF Whole, Kept, Queue, InMemory

LEMMA SavedWhole ==
  ASSUME Whole(file), NEW saved \in BOOLEAN, Persist(saved), InMemory'
  PROVE  Whole(file')
<1>1. file' \in {file, [pending |-> pending', claimed |-> claimed', taken |-> taken', settled |-> settled']}
  BY DEF Persist, Queue
<1>2. QED
  BY <1>1 DEF Whole, Kept, InMemory

LEMMA WholeNext ==
  ASSUME Typed, InMemory, Whole(file), [Next]_vars
  PROVE  InMemory' /\ Whole(file')
<1>0. QueueOK /\ (at = "ingest" => event \in Jobs)
  BY DEF Typed, CallOK, UnderWay, Jobs
<1>1. ASSUME UNCHANGED <<pending, claimed, taken, settled, file>> PROVE InMemory' /\ Whole(file')
  BY <1>1 DEF InMemory
<1>2. ASSUME NEW saved \in BOOLEAN, Submit(saved) PROVE InMemory' /\ Whole(file')
  <2>1. In(pending') = In(pending) \cup {event}
    BY <1>0, <1>2, InAppend DEF Submit, QueueOK
  <2>2. InMemory'
    BY <1>2, <2>1 DEF Submit, InMemory
  <2>3. QED
    BY <1>2, <2>2, SavedWhole DEF Submit
<1>3. ASSUME NEW saved \in BOOLEAN, Claim(saved) PROVE InMemory' /\ Whole(file')
  <2>1. Head(pending) \in Jobs /\ In(pending) = In(pending') \cup {Head(pending)}
    BY <1>0, <1>3, InTail DEF Claim, QueueOK
  <2>2. In(claimed') = In(claimed) \cup {Head(pending)}
    BY <1>0, <1>3, <2>1, InAppend DEF Claim, QueueOK
  <2>3. InMemory'
    BY <1>3, <2>1, <2>2 DEF Claim, InMemory
  <2>4. QED
    BY <1>3, <2>3, SavedWhole DEF Claim
<1>4. ASSUME NEW saved \in BOOLEAN, Ack(saved) PROVE InMemory' /\ Whole(file')
  <2>1. In(claimed) \subseteq In(claimed') \cup {job}
    BY <1>0, <1>4, UnclaimedIs DEF Ack
  <2>2. InMemory'
    BY <1>4, <2>1 DEF Ack, InMemory
  <2>3. QED
    BY <1>4, <2>2, SavedWhole DEF Ack
<1>5. ASSUME NEW again \in BOOLEAN, NEW saved \in BOOLEAN, Fail(again, saved)
      PROVE  InMemory' /\ Whole(file')
  <2>1. In(claimed) \subseteq In(claimed') \cup {job}
    BY <1>0, <1>5, UnclaimedIs DEF Fail
  <2>2. IF again THEN In(pending') = In(pending) \cup {job} ELSE pending' = pending
    BY <1>0, <1>5, InAppend DEF Fail, QueueOK
  <2>3. InMemory'
    BY <1>5, <2>1, <2>2 DEF Fail, InMemory
  <2>4. QED
    BY <1>5, <2>3, SavedWhole DEF Fail
<1>6. CASE Crash
  <2>1. /\ In(pending') = In(file.pending) \cup In(file.claimed)
        /\ taken' = file.taken /\ settled' = file.settled /\ file' = Queue'
    BY <1>6, CrashLists DEF Crash
  <2>2. InMemory'
    BY <2>1 DEF InMemory, Whole, Kept
  <2>3. QED
    BY <2>1, <2>2 DEF Whole, Kept, Queue, InMemory
<1>7. QED
  BY <1>1, <1>2, <1>3, <1>4, <1>5, <1>6 DEF Next, vars, durable, queue, memory, Step, Failure, Working, WorkFails,
     SubmitSeen, RunEmpty, JobFails, Webhook, StartSync, Handle, Send, Record, FetchPage, NextItem, NextPage,
     CallRaises, SendFails, SendUnconfirmed, FetchFails

\* What has reached the provider stays there, and what has reached the queue
\* but for a restart.
LEMMA NothingTakenBack ==
  ASSUME Typed, [Next]_vars
  PROVE  /\ taken \cup dropped \subseteq taken' \cup dropped'
         /\ \A e \in Events : \A d \in 1..Deliveries(e) : sent[e][d] > 0 => sent'[e][d] > 0
<1>1. CASE Send \/ SendUnconfirmed
  <2>1. /\ event \in Events /\ \A e \in Events \ {event} : sent'[e] = sent[e]
        /\ \A d \in 1..Deliveries(event) :
             sent'[event][d] = IF d = delivery THEN sent[event][d] + 1 ELSE sent[event][d]
    BY <1>1, DeliveredStep DEF Send, SendUnconfirmed
  <2>2. \A d \in 1..Deliveries(event) : sent[event][d] \in Nat
    BY <2>1 DEF Typed, SentOK
  <2>3. \A d \in 1..Deliveries(event) : sent[event][d] > 0 => sent'[event][d] > 0
    BY <2>1, <2>2
  <2>4. taken' = taken /\ dropped' = dropped
    BY <1>1 DEF Send, SendUnconfirmed, queue, memory
  <2>5. QED
    BY <2>1, <2>3, <2>4
<1>2. CASE Crash
  BY <1>2 DEF Crash
<1>3. CASE Working \/ WorkFails
  BY <1>3, WorkStep DEF WorkMoves, Working, WorkFails, SubmitSeen, Submit, RunEmpty, Claim, Ack, JobFails,
     Fail, durable, queue, memory
<1>4. CASE ~(Send \/ SendUnconfirmed \/ Crash \/ Working \/ WorkFails)
  BY <1>4 DEF Next, vars, durable, queue, memory, Step, Failure, Webhook, StartSync, Handle, Record,
     FetchPage, NextItem, NextPage, CallRaises, SendFails, FetchFails
<1>5. QED
  BY <1>1, <1>2, <1>3, <1>4

LEMMA LedgerServed ==
  ASSUME Typed, CallServed, \A e \in ledger : Recorded(e), [Next]_vars
  PROVE  \A e \in ledger' : Recorded(e)'
<1>1. ledger \subseteq Events
  BY DEF Typed
<1>2. \A e \in ledger : Recorded(e)'
  BY <1>1, NothingTakenBack DEF Recorded
<1>3. CASE Record
  <2>1. event \in Events /\ at = "send" /\ delivery \in Nat /\ delivery > Deliveries(event)
    BY <1>3 DEF Record, Typed, CallOK, UnderWay
  <2>2. \A d \in 1..Deliveries(event) : d < delivery
    BY <2>1, DeliveriesBound
  <2>3. ledger' = ledger \cup {event} /\ UNCHANGED <<sent, taken, dropped>>
    BY <1>3 DEF Record, queue, memory
  <2>4. \A e : e = event => Recorded(e)'
    BY <2>1, <2>2, <2>3 DEF CallServed, Recorded
  <2>5. QED
    BY <1>2, <2>3, <2>4
<1>4. CASE ~Record
  <2>1. ledger' = ledger
    BY <1>4, WorkStep DEF WorkMoves, Next, vars, durable, Step, Failure, Webhook, StartSync, Handle, Send,
       FetchPage, NextItem, NextPage, CallRaises, SendFails, SendUnconfirmed, FetchFails, Crash
  <2>2. QED
    BY <1>2, <2>1
<1>5. QED
  BY <1>3, <1>4

LEMMA CallServedNext ==
  ASSUME Typed, Paged, CallServed, [Next]_vars
  PROVE  CallServed'
<1>1. ASSUME ~UnderWay' PROVE CallServed'
  BY <1>1 DEF UnderWay, CallServed
<1>2. ASSUME NEW e \in Events, Accept(e) PROVE CallServed'
  <2>1. CASE Leave(Home)
    BY <1>1, <2>1, LeaveStep DEF Home
  <2>2. CASE e \in Allowed /\ Goto("ingest", e)
    BY <2>2, GotoStep DEF CallServed
  <2>3. CASE e \notin Allowed /\ Goto("send", e)
    <3>1. at' = "send" /\ event' = e /\ delivery' = 1
      BY <2>3, GotoStep
    <3>2. \A d \in 1..Deliveries(event') : ~(d < delivery')
      BY <3>1, DeliveriesBound
    <3>3. QED
      BY <2>3, <3>1, <3>2 DEF CallServed
  <2>4. QED
    BY <1>2, <2>1, <2>2, <2>3, AcceptStep
<1>3. CASE (\E e \in Events : Webhook(e)) \/ NextItem
  BY <1>2, <1>3, ItemType DEF Webhook, NextItem
<1>4. CASE Working \/ WorkFails
  <2>1. CASE SubmitSeen \/ \E saved \in BOOLEAN : Submit(saved)
    BY <2>1, <1>1, RaiseStep DEF SubmitSeen, Submit, Submitted, Goto, durable, queue, memory, CallServed
  <2>2. CASE ~(SubmitSeen \/ \E saved \in BOOLEAN : Submit(saved))
    <3>1. at \in {"run", "work", "failing"} /\ taken' = taken
      BY <1>4, <2>2 DEF Working, WorkFails, RunEmpty, Claim, Ack, JobFails, Fail, durable, queue, memory
    <3>2. QED
      BY <1>1, <1>4, <3>1, WorkStep, RaiseStep DEF WorkMoves, Goto, CallServed
  <2>3. QED
    BY <2>1, <2>2
<1>5. CASE Handle
  <2>1. event \in Events /\ event \in taken
    BY <1>5 DEF Handle, Typed, CallOK, UnderWay, CallServed
  <2>2. at' = "send" /\ event' = event /\ delivery' = 1 /\ taken' = taken
    BY <1>5 DEF Handle, Goto, durable, queue, memory
  <2>3. \A d \in 1..Deliveries(event') : ~(d < delivery')
    BY <2>1, <2>2, DeliveriesBound
  <2>4. QED
    BY <2>1, <2>2, <2>3 DEF CallServed
<1>6. CASE Send
  <2>1. /\ event \in Events /\ delivery \in Nat
        /\ \A d \in 1..Deliveries(event) :
             sent'[event][d] = IF d = delivery THEN sent[event][d] + 1 ELSE sent[event][d]
    BY <1>6, DeliveredStep DEF Send, Typed, CallOK
  <2>2. \A d \in 1..Deliveries(event) : sent[event][d] \in Nat
    BY <2>1 DEF Typed, SentOK
  <2>3. ASSUME NEW d \in 1..Deliveries(event), d < delivery + 1
        PROVE  sent'[event][d] > 0
    <3>1. d \in Nat /\ sent[event][d] \in Nat
      BY <2>1, <2>2, <2>3, DeliveriesBound
    <3>2. CASE d = delivery
      BY <2>1, <2>3, <3>1, <3>2
    <3>3. CASE d < delivery
      <4>1. at = "send" /\ sent[event][d] > 0
        BY <1>6, <2>3, <3>3 DEF Send, CallServed
      <4>2. QED
        BY <2>1, <2>3, <3>1, <3>3, <4>1
    <3>4. QED
      BY <2>1, <2>3, <3>1, <3>2, <3>3
  <2>4. at' = at /\ event' = event /\ delivery' = delivery + 1 /\ taken' = taken /\ at = "send"
    BY <1>6 DEF Send, queue, memory
  <2>5. QED
    BY <2>3, <2>4 DEF CallServed
<1>7. CASE SendFails \/ SendUnconfirmed \/ FetchFails
  <2>1. CASE Raise
    BY <1>1, <2>1, RaiseStep
  <2>2. CASE UNCHANGED <<at, event, delivery>>
    <3>1. taken' = taken
      BY <1>7 DEF SendFails, SendUnconfirmed, FetchFails, durable, queue, memory
    <3>2. at = "send" => event \in Events
      BY DEF Typed, CallOK, UnderWay
    <3>3. QED
      BY <2>2, <3>1, <3>2, NothingTakenBack DEF CallServed
  <2>3. QED
    BY <1>7, <2>1, <2>2, RetryStep DEF SendFails, SendUnconfirmed, FetchFails
<1>8. CASE StartSync \/ CallRaises \/ Crash \/ Record \/ FetchPage \/ NextPage
  BY <1>1, <1>8, LeaveStep, RaiseStep DEF StartSync, CallRaises, Crash, Record, FetchPage, NextPage,
     SyncReturns, Home
<1>9. CASE UNCHANGED vars
  BY <1>9 DEF vars, durable, queue, memory, call, CallServed
<1>10. QED
  BY <1>3, <1>4, <1>5, <1>6, <1>7, <1>8, <1>9 DEF Next, Step, Failure

LEMMA ServedAlways == Spec => []Served
<1>1. Init => Served
  BY DEF Init, Served, CallServed, Whole, Kept, Queue, In
<1>2. ASSUME Typed, Paged, Served, [Next]_vars PROVE Served'
  <2>1. Whole(Queue)' /\ Whole(file)'
    BY <1>2, WholeNext, MemoryWhole DEF Served, Whole, Kept, Queue, InMemory
  <2>2. QED
    BY <1>2, <2>1, LedgerServed, CallServedNext DEF Served
<1>3. QED
  BY <1>1, <1>2, TypedAlways, PTL DEF Spec

\* The ledger suppresses an event only when nothing of it can be missing,
\* whatever failed, died or was repeated before it was recorded, but for
\* evidence that a restart loses before a failed save was made good.
THEOREM SuppressionIsSafe == Spec => []SuppressedIsServed
<1>1. Served => SuppressedIsServed
  BY DEF Served, SuppressedIsServed, Recorded, Whole, Queue
<1>2. QED
  BY <1>1, ServedAlways, PTL

\* Where every save succeeds the file is the queue, whatever else fails.
OnFile == file = Queue /\ dropped = {}

\* The evidence of what the ledger suppresses is in the queue's file, or settled
\* there, so that no restart can lose it.
SuppressedIsOnFile == \A e \in ledger \cap Allowed : e \in Kept(file)

\* Where no save of the queue fails, the evidence of a suppressed event is on
\* file, whatever raises, fails or dies: only a failed save can lose it.
THEOREM SuppressionIsDurable ==
  ASSUME "disk" \notin FaultKinds
  PROVE  Spec => []SuppressedIsOnFile
<1>1. Init => OnFile
  BY DEF Init, OnFile
<1>2. ASSUME Typed, OnFile, [Next]_vars PROVE OnFile'
  <2>1. ASSUME NEW saved \in BOOLEAN, Persist(saved) PROVE file' = Queue'
    BY <2>1 DEF Persist, Fault
  <2>2. CASE Working \/ WorkFails
    BY <1>2, <2>1, <2>2 DEF OnFile, Working, WorkFails, SubmitSeen, Submit, RunEmpty, Claim, Ack, JobFails, Fail,
       durable, queue, memory, Queue
  <2>3. CASE Crash
    BY <1>2, <2>3 DEF OnFile, Crash, Queue
  <2>4. CASE ~(Working \/ WorkFails \/ Crash)
    <3>1. UNCHANGED queue
      BY <1>2, <2>4 DEF Next, vars, durable, Step, Failure, Webhook, StartSync, Handle, Send, Record, FetchPage,
         NextItem, NextPage, CallRaises, SendFails, SendUnconfirmed, FetchFails
    <3>2. QED
      BY <1>2, <3>1 DEF OnFile, queue, memory, Queue
  <2>5. QED
    BY <2>2, <2>3, <2>4
<1>3. Served /\ OnFile => SuppressedIsOnFile
  BY DEF Served, SuppressedIsOnFile, OnFile, Recorded, Whole, Queue
<1>4. QED
  BY <1>1, <1>2, <1>3, TypedAlways, ServedAlways, PTL DEF Spec

-----------------------------------------------------------------------------
(* sync() passes over no item: what precedes its cursor is recorded, and of *)
(* its page what precedes the current item is recorded or under way.        *)

Walked ==
  syncing =>
    /\ \A i \in 1..cursor : Feed[i] \in ledger
    /\ at # "fetch" =>
         /\ page = PageAt(cursor)
         /\ \A k \in 1..Len(page) : k < item => page[k] \in ledger \/ (UnderWay /\ page[k] = event)

\* The provider's page is the stretch of the feed after the cursor.
LEMMA PageElements ==
  ASSUME SyncOK
  PROVE  /\ Len(PageAt(cursor)) = MinOf(cursor + Limit, Len(Feed)) - cursor
         /\ \A k \in 1..Len(PageAt(cursor)) : PageAt(cursor)[k] = Feed[cursor + k]
<1>1. cursor \in 0..Len(Feed) /\ Feed \in Seq(Events) /\ Len(Feed) \in Nat
  BY FeedType DEF SyncOK
<1> DEFINE last == MinOf(cursor + Limit, Len(Feed))
<1>2. last \in Nat /\ cursor <= last /\ last <= Len(Feed)
  BY <1>1 DEF MinOf
<1>3. /\ Len(SubSeq(Feed, cursor + 1, last)) = last - cursor
      /\ \A k \in 1..(last - cursor) : SubSeq(Feed, cursor + 1, last)[k] = Feed[cursor + k]
  <2>1. cursor + 1 \in 1..(Len(Feed) + 1) /\ last \in cursor..Len(Feed)
    BY <1>1, <1>2
  <2>2. /\ Len(SubSeq(Feed, cursor + 1, last)) = last - (cursor + 1) + 1
        /\ \A k \in 1..(last - (cursor + 1) + 1) : SubSeq(Feed, cursor + 1, last)[k] = Feed[cursor + 1 + k - 1]
    BY <1>1, <1>2, <2>1, SubSeqProperties
  <2>3. last - (cursor + 1) + 1 = last - cursor /\ \A k \in Nat : cursor + 1 + k - 1 = cursor + k
    BY <1>1, <1>2
  <2>4. Len(SubSeq(Feed, cursor + 1, last)) = last - cursor
    BY <2>2, <2>3
  <2>5. ASSUME NEW k \in 1..(last - cursor)
        PROVE  SubSeq(Feed, cursor + 1, last)[k] = Feed[cursor + k]
    <3>1. k \in 1..(last - (cursor + 1) + 1) /\ cursor + 1 + k - 1 = cursor + k
      BY <1>1, <1>2
    <3>2. SubSeq(Feed, cursor + 1, last)[k] = Feed[cursor + 1 + k - 1]
      BY <2>2, <3>1
    <3>3. QED
      BY <3>1, <3>2
  <2>6. QED
    BY <2>4, <2>5
<1>4. QED
  BY <1>3 DEF PageAt

\* Once all of a page is recorded, so is the feed to the page's end.
LEMMA PageRecorded ==
  ASSUME Typed, syncing, Walked, at = "items", item > Len(page)
  PROVE  /\ HasNextCursor => \A i \in 1..(cursor + Limit) : Feed[i] \in ledger
         /\ ~HasNextCursor => Events \subseteq ledger
<1>1. /\ cursor \in 0..Len(Feed) /\ item \in Nat /\ Len(Feed) \in Nat
      /\ page = PageAt(cursor) /\ ~UnderWay
  BY FeedType DEF Typed, SyncOK, Walked, UnderWay
<1>2. /\ Len(page) = MinOf(cursor + Limit, Len(Feed)) - cursor
      /\ \A k \in 1..Len(page) : page[k] = Feed[cursor + k]
  BY <1>1, PageElements DEF Typed
<1>3. \A k \in 1..Len(page) : page[k] \in ledger
  <2>1. \A k \in 1..Len(page) : k < item
    BY <1>1, <1>2 DEF MinOf
  <2>2. QED
    BY <1>1, <2>1 DEF Walked
<1>4. ASSUME NEW i \in 1..Len(Feed), i <= cursor + Limit PROVE Feed[i] \in ledger
  <2>1. CASE i <= cursor
    BY <1>1, <2>1 DEF Walked
  <2>2. CASE i > cursor
    <3>1. i - cursor \in 1..Len(page) /\ cursor + (i - cursor) = i
      BY <1>1, <1>2, <1>4, <2>2 DEF MinOf
    <3>2. QED
      BY <1>2, <1>3, <3>1
  <2>3. QED
    BY <1>1, <2>1, <2>2
<1>5. HasNextCursor => \A i \in 1..(cursor + Limit) : Feed[i] \in ledger
  BY <1>1, <1>4 DEF HasNextCursor
<1>6. ~HasNextCursor => Events \subseteq ledger
  BY <1>1, <1>4 DEF HasNextCursor, Events
<1>7. QED
  BY <1>5, <1>6

\* A row of the ledger is never removed.
LEMMA LedgerGrows ==
  ASSUME Typed, [Next]_vars
  PROVE  ledger \subseteq ledger'
BY WorkStep DEF WorkMoves, Next, vars, durable, Step, Failure, Webhook, StartSync, Handle, Send, Record,
   FetchPage, NextItem, NextPage, CallRaises, SendFails, SendUnconfirmed, FetchFails, Crash

LEMMA WalkedNext ==
  ASSUME Typed, Paged, Walked, [Next]_vars
  PROVE  Walked'
<1>1. ASSUME ~syncing' PROVE Walked'
  BY <1>1 DEF Walked
<1>2. ASSUME UNCHANGED paging, syncing => (at = "fetch" <=> at' = "fetch"),
             UnderWay => event \in ledger' \/ (UnderWay' /\ event' = event)
      PROVE  Walked'
  BY <1>2, LedgerGrows DEF Walked, paging, PageAt
<1>3. CASE \E e \in Events : Webhook(e)
  BY <1>1, <1>3 DEF Webhook, Paged, paging
<1>4. CASE StartSync
  <2>1. cursor' = 0 /\ at' = "fetch"
    BY <1>4, LeaveStep DEF StartSync
  <2>2. QED
    BY <2>1 DEF Walked
<1>5. CASE Handle
  BY <1>2, <1>5 DEF Handle, Goto, UnderWay
<1>15. CASE Working \/ WorkFails
  <2>1. WorkMoves
    BY <1>15, WorkStep
  <2>2. CASE Raise
    BY <1>1, <2>2 DEF Raise
  <2>3. CASE ~Raise
    BY <1>2, <2>1, <2>3 DEF WorkMoves, Goto, UnderWay
  <2>4. QED
    BY <2>2, <2>3
<1>6. CASE Send
  BY <1>2, <1>6 DEF Send, UnderWay
<1>7. CASE Record
  BY <1>2, <1>7 DEF Record, Leave, Home, Paged, UnderWay
<1>8. CASE CallRaises \/ Crash
  BY <1>1, <1>8 DEF CallRaises, Crash, Raise
<1>9. CASE SendFails \/ SendUnconfirmed \/ FetchFails
  <2>1. CASE Raise
    BY <1>1, <2>1 DEF Raise
  <2>2. CASE UNCHANGED <<at, event, delivery, paging>>
    BY <1>2, <2>2 DEF paging, UnderWay
  <2>3. QED
    BY <1>9, <2>1, <2>2, RetryStep DEF SendFails, SendUnconfirmed, FetchFails
<1>10. CASE FetchPage
  <2>1. CASE SyncReturns
    BY <1>1, <2>1 DEF SyncReturns
  <2>2. CASE page' = PageAt(cursor) /\ item' = 1 /\ Leave("items") /\ UNCHANGED <<syncing, cursor, synced>>
    <3>1. ledger' = ledger
      BY <1>10 DEF FetchPage, durable
    <3>2. page' = PageAt(cursor)'
      BY <2>2 DEF PageAt
    <3>3. \A k \in 1..Len(page') : ~(k < item')
      <4>1. Len(page') \in Nat
        BY <2>2, PageType DEF Typed
      <4>2. QED
        BY <2>2, <4>1
    <3>4. QED
      BY <2>2, <3>1, <3>2, <3>3 DEF Walked
  <2>3. QED
    BY <1>10, <2>1, <2>2 DEF FetchPage
<1>11. CASE NextItem
  <2>1. /\ at = "items" /\ syncing /\ item \in 1..Len(page) /\ page[item] \in Events
        /\ item' = item + 1 /\ UNCHANGED <<ledger, syncing, page, cursor>> /\ ~UnderWay
    BY <1>11, ItemType DEF NextItem, Paged, durable, UnderWay
  <2>2. at' # "fetch" /\ (page[item] \in ledger \/ (UnderWay' /\ event' = page[item]))
    BY <1>11, <2>1, AcceptStep, LeaveStep, GotoStep DEF NextItem, Home
  <2>3. ASSUME NEW k \in 1..Len(page), k < item'
        PROVE  page[k] \in ledger \/ (UnderWay' /\ page[k] = event')
    <3>1. Len(page) \in Nat
      BY DEF Typed, SyncOK
    <3>2. CASE k = item
      BY <2>2, <3>2
    <3>3. CASE k < item
      BY <2>1, <3>3 DEF Walked
    <3>4. QED
      BY <2>1, <2>3, <3>1, <3>2, <3>3
  <2>4. page' = PageAt(cursor)' /\ \A i \in 1..cursor' : Feed[i] \in ledger'
    BY <2>1 DEF Walked, PageAt
  <2>5. QED
    BY <2>1, <2>3, <2>4 DEF Walked
<1>12. CASE NextPage
  <2>1. CASE SyncReturns
    BY <1>1, <2>1 DEF SyncReturns
  <2>2. CASE /\ cursor' = IF HasNextCursor THEN cursor + Limit ELSE 0
             /\ Leave("fetch")
    <3>1. \A i \in 1..cursor' : Feed[i] \in ledger
      <4>1. CASE HasNextCursor
        BY <1>12, <2>2, <4>1, PageRecorded DEF NextPage, Paged
      <4>2. CASE ~HasNextCursor
        BY <2>2, <4>2
      <4>3. QED
        BY <4>1, <4>2
    <3>2. ledger' = ledger /\ at' = "fetch"
      BY <1>12, <2>2 DEF NextPage, durable, Leave
    <3>3. QED
      BY <3>1, <3>2 DEF Walked
  <2>3. QED
    BY <1>12, <2>1, <2>2 DEF NextPage
<1>13. CASE UNCHANGED vars
  BY <1>2, <1>13 DEF vars, call, UnderWay
<1>14. QED
  BY <1>3, <1>4, <1>5, <1>6, <1>7, <1>8, <1>9, <1>10, <1>11, <1>12, <1>13, <1>15 DEF Next, Step, Failure

\* A sync() that returns has left no event of the feed unrecorded, whatever
\* calls before it raised or died half-way.
THEOREM NothingIsSkipped == Spec => []SyncIsComplete
<1>1. Init => Walked /\ SyncIsComplete
  BY DEF Init, Walked, SyncIsComplete
<1>2. ASSUME Typed, Paged, Walked, SyncIsComplete, [Next]_vars PROVE SyncIsComplete'
  <2>1. CASE UNCHANGED synced
    BY <1>2, <2>1, LedgerGrows DEF SyncIsComplete
  <2>2. CASE FetchPage /\ SyncReturns
    <3>1. PageAt(cursor) = <<>> /\ ledger' = ledger /\ syncing
      BY <1>2, <2>2, FeedType DEF FetchPage, SyncReturns, Leave, durable, Paged
    <3>2. cursor = Len(Feed)
      <4>1. cursor \in 0..Len(Feed) /\ Len(Feed) \in Nat
        BY <1>2, FeedType DEF Typed, SyncOK
      <4>2. MinOf(cursor + Limit, Len(Feed)) - cursor = 0
        BY <1>2, <3>1, PageElements DEF Typed
      <4>3. QED
        BY <4>1, <4>2 DEF MinOf
    <3>3. \A i \in 1..Len(Feed) : Feed[i] \in ledger'
      BY <1>2, <3>1, <3>2 DEF Walked
    <3>4. QED
      BY <3>3 DEF SyncIsComplete, Events
  <2>3. CASE NextPage /\ SyncReturns
    <3>1. ~HasNextCursor
      BY <2>3, FeedType DEF NextPage, SyncReturns, Leave
    <3>2. QED
      BY <1>2, <2>3, <3>1, PageRecorded DEF NextPage, durable, Paged, SyncIsComplete
  <2>4. QED
    BY <1>2, <2>1, <2>2, <2>3, WorkStep DEF WorkMoves, Next, vars, durable, call, paging, Step, Failure, Webhook,
       StartSync, Handle, Send, Record, FetchPage, NextItem, NextPage, CallRaises, SendFails,
       SendUnconfirmed, FetchFails, Crash
<1>3. QED
  BY <1>1, <1>2, WalkedNext, TypedAlways, PTL DEF Spec

-----------------------------------------------------------------------------
(* What a fault costs: an event that is not recorded is answered from the   *)
(* start, so each of its deliveries may reach the conversation once more.   *)

\* The faults that interrupt an answer which is partly out.
Repeating == {"unsent", "unconfirmed", "crash"} \cap FaultKinds

Cost == IF Repeating = {} THEN 0 ELSE faults

\* Before its delivery is sent an event in an answer under way has cost the
\* faults so far, and one more afterwards.
Repeated ==
  \A e \in Events : \A d \in 1..Deliveries(e) :
    IF e \in ledger \/ (at = "send" /\ event = e /\ d < delivery)
    THEN sent[e][d] <= Cost + 1
    ELSE sent[e][d] <= Cost

LEMMA SentType ==
  ASSUME Typed
  PROVE  /\ \A e \in Events : \A d \in 1..Deliveries(e) : sent[e][d] \in Nat
         /\ Cost \in Nat
BY DEF Typed, SentOK, Cost

LEMMA CostGrows ==
  ASSUME Typed, UNCHANGED faults \/ \E kind \in AllFaults : Fault(kind)
  PROVE  Cost' \in Nat /\ Cost <= Cost'
BY DEF Typed, Fault, Cost, Repeating

LEMMA CostOfRepeat ==
  ASSUME Typed, NEW kind \in {"unsent", "unconfirmed", "crash"}, Fault(kind)
  PROVE  Cost' = Cost + 1
BY DEF Typed, Fault, Cost, Repeating

\* A step that sends nothing and does not break an answer off.
LEMMA SameRepeated ==
  ASSUME Typed, Repeated, sent' = sent, Cost' \in Nat, Cost <= Cost', ledger' = ledger,
         UNCHANGED <<at, event, delivery>> \/ at # "send",
         at # "send" => (at' # "send" \/ delivery' = 1)
  PROVE  Repeated'
<1>1. SUFFICES ASSUME NEW e \in Events, NEW d \in 1..Deliveries(e)
               PROVE  IF e \in ledger' \/ (at' = "send" /\ event' = e /\ d < delivery')
                      THEN sent'[e][d] <= Cost' + 1
                      ELSE sent'[e][d] <= Cost'
  BY DEF Repeated, Deliveries
<1>2. sent[e][d] \in Nat /\ Cost \in Nat /\ d >= 1
  BY SentType, DeliveriesBound
<1>3. IF e \in ledger \/ (at = "send" /\ event = e /\ d < delivery)
      THEN sent[e][d] <= Cost + 1
      ELSE sent[e][d] <= Cost
  BY DEF Repeated
<1>4. (at' = "send" /\ d < delivery') <=> (at = "send" /\ at' = "send" /\ d < delivery')
  BY <1>2
<1>5. QED
  BY <1>2, <1>3, <1>4

\* An answer that breaks off costs a fault, which pays for its repetition.
LEMMA BrokenOff ==
  ASSUME Typed, Repeated, sent' = sent, ledger' = ledger, at' # "send", Cost' = Cost + 1
  PROVE  Repeated'
<1>1. SUFFICES ASSUME NEW e \in Events, NEW d \in 1..Deliveries(e)
               PROVE  sent'[e][d] <= Cost'
  <2>1. Cost' \in Nat
    BY SentType
  <2>2. \A e \in Events : \A d \in 1..Deliveries(e) : sent'[e][d] \in Nat
    BY SentType
  <2>3. QED
    BY <1>1, <2>1, <2>2 DEF Repeated, Deliveries
<1>2. sent[e][d] \in Nat /\ Cost \in Nat
  BY SentType
<1>3. QED
  BY <1>2 DEF Repeated

LEMMA RepeatedNext ==
  ASSUME Typed, Paged, Fresh, Repeated, [Next]_vars
  PROVE  Repeated'
<1>0. ASSUME UNCHANGED faults PROVE Cost' \in Nat /\ Cost <= Cost'
  BY <1>0, CostGrows
<1>1. CASE (\E e \in Events : Webhook(e)) \/ NextItem
  <2>1. ASSUME NEW e, Accept(e) PROVE at' # "send" \/ delivery' = 1
    BY <2>1 DEF Accept, Goto, Leave, Home
  <2>2. UNCHANGED <<sent, ledger, faults>> /\ at # "send"
    BY <1>1 DEF Webhook, NextItem, durable
  <2>3. at' # "send" \/ delivery' = 1
    BY <1>1, <2>1 DEF Webhook, NextItem
  <2>4. QED
    BY <1>0, <2>2, <2>3, SameRepeated
<1>2. CASE Handle \/ StartSync \/ FetchPage \/ NextPage
  <2>1. UNCHANGED <<sent, ledger, faults>> /\ at # "send" /\ (at' # "send" \/ delivery' = 1)
    BY <1>2 DEF Handle, StartSync, FetchPage, NextPage, Goto, Leave, SyncReturns, durable
  <2>2. QED
    BY <1>0, <2>1, SameRepeated
<1>11. CASE Working \/ WorkFails
  <2>1. WorkMoves
    BY <1>11, WorkStep
  <2>2. at # "send" /\ at' # "send" /\ UNCHANGED <<sent, ledger>>
    BY <2>1 DEF WorkMoves, Raise, Leave
  <2>3. Cost' \in Nat /\ Cost <= Cost'
    BY <2>1, CostGrows DEF WorkMoves
  <2>4. QED
    BY <2>2, <2>3, SameRepeated
<1>3. CASE CallRaises \/ FetchFails
  <2>1. UNCHANGED <<sent, ledger>> /\ at # "send" /\ at' # "send" /\ \E kind \in AllFaults : Fault(kind)
    BY <1>3 DEF CallRaises, FetchFails, Retry, Raise, Goto, Leave, durable, AllFaults
  <2>2. QED
    BY <2>1, CostGrows, SameRepeated
<1>4. CASE SendFails
  <2>1. /\ at = "send" /\ Fault("unsent") /\ UNCHANGED <<sent, ledger>>
        /\ at' # "send" \/ UNCHANGED <<at, event, delivery>>
    BY <1>4 DEF SendFails, Retry, Raise, Leave, durable
  <2>2. Cost' = Cost + 1 /\ Cost' \in Nat /\ Cost <= Cost'
    BY <2>1, CostOfRepeat, SentType, CostGrows DEF AllFaults
  <2>3. QED
    BY <2>1, <2>2, BrokenOff, SameRepeated
<1>5. CASE Crash
  <2>1. Fault("crash") /\ UNCHANGED <<sent, ledger>> /\ at' # "send"
    BY <1>5 DEF Crash, Raise, Leave, durable
  <2>2. QED
    BY <2>1, CostOfRepeat, BrokenOff
<1>6. CASE SendUnconfirmed
  <2>1. /\ at = "send" /\ delivery <= Deliveries(event) /\ sent' = Delivered
        /\ Fault("unconfirmed") /\ ledger' = ledger
        /\ at' # "send" \/ UNCHANGED <<at, event, delivery>>
    BY <1>6 DEF SendUnconfirmed, Retry, Raise, Leave
  <2>2. Cost' = Cost + 1 /\ Cost \in Nat
    BY <2>1, CostOfRepeat, SentType
  <2>3. event \notin ledger /\ event \in Events
    BY <2>1, DeliveredStep DEF Fresh, UnderWay
  <2>4. SUFFICES ASSUME NEW e \in Events, NEW d \in 1..Deliveries(e)
                 PROVE  /\ e \in ledger => sent'[e][d] <= Cost' + 1
                        /\ e \notin ledger => sent'[e][d] <= Cost'
    <3>1. \A e \in Events : Deliveries(e)' = Deliveries(e)
      BY DEF Deliveries
    <3>2. SentOK'
      BY <2>1, DeliveredStep
    <3>3. \A e \in Events : \A d \in 1..Deliveries(e) : sent'[e][d] \in Nat
      BY <3>1, <3>2 DEF SentOK
    <3>4. QED
      BY <2>1, <2>2, <2>4, <3>1, <3>3 DEF Repeated
  <2>5. sent[e][d] \in Nat
    BY SentType
  <2>6. CASE e = event
    <3>1. sent'[e][d] = IF d = delivery THEN sent[e][d] + 1 ELSE sent[e][d]
      BY <2>1, <2>6, DeliveredStep
    <3>2. IF d < delivery THEN sent[e][d] <= Cost + 1 ELSE sent[e][d] <= Cost
      BY <2>1, <2>3, <2>6 DEF Repeated
    <3>3. delivery \in Nat /\ d \in Nat
      BY DeliveriesBound DEF Typed, CallOK
    <3>4. sent'[e][d] <= Cost + 1
      BY <2>2, <2>5, <3>1, <3>2, <3>3
    <3>5. QED
      BY <2>2, <2>3, <2>6, <3>4
  <2>7. CASE e # event
    <3>1. sent'[e] = sent[e]
      BY <2>1, <2>7, DeliveredStep
    <3>2. IF e \in ledger THEN sent[e][d] <= Cost + 1 ELSE sent[e][d] <= Cost
      BY <2>7 DEF Repeated
    <3>3. QED
      BY <2>2, <2>5, <3>1, <3>2
  <2>8. QED
    BY <2>6, <2>7
<1>7. CASE Send
  <2>1. /\ at = "send" /\ delivery <= Deliveries(event) /\ sent' = Delivered
        /\ delivery' = delivery + 1 /\ UNCHANGED <<ledger, at, event, faults>>
    BY <1>7 DEF Send
  <2>2. Cost' = Cost /\ Cost \in Nat
    BY <2>1, SentType DEF Cost
  <2>3. event \notin ledger /\ event \in Events
    BY <2>1, DeliveredStep DEF Fresh, UnderWay
  <2>4. delivery \in Nat
    BY DEF Typed, CallOK
  <2>5. ASSUME NEW e \in Events, NEW d \in 1..Deliveries(e)
        PROVE  IF e \in ledger \/ (event = e /\ d < delivery + 1)
               THEN sent'[e][d] <= Cost + 1
               ELSE sent'[e][d] <= Cost
    <3>1. sent[e][d] \in Nat /\ d \in Nat
      BY SentType, DeliveriesBound
    <3>2. IF e \in ledger \/ (event = e /\ d < delivery)
          THEN sent[e][d] <= Cost + 1
          ELSE sent[e][d] <= Cost
      BY <2>1 DEF Repeated
    <3>3. CASE e = event
      <4>1. sent'[e][d] = IF d = delivery THEN sent[e][d] + 1 ELSE sent[e][d]
        BY <2>1, <3>3, DeliveredStep
      <4>2. QED
        BY <2>2, <2>3, <2>4, <3>1, <3>2, <3>3, <4>1
    <3>4. CASE e # event
      <4>1. sent'[e] = sent[e]
        BY <2>1, <3>4, DeliveredStep
      <4>2. QED
        BY <3>2, <3>4, <4>1
    <3>5. QED
      BY <3>3, <3>4
  <2>6. QED
    BY <2>1, <2>2, <2>5 DEF Repeated, Deliveries
<1>8. CASE Record
  <2>1. /\ at = "send" /\ delivery > Deliveries(event) /\ ledger' = ledger \cup {event}
        /\ UNCHANGED <<sent, faults>> /\ at' # "send"
    BY <1>8 DEF Record, Leave, Home
  <2>2. Cost' = Cost /\ Cost \in Nat
    BY <2>1, SentType DEF Cost
  <2>3. delivery \in Nat
    BY DEF Typed, CallOK
  <2>4. ASSUME NEW e \in Events, NEW d \in 1..Deliveries(e)
        PROVE  IF e \in ledger' THEN sent[e][d] <= Cost + 1 ELSE sent[e][d] <= Cost
    <3>1. sent[e][d] \in Nat /\ d \in Nat /\ Deliveries(e) \in Nat /\ d <= Deliveries(e)
      BY SentType, DeliveriesBound
    <3>2. IF e \in ledger \/ (event = e /\ d < delivery)
          THEN sent[e][d] <= Cost + 1
          ELSE sent[e][d] <= Cost
      BY <2>1 DEF Repeated
    <3>3. e = event => d < delivery
      BY <2>1, <2>3, <3>1
    <3>4. QED
      BY <2>1, <2>2, <3>1, <3>2, <3>3
  <2>5. QED
    BY <2>1, <2>2, <2>4 DEF Repeated, Deliveries
<1>9. CASE UNCHANGED vars
  BY <1>9 DEF vars, durable, call, Repeated, Cost, Deliveries
<1>10. QED
  BY <1>1, <1>2, <1>3, <1>4, <1>5, <1>6, <1>7, <1>8, <1>9, <1>11 DEF Next, Step, Failure

LEMMA RepeatedAlways == Spec => []Repeated
<1>1. Init => Repeated
  <2>1. SUFFICES ASSUME Init, NEW e \in Events, NEW d \in 1..Deliveries(e)
                 PROVE  sent[e][d] = 0 /\ Cost = 0 /\ e \notin ledger /\ at # "send"
    BY DEF Repeated
  <2>2. QED
    BY <2>1 DEF Init, Cost
<1>2. Init => Fresh
  BY DEF Init, Fresh, UnderWay
<1>3. QED
  BY <1>1, <1>2, RepeatedNext, FreshNext, TypedAlways, PTL DEF Spec

\* How often a delivery may reach the conversation: once, and once more for
\* every fault of an environment that can break an answer off.
AnsweredAtMost == \A e \in Events : \A d \in 1..Deliveries(e) : sent[e][d] <= 1 + Cost

\* However webhooks, syncs and faults interleave, a delivery is repeated no
\* more often than faults occurred.
THEOREM RepetitionIsPaidFor == Spec => []AnsweredAtMost
<1>1. Typed /\ Repeated => AnsweredAtMost
  <2>1. SUFFICES ASSUME Typed, Repeated, NEW e \in Events, NEW d \in 1..Deliveries(e)
                 PROVE  sent[e][d] <= 1 + Cost
    BY DEF AnsweredAtMost
  <2>2. sent[e][d] \in Nat /\ Cost \in Nat
    BY <2>1, SentType
  <2>3. QED
    BY <2>1, <2>2 DEF Repeated
<1>2. QED
  BY <1>1, RepeatedAlways, TypedAlways, PTL

\* An event is answered once where no send fails and no process dies between
\* its first delivery and its ledger row: jobs that fail and submissions or
\* handlers that raise repeat nothing.
THEOREM AnsweredOnceUnbroken ==
  ASSUME Repeating = {}
  PROVE  Spec => []AnsweredOnce
<1>1. AnsweredAtMost => AnsweredOnce
  BY DEF AnsweredAtMost, AnsweredOnce, Cost
<1>2. QED
  BY <1>1, RepetitionIsPaidFor, PTL

-----------------------------------------------------------------------------
(* sync() and the provider's last page.                                     *)

\* The cursor stands at the start of a page that is not empty.
Aligned ==
  /\ \E m \in Nat : cursor = m * Limit
  /\ cursor < Len(Feed) \/ Len(Feed) = 0

LEMMA FeedLength == Len(Feed) \in Nat /\ Limit \in Nat \ {0} /\ 0 < Limit
<1>1. Len(Feed) \in Nat
  BY FeedType, LenProperties
<1>2. Limit \in Nat \ {0}
  BY AdapterAssumption
<1>3. QED
  BY <1>1, <1>2

LEMMA Times ==
  \A a \in Nat, b \in Nat, c \in Nat :
    a * b \in Nat /\ 0 * b = 0 /\ 1 * b = b /\ (a + c) * b = a * b + c * b
OBVIOUS

LEMMA NextMultiple ==
  ASSUME NEW m \in Nat
  PROVE  /\ 0 * Limit = 0 /\ m * Limit \in Nat /\ m * Limit + Limit = (m + 1) * Limit
         /\ m # 0 => Limit <= m * Limit
<1>1. 0 * Limit = 0 /\ m * Limit \in Nat /\ m * Limit + Limit = (m + 1) * Limit
  BY Times, FeedLength
<1>2. ASSUME m # 0 PROVE Limit <= m * Limit
  <2>1. m - 1 \in Nat /\ (m - 1) + 1 = m
    BY <1>2
  <2>2. (m - 1) * Limit \in Nat /\ ((m - 1) + 1) * Limit = (m - 1) * Limit + 1 * Limit /\ 1 * Limit = Limit
    BY <2>1, Times, FeedLength
  <2>3. m * Limit = (m - 1) * Limit + Limit
    BY <2>1, <2>2
  <2> DEFINE p == m * Limit
             q == (m - 1) * Limit
  <2>4. p = q + Limit /\ q \in Nat
    BY <2>2, <2>3
  <2> HIDE DEF p, q
  <2>5. Limit <= p
    BY <2>4, FeedLength
  <2>6. QED
    BY <2>5 DEF p
<1>3. QED
  BY <1>1, <1>2

LEMMA MultiplesApart ==
  ASSUME NEW m \in Nat, NEW n \in Nat, m * Limit < n * Limit
  PROVE  m * Limit + Limit <= n * Limit
<1> DEFINE p == m * Limit
           q == n * Limit
<1>1. p \in Nat /\ q \in Nat /\ p < q
  BY NextMultiple
<1>2. ASSUME n <= m PROVE FALSE
  <2>1. m - n \in Nat /\ n + (m - n) = m
    BY <1>2
  <2> DEFINE r == (m - n) * Limit
  <2>2. p = q + r /\ r \in Nat
    BY <2>1, Times, FeedLength
  <2> HIDE DEF p, q, r
  <2>3. QED
    BY <1>1, <2>2
<1>3. n - m - 1 \in Nat /\ (m + 1) + (n - m - 1) = n
  BY <1>2
<1> DEFINE r == (n - m - 1) * Limit
           t == (m + 1) * Limit
<1>4. q = t + r /\ r \in Nat /\ t = p + Limit
  BY <1>3, Times, NextMultiple, FeedLength
<1> HIDE DEF p, q, r, t
<1>5. p + Limit <= q
  BY <1>1, <1>4, FeedLength
<1>6. QED
  BY <1>5 DEF p, q

LEMMA AlignedNext ==
  ASSUME Typed, Aligned, [Next]_vars
  PROVE  Aligned'
<1>1. CASE cursor' = cursor
  BY <1>1 DEF Aligned
<1>2. CASE cursor' = 0
  <2>1. 0 = 0 * Limit /\ Len(Feed) \in Nat
    BY NextMultiple, FeedLength
  <2>2. QED
    BY <1>2, <2>1 DEF Aligned
<1>3. CASE HasNextCursor /\ cursor' = cursor + Limit
  <2>1. PICK m \in Nat : cursor = m * Limit
    BY DEF Aligned
  <2>2. cursor' = (m + 1) * Limit
    BY <1>3, <2>1, NextMultiple
  <2>3. QED
    BY <1>3, <2>2 DEF Aligned, HasNextCursor
<1>4. cursor' = cursor \/ cursor' = 0 \/ (HasNextCursor /\ cursor' = cursor + Limit)
  BY WorkStep DEF WorkMoves, Next, vars, paging, Step, Failure, Webhook, StartSync, Handle, Send, Record,
     FetchPage, NextItem, NextPage, CallRaises, SendFails, SendUnconfirmed, FetchFails,
     Crash, SyncReturns, Raise, Retry
<1>5. QED
  BY <1>1, <1>2, <1>3, <1>4

\* A page that is full and the last one ends the feed at a multiple of Limit.
LEMMA FullLastPage ==
  ASSUME Typed, Paged, Walked, Aligned, NextPage
  PROVE  /\ ~HasNextCursor /\ Len(page) < Limit => cursor + Limit # Len(Feed)
         /\ ~HasNextCursor /\ ~(Len(page) < Limit) => cursor + Limit = Len(Feed)
<1>1. at = "items" /\ syncing
  BY DEF NextPage, Paged
<1>2. page = PageAt(cursor) /\ Len(page) = MinOf(cursor + Limit, Len(Feed)) - cursor
  BY <1>1, PageElements DEF Walked, Typed
<1>3. cursor \in Nat /\ Len(Feed) \in Nat /\ cursor <= Len(Feed) /\ Limit \in Nat \ {0}
  BY FeedLength DEF Typed, SyncOK
<1>4. QED
  BY <1>2, <1>3 DEF MinOf, HasNextCursor

\* A feed that ends with a full page: its provider gives no cursor with it,
\* and the loop reads that as a page to go on from.
EndsFull == \E n \in Nat \ {0} : Len(Feed) = n * Limit

LEMMA NeverBack ==
  ASSUME EndsFull, Typed, Paged, Walked, Aligned, ~synced, [Next]_vars
  PROVE  ~synced'
<1>1. PICK n \in Nat \ {0} : Len(Feed) = n * Limit
  BY DEF EndsFull
<1>2. Len(Feed) > 0
  <2>1. Limit <= n * Limit
    BY NextMultiple
  <2>2. QED
    BY <1>1, <2>1, FeedLength
<1>3. PICK m \in Nat : cursor = m * Limit /\ cursor < Len(Feed)
  BY <1>2 DEF Aligned
<1>4. cursor + Limit <= Len(Feed)
  BY <1>1, <1>3, MultiplesApart
<1>5. CASE FetchPage
  <2>1. Len(PageAt(cursor)) = MinOf(cursor + Limit, Len(Feed)) - cursor
    BY PageElements DEF Typed
  <2>2. Len(PageAt(cursor)) = Limit
    <3>1. cursor \in Nat
      BY DEF Typed, SyncOK
    <3>2. QED
      BY <1>4, <2>1, <3>1, FeedLength DEF MinOf
  <2>3. PageAt(cursor) # <<>>
    <3>1. Len(<<>>) = 0
      BY EmptySeq
    <3>2. QED
      BY <2>2, <3>1, FeedLength
  <2>4. QED
    BY <1>5, <2>3 DEF FetchPage
<1>6. CASE NextPage
  <2>1. ~(~HasNextCursor /\ Len(page) < Limit)
    <3>1. cursor \in Nat
      BY DEF Typed, SyncOK
    <3>2. ~HasNextCursor => cursor + Limit = Len(Feed)
      BY <1>4, <3>1, FeedLength DEF HasNextCursor
    <3>3. QED
      BY <1>6, <3>2, FullLastPage
  <2>2. QED
    BY <1>6, <2>1 DEF NextPage
<1>7. CASE ~(FetchPage \/ NextPage)
  BY <1>7, WorkStep DEF WorkMoves, Next, vars, Step, Failure, Webhook, StartSync, Handle, Send, Record,
     NextItem, CallRaises, SendFails, SendUnconfirmed, FetchFails, Crash
<1>8. QED
  BY <1>5, <1>6, <1>7

\* No sync() returns from a feed that ends with a full page, when the provider
\* starts over at cursor None: the loop goes back to the first page for ever.
THEOREM FullLastPageNeverEnds ==
  ASSUME EndsFull
  PROVE  Spec => []~synced
<1>1. Init => ~synced /\ Walked /\ Aligned
  <2>1. SUFFICES ASSUME Init PROVE Aligned
    BY DEF Init, Walked
  <2>2. cursor = 0 * Limit /\ Len(Feed) \in Nat
    BY <2>1, NextMultiple, FeedLength DEF Init
  <2>3. QED
    BY <2>1, <2>2, FeedLength DEF Init, Aligned
<1>2. QED
  BY <1>1, TypedAlways, WalkedNext, AlignedNext, NeverBack, PTL DEF Spec

\* Where in the answer to an item the call is; back at the items, at its end.
CallStep ==
  CASE at = "ingest"  -> 1
    [] at = "run"     -> 2
    [] at = "work"    -> 3
    [] at = "failing" -> 4
    [] at = "handle"  -> 5
    [] at = "send"    -> 5 + delivery
    [] OTHER          -> Replies + 8

\* A step further: a later page, or the page just fetched, or a later item of
\* it, or the next step of the answer to the same item.
Further ==
  \/ cursor < cursor'
  \/ /\ cursor' = cursor
     /\ at' # "fetch"
     /\ \/ at = "fetch"
        \/ item < item'
        \/ item' = item /\ CallStep < CallStep'

Repeats == (SendFails \/ SendUnconfirmed \/ FetchFails) /\ UNCHANGED <<at, delivery, paging>>

\* All that a sync can go through is finite.
Within ==
  /\ cursor \in 0..Len(Feed)
  /\ syncing => item <= Limit + 1
  /\ CallStep \in 1..(Replies + 8)

SyncMoves ==
  [][syncing /\ syncing' => Further \/ Repeats]_vars

LEMMA CallSteps ==
  ASSUME Typed
  PROVE  CallStep \in 1..(Replies + 8) /\ (UnderWay => CallStep < Replies + 8)
<1>0. Replies \in Nat
  BY AdapterAssumption
<1>1. ASSUME at = "send" PROVE delivery \in 1..(Replies + 2)
  <2>1. event \in Events /\ delivery \in 1..(Deliveries(event) + 1)
    BY <1>1 DEF Typed, CallOK, UnderWay
  <2>2. Deliveries(event) \in Nat /\ Deliveries(event) <= Replies + 1
    BY <1>0, <2>1, DeliveriesBound
  <2>3. QED
    BY <1>0, <2>1, <2>2
<1>2. CASE at = "send"
  <2>1. CallStep = 5 + delivery
    BY <1>2 DEF CallStep
  <2>2. QED
    BY <1>0, <1>1, <1>2, <2>1
<1>3. CASE at # "send"
  <2>1. \/ CallStep \in 1..5
        \/ CallStep = Replies + 8 /\ ~UnderWay
    BY <1>3 DEF CallStep, UnderWay, Typed, CallOK
  <2>2. QED
    BY <1>0, <2>1
<1>4. QED
  BY <1>2, <1>3

LEMMA FurtherNext ==
  ASSUME ~EndsFull, Typed, Paged, Walked, Aligned, [Next]_vars, syncing, syncing'
  PROVE  Further \/ Repeats \/ UNCHANGED vars
<1>0. cursor \in Nat /\ item \in Nat /\ delivery \in Nat
  BY FeedLength DEF Typed, SyncOK, CallOK
<1>1. CASE Working \/ WorkFails \/ Handle
  <2>0. CASE Working \/ WorkFails
    <3>1. WorkMoves /\ ~Raise
      BY <2>0, WorkStep DEF Raise
    <3>2. UNCHANGED <<cursor, item>> /\ CallStep < CallStep' /\ at' # "fetch"
      BY <3>1 DEF WorkMoves, paging, CallStep
    <3>3. QED
      BY <3>2 DEF Further
  <2>1. ASSUME Handle PROVE UNCHANGED <<cursor, item>> /\ delivery' = 1
    BY <2>1 DEF Handle, Goto, paging
  <2>2. Handle => at = "handle" /\ at' = "send"
    BY DEF Handle, Goto
  <2>3. QED
    BY <1>1, <2>0, <2>1, <2>2 DEF Further, CallStep
<1>2. CASE Send
  BY <1>0, <1>2 DEF Send, Further, CallStep, paging
<1>3. CASE Record
  <2>1. UNCHANGED <<cursor, item>> /\ at = "send" /\ at' = "items"
    BY <1>3 DEF Record, Leave, Home, paging
  <2>2. CallStep < Replies + 8
    BY <2>1, CallSteps DEF UnderWay
  <2>3. CallStep' = Replies + 8
    BY <2>1 DEF CallStep
  <2>4. QED
    BY <2>1, <2>2, <2>3 DEF Further
<1>4. CASE FetchPage
  BY <1>4 DEF FetchPage, SyncReturns, Leave, Further
<1>5. CASE NextItem
  <2>1. cursor' = cursor /\ item' = item + 1 /\ at' # "fetch"
    BY <1>5 DEF NextItem, Accept, Goto, Leave, Home
  <2>2. QED
    BY <1>0, <2>1 DEF Further
<1>6. CASE NextPage
  <2>1. \/ HasNextCursor /\ cursor' = cursor + Limit
        \/ ~HasNextCursor /\ ~(Len(page) < Limit)
    BY <1>6 DEF NextPage, SyncReturns
  <2>2. ASSUME ~HasNextCursor, ~(Len(page) < Limit) PROVE FALSE
    <3>1. cursor + Limit = Len(Feed)
      BY <1>6, <2>2, FullLastPage
    <3>2. PICK m \in Nat : cursor = m * Limit
      BY DEF Aligned
    <3>3. Len(Feed) = (m + 1) * Limit /\ m + 1 \in Nat \ {0}
      BY <3>1, <3>2, NextMultiple
    <3>4. QED
      BY <3>3 DEF EndsFull
  <2>3. cursor < cursor'
    BY <1>0, <2>1, <2>2, FeedLength
  <2>4. QED
    BY <2>3 DEF Further
<1>7. CASE SendFails \/ SendUnconfirmed \/ FetchFails
  <2>1. UNCHANGED <<at, delivery, paging>>
    BY <1>7 DEF SendFails, SendUnconfirmed, FetchFails, Retry, Raise
  <2>2. QED
    BY <1>7, <2>1 DEF Repeats
<1>8. CASE (\E e \in Events : Webhook(e)) \/ StartSync \/ CallRaises \/ Crash
  BY <1>8 DEF Webhook, StartSync, CallRaises, Crash, Raise, Paged
<1>9. QED
  BY <1>1, <1>2, <1>3, <1>4, <1>5, <1>6, <1>7, <1>8 DEF Next, Step, Failure

LEMMA WithinNext ==
  ASSUME Typed, Paged, Walked, Within, [Next]_vars, Typed'
  PROVE  Within'
<1>1. cursor' \in 0..Len(Feed)
  BY DEF Typed, SyncOK
<1>2. CallStep' \in 1..(Replies + 8)
  <2>0. Replies \in Nat
    BY AdapterAssumption
  <2>1. CASE at' = "send"
    <3>1. event' \in Events /\ delivery' \in 1..(Deliveries(event') + 1)
      BY <2>1 DEF Typed, CallOK, UnderWay, Deliveries
    <3>2. PICK e \in Events : event' = e
      BY <3>1
    <3>3. Deliveries(e) \in Nat /\ Deliveries(e) <= Replies + 1
      BY <2>0, DeliveriesBound
    <3>4. PICK d \in 1..(Deliveries(e) + 1) : delivery' = d
      BY <3>1, <3>2
    <3>5. CallStep' = 5 + d
      BY <2>1, <3>4 DEF CallStep
    <3>6. d \in 1..(Replies + 2)
      BY <2>0, <3>3, <3>4
    <3>7. QED
      BY <2>0, <3>5, <3>6
  <2>2. CASE at' # "send"
    <3>1. CallStep' \in 1..5 \cup {Replies + 8}
      BY <2>2 DEF CallStep
    <3>2. QED
      BY <2>0, <3>1
  <2>3. QED
    BY <2>1, <2>2
<1>3. ASSUME syncing' PROVE item' <= Limit + 1
  <2>1. CASE NextItem
    <3>1. syncing /\ page = PageAt(cursor) /\ item <= Len(page) /\ item' = item + 1
      BY <2>1 DEF NextItem, Paged, Walked
    <3>2. Len(page) = MinOf(cursor + Limit, Len(Feed)) - cursor
      BY <3>1, PageElements DEF Typed
    <3>3. cursor \in Nat /\ item \in Nat /\ cursor <= Len(Feed)
      BY FeedLength DEF Typed, SyncOK
    <3>4. Len(page) <= Limit
      BY <3>2, <3>3, FeedLength DEF MinOf
    <3>5. Len(page) \in Nat
      BY LenProperties DEF Typed, SyncOK
    <3>6. QED
      BY <3>1, <3>3, <3>4, <3>5, FeedLength
  <2>2. CASE ~NextItem
    <3>1. \/ item' \in {0, 1}
          \/ item' = item /\ syncing' = syncing
      BY <2>2, WorkStep DEF WorkMoves, Next, vars, paging, Step, Failure, Webhook, StartSync, Handle, Send,
         Record, FetchPage, NextPage, CallRaises, SendFails, SendUnconfirmed, FetchFails,
         Crash, SyncReturns, Raise, Retry
    <3>2. CASE item' \in {0, 1}
      BY <3>2, FeedLength
    <3>3. CASE item' = item /\ syncing' = syncing
      BY <1>3, <3>3 DEF Within
    <3>4. QED
      BY <3>1, <3>2, <3>3
  <2>3. QED
    BY <2>1, <2>2
<1>4. QED
  BY <1>1, <1>2, <1>3 DEF Within

\* Unless the feed ends with a full page, every step of a sync but the
\* repetition of a failed call takes it further, in an order that is finite:
\* what SyncEnds says of one feed has a measure for all of them.
THEOREM SyncMovesOn ==
  ASSUME ~EndsFull
  PROVE  Spec => []Within /\ SyncMoves
<1>1. Init => Walked /\ Aligned /\ Within
  <2>1. SUFFICES ASSUME Init PROVE Aligned /\ Within
    BY DEF Init, Walked
  <2>2. cursor = 0 * Limit
    BY <2>1, NextMultiple DEF Init
  <2>3. Aligned
    BY <2>1, <2>2, FeedLength DEF Init, Aligned
  <2>4. Within
    <3>1. CallStep = Replies + 8 /\ Replies \in Nat
      BY <2>1, AdapterAssumption DEF Init, CallStep
    <3>2. QED
      BY <2>1, <3>1, FeedLength DEF Init, Within
  <2>5. QED
    BY <2>3, <2>4
<1>2. Typed /\ Paged /\ Walked /\ Aligned /\ [Next]_vars
        => [syncing /\ syncing' => Further \/ Repeats]_vars
  BY FurtherNext
<1>3. QED
  BY <1>1, <1>2, TypedAlways, WalkedNext, AlignedNext, WithinNext, PTL DEF Spec, SyncMoves
=============================================================================
