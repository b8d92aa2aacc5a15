--------------------------- MODULE IngestionWorker ---------------------------
(***************************************************************************)
(* The worker thread of the ingestion service (process_loop): a pass of     *)
(* DirectoryWatcher over the landing tree, which submits what is new or     *)
(* changed, and then process_next until it returns None; over and over.     *)
(* It is the one caller of IngestionQueue, whose steps it takes.            *)
(*                                                                         *)
(* Others write, replace and remove files at any moment, also between the   *)
(* reads of one file: stat, the bytes submit_file takes, and the bytes      *)
(* quarantine_file takes once more.  An exception that no watcher catches   *)
(* ends the thread, not the process.                                        *)
(***************************************************************************)
EXTENDS IngestionQueue

CONSTANTS
  Paths,      \* the names in the tree, numbered in sorted order
  Contents,   \* what a file can hold
  Reads,      \* what submit_file and quarantine_file make of <<path, content>>
  MaxWrites   \* bound on the number of writes and removals

JobsOf(read)    == {read.jobs[i] : i \in DOMAIN read.jobs}
MayBeInvalid(p) == \E f \in DOMAIN Reads : f[1] = p /\ Reads[f].end = "invalid"

ASSUME WorkerAssumption ==
  /\ Paths \subseteq Nat
  /\ DOMAIN Reads \subseteq Paths \X Contents
  /\ \A f \in DOMAIN Reads :
       /\ Reads[f] \in [jobs : Seq(Jobs), end : {"taken", "invalid", "raises"}, refused : Jobs \cup {0}]
       /\ JobsOf(Reads[f]) \cap Malformed = {}
       /\ Reads[f].refused \in Malformed \cup {0}
       /\ Reads[f].end = "invalid" => Reads[f].jobs = <<>>
       \* whatever lies at a path whose bytes may be refused
       /\ MayBeInvalid(f[1]) => Reads[f].refused # 0
  /\ MaxWrites \in Nat

VARIABLES
  \* the landing tree
  tree,      \* what lies at each path: its content and its size and mtime
  writes,    \* the number of changes to it
  \* the watcher
  observed,  \* the size and mtime at which a path was last submitted, or 0
  \* the thread
  turn,      \* where in process_loop and scan() it is
  todo,      \* the paths this pass has yet to look at
  hand       \* the file it works on

landing    == <<tree, writes>>
scanning   == <<observed, turn, todo, hand>>
workerVars == <<vars, landing, scanning>>

Absent == [content |-> "absent", mark |-> 0]
NoFile == [path |-> 0, mark |-> 0, jobs |-> <<>>, end |-> "taken"]

Here(p)    == tree[p] # Absent
Reading(p) == Reads[<<p, tree[p].content>>]

ServiceInit ==
  /\ Init
  /\ tree = [p \in Paths |-> Absent] /\ writes = 0
  /\ observed = [p \in Paths |-> 0]
  /\ turn = "list" /\ todo = {} /\ hand = NoFile

\* Which bytes submit_file rejects with ArtifactValidationError, after which
\* the watcher quarantines the file, and which it cannot parse at all.
Invalid(p)    == Reading(p).end = "invalid"
Unparsable(r) == r.end = "raises"

(***************************************************************************)
(* The landing tree: a write gives a path a new size or mtime.              *)
(***************************************************************************)
Change(p, file) ==
  /\ writes < MaxWrites
  /\ tree' = [tree EXCEPT ![p] = file]
  /\ writes' = writes + 1
  /\ UNCHANGED <<vars, scanning>>

Deliver(p, c) == <<p, c>> \in DOMAIN Reads /\ Change(p, [content |-> c, mark |-> writes + 1])
Discard(p)  == Here(p) /\ Change(p, Absent)

(***************************************************************************)
(* scan(): the paths in sorted order, listed at its start                   *)
(***************************************************************************)
Die == turn' = "dead" /\ UNCHANGED <<observed, todo, hand>>

List ==
  /\ turn = "list"
  /\ todo' = {p \in Paths : Here(p)}
  /\ turn' = "look"
  /\ UNCHANGED <<vars, landing, observed, hand>>

\* The next path of the pass.
Looks(p) == turn = "look" /\ p \in todo /\ \A q \in todo : p <= q

\* Gone, or as it was when it was last submitted.
Skip(p) ==
  /\ Looks(p)
  /\ ~Here(p) \/ observed[p] = tree[p].mark
  /\ todo' = todo \ {p}
  /\ UNCHANGED <<vars, landing, observed, turn, hand>>

\* is_file() and stat(): the marker is taken before the bytes.
Stat(p) ==
  /\ Looks(p)
  /\ Here(p) /\ observed[p] # tree[p].mark
  /\ hand' = [NoFile EXCEPT !.path = p, !.mark = tree[p].mark]
  /\ turn' = "read"
  /\ UNCHANGED <<vars, landing, observed, todo>>

ScanEnds ==
  /\ turn = "look" /\ todo = {}
  /\ turn' = "work"
  /\ UNCHANGED <<vars, landing, observed, todo, hand>>

\* A file that was moved away after stat(): FileNotFoundError leaves scan().
Vanished ==
  /\ turn \in {"read", "refuse"}
  /\ ~Here(hand.path)
  /\ Die
  /\ UNCHANGED <<vars, landing>>

\* submit_file() reads the bytes and expands an archive before it submits.
Read ==
  /\ turn = "read"
  /\ Here(hand.path)
  /\ LET r == Reading(hand.path) IN
       /\ hand' = [hand EXCEPT !.jobs = r.jobs, !.end = r.end]
       /\ turn' = IF Invalid(hand.path) THEN "refuse" ELSE "submit"
  /\ UNCHANGED <<vars, landing, observed, todo>>

\* Mutant of Observe: the marker of the file as it is by now.
Observe_Late ==
  /\ observed' = [observed EXCEPT ![hand.path] = tree[hand.path].mark]
  /\ turn' = "look" /\ todo' = todo \ {hand.path} /\ hand' = NoFile

Observe ==
  /\ observed' = [observed EXCEPT ![hand.path] = hand.mark]
  /\ turn' = "look" /\ todo' = todo \ {hand.path} /\ hand' = NoFile

\* _enqueue(): a failed save leaves it, the watcher and the loop.
Take(j, saved) == IF j \in seen THEN saved /\ Resubmit(j) ELSE Enqueue(j, saved)

\* The OSError leaves the watcher and the loop.
SubmitFails ==
  /\ (turn = "submit" /\ hand.jobs # <<>>) \/ (turn = "refuse" /\ Here(hand.path))
  /\ LandingFails
  /\ Die
  /\ UNCHANGED landing

SubmitNext(saved) ==
  /\ turn = "submit" /\ hand.jobs # <<>>
  /\ Take(Head(hand.jobs), saved)
  /\ IF saved THEN hand' = [hand EXCEPT !.jobs = Tail(hand.jobs)] /\ UNCHANGED <<observed, turn, todo>>
              ELSE Die
  /\ UNCHANGED landing

\* What cannot be parsed, or is too large, raises a plain ValueError: after
\* the members of the archive that came before it.
SubmitEnds ==
  /\ turn = "submit" /\ hand.jobs = <<>>
  /\ IF Unparsable(hand) THEN Die ELSE Observe
  /\ UNCHANGED <<vars, landing>>

\* quarantine_file() reads the bytes again: what it refuses may be another
\* content than the one that was found invalid.
Refuse(saved) ==
  /\ turn = "refuse"
  /\ Here(hand.path)
  /\ Take(Reading(hand.path).refused, saved)
  /\ turn' = IF saved THEN "refusing" ELSE "dead"
  /\ UNCHANGED <<landing, observed, todo, hand>>

Refusing ==
  /\ turn = "refusing"
  /\ \/ QuarantineSkipped /\ Observe
     \/ QuarantineClaim(TRUE) /\ UNCHANGED scanning
     \/ QuarantineFail(TRUE) /\ Observe
     \/ (QuarantineClaim(FALSE) \/ QuarantineFail(FALSE)) /\ Die
  /\ UNCHANGED landing

(***************************************************************************)
(* while process_next() is not None: a failed job ends the pass like an     *)
(* empty queue; a save that fails in claim() or fail() ends the thread.     *)
(***************************************************************************)
NextPass == turn' = "list" /\ UNCHANGED <<observed, todo, hand>>

Work ==
  /\ turn = "work"
  /\ \/ at = "idle" /\ pending = <<>> /\ NextPass /\ UNCHANGED vars
     \/ (ProcessJob \/ ProcessFails \/ Claim(TRUE)) /\ UNCHANGED scanning
     \/ (\E saved \in BOOLEAN : Milestone(saved) \/ Ack(saved)) /\ UNCHANGED scanning
     \/ Fail(TRUE) /\ NextPass
     \/ (Claim(FALSE) \/ Fail(FALSE)) /\ Die
  /\ UNCHANGED landing

(***************************************************************************)
(* The service dies or is stopped, also when its thread ended before, and   *)
(* starts again: the watcher has forgotten what it saw.                     *)
(***************************************************************************)
StartAgain ==
  /\ Restart
  /\ observed' = [p \in Paths |-> 0]
  /\ turn' = "list" /\ todo' = {} /\ hand' = NoFile
  /\ UNCHANGED landing

\* A program that shares the queue, between two passes.
Operator == turn = "list" /\ Retry /\ UNCHANGED <<landing, scanning>>

(***************************************************************************)
(* The specification                                                       *)
(***************************************************************************)
Scan ==
  \/ List \/ ScanEnds \/ Vanished \/ Read
  \/ SubmitFails \/ SubmitEnds \/ Refusing
  \/ \E p \in Paths : Skip(p) \/ Stat(p)
  \/ \E saved \in BOOLEAN : SubmitNext(saved) \/ Refuse(saved)

Sender == \E p \in Paths : Discard(p) \/ \E c \in Contents : Deliver(p, c)

ServiceNext == Scan \/ Work \/ Sender \/ Operator \/ StartAgain

\* The thread is a loop that waits for nobody.
ServiceSpec == ServiceInit /\ [][ServiceNext]_workerVars /\ WF_workerVars(Scan \/ Work)

(***************************************************************************)
(* Properties                                                              *)
(***************************************************************************)
\* What lies in the tree: the jobs of a file that can be read, or the job
\* under which an invalid one is set aside.
Lying(j) ==
  \E p \in Paths : /\ Here(p)
                   /\ \/ j \in JobsOf(Reading(p))
                      \/ Invalid(p) /\ j = Reading(p).refused

Settled(j) == j \in completed \/ (state[j] = "quarantined" /\ j \in Ids(deadLetters))

\* Whatever is replaced, half copied or refused while it is read, and whatever
\* crashes: as long as nothing ended the thread, what lies in the tree in the
\* end and all that was ever taken is indexed or set aside for an operator.
DeliveredIsSettled ==
  <>[](turn = "dead" \/ \A j \in Jobs : (j \in seen \/ Lying(j)) => Settled(j))
=============================================================================
