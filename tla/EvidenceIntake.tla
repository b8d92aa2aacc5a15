--------------------------- MODULE EvidenceIntake ---------------------------
(***************************************************************************)
(* What the ingestion queue promises about a piece of evidence once a save *)
(* of the queue file has recorded it: it stays recorded, it is done only   *)
(* when the knowledge store holds it, done is final, and evidence that     *)
(* could not be processed is kept for an operator.  One save may publish   *)
(* the steps of several jobs.                                              *)
(***************************************************************************)
EXTENDS Naturals

CONSTANT Jobs

VARIABLES stage, indexed

vars == <<stage, indexed>>

Stages == {"unknown", "accepted", "done", "quarantined"}

Init ==
  /\ stage = [j \in Jobs |-> "unknown"]
  /\ indexed = {}

Index == \E j \in Jobs : indexed' = indexed \cup {j} /\ UNCHANGED stage

Moves ==
  {<<s, s>> : s \in Stages} \cup
  {<<"unknown", "accepted">>, <<"accepted", "done">>,
   <<"accepted", "quarantined">>, <<"quarantined", "accepted">>}

Save ==
  /\ stage' \in [Jobs -> Stages]
  /\ \A j \in Jobs :
       /\ <<stage[j], stage'[j]>> \in Moves
       /\ stage'[j] = "done" => j \in indexed
  /\ UNCHANGED indexed

Next == Index \/ Save

Spec == Init /\ [][Next]_vars
=============================================================================
