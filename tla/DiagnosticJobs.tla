--------------------------- MODULE DiagnosticJobs ---------------------------
(***************************************************************************)
(* What the diagnostic broker promises about a job ("signed immutable      *)
(* diagnostic jobs with single-use leases"): it is requested once, leased  *)
(* at most once under a token no other job has, and either one result is   *)
(* recorded under that token or the job expires unleased.                  *)
(***************************************************************************)
EXTENDS Naturals

CONSTANT Jobs

VARIABLES status, token, result

vars == <<status, token, result>>

Init ==
  /\ status = [j \in Jobs |-> "absent"]
  /\ token  = [j \in Jobs |-> 0]
  /\ result = [j \in Jobs |-> 0]

Request(j) ==
  /\ status[j] = "absent"
  /\ status' = [status EXCEPT ![j] = "pending"]
  /\ UNCHANGED <<token, result>>

Expire(j) ==
  /\ status[j] = "pending"
  /\ status' = [status EXCEPT ![j] = "expired"]
  /\ UNCHANGED <<token, result>>

\* The new token is larger than every token granted before.
Lease(j) ==
  /\ status[j] = "pending"
  /\ status' = [status EXCEPT ![j] = "leased"]
  /\ token' \in [Jobs -> Nat]
  /\ \A k \in Jobs : token[k] < token'[j]
  /\ \A k \in Jobs \ {j} : token'[k] = token[k]
  /\ UNCHANGED result

Record(j) ==
  /\ status[j] = "leased"
  /\ status' = [status EXCEPT ![j] = "completed"]
  /\ result' = [result EXCEPT ![j] = token[j]]
  /\ UNCHANGED token

Next == \E j \in Jobs : Request(j) \/ Expire(j) \/ Lease(j) \/ Record(j)

Spec == Init /\ [][Next]_vars
=============================================================================
