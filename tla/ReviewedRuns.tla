------------------------------ MODULE ReviewedRuns ------------------------------
(***************************************************************************)
(* What a client of the playbook API may rely on: a run passes the steps   *)
(* of its playbook one by one, an approval gate only on the latest verdict *)
(* about it, and ends once.  Coroutines, records, crashes and recovery do  *)
(* not show.                                                               *)
(***************************************************************************)
EXTENDS Naturals, Sequences

CONSTANTS
  Runs,
  Plans    \* sequences of step kinds; "approval_gate" is a gate

VARIABLES
  plan,     \* the steps of each run
  status,   \* "absent", "running", "paused", "completed", "failed", "rejected"
  position, \* the step a run is at, counted from 0
  verdict   \* the latest verdict about it: "none", "approve" or "reject"

runVars == <<plan, status, position, verdict>>

Init ==
  /\ plan = [r \in Runs |-> <<>>]
  /\ status = [r \in Runs |-> "absent"]
  /\ position = [r \in Runs |-> 0]
  /\ verdict = [r \in Runs |-> "none"]

AtGate(r) == plan[r][position[r] + 1] = "approval_gate"

Start(r) ==
  /\ status[r] = "absent"
  /\ status' = [status EXCEPT ![r] = "running"]
  /\ \E p \in Plans : plan' = [plan EXCEPT ![r] = p]
  /\ UNCHANGED <<position, verdict>>

\* The run moves to its next step, or past the last one and ends.
Pass(r) ==
  /\ position' = [position EXCEPT ![r] = @ + 1]
  /\ status' = [status EXCEPT ![r] =
       IF position[r] + 1 < Len(plan[r]) THEN "running" ELSE "completed"]
  /\ verdict' = [verdict EXCEPT ![r] = "none"]
  /\ UNCHANGED plan

\* A teammate's step is done.
Work(r) == status[r] = "running" /\ position[r] < Len(plan[r]) /\ ~AtGate(r) /\ Pass(r)

AskForReview(r) ==
  /\ status[r] = "running" /\ position[r] < Len(plan[r]) /\ AtGate(r)
  /\ status' = [status EXCEPT ![r] = "paused"]
  /\ UNCHANGED <<plan, position, verdict>>

\* The reviewer decides, or decides again while the run is still paused.
Decide(r) ==
  /\ status[r] = "paused"
  /\ \E v \in {"approve", "reject"} : verdict' = [verdict EXCEPT ![r] = v]
  /\ UNCHANGED <<plan, status, position>>

Resume(r) == status[r] = "paused" /\ verdict[r] = "approve" /\ Pass(r)

Stop(r) ==
  /\ \/ status[r] = "paused" /\ verdict[r] = "reject"
        /\ status' = [status EXCEPT ![r] = "rejected"]
     \/ status[r] = "running" /\ status' = [status EXCEPT ![r] = "failed"]
  /\ UNCHANGED <<plan, position, verdict>>

Next ==
  \E r \in Runs :
    Start(r) \/ Work(r) \/ AskForReview(r) \/ Decide(r) \/ Resume(r) \/ Stop(r)

Spec == Init /\ [][Next]_runVars
==============================================================================
