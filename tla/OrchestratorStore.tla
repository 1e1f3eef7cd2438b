-------------------------- MODULE OrchestratorStore --------------------------
(***************************************************************************)
(* The durable rows of agent_gateway/orchestrator/store.py (and the two    *)
(* blackboard tables the run engine writes): playbooks, playbook_runs,     *)
(* run_step_records, run_gate_decisions, blackboard_state and              *)
(* blackboard_milestones.  Every operator below is one SQL statement, and  *)
(* every statement is a transaction of its own (SqliteStore.cursor), so a  *)
(* crash may fall between any two of them but never inside one.            *)
(*                                                                         *)
(* Text is abstracted to where it came from: an output is empty, an error, *)
(* the model's answer or the reviewer's edit.                              *)
(***************************************************************************)
EXTENDS Naturals, Sequences, FiniteSets

CONSTANTS
  Runs,         \* the rows playbook_runs can get, numbered as they are inserted
  NoRun,        \* the absence of a run
  Playbooks,    \* identifiers of the stored playbooks
  Definitions,  \* the compiled definitions a playbook row can hold
  MaxSteps      \* no definition is longer than this

\* A teammate whose tier the configuration maps to a model, one whose tier it does
\* not map, and an approval gate.
Teammates == {"teammate", "unrouted"}
Gates == {"approval_gate"}
StepKinds == Teammates \cup Gates

ASSUME StoreAssumption ==
  /\ Runs \subseteq Nat /\ NoRun \notin Runs
  /\ Playbooks # {}
  /\ MaxSteps \in Nat \ {0}
  /\ Definitions \subseteq Seq(StepKinds)
  /\ \A d \in Definitions : Len(d) <= MaxSteps

VARIABLES
  definition,     \* playbooks.definition_json
  run,            \* playbook_runs: playbook_id, status, current_step_index
  record,         \* run_step_records: status, output_json
  gateDecisions,  \* run_gate_decisions, in the order they were inserted
  blackboard      \* the goal row, and how many milestones name each step

storeVars == <<definition, run, record, gateDecisions, blackboard>>

(***************************************************************************)
(* Rows.                                                                   *)
(***************************************************************************)
Steps == 0 .. MaxSteps - 1

RunStatus == {"running", "paused", "completed", "failed", "rejected"}
TerminalStatus == {"completed", "failed", "rejected"}
RecordStatus ==
  {"pending", "running", "completed", "failed", "awaiting_approval", "rejected"}
Outputs == {"none", "error", "llm", "edited"}
Decisions == {"approve", "edit", "reject"}

\* "absent" and "missing" stand for rows that do not exist.
RunRow == [playbook : Playbooks, status : RunStatus \cup {"absent"},
           index : 0 .. MaxSteps]
RecordRow == [status : RecordStatus \cup {"missing"}, output : Outputs]
DecisionRow == [decision : Decisions, text : BOOLEAN]
BlackboardRow == [goal : BOOLEAN, milestones : [Steps -> Nat]]

StoreTypeOK ==
  /\ definition \in [Playbooks -> Definitions]
  /\ run \in [Runs -> RunRow]
  /\ record \in [Runs -> [Steps -> RecordRow]]
  /\ gateDecisions \in [Runs -> [Steps -> Seq(DecisionRow)]]
  /\ blackboard \in [Runs -> BlackboardRow]

AbsentRun ==
  [playbook |-> CHOOSE p \in Playbooks : TRUE, status |-> "absent", index |-> 0]

\* A database with playbooks and no runs.
StoreInit ==
  /\ definition \in [Playbooks -> Definitions]
  /\ run = [r \in Runs |-> AbsentRun]
  /\ record = [r \in Runs |-> [i \in Steps |->
                 [status |-> "missing", output |-> "none"]]]
  /\ gateDecisions = [r \in Runs |-> [i \in Steps |-> <<>>]]
  /\ blackboard = [r \in Runs |->
                     [goal |-> FALSE, milestones |-> [i \in Steps |-> 0]]]

(***************************************************************************)
(* Statements.                                                             *)
(***************************************************************************)
UpsertPlaybook(p, d) == definition' = [definition EXCEPT ![p] = d]

\* The next row: the ones before it are in the table.
IsNextRow(r) == \A q \in Runs : q < r => run[q].status # "absent"

CreateRunRow(r, p) ==
  run' = [run EXCEPT ![r] = [playbook |-> p, status |-> "running", index |-> 0]]

UpdateRunStatus(r, s) == run' = [run EXCEPT ![r].status = s]

UpdateRunStatusAt(r, s, i) ==
  run' = [run EXCEPT ![r].status = s, ![r].index = i]

CreateStepRecord(r, i) ==
  record' = [record EXCEPT ![r][i] = [status |-> "pending", output |-> "none"]]

\* output_json is assigned only when the caller supplies one.
UpdateRecordStatus(r, i, s) == record' = [record EXCEPT ![r][i].status = s]

UpdateRecord(r, i, s, out) ==
  record' = [record EXCEPT ![r][i] = [status |-> s, output |-> out]]

UpdateRecordOutput(r, i, out) == record' = [record EXCEPT ![r][i].output = out]

ResetStepToPending(r, i) == record' = [record EXCEPT ![r][i].status = "pending"]

RecordGateDecision(r, i, d) ==
  gateDecisions' = [gateDecisions EXCEPT ![r][i] = Append(@, d)]

SetGoal(r) == blackboard' = [blackboard EXCEPT ![r].goal = TRUE]

AddMilestone(r, i) ==
  blackboard' = [blackboard EXCEPT ![r].milestones[i] = @ + 1]

\* list_runs_by_status: a scan, which meets the rows in the order of insertion.
RunsByStatus(s) == {r \in Runs : run[r].status = s}
IsFirst(r, rows) == r \in rows /\ \A q \in rows : r <= q
==============================================================================
