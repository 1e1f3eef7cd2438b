------------------------- MODULE PlaybookOutcomeProofs -------------------------
(***************************************************************************)
(* A run's rows tell one story: proofs about PlaybookEngine for every set  *)
(* of runs, tasks and playbooks and every number of crashes and decisions. *)
(***************************************************************************)
EXTENDS PlaybookDriverProofs

\* Every tier a stored playbook names has a model.
AllRouted == \A d \in Definitions : \A i \in DOMAIN d : d[i] # "unrouted"

\* The status of the record of the step r is at.
Here(r) == record[r][run[r].index].status

\* A paused run waits at a gate, or its decision is being carried out or was lost.
PauseOutcome(r) ==
  /\ IsGate(StepsOf(r), run[r].index) /\ Here(r) # "missing"
  /\ \/ Here(r) = "awaiting_approval"
     \/ /\ gateDecisions[r][run[r].index] # <<>>
        /\ crashes > 0 \/ Decided(r)

\* The records of a run lie within its definition, and so does the step it is at.
WithinDefinition(r) ==
  /\ \A i \in Steps : i >= Len(StepsOf(r)) => record[r][i].status = "missing"
  /\ run[r].status # "completed" => run[r].index < Len(StepsOf(r)) \/ run[r].index = 0

RunOutcome(r) ==
  Created(r) =>
    /\ WithinDefinition(r)
    /\ run[r].status = "rejected" => Here(r) = "rejected"
    /\ run[r].status = "failed" => Here(r) \in {"failed", "missing"}
    /\ run[r].status = "completed" => run[r].index = Len(StepsOf(r))
    /\ run[r].status = "paused" => PauseOutcome(r)

\* What a coroutine is about to commit of its run agrees with the record.
TaskOutcome(t) ==
  LET here == record[task[t].run][run[task[t].run].index].status
  IN  /\ task[t].pc = "pause" => here = "awaiting_approval"
      /\ task[t].pc = "fail" => here = "failed"
      /\ task[t].pc = "reject" => here = "rejected"
      /\ task[t].pc = "raised" => here = "missing"

OutcomeInv ==
  /\ \A r \in Runs : RunOutcome(r)
  /\ \A t \in Coroutines : TaskOutcome(t)

EngineAll == TypeInv /\ OwnInv /\ GateInv /\ FrontInv /\ ReviewInv /\ OutcomeInv

------------------------------------------------------------------------------
(***************************************************************************)
(* Where nothing happens.                                                  *)
(***************************************************************************)
LEMMA StepsFacts ==
  ASSUME TypeInv, NEW r \in Runs
  PROVE  /\ StepsOf(r) \in Definitions /\ Len(StepsOf(r)) \in 0 .. MaxSteps
         /\ run[r] \in RunRow /\ run[r].index \in 0 .. MaxSteps
         /\ run[r].index < Len(StepsOf(r)) \/ run[r].index = 0 => run[r].index \in Steps
<1>1. /\ run[r] \in RunRow /\ run[r].index \in 0 .. MaxSteps
      /\ StepsOf(r) \in Definitions
  BY DEF TypeInv, TypeOK, StoreTypeOK, RunRow, StepsOf
<1> QED
  BY <1>1, DefinitionFacts, ConstantFacts DEF Steps

\* The rows of r stay as far as its outcome reads them.
LEMMA SameRunOutcome ==
  ASSUME TypeInv, NEW r \in Runs, RunOutcome(r), run'[r] = run[r], definition' = definition,
         \A j \in Steps : record'[r][j].status = record[r][j].status,
         \A j \in Steps : gateDecisions[r][j] # <<>> => gateDecisions'[r][j] # <<>>,
         crashes > 0 \/ Decided(r) => crashes' > 0 \/ Decided(r)'
  PROVE  RunOutcome(r)'
<1>1. Created(r)' <=> Created(r)
  BY DEF Created
<1>2. StepsOf(r)' = StepsOf(r)
  BY DEF StepsOf
<1>3. CASE Created(r)
  <2>1. WithinDefinition(r)'
    BY <1>2, <1>3 DEF RunOutcome, WithinDefinition
  <2>2. run[r].status # "completed" => run[r].index \in Steps
    BY <1>3, StepsFacts DEF RunOutcome, WithinDefinition
  <2>3. run[r].status # "completed" => Here(r)' = Here(r)
    BY <2>2 DEF Here
  <2>4. run[r].status = "paused" => PauseOutcome(r)'
    <3> SUFFICES ASSUME run[r].status = "paused" PROVE PauseOutcome(r)'
      OBVIOUS
    <3>1. PauseOutcome(r) /\ run[r].index \in Steps /\ Here(r)' = Here(r)
      BY <1>3, <2>2, <2>3 DEF RunOutcome
    <3>2. IsGate(StepsOf(r), run[r].index)'
      BY <1>2, <3>1 DEF PauseOutcome, IsGate, Kind
    <3> QED
      BY <3>1, <3>2 DEF PauseOutcome
  <2> QED
    BY <1>2, <1>3, <2>1, <2>3, <2>4 DEF RunOutcome
<1>4. CASE ~Created(r)
  BY <1>1, <1>4 DEF RunOutcome
<1> QED
  BY <1>3, <1>4

LEMMA SameTaskOutcome ==
  ASSUME TypeInv, OwnInv, \A r \in Runs : RunOutcome(r), NEW t \in Coroutines, TaskOutcome(t),
         task'[t] = task[t],
         task[t].pc \in WorkingPCs =>
           /\ run'[task[t].run] = run[task[t].run]
           /\ \A j \in Steps : record'[task[t].run][j].status = record[task[t].run][j].status
  PROVE  TaskOutcome(t)'
<1>1. CASE task[t].pc \in {"pause", "fail", "reject", "raised"}
  <2>1. PICK r \in Runs : r = task[t].run
    BY <1>1, AtWork, PCFacts DEF TypeInv
  <2>2. task[t].pc \in WorkingPCs
    BY <1>1, PCFacts
  <2>3. Created(r) /\ run[r].status # "completed"
    BY <2>1, <2>2 DEF OwnInv, Owns, Created
  <2>4. run[r].index \in Steps
    BY <2>3, StepsFacts DEF RunOutcome, WithinDefinition
  <2> QED
    BY <2>1, <2>2, <2>4 DEF TaskOutcome
<1>2. CASE task[t].pc \notin {"pause", "fail", "reject", "raised"}
  BY <1>2 DEF TaskOutcome
<1> QED
  BY <1>1, <1>2

LEMMA NoTaskOutcome ==
  ASSUME NEW t \in Coroutines, task'[t].pc \notin {"pause", "fail", "reject", "raised"}
  PROVE  TaskOutcome(t)'
  BY DEF TaskOutcome

\* A step that leaves rows alone, and gives no coroutine anything to commit.
LEMMA ElsewhereOutcome ==
  ASSUME EngineAll, UNCHANGED <<definition, run, record, gateDecisions>>,
         \A r \in Runs : crashes > 0 \/ Decided(r) => crashes' > 0 \/ Decided(r)',
         \A t \in Coroutines : task'[t] = task[t] \/ task'[t].pc \in {"free", "recover"}
  PROVE  OutcomeInv'
<1>1. ASSUME NEW r \in Runs PROVE RunOutcome(r)'
  BY SameRunOutcome DEF EngineAll, OutcomeInv
<1>2. ASSUME NEW t \in Coroutines PROVE TaskOutcome(t)'
  BY SameTaskOutcome, NoTaskOutcome DEF EngineAll, OutcomeInv
<1> QED
  BY <1>1, <1>2 DEF OutcomeInv

------------------------------------------------------------------------------
(***************************************************************************)
(* What a coroutine commits.                                               *)
(***************************************************************************)
\* What is known of a coroutine at work.
LEMMA AtWorkOutcome ==
  ASSUME EngineAll, NEW t \in Coroutines, task[t].pc \in WorkingPCs
  PROVE  \E r \in Runs, at \in Steps :
           /\ r = task[t].run /\ at = run[r].index
           /\ Created(r) /\ task[t].steps = StepsOf(r) /\ StepsOf(r) \in Definitions
           /\ run[r].status = IF task[t].pc \in DecidedPCs THEN "paused" ELSE "running"
           /\ task[t].pc \in SteppingPCs => task[t].index = at
           /\ WithinDefinition(r) /\ TaskOutcome(t) /\ TaskReview(t) /\ Owns(t) /\ Alone(t)
           /\ run[r].status = "paused" => PauseOutcome(r)
<1>1. PICK r \in Runs : r = task[t].run
  BY AtWork DEF EngineAll, TypeInv
<1>2. /\ Created(r) /\ task[t].steps = StepsOf(r)
      /\ task[t].pc \in SteppingPCs => task[t].index = run[r].index
  BY <1>1, AtWorkMaps DEF EngineAll
<1>3. /\ run[r].status = IF task[t].pc \in DecidedPCs THEN "paused" ELSE "running"
      /\ TaskOutcome(t) /\ TaskReview(t) /\ Owns(t) /\ Alone(t)
  BY <1>1 DEF EngineAll, OwnInv, Owns, OutcomeInv, ReviewInv
<1>4. /\ WithinDefinition(r) /\ (run[r].status = "paused" => PauseOutcome(r))
  BY <1>2 DEF EngineAll, OutcomeInv, RunOutcome
<1>5. run[r].index \in Steps /\ StepsOf(r) \in Definitions
  BY <1>3, <1>4, StepsFacts DEF WithinDefinition, EngineAll
<1> QED
  BY <1>1, <1>2, <1>3, <1>4, <1>5

\* A step writes records of its own run only, within the definition, and deletes none;
\* what it is about to commit of the run agrees with them.
RecordsAgree(t, r, at) ==
  /\ \A q \in Runs, j \in Steps :
       \/ record'[q][j].status = record[q][j].status
       \/ q = r /\ j < Len(StepsOf(r)) /\ record'[q][j].status # "missing"
  /\ task'[t].pc = "pause" => record'[r][at].status = "awaiting_approval"
  /\ task'[t].pc = "fail" => record'[r][at].status = "failed"
  /\ task'[t].pc = "reject" => record'[r][at].status = "rejected"
  /\ task'[t].pc = "raised" => record'[r][at].status = "missing"

LEMMA StepRecords ==
  ASSUME EngineAll, AllRouted, NEW t \in Coroutines, Step(t), NEW r \in Runs, NEW at \in Steps,
         r = task[t].run, at = run[r].index
  PROVE  RecordsAgree(t, r, at)
<1>0. TypeInv /\ TasksOK /\ StoreTypeOK /\ task[t] \in TaskRow
  BY DEF EngineAll, TypeInv, TypeOK, TasksOK
<1>1. task[t].pc \in WorkingPCs
  BY <1>0, StepEffect
<1>2. /\ task[t].steps = StepsOf(r) /\ StepsOf(r) \in Definitions
      /\ run[r].status = IF task[t].pc \in DecidedPCs THEN "paused" ELSE "running"
      /\ task[t].pc \in SteppingPCs => task[t].index = at
      /\ WithinDefinition(r) /\ TaskReview(t)
      /\ run[r].status = "paused" => PauseOutcome(r)
  BY <1>1, AtWorkOutcome
<1>3. Len(StepsOf(r)) \in Nat
  BY <1>0, StepsFacts
<1>4. task[t].pc \in DecidedPCs \cup {"calling"} => at < Len(StepsOf(r)) /\ task[t].index = at
  BY <1>2, PCClasses DEF PauseOutcome, IsGate, TaskReview, IsTeammate, SteppingPCs
\* A status is written, or none is.
<1>5. ASSUME NEW j \in Steps, j < Len(StepsOf(r)), Touches(r, j), NEW s, s # "missing",
             record'[r][j].status = s,
             \/ j = at /\ task'[t].pc = "pause" /\ s = "awaiting_approval"
             \/ j = at /\ task'[t].pc = "fail" /\ s = "failed"
             \/ j = at /\ task'[t].pc = "reject" /\ s = "rejected"
             \/ task'[t].pc \notin {"pause", "fail", "reject", "raised"}
      PROVE  RecordsAgree(t, r, at)
  BY <1>5 DEF RecordsAgree, Touches
<1>6. ASSUME \A q \in Runs, j \in Steps : record'[q][j].status = record[q][j].status,
             task'[t].pc \notin {"pause", "fail", "reject", "raised"}
      PROVE  RecordsAgree(t, r, at)
  BY <1>6 DEF RecordsAgree
<1>7. CASE CreateNextRecord(t)
  <2>1. /\ task[t].pc = "create_records" /\ task[t].index < Len(task[t].steps)
        /\ CreateStepRecord(r, task[t].index)
        /\ task' = [task EXCEPT ![t].index = task[t].index + 1]
    BY <1>7 DEF CreateNextRecord, Holds
  <2>2. task[t].index \in Steps /\ task[t].index < Len(StepsOf(r))
    <3>1. task[t].index \in 0 .. MaxSteps
      BY <1>0, AtWork
    <3>2. Len(StepsOf(r)) \in 0 .. MaxSteps /\ task[t].index < Len(StepsOf(r))
      BY <1>0, <1>2, <2>1, StepsFacts
    <3> QED
      BY <3>1, <3>2, ConstantFacts DEF Steps
  <2>3. task'[t].pc = "create_records"
    BY <1>0, <2>1 DEF TaskRow, TasksOK
  <2>4. PICK j \in Steps : j = task[t].index
    BY <2>2
  <2>5. Touches(r, j) /\ record'[r][j].status = "pending"
    BY <1>0, <2>1, <2>4, RecordRows
  <2> QED
    BY <1>5, <2>2, <2>3, <2>4, <2>5
<1>8. CASE SetGoalAndSpawn(t) \/ StoreMilestone(t)
  <2>1. record' = record
    BY <1>8 DEF SetGoalAndSpawn, StoreMilestone
  <2>2. task'[t].pc \in {"execute", "continue"}
    <3>1. CASE SetGoalAndSpawn(t)
      <4>1. task' = [task EXCEPT ![t].pc = "execute", ![t].index = 0]
        BY <3>1 DEF SetGoalAndSpawn
      <4> QED
        BY <1>0, <4>1, MovedTaskTo
    <3>2. CASE StoreMilestone(t)
      <4>1. task' = [task EXCEPT ![t].pc = "continue"]
        BY <3>2 DEF StoreMilestone, Goto
      <4> QED
        BY <1>0, <4>1, MovedTask
    <3> QED
      BY <1>8, <3>1, <3>2
  <2> QED
    BY <1>6, <2>1, <2>2
<1>9. CASE StartTeammateStep(t)
  <2>1. /\ AtAdvance(t) /\ at < Len(StepsOf(r)) /\ IsTeammate(StepsOf(r), at)
        /\ UpdateRecordStatus(r, at, "running")
    BY <1>2, <1>9 DEF StartTeammateStep, CanAdvance
  <2>2. Kind(StepsOf(r), at) = "teammate"
    <3>1. at + 1 \in DOMAIN StepsOf(r) /\ StepsOf(r)[at + 1] # "unrouted"
      BY <1>2, <1>3, <2>1, DefinitionFacts DEF AllRouted, Steps
    <3> QED
      BY <2>1, <3>1 DEF IsTeammate, Kind, Teammates
  <2> DEFINE row == [task[t] EXCEPT !.pc = "calling", !.index = at,
                                    !.prompt = AssemblePrompt(r, StepsOf(r), at)]
  <2>3. task' = [task EXCEPT ![t] = row]
    BY <1>2, <1>9, <2>2 DEF StartTeammateStep
  <2>4. row.pc = "calling"
    BY <1>0 DEF TaskRow
  <2> HIDE DEF row
  <2>5. task'[t].pc = "calling"
    BY <1>0, <2>3, <2>4 DEF TasksOK
  <2>6. Touches(r, at) /\ record'[r][at].status = "running"
    BY <1>0, <2>1, RecordRows
  <2> QED
    BY <1>5, <2>1, <2>5, <2>6
<1>10. CASE MarkAwaitingApproval(t)
  <2> DEFINE row == [task[t] EXCEPT !.pc = "pause", !.index = at]
  <2>1. /\ at < Len(StepsOf(r)) /\ UpdateRecordStatus(r, at, "awaiting_approval")
        /\ task' = [task EXCEPT ![t] = row]
    BY <1>0, <1>2, <1>10 DEF MarkAwaitingApproval, CanAdvance
  <2>2. row.pc = "pause"
    BY <1>0 DEF TaskRow
  <2> HIDE DEF row
  <2>3. task'[t].pc = "pause"
    BY <1>0, <2>1, <2>2 DEF TasksOK
  <2>4. Touches(r, at) /\ record'[r][at].status = "awaiting_approval"
    BY <1>0, <2>1, RecordRows
  <2> QED
    BY <1>5, <2>1, <2>3, <2>4
<1>11. CASE AdvanceRaises(t)
  <2>1. /\ at >= Len(StepsOf(r)) \/ record[r][at].status = "missing"
        /\ record' = record /\ task' = [task EXCEPT ![t].pc = "raised"]
    BY <1>2, <1>3, <1>11 DEF AdvanceRaises, CanAdvance, Goto, storeVars, Steps
  <2>2. record[r][at].status = "missing"
    BY <1>2, <2>1 DEF WithinDefinition
  <2>3. task'[t].pc = "raised"
    BY <1>0, <2>1, MovedTask
  <2> QED
    BY <2>1, <2>2, <2>3 DEF RecordsAgree
<1>12. CASE PauseRun(t) \/ FailRun(t) \/ BackstopFailsRun(t) \/ RejectRun(t) \/ CompleteRun(t)
  <2>1. record' = record /\ Finish(t)
    BY <1>12 DEF PauseRun, FailRun, BackstopFailsRun, RejectRun, CompleteRun
  <2>2. task'[t].pc \in {"free", "recover"}
    BY <1>0, <2>1, FinishedTask
  <2> QED
    BY <1>6, <2>1, <2>2
<1>13. CASE MoveToNextStep(t)
  <2>1. record' = record /\ task' = [task EXCEPT ![t].pc = "advance"]
    BY <1>13 DEF MoveToNextStep, Goto
  <2>2. task'[t].pc = "advance"
    BY <1>0, <2>1, MovedTask
  <2> QED
    BY <1>6, <2>1, <2>2
<1>14. CASE PropagateEdit(t)
  <2>1. task' = [task EXCEPT ![t].pc = "continuation"]
    BY <1>14 DEF PropagateEdit, Suspend
  <2>2. task'[t].pc = "continuation"
    BY <1>0, <2>1, MovedTask
  <2>3. \A q \in Runs, j \in Steps : record'[q][j].status = record[q][j].status
    BY <1>0, <1>14, OutputRow DEF PropagateEdit
  <2> QED
    BY <1>6, <2>2, <2>3
<1>15. CASE ModelAnswers(t) \/ ApproveRecord(t)
  <2>1. /\ task[t].pc \in {"calling", "decided"}
        /\ \/ UpdateRecordStatus(r, task[t].index, "completed")
           \/ \E out : UpdateRecord(r, task[t].index, "completed", out)
    BY <1>15 DEF ModelAnswers, ApproveRecord, Holds, Wakes
  <2>2. PICK pc \in {"milestone", "propagate", "continuation"} :
          task' = [task EXCEPT ![t].pc = pc]
    <3>1. CASE ModelAnswers(t)
      BY <3>1 DEF ModelAnswers, Goto
    <3>2. CASE ApproveRecord(t)
      BY <3>2 DEF ApproveRecord, Goto, Suspend
    <3> QED
      BY <1>15, <3>1, <3>2
  <2>3. task'[t].pc = pc
    BY <1>0, <2>2, MovedTask
  <2>4. at < Len(StepsOf(r)) /\ task[t].index = at
    BY <1>4, <2>1 DEF DecidedPCs
  <2>5. Touches(r, at) /\ record'[r][at].status = "completed"
    BY <1>0, <2>1, <2>4, RecordRows
  <2> QED
    BY <1>5, <2>3, <2>4, <2>5
<1>16. CASE ModelCallFails(t)
  <2>1. /\ task[t].pc = "calling" /\ UpdateRecord(r, task[t].index, "failed", "error")
        /\ task' = [task EXCEPT ![t].pc = "fail"]
    BY <1>16 DEF ModelCallFails, Wakes, Goto
  <2>2. task'[t].pc = "fail" /\ at < Len(StepsOf(r)) /\ task[t].index = at
    BY <1>0, <1>4, <2>1, MovedTask
  <2>3. Touches(r, at) /\ record'[r][at].status = "failed"
    BY <1>0, <2>1, <2>2, RecordRows
  <2> QED
    BY <1>5, <2>2, <2>3
<1>17. CASE RejectRecord(t)
  <2>1. /\ task[t].pc = "decided" /\ UpdateRecordStatus(r, task[t].index, "rejected")
        /\ task' = [task EXCEPT ![t].pc = "reject"]
    BY <1>17 DEF RejectRecord, Holds, Goto
  <2>2. task'[t].pc = "reject" /\ at < Len(StepsOf(r)) /\ task[t].index = at
    BY <1>0, <1>4, <2>1, MovedTask DEF DecidedPCs
  <2>3. Touches(r, at) /\ record'[r][at].status = "rejected"
    BY <1>0, <2>1, <2>2, RecordRows
  <2> QED
    BY <1>5, <2>2, <2>3
<1> QED
  BY <1>7, <1>8, <1>9, <1>10, <1>11, <1>12, <1>13, <1>14, <1>15, <1>16, <1>17 DEF Step

\* The row of r changes its status only, to one its records bear out.
LEMMA LeftOutcome ==
  ASSUME TypeInv, NEW r \in Runs, NEW s \in TerminalStatus \cup {"paused"}, Created(r),
         definition' = definition, record' = record, WithinDefinition(r),
         UpdateRunStatus(r, s), run[r].status # "completed", s # "completed",
         s = "rejected" => Here(r) = "rejected",
         s = "failed" => Here(r) \in {"failed", "missing"},
         s = "paused" =>
           IsGate(StepsOf(r), run[r].index) /\ Here(r) = "awaiting_approval"
  PROVE  RunOutcome(r)'
<1>1. /\ run'[r].status = s /\ run'[r].index = run[r].index
      /\ run'[r].playbook = run[r].playbook
  BY DEF TypeInv, TypeOK, StoreTypeOK, RunRow, UpdateRunStatus
<1>2. StepsOf(r)' = StepsOf(r) /\ Here(r)' = Here(r)
  BY <1>1 DEF StepsOf, Here
<1>3. WithinDefinition(r)'
  BY <1>1, <1>2 DEF WithinDefinition
<1>4. s = "paused" => PauseOutcome(r)'
  BY <1>1, <1>2 DEF PauseOutcome, IsGate, Kind
<1> QED
  BY <1>1, <1>2, <1>3, <1>4 DEF RunOutcome, TerminalStatus

\* The row of r moves past a step within the definition.
LEMMA PassedOutcome ==
  ASSUME TypeInv, NEW r \in Runs, NEW i \in Steps, i < Len(StepsOf(r)),
         definition' = definition, record' = record, WithinDefinition(r),
         NEW s, UpdateRunStatusAt(r, s, i + 1),
         \/ s = "running" /\ i + 1 < Len(StepsOf(r))
         \/ s = "completed" /\ i + 1 >= Len(StepsOf(r))
  PROVE  RunOutcome(r)'
<1>1. /\ run'[r].status = s /\ run'[r].index = i + 1
      /\ run'[r].playbook = run[r].playbook
  BY DEF TypeInv, TypeOK, StoreTypeOK, RunRow, UpdateRunStatusAt
<1>2. StepsOf(r)' = StepsOf(r) /\ Len(StepsOf(r)) \in Nat
  BY <1>1, StepsFacts, ConstantFacts DEF StepsOf
<1>3. WithinDefinition(r)'
  BY <1>1, <1>2 DEF WithinDefinition
<1>4. s = "completed" => i + 1 = Len(StepsOf(r))
  BY <1>2 DEF Steps
<1> QED
  BY <1>1, <1>2, <1>3, <1>4 DEF RunOutcome

\* t works on: only its record changes.
LEMMA WorkedOutcome ==
  ASSUME EngineAll, NEW t \in Coroutines, task[t].pc \in WorkingPCs,
         NEW r \in Runs, NEW at \in Steps, r = task[t].run, at = run[r].index,
         Works(t), Others(t), RecordsAgree(t, r, at)
  PROVE  RunOutcome(r)'
<1>1. /\ Created(r) /\ WithinDefinition(r) /\ TaskReview(t)
      /\ run[r].status = IF task[t].pc \in DecidedPCs THEN "paused" ELSE "running"
      /\ task[t].pc \in SteppingPCs => task[t].index = at
      /\ run[r].status = "paused" => PauseOutcome(r)
  BY AtWorkOutcome
<1>2. run' = run /\ StepsOf(r)' = StepsOf(r) /\ gateDecisions' = gateDecisions
  BY DEF Works, Others, StepsOf
<1>3. WithinDefinition(r)'
  <2>1. Len(StepsOf(r)) \in Nat /\ Steps \subseteq Nat
    BY StepsFacts, ConstantFacts DEF EngineAll, Steps
  <2>2. \A i \in Steps : i >= Len(StepsOf(r)) => record'[r][i].status = "missing"
    BY <1>1, <2>1 DEF WithinDefinition, RecordsAgree
  <2> QED
    BY <1>1, <1>2, <2>2 DEF WithinDefinition
<1>4. ASSUME run[r].status = "paused" PROVE PauseOutcome(r)'
  <2>1. task[t].pc \in DecidedPCs /\ task[t].index = at
    BY <1>1, <1>4, PCClasses
  <2>2. gateDecisions[r][at] # <<>>
    BY <1>1, <2>1 DEF TaskReview
  <2>3. Decided(r)'
    BY <2>1, PCClasses DEF Works, Decided, RunningPCs
  <2>4. Here(r)' # "missing"
    BY <1>1, <1>2, <1>4 DEF PauseOutcome, Here, RecordsAgree
  <2>5. IsGate(StepsOf(r), run[r].index)'
    BY <1>1, <1>2, <1>4 DEF PauseOutcome, IsGate, Kind
  <2> QED
    BY <1>2, <2>2, <2>3, <2>4, <2>5 DEF PauseOutcome
<1> QED
  BY <1>1, <1>2, <1>3, <1>4 DEF RunOutcome

LEMMA StepOutcome ==
  ASSUME EngineAll, AllRouted, NEW t \in Coroutines, Step(t)
  PROVE  OutcomeInv'
<1>1. /\ TypeInv /\ task[t].pc \in WorkingPCs /\ Others(t)
      /\ Works(t) \/ Advances(t) \/ Leaves(t)
  BY StepEffect DEF EngineAll
<1>2. PICK r \in Runs, at \in Steps :
        /\ r = task[t].run /\ at = run[r].index
        /\ Created(r) /\ task[t].steps = StepsOf(r) /\ StepsOf(r) \in Definitions
        /\ run[r].status = IF task[t].pc \in DecidedPCs THEN "paused" ELSE "running"
        /\ task[t].pc \in SteppingPCs => task[t].index = at
        /\ WithinDefinition(r) /\ TaskOutcome(t) /\ TaskReview(t) /\ Owns(t) /\ Alone(t)
        /\ run[r].status = "paused" => PauseOutcome(r)
  BY <1>1, AtWorkOutcome
<1>3. RecordsAgree(t, r, at)
  BY <1>2, StepRecords
<1>4. ASSUME NEW q \in Runs, q # r PROVE RunOutcome(q)'
  <2>1. /\ RunOutcome(q) /\ run'[q] = run[q]
        /\ UNCHANGED <<definition, gateDecisions, crashes>>
    BY <1>1, <1>2, <1>4 DEF Others, EngineAll, OutcomeInv
  <2>2. \A j \in Steps : record'[q][j].status = record[q][j].status
    BY <1>3, <1>4 DEF RecordsAgree
  <2>3. Decided(q) => Decided(q)'
    BY <1>1, <1>2, <1>4 DEF Others, Decided
  <2> QED
    BY <1>1, <2>1, <2>2, <2>3, SameRunOutcome
<1>5. RunOutcome(r)'
  <2>1. CASE PauseRun(t) \/ FailRun(t) \/ BackstopFailsRun(t) \/ RejectRun(t)
    <3>1. record' = record /\ definition' = definition
      BY <2>1 DEF PauseRun, FailRun, BackstopFailsRun, RejectRun
    <3>2. PICK s \in {"paused", "failed", "rejected"} :
            /\ UpdateRunStatus(r, s)
            /\ s = "paused" => task[t].pc = "pause"
            /\ s = "failed" => task[t].pc \in {"fail", "raised"}
            /\ s = "rejected" => task[t].pc = "reject"
      BY <1>2, <2>1 DEF PauseRun, FailRun, BackstopFailsRun, RejectRun, Holds
    <3>3. /\ s = "paused" => IsGate(StepsOf(r), at) /\ Here(r) = "awaiting_approval"
          /\ s = "failed" => Here(r) \in {"failed", "missing"}
          /\ s = "rejected" => Here(r) = "rejected"
      BY <1>2, <3>2 DEF TaskOutcome, TaskReview, SteppingPCs, Here
    <3> QED
      BY <1>1, <1>2, <3>1, <3>2, <3>3, LeftOutcome DEF TerminalStatus
  <2>2. CASE CompleteRun(t) \/ MoveToNextStep(t)
    <3>1. /\ record' = record /\ definition' = definition /\ AtContinue(t)
          /\ \E s : /\ UpdateRunStatusAt(r, s, task[t].index + 1)
                    /\ \/ s = "running" /\ task[t].index + 1 < Len(StepsOf(r))
                       \/ s = "completed" /\ task[t].index + 1 >= Len(StepsOf(r))
      BY <1>2, <2>2 DEF CompleteRun, MoveToNextStep
    <3>2. /\ task[t].pc \in {"continue", "continuation"} /\ task[t].index = at
          /\ at < Len(StepsOf(r))
      BY <1>2, <3>1
      DEF AtContinue, Holds, Wakes, SteppingPCs, TaskReview, PauseOutcome, IsGate,
          IsTeammate, DecidedPCs
    <3> QED
      BY <1>1, <1>2, <3>1, <3>2, PassedOutcome
  <2>3. CASE Works(t)
    BY <1>1, <1>2, <1>3, <2>3, WorkedOutcome
  <2>4. CASE ~(PauseRun(t) \/ FailRun(t) \/ BackstopFailsRun(t) \/ RejectRun(t)
                 \/ CompleteRun(t) \/ MoveToNextStep(t))
    <3>1. run' = run
      BY <2>4
      DEF Step, CreateNextRecord, SetGoalAndSpawn, StartTeammateStep, MarkAwaitingApproval,
          AdvanceRaises, ModelAnswers, StoreMilestone, ModelCallFails, RejectRecord,
          ApproveRecord, PropagateEdit, storeVars
    <3>2. Works(t)
      <4>1. ~Leaves(t)
        BY <1>2, <3>1 DEF Leaves, TerminalStatus, RunningPCs
      <4>2. ~Advances(t)
        <5>1. run[r].index # task[t].index + 1 \/ task[t].pc \notin SteppingPCs
          BY <1>2 DEF Steps
        <5> QED
          BY <1>2, <3>1, <5>1 DEF Advances, SteppingPCs
      <4> QED
        BY <1>1, <4>1, <4>2
    <3> QED
      BY <2>3, <3>2
  <2> QED
    BY <2>1, <2>2, <2>4
<1>6. ASSUME NEW u \in Coroutines PROVE TaskOutcome(u)'
  <2>1. CASE u # t
    <3>1. TaskOutcome(u) /\ task'[u] = task[u]
      BY <1>1, <2>1 DEF Others, EngineAll, OutcomeInv
    <3>2. task[u].pc \in WorkingPCs => task[u].run \in Runs /\ task[u].run # r
      BY <1>1, <1>2, <2>1, AtWork DEF Alone, TypeInv
    <3>3. task[u].pc \in WorkingPCs =>
            /\ run'[task[u].run] = run[task[u].run]
            /\ \A j \in Steps :
                 record'[task[u].run][j].status = record[task[u].run][j].status
      BY <1>1, <1>2, <1>3, <3>2 DEF Others, RecordsAgree
    <3> QED
      BY <1>1, <3>1, <3>3, SameTaskOutcome DEF EngineAll, OutcomeInv
  <2>2. CASE u = t
    <3>1. CASE Works(t)
      BY <1>2, <1>3, <2>2, <3>1 DEF Works, TaskOutcome, RecordsAgree
    <3>2. CASE Advances(t) \/ Leaves(t)
      BY <2>2, <3>2 DEF Advances, Leaves, TaskOutcome
    <3> QED
      BY <1>1, <3>1, <3>2
  <2> QED
    BY <2>1, <2>2
<1> QED
  BY <1>4, <1>5, <1>6 DEF OutcomeInv

------------------------------------------------------------------------------
(***************************************************************************)
(* Requests, crashes and recovery.                                         *)
(***************************************************************************)
LEMMA CreateRunOutcome ==
  ASSUME EngineAll, NEW t \in Tasks, NEW p \in Playbooks, NEW r \in Runs, CreateRun(t, p, r)
  PROVE  OutcomeInv'
<1>1. /\ t \in Coroutines /\ TypeInv /\ TasksOK /\ StoreTypeOK /\ OwnInv /\ FrontInv
      /\ run[r].status = "absent" /\ task[t].pc = "free"
      /\ UNCHANGED <<definition, record, gateDecisions, crashes>>
      /\ task' = [task EXCEPT ![t] = Coroutine("create_records", r, 0, definition[p])]
      /\ run' = [run EXCEPT ![r] = [playbook |-> p, status |-> "running", index |-> 0]]
  BY ConstantFacts DEF CreateRun, CreateRunRow, Wakes, EngineAll, TypeInv, TypeOK
<1>2. /\ run'[r].index = 0 /\ run'[r].status = "running"
      /\ \A q \in Runs : q # r => run'[q] = run[q]
  BY <1>1 DEF StoreTypeOK
<1>3. /\ task'[t].pc = "create_records"
      /\ \A u \in Coroutines : u # t => task'[u] = task[u]
  BY <1>1 DEF TasksOK, Coroutine
<1>4. RunOutcome(r)'
  <2>1. \A j \in Steps : record[r][j].status = "missing"
    BY <1>1 DEF FrontInv, Created
  <2> QED
    BY <1>1, <1>2, <2>1 DEF RunOutcome, WithinDefinition
<1>5. ASSUME NEW q \in Runs, q # r PROVE RunOutcome(q)'
  <2>1. Decided(q) => Decided(q)'
    BY <1>1, <1>3, PCClasses DEF Decided
  <2> QED
    BY <1>1, <1>2, <1>5, <2>1, SameRunOutcome DEF EngineAll, OutcomeInv
<1>6. ASSUME NEW u \in Coroutines PROVE TaskOutcome(u)'
  <2>1. CASE u = t
    BY <1>3, <2>1, NoTaskOutcome
  <2>2. CASE u # t
    <3>1. task[u].pc \in WorkingPCs => task[u].run \in Runs /\ task[u].run # r
      BY <1>1, AtWork DEF OwnInv, Owns
    <3> QED
      BY <1>1, <1>2, <1>3, <2>2, <3>1, SameTaskOutcome DEF EngineAll, OutcomeInv
  <2> QED
    BY <2>1, <2>2
<1> QED
  BY <1>4, <1>5, <1>6 DEF OutcomeInv

LEMMA AcceptDecisionOutcome ==
  ASSUME EngineAll, NEW t \in Tasks, NEW r \in Runs, NEW i \in Steps, NEW d \in Submissions,
         AcceptDecision(t, r, i, d)
  PROVE  OutcomeInv'
<1> DEFINE row == [Coroutine("decided", r, run[r].index, definition[run[r].playbook])
                     EXCEPT !.decision = d]
<1>1. /\ t \in Coroutines /\ TypeInv /\ TasksOK /\ StoreTypeOK /\ task[t].pc = "free"
      /\ UNCHANGED <<definition, run, record, crashes>>
      /\ task' = [task EXCEPT ![t] = row]
  BY ConstantFacts DEF AcceptDecision, Wakes, EngineAll, TypeInv, TypeOK
<1>2. row.pc = "decided"
  BY DEF Coroutine
<1> HIDE DEF row
<1>3. task'[t].pc = "decided" /\ \A u \in Coroutines : u # t => task'[u] = task[u]
  BY <1>1, <1>2 DEF TasksOK
<1>4. \A q \in Runs, j \in Steps : gateDecisions[q][j] # <<>> => gateDecisions'[q][j] # <<>>
  BY <1>1, DecisionStored
<1>5. \A q \in Runs : Decided(q) => Decided(q)'
  BY <1>1, <1>3, PCClasses DEF Decided
<1>6. ASSUME NEW q \in Runs PROVE RunOutcome(q)'
  BY <1>1, <1>4, <1>5, SameRunOutcome DEF EngineAll, OutcomeInv
<1>7. ASSUME NEW u \in Coroutines PROVE TaskOutcome(u)'
  BY <1>1, <1>3, SameTaskOutcome, NoTaskOutcome DEF EngineAll, OutcomeInv
<1> QED
  BY <1>6, <1>7 DEF OutcomeInv

\* Recovery resets a running record, which lies within the definition.
LEMMA RecoverRunOutcome ==
  ASSUME EngineAll, NEW r \in Runs, RecoverRun(r)
  PROVE  OutcomeInv'
<1> DEFINE row == Coroutine("advance", r, run[r].index, loaded[run[r].playbook])
<1>1. /\ Recovery \in Coroutines /\ TypeInv /\ TasksOK /\ StoreTypeOK /\ OwnInv
      /\ r \in toRecover /\ UNCHANGED <<definition, run, gateDecisions, crashes>>
      /\ task' = [task EXCEPT ![Recovery] = row] /\ task[Recovery].pc = "recover"
      /\ \/ /\ run[r].index \in Steps /\ record[r][run[r].index].status = "running"
            /\ ResetStepToPending(r, run[r].index)
         \/ record' = record
  BY ConstantFacts DEF RecoverRun, IsFirst, EngineAll, TypeInv, TypeOK, Holds
<1>2. row.pc = "advance"
  BY DEF Coroutine
<1> HIDE DEF row
<1>3. /\ task'[Recovery].pc = "advance"
      /\ \A u \in Coroutines : u # Recovery => task'[u] = task[u]
  BY <1>1, <1>2 DEF TasksOK
<1>4. /\ run[r].status = "running" /\ Created(r) /\ WithinDefinition(r)
      /\ \A u \in Coroutines : task[u].pc \in WorkingPCs => task[u].run \in Runs \ {r}
  BY <1>1, AtWork DEF EngineAll, OwnInv, Owns, Created, OutcomeInv, RunOutcome
<1>5. \A q \in Runs, j \in Steps :
        \/ record'[q][j].status = record[q][j].status
        \/ q = r /\ record[q][j].status = "running"
  BY <1>1, RecordRows DEF Touches
<1>6. \A q \in Runs : Decided(q) => Decided(q)'
  BY <1>1, <1>3, PCClasses DEF Decided
<1>7. ASSUME NEW q \in Runs, q # r PROVE RunOutcome(q)'
  BY <1>1, <1>5, <1>6, <1>7, SameRunOutcome DEF EngineAll, OutcomeInv
<1>8. RunOutcome(r)'
  <2>1. StepsOf(r)' = StepsOf(r)
    BY <1>1 DEF StepsOf
  <2>2. WithinDefinition(r)'
    BY <1>1, <1>4, <1>5, <2>1 DEF WithinDefinition
  <2> QED
    BY <1>1, <1>4, <2>2 DEF RunOutcome
<1>9. ASSUME NEW u \in Coroutines PROVE TaskOutcome(u)'
  <2>1. CASE u = Recovery
    BY <1>3, <2>1, NoTaskOutcome
  <2>2. CASE u # Recovery
    BY <1>1, <1>3, <1>4, <1>5, <2>2, SameTaskOutcome DEF EngineAll, OutcomeInv
  <2> QED
    BY <2>1, <2>2
<1> QED
  BY <1>7, <1>8, <1>9 DEF OutcomeInv

LEMMA NextOutcomeInv ==
  ASSUME PutDefinitions = {}, AllRouted, EngineAll, [Next]_vars
  PROVE  OutcomeInv'
<1>0. TasksOK /\ crashes \in Nat /\ Recovery \in Coroutines
      /\ \A t \in Coroutines : task[t].pc \in DecidedPCs => t \in Tasks /\ up
  <2>1. crashes \in Nat
    BY EngineAssumption DEF EngineAll, TypeInv, TypeOK, EngineAssumption
  <2> QED
    BY <2>1, ConstantFacts, PCClasses DEF EngineAll, TypeInv, OwnInv, Owns
<1>1. CASE \E t \in Coroutines : Step(t)
  BY <1>1, StepOutcome
<1>2. CASE RecoveryDies \/ RecoveryEnds
  <2>1. /\ UNCHANGED <<definition, run, record, gateDecisions, crashes>>
        /\ task' = [task EXCEPT ![Recovery] = FreeTask]
    BY <1>2 DEF RecoveryDies, RecoveryEnds, storeVars
  <2>2. /\ \A u \in Coroutines : task'[u] = task[u] \/ task'[u].pc = "free"
        /\ \A u \in Coroutines : u # Recovery => task'[u] = task[u]
    BY <1>0, <2>1, PCClasses DEF TasksOK
  <2>3. \A r \in Runs : Decided(r) => Decided(r)'
    BY <1>0, <2>2, ConstantFacts DEF Decided
  <2> QED
    BY <2>1, <2>2, <2>3, ElsewhereOutcome
<1>3. CASE Restart
  <2>1. /\ UNCHANGED <<run, record, gateDecisions, crashes>> /\ ~up
        /\ task' = [task EXCEPT ![Recovery].pc = "recover"]
        /\ definition' = Seeded(definition)
    BY <1>3 DEF Restart
  <2>2. definition' = definition
    BY <2>1 DEF EngineAll, GateInv
  <2>3. \A u \in Coroutines : task'[u] = task[u] \/ task'[u].pc = "recover"
    BY <1>0, <2>1, MovedTask
  <2>4. \A r \in Runs : ~Decided(r)
    BY <1>0, <2>1 DEF Decided
  <2> QED
    BY <2>1, <2>2, <2>3, <2>4, ElsewhereOutcome
<1>4. CASE Crash
  <2>1. /\ UNCHANGED <<definition, run, record, gateDecisions>> /\ crashes' = crashes + 1
        /\ task' = [t \in Coroutines |-> FreeTask]
    BY <1>4 DEF Crash, storeVars
  <2> QED
    BY <1>0, <2>1, PCClasses, ElsewhereOutcome
<1>5. ASSUME NEW r \in Runs, ShowGate(r) PROVE OutcomeInv'
  BY <1>5, ElsewhereOutcome DEF ShowGate, storeVars, Decided
<1>6. CASE UNCHANGED vars
  BY <1>6, ElsewhereOutcome DEF vars, storeVars, engineVars, Decided
<1>7. ~\E p \in Playbooks, d \in PutDefinitions : UpdatePlaybook(p, d)
  OBVIOUS
<1> QED
  BY <1>1, <1>2, <1>3, <1>4, <1>5, <1>6, <1>7, CreateRunOutcome, AcceptDecisionOutcome,
     RecoverRunOutcome
  DEF Next, Recover

LEMMA InitOutcomeInv == Init => OutcomeInv
<1> SUFFICES ASSUME Init PROVE OutcomeInv
  OBVIOUS
<1>1. \A r \in Runs : ~Created(r)
  BY DEF Init, StoreInit, Created, AbsentRun
<1>2. \A t \in Coroutines : task[t].pc = "free"
  BY DEF Init, FreeTask, Coroutine
<1> QED
  BY <1>1, <1>2 DEF OutcomeInv, RunOutcome, TaskOutcome

LEMMA EngineAllHolds ==
  ASSUME SerialReview, PutDefinitions = {}, AllRouted
  PROVE  Spec => []EngineAll
<1>1. Init => EngineAll
  BY InitTypeInv, InitOwnInv, InitGateInv, InitFrontInv, InitReviewInv, InitOutcomeInv
  DEF EngineAll
<1>2. EngineAll /\ [Next]_vars => EngineAll'
  BY NextTypeInv, NextOwnInv, NextGateInv, NextFrontInv, NextReviewInv, NextOutcomeInv
  DEF EngineAll
<1> QED
  BY <1>1, <1>2, PTL DEF Spec

\* Nobody works on a settled run.
LEMMA SettledUndecided ==
  ASSUME NEW r \in Runs, Settled(r)
  PROVE  ~Decided(r)
  BY PCClasses, ConstantFacts DEF Settled, Drivers, Drives, Decided

\* engine.py commits the record of a step before the row of its run, so a finished or
\* paused run's row never says what its record does not: a rejected run
\* stands at a rejected record, a failed one at a failed record or where none was
\* created, a completed one has passed every step, and a
\* paused one that nobody works on waits at a gate that awaits approval, or at one
\* whose stored decision a crash interrupted.  Every tier must have a model: for
\* one without (engine.py:151) the backstop fails the run and leaves its record running.
THEOREM OutcomesAgree ==
  SerialReview /\ PutDefinitions = {} /\ AllRouted => (Spec => []OutcomeAgrees)
<1> SUFFICES ASSUME SerialReview, PutDefinitions = {}, AllRouted
             PROVE  Spec => []OutcomeAgrees
  OBVIOUS
<1>1. EngineAll => OutcomeAgrees
  <2> SUFFICES ASSUME EngineAll, NEW r \in Runs
               PROVE  /\ run[r].status = "rejected" => Here(r) = "rejected"
                      /\ run[r].status = "failed" => Here(r) \in {"failed", "missing"}
                      /\ run[r].status = "completed" => run[r].index = Len(StepsOf(r))
                      /\ run[r].status = "paused" /\ Settled(r) =>
                           \/ Here(r) = "awaiting_approval"
                           \/ gateDecisions[r][run[r].index] # <<>> /\ crashes > 0
    BY DEF OutcomeAgrees, Here
  <2>1. run[r].status \in {"rejected", "failed", "completed", "paused"} => Created(r)
    BY DEF Created
  <2>2. RunOutcome(r)
    BY DEF EngineAll, OutcomeInv
  <2>3. Settled(r) => ~Decided(r)
    BY SettledUndecided
  <2> QED
    BY <2>1, <2>2, <2>3 DEF RunOutcome, PauseOutcome
<1> QED
  BY <1>1, EngineAllHolds, PTL

\* resume_with_decision never strands a paused run: whatever crashes interrupted, the
\* run that nobody works on waits at a gate whose record exists, so a decision posted
\* for its current step passes every check.
THEOREM PausedRunsCanBeDecided ==
  SerialReview /\ PutDefinitions = {} /\ AllRouted => (Spec => []PausedRunCanBeDecided)
<1> SUFFICES ASSUME SerialReview, PutDefinitions = {}, AllRouted
             PROVE  Spec => []PausedRunCanBeDecided
  OBVIOUS
<1>1. EngineAll => PausedRunCanBeDecided
  <2> SUFFICES ASSUME EngineAll, NEW r \in Runs, run[r].status = "paused"
               PROVE  Acceptable(r, run[r].index)
    BY DEF PausedRunCanBeDecided
  <2>1. PauseOutcome(r)
    BY DEF EngineAll, OutcomeInv, RunOutcome, Created
  <2> QED
    BY <2>1 DEF PauseOutcome, Acceptable, Here, StepsOf
<1> QED
  BY <1>1, EngineAllHolds, PTL

------------------------------------------------------------------------------
(***************************************************************************)
(* Milestones.                                                             *)
(***************************************************************************)
Miles(r, i) == blackboard[r].milestones[i]

\* Only a coroutine that has just stored a milestone is past its own commit.
Stored(r) == \E t \in Coroutines : task[t].pc = "continue" /\ task[t].run = r

\* A teammate step behind a run has its milestone, one ahead of it has none, and the
\* one it stands at has a spare only where a crash lost the move to the next.
RunMiles(r) ==
  \A i \in Steps :
    /\ Miles(r, i) <= 1 + crashes
    /\ i < run[r].index /\ IsTeammate(StepsOf(r), i) => Miles(r, i) >= 1
    /\ i > run[r].index => Miles(r, i) = 0
    /\ i = run[r].index /\ ~Stored(r) => Miles(r, i) <= crashes

\* A coroutine moves on from a milestone it stored, or from a gate.
TaskMiles(t) ==
  /\ task[t].pc = "continue" => Miles(task[t].run, task[t].index) >= 1
  /\ task[t].pc \in DecidedPCs => IsGate(task[t].steps, task[t].index)

MilesInv ==
  /\ \A r \in Runs : RunMiles(r)
  /\ \A t \in Coroutines : TaskMiles(t)

MilesAll == TypeInv /\ OwnInv /\ GateInv /\ ReviewInv /\ MilesInv

LEMMA MilesTypes ==
  ASSUME TypeInv, NEW r \in Runs
  PROVE  /\ run[r].index \in Nat /\ crashes \in Nat /\ Steps \subseteq Nat
         /\ blackboard \in [Runs -> BlackboardRow]
         /\ \A i \in Steps : Miles(r, i) \in Nat
<1>1. blackboard[r] \in BlackboardRow
  BY DEF TypeInv, TypeOK, StoreTypeOK
<1>2. \A i \in Steps : Miles(r, i) \in Nat
  BY <1>1 DEF BlackboardRow, Miles
<1> QED
  BY <1>2, CountTypes DEF TypeInv, TypeOK, StoreTypeOK

LEMMA BlackboardRows ==
  ASSUME TypeInv, NEW r \in Runs, NEW i \in Steps
  PROVE  /\ SetGoal(r) =>
              \A q \in Runs, j \in Steps : Miles(q, j)' = Miles(q, j)
         /\ AddMilestone(r, i) =>
              /\ Miles(r, i)' = Miles(r, i) + 1
              /\ \A q \in Runs, j \in Steps : q # r \/ j # i => Miles(q, j)' = Miles(q, j)
<1>1. blackboard \in [Runs -> BlackboardRow] /\ blackboard[r] \in BlackboardRow
  BY MilesTypes
<1>2. ASSUME SetGoal(r) PROVE \A q \in Runs, j \in Steps : Miles(q, j)' = Miles(q, j)
  BY <1>1, <1>2 DEF SetGoal, Miles, BlackboardRow
<1>3. ASSUME AddMilestone(r, i)
      PROVE  /\ Miles(r, i)' = Miles(r, i) + 1
             /\ \A q \in Runs, j \in Steps : q # r \/ j # i => Miles(q, j)' = Miles(q, j)
  <2> DEFINE row == [blackboard[r] EXCEPT !.milestones[i] = blackboard[r].milestones[i] + 1]
  <2>1. blackboard' = [blackboard EXCEPT ![r] = row]
    BY <1>1, <1>3 DEF AddMilestone
  <2>2. /\ row.milestones[i] = blackboard[r].milestones[i] + 1
        /\ \A j \in Steps : j # i => row.milestones[j] = blackboard[r].milestones[j]
    BY <1>1 DEF BlackboardRow
  <2> HIDE DEF row
  <2> QED
    BY <1>1, <2>1, <2>2 DEF Miles
<1> QED
  BY <1>2, <1>3

\* The index of a run moves exactly when its driver is done with a step, and only a
\* stored milestone takes a teammate's driver there.
LEMMA StepMoves ==
  ASSUME TypeInv, NEW t \in Coroutines, Step(t), NEW r \in Runs, r = task[t].run
  PROVE  /\ task[t].pc \in {"continue", "continuation"} =>
              run'[r].index = task[t].index + 1
         /\ task[t].pc \notin {"continue", "continuation"} => run'[r].index = run[r].index
         /\ \/ /\ \A q \in Runs, j \in Steps : Miles(q, j)' = Miles(q, j)
               /\ task'[t].pc # "continue"
            \/ StoreMilestone(t)
<1>1. TasksOK /\ StoreTypeOK /\ (Works(t) \/ Advances(t) \/ Leaves(t))
  BY StepEffect DEF TypeInv, TypeOK
<1>2. ASSUME task[t].pc \in {"continue", "continuation"}
      PROVE  run'[r].index = task[t].index + 1
  <2>1. CompleteRun(t) \/ MoveToNextStep(t)
    BY <1>2
    DEF Step, CreateNextRecord, SetGoalAndSpawn, StartTeammateStep, MarkAwaitingApproval,
        PauseRun, AdvanceRaises, BackstopFailsRun, ModelAnswers, StoreMilestone,
        ModelCallFails, FailRun, RejectRecord, RejectRun, ApproveRecord, PropagateEdit,
        AtAdvance, Holds, Wakes
  <2>2. \E s : UpdateRunStatusAt(r, s, task[t].index + 1)
    BY <2>1 DEF CompleteRun, MoveToNextStep
  <2> QED
    BY <1>1, <2>2, UpdatedRun
<1>3. task[t].pc \notin {"continue", "continuation"} => run'[r].index = run[r].index
  BY <1>1 DEF Works, Advances, Leaves
<1>4. ASSUME ~StoreMilestone(t)
      PROVE  /\ \A q \in Runs, j \in Steps : Miles(q, j)' = Miles(q, j)
             /\ task'[t].pc # "continue"
  <2>1. CASE PauseRun(t) \/ FailRun(t) \/ BackstopFailsRun(t) \/ RejectRun(t) \/ CompleteRun(t)
    <3>1. blackboard' = blackboard /\ Finish(t)
      BY <2>1 DEF PauseRun, FailRun, BackstopFailsRun, RejectRun, CompleteRun
    <3> QED
      BY <1>1, <3>1, FinishedTask DEF Miles
  <2>2. CASE CreateNextRecord(t)
    <3>1. /\ blackboard' = blackboard /\ task[t].pc = "create_records"
          /\ task' = [task EXCEPT ![t].index = task[t].index + 1]
      BY <2>2 DEF CreateNextRecord, Holds
    <3>2. task'[t].pc = "create_records"
      BY <1>1, <3>1, AtWork DEF TasksOK, TaskRow
    <3> QED
      BY <3>1, <3>2 DEF Miles
  <2>3. CASE SetGoalAndSpawn(t)
    <3>1. SetGoal(r) /\ task' = [task EXCEPT ![t].pc = "execute", ![t].index = 0]
      BY <2>3 DEF SetGoalAndSpawn
    <3>2. task'[t].pc = "execute"
      BY <1>1, <3>1, MovedTaskTo
    <3>3. 0 \in Steps
      BY ConstantFacts DEF Steps
    <3> QED
      BY <3>1, <3>2, <3>3, BlackboardRows
  <2>4. CASE StartTeammateStep(t) \/ MarkAwaitingApproval(t)
    <3>1. blackboard' = blackboard
      BY <2>4 DEF StartTeammateStep, MarkAwaitingApproval
    <3>2. PICK pc \in {"calling", "raised", "pause"} : task'[t].pc = pc
      <4>1. task[t] \in TaskRow
        BY <1>1, AtWork
      <4>2. PICK pc \in {"calling", "raised", "pause"} : \E i, prompt :
              task' = [task EXCEPT ![t].pc = pc, ![t].index = i, ![t].prompt = prompt]
        <5>1. CASE StartTeammateStep(t)
          BY <5>1 DEF StartTeammateStep
        <5>2. CASE MarkAwaitingApproval(t)
          <6>1. PICK i : task' = [task EXCEPT ![t].pc = "pause", ![t].index = i]
            BY <5>2 DEF MarkAwaitingApproval
          <6>2. task' = [task EXCEPT ![t].pc = "pause", ![t].index = i,
                                     ![t].prompt = task[t].prompt]
            BY <1>1, <4>1, <6>1 DEF TasksOK, TaskRow
          <6> QED
            BY <6>2
        <5> QED
          BY <2>4, <5>1, <5>2
      <4> QED
        BY <1>1, <4>1, <4>2 DEF TasksOK, TaskRow
    <3> QED
      BY <3>1, <3>2 DEF Miles
  <2>5. CASE AdvanceRaises(t) \/ ModelAnswers(t) \/ ModelCallFails(t) \/ MoveToNextStep(t)
               \/ RejectRecord(t) \/ ApproveRecord(t) \/ PropagateEdit(t)
    <3>1. /\ blackboard' = blackboard
          /\ \E pc \in PCs \ {"continue"} : task' = [task EXCEPT ![t].pc = pc]
      BY <2>5
      DEF AdvanceRaises, ModelAnswers, ModelCallFails, MoveToNextStep, RejectRecord,
          ApproveRecord, PropagateEdit, Goto, Suspend, storeVars, PCs
    <3> QED
      BY <1>1, <3>1, MovedTask DEF Miles
  <2> QED
    BY <1>4, <2>1, <2>2, <2>3, <2>4, <2>5 DEF Step
<1> QED
  BY <1>2, <1>3, <1>4

\* What is known of the run of a coroutine at work.
LEMMA AtWorkMiles ==
  ASSUME MilesAll, NEW t \in Coroutines, task[t].pc \in WorkingPCs
  PROVE  \E r \in Runs :
           /\ r = task[t].run /\ RunMiles(r) /\ TaskMiles(t) /\ TaskReview(t) /\ Alone(t)
           /\ Created(r) /\ task[t].steps = StepsOf(r)
           /\ task[t].pc \in SteppingPCs => task[t].index = run[r].index
           /\ run[r].status = IF task[t].pc \in DecidedPCs THEN "paused" ELSE "running"
<1>1. PICK r \in Runs : r = task[t].run
  BY AtWork DEF MilesAll, TypeInv
<1>2. /\ Created(r) /\ task[t].steps = StepsOf(r)
      /\ task[t].pc \in SteppingPCs => task[t].index = run[r].index
  BY <1>1, AtWorkMaps DEF MilesAll
<1> QED
  BY <1>1, <1>2 DEF MilesAll, MilesInv, ReviewInv, OwnInv, Owns

\* The definition a coroutine carries, and the gate it decides, stay.
LEMMA StepGate ==
  ASSUME MilesAll, NEW t \in Coroutines, Step(t)
  PROVE  task'[t].pc \in DecidedPCs => IsGate(task'[t].steps, task'[t].index)
<1> SUFFICES ASSUME task'[t].pc \in DecidedPCs
             PROVE  IsGate(task'[t].steps, task'[t].index)
  OBVIOUS
<1>1. TasksOK /\ Works(t) /\ task[t].pc \in DecidedPCs /\ task'[t].index = task[t].index
  BY StepEffect, PCClasses
  DEF MilesAll, TypeInv, Works, Advances, Leaves, RunningPCs, DecidedPCs
<1>2. RejectRecord(t) \/ ApproveRecord(t) \/ PropagateEdit(t)
  <2>1. task'[t].pc \notin {"free", "recover", "advance"}
    BY DEF DecidedPCs
  <2>2. ~(RejectRun(t) \/ CompleteRun(t) \/ MoveToNextStep(t))
    <3>1. ASSUME RejectRun(t) \/ CompleteRun(t) PROVE FALSE
      BY <1>1, <2>1, <3>1, FinishedTask DEF RejectRun, CompleteRun
    <3>2. ASSUME MoveToNextStep(t) PROVE FALSE
      <4>1. task' = [task EXCEPT ![t].pc = "advance"]
        BY <3>2 DEF MoveToNextStep, Goto
      <4> QED
        BY <1>1, <2>1, <4>1, MovedTask
    <3> QED
      BY <3>1, <3>2
  <2> QED
    BY <1>1, <2>2
    DEF Step, CreateNextRecord, SetGoalAndSpawn, StartTeammateStep, MarkAwaitingApproval,
        PauseRun, AdvanceRaises, BackstopFailsRun, ModelAnswers, StoreMilestone,
        ModelCallFails, FailRun, AtAdvance, Holds, Wakes, DecidedPCs
<1>3. \E pc : task' = [task EXCEPT ![t].pc = pc]
  BY <1>2 DEF RejectRecord, ApproveRecord, PropagateEdit, Goto, Suspend
<1>4. task'[t].steps = task[t].steps
  BY <1>1, <1>3, MovedTask
<1> QED
  BY <1>1, <1>4 DEF MilesAll, MilesInv, TaskMiles

LEMMA StepPlaybook ==
  ASSUME TypeInv, NEW t \in Coroutines, Step(t), NEW r \in Runs, r = task[t].run
  PROVE  run'[r].playbook = run[r].playbook
<1>1. run \in [Runs -> RunRow] /\ run[r] \in RunRow
  BY DEF TypeInv, TypeOK, StoreTypeOK
<1>2. \/ run' = run
      \/ \E s : UpdateRunStatus(r, s) \/ \E i : UpdateRunStatusAt(r, s, i)
  BY DEF Step, CreateNextRecord, SetGoalAndSpawn, StartTeammateStep, MarkAwaitingApproval,
     PauseRun, AdvanceRaises, BackstopFailsRun, ModelAnswers, StoreMilestone,
     ModelCallFails, FailRun, CompleteRun, MoveToNextStep, RejectRecord, RejectRun,
     ApproveRecord, PropagateEdit, storeVars
<1>3. ASSUME NEW s, UpdateRunStatus(r, s) PROVE run'[r].playbook = run[r].playbook
  BY <1>1, <1>3 DEF UpdateRunStatus, RunRow
<1>4. ASSUME NEW s, NEW i, UpdateRunStatusAt(r, s, i) PROVE run'[r].playbook = run[r].playbook
  BY <1>1, <1>4 DEF UpdateRunStatusAt, RunRow
<1> QED
  BY <1>2, <1>3, <1>4

LEMMA StepMiles ==
  ASSUME MilesAll, NEW t \in Coroutines, Step(t)
  PROVE  MilesInv'
<1>1. TypeInv /\ task[t].pc \in WorkingPCs /\ Others(t)
  BY StepEffect DEF MilesAll
<1>2. PICK r \in Runs :
        /\ r = task[t].run /\ RunMiles(r) /\ TaskMiles(t) /\ TaskReview(t) /\ Alone(t)
        /\ Created(r) /\ task[t].steps = StepsOf(r)
        /\ task[t].pc \in SteppingPCs => task[t].index = run[r].index
  BY <1>1, AtWorkMiles
<1>3. /\ task[t].pc \in {"continue", "continuation"} =>
           run'[r].index = task[t].index + 1
      /\ task[t].pc \notin {"continue", "continuation"} => run'[r].index = run[r].index
      /\ \/ /\ \A q \in Runs, j \in Steps : Miles(q, j)' = Miles(q, j)
            /\ task'[t].pc # "continue"
         \/ StoreMilestone(t)
  BY <1>1, <1>2, StepMoves
<1>4. /\ run[r].index \in Nat /\ crashes \in Nat /\ Steps \subseteq Nat
      /\ \A j \in Steps : Miles(r, j) \in Nat
  BY <1>1, MilesTypes
<1>5. /\ StepsOf(r)' = StepsOf(r) /\ crashes' = crashes
      /\ \A u \in Coroutines : u # t /\ task[u].pc = "continue" => task[u].run # r
  <2>1. definition' = definition /\ run'[r].playbook = run[r].playbook /\ crashes' = crashes
    BY <1>1, <1>2, StepPlaybook DEF Others
  <2> QED
    BY <1>1, <1>2, <2>1, PCFacts DEF StepsOf, Alone
<1>6. ASSUME NEW q \in Runs, q # r PROVE RunMiles(q)'
  <2>1. RunMiles(q) /\ run'[q] = run[q] /\ StepsOf(q)' = StepsOf(q)
    BY <1>1, <1>2, <1>6 DEF Others, MilesAll, MilesInv, StepsOf
  <2>2. \A j \in Steps : Miles(q, j)' = Miles(q, j)
    <3>1. CASE StoreMilestone(t)
      BY <1>1, <1>2, <1>6, <3>1, AtWork, BlackboardRows, PCFacts
      DEF StoreMilestone, Holds, TypeInv, SteppingPCs
    <3> QED
      BY <1>3, <3>1
  <2>3. Stored(q) => Stored(q)'
    BY <1>1, <1>2, <1>6 DEF Stored, Others
  <2> QED
    BY <1>5, <2>1, <2>2, <2>3 DEF RunMiles
<1>7. RunMiles(r)'
  <2>1. CASE StoreMilestone(t)
    <3>1. /\ task[t].pc = "milestone" /\ AddMilestone(r, task[t].index)
          /\ task' = [task EXCEPT ![t].pc = "continue"]
      BY <1>2, <2>1 DEF StoreMilestone, Holds, Goto
    <3>2. PICK i \in Steps : i = task[t].index /\ i = run[r].index
      BY <1>1, <1>2, <3>1, AtWork DEF TypeInv, SteppingPCs
    <3>3. /\ Miles(r, i)' = Miles(r, i) + 1 /\ run'[r].index = i
          /\ \A j \in Steps : j # i => Miles(r, j)' = Miles(r, j)
      BY <1>1, <1>3, <3>1, <3>2, BlackboardRows
    <3>4. ~Stored(r) /\ Stored(r)'
      <4>1. task'[t].pc = "continue" /\ task'[t].run = r
        BY <1>1, <1>2, <3>1, MovedTask DEF TypeInv
      <4> QED
        BY <1>5, <3>1, <4>1 DEF Stored
    <3>5. Miles(r, i) <= crashes
      BY <1>2, <3>2, <3>4 DEF RunMiles
    <3> QED
      BY <1>2, <1>4, <1>5, <3>2, <3>3, <3>4, <3>5 DEF RunMiles
  <2>2. CASE task[t].pc \in {"continue", "continuation"}
    <3>1. PICK i \in Steps : i = task[t].index /\ i = run[r].index
      BY <1>1, <1>2, <2>2, AtWork DEF TypeInv, SteppingPCs
    <3>2. run'[r].index = i + 1 /\ \A j \in Steps : Miles(r, j)' = Miles(r, j)
      BY <1>3, <2>2, <3>1 DEF StoreMilestone, Holds
    <3>3. IsTeammate(StepsOf(r), i) => Miles(r, i) >= 1
      <4>1. CASE task[t].pc = "continue"
        BY <1>2, <3>1, <4>1 DEF TaskMiles
      <4>2. CASE task[t].pc = "continuation"
        BY <1>2, <3>1, <4>2
        DEF TaskMiles, DecidedPCs, IsGate, IsTeammate, Gates, Teammates
      <4> QED
        BY <2>2, <4>1, <4>2
    <3>4. \A j \in Steps : IsTeammate(StepsOf(r), j)' <=> IsTeammate(StepsOf(r), j)
      BY <1>5 DEF IsTeammate, Kind
    <3> QED
      BY <1>2, <1>4, <1>5, <3>1, <3>2, <3>3, <3>4 DEF RunMiles
  <2>3. CASE ~StoreMilestone(t) /\ task[t].pc \notin {"continue", "continuation"}
    <3>1. Stored(r) => Stored(r)'
      BY <1>1, <1>5, <2>3 DEF Stored, Others
    <3> QED
      BY <1>2, <1>3, <1>5, <2>3, <3>1 DEF RunMiles, IsTeammate, Kind
  <2> QED
    BY <2>1, <2>2, <2>3
<1>8. ASSUME NEW u \in Coroutines PROVE TaskMiles(u)'
  <2>1. CASE u # t
    <3>1. TaskMiles(u) /\ task'[u] = task[u]
      BY <1>1, <2>1 DEF Others, MilesAll, MilesInv
    <3>2. task[u].pc = "continue" =>
            Miles(task[u].run, task[u].index)' = Miles(task[u].run, task[u].index)
      <4> SUFFICES ASSUME task[u].pc = "continue"
                   PROVE  Miles(task[u].run, task[u].index)' = Miles(task[u].run, task[u].index)
        OBVIOUS
      <4>1. PICK q \in Runs, j \in Steps : q = task[u].run /\ j = task[u].index
        BY <1>1, AtWork, PCFacts DEF TypeInv, SteppingPCs
      <4>2. q # r
        BY <1>5, <2>1, <4>1
      <4>3. Miles(q, j)' = Miles(q, j)
        BY <1>1, <1>2, <1>3, <4>2, AtWork, BlackboardRows, PCFacts
        DEF StoreMilestone, Holds, TypeInv, SteppingPCs
      <4> QED
        BY <3>1, <4>1, <4>3 DEF Miles
    <3> QED
      BY <3>1, <3>2 DEF TaskMiles, Miles
  <2>2. task'[t].pc = "continue" => blackboard'[task'[t].run].milestones[task'[t].index] >= 1
    <3> SUFFICES ASSUME task'[t].pc = "continue"
                 PROVE  blackboard'[task'[t].run].milestones[task'[t].index] >= 1
      OBVIOUS
    <3>1. /\ task[t].pc = "milestone" /\ AddMilestone(r, task[t].index)
          /\ task' = [task EXCEPT ![t].pc = "continue"]
      BY <1>2, <1>3 DEF StoreMilestone, Holds, Goto
    <3>2. PICK i \in Steps : i = task[t].index
      BY <1>1, <3>1, AtWork DEF TypeInv, SteppingPCs
    <3>3. task'[t].run = r /\ task'[t].index = i
      BY <1>1, <1>2, <3>1, <3>2, MovedTask DEF TypeInv
    <3>4. blackboard'[r].milestones[i] >= 1
      BY <1>1, <1>4, <3>1, <3>2, BlackboardRows DEF Miles
    <3> QED
      BY <3>3, <3>4
  <2>3. CASE u = t
    BY <2>2, <2>3, StepGate DEF TaskMiles, Miles
  <2> QED
    BY <2>1, <2>3
<1> QED
  BY <1>6, <1>7, <1>8 DEF MilesInv

\* A step that stores no milestone and moves no run: what it starts decides a gate or
\* has stored nothing yet, and a coroutine is lost only to a crash.
LEMMA ElsewhereMiles ==
  ASSUME MilesAll, definition' = definition, blackboard' = blackboard,
         crashes' = crashes \/ crashes' = crashes + 1,
         \A r \in Runs :
           /\ run'[r].index = run[r].index
           /\ Created(r) => run'[r].playbook = run[r].playbook
           /\ crashes' = crashes => (Stored(r) => Stored(r)'),
         \A u \in Coroutines :
           \/ task'[u] = task[u]
           \/ /\ task'[u].pc # "continue"
              /\ task'[u].pc \in DecidedPCs => IsGate(task'[u].steps, task'[u].index)
  PROVE  MilesInv'
<1>1. ASSUME NEW r \in Runs PROVE RunMiles(r)'
  <2>1. /\ RunMiles(r) /\ run[r].index \in Nat /\ crashes \in Nat /\ Steps \subseteq Nat
        /\ \A i \in Steps : Miles(r, i) \in Nat
    BY MilesTypes DEF MilesAll, MilesInv
  <2>2. \A i \in Steps : Miles(r, i)' = Miles(r, i)
    BY DEF Miles
  <2>3. Created(r) => StepsOf(r)' = StepsOf(r)
    BY DEF StepsOf
  <2>4. ~Created(r) => run[r].index = 0
    BY DEF MilesAll, OwnInv, Created
  <2>5. ASSUME NEW i \in Steps
        PROVE  /\ Miles(r, i) <= 1 + crashes'
               /\ i < run[r].index /\ IsTeammate(StepsOf(r), i)' => Miles(r, i) >= 1
               /\ i > run[r].index => Miles(r, i) = 0
               /\ i = run[r].index /\ ~Stored(r)' => Miles(r, i) <= crashes'
    <3>1. Miles(r, i) <= 1 + crashes /\ (i > run[r].index => Miles(r, i) = 0)
      BY <2>1 DEF RunMiles
    <3>2. i < run[r].index /\ IsTeammate(StepsOf(r), i)' => Miles(r, i) >= 1
      <4>1. i < run[r].index => Created(r)
        BY <2>1, <2>4
      <4> QED
        BY <2>1, <2>3, <4>1 DEF RunMiles, IsTeammate, Kind
    <3>3. i = run[r].index /\ ~Stored(r)' => Miles(r, i) <= crashes'
      <4>1. CASE crashes' = crashes
        BY <2>1, <4>1 DEF RunMiles
      <4>2. CASE crashes' = crashes + 1
        BY <2>1, <3>1, <4>2
      <4> QED
        BY <4>1, <4>2
    <3> QED
      BY <2>1, <3>1, <3>2, <3>3
  <2> QED
    BY <2>2, <2>5 DEF RunMiles
<1>2. ASSUME NEW u \in Coroutines PROVE TaskMiles(u)'
  BY DEF TaskMiles, Miles, MilesAll, MilesInv
<1> QED
  BY <1>1, <1>2 DEF MilesInv

\* A coroutine that was not past a milestone of its own leaves the others as they are.
LEMMA StoredKept ==
  ASSUME NEW t \in Coroutines, task[t].pc # "continue",
         \A u \in Coroutines : u # t => task'[u] = task[u],
         NEW r \in Runs, Stored(r)
  PROVE  Stored(r)'
BY DEF Stored

LEMMA CreateRunMiles ==
  ASSUME MilesAll, NEW t \in Tasks, NEW p \in Playbooks, NEW r \in Runs, CreateRun(t, p, r)
  PROVE  MilesInv'
<1>1. /\ t \in Coroutines /\ TasksOK /\ StoreTypeOK /\ task[t].pc = "free"
      /\ run[r].status = "absent" /\ run[r].index = 0
      /\ UNCHANGED <<definition, blackboard, crashes>>
      /\ task' = [task EXCEPT ![t] = Coroutine("create_records", r, 0, definition[p])]
      /\ run' = [run EXCEPT ![r] = [playbook |-> p, status |-> "running", index |-> 0]]
  BY ConstantFacts
  DEF CreateRun, CreateRunRow, Wakes, MilesAll, TypeInv, TypeOK, OwnInv
<1>2. \A q \in Runs : /\ run'[q].index = run[q].index
                      /\ Created(q) => run'[q].playbook = run[q].playbook
  BY <1>1 DEF StoreTypeOK, Created
<1>3. /\ task'[t].pc = "create_records"
      /\ \A u \in Coroutines : u # t => task'[u] = task[u]
  BY <1>1 DEF TasksOK, Coroutine
<1>4. \A q \in Runs : Stored(q) => Stored(q)'
  BY <1>1, <1>3, StoredKept
<1>5. \A u \in Coroutines : task'[u] = task[u]
                            \/ (task'[u].pc # "continue" /\ task'[u].pc \notin DecidedPCs)
  BY <1>3 DEF DecidedPCs
<1> QED
  BY <1>1, <1>2, <1>4, <1>5, ElsewhereMiles

LEMMA AcceptDecisionMiles ==
  ASSUME MilesAll, NEW t \in Tasks, NEW r \in Runs, NEW i \in Steps, NEW d \in Submissions,
         AcceptDecision(t, r, i, d)
  PROVE  MilesInv'
<1> DEFINE row == [Coroutine("decided", r, run[r].index, definition[run[r].playbook])
                     EXCEPT !.decision = d]
<1>1. /\ t \in Coroutines /\ TasksOK /\ task[t].pc = "free"
      /\ UNCHANGED <<definition, run, blackboard, crashes>>
      /\ IsGate(definition[run[r].playbook], run[r].index)
      /\ task' = [task EXCEPT ![t] = row]
  BY ConstantFacts DEF AcceptDecision, Acceptable, Wakes, MilesAll, TypeInv
<1>2. /\ row.pc = "decided" /\ row.steps = definition[run[r].playbook]
      /\ row.index = run[r].index
  BY DEF Coroutine
<1> HIDE DEF row
<1>3. /\ task'[t].pc = "decided" /\ IsGate(task'[t].steps, task'[t].index)
      /\ \A u \in Coroutines : u # t => task'[u] = task[u]
  BY <1>1, <1>2 DEF TasksOK
<1>4. \A q \in Runs : Stored(q) => Stored(q)'
  BY <1>1, <1>3, StoredKept
<1>5. \A u \in Coroutines :
        \/ task'[u] = task[u]
        \/ (task'[u].pc # "continue" /\ IsGate(task'[u].steps, task'[u].index))
  BY <1>3
<1> QED
  BY <1>1, <1>4, <1>5, ElsewhereMiles

LEMMA RecoverMiles ==
  ASSUME MilesAll, Recover \/ Restart
  PROVE  MilesInv'
<1>1. /\ TasksOK /\ Recovery \in Coroutines
      /\ ~up => task[Recovery] = FreeTask
  BY ConstantFacts DEF MilesAll, TypeInv, OwnInv
<1>2. /\ definition' = definition /\ UNCHANGED <<run, blackboard, crashes>>
      /\ task[Recovery].pc # "continue"
  <2>1. CASE Recover
    BY <2>1 DEF Recover, RecoveryDies, RecoveryEnds, RecoverRun, storeVars, Holds
  <2>2. CASE Restart
    BY <1>1, <2>2 DEF Restart, FreeTask, Coroutine, MilesAll, GateInv
  <2> QED
    BY <2>1, <2>2
<1>3. /\ task'[Recovery].pc \in {"free", "advance", "recover"}
      /\ \A u \in Coroutines : u # Recovery => task'[u] = task[u]
  <2>1. CASE Recover
    <3>1. \/ task' = [task EXCEPT ![Recovery] = FreeTask]
          \/ \E r \in Runs : task' = [task EXCEPT ![Recovery] =
               Coroutine("advance", r, run[r].index, loaded[run[r].playbook])]
      BY <2>1 DEF Recover, RecoveryDies, RecoveryEnds, RecoverRun
    <3> QED
      BY <1>1, <3>1 DEF TasksOK, FreeTask, Coroutine
  <2>2. CASE Restart
    <3>1. task' = [task EXCEPT ![Recovery].pc = "recover"]
      BY <2>2 DEF Restart
    <3> QED
      BY <1>1, <3>1, MovedTask
  <2> QED
    BY <2>1, <2>2
<1>4. \A q \in Runs : Stored(q) => Stored(q)'
  BY <1>1, <1>2, <1>3, StoredKept
<1>5. \A u \in Coroutines : task'[u] = task[u]
                            \/ (task'[u].pc # "continue" /\ task'[u].pc \notin DecidedPCs)
  BY <1>3 DEF DecidedPCs
<1> QED
  BY <1>2, <1>4, <1>5, ElsewhereMiles

LEMMA NextMilesInv ==
  ASSUME PutDefinitions = {}, MilesAll, [Next]_vars
  PROVE  MilesInv'
<1>1. CASE Crash
  <2>1. /\ UNCHANGED <<definition, run, blackboard>> /\ crashes' = crashes + 1
        /\ task' = [t \in Coroutines |-> FreeTask]
    BY <1>1 DEF Crash, storeVars
  <2>2. \A u \in Coroutines : task'[u].pc = "free"
    BY <2>1 DEF FreeTask, Coroutine
  <2>3. crashes' # crashes
    BY <2>1, CountTypes DEF MilesAll
  <2>4. \A u \in Coroutines : task'[u].pc # "continue" /\ task'[u].pc \notin DecidedPCs
    BY <2>2 DEF DecidedPCs
  <2> QED
    BY <2>1, <2>3, <2>4, ElsewhereMiles
<1>2. ASSUME NEW r \in Runs, ShowGate(r) PROVE MilesInv'
  BY <1>2, ElsewhereMiles DEF ShowGate, storeVars, Stored
<1>3. CASE UNCHANGED vars
  BY <1>3, ElsewhereMiles DEF vars, storeVars, engineVars, Stored
<1>4. ~\E p \in Playbooks, d \in PutDefinitions : UpdatePlaybook(p, d)
  OBVIOUS
<1> QED
  BY <1>1, <1>2, <1>3, <1>4, StepMiles, CreateRunMiles, AcceptDecisionMiles, RecoverMiles
  DEF Next

LEMMA InitMilesInv == Init => MilesInv
<1> SUFFICES ASSUME Init PROVE MilesInv
  OBVIOUS
<1>1. \A r \in Runs, i \in Steps : run[r].index = 0 /\ Miles(r, i) = 0
  BY DEF Init, StoreInit, AbsentRun, Miles
<1>2. \A t \in Coroutines : task[t].pc = "free"
  BY DEF Init, FreeTask, Coroutine
<1>3. crashes = 0 /\ Steps \subseteq Nat
  BY DEF Init, Steps
<1>4. ASSUME NEW r \in Runs PROVE RunMiles(r)
  <2>1. \A i \in Steps : Miles(r, i) = 0 /\ i \in Nat
    BY <1>1, <1>3
  <2> QED
    BY <1>1, <1>3, <2>1 DEF RunMiles
<1>5. \A t \in Coroutines : TaskMiles(t)
  BY <1>2 DEF TaskMiles, DecidedPCs
<1> QED
  BY <1>4, <1>5 DEF MilesInv

\* _run_teammate_step stores a step's output and its milestone in two commits before
\* the run moves on, so every teammate step a run has passed left its milestone on the
\* blackboard, and a step has more of them than one only where crashes made recovery
\* repeat it: never more than one for each crash.
THEOREM MilestonesAgree ==
  SerialReview /\ PutDefinitions = {} => (Spec => []MilestonesMatchSteps)
<1> SUFFICES ASSUME SerialReview, PutDefinitions = {}
             PROVE  Spec => []MilestonesMatchSteps
  OBVIOUS
<1>1. Init => MilesAll
  BY InitTypeInv, InitOwnInv, InitGateInv, InitReviewInv, InitMilesInv DEF MilesAll
<1>2. MilesAll /\ [Next]_vars => MilesAll'
  BY NextTypeInv, NextOwnInv, NextGateInv, NextReviewInv, NextMilesInv DEF MilesAll
<1>3. MilesAll => MilestonesMatchSteps
  BY DEF MilesAll, MilesInv, RunMiles, Miles, MilestonesMatchSteps
<1> QED
  BY <1>1, <1>2, <1>3, PTL DEF Spec

------------------------------------------------------------------------------
(***************************************************************************)
(* Prompts.                                                                *)
(***************************************************************************)
\* Each gate has the teammate it reviews right before it: behind another gate, an edit
\* overwrites that gate's record (_previous_step_record).
GatesReview ==
  \A d \in Definitions : \A g \in Steps : IsGate(d, g) => g = 0 \/ IsTeammate(d, g - 1)

\* out is what step j contributes to a run that has come to step n.
OutputTells(r, steps, j, n, out) ==
  /\ out \in {"llm", "edited"}
  /\ j + 1 < n /\ IsGate(steps, j + 1) /\ Edits(LastDecision(r, j + 1)) => out = "edited"

RunEdits(r) ==
  \A j \in Steps :
    Created(r) /\ IsTeammate(StepsOf(r), j) /\ record[r][j].status = "completed"
    => OutputTells(r, StepsOf(r), j, run[r].index, record[r][j].output)

\* Before a continuation is spawned, an edit has reached the step it is about.
EditReached(t) ==
  \A j \in Steps :
    j + 1 = task[t].index /\ IsTeammate(task[t].steps, j)
    /\ Edits(LastDecision(task[t].run, task[t].index))
    => record[task[t].run][j].output = "edited"

PromptTells(t) ==
  \A j \in Steps :
    j < task[t].index /\ IsTeammate(task[t].steps, j)
    => OutputTells(task[t].run, task[t].steps, j, task[t].index, task[t].prompt[j])

TaskEdits(t) ==
  /\ task[t].pc = "continuation" => EditReached(t)
  /\ task[t].pc = "calling" => PromptTells(t)

EditInv ==
  /\ \A r \in Runs : RunEdits(r)
  /\ \A t \in Coroutines : TaskEdits(t)

EditAll == MilesAll /\ FrontInv /\ EditInv

\* The record of a run that the steps of its driver write, and what they write there.
WritesOutput(r, t) ==
  /\ \A q \in Runs, j \in Steps : q # r => record'[q][j] = record[q][j]
  /\ \A j \in Steps :
       \/ record'[r][j] = record[r][j]
       \/ record'[r][j].status # "completed"
       \/ j = run[r].index
          /\ (IsTeammate(task[t].steps, j) => record'[r][j].output \in {"llm", "edited"})
       \/ record'[r][j].output = "edited"

\* Only the record of step i of run r may change.
Spares(r, i) ==
  \A q \in Runs, j \in Steps : q # r \/ j # i => record'[q][j] = record[q][j]

LEMMA StatusRows ==
  ASSUME StoreTypeOK, NEW r \in Runs, NEW i \in Steps
  PROVE  /\ \A s : UpdateRecordStatus(r, i, s) => Spares(r, i) /\ record'[r][i].status = s
         /\ CreateStepRecord(r, i) => Spares(r, i) /\ record'[r][i].status = "pending"
         /\ ResetStepToPending(r, i) => Spares(r, i) /\ record'[r][i].status = "pending"
<1>1. record \in [Runs -> [Steps -> RecordRow]] /\ record[r][i] \in RecordRow
  BY DEF StoreTypeOK
<1> QED
  BY <1>1 DEF RecordRow, Spares, UpdateRecordStatus, CreateStepRecord, ResetStepToPending

LEMMA OutputRows ==
  ASSUME StoreTypeOK, NEW r \in Runs, NEW i \in Steps
  PROVE  /\ \A s, out : UpdateRecord(r, i, s, out) =>
              /\ Spares(r, i) /\ record'[r][i].status = s /\ record'[r][i].output = out
         /\ \A out : UpdateRecordOutput(r, i, out) =>
              Spares(r, i) /\ record'[r][i].output = out
<1>1. record \in [Runs -> [Steps -> RecordRow]] /\ record[r][i] \in RecordRow
  BY DEF StoreTypeOK
<1> QED
  BY <1>1 DEF RecordRow, Spares, UpdateRecord, UpdateRecordOutput

\* The completed step right before a gate is the one _previous_step_record finds.
LEMMA PreviousStep ==
  ASSUME NEW r, NEW i \in Nat, NEW j \in Steps, j + 1 = i, record[r][j].status = "completed"
  PROVE  /\ CompletedBefore(r, i) # {}
         /\ j = CHOOSE k \in CompletedBefore(r, i) : \A l \in CompletedBefore(r, i) : l <= k
<1>1. /\ \A k \in CompletedBefore(r, i) : k \in Nat /\ k < i
      /\ j \in CompletedBefore(r, i) /\ j \in Nat
  BY DEF CompletedBefore, Steps
<1>2. \A k \in CompletedBefore(r, i) : k <= j
  BY <1>1
<1>3. ASSUME NEW k \in CompletedBefore(r, i), \A l \in CompletedBefore(r, i) : l <= k
      PROVE  k = j
  <2>1. k \in Nat /\ j \in Nat /\ k <= j /\ j <= k
    BY <1>1, <1>2, <1>3
  <2> QED
    BY <2>1
<1> DEFINE Last(k) == \A l \in CompletedBefore(r, i) : l <= k
<1>4. Last(j) /\ \A k \in CompletedBefore(r, i) : Last(k) => k = j
  BY <1>2, <1>3
<1> HIDE DEF Last
<1>5. j = CHOOSE k \in CompletedBefore(r, i) : Last(k)
  BY <1>1, <1>4
<1> QED
  BY <1>1, <1>5 DEF Last

LEMMA StepOutputs ==
  ASSUME EditAll, NEW t \in Coroutines, Step(t), NEW r \in Runs, r = task[t].run
  PROVE  /\ WritesOutput(r, t)
         /\ task'[t].pc = "continuation" =>
              \A j \in Steps :
                j + 1 = task[t].index /\ IsTeammate(task[t].steps, j)
                /\ Edits(LastDecision(r, task[t].index))
                => record'[r][j].output = "edited"
<1>1. /\ TypeInv /\ TasksOK /\ StoreTypeOK /\ task[t] \in TaskRow /\ task[t].pc \in WorkingPCs
  BY StepEffect DEF EditAll, MilesAll, TypeInv, TypeOK, TasksOK
<1>2. /\ TaskMiles(t) /\ TaskReview(t) /\ TaskFront(t) /\ RunFront(r) /\ Created(r)
      /\ task[t].steps = StepsOf(r) /\ task[t].steps \in Definitions
      /\ task[t].pc \in SteppingPCs => task[t].index = run[r].index /\ run[r].index \in Steps
  <2>1. PICK q \in Runs :
          /\ q = task[t].run /\ TaskMiles(t) /\ TaskReview(t)
          /\ Created(q) /\ task[t].steps = StepsOf(q)
          /\ task[t].pc \in SteppingPCs => task[t].index = run[q].index
    BY <1>1, AtWorkMiles DEF EditAll
  <2> QED
    BY <1>1, <2>1, AtWork, FrontParts DEF EditAll
<1>3. CASE \/ SetGoalAndSpawn(t) \/ PauseRun(t) \/ AdvanceRaises(t) \/ BackstopFailsRun(t)
           \/ StoreMilestone(t) \/ FailRun(t) \/ CompleteRun(t) \/ MoveToNextStep(t)
           \/ RejectRun(t)
  <2>1. record' = record
    BY <1>3
    DEF SetGoalAndSpawn, PauseRun, AdvanceRaises, BackstopFailsRun, StoreMilestone, FailRun,
        CompleteRun, MoveToNextStep, RejectRun, storeVars
  <2>2. task'[t].pc # "continuation"
    <3>1. CASE PauseRun(t) \/ FailRun(t) \/ BackstopFailsRun(t) \/ RejectRun(t) \/ CompleteRun(t)
      <4>1. Finish(t)
        BY <3>1 DEF PauseRun, FailRun, BackstopFailsRun, RejectRun, CompleteRun
      <4> QED
        BY <1>1, <4>1, FinishedTask
    <3>2. CASE AdvanceRaises(t) \/ StoreMilestone(t) \/ MoveToNextStep(t)
      <4>1. \E pc \in {"raised", "continue", "advance"} : task' = [task EXCEPT ![t].pc = pc]
        BY <3>2 DEF AdvanceRaises, StoreMilestone, MoveToNextStep, Goto
      <4> QED
        BY <1>1, <4>1, MovedTask
    <3>3. CASE SetGoalAndSpawn(t)
      <4>1. task' = [task EXCEPT ![t].pc = "execute", ![t].index = 0]
        BY <3>3 DEF SetGoalAndSpawn
      <4>2. 0 \in Nat /\ task'[t].pc = "execute"
        BY <1>1, <4>1, MovedTaskTo
      <4> QED
        BY <4>2
    <3> QED
      BY <1>3, <3>1, <3>2, <3>3
  <2> QED
    BY <2>1, <2>2 DEF WritesOutput, Spares
<1>4. CASE CreateNextRecord(t)
  <2>1. /\ task[t].pc = "create_records" /\ task[t].index < Len(task[t].steps)
        /\ CreateStepRecord(r, task[t].index)
        /\ task' = [task EXCEPT ![t].index = task[t].index + 1]
    BY <1>2, <1>4 DEF CreateNextRecord, Holds
  <2>2. task[t].index \in Steps
    BY <1>1, <1>2, <2>1, DefinitionFacts, ConstantFacts DEF Steps, TaskRow
  <2>3. /\ Spares(r, task[t].index)
        /\ record'[r][task[t].index].status = "pending"
    BY <1>1, <2>1, <2>2, StatusRows
  <2>4. task'[t].pc = "create_records"
    BY <1>1, <2>1 DEF TaskRow, TasksOK
  <2> QED
    BY <2>3, <2>4 DEF WritesOutput, Spares
<1>5. CASE StartTeammateStep(t) \/ MarkAwaitingApproval(t)
  <2> DEFINE at == run[r].index
  <2>1. /\ AtAdvance(t) /\ CanAdvance(t)
        /\ UpdateRecordStatus(r, at, "running") \/ UpdateRecordStatus(r, at, "awaiting_approval")
    BY <1>2, <1>5 DEF StartTeammateStep, MarkAwaitingApproval
  <2>2. at \in Steps
    BY <1>1, <1>2, <2>1, RunningIndex DEF CanAdvance
  <2> HIDE DEF at
  <2>3. Spares(r, at) /\ record'[r][at].status # "completed"
    BY <1>1, <2>1, <2>2, StatusRows
  <2>4. task'[t].pc # "continuation"
    BY <1>1, <2>1, StepEffect, PCClasses
    DEF EditAll, MilesAll, Works, Advances, Leaves, AtAdvance, Holds, Wakes, RunningPCs,
        DecidedPCs
  <2> QED
    BY <2>3, <2>4 DEF WritesOutput, Spares
<1>6. CASE ModelAnswers(t) \/ ModelCallFails(t) \/ RejectRecord(t)
  <2> DEFINE i == task[t].index
  <2>1. /\ task[t].pc \in {"calling", "decided"}
        /\ \/ UpdateRecord(r, i, "completed", "llm") \/ UpdateRecord(r, i, "failed", "error")
           \/ UpdateRecordStatus(r, i, "rejected")
        /\ \E pc \in {"milestone", "fail", "reject"} : task' = [task EXCEPT ![t].pc = pc]
    BY <1>2, <1>6 DEF ModelAnswers, ModelCallFails, RejectRecord, Holds, Wakes, Goto
  <2>2. i \in Steps /\ i = run[r].index
    BY <1>2, <2>1 DEF SteppingPCs
  <2> HIDE DEF i
  <2>3. /\ Spares(r, i)
        /\ \/ record'[r][i].status \in {"failed", "rejected"}
           \/ record'[r][i].output = "llm"
    <3>1. CASE UpdateRecord(r, i, "completed", "llm")
      BY <1>1, <2>2, <3>1, OutputRows
    <3>2. CASE UpdateRecord(r, i, "failed", "error")
      BY <1>1, <2>2, <3>2, OutputRows
    <3>3. CASE UpdateRecordStatus(r, i, "rejected")
      BY <1>1, <2>2, <3>3, StatusRows
    <3> QED
      BY <2>1, <3>1, <3>2, <3>3
  <2>4. task'[t].pc # "continuation"
    BY <1>1, <2>1, MovedTask
  <2> QED
    BY <2>2, <2>3, <2>4 DEF WritesOutput, Spares
<1>7. CASE ApproveRecord(t)
  <2> DEFINE i == task[t].index
             d == task[t].decision
  <2>1. /\ task[t].pc = "decided"
        /\ IF Edits(d) THEN UpdateRecord(r, i, "completed", "edited")
                       ELSE UpdateRecordStatus(r, i, "completed")
        /\ IF Edits(d) /\ CompletedBefore(r, i) # {}
           THEN task' = [task EXCEPT ![t].pc = "propagate"]
           ELSE task' = [task EXCEPT ![t].pc = "continuation"]
    BY <1>2, <1>7 DEF ApproveRecord, Holds, Goto, Suspend
  <2>2. i \in Steps /\ i = run[r].index /\ LastDecision(r, i) = d /\ ~IsTeammate(task[t].steps, i)
    BY <1>2, <2>1
    DEF SteppingPCs, TaskReview, TaskMiles, DecidedPCs, IsGate, IsTeammate, Gates, Teammates
  <2> HIDE DEF i, d
  <2>3. /\ Spares(r, i)
        /\ Edits(d) => record'[r][i].output = "edited"
    <3>1. CASE Edits(d)
      <4>1. UpdateRecord(r, i, "completed", "edited")
        BY <2>1, <3>1
      <4> QED
        BY <1>1, <2>2, <4>1, OutputRows
    <3>2. CASE ~Edits(d)
      <4>1. UpdateRecordStatus(r, i, "completed")
        BY <2>1, <3>2
      <4> QED
        BY <1>1, <2>2, <3>2, <4>1, StatusRows
    <3> QED
      BY <3>1, <3>2
  <2>4. WritesOutput(r, t)
    BY <2>2, <2>3 DEF WritesOutput, Spares
  <2>5. ASSUME NEW j \in Steps, j + 1 = i, task'[t].pc = "continuation", Edits(d)
        PROVE  FALSE
    <3>1. record[r][j].status = "completed" /\ i \in Nat
      BY <1>2, <2>2, <2>5 DEF RunFront, Steps
    <3>2. CompletedBefore(r, i) # {}
      BY <2>5, <3>1, PreviousStep
    <3>3. task' = [task EXCEPT ![t].pc = "propagate"]
      BY <2>1, <2>5, <3>2
    <3>4. task'[t].pc = "propagate"
      BY <1>1, <3>3, MovedTask
    <3> QED
      BY <2>5, <3>4
  <2> QED
    BY <2>2, <2>4, <2>5 DEF i
<1>8. CASE PropagateEdit(t)
  <2> DEFINE i == task[t].index
             earlier == CompletedBefore(r, i)
             previous == CHOOSE j \in earlier : \A k \in earlier : k <= j
  <2>1. /\ task[t].pc = "propagate" /\ UpdateRecordOutput(r, previous, "edited")
    BY <1>2, <1>8 DEF PropagateEdit, Holds
  <2>2. i \in Steps /\ i = run[r].index
    BY <1>2, <2>1 DEF SteppingPCs
  <2>3. ASSUME NEW j \in Steps, j + 1 = i PROVE previous = j
    <3>1. record[r][j].status = "completed" /\ i \in Nat
      BY <1>2, <2>2, <2>3 DEF RunFront, Steps
    <3> QED
      BY <2>3, <3>1, PreviousStep
  <2> HIDE DEF previous, i, earlier
  <2>4. record' = record \/ previous \in Steps
    <3>1. ASSUME previous \notin Steps PROVE record' = record
      <4>1. record \in [Runs -> [Steps -> RecordRow]] /\ record[r] \in [Steps -> RecordRow]
        BY <1>1 DEF StoreTypeOK
      <4>2. [record[r] EXCEPT ![previous].output = "edited"] = record[r]
        BY <3>1, <4>1
      <4> QED
        BY <2>1, <4>1, <4>2 DEF UpdateRecordOutput
    <3> QED
      BY <3>1
  <2>5. \/ record' = record
        \/ /\ Spares(r, previous)
           /\ record'[r][previous].output = "edited"
    BY <1>1, <2>1, <2>4, OutputRows
  <2>6. WritesOutput(r, t)
    BY <2>5 DEF WritesOutput, Spares
  <2>7. ASSUME NEW j \in Steps, j + 1 = i PROVE record'[r][j].output = "edited"
    BY <1>1, <2>1, <2>3, <2>7, OutputRows
  <2> QED
    BY <2>6, <2>7 DEF i
<1> QED
  BY <1>3, <1>4, <1>5, <1>6, <1>7, <1>8 DEF Step

\* A run whose row, definition and decided gates stay contributes what it did, apart
\* from records that are being worked on.
LEMMA SameRunEdits ==
  ASSUME TypeInv, NEW r \in Runs, RunEdits(r), Created(r)' => Created(r),
         StepsOf(r)' = StepsOf(r), run'[r].index = run[r].index,
         \A j \in Steps :
           j < run[r].index => gateDecisions'[r][j] = gateDecisions[r][j],
         \A j \in Steps :
           \/ record'[r][j] = record[r][j] \/ record'[r][j].status # "completed"
           \/ j = run[r].index
              /\ (IsTeammate(StepsOf(r), j) => record'[r][j].output \in {"llm", "edited"})
           \/ record'[r][j].output = "edited"
  PROVE  RunEdits(r)'
<1>1. run[r].index \in 0 .. MaxSteps /\ MaxSteps \in Nat
  BY StepsFacts, ConstantFacts
<1>2. ASSUME NEW j \in Steps, Created(r)', IsTeammate(StepsOf(r), j),
             record'[r][j].status = "completed"
      PROVE  /\ record'[r][j].output \in {"llm", "edited"}
             /\ j + 1 < run[r].index /\ IsGate(StepsOf(r), j + 1)
                /\ Edits(LastDecision(r, j + 1)')
                => record'[r][j].output = "edited"
  <2>1. CASE record'[r][j] = record[r][j]
    <3>1. OutputTells(r, StepsOf(r), j, run[r].index, record[r][j].output)
      BY <1>2, <2>1 DEF RunEdits
    <3>2. j + 1 < run[r].index => LastDecision(r, j + 1)' = LastDecision(r, j + 1)
      <4>1. j + 1 < run[r].index => j + 1 \in Steps
        BY <1>1 DEF Steps
      <4> QED
        BY <4>1 DEF LastDecision
    <3> QED
      BY <2>1, <3>1, <3>2 DEF OutputTells
  <2>2. CASE j = run[r].index /\ record'[r][j].output \in {"llm", "edited"}
    BY <1>1, <2>2
  <2>3. CASE record'[r][j].output = "edited"
    BY <2>3
  <2> QED
    BY <1>2, <2>1, <2>2, <2>3
<1> QED
  BY <1>2 DEF RunEdits, OutputTells, LastDecision, Edits, IsGate, IsTeammate, Kind

\* A coroutine that stays as it is while nobody touches its run.
LEMMA SameTaskEdits ==
  ASSUME TypeInv, NEW t \in Coroutines, TaskEdits(t), task'[t] = task[t],
         task[t].pc \in {"continuation", "calling"} =>
           \A j \in Steps :
             /\ record'[task[t].run][j] = record[task[t].run][j]
             /\ gateDecisions'[task[t].run][j] = gateDecisions[task[t].run][j]
  PROVE  TaskEdits(t)'
<1>1. task[t].pc \in {"continuation", "calling"} =>
        task[t].run \in Runs /\ task[t].index \in Steps
  BY AtWork, PCClasses DEF TypeInv, SteppingPCs
<1>2. CASE task[t].pc = "continuation"
  <2>1. EditReached(t)
    BY <1>2 DEF TaskEdits
  <2>2. LastDecision(task[t].run, task[t].index)' = LastDecision(task[t].run, task[t].index)
    BY <1>1, <1>2 DEF LastDecision
  <2>3. EditReached(t)'
    BY <1>2, <2>1, <2>2 DEF EditReached, Edits, IsTeammate, Kind
  <2> QED
    BY <1>2, <2>3 DEF TaskEdits
<1>3. CASE task[t].pc = "calling"
  <2>1. PromptTells(t) /\ task[t].index \in Steps
    BY <1>1, <1>3 DEF TaskEdits
  <2>2. \A j \in Steps : LastDecision(task[t].run, j)' = LastDecision(task[t].run, j)
    BY <1>3 DEF LastDecision
  <2>3. ASSUME NEW j \in Steps, j < task[t].index, IsTeammate(task[t].steps, j)
        PROVE  OutputTells(task[t].run, task[t].steps, j, task[t].index, task[t].prompt[j])'
    <3>1. OutputTells(task[t].run, task[t].steps, j, task[t].index, task[t].prompt[j])
      BY <2>1, <2>3 DEF PromptTells
    <3>2. j + 1 < task[t].index => j + 1 \in Steps
      BY <2>1, ConstantFacts DEF Steps
    <3> QED
      BY <2>2, <3>1, <3>2 DEF OutputTells, Edits, IsGate, Kind
  <2>4. PromptTells(t)'
    BY <2>3 DEF PromptTells, IsTeammate, Kind
  <2> QED
    BY <1>3, <2>4 DEF TaskEdits
<1>4. CASE task[t].pc \notin {"continuation", "calling"}
  BY <1>4 DEF TaskEdits
<1> QED
  BY <1>2, <1>3, <1>4

\* Only _run_teammate_step assembles a prompt, from the steps its run has passed.
LEMMA StartedPrompt ==
  ASSUME EditAll, NEW t \in Coroutines, Step(t), task'[t].pc = "calling",
         NEW r \in Runs, r = task[t].run
  PROVE  /\ task'[t].run = r /\ task'[t].index = run[r].index
         /\ task'[t].steps = task[t].steps
         /\ task'[t].prompt = AssemblePrompt(r, task[t].steps, run[r].index)
<1>1. TypeInv /\ TasksOK /\ task[t] \in TaskRow
  BY DEF EditAll, MilesAll, TypeInv, TasksOK
<1>2. StartTeammateStep(t)
  <2>1. ~(PauseRun(t) \/ FailRun(t) \/ BackstopFailsRun(t) \/ RejectRun(t) \/ CompleteRun(t))
    BY <1>1, FinishedTask DEF PauseRun, FailRun, BackstopFailsRun, RejectRun, CompleteRun
  <2>2. ASSUME \/ AdvanceRaises(t) \/ StoreMilestone(t) \/ MoveToNextStep(t)
               \/ ModelAnswers(t) \/ ModelCallFails(t) \/ RejectRecord(t)
               \/ ApproveRecord(t) \/ PropagateEdit(t)
        PROVE  FALSE
    <3>1. \E pc \in PCs \ {"calling"} : task' = [task EXCEPT ![t].pc = pc]
      BY <2>2
      DEF AdvanceRaises, StoreMilestone, MoveToNextStep, ModelAnswers, ModelCallFails,
          RejectRecord, ApproveRecord, PropagateEdit, Goto, Suspend, PCs
    <3> QED
      BY <1>1, <3>1, MovedTask
  <2>3. ASSUME CreateNextRecord(t) PROVE FALSE
    <3>1. /\ task[t].pc = "create_records"
          /\ task' = [task EXCEPT ![t].index = task[t].index + 1]
      BY <2>3 DEF CreateNextRecord, Holds
    <3> QED
      BY <1>1, <3>1 DEF TaskRow, TasksOK
  <2>4. ASSUME SetGoalAndSpawn(t) PROVE FALSE
    <3>1. task' = [task EXCEPT ![t].pc = "execute", ![t].index = 0]
      BY <2>4 DEF SetGoalAndSpawn
    <3>2. 0 \in Nat /\ task'[t].pc = "execute"
      BY <1>1, <3>1, MovedTaskTo
    <3> QED
      BY <3>2
  <2>5. ASSUME MarkAwaitingApproval(t) PROVE FALSE
    <3>1. PICK at : at = run[task[t].run].index
      OBVIOUS
    <3>2. task' = [task EXCEPT ![t].pc = "pause", ![t].index = at]
      BY <2>5, <3>1 DEF MarkAwaitingApproval
    <3>3. task'[t].pc = "pause"
      BY <1>1, <3>2, MovedTaskTo
    <3> QED
      BY <3>3
  <2> QED
    BY <2>1, <2>2, <2>3, <2>4, <2>5 DEF Step
<1>3. PICK pc, at, prompt :
        /\ task' = [task EXCEPT ![t].pc = pc, ![t].index = at, ![t].prompt = prompt]
        /\ pc \in {"calling", "raised"} /\ at = run[r].index
        /\ pc = "calling" => prompt = AssemblePrompt(r, task[t].steps, at)
  BY <1>2 DEF StartTeammateStep
<1>4. /\ task'[t].pc = pc /\ task'[t].run = task[t].run /\ task'[t].index = at
      /\ task'[t].steps = task[t].steps /\ task'[t].prompt = prompt
  <2> DEFINE row == [task[t] EXCEPT !.pc = pc, !.index = at, !.prompt = prompt]
  <2>1. task' = [task EXCEPT ![t] = row]
    BY <1>1, <1>3 DEF TasksOK
  <2>2. /\ row.pc = pc /\ row.run = task[t].run /\ row.index = at
        /\ row.steps = task[t].steps /\ row.prompt = prompt
    BY <1>1 DEF TaskRow
  <2> HIDE DEF row
  <2> QED
    BY <1>1, <2>1, <2>2 DEF TasksOK
<1> QED
  BY <1>3, <1>4

LEMMA StepEdits ==
  ASSUME EditAll, NEW t \in Coroutines, Step(t)
  PROVE  EditInv'
<1>1. TypeInv /\ MilesAll /\ task[t].pc \in WorkingPCs /\ Others(t) /\ TouchesOwn(t)
  BY StepEffect, StepTouches DEF EditAll, MilesAll
<1>2. PICK r \in Runs :
        /\ r = task[t].run /\ TaskReview(t) /\ Alone(t) /\ Created(r)
        /\ task[t].steps = StepsOf(r)
        /\ task[t].pc \in SteppingPCs => task[t].index = run[r].index
  BY <1>1, AtWorkMiles
<1>3. /\ RunEdits(r) /\ TaskEdits(t) /\ RunFront(r)
      /\ run[r].index \in 0 .. MaxSteps /\ MaxSteps \in Nat
  BY <1>1, FrontParts, StepsFacts, ConstantFacts DEF EditAll, EditInv
<1>4. /\ WritesOutput(r, t)
      /\ task'[t].pc = "continuation" =>
           \A j \in Steps :
             j + 1 = task[t].index /\ IsTeammate(task[t].steps, j)
             /\ Edits(LastDecision(r, task[t].index))
             => record'[r][j].output = "edited"
  BY <1>2, StepOutputs
<1>5. /\ StepsOf(r)' = StepsOf(r) /\ gateDecisions' = gateDecisions
      /\ \A u \in Coroutines : u # t => task'[u] = task[u]
      /\ \A u \in Coroutines : u # t /\ task[u].pc \in WorkingPCs => task[u].run # r
  <2>1. definition' = definition /\ run'[r].playbook = run[r].playbook
    BY <1>1, <1>2, StepPlaybook DEF Others
  <2> QED
    BY <1>1, <1>2, <2>1 DEF StepsOf, Alone, Others
<1>6. ASSUME NEW q \in Runs, q # r PROVE RunEdits(q)'
  <2>1. RunEdits(q) /\ run'[q] = run[q] /\ StepsOf(q)' = StepsOf(q)
    BY <1>1, <1>2, <1>6 DEF Others, EditAll, EditInv, StepsOf
  <2>2. \A j \in Steps : record'[q][j] = record[q][j]
    BY <1>4, <1>6 DEF WritesOutput
  <2> QED
    BY <1>1, <1>5, <2>1, <2>2, SameRunEdits DEF Created
<1>7. RunEdits(r)'
  <2>1. CASE run'[r].index = run[r].index
    BY <1>1, <1>2, <1>3, <1>4, <1>5, <2>1, SameRunEdits DEF WritesOutput
  <2>2. CASE run'[r].index # run[r].index
    <3>1. /\ task[t].pc \in {"continue", "continuation"}
          /\ run'[r].index = task[t].index + 1
      BY <1>1, <1>2, <2>2, StepMoves
    <3>2. task[t].index = run[r].index /\ record' = record
      BY <1>1, <1>2, <3>1, PCFacts DEF TouchesOwn, SteppingPCs
    <3>3. ASSUME NEW j \in Steps, IsTeammate(StepsOf(r), j), record[r][j].status = "completed"
          PROVE  OutputTells(r, StepsOf(r), j, run[r].index + 1, record[r][j].output)
      <4>1. OutputTells(r, StepsOf(r), j, run[r].index, record[r][j].output)
        BY <1>2, <1>3, <3>3 DEF RunEdits
      <4>2. ASSUME j + 1 = run[r].index, IsGate(StepsOf(r), j + 1),
                   Edits(LastDecision(r, j + 1))
            PROVE  record[r][j].output = "edited"
        <5>1. CASE task[t].pc = "continue"
          BY <1>2, <3>2, <4>2, <5>1
          DEF TaskReview, IsGate, IsTeammate, Gates, Teammates
        <5>2. CASE task[t].pc = "continuation"
          BY <1>2, <1>3, <3>2, <3>3, <4>2, <5>2 DEF TaskEdits, EditReached
        <5> QED
          BY <3>1, <5>1, <5>2
      <4>3. j + 1 < run[r].index + 1 => j + 1 < run[r].index \/ j + 1 = run[r].index
        BY <1>3 DEF Steps
      <4> QED
        BY <4>1, <4>2, <4>3 DEF OutputTells
    <3> QED
      BY <1>5, <3>1, <3>2, <3>3
      DEF RunEdits, OutputTells, LastDecision, Edits, IsGate, IsTeammate, Kind
  <2> QED
    BY <2>1, <2>2
<1>8. ASSUME NEW u \in Coroutines, u # t PROVE TaskEdits(u)'
  <2>1. TaskEdits(u)
    BY DEF EditAll, EditInv
  <2>2. task[u].pc \in {"continuation", "calling"} => task[u].run \in Runs /\ task[u].run # r
    BY <1>1, <1>5, <1>8, AtWork, PCClasses DEF TypeInv, SteppingPCs
  <2> QED
    BY <1>1, <1>4, <1>5, <1>8, <2>1, <2>2, SameTaskEdits DEF WritesOutput
<1>9. TaskEdits(t)'
  <2>1. ASSUME task'[t].pc = "continuation" PROVE EditReached(t)'
    <3>1. task[t].pc \in DecidedPCs /\ task'[t].index = task[t].index /\ task'[t].run = r
      BY <1>1, <1>2, <2>1, StepEffect, PCClasses
      DEF MilesAll, Works, Advances, Leaves, RunningPCs, DecidedPCs
    <3>2. task'[t].steps = task[t].steps
      <4>1. ApproveRecord(t) \/ PropagateEdit(t) \/ RejectRecord(t)
        <5>1. ~(RejectRun(t) \/ CompleteRun(t))
          BY <1>1, <2>1, FinishedTask DEF RejectRun, CompleteRun, TypeInv
        <5>2. ~MoveToNextStep(t)
          <6>1. MoveToNextStep(t) => task' = [task EXCEPT ![t].pc = "advance"]
            BY DEF MoveToNextStep, Goto
          <6> QED
            BY <1>1, <2>1, <6>1, MovedTask DEF TypeInv
        <5> QED
          BY <3>1, <5>1, <5>2
          DEF Step, CreateNextRecord, SetGoalAndSpawn, StartTeammateStep,
              MarkAwaitingApproval, PauseRun, AdvanceRaises, BackstopFailsRun, ModelAnswers,
              StoreMilestone, ModelCallFails, FailRun, AtAdvance, Holds, Wakes, DecidedPCs
      <4>2. \E pc : task' = [task EXCEPT ![t].pc = pc]
        BY <4>1 DEF ApproveRecord, PropagateEdit, RejectRecord, Goto, Suspend
      <4> QED
        BY <1>1, <4>2, MovedTask DEF TypeInv
    <3> QED
      BY <1>2, <1>4, <1>5, <2>1, <3>1, <3>2
      DEF EditReached, LastDecision, Edits, IsTeammate, Kind
  <2>2. ASSUME task'[t].pc = "calling" PROVE PromptTells(t)'
    <3> DEFINE n == run[r].index
               steps == StepsOf(r)
    <3>1. /\ task'[t].run = r /\ task'[t].index = n /\ task'[t].steps = steps
          /\ task'[t].prompt = AssemblePrompt(r, steps, n)
      BY <1>2, <2>2, StartedPrompt
    <3>2. ASSUME NEW j \in Steps, j < n, IsTeammate(steps, j)
          PROVE  OutputTells(r, steps, j, n, task'[t].prompt[j])
      <4>1. record[r][j].status = "completed"
        BY <1>2, <1>3, <3>2 DEF RunFront
      <4>2. OutputTells(r, steps, j, n, record[r][j].output)
        BY <1>2, <1>3, <3>2, <4>1 DEF RunEdits
      <4>3. task'[t].prompt[j] = record[r][j].output
        BY <3>1, <3>2, <4>1 DEF AssemblePrompt
      <4> QED
        BY <4>2, <4>3
    <3> HIDE DEF n, steps
    <3> QED
      BY <1>5, <3>1, <3>2
      DEF PromptTells, OutputTells, LastDecision, Edits, IsGate, IsTeammate, Kind
  <2> QED
    BY <2>1, <2>2 DEF TaskEdits
<1> QED
  BY <1>6, <1>7, <1>8, <1>9 DEF EditInv

\* A step that writes no record of a completed step, moves no run and decides no gate
\* a run has passed.
LEMMA ElsewhereEdits ==
  ASSUME EditAll, definition' = definition,
         \A r \in Runs, j \in Steps :
           record'[r][j] = record[r][j] \/ record'[r][j].status # "completed",
         \A r \in Runs : Created(r)' =>
           \/ /\ Created(r) /\ run'[r] = run[r]
              /\ \A j \in Steps : j < run[r].index => gateDecisions'[r][j] = gateDecisions[r][j]
           \/ \A j \in Steps : record'[r][j].status # "completed",
         \A u \in Coroutines :
           \/ task'[u].pc \notin {"continuation", "calling"}
           \/ /\ task'[u] = task[u]
              /\ \A j \in Steps :
                   /\ record'[task[u].run][j] = record[task[u].run][j]
                   /\ gateDecisions'[task[u].run][j] = gateDecisions[task[u].run][j]
  PROVE  EditInv'
<1>1. TypeInv /\ EditInv
  BY DEF EditAll, MilesAll
<1>2. ASSUME NEW r \in Runs PROVE RunEdits(r)'
  <2>1. CASE ~Created(r)' \/ \A j \in Steps : record'[r][j].status # "completed"
    BY <2>1 DEF RunEdits
  <2>2. CASE /\ Created(r) /\ run'[r] = run[r]
             /\ \A j \in Steps : j < run[r].index => gateDecisions'[r][j] = gateDecisions[r][j]
    BY <1>1, <2>2, SameRunEdits DEF EditInv, StepsOf
  <2> QED
    BY <2>1, <2>2
<1>3. ASSUME NEW u \in Coroutines PROVE TaskEdits(u)'
  <2>1. CASE task'[u].pc \notin {"continuation", "calling"}
    BY <2>1 DEF TaskEdits
  <2>2. CASE task'[u].pc \in {"continuation", "calling"}
    BY <1>1, <2>2, SameTaskEdits DEF EditInv
  <2> QED
    BY <2>1, <2>2
<1> QED
  BY <1>2, <1>3 DEF EditInv

LEMMA CreateRunEdits ==
  ASSUME EditAll, NEW t \in Tasks, NEW p \in Playbooks, NEW r \in Runs, CreateRun(t, p, r)
  PROVE  EditInv'
<1>1. /\ t \in Coroutines /\ TasksOK /\ StoreTypeOK /\ FrontInv /\ run[r].status = "absent"
      /\ UNCHANGED <<definition, record, gateDecisions>>
      /\ task' = [task EXCEPT ![t] = Coroutine("create_records", r, 0, definition[p])]
      /\ run' = [run EXCEPT ![r] = [playbook |-> p, status |-> "running", index |-> 0]]
  BY ConstantFacts
  DEF CreateRun, CreateRunRow, EditAll, MilesAll, TypeInv, TypeOK
<1>2. \A j \in Steps : record[r][j].status = "missing"
  BY <1>1 DEF FrontInv, Created
<1>3. \A q \in Runs : q # r => run'[q] = run[q]
  BY <1>1 DEF StoreTypeOK
<1>4. \A q \in Runs : Created(q)' =>
        \/ Created(q) /\ run'[q] = run[q]
        \/ \A j \in Steps : record'[q][j].status # "completed"
  BY <1>1, <1>2, <1>3 DEF Created
<1>5. \A u \in Coroutines : task'[u] = task[u] \/ task'[u].pc = "create_records"
  BY <1>1 DEF TasksOK, Coroutine
<1> QED
  BY <1>1, <1>4, <1>5, ElsewhereEdits

\* While a decision is accepted nobody works on its run, and the gate it decides is
\* the one the run is at.
LEMMA AcceptDecisionEdits ==
  ASSUME SerialReview, EditAll, NEW t \in Tasks, NEW r \in Runs, NEW i \in Steps,
         NEW d \in Submissions, AcceptDecision(t, r, i, d)
  PROVE  EditInv'
<1> DEFINE row == [Coroutine("decided", r, run[r].index, definition[run[r].playbook])
                     EXCEPT !.decision = d]
<1>1. /\ t \in Coroutines /\ TypeInv /\ TasksOK /\ StoreTypeOK /\ OwnInv
      /\ UNCHANGED <<definition, run, record>> /\ active = Idle
      /\ RecordGateDecision(r, run[r].index, d)
      /\ run[r].status = "paused" /\ ~ContinuationPending(r)
      /\ task' = [task EXCEPT ![t] = row]
  BY ConstantFacts
  DEF AcceptDecision, Acceptable, Wakes, EditAll, MilesAll, TypeInv, TypeOK
<1>2. row.pc = "decided"
  BY DEF Coroutine
<1> HIDE DEF row
<1>3. /\ task'[t].pc = "decided"
      /\ \A u \in Coroutines : u # t => task'[u] = task[u]
  BY <1>1, <1>2 DEF TasksOK
<1>4. \A q \in Runs, j \in Steps :
        q # r \/ j # run[r].index => gateDecisions'[q][j] = gateDecisions[q][j]
  <2>1. gateDecisions \in [Runs -> [Steps -> Seq(DecisionRow)]]
    BY <1>1 DEF StoreTypeOK
  <2> QED
    BY <1>1, <2>1 DEF RecordGateDecision
<1>5. run[r].index \in 0 .. MaxSteps /\ MaxSteps \in Nat
  BY <1>1, StepsFacts, ConstantFacts
<1>6. ASSUME NEW u \in Coroutines, task[u].pc \in {"continuation", "calling"}
      PROVE  task[u].run \in Runs /\ task[u].run # r
  <2>1. task[u].run \in Runs /\ Owns(u)
    BY <1>1, <1>6, AtWork, PCFacts DEF TypeInv, OwnInv
  <2>2. CASE task[u].pc = "calling"
    BY <1>1, <2>1, <2>2, PCFacts DEF Owns, DecidedPCs
  <2>3. CASE task[u].pc = "continuation"
    BY <1>1, <2>1, <2>3, PCFacts DEF Owns, DecidedPCs, ContinuationPending
  <2> QED
    BY <1>6, <2>1, <2>2, <2>3
<1>7. ASSUME NEW q \in Runs, NEW j \in Steps, j < run[q].index
      PROVE  gateDecisions'[q][j] = gateDecisions[q][j]
  BY <1>4, <1>5, <1>7 DEF Steps
<1>8. ASSUME NEW u \in Coroutines
      PROVE  \/ task'[u].pc \notin {"continuation", "calling"}
             \/ /\ task'[u] = task[u]
                /\ \A j \in Steps :
                     gateDecisions'[task[u].run][j] = gateDecisions[task[u].run][j]
  BY <1>3, <1>4, <1>6
<1>9. \A q \in Runs : Created(q)' => Created(q) /\ run'[q] = run[q]
  BY <1>1 DEF Created
<1> QED
  BY <1>1, <1>7, <1>8, <1>9, ElsewhereEdits

LEMMA RecoverEdits ==
  ASSUME EditAll, Recover \/ Restart
  PROVE  EditInv'
<1>1. TypeInv /\ TasksOK /\ StoreTypeOK /\ OwnInv /\ Recovery \in Coroutines
  BY ConstantFacts DEF EditAll, MilesAll, TypeInv, TypeOK
<1>2. /\ definition' = definition /\ UNCHANGED <<run, gateDecisions>>
  <2>1. CASE Recover
    BY <2>1 DEF Recover, RecoveryDies, RecoveryEnds, RecoverRun, storeVars
  <2>2. CASE Restart
    BY <2>2 DEF Restart, EditAll, MilesAll, GateInv
  <2> QED
    BY <2>1, <2>2
<1>3. /\ task'[Recovery].pc \in {"free", "advance", "recover"}
      /\ \A u \in Coroutines : u # Recovery => task'[u] = task[u]
  <2>1. CASE Recover
    <3>1. \/ task' = [task EXCEPT ![Recovery] = FreeTask]
          \/ \E r \in Runs : task' = [task EXCEPT ![Recovery] =
               Coroutine("advance", r, run[r].index, loaded[run[r].playbook])]
      BY <2>1 DEF Recover, RecoveryDies, RecoveryEnds, RecoverRun
    <3> QED
      BY <1>1, <3>1 DEF TasksOK, FreeTask, Coroutine
  <2>2. CASE Restart
    <3>1. task' = [task EXCEPT ![Recovery].pc = "recover"]
      BY <2>2 DEF Restart
    <3> QED
      BY <1>1, <3>1, MovedTask
  <2> QED
    BY <2>1, <2>2
<1>4. CASE record' = record
  BY <1>2, <1>3, <1>4, ElsewhereEdits DEF Created
<1>5. ASSUME NEW r \in Runs, RecoverRun(r), record' # record
      PROVE  EditInv'
  <2>1. /\ run[r].index \in Steps /\ ResetStepToPending(r, run[r].index) /\ r \in toRecover
        /\ task[Recovery].pc = "recover"
    BY <1>5 DEF RecoverRun, IsFirst, Holds
  <2>2. /\ \A q \in Runs, j \in Steps :
             q # r \/ j # run[r].index => record'[q][j] = record[q][j]
        /\ record'[r][run[r].index].status # "completed"
    BY <1>1, <2>1, StatusRows DEF Spares
  <2>3. ASSUME NEW u \in Coroutines, task[u].pc \in {"continuation", "calling"}
        PROVE  task[u].run \in Runs /\ task[u].run # r
    BY <1>1, <2>1, <2>3, AtWork, PCFacts DEF TypeInv, OwnInv, Owns
  <2>4. ASSUME NEW u \in Coroutines
        PROVE  \/ task'[u].pc \notin {"continuation", "calling"}
               \/ /\ task'[u] = task[u]
                  /\ \A j \in Steps : record'[task[u].run][j] = record[task[u].run][j]
    BY <1>3, <2>2, <2>3
  <2>5. \A q \in Runs : Created(q)' => Created(q) /\ run'[q] = run[q]
    BY <1>2 DEF Created
  <2>6. \A q \in Runs, j \in Steps :
          record'[q][j] = record[q][j] \/ record'[q][j].status # "completed"
    BY <2>2
  <2> QED
    BY <1>2, <2>4, <2>5, <2>6, ElsewhereEdits
<1> QED
  BY <1>4, <1>5 DEF Recover, RecoveryDies, RecoveryEnds, Restart, storeVars

LEMMA NextEditInv ==
  ASSUME SerialReview, PutDefinitions = {}, EditAll, [Next]_vars
  PROVE  EditInv'
<1>1. CASE Crash
  <2>1. /\ UNCHANGED <<definition, run, record, gateDecisions>>
        /\ task' = [t \in Coroutines |-> FreeTask]
    BY <1>1 DEF Crash, storeVars
  <2>2. \A u \in Coroutines : task'[u].pc = "free"
    BY <2>1 DEF FreeTask, Coroutine
  <2> QED
    BY <2>1, <2>2, ElsewhereEdits DEF Created
<1>2. ASSUME NEW r \in Runs, ShowGate(r) PROVE EditInv'
  BY <1>2, ElsewhereEdits DEF ShowGate, storeVars, Created
<1>3. CASE UNCHANGED vars
  BY <1>3, ElsewhereEdits DEF vars, storeVars, engineVars, Created
<1>4. ~\E p \in Playbooks, d \in PutDefinitions : UpdatePlaybook(p, d)
  OBVIOUS
<1> QED
  BY <1>1, <1>2, <1>3, <1>4, StepEdits, CreateRunEdits, AcceptDecisionEdits, RecoverEdits
  DEF Next

LEMMA InitEditInv == Init => EditInv
<1> SUFFICES ASSUME Init PROVE EditInv
  OBVIOUS
<1>1. \A r \in Runs : ~Created(r)
  BY DEF Init, StoreInit, AbsentRun, Created
<1>2. \A t \in Coroutines : task[t].pc = "free"
  BY DEF Init, FreeTask, Coroutine
<1> QED
  BY <1>1, <1>2 DEF EditInv, RunEdits, TaskEdits

LEMMA EditAllTells == GatesReview /\ EditAll => PromptsTellTheRun
<1> SUFFICES ASSUME GatesReview, EditAll, NEW t \in Coroutines, task[t].pc = "calling",
                    NEW j \in Steps, j < task[t].index, IsTeammate(task[t].steps, j)
             PROVE  /\ task[t].prompt[j] \in {"llm", "edited"}
                    /\ \A g \in Steps :
                         /\ g < task[t].index /\ IsGate(task[t].steps, g)
                         /\ Reviewed(task[t].steps, g, j)
                         /\ Edits(LastDecision(task[t].run, g))
                         => task[t].prompt[j] = "edited"
  BY DEF PromptsTellTheRun
<1>1. OutputTells(task[t].run, task[t].steps, j, task[t].index, task[t].prompt[j])
  BY DEF EditAll, EditInv, TaskEdits, PromptTells
<1>2. task[t].steps \in Definitions
  BY AtWork, PCFacts DEF EditAll, MilesAll, TypeInv
<1>3. ASSUME NEW g \in Steps, IsGate(task[t].steps, g), Reviewed(task[t].steps, g, j)
      PROVE  g = j + 1
  <2>1. g \in Nat /\ j \in Nat /\ j < g
    BY <1>3 DEF Steps, Reviewed
  <2>2. IsTeammate(task[t].steps, g - 1)
    BY <1>2, <1>3, <2>1 DEF GatesReview
  <2>3. g - 1 \notin j + 1 .. g - 1
    BY <1>3, <2>2 DEF Reviewed
  <2> QED
    BY <2>1, <2>3
<1> QED
  BY <1>1, <1>3 DEF OutputTells

\* assemble_prompt reads the records of the run, so a teammate is told what every earlier
\* teammate answered or, once the gate behind it was passed with an edit, the edit in
\* its place: resume_with_decision overwrites that record before it spawns the
\* continuation, whatever crashes and recoveries come in between.
THEOREM PromptsAreTrue ==
  SerialReview /\ PutDefinitions = {} /\ GatesReview => (Spec => []PromptsTellTheRun)
<1> SUFFICES ASSUME SerialReview, PutDefinitions = {}, GatesReview
             PROVE  Spec => []PromptsTellTheRun
  OBVIOUS
<1>1. Init => EditAll
  BY InitTypeInv, InitOwnInv, InitGateInv, InitReviewInv, InitMilesInv, InitFrontInv,
     InitEditInv
  DEF EditAll, MilesAll
<1>2. EditAll /\ [Next]_vars => EditAll'
  BY NextTypeInv, NextOwnInv, NextGateInv, NextReviewInv, NextMilesInv, NextFrontInv,
     NextEditInv
  DEF EditAll, MilesAll
<1>3. EditAll => PromptsTellTheRun
  BY EditAllTells
<1> QED
  BY <1>1, <1>2, <1>3, PTL DEF Spec
==============================================================================
