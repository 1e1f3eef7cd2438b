------------------------ MODULE PlaybookEngineProofs ------------------------
(***************************************************************************)
(* Proofs about PlaybookEngine, for every set of runs, tasks, playbooks    *)
(* and definitions and every bound.                                        *)
(***************************************************************************)
EXTENDS PlaybookEngine, TLAPS

WorkingPCs == PCs \ {"free", "recover"}
SteppingPCs == {"pause", "calling", "milestone", "fail", "continue",
                "continuation", "decided", "reject", "propagate"}

\* A coroutine at work has a run and a definition, and one that works on a step
\* has a step that exists.
RowOK(row) ==
  /\ row.pc \in WorkingPCs => row.run \in Runs /\ row.steps \in Definitions
  /\ row.pc = "create_records" => row.index <= Len(row.steps)
  /\ row.pc \in SteppingPCs => row.index \in Steps

TasksOK ==
  /\ task \in [Coroutines -> TaskRow]
  /\ \A t \in Coroutines : RowOK(task[t])

TypeInv == TypeOK /\ TasksOK

LEMMA DefinitionFacts ==
  ASSUME NEW d \in Definitions
  PROVE  d \in Seq(StepKinds) /\ Len(d) \in 0 .. MaxSteps
  BY StoreAssumption DEF StoreAssumption

IdleRecovery == [FreeTask EXCEPT !.pc = "recover"]

LEMMA ConstantFacts ==
  /\ MaxSteps \in Nat \ {0}
  /\ EmptyPrompt \in Prompts
  /\ NoDecision \in DecisionRow
  /\ Recovery \in Coroutines /\ Recovery \notin Tasks
  /\ Tasks \subseteq Coroutines
  BY StoreAssumption, EngineAssumption
  DEF StoreAssumption, EngineAssumption, EmptyPrompt, Prompts, NoDecision,
      DecisionRow, Decisions, Coroutines, Outputs

LEMMA IdleTaskFacts ==
  /\ FreeTask \in TaskRow /\ RowOK(FreeTask)
  /\ IdleRecovery \in TaskRow /\ RowOK(IdleRecovery)
<1>1. /\ FreeTask \in TaskRow
      /\ FreeTask.pc = "free"
  BY ConstantFacts DEF FreeTask, Coroutine, TaskRow, PCs
<1>2. /\ IdleRecovery \in TaskRow
      /\ IdleRecovery.pc = "recover"
  BY <1>1 DEF IdleRecovery, TaskRow, PCs
<1> QED
  BY <1>1, <1>2 DEF RowOK, WorkingPCs, SteppingPCs

LEMMA SeededType ==
  ASSUME definition \in [Playbooks -> Definitions]
  PROVE  Seeded(definition) \in [Playbooks -> Definitions]
  BY EngineAssumption DEF EngineAssumption, Seeded

LEMMA InitTypeInv == Init => TypeInv
<1> SUFFICES ASSUME Init PROVE TypeInv
  OBVIOUS
<1>1. StoreTypeOK
  <2>1. AbsentRun \in RunRow
    BY StoreAssumption DEF StoreAssumption, AbsentRun, RunRow
  <2>2. run \in [Runs -> RunRow]
    BY <2>1 DEF Init, StoreInit
  <2> QED
    BY <2>2, StoreAssumption DEF Init, StoreInit, StoreAssumption, StoreTypeOK,
       RecordRow, Outputs, BlackboardRow, Steps
<1>2. TypeOK
  BY <1>1, ConstantFacts, IdleTaskFacts, StoreAssumption, EngineAssumption
  DEF Init, TypeOK, StoreTypeOK, EngineAssumption
<1>3. TasksOK
  BY <1>2 DEF Init, TypeOK, TasksOK, RowOK, FreeTask, Coroutine, WorkingPCs,
     SteppingPCs
<1> QED
  BY <1>2, <1>3 DEF TypeInv

------------------------------------------------------------------------------
\* Every statement keeps its table well typed.
LEMMA RunCreated ==
  ASSUME StoreTypeOK, NEW r \in Runs, NEW p \in Playbooks, CreateRunRow(r, p)
  PROVE  run' \in [Runs -> RunRow]
<1>1. [playbook |-> p, status |-> "running", index |-> 0] \in RunRow
  BY ConstantFacts DEF RunRow, RunStatus
<1> QED
  BY <1>1 DEF StoreTypeOK, CreateRunRow

LEMMA RunStatements ==
  ASSUME StoreTypeOK, NEW r \in Runs, NEW s \in RunStatus, NEW i \in 0 .. MaxSteps
  PROVE  /\ UpdateRunStatus(r, s) => run' \in [Runs -> RunRow]
         /\ UpdateRunStatusAt(r, s, i) => run' \in [Runs -> RunRow]
<1>1. \A row \in RunRow : [run EXCEPT ![r] = row] \in [Runs -> RunRow]
  BY DEF StoreTypeOK
<1>2. run[r] \in RunRow
  BY DEF StoreTypeOK
<1>3. [run[r] EXCEPT !.status = s] \in RunRow
  BY <1>2 DEF RunRow
<1>4. [run[r] EXCEPT !.status = s, !.index = i] \in RunRow
  BY <1>2 DEF RunRow
<1>5. /\ UpdateRunStatus(r, s) => run' = [run EXCEPT ![r] = [run[r] EXCEPT !.status = s]]
      /\ UpdateRunStatusAt(r, s, i) =>
           run' = [run EXCEPT ![r] = [run[r] EXCEPT !.status = s, !.index = i]]
  BY DEF StoreTypeOK, UpdateRunStatus, UpdateRunStatusAt
<1> QED
  BY <1>1, <1>3, <1>4, <1>5

LEMMA RecordStatements ==
  ASSUME StoreTypeOK, NEW r \in Runs, NEW i, NEW s \in RecordStatus,
         NEW out \in Outputs
  PROVE  /\ CreateStepRecord(r, i) => record' \in [Runs -> [Steps -> RecordRow]]
         /\ UpdateRecordStatus(r, i, s) => record' \in [Runs -> [Steps -> RecordRow]]
         /\ UpdateRecord(r, i, s, out) => record' \in [Runs -> [Steps -> RecordRow]]
         /\ UpdateRecordOutput(r, i, out) => record' \in [Runs -> [Steps -> RecordRow]]
         /\ ResetStepToPending(r, i) => record' \in [Runs -> [Steps -> RecordRow]]
<1> DEFINE Set(row) == [record EXCEPT ![r][i] = row]
<1>1. \A row \in RecordRow : Set(row) \in [Runs -> [Steps -> RecordRow]]
  BY DEF StoreTypeOK
<1>2. CASE i \in Steps
  <2>1. record[r][i] \in RecordRow
    BY <1>2 DEF StoreTypeOK
  <2>2. /\ [record[r][i] EXCEPT !.status = s] \in RecordRow
        /\ [record[r][i] EXCEPT !.status = "pending"] \in RecordRow
        /\ [record[r][i] EXCEPT !.output = out] \in RecordRow
        /\ [status |-> "pending", output |-> "none"] \in RecordRow
        /\ [status |-> s, output |-> out] \in RecordRow
    BY <2>1 DEF RecordRow, RecordStatus, Outputs
  <2> QED
    BY <1>1, <2>2 DEF CreateStepRecord, UpdateRecordStatus, UpdateRecord,
       UpdateRecordOutput, ResetStepToPending
<1>3. CASE i \notin Steps
  <2> DEFINE f == record[r]
  <2>1. f \in [Steps -> RecordRow]
    BY DEF StoreTypeOK
  <2>2. ASSUME NEW row PROVE Set(row) \in [Runs -> [Steps -> RecordRow]]
    <3> DEFINE g == [f EXCEPT ![i] = row]
    <3>1. g = [j \in Steps |-> f[j]]
      BY <2>1, <1>3
    <3>2. g \in [Steps -> RecordRow]
      BY <2>1, <3>1
    <3>3. Set(row) = [record EXCEPT ![r] = g]
      BY DEF StoreTypeOK
    <3> HIDE DEF g, Set
    <3> QED
      BY <3>2, <3>3 DEF StoreTypeOK
  <2> QED
    BY <2>2 DEF CreateStepRecord, UpdateRecordStatus, UpdateRecord,
       UpdateRecordOutput, ResetStepToPending
<1> QED
  BY <1>2, <1>3

LEMMA BlackboardStatements ==
  ASSUME StoreTypeOK, NEW r \in Runs, NEW i \in Steps
  PROVE  /\ SetGoal(r) => blackboard' \in [Runs -> BlackboardRow]
         /\ AddMilestone(r, i) => blackboard' \in [Runs -> BlackboardRow]
<1>1. \A row \in BlackboardRow :
        [blackboard EXCEPT ![r] = row] \in [Runs -> BlackboardRow]
  BY DEF StoreTypeOK
<1>2. blackboard[r] \in BlackboardRow
  BY DEF StoreTypeOK
<1>3. [blackboard[r] EXCEPT !.goal = TRUE] \in BlackboardRow
  BY <1>2 DEF BlackboardRow
<1>4. blackboard[r].milestones \in [Steps -> Nat]
  BY <1>2 DEF BlackboardRow
<1>5. [blackboard[r].milestones EXCEPT ![i] = @ + 1] \in [Steps -> Nat]
  BY <1>4
<1>6. [blackboard[r] EXCEPT !.milestones[i] = @ + 1] \in BlackboardRow
  BY <1>2, <1>5 DEF BlackboardRow
<1> QED
  BY <1>1, <1>3, <1>6 DEF SetGoal, AddMilestone

LEMMA DecisionStatement ==
  ASSUME StoreTypeOK, NEW r \in Runs, NEW i \in Steps, NEW d \in DecisionRow,
         RecordGateDecision(r, i, d)
  PROVE  gateDecisions' \in [Runs -> [Steps -> Seq(DecisionRow)]]
<1>1. gateDecisions[r][i] \in Seq(DecisionRow)
  BY DEF StoreTypeOK
<1>2. Append(gateDecisions[r][i], d) \in Seq(DecisionRow)
  BY <1>1
<1> QED
  BY <1>2 DEF StoreTypeOK, RecordGateDecision

\* The ways a step changes the coroutine that takes it.
LEMMA TaskReplaced ==
  ASSUME TasksOK, NEW t \in Coroutines, NEW row \in TaskRow, RowOK(row),
         task' = [task EXCEPT ![t] = row]
  PROVE  TasksOK'
  BY DEF TasksOK

LEMMA TaskMoves ==
  ASSUME TasksOK, NEW t \in Coroutines, NEW pc \in WorkingPCs,
         task[t].pc \in WorkingPCs,
         pc = "create_records" => task[t].index <= Len(task[t].steps),
         pc \in SteppingPCs => task[t].index \in Steps,
         task' = [task EXCEPT ![t].pc = pc]
  PROVE  TasksOK'
<1> DEFINE row == [task[t] EXCEPT !.pc = pc]
<1>1. task[t] \in TaskRow /\ RowOK(task[t])
  BY DEF TasksOK
<1>2. row \in TaskRow
  BY <1>1 DEF TaskRow, WorkingPCs
<1>3. row.pc = pc /\ row.run = task[t].run /\ row.steps = task[t].steps /\ row.index = task[t].index
  BY <1>1 DEF TaskRow
<1>4. RowOK(row)
  BY <1>1, <1>3 DEF RowOK
<1>5. task' = [task EXCEPT ![t] = row]
  BY DEF TasksOK
<1> QED
  BY <1>2, <1>4, <1>5, TaskReplaced

LEMMA TaskFinishes ==
  ASSUME TasksOK, NEW t \in Coroutines, Finish(t)
  PROVE  TasksOK' /\ active' \in Coroutines \cup {Idle}
<1>1. CASE t = Recovery
  BY <1>1, IdleTaskFacts, TaskReplaced DEF Finish, IdleRecovery
<1>2. CASE t # Recovery
  BY <1>2, IdleTaskFacts, TaskReplaced DEF Finish
<1> QED
  BY <1>1, <1>2
------------------------------------------------------------------------------
\* Each step of a coroutine keeps the type invariant.
LEMMA AtWork ==
  ASSUME TasksOK, NEW t \in Coroutines
  PROVE  /\ task[t] \in TaskRow
         /\ task[t].pc \in PCs /\ task[t].index \in 0 .. MaxSteps
         /\ task[t].decision \in DecisionRow
         /\ task[t].pc \in WorkingPCs =>
              /\ task[t].run \in Runs /\ task[t].steps \in Definitions
              /\ Len(task[t].steps) \in 0 .. MaxSteps
         /\ task[t].pc \in SteppingPCs => task[t].index \in Steps
<1>1. task[t] \in TaskRow /\ RowOK(task[t])
  BY DEF TasksOK
<1> QED
  BY <1>1, DefinitionFacts DEF TaskRow, RowOK

\* t, on its way through a step, is at one of these points.
LEMMA PCFacts ==
  /\ WorkingPCs = {"create_records", "execute", "advance", "pause", "calling",
                   "milestone", "fail", "raised", "continue", "continuation",
                   "decided", "reject", "propagate"}
  /\ SteppingPCs \subseteq WorkingPCs
  BY DEF WorkingPCs, SteppingPCs, PCs

LEMMA RunningIndex ==
  ASSUME StoreTypeOK, NEW r \in Runs, NEW d \in Definitions, run[r].index < Len(d)
  PROVE  run[r].index \in Steps
<1>1. run[r].index \in 0 .. MaxSteps
  BY DEF StoreTypeOK, RunRow
<1> QED
  BY <1>1, DefinitionFacts, ConstantFacts DEF Steps

LEMMA GoalStatement ==
  ASSUME StoreTypeOK, NEW r \in Runs, SetGoal(r)
  PROVE  blackboard' \in [Runs -> BlackboardRow]
  BY ConstantFacts, 0 \in Steps, BlackboardStatements DEF Steps

LEMMA PromptType ==
  ASSUME StoreTypeOK, NEW r \in Runs, NEW d \in Definitions, NEW i
  PROVE  AssemblePrompt(r, d, i) \in Prompts
<1>1. \A j \in Steps : record[r][j].output \in Outputs
  BY DEF StoreTypeOK, RecordRow
<1> QED
  BY <1>1 DEF AssemblePrompt, Prompts

LEMMA PauseRunType ==
  ASSUME TypeInv, NEW t \in Coroutines, PauseRun(t)
  PROVE  TypeInv'
<1>1. TasksOK /\ StoreTypeOK
  BY DEF TypeInv, TypeOK
<1>2. /\ task[t].pc \in {"pause"}
      /\ task[t].run \in Runs /\ task[t].steps \in Definitions
      /\ Len(task[t].steps) \in 0 .. MaxSteps
      /\ task[t].pc \in SteppingPCs => task[t].index \in Steps
  BY <1>1, AtWork, PCFacts DEF PauseRun, Holds
<1>3. StoreTypeOK'
  BY <1>1, <1>2, RunStatements DEF PauseRun, StoreTypeOK, RunStatus
<1>4. TasksOK' /\ active' \in Coroutines \cup {Idle}
  BY <1>1, TaskFinishes DEF PauseRun
<1> QED
  BY <1>3, <1>4 DEF TypeInv, TypeOK, TasksOK, PauseRun

LEMMA FailRunType ==
  ASSUME TypeInv, NEW t \in Coroutines, FailRun(t)
  PROVE  TypeInv'
<1>1. TasksOK /\ StoreTypeOK
  BY DEF TypeInv, TypeOK
<1>2. /\ task[t].pc \in {"fail"}
      /\ task[t].run \in Runs /\ task[t].steps \in Definitions
      /\ Len(task[t].steps) \in 0 .. MaxSteps
      /\ task[t].pc \in SteppingPCs => task[t].index \in Steps
  BY <1>1, AtWork, PCFacts DEF FailRun, Holds
<1>3. StoreTypeOK'
  BY <1>1, <1>2, RunStatements DEF FailRun, StoreTypeOK, RunStatus
<1>4. TasksOK' /\ active' \in Coroutines \cup {Idle}
  BY <1>1, TaskFinishes DEF FailRun
<1> QED
  BY <1>3, <1>4 DEF TypeInv, TypeOK, TasksOK, FailRun

LEMMA BackstopFailsRunType ==
  ASSUME TypeInv, NEW t \in Coroutines, BackstopFailsRun(t)
  PROVE  TypeInv'
<1>1. TasksOK /\ StoreTypeOK
  BY DEF TypeInv, TypeOK
<1>2. /\ task[t].pc \in {"raised"}
      /\ task[t].run \in Runs /\ task[t].steps \in Definitions
      /\ Len(task[t].steps) \in 0 .. MaxSteps
      /\ task[t].pc \in SteppingPCs => task[t].index \in Steps
  BY <1>1, AtWork, PCFacts DEF BackstopFailsRun, Holds
<1>3. StoreTypeOK'
  BY <1>1, <1>2, RunStatements DEF BackstopFailsRun, StoreTypeOK, RunStatus
<1>4. TasksOK' /\ active' \in Coroutines \cup {Idle}
  BY <1>1, TaskFinishes DEF BackstopFailsRun
<1> QED
  BY <1>3, <1>4 DEF TypeInv, TypeOK, TasksOK, BackstopFailsRun

LEMMA RejectRunType ==
  ASSUME TypeInv, NEW t \in Coroutines, RejectRun(t)
  PROVE  TypeInv'
<1>1. TasksOK /\ StoreTypeOK
  BY DEF TypeInv, TypeOK
<1>2. /\ task[t].pc \in {"reject"}
      /\ task[t].run \in Runs /\ task[t].steps \in Definitions
      /\ Len(task[t].steps) \in 0 .. MaxSteps
      /\ task[t].pc \in SteppingPCs => task[t].index \in Steps
  BY <1>1, AtWork, PCFacts DEF RejectRun, Holds
<1>3. StoreTypeOK'
  BY <1>1, <1>2, RunStatements DEF RejectRun, StoreTypeOK, RunStatus
<1>4. TasksOK' /\ active' \in Coroutines \cup {Idle}
  BY <1>1, TaskFinishes DEF RejectRun
<1> QED
  BY <1>3, <1>4 DEF TypeInv, TypeOK, TasksOK, RejectRun

LEMMA CompleteRunType ==
  ASSUME TypeInv, NEW t \in Coroutines, CompleteRun(t)
  PROVE  TypeInv'
<1>1. TasksOK /\ StoreTypeOK
  BY DEF TypeInv, TypeOK
<1>2. /\ task[t].pc \in {"continue", "continuation"}
      /\ task[t].run \in Runs /\ task[t].steps \in Definitions
      /\ Len(task[t].steps) \in 0 .. MaxSteps
      /\ task[t].pc \in SteppingPCs => task[t].index \in Steps
  BY <1>1, AtWork, PCFacts DEF CompleteRun, AtContinue, Holds, Wakes
<1>3. StoreTypeOK'
  <2>1. task[t].index + 1 \in 0 .. MaxSteps
    BY <1>2, ConstantFacts DEF SteppingPCs, Steps
  <2> QED
    BY <1>1, <1>2, <2>1, RunStatements DEF CompleteRun, StoreTypeOK, RunStatus
<1>4. TasksOK' /\ active' \in Coroutines \cup {Idle}
  BY <1>1, TaskFinishes DEF CompleteRun
<1> QED
  BY <1>3, <1>4 DEF TypeInv, TypeOK, TasksOK, CompleteRun

LEMMA MoveToNextStepType ==
  ASSUME TypeInv, NEW t \in Coroutines, MoveToNextStep(t)
  PROVE  TypeInv'
<1>1. TasksOK /\ StoreTypeOK
  BY DEF TypeInv, TypeOK
<1>2. /\ task[t].pc \in {"continue", "continuation"}
      /\ task[t].run \in Runs /\ task[t].steps \in Definitions
      /\ Len(task[t].steps) \in 0 .. MaxSteps
      /\ task[t].pc \in SteppingPCs => task[t].index \in Steps
  BY <1>1, AtWork, PCFacts DEF MoveToNextStep, AtContinue, Holds, Wakes
<1>3. StoreTypeOK'
  <2>1. task[t].index + 1 \in 0 .. MaxSteps
    BY <1>2, ConstantFacts DEF SteppingPCs, Steps
  <2> QED
    BY <1>1, <1>2, <2>1, RunStatements DEF MoveToNextStep, StoreTypeOK, RunStatus
<1>4. TasksOK' /\ active' \in Coroutines \cup {Idle}
  <2>1. task' = [task EXCEPT ![t].pc = "advance"]
    BY DEF MoveToNextStep, Goto, Suspend
  <2>2. TasksOK'
    BY <1>1, <1>2, <2>1, TaskMoves, PCFacts DEF SteppingPCs
  <2> QED
    BY <2>2 DEF MoveToNextStep, Goto, Suspend
<1> QED
  BY <1>3, <1>4 DEF TypeInv, TypeOK, TasksOK, MoveToNextStep

LEMMA AdvanceRaisesType ==
  ASSUME TypeInv, NEW t \in Coroutines, AdvanceRaises(t)
  PROVE  TypeInv'
<1>1. TasksOK /\ StoreTypeOK
  BY DEF TypeInv, TypeOK
<1>2. /\ task[t].pc \in {"advance", "execute"}
      /\ task[t].run \in Runs /\ task[t].steps \in Definitions
      /\ Len(task[t].steps) \in 0 .. MaxSteps
      /\ task[t].pc \in SteppingPCs => task[t].index \in Steps
  BY <1>1, AtWork, PCFacts DEF AdvanceRaises, AtAdvance, Holds, Wakes
<1>3. StoreTypeOK'
  BY <1>1 DEF AdvanceRaises, storeVars, StoreTypeOK
<1>4. TasksOK' /\ active' \in Coroutines \cup {Idle}
  <2>1. task' = [task EXCEPT ![t].pc = "raised"]
    BY DEF AdvanceRaises, Goto, Suspend
  <2>2. TasksOK'
    BY <1>1, <1>2, <2>1, TaskMoves, PCFacts DEF SteppingPCs
  <2> QED
    BY <2>2 DEF AdvanceRaises, Goto, Suspend
<1> QED
  BY <1>3, <1>4 DEF TypeInv, TypeOK, TasksOK, AdvanceRaises

LEMMA ModelAnswersType ==
  ASSUME TypeInv, NEW t \in Coroutines, ModelAnswers(t)
  PROVE  TypeInv'
<1>1. TasksOK /\ StoreTypeOK
  BY DEF TypeInv, TypeOK
<1>2. /\ task[t].pc \in {"calling"}
      /\ task[t].run \in Runs /\ task[t].steps \in Definitions
      /\ Len(task[t].steps) \in 0 .. MaxSteps
      /\ task[t].pc \in SteppingPCs => task[t].index \in Steps
  BY <1>1, AtWork, PCFacts DEF ModelAnswers, Wakes
<1>3. StoreTypeOK'
  BY <1>1, <1>2, RecordStatements DEF ModelAnswers, StoreTypeOK, RecordStatus, Outputs
<1>4. TasksOK' /\ active' \in Coroutines \cup {Idle}
  <2>1. task' = [task EXCEPT ![t].pc = "milestone"]
    BY DEF ModelAnswers, Goto, Suspend
  <2>2. TasksOK'
    BY <1>1, <1>2, <2>1, TaskMoves, PCFacts DEF SteppingPCs
  <2> QED
    BY <2>2 DEF ModelAnswers, Goto, Suspend
<1> QED
  BY <1>3, <1>4 DEF TypeInv, TypeOK, TasksOK, ModelAnswers

LEMMA ModelCallFailsType ==
  ASSUME TypeInv, NEW t \in Coroutines, ModelCallFails(t)
  PROVE  TypeInv'
<1>1. TasksOK /\ StoreTypeOK
  BY DEF TypeInv, TypeOK
<1>2. /\ task[t].pc \in {"calling"}
      /\ task[t].run \in Runs /\ task[t].steps \in Definitions
      /\ Len(task[t].steps) \in 0 .. MaxSteps
      /\ task[t].pc \in SteppingPCs => task[t].index \in Steps
  BY <1>1, AtWork, PCFacts DEF ModelCallFails, Wakes
<1>3. StoreTypeOK'
  BY <1>1, <1>2, RecordStatements DEF ModelCallFails, StoreTypeOK, RecordStatus, Outputs
<1>4. TasksOK' /\ active' \in Coroutines \cup {Idle}
  <2>1. task' = [task EXCEPT ![t].pc = "fail"]
    BY DEF ModelCallFails, Goto, Suspend
  <2>2. TasksOK'
    BY <1>1, <1>2, <2>1, TaskMoves, PCFacts DEF SteppingPCs
  <2> QED
    BY <2>2 DEF ModelCallFails, Goto, Suspend
<1> QED
  BY <1>3, <1>4 DEF TypeInv, TypeOK, TasksOK, ModelCallFails

LEMMA RejectRecordType ==
  ASSUME TypeInv, NEW t \in Coroutines, RejectRecord(t)
  PROVE  TypeInv'
<1>1. TasksOK /\ StoreTypeOK
  BY DEF TypeInv, TypeOK
<1>2. /\ task[t].pc \in {"decided"}
      /\ task[t].run \in Runs /\ task[t].steps \in Definitions
      /\ Len(task[t].steps) \in 0 .. MaxSteps
      /\ task[t].pc \in SteppingPCs => task[t].index \in Steps
  BY <1>1, AtWork, PCFacts DEF RejectRecord, Holds
<1>3. StoreTypeOK'
  BY <1>1, <1>2, RecordStatements DEF RejectRecord, StoreTypeOK, RecordStatus, Outputs
<1>4. TasksOK' /\ active' \in Coroutines \cup {Idle}
  <2>1. task' = [task EXCEPT ![t].pc = "reject"]
    BY DEF RejectRecord, Goto, Suspend
  <2>2. TasksOK'
    BY <1>1, <1>2, <2>1, TaskMoves, PCFacts DEF SteppingPCs
  <2> QED
    BY <2>2 DEF RejectRecord, Goto, Suspend
<1> QED
  BY <1>3, <1>4 DEF TypeInv, TypeOK, TasksOK, RejectRecord

LEMMA PropagateEditType ==
  ASSUME TypeInv, NEW t \in Coroutines, PropagateEdit(t)
  PROVE  TypeInv'
<1>1. TasksOK /\ StoreTypeOK
  BY DEF TypeInv, TypeOK
<1>2. /\ task[t].pc \in {"propagate"}
      /\ task[t].run \in Runs /\ task[t].steps \in Definitions
      /\ Len(task[t].steps) \in 0 .. MaxSteps
      /\ task[t].pc \in SteppingPCs => task[t].index \in Steps
  BY <1>1, AtWork, PCFacts DEF PropagateEdit, Holds
<1>3. StoreTypeOK'
  BY <1>1, <1>2, RecordStatements DEF PropagateEdit, StoreTypeOK, RecordStatus, Outputs
<1>4. TasksOK' /\ active' \in Coroutines \cup {Idle}
  <2>1. task' = [task EXCEPT ![t].pc = "continuation"]
    BY DEF PropagateEdit, Goto, Suspend
  <2>2. TasksOK'
    BY <1>1, <1>2, <2>1, TaskMoves, PCFacts DEF SteppingPCs
  <2> QED
    BY <2>2 DEF PropagateEdit, Goto, Suspend
<1> QED
  BY <1>3, <1>4 DEF TypeInv, TypeOK, TasksOK, PropagateEdit

LEMMA StoreMilestoneType ==
  ASSUME TypeInv, NEW t \in Coroutines, StoreMilestone(t)
  PROVE  TypeInv'
<1>1. TasksOK /\ StoreTypeOK
  BY DEF TypeInv, TypeOK
<1>2. /\ task[t].pc \in {"milestone"}
      /\ task[t].run \in Runs /\ task[t].steps \in Definitions
      /\ Len(task[t].steps) \in 0 .. MaxSteps
      /\ task[t].pc \in SteppingPCs => task[t].index \in Steps
  BY <1>1, AtWork, PCFacts DEF StoreMilestone, Holds
<1>3. StoreTypeOK'
  BY <1>1, <1>2, BlackboardStatements DEF StoreMilestone, StoreTypeOK, SteppingPCs
<1>4. TasksOK' /\ active' \in Coroutines \cup {Idle}
  <2>1. task' = [task EXCEPT ![t].pc = "continue"]
    BY DEF StoreMilestone, Goto, Suspend
  <2>2. TasksOK'
    BY <1>1, <1>2, <2>1, TaskMoves, PCFacts DEF SteppingPCs
  <2> QED
    BY <2>2 DEF StoreMilestone, Goto, Suspend
<1> QED
  BY <1>3, <1>4 DEF TypeInv, TypeOK, TasksOK, StoreMilestone

LEMMA ApproveRecordType ==
  ASSUME TypeInv, NEW t \in Coroutines, ApproveRecord(t)
  PROVE  TypeInv'
<1>1. TasksOK /\ StoreTypeOK
  BY DEF TypeInv, TypeOK
<1>2. /\ task[t].pc \in {"decided"}
      /\ task[t].run \in Runs /\ task[t].steps \in Definitions
      /\ Len(task[t].steps) \in 0 .. MaxSteps
      /\ task[t].pc \in SteppingPCs => task[t].index \in Steps
  BY <1>1, AtWork, PCFacts DEF ApproveRecord, Holds
<1>3. StoreTypeOK'
  BY <1>1, <1>2, RecordStatements DEF ApproveRecord, StoreTypeOK, RecordStatus, Outputs
<1>4. TasksOK' /\ active' \in Coroutines \cup {Idle}
  <2>1. PICK pc \in {"propagate", "continuation"} :
          /\ task' = [task EXCEPT ![t].pc = pc]
          /\ active' \in {t, Idle}
    BY DEF ApproveRecord, Goto, Suspend
  <2>2. TasksOK'
    BY <1>1, <1>2, <2>1, TaskMoves, PCFacts DEF SteppingPCs
  <2> QED
    BY <2>1, <2>2
<1> QED
  BY <1>3, <1>4 DEF TypeInv, TypeOK, TasksOK, ApproveRecord

LEMMA CreateNextRecordType ==
  ASSUME TypeInv, NEW t \in Coroutines, CreateNextRecord(t)
  PROVE  TypeInv'
<1>1. TasksOK /\ StoreTypeOK
  BY DEF TypeInv, TypeOK
<1>2. /\ task[t].pc \in {"create_records"}
      /\ task[t].run \in Runs /\ task[t].steps \in Definitions
      /\ Len(task[t].steps) \in 0 .. MaxSteps
      /\ task[t].pc \in SteppingPCs => task[t].index \in Steps
  BY <1>1, AtWork, PCFacts DEF CreateNextRecord, Holds
<1>3. StoreTypeOK'
  BY <1>1, <1>2, RecordStatements DEF CreateNextRecord, StoreTypeOK, RecordStatus, Outputs
<1>4. TasksOK' /\ active' \in Coroutines \cup {Idle}
  <2> DEFINE row == [task[t] EXCEPT !.index = @ + 1]
  <2>1. task[t] \in TaskRow /\ task[t].index \in 0 .. MaxSteps
    BY <1>1, AtWork
  <2>2. task[t].index + 1 \in 0 .. MaxSteps /\ task[t].index + 1 <= Len(task[t].steps)
    BY <1>2, <2>1, ConstantFacts DEF CreateNextRecord
  <2>3. row \in TaskRow
    BY <2>1, <2>2 DEF TaskRow
  <2>4. /\ row.pc = "create_records" /\ row.run = task[t].run
        /\ row.steps = task[t].steps /\ row.index = task[t].index + 1
    BY <1>2, <2>1 DEF TaskRow
  <2>5. RowOK(row)
    BY <1>2, <2>2, <2>4 DEF RowOK, SteppingPCs
  <2>6. task' = [task EXCEPT ![t] = row]
    BY DEF CreateNextRecord
  <2> HIDE DEF row
  <2>7. TasksOK'
    BY <1>1, <2>3, <2>5, <2>6, TaskReplaced
  <2> QED
    BY <2>7 DEF CreateNextRecord, TypeInv, TypeOK
<1> QED
  BY <1>3, <1>4 DEF TypeInv, TypeOK, TasksOK, CreateNextRecord

LEMMA SetGoalAndSpawnType ==
  ASSUME TypeInv, NEW t \in Coroutines, SetGoalAndSpawn(t)
  PROVE  TypeInv'
<1>1. TasksOK /\ StoreTypeOK
  BY DEF TypeInv, TypeOK
<1>2. /\ task[t].pc \in {"create_records"}
      /\ task[t].run \in Runs /\ task[t].steps \in Definitions
      /\ Len(task[t].steps) \in 0 .. MaxSteps
      /\ task[t].pc \in SteppingPCs => task[t].index \in Steps
  BY <1>1, AtWork, PCFacts DEF SetGoalAndSpawn, Holds
<1>3. StoreTypeOK'
  BY <1>1, <1>2, ConstantFacts, GoalStatement DEF SetGoalAndSpawn, StoreTypeOK
<1>4. TasksOK' /\ active' \in Coroutines \cup {Idle}
  <2> DEFINE row == [task[t] EXCEPT !.pc = "execute", !.index = 0]
  <2>1. task[t] \in TaskRow
    BY <1>1, AtWork
  <2>2. row \in TaskRow
    <3>1. 0 \in 0 .. MaxSteps /\ "execute" \in PCs
      BY ConstantFacts DEF PCs
    <3> QED
      BY <2>1, <3>1 DEF TaskRow
  <2>3. row.pc = "execute" /\ row.run = task[t].run /\ row.steps = task[t].steps
    BY <2>1 DEF TaskRow
  <2>4. RowOK(row)
    BY <1>2, <2>3 DEF RowOK, SteppingPCs
  <2>5. task' = [task EXCEPT ![t] = row]
    BY <1>1 DEF SetGoalAndSpawn, TasksOK
  <2> HIDE DEF row
  <2>6. TasksOK'
    BY <1>1, <2>2, <2>4, <2>5, TaskReplaced
  <2> QED
    BY <2>6 DEF SetGoalAndSpawn
<1> QED
  BY <1>3, <1>4 DEF TypeInv, TypeOK, TasksOK, SetGoalAndSpawn

LEMMA MarkAwaitingApprovalType ==
  ASSUME TypeInv, NEW t \in Coroutines, MarkAwaitingApproval(t)
  PROVE  TypeInv'
<1>1. TasksOK /\ StoreTypeOK
  BY DEF TypeInv, TypeOK
<1>2. /\ task[t].pc \in {"advance", "execute"}
      /\ task[t].run \in Runs /\ task[t].steps \in Definitions
      /\ Len(task[t].steps) \in 0 .. MaxSteps
      /\ task[t].pc \in SteppingPCs => task[t].index \in Steps
  BY <1>1, AtWork, PCFacts DEF MarkAwaitingApproval, AtAdvance, Holds, Wakes
<1>3. StoreTypeOK'
  BY <1>1, <1>2, RecordStatements DEF MarkAwaitingApproval, StoreTypeOK, RecordStatus, Outputs
<1>4. TasksOK' /\ active' \in Coroutines \cup {Idle}
  <2> DEFINE i == run[task[t].run].index
             row == [task[t] EXCEPT !.pc = "pause", !.index = i]
  <2>1. task[t] \in TaskRow
    BY <1>1, AtWork
  <2>2. i \in Steps
    BY <1>1, <1>2, RunningIndex DEF MarkAwaitingApproval, CanAdvance
  <2> HIDE DEF i
  <2>3. row \in TaskRow
    <3>1. i \in 0 .. MaxSteps /\ "pause" \in PCs
      BY <2>2, ConstantFacts DEF PCs, Steps
    <3> QED
      BY <2>1, <3>1 DEF TaskRow
  <2>4. row.pc = "pause" /\ row.run = task[t].run /\ row.steps = task[t].steps /\ row.index = i
    BY <2>1 DEF TaskRow
  <2>5. RowOK(row)
    BY <1>2, <2>2, <2>4 DEF RowOK
  <2>6. task' = [task EXCEPT ![t] = row]
    BY <1>1 DEF MarkAwaitingApproval, TasksOK, i
  <2> HIDE DEF row
  <2>7. TasksOK'
    BY <1>1, <2>3, <2>5, <2>6, TaskReplaced
  <2> QED
    BY <2>7 DEF MarkAwaitingApproval
<1> QED
  BY <1>3, <1>4 DEF TypeInv, TypeOK, TasksOK, MarkAwaitingApproval

LEMMA StartTeammateStepType ==
  ASSUME TypeInv, NEW t \in Coroutines, StartTeammateStep(t)
  PROVE  TypeInv'
<1>1. TasksOK /\ StoreTypeOK
  BY DEF TypeInv, TypeOK
<1>2. /\ task[t].pc \in {"advance", "execute"}
      /\ task[t].run \in Runs /\ task[t].steps \in Definitions
      /\ Len(task[t].steps) \in 0 .. MaxSteps
      /\ task[t].pc \in SteppingPCs => task[t].index \in Steps
  BY <1>1, AtWork, PCFacts DEF StartTeammateStep, AtAdvance, Holds, Wakes
<1>3. StoreTypeOK'
  BY <1>1, <1>2, RecordStatements DEF StartTeammateStep, StoreTypeOK, RecordStatus, Outputs
<1>4. TasksOK' /\ active' \in Coroutines \cup {Idle}
  <2> DEFINE r == task[t].run
             i == run[r].index
             routed == Kind(task[t].steps, i) = "teammate"
             pc == IF routed THEN "calling" ELSE "raised"
             prompt == IF routed THEN AssemblePrompt(r, task[t].steps, i)
                                 ELSE task[t].prompt
             row == [task[t] EXCEPT !.pc = pc, !.index = i, !.prompt = prompt]
  <2>1. task[t] \in TaskRow
    BY <1>1, AtWork
  <2>2. i \in Steps
    BY <1>1, <1>2, RunningIndex DEF StartTeammateStep, CanAdvance
  <2>3. prompt \in Prompts
    <3>1. AssemblePrompt(r, task[t].steps, i) \in Prompts
      BY <1>1, <1>2, PromptType
    <3> QED
      BY <2>1, <3>1 DEF TaskRow
  <2>4. pc \in {"calling", "raised"} /\ pc \in PCs
    BY DEF PCs
  <2>5. task' = [task EXCEPT ![t] = row]
    BY <1>1 DEF StartTeammateStep, TasksOK
  <2>6. active' \in {t, Idle}
    BY DEF StartTeammateStep
  <2>7. i \in 0 .. MaxSteps
    BY <2>2, ConstantFacts DEF Steps
  <2> HIDE DEF i, pc, prompt
  <2>8. row \in TaskRow
    BY <2>1, <2>3, <2>4, <2>7 DEF TaskRow
  <2>9. row.pc = pc /\ row.run = r /\ row.steps = task[t].steps /\ row.index = i
    BY <2>1 DEF TaskRow
  <2>10. RowOK(row)
    BY <1>2, <2>2, <2>4, <2>9 DEF RowOK
  <2> HIDE DEF row
  <2>11. TasksOK'
    BY <1>1, <2>5, <2>8, <2>10, TaskReplaced
  <2> QED
    BY <2>6, <2>11
<1> QED
  BY <1>3, <1>4 DEF TypeInv, TypeOK, TasksOK, StartTeammateStep
------------------------------------------------------------------------------
\* Requests, edits, crashes and recovery keep the type invariant.
LEMMA CoroutineFacts ==
  ASSUME NEW pc \in PCs, NEW r \in Runs, NEW i \in 0 .. MaxSteps, NEW d \in Definitions
  PROVE  /\ Coroutine(pc, r, i, d) \in TaskRow
         /\ Coroutine(pc, r, i, d).pc = pc /\ Coroutine(pc, r, i, d).run = r
         /\ Coroutine(pc, r, i, d).index = i /\ Coroutine(pc, r, i, d).steps = d
         /\ \A dec \in DecisionRow :
              LET row == [Coroutine(pc, r, i, d) EXCEPT !.decision = dec]
              IN  /\ row \in TaskRow /\ row.pc = pc /\ row.run = r
                  /\ row.index = i /\ row.steps = d
  BY ConstantFacts DEF Coroutine, TaskRow

LEMMA CreateRunType ==
  ASSUME TypeInv, NEW t \in Tasks, NEW p \in Playbooks, NEW r \in Runs,
         CreateRun(t, p, r)
  PROVE  TypeInv'
<1>1. TasksOK /\ StoreTypeOK /\ t \in Coroutines /\ definition[p] \in Definitions
  BY ConstantFacts DEF TypeInv, TypeOK, StoreTypeOK
<1>2. StoreTypeOK'
  BY <1>1, RunCreated DEF CreateRun, StoreTypeOK
<1> DEFINE row == Coroutine("create_records", r, 0, definition[p])
<1>3. row \in TaskRow /\ RowOK(row)
  <2>1. "create_records" \in PCs \ SteppingPCs /\ 0 \in 0 .. MaxSteps
    BY ConstantFacts DEF PCs, SteppingPCs
  <2>2. 0 <= Len(definition[p])
    BY <1>1, DefinitionFacts
  <2> QED
    BY <1>1, <2>1, <2>2, CoroutineFacts DEF RowOK
<1>4. TasksOK'
  BY <1>1, <1>3, TaskReplaced DEF CreateRun
<1> QED
  BY <1>1, <1>2, <1>4 DEF TypeInv, TypeOK, TasksOK, CreateRun

LEMMA AcceptDecisionType ==
  ASSUME TypeInv, NEW t \in Tasks, NEW r \in Runs, NEW i \in Steps,
         NEW d \in Submissions, AcceptDecision(t, r, i, d)
  PROVE  TypeInv'
<1> DEFINE index == run[r].index
           steps == definition[run[r].playbook]
           row == [Coroutine("decided", r, index, steps) EXCEPT !.decision = d]
<1>1. /\ TasksOK /\ StoreTypeOK /\ t \in Coroutines
      /\ steps \in Definitions /\ d \in DecisionRow
  BY ConstantFacts, EngineAssumption
  DEF TypeInv, TypeOK, StoreTypeOK, RunRow, EngineAssumption
<1>2. index \in Steps
  BY <1>1, RunningIndex DEF AcceptDecision, Acceptable, IsGate
<1>3. StoreTypeOK'
  BY <1>1, <1>2, DecisionStatement DEF AcceptDecision, StoreTypeOK
<1>4. row \in TaskRow /\ RowOK(row)
  <2>1. "decided" \in PCs /\ index \in 0 .. MaxSteps
    BY <1>2, ConstantFacts DEF PCs, Steps
  <2> QED
    BY <1>1, <1>2, <2>1, CoroutineFacts DEF RowOK
<1>5. TasksOK'
  BY <1>1, <1>4, TaskReplaced DEF AcceptDecision
<1> QED
  BY <1>1, <1>3, <1>5 DEF TypeInv, TypeOK, TasksOK, AcceptDecision

LEMMA EnvironmentType ==
  ASSUME TypeInv,
         \/ \E r \in Runs : ShowGate(r)
         \/ \E p \in Playbooks, d \in PutDefinitions : UpdatePlaybook(p, d)
  PROVE  TypeInv'
<1>1. ASSUME NEW r \in Runs, ShowGate(r) PROVE TypeInv'
  <2>1. shown' \in [Runs -> SUBSET Steps]
    BY <1>1 DEF ShowGate, TypeInv, TypeOK
  <2> QED
    BY <1>1, <2>1 DEF ShowGate, TypeInv, TypeOK, TasksOK, StoreTypeOK, storeVars
<1>2. ASSUME NEW p \in Playbooks, NEW d \in PutDefinitions, UpdatePlaybook(p, d)
      PROVE TypeInv'
  <2>1. definition' \in [Playbooks -> Definitions]
    BY <1>2, EngineAssumption
    DEF UpdatePlaybook, UpsertPlaybook, TypeInv, TypeOK, StoreTypeOK, EngineAssumption
  <2> QED
    BY <1>2, <2>1
    DEF UpdatePlaybook, engineVars, TypeInv, TypeOK, TasksOK, StoreTypeOK
<1> QED
  BY <1>1, <1>2

LEMMA CrashType == ASSUME TypeInv, Crash PROVE TypeInv'
<1>1. TasksOK'
  BY IdleTaskFacts DEF Crash, TasksOK
<1>2. StoreTypeOK'
  BY DEF Crash, storeVars, TypeInv, TypeOK, StoreTypeOK
<1>3. crashes' \in 0 .. MaxCrashes
  BY EngineAssumption DEF Crash, TypeInv, TypeOK, EngineAssumption
<1> QED
  BY <1>1, <1>2, <1>3 DEF Crash, TypeInv, TypeOK, TasksOK

LEMMA RestartType == ASSUME TypeInv, Restart PROVE TypeInv'
<1>1. Seeded(definition) \in [Playbooks -> Definitions]
  BY SeededType DEF TypeInv, TypeOK, StoreTypeOK
<1>2. StoreTypeOK'
  BY <1>1 DEF Restart, TypeInv, TypeOK, StoreTypeOK
<1> DEFINE row == [task[Recovery] EXCEPT !.pc = "recover"]
<1>3. row \in TaskRow /\ RowOK(row)
  <2>1. task[Recovery] \in TaskRow
    BY ConstantFacts DEF TypeInv, TasksOK
  <2>2. "recover" \in PCs /\ "recover" \notin WorkingPCs \cup SteppingPCs
    BY PCFacts DEF PCs, SteppingPCs
  <2>3. row \in TaskRow /\ row.pc = "recover"
    BY <2>1, <2>2 DEF TaskRow
  <2> QED
    BY <2>2, <2>3 DEF RowOK
<1>4. task' = [task EXCEPT ![Recovery] = row]
  BY ConstantFacts DEF Restart, TypeInv, TasksOK
<1> HIDE DEF row
<1>5. TasksOK'
  BY <1>3, <1>4, ConstantFacts, TaskReplaced DEF TypeInv
<1> QED
  BY <1>1, <1>2, <1>5, ConstantFacts
  DEF Restart, RunsByStatus, TypeInv, TypeOK, TasksOK

LEMMA RecoverRunType ==
  ASSUME TypeInv, NEW r \in Runs, RecoverRun(r)
  PROVE  TypeInv'
<1> DEFINE steps == loaded[run[r].playbook]
           row == Coroutine("advance", r, run[r].index, steps)
<1>1. TasksOK /\ StoreTypeOK /\ steps \in Definitions /\ run[r].index \in 0 .. MaxSteps
  BY DEF TypeInv, TypeOK, StoreTypeOK, RunRow
<1>2. StoreTypeOK'
  <2>1. record' \in [Runs -> [Steps -> RecordRow]]
    <3>1. CASE UNCHANGED record
      BY <1>1, <3>1 DEF StoreTypeOK
    <3>2. CASE ResetStepToPending(r, run[r].index)
      BY <1>1, <3>2, "pending" \in RecordStatus, "none" \in Outputs, RecordStatements
      DEF RecordStatus, Outputs
    <3> QED
      BY <3>1, <3>2 DEF RecoverRun
  <2> QED
    BY <1>1, <2>1 DEF RecoverRun, StoreTypeOK
<1>3. row \in TaskRow /\ RowOK(row)
  <2>1. "advance" \in PCs \ SteppingPCs
    BY DEF PCs, SteppingPCs
  <2> QED
    BY <1>1, <2>1, CoroutineFacts DEF RowOK
<1>4. TasksOK'
  BY <1>1, <1>3, ConstantFacts, TaskReplaced DEF RecoverRun
<1> QED
  BY <1>2, <1>4 DEF TypeInv, TypeOK, TasksOK, RecoverRun

LEMMA RecoveryStopsType ==
  ASSUME TypeInv, RecoveryDies \/ RecoveryEnds
  PROVE  TypeInv'
<1>1. /\ task' = [task EXCEPT ![Recovery] = FreeTask]
      /\ active' = Idle /\ toRecover' \subseteq Runs
      /\ UNCHANGED <<storeVars, loaded, up, crashes, shown>>
  BY DEF RecoveryDies, RecoveryEnds, TypeInv, TypeOK
<1>2. TasksOK'
  BY <1>1, IdleTaskFacts, ConstantFacts, TaskReplaced DEF TypeInv
<1>3. StoreTypeOK'
  BY <1>1 DEF TypeInv, TypeOK, StoreTypeOK, storeVars
<1> QED
  BY <1>1, <1>2, <1>3 DEF TypeInv, TypeOK, TasksOK

------------------------------------------------------------------------------
LEMMA NextTypeInv == TypeInv /\ [Next]_vars => TypeInv'
<1> SUFFICES ASSUME TypeInv, [Next]_vars PROVE TypeInv'
  OBVIOUS
<1>1. ASSUME NEW t \in Coroutines, Step(t) PROVE TypeInv'
  BY <1>1, CreateNextRecordType, SetGoalAndSpawnType, StartTeammateStepType,
     MarkAwaitingApprovalType, PauseRunType, AdvanceRaisesType,
     BackstopFailsRunType, ModelAnswersType, StoreMilestoneType,
     ModelCallFailsType, FailRunType, CompleteRunType, MoveToNextStepType,
     RejectRecordType, RejectRunType, ApproveRecordType, PropagateEditType
  DEF Step
<1>2. CASE Recover
  BY <1>2, RecoverRunType, RecoveryStopsType DEF Recover
<1>3. CASE UNCHANGED vars
  BY <1>3 DEF vars, storeVars, engineVars, TypeInv, TypeOK, StoreTypeOK, TasksOK
<1> QED
  BY <1>1, <1>2, <1>3, CreateRunType, AcceptDecisionType, EnvironmentType,
     CrashType, RestartType DEF Next

\* Every row and every local of the engine keeps its type: whatever the number of
\* runs, tasks and playbooks, the definitions, the edits and the crashes.
THEOREM Typing == Spec => []TypeOK
<1>1. TypeInv => TypeOK
  BY DEF TypeInv
<1> QED
  BY <1>1, InitTypeInv, NextTypeInv, PTL DEF Spec
------------------------------------------------------------------------------
\* Gates.  While no playbook is replaced, a coroutine executes the definition its
\* run has in the store, and every gate behind it is approved.
GatesApproved(r, n) ==
  \A i \in Steps : i < n /\ IsGate(StepsOf(r), i) => Approved(r, i)

TaskGates(t) ==
  LET r == task[t].run
      i == task[t].index
  IN  task[t].pc \in WorkingPCs =>
        /\ Created(r) /\ task[t].steps = StepsOf(r)
        /\ task[t].pc \in SteppingPCs => GatesApproved(r, i)
        /\ task[t].pc \in {"calling", "milestone"} => ~IsGate(StepsOf(r), i)
        /\ task[t].pc \in {"propagate", "continue", "continuation"} =>
             GatesApproved(r, i + 1)
        /\ task[t].pc = "decided" /\ task[t].decision.decision # "reject" =>
             Approved(r, i)

RunGates(r) == Created(r) => GatesApproved(r, run[r].index)

GateInv ==
  /\ definition = Seeded(definition) /\ loaded = definition
  /\ \A r \in toRecover : Created(r)
  /\ \A r \in Runs : RunGates(r)
  /\ \A t \in Coroutines : TaskGates(t)

\* What no step undoes.
Keeps ==
  /\ definition' = definition /\ loaded' = loaded
  /\ \A r \in Runs : Created(r) => Created(r)' /\ run'[r].playbook = run[r].playbook
  /\ \A r \in Runs, i \in Steps : Approved(r, i) => Approved(r, i)'

LEMMA GateInvImplies == TypeInv /\ GateInv => NoGateBypass
<1> SUFFICES ASSUME TypeInv, GateInv, NEW r \in Runs, NEW i \in Steps
             PROVE  /\ Created(r) /\ i < run[r].index /\ IsGate(StepsOf(r), i) => Approved(r, i)
                    /\ \A t \in Coroutines :
                         /\ task[t].pc = "calling" /\ task[t].run = r
                         /\ i < task[t].index /\ IsGate(StepsOf(r), i)
                         => Approved(r, i)
  BY DEF NoGateBypass
<1>1. RunGates(r) /\ \A t \in Coroutines : TaskGates(t)
  BY DEF GateInv
<1>2. "calling" \in SteppingPCs /\ "calling" \in WorkingPCs
  BY PCFacts DEF SteppingPCs
<1> QED
  BY <1>1, <1>2 DEF RunGates, TaskGates, GatesApproved

LEMMA InitGateInv == Init => GateInv
<1> SUFFICES ASSUME Init PROVE GateInv
  OBVIOUS
<1>1. \A r \in Runs : ~Created(r)
  BY DEF Init, StoreInit, AbsentRun, Created
<1>2. \A t \in Coroutines : task[t].pc \notin WorkingPCs
  BY PCFacts DEF Init, FreeTask, Coroutine
<1> QED
  BY <1>1, <1>2 DEF Init, GateInv, RunGates, TaskGates

\* Statements that leave what Keeps is about.
LEMMA DecisionKept ==
  ASSUME StoreTypeOK, NEW r \in Runs, NEW i \in Steps, NEW d,
         RecordGateDecision(r, i, d), NEW q \in Runs, NEW j \in Steps
  PROVE  /\ Approved(q, j) => Approved(q, j)'
         /\ d.decision # "reject" => Approved(r, i)'
<1>1. gateDecisions[q][j] \in Seq(DecisionRow) /\ gateDecisions[r][i] \in Seq(DecisionRow)
  BY DEF StoreTypeOK
<1> DEFINE old == gateDecisions[r][i]
           new == Append(old, d)
<1>2. /\ Len(old) \in Nat /\ Len(new) = Len(old) + 1
      /\ DOMAIN old = 1 .. Len(old) /\ DOMAIN new = 1 .. Len(new)
      /\ new[Len(new)] = d
      /\ \A k \in DOMAIN old : k \in DOMAIN new /\ new[k] = old[k]
  BY <1>1
<1>3. gateDecisions'[r][i] = new
  BY DEF RecordGateDecision, StoreTypeOK
<1>4. q # r \/ j # i => gateDecisions'[q][j] = gateDecisions[q][j]
  BY DEF RecordGateDecision, StoreTypeOK
<1>5. Len(new) \in DOMAIN new
  BY <1>2
<1> HIDE DEF old, new
<1>6. CASE q = r /\ j = i
  <2>1. gateDecisions[q][j] = old /\ gateDecisions'[q][j] = new
    BY <1>3, <1>6 DEF old
  <2> QED
    BY <1>2, <1>3, <1>5, <2>1 DEF Approved
<1>7. CASE q # r \/ j # i
  BY <1>2, <1>3, <1>4, <1>5, <1>7 DEF Approved
<1> QED
  BY <1>6, <1>7

LEMMA RunChangeKept ==
  ASSUME StoreTypeOK, UNCHANGED <<definition, gateDecisions, loaded>>,
         NEW r \in Runs, NEW s \in RunStatus, NEW i,
         \/ UpdateRunStatus(r, s)
         \/ UpdateRunStatusAt(r, s, i)
         \/ ~Created(r) /\ \E p : CreateRunRow(r, p)
  PROVE  /\ Keeps
         /\ Created(r)'
<1>1. s # "absent"
  BY DEF RunStatus
<1>2. \A q \in Runs : q # r => run'[q] = run[q]
  BY DEF StoreTypeOK, UpdateRunStatus, UpdateRunStatusAt, CreateRunRow
<1>3. Created(r)' /\ (Created(r) => run'[r].playbook = run[r].playbook)
  <2>1. run[r] \in RunRow /\ r \in DOMAIN run
    BY DEF StoreTypeOK
  <2>2. CASE UpdateRunStatus(r, s)
    BY <1>1, <2>1, <2>2 DEF UpdateRunStatus, Created, RunRow, StoreTypeOK
  <2>3. CASE UpdateRunStatusAt(r, s, i)
    BY <1>1, <2>1, <2>3 DEF UpdateRunStatusAt, Created, RunRow, StoreTypeOK
  <2>4. CASE ~Created(r) /\ \E p : CreateRunRow(r, p)
    BY <2>1, <2>4 DEF CreateRunRow, Created, StoreTypeOK
  <2> QED
    BY <2>2, <2>3, <2>4
<1> QED
  BY <1>2, <1>3 DEF Keeps, Created, Approved

LEMMA NothingChangedKept ==
  ASSUME UNCHANGED <<definition, run, gateDecisions, loaded>>
  PROVE  Keeps
  BY DEF Keeps, Created, Approved
\* What is approved stays approved, and a run keeps its definition.
LEMMA GatesKept ==
  ASSUME Keeps, NEW r \in Runs, Created(r)
  PROVE  /\ StepsOf(r)' = StepsOf(r)
         /\ \A n : GatesApproved(r, n) => GatesApproved(r, n)'
  BY DEF Keeps, GatesApproved, StepsOf

LEMMA OneMore ==
  ASSUME NEW r \in Runs, NEW i \in Steps, GatesApproved(r, i),
         ~IsGate(StepsOf(r), i) \/ Approved(r, i)
  PROVE  GatesApproved(r, i + 1)
<1>1. \A j \in Steps : j < i + 1 => j < i \/ j = i
  BY DEF Steps
<1> QED
  BY <1>1 DEF GatesApproved

\* No run is created and no index moves.
SameIndex ==
  \A r \in Runs : Created(r)' => Created(r) /\ run'[r].index = run[r].index

LEMMA StatusKeepsIndex ==
  ASSUME StoreTypeOK, NEW r \in Runs, NEW s, Created(r), UpdateRunStatus(r, s)
  PROVE  SameIndex
<1>1. run[r] \in RunRow
  BY DEF StoreTypeOK
<1>2. run'[r].index = run[r].index
  BY <1>1 DEF UpdateRunStatus, StoreTypeOK, RunRow
<1>3. \A q \in Runs : q # r => run'[q] = run[q]
  BY DEF UpdateRunStatus, StoreTypeOK
<1> QED
  BY <1>2, <1>3 DEF SameIndex, Created

LEMMA RunGatesKept ==
  ASSUME GateInv, Keeps, SameIndex, NEW r \in Runs
  PROVE  RunGates(r)'
  BY GatesKept DEF GateInv, RunGates, SameIndex

LEMMA TaskGatesKept ==
  ASSUME TypeInv, GateInv, Keeps, NEW t \in Coroutines, task'[t] = task[t]
  PROVE  TaskGates(t)'
<1>1. TaskGates(t) /\ (task[t].pc \in SteppingPCs => task[t].index \in Steps)
  BY AtWork DEF GateInv, TypeInv
<1>2. CASE task[t].pc \notin WorkingPCs
  BY <1>2, ZenonT(30) DEF TaskGates
<1>3. CASE task[t].pc \in WorkingPCs
  <2>1. task[t].run \in Runs /\ Created(task[t].run)
    BY <1>1, <1>3, AtWork DEF TypeInv, TaskGates
  <2>2. \A i \in Steps : Approved(task[t].run, i) => Approved(task[t].run, i)'
    BY <2>1 DEF Keeps
  <2>3. "decided" \in SteppingPCs
    BY DEF SteppingPCs
  <2>4. /\ Created(task[t].run)'
        /\ StepsOf(task[t].run)' = StepsOf(task[t].run)
        /\ \A n : GatesApproved(task[t].run, n) => GatesApproved(task[t].run, n)'
    BY <2>1, GatesKept DEF Keeps
  <2> QED
    BY <1>1, <1>3, <2>2, <2>3, <2>4, ZenonT(30) DEF TaskGates, Created, StepsOf, GatesApproved, Approved
<1> QED
  BY <1>2, <1>3

\* A step of one coroutine, put together.
LEMMA StepGates ==
  ASSUME TypeInv, GateInv, Keeps, NEW t \in Coroutines,
         \A u \in Coroutines : u # t => task'[u] = task[u],
         TaskGates(t)', toRecover' \subseteq toRecover,
         toRecover \subseteq Runs, \A r \in Runs : RunGates(r)'
  PROVE  GateInv'
<1>1. \A u \in Coroutines : TaskGates(u)'
  BY TaskGatesKept
<1>2. \A r \in toRecover' : Created(r)'
  BY DEF GateInv, Keeps
<1>3. (definition = Seeded(definition) /\ loaded = definition)'
  BY DEF GateInv, Keeps, Seeded
<1> QED
  BY <1>1, <1>2, <1>3 DEF GateInv

\* t only moves to pc.
LEMMA MovedGates ==
  ASSUME TypeInv, GateInv, Keeps, SameIndex, NEW t \in Coroutines, NEW pc \in WorkingPCs,
         task[t].pc \in WorkingPCs, task' = [task EXCEPT ![t].pc = pc],
         UNCHANGED toRecover,
         LET r == task[t].run
             i == task[t].index
         IN  /\ pc \in SteppingPCs => GatesApproved(r, i)
             /\ pc \in {"calling", "milestone"} => ~IsGate(StepsOf(r), i)
             /\ pc \in {"propagate", "continue", "continuation"} => GatesApproved(r, i + 1)
             /\ pc # "decided"
  PROVE  GateInv'
<1> DEFINE r == task[t].run
           i == task[t].index
<1>1. task[t] \in TaskRow /\ t \in DOMAIN task /\ toRecover \subseteq Runs
  BY AtWork DEF TypeInv, TypeOK, TasksOK
<1>2. /\ task'[t].pc = pc /\ task'[t].run = r /\ task'[t].index = i
      /\ task'[t].steps = task[t].steps
      /\ \A u \in Coroutines : u # t => task'[u] = task[u]
  BY <1>1, SMTT(30) DEF TaskRow, TypeInv, TasksOK
<1>3. r \in Runs /\ Created(r) /\ task[t].steps = StepsOf(r)
  BY AtWork DEF TypeInv, GateInv, TaskGates
<1>4. /\ Created(r)' /\ StepsOf(r)' = StepsOf(r)
      /\ \A n : GatesApproved(r, n) => GatesApproved(r, n)'
  BY <1>3, GatesKept DEF Keeps
<1>5. TaskGates(t)'
  BY <1>2, <1>3, <1>4, ZenonT(30) DEF TaskGates, Created, StepsOf, GatesApproved, Approved
<1> QED
  BY <1>1, <1>2, <1>5, StepGates, RunGatesKept

\* t has nothing left to do with a run.
LEMMA FinishedGates ==
  ASSUME TypeInv, GateInv, Keeps, NEW t \in Coroutines, Finish(t),
         UNCHANGED toRecover, \A r \in Runs : RunGates(r)'
  PROVE  GateInv'
<1>1. task \in [Coroutines -> TaskRow] /\ toRecover \subseteq Runs
  BY DEF TypeInv, TypeOK
<1>2. PICK row : row \in {FreeTask, IdleRecovery} /\ task' = [task EXCEPT ![t] = row]
  BY DEF Finish, IdleRecovery
<1>3. FreeTask.pc \notin WorkingPCs /\ IdleRecovery.pc \notin WorkingPCs
  BY PCFacts DEF FreeTask, IdleRecovery, Coroutine
<1>4. TaskGates(t)'
  BY <1>1, <1>2, <1>3 DEF TaskGates
<1>5. \A u \in Coroutines : u # t => task'[u] = task[u]
  BY <1>1, <1>2
<1> QED
  BY <1>1, <1>4, <1>5, StepGates

LEMMA AdvanceRaisesGates ==
  ASSUME TypeInv, GateInv, NEW t \in Coroutines, AdvanceRaises(t)
  PROVE  GateInv'
<1>1. task[t].pc \in {"advance", "execute"}
  BY DEF AdvanceRaises, AtAdvance, Holds, Wakes
<1>2. TasksOK /\ StoreTypeOK /\ TaskGates(t) /\ task[t].run \in Runs /\ task[t].pc \in WorkingPCs
  BY <1>1, AtWork, PCFacts DEF TypeInv, TypeOK, GateInv
<1>3. Keeps /\ SameIndex
  BY NothingChangedKept DEF AdvanceRaises, SameIndex, Created, storeVars
<1>4. task' = [task EXCEPT ![t].pc = "raised"] /\ UNCHANGED toRecover
  BY DEF AdvanceRaises, Goto, Suspend
<1> QED
  BY <1>1, <1>2, <1>3, <1>4, MovedGates, PCFacts DEF SteppingPCs, TaskGates

LEMMA ModelAnswersGates ==
  ASSUME TypeInv, GateInv, NEW t \in Coroutines, ModelAnswers(t)
  PROVE  GateInv'
<1>1. task[t].pc \in {"calling"}
  BY DEF ModelAnswers, Wakes
<1>2. TasksOK /\ StoreTypeOK /\ TaskGates(t) /\ task[t].run \in Runs /\ task[t].pc \in WorkingPCs
  BY <1>1, AtWork, PCFacts DEF TypeInv, TypeOK, GateInv
<1>3. Keeps /\ SameIndex
  BY NothingChangedKept DEF ModelAnswers, SameIndex, Created
<1>4. task' = [task EXCEPT ![t].pc = "milestone"] /\ UNCHANGED toRecover
  BY DEF ModelAnswers, Goto, Suspend
<1> QED
  BY <1>1, <1>2, <1>3, <1>4, MovedGates, PCFacts DEF SteppingPCs, TaskGates

LEMMA ModelCallFailsGates ==
  ASSUME TypeInv, GateInv, NEW t \in Coroutines, ModelCallFails(t)
  PROVE  GateInv'
<1>1. task[t].pc \in {"calling"}
  BY DEF ModelCallFails, Wakes
<1>2. TasksOK /\ StoreTypeOK /\ TaskGates(t) /\ task[t].run \in Runs /\ task[t].pc \in WorkingPCs
  BY <1>1, AtWork, PCFacts DEF TypeInv, TypeOK, GateInv
<1>3. Keeps /\ SameIndex
  BY NothingChangedKept DEF ModelCallFails, SameIndex, Created
<1>4. task' = [task EXCEPT ![t].pc = "fail"] /\ UNCHANGED toRecover
  BY DEF ModelCallFails, Goto, Suspend
<1> QED
  BY <1>1, <1>2, <1>3, <1>4, MovedGates, PCFacts DEF SteppingPCs, TaskGates

LEMMA RejectRecordGates ==
  ASSUME TypeInv, GateInv, NEW t \in Coroutines, RejectRecord(t)
  PROVE  GateInv'
<1>1. task[t].pc \in {"decided"}
  BY DEF RejectRecord, Holds
<1>2. TasksOK /\ StoreTypeOK /\ TaskGates(t) /\ task[t].run \in Runs /\ task[t].pc \in WorkingPCs
  BY <1>1, AtWork, PCFacts DEF TypeInv, TypeOK, GateInv
<1>3. Keeps /\ SameIndex
  BY NothingChangedKept DEF RejectRecord, SameIndex, Created
<1>4. task' = [task EXCEPT ![t].pc = "reject"] /\ UNCHANGED toRecover
  BY DEF RejectRecord, Goto, Suspend
<1> QED
  BY <1>1, <1>2, <1>3, <1>4, MovedGates, PCFacts DEF SteppingPCs, TaskGates

LEMMA PropagateEditGates ==
  ASSUME TypeInv, GateInv, NEW t \in Coroutines, PropagateEdit(t)
  PROVE  GateInv'
<1>1. task[t].pc \in {"propagate"}
  BY DEF PropagateEdit, Holds
<1>2. TasksOK /\ StoreTypeOK /\ TaskGates(t) /\ task[t].run \in Runs /\ task[t].pc \in WorkingPCs
  BY <1>1, AtWork, PCFacts DEF TypeInv, TypeOK, GateInv
<1>3. Keeps /\ SameIndex
  BY NothingChangedKept DEF PropagateEdit, SameIndex, Created
<1>4. task' = [task EXCEPT ![t].pc = "continuation"] /\ UNCHANGED toRecover
  BY DEF PropagateEdit, Goto, Suspend
<1> QED
  BY <1>1, <1>2, <1>3, <1>4, MovedGates, PCFacts DEF SteppingPCs, TaskGates

LEMMA StoreMilestoneGates ==
  ASSUME TypeInv, GateInv, NEW t \in Coroutines, StoreMilestone(t)
  PROVE  GateInv'
<1>1. task[t].pc \in {"milestone"}
  BY DEF StoreMilestone, Holds
<1>2. TasksOK /\ StoreTypeOK /\ TaskGates(t) /\ task[t].run \in Runs /\ task[t].pc \in WorkingPCs
  BY <1>1, AtWork, PCFacts DEF TypeInv, TypeOK, GateInv
<1>3. Keeps /\ SameIndex
  BY NothingChangedKept DEF StoreMilestone, SameIndex, Created
<1>4. task' = [task EXCEPT ![t].pc = "continue"] /\ UNCHANGED toRecover
  BY DEF StoreMilestone, Goto
<1>5. task[t].index \in Steps /\ GatesApproved(task[t].run, task[t].index)
      /\ ~IsGate(StepsOf(task[t].run), task[t].index)
  BY <1>1, <1>2, AtWork DEF SteppingPCs, TaskGates
<1>6. GatesApproved(task[t].run, task[t].index + 1)
  BY <1>2, <1>5, OneMore
<1> QED
  BY <1>1, <1>2, <1>3, <1>4, <1>5, <1>6, MovedGates, PCFacts

LEMMA ApproveRecordGates ==
  ASSUME TypeInv, GateInv, NEW t \in Coroutines, ApproveRecord(t)
  PROVE  GateInv'
<1>1. task[t].pc \in {"decided"}
  BY DEF ApproveRecord, Holds
<1>2. TasksOK /\ StoreTypeOK /\ TaskGates(t) /\ task[t].run \in Runs /\ task[t].pc \in WorkingPCs
  BY <1>1, AtWork, PCFacts DEF TypeInv, TypeOK, GateInv
<1>3. Keeps /\ SameIndex
  BY NothingChangedKept DEF ApproveRecord, SameIndex, Created
<1>4. PICK pc \in {"propagate", "continuation"} : task' = [task EXCEPT ![t].pc = pc]
  BY DEF ApproveRecord, Goto, Suspend
<1>5. UNCHANGED toRecover
  BY DEF ApproveRecord
<1>6. task[t].index \in Steps /\ GatesApproved(task[t].run, task[t].index)
      /\ Approved(task[t].run, task[t].index)
  BY <1>1, <1>2, AtWork DEF SteppingPCs, TaskGates, ApproveRecord
<1>7. GatesApproved(task[t].run, task[t].index + 1)
  BY <1>2, <1>6, OneMore
<1> QED
  BY <1>1, <1>2, <1>3, <1>4, <1>5, <1>6, <1>7, MovedGates, PCFacts

LEMMA PauseRunGates ==
  ASSUME TypeInv, GateInv, NEW t \in Coroutines, PauseRun(t)
  PROVE  GateInv'
<1>1. task[t].pc \in {"pause"}
  BY DEF PauseRun, Holds
<1>2. TasksOK /\ StoreTypeOK /\ TaskGates(t) /\ task[t].run \in Runs /\ task[t].pc \in WorkingPCs
  BY <1>1, AtWork, PCFacts DEF TypeInv, TypeOK, GateInv
<1>3. Keeps /\ SameIndex
  <2>1. Keeps
    BY <1>2, RunChangeKept DEF PauseRun, RunStatus
  <2>2. SameIndex
    BY <1>2, StatusKeepsIndex DEF PauseRun, TaskGates
  <2> QED
    BY <2>1, <2>2
<1> QED
  BY <1>3, FinishedGates, RunGatesKept DEF PauseRun

LEMMA FailRunGates ==
  ASSUME TypeInv, GateInv, NEW t \in Coroutines, FailRun(t)
  PROVE  GateInv'
<1>1. task[t].pc \in {"fail"}
  BY DEF FailRun, Holds
<1>2. TasksOK /\ StoreTypeOK /\ TaskGates(t) /\ task[t].run \in Runs /\ task[t].pc \in WorkingPCs
  BY <1>1, AtWork, PCFacts DEF TypeInv, TypeOK, GateInv
<1>3. Keeps /\ SameIndex
  <2>1. Keeps
    BY <1>2, RunChangeKept DEF FailRun, RunStatus
  <2>2. SameIndex
    BY <1>2, StatusKeepsIndex DEF FailRun, TaskGates
  <2> QED
    BY <2>1, <2>2
<1> QED
  BY <1>3, FinishedGates, RunGatesKept DEF FailRun

LEMMA BackstopFailsRunGates ==
  ASSUME TypeInv, GateInv, NEW t \in Coroutines, BackstopFailsRun(t)
  PROVE  GateInv'
<1>1. task[t].pc \in {"raised"}
  BY DEF BackstopFailsRun, Holds
<1>2. TasksOK /\ StoreTypeOK /\ TaskGates(t) /\ task[t].run \in Runs /\ task[t].pc \in WorkingPCs
  BY <1>1, AtWork, PCFacts DEF TypeInv, TypeOK, GateInv
<1>3. Keeps /\ SameIndex
  <2>1. Keeps
    BY <1>2, RunChangeKept DEF BackstopFailsRun, RunStatus
  <2>2. SameIndex
    BY <1>2, StatusKeepsIndex DEF BackstopFailsRun, TaskGates
  <2> QED
    BY <2>1, <2>2
<1> QED
  BY <1>3, FinishedGates, RunGatesKept DEF BackstopFailsRun

LEMMA RejectRunGates ==
  ASSUME TypeInv, GateInv, NEW t \in Coroutines, RejectRun(t)
  PROVE  GateInv'
<1>1. task[t].pc \in {"reject"}
  BY DEF RejectRun, Holds
<1>2. TasksOK /\ StoreTypeOK /\ TaskGates(t) /\ task[t].run \in Runs /\ task[t].pc \in WorkingPCs
  BY <1>1, AtWork, PCFacts DEF TypeInv, TypeOK, GateInv
<1>3. Keeps /\ SameIndex
  <2>1. Keeps
    BY <1>2, RunChangeKept DEF RejectRun, RunStatus
  <2>2. SameIndex
    BY <1>2, StatusKeepsIndex DEF RejectRun, TaskGates
  <2> QED
    BY <2>1, <2>2
<1> QED
  BY <1>3, FinishedGates, RunGatesKept DEF RejectRun

LEMMA CompleteRunGates ==
  ASSUME TypeInv, GateInv, NEW t \in Coroutines, CompleteRun(t)
  PROVE  GateInv'
<1>0. PICK r, i : r = task[t].run /\ i = task[t].index
  OBVIOUS
<1>1. task[t].pc \in {"continue", "continuation"}
  BY DEF CompleteRun, AtContinue, Holds, Wakes
<1>2. /\ TasksOK /\ StoreTypeOK /\ TaskGates(t) /\ r \in Runs /\ i \in Steps
      /\ task[t].pc \in WorkingPCs /\ GatesApproved(r, i + 1) /\ Created(r)
  BY <1>0, <1>1, AtWork, PCFacts DEF TypeInv, TypeOK, GateInv, TaskGates, SteppingPCs
<1>3. UpdateRunStatusAt(r, "completed", i + 1)
  BY <1>0 DEF CompleteRun
<1>4. Keeps /\ Created(r)'
  <2>1. "completed" \in RunStatus /\ UNCHANGED <<definition, gateDecisions, loaded>>
    BY DEF CompleteRun, RunStatus
  <2> QED
    BY <1>2, <1>3, <2>1, RunChangeKept
<1>5. run'[r].index = i + 1 /\ \A q \in Runs : q # r => run'[q] = run[q]
  <2>1. run[r] \in RunRow /\ run \in [Runs -> RunRow]
    BY <1>2 DEF StoreTypeOK
  <2> QED
    BY <1>2, <1>3, <2>1 DEF UpdateRunStatusAt, RunRow
<1>6. ASSUME NEW q \in Runs PROVE RunGates(q)'
  <2>1. CASE q = r
    BY <1>2, <1>4, <1>5, <2>1, GatesKept DEF RunGates, GatesApproved, Approved, StepsOf
  <2>2. CASE q # r
    <3>1. Created(q)' => Created(q) /\ run'[q].index = run[q].index
      BY <1>5, <2>2 DEF Created
    <3> QED
      BY <1>4, <3>1, GatesKept DEF GateInv, RunGates
  <2> QED
    BY <2>1, <2>2
<1> QED
  BY <1>4, <1>6, FinishedGates DEF CompleteRun

LEMMA MoveToNextStepGates ==
  ASSUME TypeInv, GateInv, NEW t \in Coroutines, MoveToNextStep(t)
  PROVE  GateInv'
<1>0. PICK r, i : r = task[t].run /\ i = task[t].index
  OBVIOUS
<1>1. task[t].pc \in {"continue", "continuation"}
  BY DEF MoveToNextStep, AtContinue, Holds, Wakes
<1>2. /\ TasksOK /\ StoreTypeOK /\ TaskGates(t) /\ r \in Runs /\ i \in Steps
      /\ task[t].pc \in WorkingPCs /\ GatesApproved(r, i + 1) /\ Created(r)
  BY <1>0, <1>1, AtWork, PCFacts DEF TypeInv, TypeOK, GateInv, TaskGates, SteppingPCs
<1>3. UpdateRunStatusAt(r, "running", i + 1)
  BY <1>0 DEF MoveToNextStep
<1>4. Keeps /\ Created(r)'
  <2>1. "running" \in RunStatus /\ UNCHANGED <<definition, gateDecisions, loaded>>
    BY DEF MoveToNextStep, RunStatus
  <2> QED
    BY <1>2, <1>3, <2>1, RunChangeKept
<1>5. run'[r].index = i + 1 /\ \A q \in Runs : q # r => run'[q] = run[q]
  <2>1. run[r] \in RunRow /\ run \in [Runs -> RunRow]
    BY <1>2 DEF StoreTypeOK
  <2> QED
    BY <1>2, <1>3, <2>1 DEF UpdateRunStatusAt, RunRow
<1>6. ASSUME NEW q \in Runs PROVE RunGates(q)'
  <2>1. CASE q = r
    BY <1>2, <1>4, <1>5, <2>1, GatesKept DEF RunGates, GatesApproved, Approved, StepsOf
  <2>2. CASE q # r
    <3>1. Created(q)' => Created(q) /\ run'[q].index = run[q].index
      BY <1>5, <2>2 DEF Created
    <3> QED
      BY <1>4, <3>1, GatesKept DEF GateInv, RunGates
  <2> QED
    BY <2>1, <2>2
<1>7. task' = [task EXCEPT ![t].pc = "advance"] /\ UNCHANGED toRecover
  BY DEF MoveToNextStep, Goto
<1>8. task[t] \in TaskRow /\ task \in [Coroutines -> TaskRow] /\ toRecover \subseteq Runs
  BY AtWork DEF TypeInv, TypeOK
<1>9. /\ task'[t].pc = "advance" /\ task'[t].run = r /\ task'[t].steps = task[t].steps
      /\ \A u \in Coroutines : u # t => task'[u] = task[u]
  BY <1>0, <1>7, <1>8 DEF TaskRow
<1>10. TaskGates(t)'
  <2>1. StepsOf(r)' = StepsOf(r)
    BY <1>2, <1>4, GatesKept
  <2> QED
    BY <1>0, <1>2, <1>4, <1>9, <2>1 DEF TaskGates, SteppingPCs, Created, StepsOf
<1> QED
  BY <1>4, <1>6, <1>7, <1>8, <1>9, <1>10, StepGates

LEMMA MarkAwaitingApprovalGates ==
  ASSUME TypeInv, GateInv, NEW t \in Coroutines, MarkAwaitingApproval(t)
  PROVE  GateInv'
<1>0. PICK r, i : r = task[t].run /\ i = run[r].index
  OBVIOUS
<1>1. task[t].pc \in {"advance", "execute"}
  BY DEF MarkAwaitingApproval, AtAdvance, Holds, Wakes
<1>2. /\ TasksOK /\ StoreTypeOK /\ TaskGates(t) /\ r \in Runs
      /\ task[t].pc \in WorkingPCs /\ Created(r) /\ task[t].steps = StepsOf(r)
  BY <1>0, <1>1, AtWork, PCFacts DEF TypeInv, TypeOK, GateInv, TaskGates
<1>3. Keeps /\ SameIndex
  BY NothingChangedKept DEF MarkAwaitingApproval, SameIndex, Created
<1>4. GatesApproved(r, i)
  BY <1>0, <1>2 DEF GateInv, RunGates
<1>5. task[t] \in TaskRow /\ task \in [Coroutines -> TaskRow] /\ toRecover \subseteq Runs
  BY AtWork DEF TypeInv, TypeOK
<1>6. /\ task'[t].pc \in {"pause"} /\ task'[t].run = r
      /\ task'[t].steps = task[t].steps /\ task'[t].index = i
      /\ \A u \in Coroutines : u # t => task'[u] = task[u]
  BY <1>0, <1>5 DEF MarkAwaitingApproval, TaskRow
<1>7. task'[t].pc \notin {"calling", "milestone"}
  BY <1>6
<1>8. /\ Created(r)' /\ StepsOf(r)' = StepsOf(r)
      /\ GatesApproved(r, i) => GatesApproved(r, i)'
  BY <1>2, <1>3, GatesKept DEF Keeps
<1>9. run'[r].index = i
  BY <1>0, <1>2, <1>3, <1>8 DEF SameIndex
<1>10. TaskGates(t)'
  BY <1>2, <1>4, <1>6, <1>7, <1>8, PCFacts DEF TaskGates, Created, StepsOf, GatesApproved, Approved
<1>11. UNCHANGED toRecover
  BY DEF MarkAwaitingApproval
<1> QED
  BY <1>3, <1>5, <1>6, <1>10, <1>11, StepGates, RunGatesKept

LEMMA StartTeammateStepGates ==
  ASSUME TypeInv, GateInv, NEW t \in Coroutines, StartTeammateStep(t)
  PROVE  GateInv'
<1>0. PICK r, i : r = task[t].run /\ i = run[r].index
  OBVIOUS
<1>1. task[t].pc \in {"advance", "execute"}
  BY DEF StartTeammateStep, AtAdvance, Holds, Wakes
<1>2. /\ TasksOK /\ StoreTypeOK /\ TaskGates(t) /\ r \in Runs
      /\ task[t].pc \in WorkingPCs /\ Created(r) /\ task[t].steps = StepsOf(r)
  BY <1>0, <1>1, AtWork, PCFacts DEF TypeInv, TypeOK, GateInv, TaskGates
<1>3. Keeps /\ SameIndex
  BY NothingChangedKept DEF StartTeammateStep, SameIndex, Created
<1>4. GatesApproved(r, i)
  BY <1>0, <1>2 DEF GateInv, RunGates
<1>5. task[t] \in TaskRow /\ task \in [Coroutines -> TaskRow] /\ toRecover \subseteq Runs
  BY AtWork DEF TypeInv, TypeOK
<1>6. /\ task'[t].pc \in {"calling", "raised"} /\ task'[t].run = r
      /\ task'[t].steps = task[t].steps /\ task'[t].index = i
      /\ \A u \in Coroutines : u # t => task'[u] = task[u]
  BY <1>0, <1>5 DEF StartTeammateStep, TaskRow
<1>7. ~IsGate(StepsOf(r), i)
  BY <1>0, <1>2 DEF StartTeammateStep, IsTeammate, IsGate, Teammates, Gates
<1>8. /\ Created(r)' /\ StepsOf(r)' = StepsOf(r)
      /\ GatesApproved(r, i) => GatesApproved(r, i)'
  BY <1>2, <1>3, GatesKept DEF Keeps
<1>9. run'[r].index = i
  BY <1>0, <1>2, <1>3, <1>8 DEF SameIndex
<1>10. TaskGates(t)'
  BY <1>2, <1>4, <1>6, <1>7, <1>8, PCFacts DEF TaskGates, Created, StepsOf, GatesApproved, Approved
<1>11. UNCHANGED toRecover
  BY DEF StartTeammateStep
<1> QED
  BY <1>3, <1>5, <1>6, <1>10, <1>11, StepGates, RunGatesKept

LEMMA CreatingGates ==
  ASSUME TypeInv, GateInv, NEW t \in Coroutines, CreateNextRecord(t) \/ SetGoalAndSpawn(t)
  PROVE  GateInv'
<1>0. PICK r : r = task[t].run
  OBVIOUS
<1>1. task[t].pc = "create_records"
  BY DEF CreateNextRecord, SetGoalAndSpawn, Holds
<1>2. /\ TaskGates(t) /\ r \in Runs /\ task[t].pc \in WorkingPCs
      /\ task[t] \in TaskRow /\ task \in [Coroutines -> TaskRow] /\ toRecover \subseteq Runs
  BY <1>0, <1>1, AtWork, PCFacts DEF TypeInv, TypeOK, GateInv
<1>3. Keeps /\ SameIndex
  BY NothingChangedKept DEF CreateNextRecord, SetGoalAndSpawn, SameIndex, Created
<1>4. /\ task'[t].pc \in {"create_records", "execute"} /\ task'[t].run = r
      /\ task'[t].steps = task[t].steps
      /\ \A u \in Coroutines : u # t => task'[u] = task[u]
  BY <1>0, <1>1, <1>2 DEF CreateNextRecord, SetGoalAndSpawn, TaskRow
<1>5. Created(r) /\ task[t].steps = StepsOf(r)
  BY <1>0, <1>2 DEF TaskGates
<1>6. Created(r)' /\ StepsOf(r)' = StepsOf(r)
  BY <1>2, <1>3, <1>5, GatesKept DEF Keeps
<1>7. TaskGates(t)'
  BY <1>4, <1>5, <1>6 DEF TaskGates, SteppingPCs, Created, StepsOf
<1>8. UNCHANGED toRecover
  BY DEF CreateNextRecord, SetGoalAndSpawn
<1> QED
  BY <1>2, <1>3, <1>4, <1>7, <1>8, StepGates, RunGatesKept

LEMMA CreateRunGates ==
  ASSUME TypeInv, GateInv, NEW t \in Tasks, NEW p \in Playbooks, NEW r \in Runs,
         CreateRun(t, p, r)
  PROVE  GateInv'
<1>1. /\ StoreTypeOK /\ t \in Coroutines /\ task \in [Coroutines -> TaskRow]
      /\ toRecover \subseteq Runs /\ ~Created(r)
  BY ConstantFacts DEF TypeInv, TypeOK, CreateRun, Created
<1>2. Keeps /\ Created(r)'
  <2>1. /\ UNCHANGED <<definition, gateDecisions, loaded>>
        /\ \E q : CreateRunRow(r, q)
        /\ "running" \in RunStatus
    BY DEF CreateRun, RunStatus
  <2> QED
    BY <1>1, <2>1, RunChangeKept
<1>3. /\ run'[r].index = 0 /\ run'[r].playbook = p
      /\ \A q \in Runs : q # r => run'[q] = run[q]
  BY <1>1 DEF CreateRun, CreateRunRow, StoreTypeOK
<1>4. ASSUME NEW q \in Runs PROVE RunGates(q)'
  <2>1. CASE q = r
    BY <1>3, <2>1 DEF RunGates, GatesApproved, Steps
  <2>2. CASE q # r
    <3>1. Created(q)' => Created(q) /\ run'[q].index = run[q].index
      BY <1>3, <2>2 DEF Created
    <3> QED
      BY <1>2, <3>1, GatesKept DEF GateInv, RunGates
  <2> QED
    BY <2>1, <2>2
<1>5. /\ task'[t].pc = "create_records" /\ task'[t].run = r
      /\ task'[t].steps = definition[p]
      /\ \A u \in Coroutines : u # t => task'[u] = task[u]
  BY <1>1 DEF CreateRun, Coroutine
<1>6. TaskGates(t)'
  BY <1>2, <1>3, <1>5 DEF TaskGates, SteppingPCs, Created, StepsOf, Keeps
<1> QED
  BY <1>1, <1>2, <1>4, <1>5, <1>6, StepGates DEF CreateRun

\* The only step that stores a decision: it is the decision the task carries.
LEMMA AcceptDecisionGates ==
  ASSUME TypeInv, GateInv, NEW t \in Tasks, NEW r \in Runs, NEW i \in Steps,
         NEW d \in Submissions, AcceptDecision(t, r, i, d)
  PROVE  GateInv'
<1>1. /\ StoreTypeOK /\ t \in Coroutines /\ task \in [Coroutines -> TaskRow]
      /\ toRecover \subseteq Runs /\ d \in DecisionRow
  BY ConstantFacts, EngineAssumption DEF TypeInv, TypeOK, EngineAssumption
<1>2. /\ run[r].index = i /\ Created(r)
      /\ RecordGateDecision(r, i, d)
      /\ UNCHANGED <<definition, run, loaded, toRecover>>
  BY DEF AcceptDecision, Acceptable, Created
<1>3. Keeps /\ SameIndex
  <2>1. \A q \in Runs, j \in Steps : Approved(q, j) => Approved(q, j)'
    BY <1>1, <1>2, DecisionKept
  <2> QED
    BY <1>2, <2>1 DEF Keeps, SameIndex, Created
<1>4. d.decision # "reject" => Approved(r, i)'
  BY <1>1, <1>2, DecisionKept
<1>5. GatesApproved(r, i)' /\ Created(r)' /\ StepsOf(r)' = StepsOf(r)
  BY <1>2, <1>3, GatesKept DEF GateInv, RunGates, Keeps
<1>6. /\ task'[t].pc = "decided" /\ task'[t].run = r /\ task'[t].index = i
      /\ task'[t].steps = StepsOf(r) /\ task'[t].decision = d
      /\ \A u \in Coroutines : u # t => task'[u] = task[u]
  BY <1>1, <1>2 DEF AcceptDecision, Coroutine, StepsOf
<1>7. TaskGates(t)'
  BY <1>4, <1>5, <1>6 DEF TaskGates, Created, StepsOf, GatesApproved, Approved
<1> QED
  BY <1>1, <1>2, <1>3, <1>6, <1>7, StepGates, RunGatesKept

LEMMA RecoverRunGates ==
  ASSUME TypeInv, GateInv, NEW r \in Runs, RecoverRun(r)
  PROVE  GateInv'
<1>1. /\ Recovery \in Coroutines /\ task \in [Coroutines -> TaskRow]
      /\ toRecover \subseteq Runs /\ Created(r) /\ loaded = definition
      /\ toRecover' \subseteq toRecover
  BY ConstantFacts DEF TypeInv, TypeOK, GateInv, RecoverRun, IsFirst
<1>2. Keeps /\ SameIndex
  BY NothingChangedKept DEF RecoverRun, SameIndex, Created
<1>3. /\ task'[Recovery].pc = "advance" /\ task'[Recovery].run = r
      /\ task'[Recovery].steps = StepsOf(r)
      /\ \A u \in Coroutines : u # Recovery => task'[u] = task[u]
  BY <1>1 DEF RecoverRun, Coroutine, StepsOf
<1>4. Created(r)' /\ StepsOf(r)' = StepsOf(r)
  BY <1>1, <1>2, GatesKept DEF Keeps
<1>5. TaskGates(Recovery)'
  BY <1>3, <1>4 DEF TaskGates, SteppingPCs, Created, StepsOf
<1> QED
  BY <1>1, <1>2, <1>3, <1>5, StepGates, RunGatesKept

LEMMA RecoveryStopsGates ==
  ASSUME TypeInv, GateInv, RecoveryDies \/ RecoveryEnds
  PROVE  GateInv'
<1>1. /\ Recovery \in Coroutines /\ task \in [Coroutines -> TaskRow]
      /\ toRecover \subseteq Runs /\ toRecover' \subseteq toRecover
      /\ task' = [task EXCEPT ![Recovery] = FreeTask]
  BY ConstantFacts DEF TypeInv, TypeOK, RecoveryDies, RecoveryEnds
<1>2. Keeps /\ SameIndex
  BY NothingChangedKept DEF RecoveryDies, RecoveryEnds, storeVars, SameIndex, Created
<1>3. /\ task'[Recovery].pc = "free"
      /\ \A u \in Coroutines : u # Recovery => task'[u] = task[u]
  BY <1>1 DEF FreeTask, Coroutine
<1>4. TaskGates(Recovery)'
  BY <1>3, PCFacts DEF TaskGates
<1> QED
  BY <1>1, <1>2, <1>3, <1>4, StepGates, RunGatesKept

LEMMA ShowGateGates ==
  ASSUME TypeInv, GateInv, NEW r \in Runs, ShowGate(r)
  PROVE  GateInv'
<1>1. UNCHANGED <<storeVars, task, loaded, toRecover>>
  BY DEF ShowGate
<1>2. Keeps /\ SameIndex
  BY <1>1, NothingChangedKept DEF storeVars, SameIndex, Created
<1>3. /\ \A t \in Coroutines : TaskGates(t)'
      /\ \A q \in Runs : RunGates(q)'
  BY <1>1, <1>2, TaskGatesKept, RunGatesKept
<1> QED
  BY <1>1, <1>2, <1>3 DEF GateInv, Keeps, TypeInv, TypeOK, storeVars, Created

\* The process starts again with the definitions it had: the templates are already
\* in the store.
LEMMA ProcessGates ==
  ASSUME TypeInv, GateInv, Crash \/ Restart
  PROVE  GateInv'
<1>1. /\ definition' = definition /\ loaded' = loaded
      /\ UNCHANGED <<run, gateDecisions>>
  BY DEF Crash, Restart, storeVars, GateInv
<1>2. Keeps /\ SameIndex
  BY <1>1, NothingChangedKept DEF SameIndex, Created
<1>3. \A q \in Runs : RunGates(q)'
  BY <1>2, RunGatesKept
<1>4. \A q \in toRecover' : Created(q)'
  BY <1>1 DEF Crash, Restart, RunsByStatus, Created
<1>5. \A t \in Coroutines : TaskGates(t)'
  <2>1. CASE Crash
    BY <2>1, PCFacts DEF Crash, TaskGates, FreeTask, Coroutine
  <2>2. CASE Restart
    <3>1. task \in [Coroutines -> TaskRow] /\ Recovery \in Coroutines
      BY ConstantFacts DEF TypeInv, TypeOK
    <3>2. /\ task'[Recovery].pc = "recover"
          /\ \A u \in Coroutines : u # Recovery => task'[u] = task[u]
      BY <2>2, <3>1 DEF Restart, TaskRow
    <3> QED
      BY <1>2, <3>2, TaskGatesKept, PCFacts DEF TaskGates
  <2> QED
    BY <2>1, <2>2
<1> QED
  BY <1>1, <1>3, <1>4, <1>5 DEF GateInv

LEMMA NextGateInv ==
  ASSUME PutDefinitions = {}, TypeInv, GateInv, [Next]_vars
  PROVE  GateInv'
<1>1. ASSUME NEW t \in Coroutines, Step(t) PROVE GateInv'
  BY <1>1, CreatingGates, StartTeammateStepGates, MarkAwaitingApprovalGates,
     PauseRunGates, AdvanceRaisesGates, BackstopFailsRunGates, ModelAnswersGates,
     StoreMilestoneGates, ModelCallFailsGates, FailRunGates, CompleteRunGates,
     MoveToNextStepGates, RejectRecordGates, RejectRunGates, ApproveRecordGates,
     PropagateEditGates
  DEF Step
<1>2. CASE Recover
  BY <1>2, RecoverRunGates, RecoveryStopsGates DEF Recover
<1>3. CASE UNCHANGED vars
  BY <1>3 DEF vars, storeVars, engineVars, GateInv, RunGates, TaskGates,
     GatesApproved, Approved, StepsOf, Created
<1> QED
  BY <1>1, <1>2, <1>3, CreateRunGates, AcceptDecisionGates, ShowGateGates, ProcessGates
  DEF Next

\* As long as no client replaces a stored playbook, no run ever gets past an approval
\* gate, and no teammate behind one is ever put to work, without a stored decision
\* approving that gate: for any number of runs, requests, duplicated or late
\* decisions, crashes and restarts.
THEOREM GateSafety == PutDefinitions = {} => (Spec => []NoGateBypass)
<1> SUFFICES ASSUME PutDefinitions = {} PROVE Spec => []NoGateBypass
  OBVIOUS
<1>1. Init => TypeInv /\ GateInv
  BY InitTypeInv, InitGateInv
<1>2. TypeInv /\ GateInv /\ [Next]_vars => TypeInv' /\ GateInv'
  BY NextTypeInv, NextGateInv
<1>3. TypeInv /\ GateInv => NoGateBypass
  BY GateInvImplies
<1> QED
  BY <1>1, <1>2, <1>3, PTL DEF Spec
=============================================================================
