------------------------- MODULE PlaybookDriverProofs -------------------------
(***************************************************************************)
(* Who may act on a run, and what follows: proofs about PlaybookEngine for *)
(* every set of runs, tasks, playbooks and definitions and every bound,    *)
(* also while playbooks are replaced; at the end, that it implements       *)
(* ReviewedRuns while they are not.                                        *)
(***************************************************************************)
EXTENDS EngineRefinement, PlaybookEngineProofs, FiniteSetTheorems

DecidedPCs == {"decided", "reject", "propagate", "continuation"}
RunningPCs == WorkingPCs \ DecidedPCs

\* A coroutine at work owns its run: the row says so, its step is the run's, and
\* between an accepted decision and the spawned continuation it keeps the loop.
Owns(t) ==
  LET r == task[t].run
  IN  /\ task[t].pc \in {"free", "recover"} => r = NoRun
      /\ task[t].pc \in WorkingPCs =>
           /\ up /\ r \notin toRecover
           /\ run[r].status = IF task[t].pc \in DecidedPCs THEN "paused" ELSE "running"
           /\ task[t].pc \in SteppingPCs => task[t].index = run[r].index
           /\ task[t].pc \in DecidedPCs =>
                t \in Tasks /\ (task[t].pc # "continuation" => active = t)

Alone(t) ==
  \A u \in Coroutines :
    /\ task[t].pc \in WorkingPCs /\ task[u].pc \in WorkingPCs
    /\ task[t].run = task[u].run
    => t = u

OwnInv ==
  /\ \A t \in Coroutines : Owns(t) /\ Alone(t)
  /\ \A r \in toRecover : run[r].status = "running"
  /\ \A r \in Runs : run[r].status = "absent" => run[r].index = 0
  /\ ~up => task = [t \in Coroutines |-> FreeTask]

------------------------------------------------------------------------------
(***************************************************************************)
(* What a step of a coroutine does to tasks and runs.                      *)
(***************************************************************************)
\* Everything but the coroutine and its run stays as it is.
Others(t) ==
  /\ \A u \in Coroutines : u # t => task'[u] = task[u]
  /\ \A q \in Runs : q # task[t].run => run'[q] = run[q]
  /\ UNCHANGED <<definition, up, toRecover, gateDecisions, crashes, shown>>

\* t goes on working on its run, whose row stays as it is.
Works(t) ==
  LET r == task[t].run
  IN  /\ run' = run /\ task'[t].run = r
      /\ \/ /\ task[t].pc \in RunningPCs /\ task'[t].pc \in RunningPCs
            /\ task'[t].pc \in SteppingPCs =>
                 \/ task'[t].index = run[r].index
                 \/ task[t].pc \in SteppingPCs /\ task'[t].index = task[t].index
         \/ /\ task[t].pc \in DecidedPCs /\ task'[t].pc \in DecidedPCs
            /\ task'[t].index = task[t].index
            /\ task'[t].pc # "continuation" => active' = t

\* t takes its run to the next step.
Advances(t) ==
  LET r == task[t].run
  IN  /\ task[t].pc \in {"continue", "continuation"}
      /\ task'[t].pc = "advance" /\ task'[t].run = r
      /\ run'[r].status = "running" /\ run'[r].index = task[t].index + 1

\* t pauses its run or ends it, and is done with it.
Leaves(t) ==
  LET r == task[t].run
  IN  /\ task'[t].pc \in {"free", "recover"} /\ task'[t].run = NoRun
      /\ run'[r].status \in TerminalStatus \cup {"paused"}
      /\ run'[r].status = "paused" => task[t].pc \in RunningPCs
      /\ \/ run'[r].index = run[r].index
         \/ /\ task[t].pc \in {"continue", "continuation"}
            /\ run'[r].index = task[t].index + 1

LEMMA PCClasses ==
  /\ RunningPCs = {"create_records", "execute", "advance", "pause", "calling",
                   "milestone", "fail", "raised", "continue"}
  /\ DecidedPCs \subseteq SteppingPCs /\ SteppingPCs \subseteq WorkingPCs
  /\ "free" \notin WorkingPCs /\ "recover" \notin WorkingPCs
  /\ FreeTask.pc = "free" /\ FreeTask.run = NoRun
  /\ IdleRecovery.pc = "recover" /\ IdleRecovery.run = NoRun
  /\ FreeTask.index = 0
  /\ Idle \notin Coroutines
  BY PCFacts, EngineAssumption
  DEF RunningPCs, DecidedPCs, SteppingPCs, WorkingPCs, PCs, FreeTask, IdleRecovery,
      Coroutine, Coroutines, EngineAssumption

LEMMA MovedTask ==
  ASSUME TasksOK, NEW t \in Coroutines, NEW pc, task' = [task EXCEPT ![t].pc = pc]
  PROVE  /\ task'[t].pc = pc
         /\ task'[t].run = task[t].run /\ task'[t].index = task[t].index
         /\ task'[t].steps = task[t].steps
         /\ \A u \in Coroutines : u # t => task'[u] = task[u]
<1>1. task[t] \in TaskRow
  BY DEF TasksOK
<1> QED
  BY <1>1 DEF TasksOK, TaskRow

LEMMA MovedTaskTo ==
  ASSUME TasksOK, NEW t \in Coroutines, NEW pc, NEW i,
         task' = [task EXCEPT ![t].pc = pc, ![t].index = i]
  PROVE  /\ task'[t].pc = pc /\ task'[t].index = i
         /\ task'[t].run = task[t].run /\ task'[t].steps = task[t].steps
         /\ \A u \in Coroutines : u # t => task'[u] = task[u]
<1>1. task[t] \in TaskRow
  BY DEF TasksOK
<1> QED
  BY <1>1 DEF TasksOK, TaskRow

LEMMA FinishedTask ==
  ASSUME TasksOK, NEW t \in Coroutines, Finish(t)
  PROVE  /\ task'[t].pc \in {"free", "recover"} /\ task'[t].run = NoRun
         /\ \A u \in Coroutines : u # t => task'[u] = task[u]
  BY PCClasses DEF TasksOK, Finish, IdleRecovery

LEMMA UpdatedRun ==
  ASSUME StoreTypeOK, NEW r \in Runs, NEW s, NEW i
  PROVE  /\ UpdateRunStatus(r, s) =>
              /\ run'[r].status = s /\ run'[r].index = run[r].index
              /\ \A q \in Runs : q # r => run'[q] = run[q]
         /\ UpdateRunStatusAt(r, s, i) =>
              /\ run'[r].status = s /\ run'[r].index = i
              /\ \A q \in Runs : q # r => run'[q] = run[q]
<1>1. run[r] \in RunRow
  BY DEF StoreTypeOK
<1> QED
  BY <1>1 DEF StoreTypeOK, RunRow, UpdateRunStatus, UpdateRunStatusAt

\* A step that only moves the coroutine.
LEMMA MoveEffect ==
  ASSUME TypeInv, NEW t \in Coroutines, NEW pc,
         task' = [task EXCEPT ![t].pc = pc],
         UNCHANGED <<definition, run, up, toRecover, gateDecisions, crashes, shown>>,
         \/ /\ task[t].pc \in RunningPCs /\ pc \in RunningPCs
            /\ pc \in SteppingPCs => task[t].pc \in SteppingPCs
         \/ /\ task[t].pc \in DecidedPCs /\ pc \in DecidedPCs
            /\ pc # "continuation" => active' = t
  PROVE  Others(t) /\ Works(t)
<1>1. /\ task'[t].pc = pc /\ task'[t].run = task[t].run /\ task'[t].index = task[t].index
      /\ \A u \in Coroutines : u # t => task'[u] = task[u]
  BY MovedTask DEF TypeInv
<1>2. Others(t)
  BY <1>1 DEF Others
<1> QED
  BY <1>1, <1>2 DEF Works

\* A step that starts on the run's current step.
LEMMA StartEffect ==
  ASSUME TypeInv, NEW t \in Coroutines, AtAdvance(t),
         NEW pc \in {"calling", "raised", "pause"},
         task'[t].pc = pc, task'[t].index = run[task[t].run].index,
         task'[t].run = task[t].run,
         \A u \in Coroutines : u # t => task'[u] = task[u],
         UNCHANGED <<definition, run, up, toRecover, gateDecisions, crashes, shown>>
  PROVE  Others(t) /\ Works(t)
<1>1. task[t].pc \in RunningPCs /\ pc \in RunningPCs
  BY PCClasses DEF AtAdvance, Holds, Wakes
<1> QED
  BY <1>1 DEF Others, Works

\* A step that ends or pauses the run.
LEMMA LeaveEffect ==
  ASSUME TypeInv, NEW t \in Coroutines, Finish(t), task[t].pc \in WorkingPCs,
         NEW s \in TerminalStatus \cup {"paused"},
         s = "paused" => task[t].pc \in RunningPCs,
         \/ UpdateRunStatus(task[t].run, s)
         \/ /\ task[t].pc \in {"continue", "continuation"}
            /\ UpdateRunStatusAt(task[t].run, s, task[t].index + 1),
         UNCHANGED <<definition, up, toRecover, gateDecisions, crashes, shown>>
  PROVE  Others(t) /\ Leaves(t)
<1>1. task[t].run \in Runs /\ StoreTypeOK /\ TasksOK
  BY AtWork DEF TypeInv, TypeOK
<1>2. /\ task'[t].pc \in {"free", "recover"} /\ task'[t].run = NoRun
      /\ \A u \in Coroutines : u # t => task'[u] = task[u]
  BY <1>1, FinishedTask
<1> DEFINE r == task[t].run
<1>3. /\ run'[r].status = s
      /\ \/ run'[r].index = run[r].index
         \/ /\ task[t].pc \in {"continue", "continuation"}
            /\ run'[r].index = task[t].index + 1
      /\ \A q \in Runs : q # r => run'[q] = run[q]
  <2>1. CASE UpdateRunStatus(r, s)
    BY <1>1, <2>1, UpdatedRun
  <2>2. CASE /\ task[t].pc \in {"continue", "continuation"}
             /\ UpdateRunStatusAt(r, s, task[t].index + 1)
    BY <1>1, <2>2, UpdatedRun
  <2> QED
    BY <2>1, <2>2
<1> QED
  BY <1>2, <1>3 DEF Others, Leaves

LEMMA StepEffect ==
  ASSUME TypeInv, NEW t \in Coroutines, Step(t)
  PROVE  /\ task[t].pc \in WorkingPCs /\ up /\ active \in {t, Idle}
         /\ Others(t)
         /\ Works(t) \/ Advances(t) \/ Leaves(t)
<1>0. TasksOK /\ StoreTypeOK /\ task[t] \in TaskRow /\ t \in DOMAIN task
  BY DEF TypeInv, TypeOK, TasksOK
<1>1. task[t].pc \in WorkingPCs /\ up /\ active \in {t, Idle}
  BY PCClasses, PCFacts
  DEF Step, CreateNextRecord, SetGoalAndSpawn, StartTeammateStep, MarkAwaitingApproval,
      PauseRun, AdvanceRaises, BackstopFailsRun, ModelAnswers, StoreMilestone,
      ModelCallFails, FailRun, CompleteRun, MoveToNextStep, RejectRecord, RejectRun,
      ApproveRecord, PropagateEdit, AtAdvance, AtContinue, Holds, Wakes
<1>2. CASE CreateNextRecord(t)
  <2>1. task' = [task EXCEPT ![t] = [task[t] EXCEPT !.index = task[t].index + 1]]
    BY <1>2 DEF CreateNextRecord
  <2>2. /\ task'[t].pc = "create_records" /\ task'[t].run = task[t].run
        /\ \A u \in Coroutines : u # t => task'[u] = task[u]
    BY <1>0, <1>2, <2>1 DEF CreateNextRecord, Holds, TaskRow
  <2> QED
    BY <1>1, <1>2, <2>2, PCClasses
    DEF CreateNextRecord, Others, Works, SteppingPCs, Holds
<1>3. CASE SetGoalAndSpawn(t)
  <2>1. task' = [task EXCEPT ![t].pc = "execute", ![t].index = 0]
    BY <1>3 DEF SetGoalAndSpawn
  <2>2. /\ task'[t].pc = "execute" /\ task'[t].run = task[t].run
        /\ \A u \in Coroutines : u # t => task'[u] = task[u]
    BY <1>0, <2>1, MovedTaskTo
  <2>3. /\ task[t].pc = "create_records"
        /\ UNCHANGED <<definition, run, up, toRecover, gateDecisions, crashes, shown>>
    BY <1>3 DEF SetGoalAndSpawn, Holds
  <2>4. "execute" \in RunningPCs \ SteppingPCs /\ "create_records" \in RunningPCs
    BY PCClasses DEF SteppingPCs
  <2> QED
    BY <1>1, <2>2, <2>3, <2>4 DEF Others, Works
<1>4. CASE StartTeammateStep(t)
  <2> DEFINE i == run[task[t].run].index
             Row(pc, prompt) ==
               [task[t] EXCEPT !.pc = pc, !.index = i, !.prompt = prompt]
  <2>1. PICK pc \in {"calling", "raised"} :
          \E prompt : task' = [task EXCEPT ![t] = Row(pc, prompt)]
    BY <1>4 DEF StartTeammateStep
  <2>2. /\ task'[t].pc = pc /\ task'[t].index = run[task[t].run].index
        /\ task'[t].run = task[t].run
        /\ \A u \in Coroutines : u # t => task'[u] = task[u]
    <3>1. PICK prompt : task' = [task EXCEPT ![t] = Row(pc, prompt)]
      BY <2>1
    <3>2. /\ Row(pc, prompt).pc = pc /\ Row(pc, prompt).index = i
          /\ Row(pc, prompt).run = task[t].run
      BY <1>0 DEF TaskRow
    <3> HIDE DEF Row
    <3> QED
      BY <1>0, <3>1, <3>2
  <2>3. /\ AtAdvance(t)
        /\ UNCHANGED <<definition, run, up, toRecover, gateDecisions, crashes, shown>>
    BY <1>4 DEF StartTeammateStep
  <2> QED
    BY <1>1, <2>2, <2>3, StartEffect
<1>5. CASE MarkAwaitingApproval(t)
  <2> DEFINE i == run[task[t].run].index
             row == [task[t] EXCEPT !.pc = "pause", !.index = i]
  <2>1. task' = [task EXCEPT ![t] = row]
    BY <1>0, <1>5 DEF MarkAwaitingApproval
  <2>2. /\ task'[t].pc = "pause" /\ task'[t].index = i
        /\ task'[t].run = task[t].run
        /\ \A u \in Coroutines : u # t => task'[u] = task[u]
    <3>1. row.pc = "pause" /\ row.index = i /\ row.run = task[t].run
      BY <1>0 DEF TaskRow
    <3> HIDE DEF row
    <3> QED
      BY <1>0, <2>1, <3>1
  <2>3. /\ AtAdvance(t)
        /\ UNCHANGED <<definition, run, up, toRecover, gateDecisions, crashes, shown>>
    BY <1>5 DEF MarkAwaitingApproval
  <2> QED
    BY <1>1, <2>2, <2>3, StartEffect
<1>6. CASE AdvanceRaises(t) \/ ModelAnswers(t) \/ StoreMilestone(t) \/ ModelCallFails(t)
  BY <1>1, <1>6, MoveEffect, PCClasses
  DEF AdvanceRaises, ModelAnswers, StoreMilestone, ModelCallFails, Goto, SteppingPCs,
      AtAdvance, Holds, Wakes, storeVars
<1>7. CASE RejectRecord(t) \/ ApproveRecord(t) \/ PropagateEdit(t)
  BY <1>1, <1>7, MoveEffect
  DEF RejectRecord, ApproveRecord, PropagateEdit, Goto, Suspend, DecidedPCs, Holds
<1>8. CASE PauseRun(t) \/ FailRun(t) \/ BackstopFailsRun(t) \/ RejectRun(t)
  BY <1>1, <1>8, LeaveEffect, PCClasses
  DEF PauseRun, FailRun, BackstopFailsRun, RejectRun, TerminalStatus, Holds
<1>9. CASE CompleteRun(t)
  BY <1>1, <1>9, LeaveEffect
  DEF CompleteRun, TerminalStatus, AtContinue, Holds, Wakes
<1>10. CASE MoveToNextStep(t)
  <2>1. task' = [task EXCEPT ![t].pc = "advance"]
    BY <1>10 DEF MoveToNextStep, Goto
  <2>2. /\ task'[t].pc = "advance" /\ task'[t].run = task[t].run
        /\ \A u \in Coroutines : u # t => task'[u] = task[u]
    BY <1>0, <2>1, MovedTask
  <2>3. /\ task[t].run \in Runs
        /\ UpdateRunStatusAt(task[t].run, "running", task[t].index + 1)
    BY <1>0, <1>1, <1>10, AtWork DEF MoveToNextStep
  <2>4. Others(t)
    BY <1>0, <1>10, <2>2, <2>3, UpdatedRun DEF MoveToNextStep, Others
  <2>5. Advances(t)
    BY <1>0, <1>10, <2>2, <2>3, UpdatedRun
    DEF MoveToNextStep, Advances, AtContinue, Holds, Wakes
  <2> QED
    BY <1>1, <2>4, <2>5
<1> QED
  BY <1>2, <1>3, <1>4, <1>5, <1>6, <1>7, <1>8, <1>9, <1>10 DEF Step

------------------------------------------------------------------------------
(***************************************************************************)
(* Every step keeps ownership.                                             *)
(***************************************************************************)
LEMMA InitOwnInv == Init => OwnInv
<1> SUFFICES ASSUME Init PROVE OwnInv
  OBVIOUS
<1>1. \A t \in Coroutines : task[t].pc = "free" /\ task[t].run = NoRun
  BY PCClasses DEF Init
<1>2. toRecover = {} /\ up /\ \A r \in Runs : run[r].index = 0
  BY DEF Init, StoreInit, AbsentRun
<1> QED
  BY <1>1, <1>2, PCClasses DEF OwnInv, Owns, Alone

\* What t does to its own run disturbs nobody else's.
LEMMA OthersOwn ==
  ASSUME TypeInv, OwnInv, NEW t \in Coroutines, NEW r \in Runs,
         \A u \in Coroutines : u # t =>
           /\ task'[u] = task[u]
           /\ task[u].pc \in WorkingPCs => task[u].run # r,
         \A q \in Runs : q # r => run'[q] = run[q],
         run'[r].status # "absent",
         active \in {t, Idle}, up, up',
         toRecover' \subseteq toRecover, r \notin toRecover',
         Owns(t)', task'[t].pc \in WorkingPCs => task'[t].run = r
  PROVE  OwnInv'
<1>1. ASSUME NEW u \in Coroutines, u # t PROVE Owns(u)'
  <2>1. task'[u] = task[u] /\ Owns(u)
    BY <1>1 DEF OwnInv
  <2>2. CASE task[u].pc \notin WorkingPCs
    BY <2>1, <2>2 DEF Owns
  <2>3. CASE task[u].pc \in WorkingPCs
    <3>1. task[u].run \in Runs /\ task[u].run # r
      BY <1>1, <2>3, AtWork DEF TypeInv
    <3>2. run'[task[u].run] = run[task[u].run]
      BY <3>1
    <3>3. task[u].pc \in DecidedPCs => task[u].pc = "continuation"
      BY <1>1, <2>1, <2>3, PCClasses DEF Owns
    <3>4. task[u].pc \notin {"free", "recover"}
      BY <2>3, PCClasses
    <3> QED
      BY <2>1, <2>3, <3>2, <3>3, <3>4 DEF Owns
  <2> QED
    BY <2>2, <2>3
<1>2. ASSUME NEW u \in Coroutines PROVE Alone(u)'
  BY DEF OwnInv, Alone
<1>3. \A q \in toRecover' : run'[q].status = "running"
  BY DEF OwnInv, TypeInv, TypeOK
<1>4. \A q \in Runs : run'[q].status = "absent" => run'[q].index = 0
  BY DEF OwnInv
<1> QED
  BY <1>1, <1>2, <1>3, <1>4 DEF OwnInv

LEMMA StepOwn ==
  ASSUME TypeInv, OwnInv, NEW t \in Coroutines, Step(t)
  PROVE  OwnInv'
<1> DEFINE r == task[t].run
<1>1. /\ task[t].pc \in WorkingPCs /\ up /\ active \in {t, Idle}
      /\ Others(t)
      /\ Works(t) \/ Advances(t) \/ Leaves(t)
  BY StepEffect
<1>2. r \in Runs /\ Owns(t) /\ Alone(t) /\ task[t].pc \notin {"free", "recover"}
  BY <1>1, AtWork, PCClasses DEF TypeInv, OwnInv
<1>3. Owns(t)' /\ (task'[t].pc \in WorkingPCs => task'[t].run = r)
  <2>1. up' /\ toRecover' = toRecover
    BY <1>1 DEF Others
  <2>2. CASE Works(t)
    <3>1. task'[t].pc \notin {"free", "recover"}
      BY <2>2, PCClasses DEF Works
    <3>2. task'[t].pc \in SteppingPCs => task'[t].index = run[r].index
      BY <1>1, <1>2, <2>2, PCClasses DEF Works, Owns
    <3> QED
      BY <1>1, <1>2, <2>1, <2>2, <3>1, <3>2 DEF Works, Owns, RunningPCs
  <2>3. CASE Advances(t)
    BY <1>1, <1>2, <2>1, <2>3, PCClasses DEF Advances, Owns, SteppingPCs, DecidedPCs
  <2>4. CASE Leaves(t)
    BY <2>1, <2>4, PCClasses DEF Leaves, Owns
  <2> QED
    BY <1>1, <2>2, <2>3, <2>4
<1>4. run'[r].status # "absent"
  BY <1>1, <1>2 DEF Works, Advances, Leaves, Owns, TerminalStatus
<1>5. /\ \A u \in Coroutines : u # t =>
           /\ task'[u] = task[u]
           /\ task[u].pc \in WorkingPCs => task[u].run # r
      /\ \A q \in Runs : q # r => run'[q] = run[q]
      /\ up' /\ toRecover' \subseteq toRecover /\ r \notin toRecover'
  BY <1>1, <1>2 DEF Others, Alone, Owns
<1> QED
  BY <1>1, <1>2, <1>3, <1>4, <1>5, OthersOwn

LEMMA CreateRunOwn ==
  ASSUME TypeInv, OwnInv, NEW t \in Tasks, NEW p \in Playbooks, NEW r \in Runs,
         CreateRun(t, p, r)
  PROVE  OwnInv'
<1>1. /\ t \in Coroutines /\ TasksOK /\ StoreTypeOK
      /\ definition[p] \in Definitions
  BY ConstantFacts DEF TypeInv, TypeOK, StoreTypeOK
<1>2. /\ run[r].status = "absent" /\ active = Idle /\ up /\ up'
      /\ toRecover' = toRecover /\ task[t].pc = "free"
      /\ task' = [task EXCEPT ![t] = Coroutine("create_records", r, 0, definition[p])]
      /\ run' = [run EXCEPT ![r] = [playbook |-> p, status |-> "running", index |-> 0]]
  BY DEF CreateRun, CreateRunRow, Wakes
<1>3. /\ run'[r].status = "running" /\ run'[r].index = 0
      /\ \A q \in Runs : q # r => run'[q] = run[q]
  BY <1>1, <1>2 DEF StoreTypeOK
<1>4. /\ task'[t].pc = "create_records" /\ task'[t].run = r
      /\ \A u \in Coroutines : u # t => task'[u] = task[u]
  BY <1>1, <1>2 DEF TasksOK, Coroutine
<1>5. r \notin toRecover
  BY <1>2 DEF OwnInv
<1>6. \A u \in Coroutines : task[u].pc \in WorkingPCs => task[u].run # r
  BY <1>2 DEF OwnInv, Owns
<1>7. Owns(t)'
  BY <1>2, <1>3, <1>4, <1>5, PCClasses DEF Owns, SteppingPCs, DecidedPCs
<1> QED
  BY <1>1, <1>2, <1>3, <1>4, <1>5, <1>6, <1>7, OthersOwn

\* The reviewer's discipline is what keeps a second decision away from the first.
LEMMA AcceptDecisionOwn ==
  ASSUME SerialReview, TypeInv, OwnInv, NEW t \in Tasks, NEW r \in Runs,
         NEW i \in Steps, NEW d \in Submissions, AcceptDecision(t, r, i, d)
  PROVE  OwnInv'
<1> DEFINE steps == definition[run[r].playbook]
           index == run[r].index
           row == [Coroutine("decided", r, index, steps) EXCEPT !.decision = d]
<1>1. t \in Coroutines /\ TasksOK /\ StoreTypeOK
  BY ConstantFacts DEF TypeInv, TypeOK
<1>2. /\ run[r].status = "paused" /\ active = Idle /\ up /\ up'
      /\ toRecover' = toRecover /\ run' = run
      /\ ~ContinuationPending(r)
      /\ task' = [task EXCEPT ![t] = row] /\ active' = t
  BY DEF AcceptDecision, Acceptable, Wakes
<1>3. row.pc = "decided" /\ row.run = r /\ row.index = index
  BY DEF Coroutine
<1> HIDE DEF row
<1>4. /\ task'[t].pc = "decided" /\ task'[t].run = r /\ task'[t].index = index
      /\ \A u \in Coroutines : u # t => task'[u] = task[u]
  BY <1>1, <1>2, <1>3 DEF TasksOK
<1>5. r \notin toRecover
  BY <1>2 DEF OwnInv
<1>6. ASSUME NEW u \in Coroutines, task[u].pc \in WorkingPCs, task[u].run = r
      PROVE  FALSE
  <2>1. Owns(u) /\ u # Idle
    BY PCClasses DEF OwnInv
  <2>2. task[u].pc \in DecidedPCs
    BY <1>2, <1>6, <2>1 DEF Owns
  <2>3. u \in Tasks /\ task[u].pc = "continuation"
    BY <1>2, <1>6, <2>1, <2>2 DEF Owns
  <2> QED
    BY <1>2, <1>6, <2>3 DEF ContinuationPending
<1>7. Owns(t)'
  BY <1>2, <1>4, <1>5, PCClasses DEF Owns, DecidedPCs
<1> QED
  BY <1>1, <1>2, <1>4, <1>5, <1>6, <1>7, OthersOwn

LEMMA RecoverRunOwn ==
  ASSUME TypeInv, OwnInv, NEW r \in Runs, RecoverRun(r)
  PROVE  OwnInv'
<1> DEFINE row == Coroutine("advance", r, run[r].index, loaded[run[r].playbook])
<1>1. /\ Recovery \in Coroutines /\ TasksOK /\ StoreTypeOK
      /\ r \in toRecover /\ toRecover' = toRecover \ {r}
      /\ active = Recovery /\ up /\ up' /\ run' = run
      /\ task' = [task EXCEPT ![Recovery] = row]
  BY ConstantFacts DEF RecoverRun, IsFirst, Holds, TypeInv, TypeOK
<1>2. row.pc = "advance" /\ row.run = r
  BY DEF Coroutine
<1> HIDE DEF row
<1>3. /\ task'[Recovery].pc = "advance" /\ task'[Recovery].run = r
      /\ \A u \in Coroutines : u # Recovery => task'[u] = task[u]
  BY <1>1, <1>2 DEF TasksOK
<1>4. run[r].status = "running"
  BY <1>1 DEF OwnInv
<1>5. \A u \in Coroutines : task[u].pc \in WorkingPCs => task[u].run # r
  BY <1>1 DEF OwnInv, Owns
<1>6. Owns(Recovery)'
  BY <1>1, <1>3, <1>4, PCClasses DEF Owns, DecidedPCs, SteppingPCs
<1> QED
  BY <1>1, <1>3, <1>4, <1>5, <1>6, OthersOwn

LEMMA RecoveryStopsOwn ==
  ASSUME TypeInv, OwnInv, RecoveryDies \/ RecoveryEnds
  PROVE  OwnInv'
<1>1. /\ Recovery \in Coroutines /\ TasksOK
      /\ toRecover' \subseteq toRecover /\ up /\ up' /\ run' = run
      /\ active = Recovery
      /\ task' = [task EXCEPT ![Recovery] = FreeTask]
  BY ConstantFacts DEF RecoveryDies, RecoveryEnds, Holds, TypeInv, storeVars
<1>2. /\ task'[Recovery].pc = "free" /\ task'[Recovery].run = NoRun
      /\ \A u \in Coroutines : u # Recovery => task'[u] = task[u]
  BY <1>1, PCClasses DEF TasksOK
<1>3. ASSUME NEW u \in Coroutines PROVE Owns(u)' /\ Alone(u)'
  <2>1. Owns(u) /\ Alone(u) /\ Recovery \notin Tasks /\ Idle # Recovery
    BY ConstantFacts, EngineAssumption DEF OwnInv, EngineAssumption
  <2>2. Owns(u)'
    <3>1. CASE u = Recovery
      BY <1>2, <3>1, PCClasses DEF Owns
    <3>2. CASE u # Recovery
      <4>1. task[u].pc \in DecidedPCs => task[u].pc = "continuation"
        BY <1>1, <2>1, <3>2, PCClasses DEF Owns
      <4> QED
        BY <1>1, <1>2, <2>1, <3>2, <4>1 DEF Owns
    <3> QED
      BY <3>1, <3>2
  <2>3. Alone(u)'
    BY <1>2, <2>1, PCClasses DEF Alone
  <2> QED
    BY <2>2, <2>3
<1> QED
  BY <1>1, <1>3 DEF OwnInv

LEMMA EnvironmentOwn ==
  ASSUME TypeInv, OwnInv, UNCHANGED <<run, task, active, toRecover, up>>
  PROVE  OwnInv'
  BY DEF OwnInv, Owns, Alone

LEMMA ProcessOwn ==
  ASSUME TypeInv, OwnInv, Crash \/ Restart
  PROVE  OwnInv'
<1>1. CASE Crash
  <2>1. \A t \in Coroutines : task'[t].pc = "free" /\ task'[t].run = NoRun
    BY <1>1, PCClasses DEF Crash
  <2>2. toRecover' = {} /\ run' = run /\ task' = [t \in Coroutines |-> FreeTask]
    BY <1>1 DEF Crash, storeVars
  <2> QED
    BY <2>1, <2>2, PCClasses DEF OwnInv, Owns, Alone
<1>2. CASE Restart
  <2>1. /\ task = [t \in Coroutines |-> FreeTask] /\ Recovery \in Coroutines
        /\ run' = run /\ up' /\ toRecover' = RunsByStatus("running")
        /\ task' = [task EXCEPT ![Recovery].pc = "recover"]
    BY <1>2, ConstantFacts DEF Restart, OwnInv
  <2>2. /\ task'[Recovery].pc = "recover" /\ task'[Recovery].run = NoRun
        /\ \A u \in Coroutines : u # Recovery =>
             task'[u].pc = "free" /\ task'[u].run = NoRun
    BY <2>1, PCClasses DEF FreeTask, Coroutine
  <2> QED
    BY <2>1, <2>2, PCClasses DEF OwnInv, Owns, Alone, RunsByStatus
<1> QED
  BY <1>1, <1>2

LEMMA NextOwnInv ==
  ASSUME SerialReview, TypeInv, OwnInv, [Next]_vars
  PROVE  OwnInv'
<1>1. CASE \E t \in Coroutines : Step(t)
  BY <1>1, StepOwn
<1>2. CASE Recover
  BY <1>2, RecoverRunOwn, RecoveryStopsOwn DEF Recover
<1>3. ASSUME NEW r \in Runs, ShowGate(r) PROVE OwnInv'
  BY <1>3, EnvironmentOwn DEF ShowGate, storeVars
<1>4. ASSUME NEW p \in Playbooks, NEW d \in PutDefinitions, UpdatePlaybook(p, d)
      PROVE  OwnInv'
  BY <1>4, EnvironmentOwn DEF UpdatePlaybook, engineVars
<1>5. CASE UNCHANGED vars
  BY <1>5, EnvironmentOwn DEF vars, storeVars, engineVars
<1> QED
  BY <1>1, <1>2, <1>3, <1>4, <1>5, CreateRunOwn, AcceptDecisionOwn, ProcessOwn DEF Next

LEMMA DriverWorks ==
  ASSUME OwnInv, NEW t \in Coroutines, NEW r \in Runs, TypeInv, Drives(t, r)
  PROVE  task[t].pc \in WorkingPCs /\ task[t].run = r
<1>1. task[t].run # NoRun
  BY StoreAssumption DEF Drives, StoreAssumption
<1>2. task[t] \in TaskRow /\ task[t].pc \notin {"free", "recover"}
  BY <1>1 DEF OwnInv, Owns, TypeInv, TasksOK
<1> QED
  BY <1>2, PCFacts DEF Drives, TaskRow, WorkingPCs

LEMMA OwnInvImplies == TypeInv /\ OwnInv => DriversAgree
<1> SUFFICES ASSUME TypeInv, OwnInv PROVE DriversAgree
  OBVIOUS
<1>1. ASSUME NEW r \in Runs PROVE Cardinality(Drivers(r)) <= 1
  <2>1. CASE Drivers(r) = {}
    BY <2>1, FS_EmptySet
  <2>2. CASE Drivers(r) # {}
    <3>1. PICK t \in Coroutines : Drives(t, r)
      BY <2>2 DEF Drivers
    <3>2. \A u \in Drivers(r) : u = t
      BY <3>1, DriverWorks DEF Drivers, OwnInv, Alone
    <3>3. Drivers(r) = {t}
      BY <2>2, <3>2
    <3> QED
      BY <3>3, FS_Singleton
  <2> QED
    BY <2>1, <2>2
<1>2. ASSUME NEW t \in Coroutines, NEW r \in Runs, Drives(t, r)
      PROVE  run[r].status = IF task[t].pc \in DecidedPCs THEN "paused" ELSE "running"
  BY <1>2, DriverWorks DEF OwnInv, Owns
<1> QED
  BY <1>1, <1>2 DEF DriversAgree, OneDriver, StatusMatchesDriver, DecidedPCs

\* While decisions do not overlap, at most one coroutine works on a run, and the run's
\* row says which kind it is, through every crash, recovery and replaced playbook
\* (_spawn, resume_with_decision, recover_interrupted_runs).
THEOREM DriverAgreement == SerialReview => (Spec => []DriversAgree)
<1> SUFFICES ASSUME SerialReview PROVE Spec => []DriversAgree
  OBVIOUS
<1>1. Init => TypeInv /\ OwnInv
  BY InitTypeInv, InitOwnInv
<1>2. TypeInv /\ OwnInv /\ [Next]_vars => TypeInv' /\ OwnInv'
  BY NextTypeInv, NextOwnInv
<1>3. TypeInv /\ OwnInv => DriversAgree
  BY OwnInvImplies
<1> QED
  BY <1>1, <1>2, <1>3, PTL DEF Spec

------------------------------------------------------------------------------
(***************************************************************************)
(* Progress.                                                               *)
(***************************************************************************)
LEMMA StepAdvances ==
  ASSUME TypeInv, OwnInv, NEW t \in Coroutines, Step(t), NEW r \in Runs
  PROVE  /\ run'[r].index >= run[r].index
         /\ run[r].status \in TerminalStatus => run'[r] = run[r]
<1>1. /\ task[t].pc \in WorkingPCs /\ Others(t)
      /\ Works(t) \/ Advances(t) \/ Leaves(t)
  BY StepEffect
<1>2. task[t].run \in Runs /\ Owns(t)
  BY <1>1, AtWork DEF TypeInv, OwnInv
<1>3. run[r].index \in Nat
  BY ConstantFacts DEF TypeInv, TypeOK, StoreTypeOK, RunRow
<1>4. CASE r # task[t].run
  BY <1>1, <1>3, <1>4 DEF Others
<1>5. CASE r = task[t].run
  <2>1. run[r].status \notin TerminalStatus
    BY <1>1, <1>2, <1>5 DEF Owns, TerminalStatus
  <2>2. task[t].pc \in {"continue", "continuation"} => task[t].index = run[r].index
    BY <1>2, <1>5, PCClasses DEF Owns, SteppingPCs, WorkingPCs
  <2>3. run'[r].index \in {run[r].index, run[r].index + 1}
    BY <1>1, <1>5, <2>2 DEF Works, Advances, Leaves
  <2> QED
    BY <1>3, <2>1, <2>3
<1> QED
  BY <1>4, <1>5

LEMMA NextAdvances ==
  ASSUME TypeInv, OwnInv, [Next]_vars, NEW r \in Runs
  PROVE  /\ run'[r].index >= run[r].index
         /\ run[r].status \in TerminalStatus => run'[r] = run[r]
<1>0. run[r].index \in Nat /\ run \in [Runs -> RunRow]
  BY ConstantFacts DEF TypeInv, TypeOK, StoreTypeOK, RunRow
<1>1. CASE \E t \in Coroutines : Step(t)
  BY <1>1, StepAdvances
<1>2. ASSUME NEW t \in Tasks, NEW p \in Playbooks, NEW q \in Runs, CreateRun(t, p, q)
      PROVE  /\ run'[r].index >= run[r].index
             /\ run[r].status \in TerminalStatus => run'[r] = run[r]
  <2>1. /\ run[q].status = "absent"
        /\ run' = [run EXCEPT ![q] = [playbook |-> p, status |-> "running", index |-> 0]]
    BY <1>2 DEF CreateRun, CreateRunRow
  <2>2. run[q].index = 0 /\ "absent" \notin TerminalStatus
    BY <2>1 DEF OwnInv, TerminalStatus
  <2>3. CASE r = q
    BY <1>0, <2>1, <2>2, <2>3
  <2>4. CASE r # q
    BY <1>0, <2>1, <2>4
  <2> QED
    BY <2>3, <2>4
<1>3. CASE run' = run
  BY <1>0, <1>3
<1>4. ASSUME NEW t \in Tasks, NEW q \in Runs, NEW i \in Steps, NEW d \in Submissions,
             AcceptDecision(t, q, i, d)
      PROVE  run' = run
  BY <1>4 DEF AcceptDecision
<1>5. ASSUME NEW q \in Runs, ShowGate(q) \/ RecoverRun(q) PROVE run' = run
  BY <1>5 DEF ShowGate, RecoverRun, storeVars
<1>6. ASSUME NEW p \in Playbooks, NEW d \in PutDefinitions, UpdatePlaybook(p, d)
      PROVE  run' = run
  BY <1>6 DEF UpdatePlaybook
<1>7. ASSUME Crash \/ Restart \/ RecoveryDies \/ RecoveryEnds \/ UNCHANGED vars
      PROVE  run' = run
  BY <1>7 DEF Crash, Restart, RecoveryDies, RecoveryEnds, vars, storeVars
<1> QED
  BY <1>1, <1>2, <1>3, <1>4, <1>5, <1>6, <1>7 DEF Next, Recover

\* While decisions do not overlap, no run ever goes back to an earlier step and no run
\* that ended changes again: not by a late continuation, a recovery, or a playbook
\* that was replaced or shortened.
THEOREM Progress == SerialReview => (Spec => RunsOnlyAdvance)
<1> SUFFICES ASSUME SerialReview PROVE Spec => RunsOnlyAdvance
  OBVIOUS
<1> DEFINE Forward == \A r \in Runs :
             /\ run'[r].index >= run[r].index
             /\ run[r].status \in TerminalStatus => run'[r] = run[r]
<1>1. Init => TypeInv /\ OwnInv
  BY InitTypeInv, InitOwnInv
<1>2. TypeInv /\ OwnInv /\ [Next]_vars => TypeInv' /\ OwnInv'
  BY NextTypeInv, NextOwnInv
<1>3. TypeInv /\ OwnInv /\ [Next]_vars => [Forward]_vars
  BY NextAdvances
<1> QED
  BY <1>1, <1>2, <1>3, PTL DEF Spec, RunsOnlyAdvance

------------------------------------------------------------------------------
(***************************************************************************)
(* The records of a run.                                                   *)
(***************************************************************************)
DonePCs == {"milestone", "continue", "propagate", "continuation"}

\* The records of a run, and of the step its driver has completed.
FrontInv ==
  /\ Frontier
  /\ \A r \in Runs, i \in Steps : ~Created(r) => record[r][i].status = "missing"
  /\ \A t \in Coroutines :
       /\ task[t].pc \in DonePCs => record[task[t].run][task[t].index].status = "completed"
       /\ task[t].pc = "create_records" => run[task[t].run].index = 0

\* Only the record of step i of run r may have another status.
Touches(r, i) ==
  \A q \in Runs, j \in Steps : q # r \/ j # i => record'[q][j].status = record[q][j].status

\* What t does to records: it touches the step its run is at, or creates one.
TouchesOwn(t) ==
  LET r == task[t].run
  IN  /\ \A q \in Runs, j \in Steps :
           \/ q = r /\ j = run[r].index
           \/ q = r /\ task[t].pc = "create_records" /\ record'[q][j].status = "pending"
           \/ record'[q][j].status = record[q][j].status
      /\ task[t].pc \in {"continue", "continuation"} => record' = record
      /\ task'[t].pc \in DonePCs => record'[r][task'[t].index].status = "completed"
      /\ task'[t].pc = "create_records" => task[t].pc = "create_records"

LEMMA RecordRows ==
  ASSUME StoreTypeOK, NEW r \in Runs, NEW i \in Steps, NEW s, NEW out
  PROVE  /\ UpdateRecordStatus(r, i, s) => Touches(r, i) /\ record'[r][i].status = s
         /\ UpdateRecord(r, i, s, out) => Touches(r, i) /\ record'[r][i].status = s
         /\ CreateStepRecord(r, i) => Touches(r, i) /\ record'[r][i].status = "pending"
         /\ ResetStepToPending(r, i) => Touches(r, i)
<1>1. record \in [Runs -> [Steps -> RecordRow]] /\ record[r][i] \in RecordRow
  BY DEF StoreTypeOK
<1> QED
  BY <1>1 DEF RecordRow, Touches, UpdateRecordStatus, UpdateRecord,
     CreateStepRecord, ResetStepToPending

LEMMA OutputRow ==
  ASSUME StoreTypeOK, NEW r \in Runs, NEW i, NEW out, UpdateRecordOutput(r, i, out)
  PROVE  \A q \in Runs, j \in Steps : record'[q][j].status = record[q][j].status
<1>1. record \in [Runs -> [Steps -> RecordRow]]
  BY DEF StoreTypeOK
<1>2. ASSUME NEW q \in Runs, NEW j \in Steps PROVE record'[q][j].status = record[q][j].status
  <2>1. record[q][j] \in RecordRow
    BY <1>1
  <2>2. CASE q = r /\ j = i
    <3>1. record'[q][j] = [record[q][j] EXCEPT !.output = out]
      BY <1>1, <2>2 DEF UpdateRecordOutput
    <3> QED
      BY <2>1, <3>1 DEF RecordRow
  <2>3. CASE q # r \/ j # i
    <3>1. record'[q][j] = record[q][j]
      BY <1>1, <2>3 DEF UpdateRecordOutput
    <3> QED
      BY <3>1
  <2> QED
    BY <2>2, <2>3
<1> QED
  BY <1>2


\* A step that writes no status and stays, or is not yet, at a completed step.
LEMMA UntouchedOwn ==
  ASSUME TypeInv, FrontInv, NEW t \in Coroutines, task[t].pc \in WorkingPCs,
         \A q \in Runs, j \in Steps : record'[q][j].status = record[q][j].status,
         task[t].pc \in {"continue", "continuation"} => record' = record,
         \/ task'[t].pc \notin DonePCs
         \/ task[t].pc \in DonePCs /\ task'[t].index = task[t].index,
         task'[t].pc # "create_records"
  PROVE  TouchesOwn(t)
<1>1. task[t].run \in Runs /\ (task[t].pc \in DonePCs => task[t].index \in Steps)
  BY AtWork DEF TypeInv, DonePCs, SteppingPCs
<1>2. task'[t].pc \in DonePCs => record'[task[t].run][task'[t].index].status = "completed"
  <2> SUFFICES ASSUME task'[t].pc \in DonePCs
               PROVE  record'[task[t].run][task'[t].index].status = "completed"
    OBVIOUS
  <2>1. task[t].pc \in DonePCs /\ task'[t].index = task[t].index
    OBVIOUS
  <2>2. record[task[t].run][task[t].index].status = "completed"
    BY <2>1 DEF FrontInv
  <2>3. record'[task[t].run][task[t].index].status = record[task[t].run][task[t].index].status
    BY <1>1, <2>1
  <2> QED
    BY <2>1, <2>2, <2>3
<1> QED
  BY <1>2 DEF TouchesOwn

\* A step that sets the status of the step the run is at.
LEMMA TouchedOwn ==
  ASSUME TypeInv, NEW t \in Coroutines, NEW i \in Steps, i = run[task[t].run].index,
         task[t].pc \notin {"continue", "continuation"}, Touches(task[t].run, i),
         \/ task'[t].pc \notin DonePCs
         \/ task'[t].index = i /\ record'[task[t].run][i].status = "completed",
         task'[t].pc # "create_records"
  PROVE  TouchesOwn(t)
  BY DEF TouchesOwn, Touches

LEMMA StepTouches ==
  ASSUME TypeInv, OwnInv, FrontInv, NEW t \in Coroutines, Step(t)
  PROVE  TouchesOwn(t)
<1> DEFINE r == task[t].run
           i == task[t].index
<1>0. TasksOK /\ StoreTypeOK /\ task[t] \in TaskRow /\ t \in DOMAIN task
  BY DEF TypeInv, TypeOK, TasksOK
<1>1. /\ task[t].pc \in WorkingPCs /\ r \in Runs
      /\ task[t].pc \in SteppingPCs => i \in Steps /\ i = run[r].index
      /\ task[t].steps \in Definitions
  <2>1. task[t].pc \in WorkingPCs
    BY StepEffect
  <2> QED
    BY <1>0, <2>1, AtWork, PCClasses DEF OwnInv, Owns
<1>2. CASE CreateNextRecord(t)
  <2>1. /\ task[t].pc = "create_records" /\ i < Len(task[t].steps)
        /\ CreateStepRecord(r, i)
        /\ task' = [task EXCEPT ![t].index = task[t].index + 1]
    BY <1>2 DEF CreateNextRecord, Holds
  <2>2. i \in Steps
    BY <1>0, <1>1, <2>1, AtWork, DefinitionFacts, ConstantFacts DEF Steps
  <2>3. Touches(r, i) /\ record'[r][i].status = "pending"
    BY <1>0, <1>1, <2>1, <2>2, RecordRows
  <2>4. task'[t].pc = "create_records"
    BY <1>0, <2>1 DEF TaskRow
  <2> QED
    BY <2>1, <2>3, <2>4 DEF TouchesOwn, Touches, DonePCs
<1>3. CASE SetGoalAndSpawn(t) \/ AdvanceRaises(t)
  <2>1. record' = record /\ task[t].pc \notin {"continue", "continuation"}
    BY <1>3 DEF SetGoalAndSpawn, AdvanceRaises, storeVars, AtAdvance, Holds, Wakes
  <2>2. task'[t].pc \in {"execute", "raised"}
    BY <1>0, <1>3, MovedTask, MovedTaskTo DEF SetGoalAndSpawn, AdvanceRaises, Goto
  <2> QED
    BY <1>1, <2>1, <2>2, UntouchedOwn DEF DonePCs
<1>4. CASE StartTeammateStep(t)
  <2> DEFINE at == run[r].index
             Row(pc, prompt) ==
               [task[t] EXCEPT !.pc = pc, !.index = at, !.prompt = prompt]
  <2>1. /\ AtAdvance(t) /\ at < Len(task[t].steps)
        /\ UpdateRecordStatus(r, at, "running")
    BY <1>4 DEF StartTeammateStep, CanAdvance
  <2>2. PICK pc \in {"calling", "raised"} :
          \E prompt : task' = [task EXCEPT ![t] = Row(pc, prompt)]
    BY <1>4 DEF StartTeammateStep
  <2>3. task'[t].pc = pc
    <3>1. PICK prompt : task' = [task EXCEPT ![t] = Row(pc, prompt)]
      BY <2>2
    <3>2. Row(pc, prompt).pc = pc
      BY <1>0 DEF TaskRow
    <3> HIDE DEF Row
    <3> QED
      BY <1>0, <3>1, <3>2
  <2>4. at \in Steps /\ Touches(r, at)
    BY <1>0, <1>1, <2>1, RunningIndex, RecordRows
  <2> QED
    BY <1>1, <2>1, <2>3, <2>4, TouchedOwn DEF DonePCs, AtAdvance, Holds, Wakes
<1>5. CASE MarkAwaitingApproval(t)
  <2> DEFINE at == run[r].index
             row == [task[t] EXCEPT !.pc = "pause", !.index = at]
  <2>1. /\ AtAdvance(t) /\ at < Len(task[t].steps)
        /\ UpdateRecordStatus(r, at, "awaiting_approval")
        /\ task' = [task EXCEPT ![t] = row]
    BY <1>0, <1>5 DEF MarkAwaitingApproval, CanAdvance
  <2>2. task'[t].pc = "pause"
    <3>1. row.pc = "pause"
      BY <1>0 DEF TaskRow
    <3> HIDE DEF row
    <3> QED
      BY <1>0, <2>1, <3>1
  <2>3. at \in Steps /\ Touches(r, at)
    BY <1>0, <1>1, <2>1, RunningIndex, RecordRows
  <2> QED
    BY <1>1, <2>1, <2>2, <2>3, TouchedOwn DEF DonePCs, AtAdvance, Holds, Wakes
<1>6. CASE PauseRun(t) \/ FailRun(t) \/ BackstopFailsRun(t) \/ RejectRun(t) \/ CompleteRun(t)
  <2>1. record' = record /\ Finish(t)
    BY <1>6 DEF PauseRun, FailRun, BackstopFailsRun, RejectRun, CompleteRun
  <2>2. task'[t].pc \in {"free", "recover"}
    BY <1>0, <2>1, FinishedTask
  <2> QED
    BY <1>1, <2>1, <2>2, UntouchedOwn DEF DonePCs
<1>7. CASE MoveToNextStep(t)
  <2>1. record' = record /\ task' = [task EXCEPT ![t].pc = "advance"]
    BY <1>7 DEF MoveToNextStep, Goto
  <2>2. task'[t].pc = "advance"
    BY <1>0, <2>1, MovedTask
  <2> QED
    BY <1>1, <2>1, <2>2, UntouchedOwn DEF DonePCs
<1>8. CASE StoreMilestone(t) \/ PropagateEdit(t)
  <2>1. /\ task[t].pc \in {"milestone", "propagate"}
        /\ task' = [task EXCEPT ![t].pc = "continue"]
           \/ task' = [task EXCEPT ![t].pc = "continuation"]
    BY <1>8 DEF StoreMilestone, PropagateEdit, Goto, Suspend, Holds
  <2>2. task'[t].index = i /\ task'[t].pc \in {"continue", "continuation"}
    BY <1>0, <2>1, MovedTask
  <2>3. \A q \in Runs, j \in Steps : record'[q][j].status = record[q][j].status
    <3>1. CASE StoreMilestone(t)
      BY <3>1 DEF StoreMilestone
    <3>2. CASE PropagateEdit(t)
      BY <1>0, <1>1, <3>2, OutputRow DEF PropagateEdit
    <3> QED
      BY <1>8, <3>1, <3>2
  <2> QED
    BY <1>1, <2>1, <2>2, <2>3, UntouchedOwn DEF DonePCs
<1>9. CASE ModelAnswers(t) \/ ModelCallFails(t) \/ RejectRecord(t) \/ ApproveRecord(t)
  <2>1. task[t].pc \in {"calling", "decided"}
    BY <1>9 DEF ModelAnswers, ModelCallFails, RejectRecord, ApproveRecord, Holds, Wakes
  <2>2. PICK pc \in {"milestone", "fail", "reject", "propagate", "continuation"} :
          /\ task' = [task EXCEPT ![t].pc = pc]
          /\ pc \in DonePCs => ModelAnswers(t) \/ ApproveRecord(t)
    <3>1. CASE ModelAnswers(t) \/ ModelCallFails(t) \/ RejectRecord(t)
      BY <3>1 DEF ModelAnswers, ModelCallFails, RejectRecord, Goto, DonePCs
    <3>2. CASE ApproveRecord(t)
      BY <3>2 DEF ApproveRecord, Goto, Suspend
    <3> QED
      BY <1>9, <3>1, <3>2
  <2>3. task'[t].pc = pc /\ task'[t].index = i
    BY <1>0, <2>2, MovedTask
  <2>4. i \in Steps /\ i = run[r].index
    BY <1>1, <2>1 DEF SteppingPCs
  <2>5. CASE ModelAnswers(t) \/ ApproveRecord(t)
    <3>1. \/ UpdateRecordStatus(r, i, "completed")
          \/ \E out : UpdateRecord(r, i, "completed", out)
      BY <2>5 DEF ModelAnswers, ApproveRecord
    <3>2. Touches(r, i) /\ record'[r][i].status = "completed"
      BY <1>0, <1>1, <2>4, <3>1, RecordRows
    <3> QED
      BY <1>1, <2>1, <2>3, <2>4, <3>2, TouchedOwn
  <2>6. CASE ModelCallFails(t) \/ RejectRecord(t)
    <3>1. \/ UpdateRecordStatus(r, i, "rejected")
          \/ UpdateRecord(r, i, "failed", "error")
      BY <2>6 DEF ModelCallFails, RejectRecord
    <3>2. Touches(r, i)
      BY <1>0, <1>1, <2>4, <3>1, RecordRows
    <3>3. task' = [task EXCEPT ![t].pc = "fail"] \/ task' = [task EXCEPT ![t].pc = "reject"]
      BY <2>6 DEF ModelCallFails, RejectRecord, Goto
    <3>4. task'[t].pc \in {"fail", "reject"}
      BY <1>0, <3>3, MovedTask
    <3> QED
      BY <1>1, <2>1, <2>4, <3>2, <3>4, TouchedOwn DEF DonePCs
  <2> QED
    BY <1>9, <2>5, <2>6
<1> QED
  BY <1>2, <1>3, <1>4, <1>5, <1>6, <1>7, <1>8, <1>9 DEF Step


LEMMA InitFrontInv == Init => FrontInv
<1> SUFFICES ASSUME Init PROVE FrontInv
  OBVIOUS
<1>1. \A t \in Coroutines : task[t].pc = "free"
  BY PCClasses DEF Init
<1>2. \A r \in Runs, i \in Steps : run[r].status = "absent" /\ record[r][i].status = "missing"
  BY DEF Init, StoreInit, AbsentRun
<1> QED
  BY <1>1, <1>2 DEF FrontInv, Frontier, Created, DonePCs

\* The part of FrontInv about one run, and the part about one coroutine.
RunFront(r) ==
  \A i \in Steps :
    /\ Created(r) =>
         /\ i < run[r].index => record[r][i].status = "completed"
         /\ i > run[r].index => record[r][i].status \in {"pending", "missing"}
    /\ ~Created(r) => record[r][i].status = "missing"

TaskFront(t) ==
  /\ task[t].pc \in DonePCs => record[task[t].run][task[t].index].status = "completed"
  /\ task[t].pc = "create_records" => run[task[t].run].index = 0

LEMMA FrontParts ==
  FrontInv <=> (\A r \in Runs : RunFront(r)) /\ (\A t \in Coroutines : TaskFront(t))
  BY DEF FrontInv, Frontier, RunFront, TaskFront

LEMMA FrontPartsNext ==
  ASSUME \A r \in Runs : RunFront(r)', \A t \in Coroutines : TaskFront(t)'
  PROVE  FrontInv'
  BY DEF FrontInv, Frontier, RunFront, TaskFront

\* Where the row stays and statuses stay, except perhaps of the step the run is at.
LEMMA SameRunFront ==
  ASSUME NEW r \in Runs, RunFront(r), run'[r] = run[r],
         \A j \in Steps :
           \/ Created(r) /\ j = run[r].index
           \/ record'[r][j].status = record[r][j].status,
         TypeInv
  PROVE  RunFront(r)'
<1>1. run[r].index \in Nat
  BY ConstantFacts DEF TypeInv, TypeOK, StoreTypeOK, RunRow
<1> QED
  BY <1>1 DEF RunFront, Created, Steps

LEMMA SameTaskFront ==
  ASSUME TypeInv, NEW t \in Coroutines, TaskFront(t), task'[t] = task[t],
         task[t].pc \in WorkingPCs =>
           /\ run'[task[t].run] = run[task[t].run]
           /\ \A j \in Steps : record'[task[t].run][j].status = record[task[t].run][j].status
  PROVE  TaskFront(t)'
<1>1. task[t].pc \in DonePCs => task[t].pc \in WorkingPCs /\ task[t].index \in Steps
  BY AtWork, PCClasses DEF TypeInv, DonePCs, SteppingPCs
<1>2. task[t].pc = "create_records" => task[t].pc \in WorkingPCs
  BY PCFacts
<1> QED
  BY <1>1, <1>2 DEF TaskFront

LEMMA StepFront ==
  ASSUME TypeInv, OwnInv, FrontInv, NEW t \in Coroutines, Step(t)
  PROVE  FrontInv'
<1> DEFINE r == task[t].run
<1>1. /\ task[t].pc \in WorkingPCs /\ Others(t) /\ TouchesOwn(t)
      /\ Works(t) \/ Advances(t) \/ Leaves(t)
  BY StepEffect, StepTouches
<1>2. r \in Runs /\ Owns(t) /\ Alone(t) /\ TaskFront(t) /\ RunFront(r) /\ Created(r)
  <2>1. r \in Runs /\ Owns(t) /\ Alone(t) /\ TaskFront(t)
    BY <1>1, AtWork, FrontParts DEF TypeInv, OwnInv
  <2> QED
    BY <1>1, <2>1, FrontParts DEF Owns, Created
<1>3. run[r].index \in Nat
  BY <1>2, ConstantFacts DEF TypeInv, TypeOK, StoreTypeOK, RunRow
<1>4. ASSUME NEW q \in Runs PROVE RunFront(q)'
  <2>1. CASE q # r
    <3>1. RunFront(q) /\ run'[q] = run[q]
      BY <1>1, <2>1, FrontParts DEF Others
    <3>2. \A j \in Steps : record'[q][j].status = record[q][j].status
      BY <1>1, <2>1 DEF TouchesOwn
    <3> QED
      BY <3>1, <3>2, SameRunFront
  <2>2. CASE q = r /\ run'[r].index = run[r].index
    <3>1. ASSUME NEW j \in Steps, j # run[r].index
          PROVE  \/ record'[r][j].status = record[r][j].status
                 \/ j > run[r].index /\ record'[r][j].status = "pending"
      <4>1. task[t].pc = "create_records" => run[r].index = 0
        BY <1>2 DEF TaskFront
      <4> QED
        BY <1>1, <3>1, <4>1, <1>2 DEF TouchesOwn, Steps
    <3>2. run'[r].status # "absent"
      BY <1>1, <1>2 DEF Works, Advances, Leaves, Created, TerminalStatus
    <3> QED
      BY <1>2, <1>3, <2>2, <3>1, <3>2 DEF RunFront, Created, Steps
  <2>3. CASE q = r /\ run'[r].index # run[r].index
    <3>1. /\ task[t].pc \in {"continue", "continuation"}
          /\ run'[r].index = task[t].index + 1 /\ run'[r].status # "absent"
      BY <1>1, <1>2, <2>3 DEF Works, Advances, Leaves, TerminalStatus
    <3>2. /\ record' = record /\ task[t].index = run[r].index
          /\ record[r][run[r].index].status = "completed"
      BY <1>1, <1>2, <3>1, PCClasses
      DEF TouchesOwn, Owns, TaskFront, SteppingPCs, DonePCs
    <3> QED
      BY <1>2, <1>3, <2>3, <3>1, <3>2 DEF RunFront, Created, Steps
  <2> QED
    BY <2>1, <2>2, <2>3
<1>5. ASSUME NEW u \in Coroutines PROVE TaskFront(u)'
  <2>1. CASE u # t
    <3>1. TaskFront(u) /\ task'[u] = task[u]
      BY <1>1, <2>1, FrontParts DEF Others
    <3>2. task[u].pc \in WorkingPCs => task[u].run \in Runs /\ task[u].run # r
      BY <1>1, <1>2, <2>1, AtWork DEF Alone, TypeInv
    <3>3. task[u].pc \in WorkingPCs =>
            /\ run'[task[u].run] = run[task[u].run]
            /\ \A j \in Steps :
                 record'[task[u].run][j].status = record[task[u].run][j].status
      BY <1>1, <3>2 DEF Others, TouchesOwn
    <3> QED
      BY <3>1, <3>3, SameTaskFront
  <2>2. CASE u = t
    <3>1. CASE task'[t].pc \in DonePCs \cup {"create_records"}
      <4>1. Works(t)
        BY <1>1, <3>1 DEF Advances, Leaves, DonePCs
      <4> QED
        BY <1>1, <1>2, <2>2, <4>1 DEF Works, TouchesOwn, TaskFront
    <3>2. CASE task'[t].pc \notin DonePCs \cup {"create_records"}
      BY <2>2, <3>2 DEF TaskFront
    <3> QED
      BY <3>1, <3>2
  <2> QED
    BY <2>1, <2>2
<1> QED
  BY <1>4, <1>5, FrontPartsNext


LEMMA CreateRunFront ==
  ASSUME TypeInv, OwnInv, FrontInv, NEW t \in Tasks, NEW p \in Playbooks, NEW r \in Runs,
         CreateRun(t, p, r)
  PROVE  FrontInv'
<1>1. t \in Coroutines /\ TasksOK /\ StoreTypeOK
  BY ConstantFacts DEF TypeInv, TypeOK
<1>2. /\ run[r].status = "absent" /\ record' = record
      /\ task' = [task EXCEPT ![t] = Coroutine("create_records", r, 0, definition[p])]
      /\ run' = [run EXCEPT ![r] = [playbook |-> p, status |-> "running", index |-> 0]]
  BY DEF CreateRun, CreateRunRow
<1>3. /\ run'[r].index = 0
      /\ \A q \in Runs : q # r => run'[q] = run[q]
  BY <1>1, <1>2 DEF StoreTypeOK
<1>4. /\ task'[t].pc = "create_records" /\ task'[t].run = r
      /\ \A u \in Coroutines : u # t => task'[u] = task[u]
  BY <1>1, <1>2 DEF TasksOK, Coroutine
<1>5. \A u \in Coroutines : task[u].pc \in WorkingPCs => task[u].run \in Runs /\ task[u].run # r
  BY <1>1, <1>2, AtWork DEF OwnInv, Owns
<1>6. ASSUME NEW q \in Runs PROVE RunFront(q)'
  <2>1. RunFront(q)
    BY FrontParts
  <2>2. CASE q = r
    <3>1. \A j \in Steps : record'[r][j].status = "missing" /\ j >= 0
      BY <1>2, <2>1, <2>2 DEF RunFront, Created, Steps
    <3> QED
      BY <1>3, <2>2, <3>1 DEF RunFront, Created, Steps
  <2>3. CASE q # r
    BY <1>2, <1>3, <2>1, <2>3, SameRunFront
  <2> QED
    BY <2>2, <2>3
<1>7. ASSUME NEW u \in Coroutines PROVE TaskFront(u)'
  <2>1. TaskFront(u)
    BY FrontParts
  <2>2. CASE u = t
    BY <1>3, <1>4, <2>2 DEF TaskFront, DonePCs
  <2>3. CASE u # t
    BY <1>2, <1>3, <1>4, <1>5, <2>1, <2>3, SameTaskFront
  <2> QED
    BY <2>2, <2>3
<1> QED
  BY <1>6, <1>7, FrontPartsNext

LEMMA RecoverRunFront ==
  ASSUME TypeInv, OwnInv, FrontInv, NEW r \in Runs, RecoverRun(r)
  PROVE  FrontInv'
<1> DEFINE row == Coroutine("advance", r, run[r].index, loaded[run[r].playbook])
<1>1. /\ Recovery \in Coroutines /\ TasksOK /\ StoreTypeOK
      /\ r \in toRecover /\ run' = run
      /\ task' = [task EXCEPT ![Recovery] = row]
      /\ \/ run[r].index \in Steps /\ ResetStepToPending(r, run[r].index)
         \/ record' = record
  BY ConstantFacts DEF RecoverRun, IsFirst, TypeInv, TypeOK
<1>2. row.pc = "advance"
  BY DEF Coroutine
<1> HIDE DEF row
<1>3. /\ task'[Recovery].pc = "advance"
      /\ \A u \in Coroutines : u # Recovery => task'[u] = task[u]
  BY <1>1, <1>2 DEF TasksOK
<1>4. /\ Created(r)
      /\ \A u \in Coroutines : task[u].pc \in WorkingPCs => task[u].run \in Runs \ {r}
  BY <1>1, AtWork DEF OwnInv, Owns, Created
<1>5. \A q \in Runs, j \in Steps :
        \/ q = r /\ j = run[r].index
        \/ record'[q][j].status = record[q][j].status
  BY <1>1, RecordRows DEF Touches
<1>6. ASSUME NEW q \in Runs PROVE RunFront(q)'
  BY <1>1, <1>4, <1>5, FrontParts, SameRunFront
<1>7. ASSUME NEW u \in Coroutines PROVE TaskFront(u)'
  <2>1. CASE u = Recovery
    BY <1>3, <2>1 DEF TaskFront, DonePCs
  <2>2. CASE u # Recovery
    BY <1>1, <1>3, <1>4, <1>5, <2>2, FrontParts, SameTaskFront
  <2> QED
    BY <2>1, <2>2
<1> QED
  BY <1>6, <1>7, FrontPartsNext

\* What neither touches records or runs, nor gives a coroutine a completed step.
LEMMA ElsewhereFront ==
  ASSUME FrontInv, UNCHANGED <<run, record>>,
         \A u \in Coroutines :
           task'[u] = task[u] \/ task'[u].pc \in {"free", "recover", "decided"}
  PROVE  FrontInv'
<1>1. ASSUME NEW u \in Coroutines PROVE TaskFront(u)'
  BY FrontParts DEF TaskFront, DonePCs
<1>2. ASSUME NEW r \in Runs PROVE RunFront(r)'
  BY FrontParts DEF RunFront, Created
<1> QED
  BY <1>1, <1>2, FrontPartsNext

LEMMA NextFrontInv ==
  ASSUME TypeInv, OwnInv, FrontInv, [Next]_vars
  PROVE  FrontInv'
<1>0. TasksOK
  BY DEF TypeInv
<1>1. CASE \E t \in Coroutines : Step(t)
  BY <1>1, StepFront
<1>2. ASSUME NEW t \in Tasks, NEW r \in Runs, NEW i \in Steps, NEW d \in Submissions,
             AcceptDecision(t, r, i, d)
      PROVE  FrontInv'
  <2> DEFINE row == [Coroutine("decided", r, run[r].index, definition[run[r].playbook])
                       EXCEPT !.decision = d]
  <2>1. UNCHANGED <<run, record>> /\ task' = [task EXCEPT ![t] = row]
    BY <1>2 DEF AcceptDecision
  <2>2. row.pc = "decided"
    BY DEF Coroutine
  <2> HIDE DEF row
  <2>3. \A u \in Coroutines : task'[u] = task[u] \/ task'[u].pc = "decided"
    BY <1>0, <2>1, <2>2 DEF TasksOK
  <2> QED
    BY <2>1, <2>3, ElsewhereFront
<1>3. CASE RecoveryDies \/ RecoveryEnds
  <2>1. UNCHANGED <<run, record>> /\ task' = [task EXCEPT ![Recovery] = FreeTask]
    BY <1>3 DEF RecoveryDies, RecoveryEnds, storeVars
  <2>2. \A u \in Coroutines : task'[u] = task[u] \/ task'[u].pc = "free"
    BY <1>0, <2>1, PCClasses DEF TasksOK
  <2> QED
    BY <2>1, <2>2, ElsewhereFront
<1>4. ASSUME NEW r \in Runs, ShowGate(r) PROVE FrontInv'
  BY <1>4, ElsewhereFront DEF ShowGate, storeVars
<1>5. ASSUME NEW p \in Playbooks, NEW d \in PutDefinitions, UpdatePlaybook(p, d)
      PROVE  FrontInv'
  BY <1>5, ElsewhereFront DEF UpdatePlaybook, engineVars
<1>6. CASE Crash \/ Restart
  <2>1. UNCHANGED <<run, record>>
    BY <1>6 DEF Crash, Restart, storeVars
  <2>2. \A u \in Coroutines :
          task'[u] = task[u] \/ task'[u].pc \in {"free", "recover"}
    <3>1. CASE Crash
      BY <3>1, PCClasses DEF Crash
    <3>2. CASE Restart
      <4>1. task' = [task EXCEPT ![Recovery].pc = "recover"]
        BY <3>2 DEF Restart
      <4> QED
        BY <1>0, <4>1, MovedTask, ConstantFacts
    <3> QED
      BY <1>6, <3>1, <3>2
  <2> QED
    BY <2>1, <2>2, ElsewhereFront
<1>7. CASE UNCHANGED vars
  BY <1>7, ElsewhereFront DEF vars, storeVars, engineVars
<1> QED
  BY <1>1, <1>2, <1>3, <1>4, <1>5, <1>6, <1>7, CreateRunFront, RecoverRunFront
  DEF Next, Recover

\* While decisions do not overlap, a run's progress is a frontier at every commit, so
\* also after a crash at any of them: every step it passed has a completed record, and
\* no step ahead of it was touched, whatever playbooks are replaced meanwhile.
THEOREM FrontierHolds == SerialReview => (Spec => []Frontier)
<1> SUFFICES ASSUME SerialReview PROVE Spec => []Frontier
  OBVIOUS
<1>1. Init => TypeInv /\ OwnInv /\ FrontInv
  BY InitTypeInv, InitOwnInv, InitFrontInv
<1>2. TypeInv /\ OwnInv /\ FrontInv /\ [Next]_vars => TypeInv' /\ OwnInv' /\ FrontInv'
  BY NextTypeInv, NextOwnInv, NextFrontInv
<1>3. FrontInv => Frontier
  BY DEF FrontInv
<1> QED
  BY <1>1, <1>2, <1>3, PTL DEF Spec

------------------------------------------------------------------------------
(***************************************************************************)
(* Decisions.                                                              *)
(***************************************************************************)
Decided(r) == \E t \in Coroutines : task[t].pc \in DecidedPCs /\ task[t].run = r

\* Only the gate a run stands at can be decided, and again only if a crash lost the
\* decision.
Counted(r) ==
  \A i \in Steps :
    LET n == Len(gateDecisions[r][i])
    IN  /\ n <= 1 + crashes
        /\ i > run[r].index => n = 0
        /\ i = run[r].index /\ run[r].status \notin TerminalStatus /\ ~Decided(r) =>
             n <= crashes

CountInv == \A r \in Runs : Counted(r)

LEMMA CountTypes ==
  ASSUME TypeInv, NEW r \in Runs
  PROVE  /\ run[r].index \in Nat /\ crashes \in Nat /\ Steps \subseteq Nat
         /\ gateDecisions \in [Runs -> [Steps -> Seq(DecisionRow)]]
         /\ \A i \in Steps : Len(gateDecisions[r][i]) \in Nat
  BY ConstantFacts, EngineAssumption
  DEF EngineAssumption, TypeInv, TypeOK, StoreTypeOK, RunRow, Steps

LEMMA InitCountInv == Init => CountInv
<1> SUFFICES ASSUME Init PROVE CountInv
  OBVIOUS
<1>1. \A r \in Runs, i \in Steps : Len(gateDecisions[r][i]) = 0
  BY DEF Init, StoreInit
<1>2. crashes = 0
  BY DEF Init
<1> QED
  BY <1>1, <1>2 DEF CountInv, Counted

\* A step that decides nothing and frees nobody from a decision.
LEMMA SameCounts ==
  ASSUME CountInv, UNCHANGED <<run, gateDecisions, crashes>>,
         \A u \in Coroutines : task[u].pc \in DecidedPCs => task'[u] = task[u]
  PROVE  CountInv'
<1>1. ASSUME NEW r \in Runs, Decided(r) PROVE Decided(r)'
  BY <1>1 DEF Decided
<1> QED
  BY <1>1 DEF CountInv, Counted

LEMMA StepCounts ==
  ASSUME TypeInv, OwnInv, CountInv, NEW t \in Coroutines, Step(t)
  PROVE  CountInv'
<1>1. /\ task[t].pc \in WorkingPCs /\ Others(t)
      /\ Works(t) \/ Advances(t) \/ Leaves(t)
  BY StepEffect
<1>2. PICK r \in Runs : r = task[t].run /\ Owns(t) /\ Alone(t)
  BY <1>1, AtWork DEF TypeInv, OwnInv
<1>3. UNCHANGED <<gateDecisions, crashes>>
  BY <1>1 DEF Others
<1>4. ASSUME NEW q \in Runs, q # r PROVE Counted(q)'
  <2>1. run'[q] = run[q] /\ Counted(q)
    BY <1>1, <1>2, <1>4 DEF Others, CountInv
  <2>2. Decided(q) => Decided(q)'
    BY <1>1, <1>2, <1>4 DEF Decided, Others
  <2> QED
    BY <1>3, <2>1, <2>2 DEF Counted
<1>5. Counted(r)'
  <2>1. Counted(r) /\ run[r].index \in Nat /\ crashes \in Nat
    BY <1>2, CountTypes DEF CountInv
  <2>2. run[r].status \notin TerminalStatus
    BY <1>1, <1>2 DEF Owns, TerminalStatus
  <2>3. CASE run'[r].index = run[r].index
    <3>1. Decided(r) => Decided(r)' \/ run'[r].status \in TerminalStatus
      <4> SUFFICES ASSUME Decided(r)
                   PROVE  Decided(r)' \/ run'[r].status \in TerminalStatus
        OBVIOUS
      <4>1. task[t].pc \in DecidedPCs
        BY <1>1, <1>2, PCClasses DEF Decided, Alone
      <4>2. CASE Works(t)
        BY <1>2, <4>1, <4>2 DEF Works, RunningPCs, Decided
      <4>3. CASE Advances(t)
        BY <1>2, <2>1, <2>3, <4>3, PCClasses DEF Advances, Owns, SteppingPCs, WorkingPCs
      <4>4. CASE Leaves(t)
        BY <1>2, <4>1, <4>4 DEF Leaves, RunningPCs
      <4> QED
        BY <1>1, <4>2, <4>3, <4>4
    <3> QED
      BY <1>3, <2>1, <2>2, <2>3, <3>1 DEF Counted
  <2>4. CASE run'[r].index # run[r].index
    <3>1. run'[r].index = run[r].index + 1
      BY <1>1, <1>2, <2>4, PCClasses DEF Works, Advances, Leaves, Owns, SteppingPCs
    <3> QED
      BY <1>3, <2>1, <3>1 DEF Counted, Steps
  <2> QED
    BY <2>3, <2>4
<1> QED
  BY <1>4, <1>5 DEF CountInv

LEMMA AcceptDecisionCounts ==
  ASSUME SerialReview, TypeInv, OwnInv, CountInv, NEW t \in Tasks, NEW r \in Runs,
         NEW i \in Steps, NEW d \in Submissions, AcceptDecision(t, r, i, d)
  PROVE  CountInv'
<1> DEFINE index == run[r].index
           row == [Coroutine("decided", r, index, definition[run[r].playbook])
                     EXCEPT !.decision = d]
<1>1. /\ t \in Coroutines /\ TasksOK /\ index = i
      /\ run[r].status = "paused" /\ active = Idle /\ task[t].pc = "free"
      /\ ~ContinuationPending(r)
      /\ UNCHANGED <<run, crashes>> /\ RecordGateDecision(r, index, d)
      /\ task' = [task EXCEPT ![t] = row]
  BY ConstantFacts DEF AcceptDecision, Acceptable, Wakes, TypeInv
<1>2. row.pc = "decided" /\ row.run = r
  BY DEF Coroutine
<1> HIDE DEF row
<1>3. /\ task'[t].pc = "decided" /\ task'[t].run = r
      /\ \A u \in Coroutines : u # t => task'[u] = task[u]
  BY <1>1, <1>2 DEF TasksOK
<1>4. ~Decided(r)
  <2> SUFFICES ASSUME NEW u \in Coroutines, task[u].pc \in DecidedPCs, task[u].run = r
               PROVE  FALSE
    BY DEF Decided
  <2>1. Owns(u) /\ task[u].pc \in WorkingPCs /\ u # Idle
    BY PCClasses DEF OwnInv
  <2>2. u \in Tasks /\ task[u].pc = "continuation"
    BY <1>1, <2>1 DEF Owns
  <2> QED
    BY <1>1, <2>2 DEF ContinuationPending
<1>5. /\ gateDecisions'[r][i] = Append(gateDecisions[r][i], d)
      /\ \A q \in Runs, j \in Steps :
           q # r \/ j # i => gateDecisions'[q][j] = gateDecisions[q][j]
  BY <1>1, CountTypes DEF RecordGateDecision
<1>6. Len(gateDecisions'[r][i]) = Len(gateDecisions[r][i]) + 1
  <2>1. gateDecisions[r][i] \in Seq(DecisionRow) /\ d \in DecisionRow
    BY CountTypes, EngineAssumption DEF EngineAssumption
  <2> QED
    BY <1>5, <2>1
<1>7. Len(gateDecisions[r][i]) <= crashes
  BY <1>1, <1>4 DEF CountInv, Counted, TerminalStatus
<1>8. ASSUME NEW q \in Runs, q # r PROVE Counted(q)'
  <2>1. Counted(q) /\ (Decided(q) => Decided(q)')
    BY <1>1, <1>3, PCClasses DEF CountInv, Decided
  <2>2. \A j \in Steps : gateDecisions'[q][j] = gateDecisions[q][j]
    BY <1>5, <1>8
  <2> QED
    BY <1>1, <2>1, <2>2 DEF Counted
<1>9. Counted(r)'
  <2>1. Counted(r) /\ Decided(r)'
    BY <1>1, <1>3 DEF CountInv, Decided, DecidedPCs
  <2>2. run[r].index \in Nat /\ crashes \in Nat /\ Len(gateDecisions[r][i]) \in Nat
    BY CountTypes
  <2> QED
    BY <1>1, <1>5, <1>6, <1>7, <2>1, <2>2 DEF Counted
<1> QED
  BY <1>8, <1>9 DEF CountInv

LEMMA CreateRunCounts ==
  ASSUME TypeInv, OwnInv, CountInv, NEW t \in Tasks, NEW p \in Playbooks, NEW r \in Runs,
         CreateRun(t, p, r)
  PROVE  CountInv'
<1>1. /\ t \in Coroutines /\ TasksOK /\ StoreTypeOK
      /\ run[r].status = "absent" /\ task[t].pc = "free"
      /\ UNCHANGED <<gateDecisions, crashes>>
      /\ task' = [task EXCEPT ![t] = Coroutine("create_records", r, 0, definition[p])]
      /\ run' = [run EXCEPT ![r] = [playbook |-> p, status |-> "running", index |-> 0]]
  BY ConstantFacts DEF CreateRun, CreateRunRow, Wakes, TypeInv, TypeOK
<1>2. /\ run'[r].index = 0 /\ run[r].index = 0
      /\ \A q \in Runs : q # r => run'[q] = run[q]
  BY <1>1 DEF StoreTypeOK, OwnInv
<1>3. \A u \in Coroutines : u # t => task'[u] = task[u]
  BY <1>1 DEF TasksOK
<1>4. ~Decided(r)
  BY <1>1, PCClasses DEF Decided, OwnInv, Owns
<1>5. ASSUME NEW q \in Runs, q # r PROVE Counted(q)'
  <2>1. Counted(q) /\ (Decided(q) => Decided(q)')
    BY <1>1, <1>3, PCClasses DEF CountInv, Decided
  <2> QED
    BY <1>1, <1>2, <1>5, <2>1 DEF Counted
<1>6. Counted(r)'
  <2>1. Counted(r)
    BY DEF CountInv
  <2> QED
    BY <1>1, <1>2, <1>4, <2>1 DEF Counted, TerminalStatus
<1> QED
  BY <1>5, <1>6 DEF CountInv

LEMMA CrashCounts ==
  ASSUME TypeInv, CountInv, Crash
  PROVE  CountInv'
<1>1. UNCHANGED <<run, gateDecisions>> /\ crashes' = crashes + 1
  BY DEF Crash, storeVars
<1>2. ASSUME NEW r \in Runs PROVE Counted(r)'
  <2>1. Counted(r) /\ crashes \in Nat /\ \A i \in Steps : Len(gateDecisions[r][i]) \in Nat
    BY CountTypes DEF CountInv
  <2> QED
    BY <1>1, <2>1 DEF Counted
<1> QED
  BY <1>2 DEF CountInv

LEMMA NextCountInv ==
  ASSUME SerialReview, TypeInv, OwnInv, CountInv, [Next]_vars
  PROVE  CountInv'
<1>0. TasksOK
  BY DEF TypeInv
<1>1. CASE \E t \in Coroutines : Step(t)
  BY <1>1, StepCounts
\* Recovery never decides, and nobody has decided anything while the process is down.
<1>2. CASE Recover \/ Restart
  <2>1. /\ UNCHANGED <<run, gateDecisions, crashes>> /\ Recovery \in Coroutines
        /\ \A u \in Coroutines : u # Recovery => task'[u] = task[u]
    <3>1. CASE RecoveryDies \/ RecoveryEnds
      BY <1>0, <3>1, ConstantFacts DEF RecoveryDies, RecoveryEnds, storeVars, TasksOK
    <3>2. ASSUME NEW r \in Runs, RecoverRun(r)
          PROVE  /\ UNCHANGED <<run, gateDecisions, crashes>> /\ Recovery \in Coroutines
                 /\ \A u \in Coroutines : u # Recovery => task'[u] = task[u]
      BY <1>0, <3>2, ConstantFacts DEF RecoverRun, TasksOK
    <3>3. CASE Restart
      BY <1>0, <3>3, ConstantFacts DEF Restart, TasksOK
    <3> QED
      BY <1>2, <3>1, <3>2, <3>3 DEF Recover
  <2>2. task[Recovery].pc \notin DecidedPCs
    BY <2>1, ConstantFacts, PCClasses DEF OwnInv, Owns
  <2> QED
    BY <2>1, <2>2, SameCounts
<1>3. ASSUME NEW r \in Runs, ShowGate(r) PROVE CountInv'
  BY <1>3, SameCounts DEF ShowGate, storeVars
<1>4. ASSUME NEW p \in Playbooks, NEW d \in PutDefinitions, UpdatePlaybook(p, d)
      PROVE  CountInv'
  BY <1>4, SameCounts DEF UpdatePlaybook, engineVars
<1>5. CASE UNCHANGED vars
  BY <1>5, SameCounts DEF vars, storeVars, engineVars
<1> QED
  BY <1>1, <1>2, <1>3, <1>4, <1>5, CreateRunCounts, AcceptDecisionCounts, CrashCounts
  DEF Next

\* While decisions do not overlap, a gate is decided once, and once more only for each
\* crash that lost a decision between two of its commits: a double-submitted decision
\* is refused (resume_with_decision, the 409 of routes.py).
THEOREM DecisionsAreSingle == SerialReview => (Spec => []OneDecisionPerGate)
<1> SUFFICES ASSUME SerialReview PROVE Spec => []OneDecisionPerGate
  OBVIOUS
<1>1. Init => TypeInv /\ OwnInv /\ CountInv
  BY InitTypeInv, InitOwnInv, InitCountInv
<1>2. TypeInv /\ OwnInv /\ CountInv /\ [Next]_vars => TypeInv' /\ OwnInv' /\ CountInv'
  BY NextTypeInv, NextOwnInv, NextCountInv
<1>3. CountInv => OneDecisionPerGate
  BY DEF CountInv, Counted, OneDecisionPerGate
<1> QED
  BY <1>1, <1>2, <1>3, PTL DEF Spec

LEMMA SameSeen ==
  ASSUME NoUnseenDecision, UNCHANGED <<gateDecisions, shown>>
  PROVE  NoUnseenDecision'
  BY DEF NoUnseenDecision

LEMMA NextSeen ==
  ASSUME TypeInv, NoUnseenDecision, [Next]_vars
  PROVE  NoUnseenDecision'
<1>0. /\ gateDecisions \in [Runs -> [Steps -> Seq(DecisionRow)]]
      /\ shown \in [Runs -> SUBSET Steps]
  BY DEF TypeInv, TypeOK, StoreTypeOK
<1>1. ASSUME NEW t \in Coroutines, Step(t) PROVE NoUnseenDecision'
  BY <1>1, StepEffect, SameSeen DEF Others
<1>2. ASSUME NEW t \in Tasks, NEW r \in Runs, NEW i \in Steps, NEW d \in Submissions,
             AcceptDecision(t, r, i, d)
      PROVE  NoUnseenDecision'
  <2>1. /\ i \in shown[r] /\ i = run[r].index /\ shown' = shown
        /\ RecordGateDecision(r, run[r].index, d)
    BY <1>2 DEF AcceptDecision, Acceptable
  <2>2. \A q \in Runs, j \in Steps :
          q # r \/ j # i => gateDecisions'[q][j] = gateDecisions[q][j]
    BY <1>0, <2>1 DEF RecordGateDecision
  <2> QED
    BY <2>1, <2>2 DEF NoUnseenDecision
<1>3. ASSUME NEW r \in Runs, ShowGate(r) PROVE NoUnseenDecision'
  BY <1>0, <1>3 DEF ShowGate, storeVars, NoUnseenDecision
<1>4. ASSUME NEW t \in Tasks, NEW p \in Playbooks, NEW r \in Runs, CreateRun(t, p, r)
      PROVE  NoUnseenDecision'
  BY <1>4, SameSeen DEF CreateRun
<1>5. ASSUME NEW p \in Playbooks, NEW d \in PutDefinitions, UpdatePlaybook(p, d)
      PROVE  NoUnseenDecision'
  BY <1>5, SameSeen DEF UpdatePlaybook, engineVars
<1>6. CASE Crash \/ Restart \/ Recover \/ UNCHANGED vars
  BY <1>6, SameSeen
  DEF Crash, Restart, Recover, RecoveryDies, RecoveryEnds, RecoverRun, vars, storeVars,
      engineVars
<1> QED
  BY <1>1, <1>2, <1>3, <1>4, <1>5, <1>6 DEF Next

\* Whatever is posted late, again or for another step, in whatever order with crashes,
\* recoveries and replaced playbooks, a stored decision belongs to a gate that a
\* reviewer was shown (the step_index check of resume_with_decision).  Needs no
\* discipline of the reviewers.
THEOREM DecisionsWereSeen == Spec => []NoUnseenDecision
<1>1. Init => TypeInv /\ NoUnseenDecision
  <2>1. Init => NoUnseenDecision
    BY DEF Init, StoreInit, NoUnseenDecision
  <2> QED
    BY <2>1, InitTypeInv
<1>2. TypeInv /\ NoUnseenDecision /\ [Next]_vars => TypeInv' /\ NoUnseenDecision'
  BY NextTypeInv, NextSeen
<1> QED
  BY <1>1, <1>2, PTL DEF Spec

------------------------------------------------------------------------------
(***************************************************************************)
(* PlaybookEngine implements ReviewedRuns.                                 *)
(***************************************************************************)
\* The word of the reviewer a coroutine acts on is the latest, a run is paused only at a
\* gate, and a model is called only for a teammate.
TaskReview(t) ==
  LET r == task[t].run
      i == task[t].index
  IN  /\ task[t].pc = "pause" => IsGate(task[t].steps, i)
      /\ task[t].pc \in {"calling", "milestone", "continue"} => IsTeammate(task[t].steps, i)
      /\ task[t].pc \in DecidedPCs => gateDecisions[r][i] # <<>>
      /\ task[t].pc = "decided" => LastDecision(r, i) = task[t].decision
      /\ task[t].pc = "reject" => LastDecision(r, i).decision = "reject"
      /\ task[t].pc \in {"propagate", "continuation"} =>
           LastDecision(r, i).decision # "reject"

ReviewInv == \A t \in Coroutines : TaskReview(t)

\* What a client reads of all runs.
Plans == [r \in Runs |-> IF Created(r) THEN StepsOf(r) ELSE <<>>]
Statuses == [r \in Runs |-> run[r].status]
Positions == [r \in Runs |-> run[r].index]
Verdicts == [r \in Runs |-> Verdict(r)]

LEMMA Stutters ==
  ASSUME UNCHANGED <<definition, run, gateDecisions>>
  PROVE  UNCHANGED Abstract!runVars
  BY DEF Abstract!runVars, Created, StepsOf, Verdict, LastDecision

\* A run moves to its next step, or ends past the last one.
LEMMA PassMaps ==
  ASSUME NEW r \in Runs, UNCHANGED definition, StoreTypeOK, CountInv,
         \A q \in Runs : q # r => run'[q] = run[q],
         UNCHANGED gateDecisions, Created(r), Created(r)',
         run'[r].playbook = run[r].playbook,
         run'[r].index = run[r].index + 1,
         run'[r].status = IF run[r].index + 1 < Len(StepsOf(r)) THEN "running" ELSE "completed"
  PROVE  Abstract!Pass(r)
<1>1. Plans' = Plans
  BY DEF Plans, Created, StepsOf
<1>2. Positions' = [Positions EXCEPT ![r] = @ + 1]
  BY DEF Positions
<1>3. Statuses' = [Statuses EXCEPT ![r] =
                     IF run[r].index + 1 < Len(StepsOf(r)) THEN "running" ELSE "completed"]
  BY DEF Statuses
<1>4. Verdict(r)' = "none"
  <2>1. \A i \in Steps : i > run[r].index => gateDecisions[r][i] = <<>>
    BY DEF CountInv, Counted, StoreTypeOK
  <2>2. run[r].index + 1 > run[r].index
    BY ConstantFacts DEF StoreTypeOK, RunRow
  <2> QED
    BY <2>1, <2>2 DEF Verdict
<1>5. Verdicts' = [Verdicts EXCEPT ![r] = "none"]
  BY <1>4 DEF Verdicts, Verdict, LastDecision
<1> QED
  BY <1>1, <1>2, <1>3, <1>5 DEF Abstract!Pass, Plans, Positions, Statuses, Verdicts

\* A run is paused, fails or is rejected: only its status shows.
LEMMA StatusMaps ==
  ASSUME NEW r \in Runs, NEW s, s # "absent", StoreTypeOK, Created(r),
         UpdateRunStatus(r, s), UNCHANGED <<definition, gateDecisions>>
  PROVE  /\ Statuses' = [Statuses EXCEPT ![r] = s]
         /\ UNCHANGED <<Plans, Positions, Verdicts>>
<1>1. run[r] \in RunRow /\ run \in [Runs -> RunRow]
  BY DEF StoreTypeOK
<1>2. run'[r].status = s /\ run'[r].playbook = run[r].playbook /\ run'[r].index = run[r].index
  BY <1>1 DEF UpdateRunStatus, RunRow
<1>3. \A q \in Runs : q # r => run'[q] = run[q]
  BY <1>1 DEF UpdateRunStatus
<1>4. Statuses' = [Statuses EXCEPT ![r] = s]
  BY <1>2, <1>3 DEF Statuses
<1>5. Plans' = Plans /\ Positions' = Positions
  BY <1>2, <1>3 DEF Plans, Positions, Created, StepsOf
<1>6. Verdicts' = Verdicts
  BY <1>2, <1>3 DEF Verdicts, Verdict, LastDecision
<1> QED
  BY <1>4, <1>5, <1>6

\* A coroutine at work, seen by the specification of runs.
LEMMA AtWorkMaps ==
  ASSUME TypeInv, OwnInv, GateInv, NEW t \in Coroutines, task[t].pc \in WorkingPCs,
         NEW r \in Runs, r = task[t].run
  PROVE  /\ Created(r) /\ task[t].steps = StepsOf(r)
         /\ Statuses[r] = IF task[t].pc \in DecidedPCs THEN "paused" ELSE "running"
         /\ Plans[r] = StepsOf(r) /\ Positions[r] = run[r].index
         /\ task[t].pc \in SteppingPCs =>
              task[t].index = run[r].index /\ run[r].index \in Steps
<1>1. Owns(t) /\ TaskGates(t)
  BY DEF OwnInv, GateInv
<1>2. task[t].pc \in SteppingPCs => task[t].index \in Steps
  BY AtWork DEF TypeInv
<1> QED
  BY <1>1, <1>2 DEF Owns, TaskGates, Statuses, Plans, Positions

LEMMA PauseMaps ==
  ASSUME TypeInv, OwnInv, GateInv, ReviewInv, NEW t \in Coroutines, PauseRun(t)
  PROVE  Abstract!Next
<1>1. PICK r \in Runs : r = task[t].run /\ task[t].pc = "pause"
  BY AtWork, PCFacts DEF PauseRun, Holds, TypeInv
<1>2. /\ Created(r) /\ task[t].steps = StepsOf(r) /\ Statuses[r] = "running"
      /\ Plans[r] = StepsOf(r) /\ Positions[r] = run[r].index
      /\ task[t].index = run[r].index
  BY <1>1, AtWorkMaps, PCFacts DEF SteppingPCs, DecidedPCs
<1>3. /\ Statuses' = [Statuses EXCEPT ![r] = "paused"]
      /\ UNCHANGED <<Plans, Positions, Verdicts>>
  BY <1>1, <1>2, StatusMaps DEF PauseRun, TypeInv, TypeOK
<1>4. IsGate(StepsOf(r), run[r].index)
  BY <1>1, <1>2 DEF ReviewInv, TaskReview
<1>5. Abstract!AskForReview(r)
  BY <1>2, <1>3, <1>4
  DEF Abstract!AskForReview, Abstract!AtGate, IsGate, Kind, Gates, Plans, Positions,
      Statuses, Verdicts
<1> QED
  BY <1>5 DEF Abstract!Next

LEMMA FailureMaps ==
  ASSUME TypeInv, OwnInv, GateInv, NEW t \in Coroutines, FailRun(t) \/ BackstopFailsRun(t)
  PROVE  Abstract!Next
<1>1. PICK r \in Runs : r = task[t].run /\ task[t].pc \in {"fail", "raised"}
  BY AtWork, PCFacts DEF FailRun, BackstopFailsRun, Holds, TypeInv
<1>2. Created(r) /\ Statuses[r] = "running"
  BY <1>1, AtWorkMaps, PCFacts DEF DecidedPCs
<1>3. /\ Statuses' = [Statuses EXCEPT ![r] = "failed"]
      /\ UNCHANGED <<Plans, Positions, Verdicts>>
  BY <1>1, <1>2, StatusMaps DEF FailRun, BackstopFailsRun, TypeInv, TypeOK
<1>4. Abstract!Stop(r)
  BY <1>2, <1>3 DEF Abstract!Stop, Plans, Positions, Statuses, Verdicts
<1> QED
  BY <1>4 DEF Abstract!Next

\* What ReviewInv says of a decided step, as a verdict.
LEMMA VerdictFacts ==
  ASSUME TypeInv, OwnInv, GateInv, ReviewInv, NEW t \in Coroutines,
         NEW r \in Runs, r = task[t].run
  PROVE  /\ task[t].pc = "reject" => Verdicts[r] = "reject"
         /\ task[t].pc = "continuation" => Verdicts[r] = "approve"
<1>1. CASE task[t].pc \in {"reject", "continuation"}
  <2>1. /\ task[t].index = run[r].index /\ run[r].index \in Steps
        /\ task[t].pc \in DecidedPCs
    BY <1>1, AtWorkMaps, PCClasses DEF DecidedPCs
  <2> QED
    BY <2>1 DEF ReviewInv, TaskReview, Verdicts, Verdict
<1> QED
  BY <1>1

LEMMA RejectRunMaps ==
  ASSUME TypeInv, OwnInv, GateInv, ReviewInv, NEW t \in Coroutines, RejectRun(t)
  PROVE  Abstract!Next
<1>1. PICK r \in Runs : r = task[t].run /\ task[t].pc = "reject"
  BY AtWork, PCFacts DEF RejectRun, Holds, TypeInv
<1>2. Created(r) /\ Statuses[r] = "paused" /\ Verdicts[r] = "reject"
  BY <1>1, AtWorkMaps, VerdictFacts, PCClasses DEF DecidedPCs
<1>3. /\ Statuses' = [Statuses EXCEPT ![r] = "rejected"]
      /\ UNCHANGED <<Plans, Positions, Verdicts>>
  BY <1>1, <1>2, StatusMaps DEF RejectRun, TypeInv, TypeOK
<1>4. Abstract!Stop(r)
  BY <1>2, <1>3 DEF Abstract!Stop, Plans, Positions, Statuses, Verdicts
<1> QED
  BY <1>4 DEF Abstract!Next

LEMMA PassingMaps ==
  ASSUME TypeInv, OwnInv, GateInv, CountInv, ReviewInv, NEW t \in Coroutines,
         CompleteRun(t) \/ MoveToNextStep(t)
  PROVE  Abstract!Next
<1>1. PICK r \in Runs : r = task[t].run /\ task[t].pc \in {"continue", "continuation"}
  BY AtWork, PCFacts
  DEF CompleteRun, MoveToNextStep, AtContinue, Holds, Wakes, TypeInv
<1>2. /\ Created(r) /\ task[t].steps = StepsOf(r)
      /\ Statuses[r] = IF task[t].pc = "continuation" THEN "paused" ELSE "running"
      /\ Plans[r] = StepsOf(r) /\ Positions[r] = run[r].index
      /\ task[t].index = run[r].index
  BY <1>1, AtWorkMaps, PCClasses DEF SteppingPCs, WorkingPCs, DecidedPCs
<1>3. StoreTypeOK /\ run[r] \in RunRow /\ StepsOf(r) \in Definitions
  BY DEF TypeInv, TypeOK, StoreTypeOK, StepsOf, RunRow
<1> DEFINE s == IF run[r].index + 1 < Len(StepsOf(r)) THEN "running" ELSE "completed"
<1>4. UpdateRunStatusAt(r, s, run[r].index + 1) /\ UNCHANGED <<definition, gateDecisions>>
  <2>1. run[r].index \in Nat /\ Len(StepsOf(r)) \in Nat
    BY <1>3, ConstantFacts, DefinitionFacts DEF RunRow
  <2> QED
    BY <1>1, <1>2, <2>1 DEF CompleteRun, MoveToNextStep
<1>5. /\ run'[r].status = s /\ run'[r].index = run[r].index + 1
      /\ run'[r].playbook = run[r].playbook
      /\ \A q \in Runs : q # r => run'[q] = run[q]
  BY <1>3, <1>4 DEF UpdateRunStatusAt, StoreTypeOK, RunRow
<1>6. Abstract!Pass(r)
  BY <1>2, <1>3, <1>4, <1>5, PassMaps DEF Created
<1>7. CASE task[t].pc = "continuation"
  <2>1. Verdicts[r] = "approve"
    BY <1>1, <1>7, VerdictFacts
  <2>2. Abstract!Resume(r)
    BY <1>2, <1>6, <1>7, <2>1 DEF Abstract!Resume, Statuses, Verdicts
  <2> QED
    BY <2>2 DEF Abstract!Next
<1>8. CASE task[t].pc = "continue"
  <2>1. IsTeammate(StepsOf(r), run[r].index)
    BY <1>1, <1>2, <1>8 DEF ReviewInv, TaskReview
  <2>2. Abstract!Work(r)
    BY <1>2, <1>6, <1>8, <2>1
    DEF Abstract!Work, Abstract!AtGate, IsTeammate, Kind, Teammates, Statuses, Plans,
        Positions
  <2> QED
    BY <2>2 DEF Abstract!Next
<1> QED
  BY <1>1, <1>7, <1>8

LEMMA StepMaps ==
  ASSUME TypeInv, OwnInv, GateInv, CountInv, ReviewInv, NEW t \in Coroutines, Step(t)
  PROVE  [Abstract!Next]_(Abstract!runVars)
<1>1. CASE \/ CreateNextRecord(t) \/ SetGoalAndSpawn(t) \/ StartTeammateStep(t)
           \/ MarkAwaitingApproval(t) \/ AdvanceRaises(t) \/ ModelAnswers(t)
           \/ StoreMilestone(t) \/ ModelCallFails(t) \/ RejectRecord(t)
           \/ ApproveRecord(t) \/ PropagateEdit(t)
  <2>1. UNCHANGED <<definition, run, gateDecisions>>
    BY <1>1
    DEF CreateNextRecord, SetGoalAndSpawn, StartTeammateStep, MarkAwaitingApproval,
        AdvanceRaises, ModelAnswers, StoreMilestone, ModelCallFails, RejectRecord,
        ApproveRecord, PropagateEdit, storeVars
  <2> QED
    BY <2>1, Stutters
<1>2. CASE PauseRun(t)
  BY <1>2, PauseMaps
<1>3. CASE FailRun(t) \/ BackstopFailsRun(t)
  BY <1>3, FailureMaps
<1>4. CASE RejectRun(t)
  BY <1>4, RejectRunMaps
<1>5. CASE CompleteRun(t) \/ MoveToNextStep(t)
  BY <1>5, PassingMaps
<1> QED
  BY <1>1, <1>2, <1>3, <1>4, <1>5 DEF Step

LEMMA CreateRunMaps ==
  ASSUME TypeInv, OwnInv, NEW t \in Tasks, NEW p \in Playbooks, NEW r \in Runs,
         CreateRun(t, p, r)
  PROVE  Abstract!Next
<1>1. /\ run \in [Runs -> RunRow] /\ run[r].status = "absent"
      /\ UNCHANGED <<definition, gateDecisions>>
      /\ run' = [run EXCEPT ![r] = [playbook |-> p, status |-> "running", index |-> 0]]
  BY DEF CreateRun, CreateRunRow, TypeInv, TypeOK, StoreTypeOK
<1>2. /\ run[r].index = 0 /\ definition[p] \in Definitions
  BY <1>1 DEF OwnInv, TypeInv, TypeOK, StoreTypeOK
<1>3. /\ run'[r].status = "running" /\ run'[r].index = 0 /\ run'[r].playbook = p
      /\ \A q \in Runs : q # r => run'[q] = run[q]
  BY <1>1
<1>4. Statuses[r] = "absent" /\ Statuses' = [Statuses EXCEPT ![r] = "running"]
  BY <1>1, <1>3 DEF Statuses
<1>5. Plans' = [Plans EXCEPT ![r] = definition[p]]
  BY <1>1, <1>3 DEF Plans, Created, StepsOf
<1>6. Positions' = Positions
  BY <1>2, <1>3 DEF Positions
<1>7. Verdicts' = Verdicts
  BY <1>1, <1>2, <1>3 DEF Verdicts, Verdict, LastDecision
<1>8. Abstract!Start(r)
  BY <1>2, <1>4, <1>5, <1>6, <1>7
  DEF Abstract!Start, Plans, Positions, Statuses, Verdicts
<1> QED
  BY <1>8 DEF Abstract!Next

\* The stored decision is the last one.
LEMMA DecisionStored ==
  ASSUME TypeInv, NEW t \in Tasks, NEW r \in Runs, NEW i \in Steps, NEW d \in Submissions,
         AcceptDecision(t, r, i, d)
  PROVE  /\ i = run[r].index
         /\ gateDecisions'[r][i] # <<>> /\ LastDecision(r, i)' = d
         /\ \A q \in Runs, j \in Steps :
              q # r \/ j # i => gateDecisions'[q][j] = gateDecisions[q][j]
<1>1. i = run[r].index /\ RecordGateDecision(r, i, d)
  BY DEF AcceptDecision, Acceptable
<1>2. /\ gateDecisions'[r][i] = Append(gateDecisions[r][i], d)
      /\ \A q \in Runs, j \in Steps :
           q # r \/ j # i => gateDecisions'[q][j] = gateDecisions[q][j]
  BY <1>1, CountTypes DEF RecordGateDecision
<1>3. gateDecisions[r][i] \in Seq(DecisionRow) /\ d \in DecisionRow
  BY CountTypes, EngineAssumption DEF EngineAssumption
<1>4. LET new == Append(gateDecisions[r][i], d)
      IN  new # <<>> /\ new[Len(new)] = d
  BY <1>3
<1> QED
  BY <1>1, <1>2, <1>4 DEF LastDecision

LEMMA AcceptDecisionMaps ==
  ASSUME TypeInv, NEW t \in Tasks, NEW r \in Runs, NEW i \in Steps, NEW d \in Submissions,
         AcceptDecision(t, r, i, d)
  PROVE  Abstract!Next
<1>1. run[r].status = "paused" /\ UNCHANGED <<definition, run>>
  BY DEF AcceptDecision, Acceptable
<1>2. /\ Statuses[r] = "paused"
      /\ UNCHANGED <<Statuses, Plans, Positions>>
  BY <1>1 DEF Statuses, Plans, Positions, Created, StepsOf
<1> DEFINE v == IF d.decision = "reject" THEN "reject" ELSE "approve"
<1>3. Verdict(r)' = v
  BY <1>1, DecisionStored DEF Verdict
<1>4. \A q \in Runs : q # r => Verdict(q)' = Verdict(q)
  BY <1>1, DecisionStored DEF Verdict, LastDecision
<1>5. Verdicts' = [Verdicts EXCEPT ![r] = v] /\ v \in {"approve", "reject"}
  BY <1>3, <1>4 DEF Verdicts
<1>6. Abstract!Decide(r)
  BY <1>2, <1>5 DEF Abstract!Decide, Plans, Positions, Statuses, Verdicts
<1> QED
  BY <1>6 DEF Abstract!Next

LEMMA NextMaps ==
  ASSUME PutDefinitions = {}, TypeInv, OwnInv, GateInv, CountInv, ReviewInv, [Next]_vars
  PROVE  [Abstract!Next]_(Abstract!runVars)
<1>1. CASE \E t \in Coroutines : Step(t)
  BY <1>1, StepMaps
<1>2. CASE \/ \E r \in Runs : ShowGate(r)
           \/ Crash \/ Restart \/ Recover \/ UNCHANGED vars
  <2>1. UNCHANGED <<definition, run, gateDecisions>>
    BY <1>2
    DEF ShowGate, Crash, Restart, Recover, RecoveryDies, RecoveryEnds, RecoverRun, GateInv,
        vars, storeVars
  <2> QED
    BY <2>1, Stutters
<1> QED
  BY <1>1, <1>2, CreateRunMaps, AcceptDecisionMaps DEF Next

------------------------------------------------------------------------------
(***************************************************************************)
(* ReviewInv is kept.                                                      *)
(***************************************************************************)
ReviewPCs == {"pause", "calling", "milestone", "continue"} \cup DecidedPCs

LEMMA SameReview ==
  ASSUME NEW t \in Coroutines, TaskReview(t), task'[t] = task[t],
         task[t].pc \in DecidedPCs =>
           gateDecisions'[task[t].run][task[t].index]
             = gateDecisions[task[t].run][task[t].index]
  PROVE  TaskReview(t)'
<1>1. CASE task[t].pc \in DecidedPCs
  BY <1>1 DEF TaskReview, LastDecision
<1>2. CASE task[t].pc \notin DecidedPCs
  BY <1>2 DEF TaskReview, DecidedPCs
<1> QED
  BY <1>1, <1>2

\* A coroutine that is not at a point ReviewInv speaks of.
LEMMA NoReview ==
  ASSUME NEW t \in Coroutines, task'[t].pc \notin ReviewPCs
  PROVE  TaskReview(t)'
  BY DEF TaskReview, ReviewPCs, DecidedPCs

LEMMA MovedRow ==
  ASSUME TasksOK, NEW t \in Coroutines, NEW pc, task' = [task EXCEPT ![t].pc = pc]
  PROVE  /\ task'[t].pc = pc
         /\ task'[t].run = task[t].run /\ task'[t].index = task[t].index
         /\ task'[t].steps = task[t].steps /\ task'[t].decision = task[t].decision
<1>1. task[t] \in TaskRow
  BY DEF TasksOK
<1> QED
  BY <1>1 DEF TasksOK, TaskRow

LEMMA StepReview ==
  ASSUME TypeInv, ReviewInv, NEW t \in Coroutines, Step(t)
  PROVE  ReviewInv'
<1>0. TasksOK /\ task[t] \in TaskRow /\ TaskReview(t)
  BY DEF TypeInv, TasksOK, ReviewInv
<1>1. Others(t)
  BY StepEffect
<1>2. gateDecisions' = gateDecisions
  BY <1>1 DEF Others
<1>3. ASSUME NEW u \in Coroutines, u # t PROVE TaskReview(u)'
  BY <1>1, <1>2, <1>3, SameReview DEF Others, ReviewInv
<1>4. TaskReview(t)'
  <2>1. CASE StartTeammateStep(t)
    <3> DEFINE at == run[task[t].run].index
               Row(pc, prompt) ==
                 [task[t] EXCEPT !.pc = pc, !.index = at, !.prompt = prompt]
    <3>1. PICK pc \in {"calling", "raised"} :
            \E prompt : task' = [task EXCEPT ![t] = Row(pc, prompt)]
      BY <2>1 DEF StartTeammateStep
    <3>2. task'[t].pc = pc /\ task'[t].index = at /\ task'[t].steps = task[t].steps
      <4>1. PICK prompt : task' = [task EXCEPT ![t] = Row(pc, prompt)]
        BY <3>1
      <4>2. /\ Row(pc, prompt).pc = pc /\ Row(pc, prompt).index = at
            /\ Row(pc, prompt).steps = task[t].steps
        BY <1>0 DEF TaskRow
      <4> HIDE DEF Row
      <4> QED
        BY <1>0, <4>1, <4>2 DEF TasksOK
    <3>3. IsTeammate(task[t].steps, at)
      BY <2>1 DEF StartTeammateStep
    <3> HIDE DEF at
    <3> QED
      BY <3>2, <3>3 DEF TaskReview, DecidedPCs, IsTeammate, Kind
  <2>2. CASE MarkAwaitingApproval(t)
    <3> DEFINE at == run[task[t].run].index
               row == [task[t] EXCEPT !.pc = "pause", !.index = at]
    <3>1. task' = [task EXCEPT ![t] = row] /\ IsGate(task[t].steps, at)
      BY <1>0, <2>2 DEF MarkAwaitingApproval, TasksOK
    <3>2. row.pc = "pause" /\ row.index = at /\ row.steps = task[t].steps
      BY <1>0 DEF TaskRow
    <3> HIDE DEF row
    <3>3. task'[t].pc = "pause" /\ task'[t].index = at /\ task'[t].steps = task[t].steps
      BY <1>0, <3>1, <3>2 DEF TasksOK
    <3> HIDE DEF at
    <3> QED
      BY <3>1, <3>3 DEF TaskReview, DecidedPCs, IsGate, Kind
  <2>3. CASE ModelAnswers(t) \/ StoreMilestone(t)
    <3>1. /\ task[t].pc \in {"calling", "milestone"}
          /\ \/ task' = [task EXCEPT ![t].pc = "milestone"]
             \/ task' = [task EXCEPT ![t].pc = "continue"]
      BY <2>3 DEF ModelAnswers, StoreMilestone, Holds, Wakes, Goto
    <3>2. /\ task'[t].pc \in {"milestone", "continue"}
          /\ task'[t].index = task[t].index /\ task'[t].steps = task[t].steps
      BY <1>0, <3>1, MovedRow
    <3> QED
      BY <1>0, <3>1, <3>2 DEF TaskReview, DecidedPCs
  <2>4. CASE RejectRecord(t) \/ ApproveRecord(t) \/ PropagateEdit(t)
    <3>1. \/ /\ task[t].pc = "decided" /\ task[t].decision.decision = "reject"
             /\ task' = [task EXCEPT ![t].pc = "reject"]
          \/ /\ task[t].pc = "decided" => task[t].decision.decision # "reject"
             /\ task[t].pc \in {"decided", "propagate"}
             /\ \/ task' = [task EXCEPT ![t].pc = "propagate"]
                \/ task' = [task EXCEPT ![t].pc = "continuation"]
      BY <2>4 DEF RejectRecord, ApproveRecord, PropagateEdit, Holds, Goto, Suspend
    <3>2. /\ task'[t].run = task[t].run /\ task'[t].index = task[t].index
          /\ \/ /\ task[t].pc = "decided" /\ task[t].decision.decision = "reject"
                /\ task'[t].pc = "reject"
             \/ /\ task[t].pc = "decided" => task[t].decision.decision # "reject"
                /\ task[t].pc \in {"decided", "propagate"}
                /\ task'[t].pc \in {"propagate", "continuation"}
      BY <1>0, <3>1, MovedRow
    <3> QED
      BY <1>0, <1>2, <3>2 DEF TaskReview, DecidedPCs, LastDecision
  <2>5. CASE \/ CreateNextRecord(t) \/ SetGoalAndSpawn(t) \/ AdvanceRaises(t)
             \/ ModelCallFails(t) \/ MoveToNextStep(t)
    <3>1. task'[t].pc \in {"create_records", "execute", "raised", "fail", "advance"}
      BY <1>0, <2>5, MovedRow, MovedTaskTo
      DEF CreateNextRecord, SetGoalAndSpawn, AdvanceRaises, ModelCallFails, MoveToNextStep,
          Goto, Holds, TasksOK, TaskRow
    <3> QED
      BY <3>1, NoReview DEF ReviewPCs, DecidedPCs
  <2>6. CASE \/ PauseRun(t) \/ BackstopFailsRun(t) \/ FailRun(t) \/ RejectRun(t)
             \/ CompleteRun(t)
    <3>1. Finish(t)
      BY <2>6 DEF PauseRun, BackstopFailsRun, FailRun, RejectRun, CompleteRun
    <3>2. task'[t].pc \in {"free", "recover"}
      BY <1>0, <3>1, FinishedTask
    <3> QED
      BY <3>2, NoReview DEF ReviewPCs, DecidedPCs
  <2> QED
    BY <2>1, <2>2, <2>3, <2>4, <2>5, <2>6 DEF Step
<1> QED
  BY <1>3, <1>4 DEF ReviewInv

LEMMA AcceptDecisionReview ==
  ASSUME SerialReview, TypeInv, OwnInv, ReviewInv, NEW t \in Tasks, NEW r \in Runs,
         NEW i \in Steps, NEW d \in Submissions, AcceptDecision(t, r, i, d)
  PROVE  ReviewInv'
<1> DEFINE row == [Coroutine("decided", r, i, definition[run[r].playbook])
                     EXCEPT !.decision = d]
<1>1. /\ t \in Coroutines /\ TasksOK
      /\ run[r].status = "paused" /\ active = Idle /\ ~ContinuationPending(r)
      /\ task' = [task EXCEPT ![t] = row]
  BY ConstantFacts, DecisionStored DEF AcceptDecision, Acceptable, Wakes, TypeInv
<1>2. row.pc = "decided" /\ row.run = r /\ row.index = i /\ row.decision = d
  BY DEF Coroutine
<1> HIDE DEF row
<1>3. TaskReview(t)'
  BY <1>1, <1>2, DecisionStored DEF TasksOK, TaskReview, LastDecision
<1>4. ASSUME NEW u \in Coroutines, u # t PROVE TaskReview(u)'
  <2>1. TaskReview(u) /\ task'[u] = task[u]
    BY <1>1, <1>4 DEF ReviewInv, TasksOK
  <2>2. CASE task[u].pc \in DecidedPCs
    <3>1. /\ task[u].run \in Runs /\ task[u].index \in Steps /\ Owns(u) /\ u # Idle
          /\ task[u].pc \in WorkingPCs
      BY <1>1, <2>2, AtWork, PCClasses DEF OwnInv
    <3>2. task[u].run # r
      BY <1>1, <2>2, <3>1 DEF Owns, ContinuationPending
    <3> QED
      BY <2>1, <3>1, <3>2, DecisionStored, SameReview
  <2>3. CASE task[u].pc \notin DecidedPCs
    BY <2>1, <2>3, SameReview
  <2> QED
    BY <2>2, <2>3
<1> QED
  BY <1>3, <1>4 DEF ReviewInv

LEMMA NextReviewInv ==
  ASSUME SerialReview, TypeInv, OwnInv, ReviewInv, [Next]_vars
  PROVE  ReviewInv'
<1>0. TasksOK
  BY DEF TypeInv
<1>1. CASE \E t \in Coroutines : Step(t)
  BY <1>1, StepReview
\* Everybody else stays, or comes to a point ReviewInv does not speak of.
<1>2. ASSUME gateDecisions' = gateDecisions,
             \A u \in Coroutines : task'[u] = task[u] \/ task'[u].pc \notin ReviewPCs
      PROVE  ReviewInv'
  BY <1>2, SameReview, NoReview DEF ReviewInv
<1>3. ASSUME NEW t \in Tasks, NEW p \in Playbooks, NEW r \in Runs, CreateRun(t, p, r)
      PROVE  ReviewInv'
  <2>1. /\ gateDecisions' = gateDecisions
        /\ task' = [task EXCEPT ![t] = Coroutine("create_records", r, 0, definition[p])]
    BY <1>3 DEF CreateRun
  <2> QED
    BY <1>0, <1>2, <2>1 DEF TasksOK, Coroutine, ReviewPCs, DecidedPCs
<1>4. CASE Recover
  <2>1. ASSUME NEW r \in Runs, RecoverRun(r) PROVE ReviewInv'
    <3>1. /\ gateDecisions' = gateDecisions
          /\ task' = [task EXCEPT ![Recovery] =
               Coroutine("advance", r, run[r].index, loaded[run[r].playbook])]
      BY <2>1 DEF RecoverRun
    <3> QED
      BY <1>0, <1>2, <3>1 DEF TasksOK, Coroutine, ReviewPCs, DecidedPCs
  <2>2. CASE RecoveryDies \/ RecoveryEnds
    <3>1. gateDecisions' = gateDecisions /\ task' = [task EXCEPT ![Recovery] = FreeTask]
      BY <2>2 DEF RecoveryDies, RecoveryEnds, storeVars
    <3> QED
      BY <1>0, <1>2, <3>1, PCClasses DEF TasksOK, ReviewPCs, DecidedPCs
  <2> QED
    BY <1>4, <2>1, <2>2 DEF Recover
<1>5. CASE Crash \/ Restart
  <2>1. gateDecisions' = gateDecisions
    BY <1>5 DEF Crash, Restart, storeVars
  <2>2. \A u \in Coroutines :
          task'[u] = task[u] \/ task'[u].pc \in {"free", "recover"}
    <3>1. CASE Crash
      BY <3>1, PCClasses DEF Crash
    <3>2. CASE Restart
      <4>1. task' = [task EXCEPT ![Recovery].pc = "recover"]
        BY <3>2 DEF Restart
      <4> QED
        BY <1>0, <4>1, MovedTask, ConstantFacts
    <3> QED
      BY <1>5, <3>1, <3>2
  <2> QED
    BY <1>2, <2>1, <2>2 DEF ReviewPCs, DecidedPCs
<1>6. ASSUME NEW r \in Runs, ShowGate(r) PROVE ReviewInv'
  BY <1>2, <1>6 DEF ShowGate, storeVars
<1>7. ASSUME NEW p \in Playbooks, NEW d \in PutDefinitions, UpdatePlaybook(p, d)
      PROVE  ReviewInv'
  BY <1>2, <1>7 DEF UpdatePlaybook, engineVars
<1>8. CASE UNCHANGED vars
  BY <1>2, <1>8 DEF vars, storeVars, engineVars
<1> QED
  BY <1>1, <1>3, <1>4, <1>5, <1>6, <1>7, <1>8, AcceptDecisionReview DEF Next

LEMMA InitReviewInv == Init => ReviewInv
<1> SUFFICES ASSUME Init, NEW t \in Coroutines PROVE TaskReview(t)
  BY DEF ReviewInv
<1>1. task[t].pc = "free"
  BY PCClasses DEF Init
<1> QED
  BY <1>1 DEF TaskReview, DecidedPCs

LEMMA InitMaps == Init => Abstract!Init
<1> SUFFICES ASSUME Init PROVE Abstract!Init
  OBVIOUS
<1>1. \A r \in Runs : run[r].status = "absent" /\ run[r].index = 0
  BY DEF Init, StoreInit, AbsentRun
<1>2. \A r \in Runs : Verdict(r) = "none"
  BY DEF Init, StoreInit, Verdict
<1> QED
  BY <1>1, <1>2 DEF Abstract!Init, Created

\* As long as decisions do not overlap and no stored playbook is replaced, what a client
\* reads is an execution of ReviewedRuns, for any number of runs, requests, decisions,
\* crashes and recoveries: one step at a time, a gate only on the reviewer's latest
\* word, one end (resume_with_decision, recover_interrupted_runs).
THEOREM Refinement ==
  SerialReview /\ PutDefinitions = {} => (Spec => ImplementsReviewedRuns)
<1> SUFFICES ASSUME SerialReview, PutDefinitions = {} PROVE Spec => ImplementsReviewedRuns
  OBVIOUS
<1> DEFINE Inv == TypeInv /\ OwnInv /\ GateInv /\ CountInv /\ ReviewInv
<1>1. Init => Inv
  BY InitTypeInv, InitOwnInv, InitGateInv, InitCountInv, InitReviewInv
<1>2. Inv /\ [Next]_vars => Inv'
  BY NextTypeInv, NextOwnInv, NextGateInv, NextCountInv, NextReviewInv
<1>3. Inv /\ [Next]_vars => [Abstract!Next]_(Abstract!runVars)
  BY NextMaps
<1>4. Init => Abstract!Init
  BY InitMaps
<1> HIDE DEF Inv
<1> QED
  BY <1>1, <1>2, <1>3, <1>4, PTL DEF Spec, ImplementsReviewedRuns, Abstract!Spec
==============================================================================
