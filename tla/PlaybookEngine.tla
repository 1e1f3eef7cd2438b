---------------------------- MODULE PlaybookEngine ----------------------------
(***************************************************************************)
(* PlaybookRunner (agent_gateway/orchestrator/engine.py) over the rows of  *)
(* OrchestratorStore, with the requests of routes.py that start a run,     *)
(* decide a gate and replace a playbook, and the startup recovery of       *)
(* proxy/server.py.                                                        *)
(*                                                                         *)
(* One asyncio loop runs everything.  A coroutine gives the loop up only   *)
(* while it awaits the model (self.complete) or has been spawned and not   *)
(* started yet; every store statement between two such points is a step of *)
(* its own here because the process may die between two commits.           *)
(***************************************************************************)
EXTENDS OrchestratorStore

CONSTANTS
  Tasks,           \* the request handlers and background tasks that may exist
  Recovery,        \* the coroutine of recover_interrupted_runs
  Idle,            \* the loop when every coroutine waits
  TemplateFiles,   \* definitions seed_templates writes at startup, by playbook
  PutDefinitions,  \* definitions that PUT /v1/playbooks/{id} may install
  Submissions,     \* the bodies clients post to the gate endpoint
  SerialReview,    \* TRUE: no decision arrives for a run whose continuation
                   \* was spawned by the previous decision and has not started
  MaxCrashes,      \* bound: how often the process dies
  MaxDecisions     \* bound: decisions accepted per gate of a run

ASSUME EngineAssumption ==
  /\ Recovery \notin Tasks /\ Idle \notin Tasks /\ Recovery # Idle
  /\ PutDefinitions \subseteq Definitions
  /\ DOMAIN TemplateFiles \subseteq Playbooks
  /\ \A p \in DOMAIN TemplateFiles : TemplateFiles[p] \in Definitions
  /\ Submissions \subseteq DecisionRow
  /\ SerialReview \in BOOLEAN
  /\ MaxCrashes \in Nat /\ MaxDecisions \in Nat

VARIABLES
  task,       \* what each coroutine is doing, and its locals
  active,     \* the coroutine that holds the loop
  toRecover,  \* runs recovery has listed and not reached yet, first to last
  loaded,     \* playbooks_by_id, read at startup
  up,         \* the process is alive
  crashes,    \* how often it died
  shown       \* the gates of each run a reviewer has been shown

engineVars == <<task, active, toRecover, loaded, up, crashes, shown>>
vars == <<storeVars, engineVars>>

Coroutines == Tasks \cup {Recovery}

PCs == {"free", "create_records", "execute", "advance", "pause", "calling",
        "milestone", "fail", "raised", "continue", "continuation",
        "decided", "reject", "propagate", "recover"}

\* prompt: the output each earlier teammate contributes, "omitted" if none.
Prompts == [Steps -> Outputs \cup {"omitted"}]
EmptyPrompt == [i \in Steps |-> "omitted"]

TaskRow == [pc : PCs, run : Runs \cup {NoRun}, index : 0 .. MaxSteps,
            steps : Definitions \cup {<<>>}, prompt : Prompts,
            decision : DecisionRow]

NoDecision == [decision |-> "approve", text |-> FALSE]

Coroutine(pc, r, i, steps) ==
  [pc |-> pc, run |-> r, index |-> i, steps |-> steps, prompt |-> EmptyPrompt,
   decision |-> NoDecision]

FreeTask == Coroutine("free", NoRun, 0, <<>>)

Kind(steps, i) == steps[i + 1]
IsTeammate(steps, i) == i < Len(steps) /\ Kind(steps, i) \in Teammates
IsGate(steps, i) == i < Len(steps) /\ Kind(steps, i) \in Gates

Seeded(defs) ==
  [p \in Playbooks |-> IF p \in DOMAIN TemplateFiles THEN TemplateFiles[p]
                                                     ELSE defs[p]]

TypeOK ==
  /\ StoreTypeOK
  /\ task \in [Coroutines -> TaskRow]
  /\ active \in Coroutines \cup {Idle}
  /\ toRecover \subseteq Runs
  /\ loaded \in [Playbooks -> Definitions]
  /\ up \in BOOLEAN
  /\ crashes \in 0 .. MaxCrashes
  /\ shown \in [Runs -> SUBSET Steps]

Init ==
  /\ StoreInit
  /\ definition = Seeded(definition)
  /\ task = [t \in Coroutines |-> FreeTask]
  /\ active = Idle
  /\ toRecover = {}
  /\ loaded = definition
  /\ up = TRUE
  /\ crashes = 0
  /\ shown = [r \in Runs |-> {}]

(***************************************************************************)
(* The loop.                                                               *)
(***************************************************************************)
\* t holds the loop and is at pc.
Holds(t, pc) == up /\ active = t /\ task[t].pc = pc

\* The loop is idle and may resume t, which waits at pc.
Wakes(t, pc) == up /\ active = Idle /\ task[t].pc = pc

\* t reaches _advance: in sequence, or as the first step of _execute.
AtAdvance(t) == Holds(t, "advance") \/ Wakes(t, "execute")

\* t reaches _complete_step_and_continue, in sequence or as the first step of
\* _execute_continuation.
AtContinue(t) == Holds(t, "continue") \/ Wakes(t, "continuation")

\* t keeps the loop, or gives it up, at pc.
Goto(t, pc) == task' = [task EXCEPT ![t].pc = pc] /\ active' = t
Suspend(t, pc) == task' = [task EXCEPT ![t].pc = pc] /\ active' = Idle

\* t's run is driven as far as it goes: a task ends, recovery takes its next run.
Finish(t) ==
  IF t = Recovery
  THEN /\ task' = [task EXCEPT ![t] = [FreeTask EXCEPT !.pc = "recover"]]
       /\ active' = t
  ELSE /\ task' = [task EXCEPT ![t] = FreeTask]
       /\ active' = Idle

(***************************************************************************)
(* POST /v1/playbooks/{id}/runs: start_run.                                *)
(***************************************************************************)
CreateRun(t, p, r) ==
  /\ Wakes(t, "free") /\ t \in Tasks
  /\ run[r].status = "absent" /\ IsNextRow(r)
  /\ CreateRunRow(r, p)
  /\ task' = [task EXCEPT ![t] = Coroutine("create_records", r, 0, definition[p])]
  /\ active' = t
  /\ UNCHANGED <<definition, record, gateDecisions, blackboard,
                 toRecover, loaded, up, crashes, shown>>

CreateNextRecord(t) ==
  /\ Holds(t, "create_records")
  /\ task[t].index < Len(task[t].steps)
  /\ CreateStepRecord(task[t].run, task[t].index)
  /\ task' = [task EXCEPT ![t].index = @ + 1]
  /\ UNCHANGED <<definition, run, gateDecisions, blackboard, active,
                 toRecover, loaded, up, crashes, shown>>

\* The goal row, then asyncio.create_task(self._execute(...)).
SetGoalAndSpawn(t) ==
  /\ Holds(t, "create_records")
  /\ task[t].index = Len(task[t].steps)
  /\ SetGoal(task[t].run)
  /\ task' = [task EXCEPT ![t].pc = "execute", ![t].index = 0]
  /\ active' = Idle
  /\ UNCHANGED <<definition, run, record, gateDecisions,
                 toRecover, loaded, up, crashes, shown>>

(***************************************************************************)
(* _advance, _run_teammate_step, _pause_at_gate.                           *)
(***************************************************************************)
\* assemble_prompt: the completed teammate steps before step i.
AssemblePrompt(r, steps, i) ==
  [j \in Steps |->
     IF /\ j < i
        /\ record[r][j].status = "completed"
        /\ IsTeammate(steps, j)
     THEN record[r][j].output ELSE "omitted"]

\* playbook.steps[index] exists and the step has a record.
CanAdvance(t) ==
  LET r == task[t].run
      i == run[r].index
  IN  i < Len(task[t].steps) /\ record[r][i].status # "missing"

\* The record is marked before the tier is looked up: an unmapped tier raises
\* with the record already running.
StartTeammateStep(t) ==
  LET r == task[t].run
      i == run[r].index
      steps == task[t].steps
      routed == Kind(steps, i) = "teammate"
  IN  /\ AtAdvance(t) /\ CanAdvance(t)
      /\ IsTeammate(steps, i)
      /\ UpdateRecordStatus(r, i, "running")
      /\ task' = [task EXCEPT
           ![t].pc = IF routed THEN "calling" ELSE "raised",
           ![t].index = i,
           ![t].prompt = IF routed THEN AssemblePrompt(r, steps, i) ELSE @]
      /\ active' = IF routed THEN Idle ELSE t
      /\ UNCHANGED <<definition, run, gateDecisions, blackboard,
                     toRecover, loaded, up, crashes, shown>>

MarkAwaitingApproval(t) ==
  LET r == task[t].run
      i == run[r].index
  IN  /\ AtAdvance(t) /\ CanAdvance(t)
      /\ IsGate(task[t].steps, i)
      /\ UpdateRecordStatus(r, i, "awaiting_approval")
      /\ task' = [task EXCEPT ![t].pc = "pause", ![t].index = i]
      /\ active' = t
      /\ UNCHANGED <<definition, run, gateDecisions, blackboard,
                     toRecover, loaded, up, crashes, shown>>

PauseRun(t) ==
  /\ Holds(t, "pause")
  /\ UpdateRunStatus(task[t].run, "paused")
  /\ Finish(t)
  /\ UNCHANGED <<definition, record, gateDecisions, blackboard,
                 toRecover, loaded, up, crashes, shown>>

\* IndexError past the last step, or TypeError on a missing record.
AdvanceRaises(t) ==
  /\ AtAdvance(t) /\ ~CanAdvance(t)
  /\ Goto(t, "raised")
  /\ UNCHANGED <<storeVars, toRecover, loaded, up, crashes, shown>>

\* Mutant: forgets the milestone.
ModelAnswers_NoMilestone(t) ==
  /\ Wakes(t, "calling")
  /\ UpdateRecord(task[t].run, task[t].index, "completed", "llm")
  /\ Goto(t, "continue")
  /\ UNCHANGED <<definition, run, gateDecisions, blackboard,
                 toRecover, loaded, up, crashes, shown>>

\* self.complete returns: the output is stored ...
ModelAnswers(t) ==
  /\ Wakes(t, "calling")
  /\ UpdateRecord(task[t].run, task[t].index, "completed", "llm")
  /\ Goto(t, "milestone")
  /\ UNCHANGED <<definition, run, gateDecisions, blackboard,
                 toRecover, loaded, up, crashes, shown>>

\* ... and then the milestone.
StoreMilestone(t) ==
  /\ Holds(t, "milestone")
  /\ AddMilestone(task[t].run, task[t].index)
  /\ Goto(t, "continue")
  /\ UNCHANGED <<definition, run, record, gateDecisions,
                 toRecover, loaded, up, crashes, shown>>

\* Mutant: fails the run and leaves the record running.
ModelCallFails_NoRecord(t) ==
  /\ Wakes(t, "calling")
  /\ Goto(t, "fail")
  /\ UNCHANGED <<storeVars, toRecover, loaded, up, crashes, shown>>

\* self.complete raises: the reason is stored on the step, the run fails.
ModelCallFails(t) ==
  /\ Wakes(t, "calling")
  /\ UpdateRecord(task[t].run, task[t].index, "failed", "error")
  /\ Goto(t, "fail")
  /\ UNCHANGED <<definition, run, gateDecisions, blackboard,
                 toRecover, loaded, up, crashes, shown>>

FailRun(t) ==
  /\ Holds(t, "fail")
  /\ UpdateRunStatus(task[t].run, "failed")
  /\ Finish(t)
  /\ UNCHANGED <<definition, record, gateDecisions, blackboard,
                 toRecover, loaded, up, crashes, shown>>

\* The backstops of _execute and _execute_continuation.
BackstopFailsRun(t) ==
  /\ Holds(t, "raised") /\ t # Recovery
  /\ UpdateRunStatus(task[t].run, "failed")
  /\ Finish(t)
  /\ UNCHANGED <<definition, record, gateDecisions, blackboard,
                 toRecover, loaded, up, crashes, shown>>

\* recover_interrupted_runs has no backstop: the exception ends the coroutine.
RecoveryDies ==
  /\ Holds(Recovery, "raised")
  /\ task' = [task EXCEPT ![Recovery] = FreeTask]
  /\ active' = Idle
  /\ toRecover' = {}
  /\ UNCHANGED <<storeVars, loaded, up, crashes, shown>>

(***************************************************************************)
(* _complete_step_and_continue.                                            *)
(***************************************************************************)
CompleteRun(t) ==
  /\ AtContinue(t)
  /\ task[t].index + 1 >= Len(task[t].steps)
  /\ UpdateRunStatusAt(task[t].run, "completed", task[t].index + 1)
  /\ Finish(t)
  /\ UNCHANGED <<definition, record, gateDecisions, blackboard,
                 toRecover, loaded, up, crashes, shown>>

\* Mutant: advances the index and leaves the run paused.
MoveToNextStep_StaysPaused(t) ==
  /\ AtContinue(t)
  /\ task[t].index + 1 < Len(task[t].steps)
  /\ UpdateRunStatusAt(task[t].run, run[task[t].run].status, task[t].index + 1)
  /\ Goto(t, "advance")
  /\ UNCHANGED <<definition, record, gateDecisions, blackboard,
                 toRecover, loaded, up, crashes, shown>>

MoveToNextStep(t) ==
  /\ AtContinue(t)
  /\ task[t].index + 1 < Len(task[t].steps)
  /\ UpdateRunStatusAt(task[t].run, "running", task[t].index + 1)
  /\ Goto(t, "advance")
  /\ UNCHANGED <<definition, record, gateDecisions, blackboard,
                 toRecover, loaded, up, crashes, shown>>

(***************************************************************************)
(* POST /v1/playbooks/runs/{id}/gate: resume_with_decision.                *)
(***************************************************************************)
\* A reviewer sees a paused gate: the gate_paused frame, or the snapshot.
ShowGate(r) ==
  /\ up /\ active = Idle
  /\ run[r].status = "paused" /\ run[r].index \in Steps \ shown[r]
  /\ shown' = [shown EXCEPT ![r] = @ \cup {run[r].index}]
  /\ UNCHANGED <<storeVars, task, active, toRecover, loaded, up, crashes>>

\* Mutant: takes a decision in any state of the run.
Acceptable_AnyStatus(r, i) ==
  /\ IsGate(definition[run[r].playbook], run[r].index)
  /\ record[r][run[r].index].status # "missing"
  /\ i = run[r].index

\* Mutant: takes a decision for another step.
Acceptable_AnyStep(r, i) ==
  /\ run[r].status = "paused"
  /\ IsGate(definition[run[r].playbook], run[r].index)
  /\ record[r][run[r].index].status # "missing"

\* The checks of resume_with_decision; anything else is answered 409.
Acceptable(r, i) ==
  LET index == run[r].index
      steps == definition[run[r].playbook]
  IN  /\ run[r].status = "paused"
      /\ IsGate(steps, index)
      /\ record[r][index].status # "missing"
      /\ i = index

ContinuationPending(r) ==
  \E t \in Tasks : task[t].run = r /\ task[t].pc = "continuation"

\* A decision d posted for gate i by someone who was shown gate i: at once, late
\* or again.  The row is stored under the run's own index.
AcceptDecision(t, r, i, d) ==
  LET index == run[r].index
  IN  /\ Wakes(t, "free") /\ t \in Tasks
      /\ i \in shown[r]
      /\ Acceptable(r, i)
      /\ SerialReview => ~ContinuationPending(r)
      /\ Len(gateDecisions[r][index]) < MaxDecisions
      /\ RecordGateDecision(r, index, d)
      /\ task' = [task EXCEPT ![t] =
           [Coroutine("decided", r, index, definition[run[r].playbook])
              EXCEPT !.decision = d]]
      /\ active' = t
      /\ UNCHANGED <<definition, run, record, blackboard,
                     toRecover, loaded, up, crashes, shown>>

RejectRecord(t) ==
  /\ Holds(t, "decided") /\ task[t].decision.decision = "reject"
  /\ UpdateRecordStatus(task[t].run, task[t].index, "rejected")
  /\ Goto(t, "reject")
  /\ UNCHANGED <<definition, run, gateDecisions, blackboard,
                 toRecover, loaded, up, crashes, shown>>

RejectRun(t) ==
  /\ Holds(t, "reject")
  /\ UpdateRunStatus(task[t].run, "rejected")
  /\ Finish(t)
  /\ UNCHANGED <<definition, record, gateDecisions, blackboard,
                 toRecover, loaded, up, crashes, shown>>

\* The decision carries text and is an edit.
Edits(d) == d.decision = "edit" /\ d.text

\* _previous_step_record: the completed records before the gate, of any kind.
CompletedBefore(r, i) == {j \in Steps : j < i /\ record[r][j].status = "completed"}

\* Mutant: a rejection may fall through to approval.
ApproveRecord_FallThrough(t) ==
  /\ Holds(t, "decided")
  /\ UpdateRecordStatus(task[t].run, task[t].index, "completed")
  /\ Suspend(t, "continuation")
  /\ UNCHANGED <<definition, run, gateDecisions, blackboard,
                 toRecover, loaded, up, crashes, shown>>

\* Mutant: leaves the gate's record awaiting approval.
ApproveRecord_NoRecord(t) ==
  /\ Holds(t, "decided") /\ task[t].decision.decision # "reject"
  /\ Suspend(t, "continuation")
  /\ UNCHANGED <<storeVars, toRecover, loaded, up, crashes, shown>>

\* Mutant: forgets to spawn the continuation.
ApproveRecord_NoSpawn(t) ==
  /\ Holds(t, "decided") /\ task[t].decision.decision # "reject"
  /\ UpdateRecordStatus(task[t].run, task[t].index, "completed")
  /\ task' = [task EXCEPT ![t] = FreeTask] /\ active' = Idle
  /\ UNCHANGED <<definition, run, gateDecisions, blackboard,
                 toRecover, loaded, up, crashes, shown>>

\* The gate's record completes; an edit with a completed step before it goes on
\* to overwrite that step's output, anything else spawns the continuation.
ApproveRecord(t) ==
  LET r == task[t].run
      i == task[t].index
      d == task[t].decision
  IN  /\ Holds(t, "decided") /\ d.decision # "reject"
      /\ IF Edits(d) THEN UpdateRecord(r, i, "completed", "edited")
                     ELSE UpdateRecordStatus(r, i, "completed")
      /\ IF Edits(d) /\ CompletedBefore(r, i) # {}
         THEN Goto(t, "propagate")
         ELSE Suspend(t, "continuation")
      /\ UNCHANGED <<definition, run, gateDecisions, blackboard,
                     toRecover, loaded, up, crashes, shown>>

\* Mutant: overwrites the first completed step instead of the last.
PropagateEdit_First(t) ==
  LET r == task[t].run
      earlier == CompletedBefore(r, task[t].index)
      first == CHOOSE j \in earlier : \A k \in earlier : j <= k
  IN  /\ Holds(t, "propagate")
      /\ UpdateRecordOutput(r, first, "edited")
      /\ Suspend(t, "continuation")
      /\ UNCHANGED <<definition, run, gateDecisions, blackboard,
                     toRecover, loaded, up, crashes, shown>>

PropagateEdit(t) ==
  LET r == task[t].run
      earlier == CompletedBefore(r, task[t].index)
      previous == CHOOSE j \in earlier : \A k \in earlier : k <= j
  IN  /\ Holds(t, "propagate")
      /\ UpdateRecordOutput(r, previous, "edited")
      /\ Suspend(t, "continuation")
      /\ UNCHANGED <<definition, run, gateDecisions, blackboard,
                     toRecover, loaded, up, crashes, shown>>

(***************************************************************************)
(* PUT /v1/playbooks/{id}, for a canvas the compiler accepts.              *)
(***************************************************************************)
UpdatePlaybook(p, d) ==
  /\ up /\ active = Idle
  /\ d # definition[p]
  /\ UpsertPlaybook(p, d)
  /\ UNCHANGED <<run, record, gateDecisions, blackboard, engineVars>>

(***************************************************************************)
(* Crash, startup and recover_interrupted_runs.                            *)
(***************************************************************************)
\* The process dies, or shuts down: every coroutine is lost.
Crash ==
  /\ up /\ crashes < MaxCrashes
  /\ up' = FALSE
  /\ crashes' = crashes + 1
  /\ task' = [t \in Coroutines |-> FreeTask]
  /\ active' = Idle
  /\ toRecover' = {}
  /\ UNCHANGED <<storeVars, loaded, shown>>

\* Mutant: restarts failed runs as well.
Restart_FailedToo ==
  /\ ~up
  /\ up' = TRUE
  /\ definition' = Seeded(definition)
  /\ loaded' = Seeded(definition)
  /\ toRecover' = RunsByStatus("running") \cup RunsByStatus("failed")
  /\ task' = [task EXCEPT ![Recovery].pc = "recover"]
  /\ active' = Recovery
  /\ UNCHANGED <<run, record, gateDecisions, blackboard, crashes, shown>>

\* Mutant: no recovery at startup.
Restart_NoRecovery ==
  /\ ~up
  /\ up' = TRUE
  /\ definition' = Seeded(definition)
  /\ loaded' = Seeded(definition)
  /\ UNCHANGED <<run, record, gateDecisions, blackboard, crashes, shown,
                 task, active, toRecover>>

\* lifespan: seed the templates, read the playbooks, spawn recovery, whose first
\* step lists the running runs before any request is served.
Restart ==
  /\ ~up
  /\ up' = TRUE
  /\ definition' = Seeded(definition)
  /\ loaded' = Seeded(definition)
  /\ toRecover' = RunsByStatus("running")
  /\ task' = [task EXCEPT ![Recovery].pc = "recover"]
  /\ active' = Recovery
  /\ UNCHANGED <<run, record, gateDecisions, blackboard, crashes, shown>>

\* Mutant: recovers a run from its first step.
RecoverRun_FromStart(r) ==
  /\ Holds(Recovery, "recover")
  /\ IsFirst(r, toRecover)
  /\ toRecover' = toRecover \ {r}
  /\ UpdateRunStatusAt(r, "running", 0)
  /\ task' = [task EXCEPT ![Recovery] =
       Coroutine("advance", r, 0, loaded[run[r].playbook])]
  /\ UNCHANGED <<definition, record, gateDecisions, blackboard, active,
                 loaded, up, crashes, shown>>

\* The runs one after the other, in the order they were listed.
RecoverRun(r) ==
  LET i == run[r].index
  IN  /\ Holds(Recovery, "recover")
      /\ IsFirst(r, toRecover)
      /\ toRecover' = toRecover \ {r}
      /\ IF i \in Steps /\ record[r][i].status = "running"
         THEN ResetStepToPending(r, i)
         ELSE UNCHANGED record
      /\ task' = [task EXCEPT ![Recovery] =
           Coroutine("advance", r, i, loaded[run[r].playbook])]
      /\ UNCHANGED <<definition, run, gateDecisions, blackboard, active,
                     loaded, up, crashes, shown>>

RecoveryEnds ==
  /\ Holds(Recovery, "recover")
  /\ toRecover = {}
  /\ task' = [task EXCEPT ![Recovery] = FreeTask]
  /\ active' = Idle
  /\ UNCHANGED <<storeVars, toRecover, loaded, up, crashes, shown>>

------------------------------------------------------------------------------
\* Everything a coroutine does on its own once it exists.
Step(t) ==
  \/ CreateNextRecord(t) \/ SetGoalAndSpawn(t)
  \/ StartTeammateStep(t) \/ MarkAwaitingApproval(t) \/ PauseRun(t)
  \/ AdvanceRaises(t) \/ BackstopFailsRun(t)
  \/ ModelAnswers(t) \/ StoreMilestone(t) \/ ModelCallFails(t) \/ FailRun(t)
  \/ CompleteRun(t) \/ MoveToNextStep(t)
  \/ RejectRecord(t) \/ RejectRun(t) \/ ApproveRecord(t) \/ PropagateEdit(t)

Recover == RecoveryDies \/ RecoveryEnds \/ \E r \in Runs : RecoverRun(r)

Next ==
  \/ \E t \in Tasks, p \in Playbooks, r \in Runs : CreateRun(t, p, r)
  \/ \E t \in Coroutines : Step(t)
  \/ \E r \in Runs : ShowGate(r)
  \/ \E t \in Tasks, r \in Runs, i \in Steps, d \in Submissions :
       AcceptDecision(t, r, i, d)
  \/ \E p \in Playbooks, d \in PutDefinitions : UpdatePlaybook(p, d)
  \/ Crash \/ Restart \/ Recover

Spec == Init /\ [][Next]_vars

\* The loop runs whatever is ready, the HTTP client's timeout bounds each model
\* call, and a dead process is started again.
Fairness ==
  /\ \A t \in Coroutines : WF_vars(Step(t))
  /\ WF_vars(Recover)
  /\ WF_vars(Restart)

FairSpec == Spec /\ Fairness

(***************************************************************************)
(* What the engine promises.                                               *)
(***************************************************************************)
Created(r) == run[r].status # "absent"
StepsOf(r) == definition[run[r].playbook]
LastDecision(r, i) == gateDecisions[r][i][Len(gateDecisions[r][i])]

\* Someone answered gate i with approve or edit.
Approved(r, i) ==
  \E k \in DOMAIN gateDecisions[r][i] : gateDecisions[r][i][k].decision # "reject"

\* t works on r, or has been spawned to.
Drives(t, r) == task[t].pc # "free" /\ task[t].run = r
Drivers(r) == {t \in Coroutines : Drives(t, r)}

\* No run gets past an approval gate, and no teammate behind one is put to work,
\* without a stored decision that approves that very gate: whatever the order of
\* duplicated decisions, crashes and recoveries (resume_with_decision,
\* recover_interrupted_runs).
NoGateBypass ==
  \A r \in Runs, i \in Steps :
    /\ Created(r) /\ i < run[r].index /\ IsGate(StepsOf(r), i) => Approved(r, i)
    /\ \A t \in Coroutines :
         /\ task[t].pc = "calling" /\ task[t].run = r
         /\ i < task[t].index /\ IsGate(StepsOf(r), i)
         => Approved(r, i)

\* A decision counts only for the gate its author was shown: one posted for an
\* earlier gate that arrives at a later one is refused (the step_index check of
\* resume_with_decision).
NoUnseenDecision ==
  \A r \in Runs, i \in Steps : gateDecisions[r][i] # <<>> => i \in shown[r]

\* At most one coroutine works on a run: the request that starts or decides it,
\* its background task, or recovery (_spawn, recover_interrupted_runs).
OneDriver == \A r \in Runs : Cardinality(Drivers(r)) <= 1

\* The stored status tells who may act: a driver finds its run "running", or
\* "paused" from an accepted decision until its continuation moves on.
StatusMatchesDriver ==
  \A t \in Coroutines : \A r \in Runs : Drives(t, r) =>
    run[r].status =
      IF task[t].pc \in {"decided", "reject", "propagate", "continuation"}
      THEN "paused" ELSE "running"

\* Both: who may act on a run is one coroutine, and the run's row tells its kind.
DriversAgree == OneDriver /\ StatusMatchesDriver

\* Progress is a frontier: every step before current_step_index has a completed
\* record and no step after it was ever touched, at every commit, so also after
\* a crash at any of them.
Frontier ==
  \A r \in Runs, i \in Steps : Created(r) =>
    /\ i < run[r].index => record[r][i].status = "completed"
    /\ i > run[r].index => record[r][i].status \in {"pending", "missing"}

\* No coroutine works on r: what a client, or the next startup, finds.
Settled(r) == up /\ Drivers(r) = {} /\ r \notin toRecover

\* A finished run's records tell the same story as its status: the record is
\* always committed before the run row.  (A run whose creation a crash cut short
\* fails at the first step that has no record.)
OutcomeAgrees ==
  \A r \in Runs :
    /\ run[r].status = "rejected" => record[r][run[r].index].status = "rejected"
    /\ run[r].status = "failed" =>
         record[r][run[r].index].status \in {"failed", "missing"}
    /\ run[r].status = "completed" => run[r].index = Len(StepsOf(r))
    /\ run[r].status = "paused" /\ Settled(r) =>
         \/ record[r][run[r].index].status = "awaiting_approval"
         \/ gateDecisions[r][run[r].index] # <<>> /\ crashes > 0

\* A gate is decided once, and once more only when a crash lost the decision
\* between two of its commits (routes.py: a double-submitted decision is a 409).
OneDecisionPerGate ==
  \A r \in Runs, i \in Steps : Len(gateDecisions[r][i]) <= 1 + crashes

\* The blackboard holds a milestone for every teammate step a run has passed, and
\* a second one only where a crash made recovery repeat the step.
MilestonesMatchSteps ==
  \A r \in Runs, i \in Steps : Created(r) /\ IsTeammate(StepsOf(r), i) =>
    /\ i < run[r].index => blackboard[r].milestones[i] >= 1
    /\ blackboard[r].milestones[i] <= 1 + crashes

\* The teammate a gate reviews: the nearest one before it.
Reviewed(steps, g, j) ==
  /\ j < g /\ IsTeammate(steps, j)
  /\ \A k \in j + 1 .. g - 1 : ~IsTeammate(steps, k)

\* What a call tells the model: every earlier teammate's output, and in its place the
\* edit of a gate that was passed since (teammates read the record, not the gate).
PromptsTellTheRun ==
  \A t \in Coroutines : task[t].pc = "calling" =>
    \A j \in Steps : j < task[t].index /\ IsTeammate(task[t].steps, j) =>
      /\ task[t].prompt[j] \in {"llm", "edited"}
      /\ \A g \in Steps :
           /\ g < task[t].index /\ IsGate(task[t].steps, g)
           /\ Reviewed(task[t].steps, g, j)
           /\ Edits(LastDecision(task[t].run, g))
           => task[t].prompt[j] = "edited"

\* completed, failed and rejected are final.
TerminalIsFinal ==
  [][\A r \in Runs : run[r].status \in TerminalStatus => run'[r] = run[r]]_vars

\* A run never goes back to an earlier step, and one that ended changes no more, also
\* when its playbook is replaced or recovery meets it.
RunsOnlyAdvance ==
  [][\A r \in Runs :
       /\ run'[r].index >= run[r].index
       /\ run[r].status \in TerminalStatus => run'[r] = run[r]]_vars

\* Every step of the run's definition has a record: start_run ran to its end.
Whole(r) ==
  Created(r) /\ \A i \in 0 .. Len(StepsOf(r)) - 1 : record[r][i].status # "missing"

\* A run that was fully created does not stay "running": it pauses or ends, if need
\* be after a crash and a restart (recover_interrupted_runs).
RunsSettle ==
  \A r \in Runs : (run[r].status = "running" /\ Whole(r)) ~> run[r].status # "running"

\* A decision that was accepted takes the run out of its pause unless the process
\* dies first.
DecisionsTakeEffect ==
  \A r \in Runs, c \in 0 .. MaxCrashes :
    (crashes = c /\ \E t \in Tasks : Drives(t, r) /\ task[t].pc = "decided")
      ~> (crashes # c \/ run[r].status # "paused")

\* A paused run waits for a decision that would be accepted, also after crashes, as
\* long as its playbook is not replaced (resume_with_decision judges the run's index
\* against what is stored now).
PausedRunCanBeDecided ==
  \A r \in Runs : Settled(r) /\ run[r].status = "paused" =>
    Acceptable(r, run[r].index)
==============================================================================
