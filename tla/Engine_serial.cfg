CONSTANTS
  Runs = {1}
  NoRun = NoRun
  p1 = p1
  Playbooks = {p1}
  Definitions <- MCTwoGates
  MaxSteps = 5
  t1 = t1
  t2 = t2
  Tasks = {t1, t2}
  Recovery = Recovery
  Idle = Idle
  TemplateFiles <- MCNoTemplates
  PutDefinitions <- MCNoDefinitions
  Submissions <- MCSubmissions
  SerialReview = TRUE
  MaxCrashes = 2
  MaxDecisions = 3
SPECIFICATION FairSpec
INVARIANTS
  PausedRunCanBeDecided
  OutcomeAgrees
  OneDecisionPerGate
  MilestonesMatchSteps
  PromptsTellTheRun
PROPERTIES
  ImplementsReviewedRuns
  RunsSettle
  DecisionsTakeEffect
CHECK_DEADLOCK FALSE
