CONSTANTS
  Runs = {1, 2}
  NoRun = NoRun
  p1 = p1
  Playbooks = {p1}
  Definitions <- MCReviewed
  MaxSteps = 3
  t1 = t1
  t2 = t2
  Tasks = {t1, t2}
  Recovery = Recovery
  Idle = Idle
  TemplateFiles <- MCNoTemplates
  PutDefinitions <- MCNoDefinitions
  Submissions <- MCSubmissions
  SerialReview = TRUE
  MaxCrashes = 2
  MaxDecisions = 1
SPECIFICATION FairSpec
PROPERTIES
  RunsSettle
CHECK_DEADLOCK FALSE
