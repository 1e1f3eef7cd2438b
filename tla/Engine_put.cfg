CONSTANTS
  Runs = {1, 2}
  NoRun = NoRun
  p1 = p1
  Playbooks = {p1}
  Definitions <- MCRewrites
  MaxSteps = 3
  t1 = t1
  t2 = t2
  Tasks = {t1, t2}
  Recovery = Recovery
  Idle = Idle
  TemplateFiles <- MCTemplate
  PutDefinitions <- MCRewrites
  Submissions <- MCSubmissions
  SerialReview = TRUE
  MaxCrashes = 1
  MaxDecisions = 2
SPECIFICATION Spec
SYMMETRY MCSymmetry
INVARIANTS
  DriversAgree
  Frontier
PROPERTIES
  RunsOnlyAdvance
CHECK_DEADLOCK FALSE
