CONSTANTS
  Runs = {1}
  NoRun = NoRun
  Playbooks = {p1}
  MaxSteps = 2
  Tasks = {t1}
  Recovery = Recovery
  Idle = Idle
  TemplateFiles <- MCNoTemplates
  PutDefinitions <- MCNoDefinitions
  Submissions <- MCApproveOrReject
  SerialReview = TRUE
  MaxDecisions = 1
  NoTab = NoTab
  NoConn = NoConn
  Tabs = {v1, v2}
  Conns = {c1, c2}
CHECK_DEADLOCK FALSE
CONSTANTS
  Definitions <- MCOneGate
  MaxCrashes = 1
SPECIFICATION FairStreamSpec
INVARIANTS
  NoLostTerminal
PROPERTIES
  QueueFollowsOwner
  EngineSpec
  GateReachesPage
