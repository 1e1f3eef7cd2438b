CONSTANTS
  c1 = c1
  c2 = c2
  Conversations = {c1, c2}
  Outputs = {o1, o2}
  Actions = {a1}
  TrailingK = 1
  MaxTurns = 2
  MaxTokens = 3
  TurnTokens = {1, 2}
  NotStored = NotStored
  NoAction = NoAction
  MaxObservations <- MCObservations
  MaxReads = 1
  MaxRestarts = 1
SPECIFICATION Spec
SYMMETRY MCSymmetry
INVARIANTS
  ReceiptsResolve
  ReceiptsStable
  StatsAreTrue
  SpendingIsBounded
PROPERTIES
  BlockedStaysBlocked
CHECK_DEADLOCK FALSE
