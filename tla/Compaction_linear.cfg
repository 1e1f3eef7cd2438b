CONSTANTS
  Sizes <- MCSizes
  Thresholds <- MCThresholds
  KeptTurns <- MCKeptTurns
  MaxTurns = 8
  MaxCompactions = 5
SPECIFICATION CompactionSpec
INVARIANT GrowsLogarithmically
CHECK_DEADLOCK FALSE
