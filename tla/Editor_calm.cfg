CONSTANTS
  n1 = n1
  n2 = n2
  n3 = n3
  n4 = n4
  Ids = {n1, n2, n3, n4}
  Ghost = Ghost
  gpt4o = gpt4o
  Models = {gpt4o}
  TierOf <- MCTierOf
  DefaultModel = gpt4o
  NoModel = NoModel
  DraftNodes <- MCDraftNodes
  Blocks = {"teammate", "visual"}
  k1 = k1
  k2 = k2
  Slots = {k1, k2}
  MaxDraftNodes = 3
  MaxDraftEdges = 3
  Calm = TRUE
  Lossy = {"sent"}
SPECIFICATION Spec
INVARIANTS
  AcceptsExactlyChains
  MirrorAgrees
  EdgesStayLinear
  BelievedSavedIsSaved
  
SYMMETRY MCSymmetry
