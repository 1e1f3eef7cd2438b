--------------------------- MODULE MCPlaybookEditor ---------------------------
(***************************************************************************)
(* Values for the constants of PlaybookEditor.                             *)
(***************************************************************************)
EXTENDS PlaybookEditor

CONSTANTS gpt4o, n1, n2, n3, n4, k1, k2

MCTierOf == [m \in Models |-> "balanced"]

Node(kind, filled, model, tier) ==
  [kind |-> kind, filled |-> filled, model |-> model, tier |-> tier]

MCDraftNodes ==
  {Node("start", TRUE, NoModel, NoTier), Node("end", TRUE, NoModel, NoTier),
   Node("teammate", TRUE, NoModel, "balanced"),
   Node("teammate", FALSE, NoModel, "balanced")}

MCSymmetry == Permutations(Ids)
==============================================================================
