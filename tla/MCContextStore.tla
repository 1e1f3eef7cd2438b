----------------------------- MODULE MCContextStore -----------------------------
(***************************************************************************)
(* A longer and a shorter transcript over one store.                       *)
(***************************************************************************)
EXTENDS ContextStore, TLC

CONSTANTS c1, c2

MCObservations == (c1 :> 3) @@ (c2 :> 2)
MCSymmetry == Permutations(Outputs)
==============================================================================
