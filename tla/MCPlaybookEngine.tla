--------------------------- MODULE MCPlaybookEngine ---------------------------
(***************************************************************************)
(* Values for the constants of PlaybookEngine, and the symmetry of its     *)
(* interchangeable identifiers.                                            *)
(***************************************************************************)
EXTENDS EngineRefinement, TLC

CONSTANT p1

\* Every gate directly after a teammate.
MCReviewed ==
  {<<"teammate", "approval_gate", "teammate">>,
   <<"teammate", "approval_gate">>, <<"teammate">>}

MCTwoGates ==
  {<<"teammate", "approval_gate", "teammate", "approval_gate", "teammate">>,
   <<"teammate", "teammate", "approval_gate">>}

MCNoDefinitions == {}
MCNoTemplates == <<>>

\* What a PUT may swap in: other kinds, a teammate whose tier has no model, a
\* shorter chain, none at all.
MCRewrites ==
  {<<"teammate", "approval_gate", "teammate">>, <<"approval_gate", "teammate">>,
   <<"unrouted">>, <<>>}
MCTemplate == [p \in {p1} |-> <<"teammate", "approval_gate", "teammate">>]

Approve == [decision |-> "approve", text |-> FALSE]
Edit == [decision |-> "edit", text |-> TRUE]
Reject == [decision |-> "reject", text |-> FALSE]
MCSubmissions == {Approve, Edit, Reject}

MCSymmetry == Permutations(Tasks)
==============================================================================
