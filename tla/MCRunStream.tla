----------------------------- MODULE MCRunStream -----------------------------
(***************************************************************************)
(* Values for the constants of RunStream.                                  *)
(***************************************************************************)
EXTENDS RunStream

MCOneGate == {<<"teammate", "approval_gate">>}
MCNoDefinitions == {}
MCNoTemplates == <<>>
MCApproveOrReject ==
  {[decision |-> "approve", text |-> FALSE], [decision |-> "reject", text |-> FALSE]}
==============================================================================
