---------------------------- MODULE EngineRefinement ----------------------------
(***************************************************************************)
(* PlaybookEngine implements ReviewedRuns: its rows, read as a client      *)
(* reads them.                                                             *)
(***************************************************************************)
EXTENDS PlaybookEngine

\* The verdict on the step a run is at: the last stored decision about it.
Verdict(r) ==
  LET i == run[r].index
  IN  IF i \notin Steps \/ gateDecisions[r][i] = <<>> THEN "none"
      ELSE IF LastDecision(r, i).decision = "reject" THEN "reject" ELSE "approve"

Abstract == INSTANCE ReviewedRuns WITH
  Plans    <- Definitions,
  plan     <- [r \in Runs |-> IF Created(r) THEN StepsOf(r) ELSE <<>>],
  status   <- [r \in Runs |-> run[r].status],
  position <- [r \in Runs |-> run[r].index],
  verdict  <- [r \in Runs |-> Verdict(r)]

\* As long as decisions do not overlap and no playbook is replaced under a run, a
\* client sees runs that pass their gates on the reviewer's latest word, whatever
\* crashes and recoveries happen (resume_with_decision, recover_interrupted_runs).
ImplementsReviewedRuns == Abstract!Spec
==============================================================================
