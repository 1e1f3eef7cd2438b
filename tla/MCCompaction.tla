------------------------------ MODULE MCCompaction ------------------------------
(***************************************************************************)
(* Small conversations for Compaction.                                     *)
(***************************************************************************)
EXTENDS Compaction

MCSizes == {2, 5}
MCThresholds == {0, 6}
MCKeptTurns == 0 .. 2
==============================================================================
