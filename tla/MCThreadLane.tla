---------------------------- MODULE MCThreadLane ----------------------------
(* Small instances of ThreadLane for TLC. *)
EXTENDS ThreadLane

MCCounts == {0, 1}
=============================================================================
