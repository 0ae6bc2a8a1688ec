----------------------- MODULE MCCheckpointCoordinator -----------------------
(* A small instance of CheckpointCoordinator for TLC. *)
EXTENDS CheckpointCoordinator

CONSTANTS s1, s2, b1, r1, r2

TwoShards == {s1, s2}
OneTrigger == {b1}
TwoReporters == {r1, r2}
==============================================================================
