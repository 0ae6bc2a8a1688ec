--------------------------- MODULE MCShardTransfer ---------------------------
(* Small instances of ShardTransfer for TLC. *)
EXTENDS ShardTransfer, TLC

CONSTANTS w1, w2, o1

TwoWorkers == {w1, w2}
OneOperation == {o1}
=============================================================================
