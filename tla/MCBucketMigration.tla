-------------------------- MODULE MCBucketMigration --------------------------
(* A small instance of BucketMigration for TLC. *)
EXTENDS BucketMigration

CONSTANTS gateway

OneRouter == {gateway}

\* A bucket that can be verified, and one that cannot once it has two rows,
\* with a router that has reported the map version before this one.
TwoSetups ==
    {[window |-> 2, older |-> {}], [window |-> 1, older |-> {gateway}]}
==============================================================================
