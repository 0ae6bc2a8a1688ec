---------------------------- MODULE MCShardLeases ----------------------------
(* A small instance of ShardLeases for TLC. *)
EXTENDS ShardLeases, TLC

CONSTANTS c1, c2, w1, w2, s1, s2, k1, k2

TwoControls == {c1, c2}
TwoWorkers == {w1, w2}
TwoShards == {s1, s2}
TwoSessions == {k1, k2}

\* One control without raft, two sessions, every operation, and no fault.
Standalone == {
    [nodes |-> {c}, sessions |-> TwoSessions, raft |-> FALSE, orderly |-> FALSE,
     operations |-> {"request", "fence", "deploy", "deregister", "disconnect", "drain"},
     faults |-> {}] : c \in TwoControls}

\* Two controls that hand leadership over in order and fail, one session.
Failover == {
    [nodes |-> TwoControls, sessions |-> {k}, raft |-> TRUE, orderly |-> TRUE,
     operations |-> {"request", "fence"}, faults |-> {"crash", "put"}] : k \in TwoSessions}

StandaloneOrFailover == Standalone \cup Failover

Symmetry == Permutations(Controls) \cup Permutations(Workers)
            \cup Permutations(Shards) \cup Permutations(Sessions)
=============================================================================
