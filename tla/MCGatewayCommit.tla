--------------------------- MODULE MCGatewayCommit ---------------------------
(* Bounds of the gateway instance.                                         *)
EXTENDS GatewayCommit

\* Nothing fails and nobody does anything but the fields that are set.
Idle == [blocks |-> 0, keys |-> 0, stmts |-> 0, moves |-> 0, reads |-> 0, writes |-> 0,
         lates |-> 0, flushes |-> 0, restores |-> 0, views |-> 0, drops |-> 0,
         subs |-> 0, breaks |-> 0, crashes |-> 0]

SmallLoads == {
    \* a view over COMMITs that fail in every way
    [Idle EXCEPT !.stmts = 3, !.views = 1, !.writes = 1, !.restores = 1, !.flushes = 1],
    [Idle EXCEPT !.stmts = 2, !.views = 1, !.writes = 1, !.restores = 1, !.flushes = 1,
                 !.crashes = 1],
    \* retries under one key
    [Idle EXCEPT !.stmts = 2, !.blocks = 1, !.keys = 2, !.reads = 1, !.lates = 1,
                 !.flushes = 1, !.crashes = 1],
    \* a batch that is visible and reported as failed
    [Idle EXCEPT !.stmts = 2, !.views = 1, !.subs = 1, !.lates = 1, !.restores = 1,
                 !.crashes = 1],
    \* views that come and go
    [Idle EXCEPT !.stmts = 2, !.views = 2, !.drops = 1, !.flushes = 1],
    \* a moved row and an insert at its new place
    [Idle EXCEPT !.stmts = 2, !.moves = 1, !.views = 1, !.subs = 1],
    \* an epoch larger than the replay log
    [Idle EXCEPT !.stmts = 3, !.blocks = 1, !.subs = 1, !.breaks = 1],
    \* a subscriber
    [Idle EXCEPT !.stmts = 3, !.subs = 1, !.breaks = 1, !.crashes = 1, !.flushes = 1] }
==============================================================================
