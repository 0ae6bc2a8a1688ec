---------------------------- MODULE GatewayCommit ----------------------------
(***************************************************************************)
(* The gateway's local commit path: sessions buffer DML, a COMMIT checks   *)
(* its idempotency key, queues for shard_commit_lock, filters its          *)
(* operations, refreshes the compiled view, writes one batch, flushes and  *)
(* publishes the epoch to the subscriptions. A batch is visible to every   *)
(* reader before it is durable.                                            *)
(*                                                                         *)
(* One table, one view SELECT DISTINCT over the value column, and one      *)
(* subscription to the table.                                              *)
(***************************************************************************)
EXTENDS Subscriptions

CONSTANTS
    Conns,      \* client connections
    RowKeys,    \* row keys: primary keys, or the ids of heap rows
    IdemKeys,   \* idempotency keys, one for each client transaction
    NoKey,      \* no SET rockstream.idempotency_key
    MaxOps,     \* operations a write buffer holds
    Loads       \* the work and the faults of an instance, see Init

ASSUME RowsAssumption == Vals \subseteq Nat \ {0} /\ NoKey \notin IdemKeys

VARIABLES
    store,      \* ShardDb: rows, view output, operator state, keys, frontier
    durable,    \* what a restart finds of it
    view,       \* the view in the catalog, see HasView
    arr,        \* DistinctOp's weights in memory
    pending,    \* pending_view_recovery names the view
    epochs,     \* last_epoch and allocated_epoch
    queue,      \* holder of shard_commit_lock and the COMMITs behind it
    conn,       \* per connection: block, write buffer, key, COMMIT under way
    load,       \* what is left of the work and the faults
    hist        \* what happened, for the properties

gatewayVars == <<store, durable, view, arr, pending, epochs, queue, conn>>
vars == <<gatewayVars, load, hist, log, sub>>

NoRow == 0

Spend(field) == load[field] > 0 /\ load' = [load EXCEPT ![field] = @ - 1]

-----------------------------------------------------------------------------
(* Rows and operations.                                                    *)

\* An operation [key, old, to, new]: an insert has no old image, a delete no
\* new one, an update both, and it moves the row when to # key.
Effect(rows, op) == [rows EXCEPT ![op.key] = NoRow, ![op.to] = op.new]

\* committed_dml_ops keeps an operation whose row is still as its statement
\* saw it.
Valid(rows, op) == rows[op.key] = op.old

\* The operations kept, the rows after them, and whether a moved row took the
\* place of another.
Committed(rows, ops) ==
    FoldLeft(LAMBDA r, op :
                IF ~Valid(r.rows, op) THEN r
                ELSE [rows |-> Effect(r.rows, op), ops |-> Append(r.ops, op),
                      over |-> r.over \/ (op.to # op.key /\ r.rows[op.to] # NoRow)],
             [rows |-> rows, ops |-> <<>>, over |-> FALSE], ops)

\* build_delta_zset_for_table: -1 for an old image, +1 for a new one.
Delta(ops) ==
    [v \in Vals |-> Cardinality({i \in DOMAIN ops : ops[i].new = v})
                    - Cardinality({i \in DOMAIN ops : ops[i].old = v})]

\* The change entries of an epoch.
Entries(ops) == Cardinality({i \in DOMAIN ops : ops[i].new # NoRow})
                + Cardinality({i \in DOMAIN ops : ops[i].old # NoRow})

\* full_table_zset: the table as a Z-set.
Counts(rows) == [v \in Vals |-> Cardinality({k \in RowKeys : rows[k] = v})]

\* DistinctOp emits where a weight crosses zero.
Crossing(old, new) ==
    [v \in Vals |-> IF old[v] <= 0 /\ new[v] > 0 THEN 1
                    ELSE IF old[v] > 0 /\ new[v] <= 0 THEN -1 ELSE 0]

\* append_distinct_state puts the entries and deletes those that went; other
\* keys of the operator are left as they are.
Persisted(state, old, new) ==
    [v \in Vals |-> IF old[v] # 0 \/ new[v] # 0 THEN new[v] ELSE state[v]]

-----------------------------------------------------------------------------
(* Statements.                                                             *)

FreshConn == [blk |-> "idle", buf |-> <<>>, key |-> NoKey, pc |-> "idle",
              ops |-> <<>>, pub |-> [epoch |-> 0, delta |-> Zero, size |-> 0],
              lost |-> FALSE]

\* applied counts, for the properties, the batches written under a key.
Init ==
    /\ store = [rows |-> [k \in RowKeys |-> NoRow], out |-> Zero, state |-> Zero,
                idem |-> {}, epoch |-> 0, applied |-> [k \in IdemKeys |-> 0]]
    /\ durable = store
    /\ view = "none"
    /\ arr = Zero
    /\ pending = FALSE
    /\ epochs = [last |-> 0, alloc |-> 0]
    /\ queue = <<>>
    /\ conn = [c \in Conns |-> FreshConn]
    /\ load \in Loads
    /\ hist = [acked |-> {}, overlap |-> {}, dropped |-> {}, early |-> {},
               emptied |-> {}, spoiled |-> FALSE]
    /\ log = EmptyLog
    /\ sub = NoSub

\* What a statement of the session sees: the table under its write buffer.
Image(c) == FoldLeft(Effect, store.rows, conn[c].buf)

\* dispatch_async_with_conn lets ensure_local_view_consistency go first; a
\* statement that got past it may still read while a COMMIT holds the lock.
LockHeld == \E c \in Conns : conn[c].pc \in {"writing", "flush"}
Dispatched(c) == conn[c].pc = "idle" /\ (pending => LockHeld)
Ready(c) == Dispatched(c) /\ conn[c].blk # "failed"

Begin(c) ==
    /\ Ready(c)
    /\ conn[c].blk = "idle"
    /\ Spend("blocks")
    /\ conn' = [conn EXCEPT ![c].blk = "open"]
    /\ UNCHANGED <<store, durable, view, arr, pending, epochs, queue, hist, log, sub>>

SetIdempotencyKey(c, k) ==
    /\ Ready(c)
    /\ conn[c].key # k
    /\ Spend("keys")
    /\ conn' = [conn EXCEPT ![c].key = k]
    /\ UNCHANGED <<store, durable, view, arr, pending, epochs, queue, hist, log, sub>>

\* The operation goes into the write buffer; outside a block a COMMIT follows.
Buffer(c, op) ==
    /\ Ready(c)
    /\ Len(conn[c].buf) < MaxOps
    /\ conn' = [conn EXCEPT ![c].buf = Append(@, op),
                            ![c].pc = IF conn[c].blk = "open" THEN "idle" ELSE "commit"]
    /\ UNCHANGED <<store, durable, view, arr, pending, epochs, queue, hist, log, sub>>

\* check_pk_exists, in the write buffer and in the store.
PkExists(c, k) == Image(c)[k] # NoRow

Insert(c, k, v) ==
    /\ ~PkExists(c, k)
    /\ Spend("stmts")
    /\ Buffer(c, [key |-> k, old |-> NoRow, to |-> k, new |-> v])

\* An update of the primary key moves the row.
Update(c, k, to, v) ==
    /\ Image(c)[k] \notin {NoRow, v}
    /\ IF to = k THEN Spend("stmts") ELSE ~PkExists(c, to) /\ Spend("moves")
    /\ Buffer(c, [key |-> k, old |-> Image(c)[k], to |-> to, new |-> v])

Delete(c, k) ==
    /\ PkExists(c, k)
    /\ Spend("stmts")
    /\ Buffer(c, [key |-> k, old |-> Image(c)[k], to |-> k, new |-> NoRow])

\* A statement of a block cannot read the table: the block has failed.
StatementFails(c) ==
    /\ Ready(c)
    /\ conn[c].blk = "open"
    /\ Spend("reads")
    /\ conn' = [conn EXCEPT ![c].blk = "failed"]
    /\ UNCHANGED <<store, durable, view, arr, pending, epochs, queue, hist, log, sub>>

Rollback(c) ==
    /\ Dispatched(c)
    /\ conn[c].blk # "idle"
    /\ conn' = [conn EXCEPT ![c].blk = "idle", ![c].buf = <<>>, ![c].lost = FALSE]
    /\ UNCHANGED <<store, durable, view, arr, pending, epochs, queue, load, hist, log, sub>>

-----------------------------------------------------------------------------
(* handle_commit, up to the lock.                                          *)

Committing(c) == conn[c].pc = "commit" \/ (Ready(c) /\ conn[c].blk = "open")

\* The session is told COMMIT: its block ends.
Answered(c) == [conn[c] EXCEPT !.pc = "idle", !.blk = "idle", !.buf = <<>>,
                               !.ops = <<>>, !.pub = FreshConn.pub, !.lost = FALSE]

\* The session is told an error: the operations that were drained are gone,
\* and a block stays open without them.
Refused(c) == [conn[c] EXCEPT !.pc = "idle", !.ops = <<>>, !.pub = FreshConn.pub,
                              !.lost = @ \/ conn[c].blk = "open"]

\* Nothing is in the buffer, the operations of a refused COMMIT included.
CommitEmpty(c) ==
    /\ Committing(c)
    /\ conn[c].buf = <<>>
    /\ conn' = [conn EXCEPT ![c] = Answered(c)]
    /\ hist' = IF conn[c].lost
               THEN [hist EXCEPT !.acked = @ \cup {conn[c].key},
                                 !.emptied = @ \cup {conn[c].key}]
               ELSE hist
    /\ UNCHANGED <<store, durable, view, arr, pending, epochs, queue, load, log, sub>>

\* A mutant of the next definition: the key is never looked up.
NeverKnown(k) == FALSE

KnownKey(k) == k \in store.idem

\* The key was committed before: the buffer is discarded.
CommitReplayed(c) ==
    /\ Committing(c)
    /\ conn[c].buf # <<>>
    /\ KnownKey(conn[c].key)
    /\ conn' = [conn EXCEPT ![c] = Answered(c)]
    /\ hist' = [hist EXCEPT !.acked = @ \cup {conn[c].key},
                            !.early = IF conn[c].key \in durable.idem THEN @
                                      ELSE @ \cup {conn[c].key}]
    /\ UNCHANGED <<store, durable, view, arr, pending, epochs, queue, load, log, sub>>

\* The key cannot be read: the buffer is kept.
KeyUnreadable(c) ==
    /\ Committing(c)
    /\ conn[c].buf # <<>>
    /\ conn[c].key # NoKey
    /\ Spend("reads")
    /\ conn' = [conn EXCEPT ![c].pc = "idle"]
    /\ UNCHANGED <<store, durable, view, arr, pending, epochs, queue, hist, log, sub>>

InFlight(k) ==
    \E d \in Conns : conn[d].pc \in {"queued", "writing", "flush"} /\ conn[d].key = k

\* The buffer is drained and the COMMIT waits for the lock.
Enqueue(c) ==
    /\ Committing(c)
    /\ conn[c].buf # <<>>
    /\ ~KnownKey(conn[c].key)
    /\ conn' = [conn EXCEPT ![c].ops = conn[c].buf, ![c].buf = <<>>, ![c].pc = "queued"]
    /\ queue' = Append(queue, c)
    /\ hist' = [hist EXCEPT !.overlap = IF conn[c].key # NoKey /\ InFlight(conn[c].key)
                                        THEN @ \cup {conn[c].key} ELSE @]
    /\ UNCHANGED <<store, durable, view, arr, pending, epochs, load, log, sub>>

-----------------------------------------------------------------------------
(* commit_local_ops, under shard_commit_lock.                              *)

\* "registered" and "written" are CREATE VIEW under way, "broken" one that
\* failed: the view is in the catalog all the same.
HasView == view \in {"registered", "written", "ready", "broken"}
Building == view \in {"registered", "written"}

Holder(c) == queue # <<>> /\ Head(queue) = c /\ conn[c].pc = "queued"

\* A mutant of the next definition: the weights in memory are kept.
KeptInMemory == arr

\* restore_in_place: the weights of the last batch written.
Restored == store.state

\* recover_pending_views_locked restores the views and flushes the store. A
\* view that was dropped cannot be restored.
Recoverable == pending => HasView
Recovered == IF pending THEN Restored ELSE arr
Flushed == IF pending THEN store ELSE durable

\* A subscriber that will not be told about an epoch.
Missed == [sub EXCEPT !.gap = @ \/ sub.st # "off"]

\* recover_pending_views_locked fails: the COMMIT is refused.
RecoveryFails(c) ==
    /\ Holder(c)
    /\ pending
    /\ \/ Recoverable /\ Spend("restores")
       \/ ~Recoverable /\ UNCHANGED load
    /\ conn' = [conn EXCEPT ![c] = Refused(c)]
    /\ queue' = Tail(queue)
    /\ UNCHANGED <<store, durable, view, arr, pending, epochs, hist, log, sub>>

\* committed_dml_ops cannot read the rows: the drained operations are gone.
RowsUnreadable(c) ==
    /\ Holder(c)
    /\ Recoverable
    /\ Spend("reads")
    /\ arr' = Recovered
    /\ durable' = Flushed
    /\ pending' = FALSE
    /\ conn' = [conn EXCEPT ![c] = Refused(c)]
    /\ queue' = Tail(queue)
    /\ hist' = [hist EXCEPT !.spoiled = @ \/ (pending /\ Building)]
    /\ UNCHANGED <<store, view, epochs, log, sub>>

\* Every operation lost its row meanwhile: COMMIT, and nothing is written.
CommitNothing(c) ==
    /\ Holder(c)
    /\ Recoverable
    /\ Committed(store.rows, conn[c].ops).ops = <<>>
    /\ arr' = Recovered
    /\ durable' = Flushed
    /\ pending' = FALSE
    /\ conn' = [conn EXCEPT ![c] = Answered(c)]
    /\ queue' = Tail(queue)
    /\ hist' = [hist EXCEPT !.acked = @ \cup {conn[c].key},
                            !.dropped = @ \cup {conn[c].key},
                            !.spoiled = @ \/ (pending /\ Building)]
    /\ UNCHANGED <<store, view, epochs, load, log, sub>>

\* The pipeline has processed the operations of c that are kept.
Processed(c) == Plus(Recovered, Delta(Committed(store.rows, conn[c].ops).ops))

\* The store with the batch.
Batch(c) ==
    LET kept == Committed(store.rows, conn[c].ops)
    IN [rows |-> kept.rows,
        out |-> IF HasView THEN Plus(store.out, Crossing(Recovered, Processed(c)))
                ELSE store.out,
        state |-> IF HasView THEN Persisted(store.state, Recovered, Processed(c))
                  ELSE store.state,
        idem |-> store.idem \cup ({conn[c].key} \ {NoKey}),
        epoch |-> epochs.alloc + 1,
        applied |-> [k \in IdemKeys |->
                        store.applied[k] + IF k = conn[c].key THEN 1 ELSE 0]]

Writes(c) ==
    /\ Holder(c)
    /\ Recoverable
    /\ Committed(store.rows, conn[c].ops).ops # <<>>

\* The refresh or the write fails and nothing is written. The views are
\* restored, or stay pending with the weights of the lost batch.
WriteFails(c) ==
    /\ Writes(c)
    /\ \/ /\ Spend("writes")
          /\ arr' = IF HasView THEN Restored ELSE arr
          /\ durable' = IF HasView THEN store ELSE durable
          /\ pending' = FALSE
       \/ /\ HasView
          /\ load.restores > 0 /\ load.writes > 0
          /\ load' = [load EXCEPT !.writes = @ - 1, !.restores = @ - 1]
          /\ arr' = Processed(c)
          /\ durable' = Flushed
          /\ pending' = TRUE
    /\ epochs' = [epochs EXCEPT !.alloc = @ + 1]
    /\ conn' = [conn EXCEPT ![c] = Refused(c)]
    /\ queue' = Tail(queue)
    /\ hist' = [hist EXCEPT !.spoiled = @ \/ Building]
    /\ UNCHANGED <<store, view, log, sub>>

\* ShardDb::write_batch, first half: the batch is visible, and the view is
\* pending until the flush.
WriteVisible(c) ==
    LET kept == Committed(store.rows, conn[c].ops)
    IN /\ Writes(c)
       /\ store' = Batch(c)
       /\ durable' = Flushed
       /\ arr' = IF HasView THEN Processed(c) ELSE arr
       /\ pending' = HasView
       /\ epochs' = [epochs EXCEPT !.alloc = @ + 1]
       /\ conn' = [conn EXCEPT ![c].pc = "writing",
                               ![c].pub = [epoch |-> epochs.alloc + 1,
                                           delta |-> Delta(kept.ops),
                                           size |-> Entries(kept.ops)]]
       /\ hist' = [hist EXCEPT !.spoiled = @ \/ Building \/ (HasView /\ kept.over)]
       /\ sub' = IF kept.over THEN Missed ELSE sub
       /\ UNCHANGED <<view, queue, load, log>>

\* The store's own flush of its log.
WalFlush ==
    /\ durable # store
    /\ durable' = store
    /\ UNCHANGED <<store, view, arr, pending, epochs, queue, conn, load, hist, log, sub>>

\* Second half: the batch is durable.
WriteDurable(c) ==
    /\ conn[c].pc = "writing"
    /\ durable = store
    /\ epochs' = [epochs EXCEPT !.last = conn[c].pub.epoch]
    /\ conn' = [conn EXCEPT ![c].pc = "flush"]
    /\ UNCHANGED <<store, durable, view, arr, pending, queue, load, hist, log, sub>>

\* Waiting for it fails, and the batch is visible all the same. The views are
\* restored and the store flushed, or they stay pending.
AwaitFails(c) ==
    /\ conn[c].pc = "writing"
    /\ \/ /\ Recoverable
          /\ Spend("lates")
          /\ arr' = Recovered
          /\ durable' = Flushed
          /\ pending' = FALSE
       \/ /\ pending
          /\ load.lates > 0 /\ (HasView => load.restores > 0)
          /\ load' = [load EXCEPT !.lates = @ - 1, !.restores = IF HasView THEN @ - 1 ELSE @]
          /\ UNCHANGED <<arr, durable, pending>>
    /\ conn' = [conn EXCEPT ![c] = Refused(c)]
    /\ queue' = Tail(queue)
    /\ hist' = [hist EXCEPT !.spoiled = @ \/ (pending /\ Building)]
    /\ sub' = Missed
    /\ UNCHANGED <<store, view, epochs, log>>

\* The epoch is flushed and published; the lock is released.
FlushSucceeds(c) ==
    /\ conn[c].pc = "flush"
    /\ pending' = FALSE
    /\ log' = PushEpoch(log, conn[c].pub)
    /\ conn' = [conn EXCEPT ![c] = Answered(c)]
    /\ queue' = Tail(queue)
    /\ hist' = [hist EXCEPT !.acked = @ \cup {conn[c].key}]
    /\ UNCHANGED <<store, durable, view, arr, epochs, load, sub>>

\* The flush fails: the epoch is durable and is never published.
FlushFails(c) ==
    /\ conn[c].pc = "flush"
    /\ Spend("flushes")
    /\ conn' = [conn EXCEPT ![c] = Refused(c)]
    /\ queue' = Tail(queue)
    /\ sub' = Missed
    /\ UNCHANGED <<store, durable, view, arr, pending, epochs, hist, log>>

\* Any statement first restores the views a failed COMMIT left behind.
EnsureViewConsistency ==
    /\ pending /\ ~LockHeld
    /\ Recoverable
    /\ arr' = Restored
    /\ durable' = store
    /\ pending' = FALSE
    /\ hist' = [hist EXCEPT !.spoiled = @ \/ Building]
    /\ UNCHANGED <<store, view, epochs, queue, conn, load, log, sub>>

-----------------------------------------------------------------------------
(* CREATE VIEW, DROP VIEW, SUBSCRIBE and restarts. None of them but        *)
(* SUBSCRIBE takes the lock. CREATE VIEW waits for each of its writes, and *)
(* so for what was written before.                                         *)

\* The view's output has a fresh id; its operator's is made from its name, so
\* the weights of a dropped view of that name are still in the store.
CreateView ==
    /\ view \in {"none", "dropped"}
    /\ pending => LockHeld
    /\ Spend("views")
    /\ view' = "registered"
    /\ arr' = Zero
    /\ store' = [store EXCEPT !.out = Zero]
    /\ durable' = store'
    /\ hist' = [hist EXCEPT !.spoiled = store.state # Zero]
    /\ UNCHANGED <<pending, epochs, queue, conn, log, sub>>

\* populate_compiled_view_from_scratch: the table is scanned and processed,
\* the output is written ...
Populate ==
    /\ view = "registered"
    /\ view' = IF Counts(store.rows) = Zero THEN "ready" ELSE "written"
    /\ arr' = Plus(arr, Counts(store.rows))
    /\ store' = [store EXCEPT !.out = Plus(@, Crossing(arr, arr'))]
    /\ durable' = IF store' = store THEN durable ELSE store'
    /\ UNCHANGED <<pending, epochs, queue, conn, load, hist, log, sub>>

\* ... and then the state.
PersistView ==
    /\ view = "written"
    /\ view' = "ready"
    /\ store' = [store EXCEPT !.state = Persisted(@, Zero, arr)]
    /\ durable' = store'
    /\ UNCHANGED <<arr, pending, epochs, queue, conn, load, hist, log, sub>>

PopulateFails ==
    /\ Building
    /\ Spend("writes")
    /\ view' = "broken"
    /\ UNCHANGED <<store, durable, arr, pending, epochs, queue, conn, hist, log, sub>>

\* The compiled view goes, even when it is to be restored.
DropView ==
    /\ view \in {"ready", "broken"}
    /\ pending => LockHeld
    /\ Spend("drops")
    /\ view' = "dropped"
    /\ UNCHANGED <<store, durable, arr, pending, epochs, queue, conn, hist, log, sub>>

\* SUBSCRIBE AS OF NOW WITH SNAPSHOT: the snapshot and its epoch are read
\* between two commits. It may hold rows that are not durable.
Subscribe ==
    /\ sub.st = "off"
    /\ ~LockHeld
    /\ Recoverable
    /\ Spend("subs")
    /\ arr' = Recovered
    /\ durable' = Flushed
    /\ pending' = FALSE
    /\ sub' = [st |-> "live", acc |-> Counts(store.rows), last |-> epochs.last,
               gap |-> Flushed.rows # store.rows]
    /\ hist' = [hist EXCEPT !.spoiled = @ \/ (pending /\ Building)]
    /\ UNCHANGED <<store, view, epochs, queue, conn, log>>

\* The gateway stops and starts again: what was in memory is rebuilt from the
\* store (recover_compiled_views), the replay log starts empty.
Restart ==
    /\ Spend("crashes")
    /\ view' = IF Building THEN "broken" ELSE view
    /\ store' = durable
    /\ arr' = durable.state
    /\ pending' = FALSE
    /\ epochs' = [last |-> durable.epoch, alloc |-> durable.epoch]
    /\ queue' = <<>>
    /\ conn' = [c \in Conns |-> FreshConn]
    /\ log' = EmptyLog
    /\ sub' = IF sub.st = "live" THEN [sub EXCEPT !.st = "away"] ELSE sub
    /\ UNCHANGED <<durable, hist>>

Follow ==
    \/ (Poll \/ Resume) /\ UNCHANGED load
    \/ Disconnect /\ Spend("breaks")

Next ==
    \/ \E c \in Conns :
        \/ Begin(c) \/ StatementFails(c) \/ Rollback(c)
        \/ \E k \in IdemKeys \cup {NoKey} : SetIdempotencyKey(c, k)
        \/ \E k \in RowKeys :
            \/ Delete(c, k)
            \/ \E v \in Vals : Insert(c, k, v) \/ \E to \in RowKeys : Update(c, k, to, v)
        \/ CommitEmpty(c) \/ CommitReplayed(c) \/ KeyUnreadable(c) \/ Enqueue(c)
        \/ RecoveryFails(c) \/ RowsUnreadable(c) \/ CommitNothing(c)
        \/ WriteFails(c) \/ WriteVisible(c) \/ WriteDurable(c) \/ AwaitFails(c)
        \/ FlushSucceeds(c) \/ FlushFails(c)
    \/ WalFlush
    \/ EnsureViewConsistency
    \/ CreateView \/ Populate \/ PersistView \/ PopulateFails \/ DropView
    \/ Subscribe \/ Restart
    \/ Follow /\ UNCHANGED <<gatewayVars, hist>>

\* The subscription's stream polls for as long as the client is connected.
Spec == Init /\ [][Next]_vars /\ WF_vars(Poll /\ UNCHANGED <<gatewayVars, load, hist>>)

-----------------------------------------------------------------------------
(* Properties.                                                             *)

\* A view that CREATE VIEW has confirmed is the query over the table: its
\* output and its persisted weights agree with the committed rows, whatever
\* COMMITs failed, were restored, or were cut by a restart before
\* (server.rs:3022). Excepted are the views hist.spoiled marks: a COMMIT ran
\* between their registration and their population, a moved row replaced
\* another, or the weights of a dropped view of that name were in the store.
ViewMatchesTable ==
    view = "ready" /\ ~hist.spoiled =>
        \A v \in Vals :
            /\ store.state[v] = Counts(store.rows)[v]
            /\ store.out[v] = IF Counts(store.rows)[v] > 0 THEN 1 ELSE 0

\* A client transaction that is sent again under its idempotency key, after an
\* error, a lost answer or a restart, is applied at most once: the batches that
\* survive hold the key once. One that was answered COMMIT has been applied
\* and survives every restart (server.rs:10365). Excepted are, for the first,
\* COMMITs of one key that overlap; for the second, a COMMIT whose rows had all
\* changed, one answered because of a key that was visible and not yet
\* durable, and one of a block whose operations a refused COMMIT had taken
\* from the buffer.
ExactlyOncePerKey ==
    \A k \in IdemKeys :
        /\ store.applied[k] > 1 => k \in hist.overlap
        /\ k \in hist.acked =>
              store.applied[k] > 0 \/ k \in hist.dropped \cup hist.early \cup hist.emptied

\* A subscriber that has read everything published sums up to the table:
\* across polls, evictions, resumptions and restarts it has missed no epoch
\* and seen none twice (subscribe_handler.rs:170, 377). Excepted are the
\* epochs that were written and reported as failed, which are never published,
\* a snapshot with rows that were not durable, and moved rows that replaced
\* another.
SubscriberIsExact ==
    sub.st = "live" /\ ~sub.gap /\ sub.last >= log.latest /\ ~LockHeld =>
        sub.acc = Counts(store.rows)

\* A connected subscriber that is behind is brought up to date or told that
\* it has to start again (subscribe_handler.rs:377).
SubscriberCatchesUp ==
    (sub.st = "live" /\ sub.last < log.latest)
        ~> (sub.st # "live" \/ sub.last >= log.latest)
==============================================================================
