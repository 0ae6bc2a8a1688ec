--------------------------- MODULE SourceRuntime ---------------------------
(***************************************************************************)
(* The source side of a materialized view: the worker that takes a Kafka   *)
(* topic through backfill and then live polling (backfill_bound_source and *)
(* run_live_source_worker of the gateway), the consumer it polls           *)
(* (KafkaSource), and the coordinator that commits each batch              *)
(* (SourceRuntimeCoordinator over SourceCheckpointStore).                  *)
(*                                                                         *)
(* A batch becomes durable in one write, the M3 write: the view's output,  *)
(* the pipeline's state, the committed source checkpoint and the backfill  *)
(* lifecycle with its cursor.  Only then is the offset acknowledged to the *)
(* broker.  Rows are the offsets of one partition, 0, 1, 2, ...            *)
(*                                                                         *)
(* The module has no specification of its own: SourceToSink composes it    *)
(* with the sink and with crashes.                                         *)
(***************************************************************************)
EXTENDS Integers, Sequences, FiniteSets, FiniteSetsExt

CONSTANTS
    MaxRows,        \* bound: rows the upstream topic may come to hold
    RowLimit,       \* records one poll may return (BACKFILL_BATCH_MAX_ROWS)
    Slots,          \* SOURCE_CHECKPOINT_HISTORY_MAX_ENTRIES
    MaxInFlight,    \* SOURCE_RUNTIME_MAX_IN_FLIGHT_EPOCHS
    MaxEpoch,       \* bound: epochs the shard may allocate
    Loads           \* the fault budgets and poll sizes of the instance

ASSUME SourceAssumption ==
    /\ MaxRows \in Nat /\ RowLimit \in Nat \ {0}
    /\ Slots \in Nat \ {0} /\ MaxInFlight \in Nat \ {0} /\ MaxEpoch \in Nat
    /\ Loads \subseteq [bytes : Nat \ {0}, writes : Nat, acks : Nat,
                        batches : Nat, refused : SUBSET Nat, consumer : Nat,
                        broker : Nat, envelope : Nat \ {0}, debts : SUBSET Nat,
                        crashes : Nat, retries : Nat]

VARIABLES
    produced,       \* records in the upstream partition
    acked,          \* the consumer group's committed offset at the broker
    consumer,       \* KafkaSource: position, pending_record, last_polled
    store,          \* durable: lifecycle, pipeline state, checkpoint history
    view,           \* durable: the view's output log, a sequence of epochs
    runtime,        \* SourceRuntimeCoordinator: current epoch, in-flight count,
                    \* and whether the live worker or a backfill drives it
    pipeline,       \* the compiled view's state in memory
    dirty,          \* pending_view_recovery names the view
    allocated,      \* ShardDb::allocated_epoch
    worker,         \* where the worker stands
    job,            \* the batch being committed
    load            \* the budgets of this behaviour still unspent

sourceVars == <<produced, acked, consumer, store, view, runtime, pipeline,
                dirty, allocated, worker, job>>

NoRow == -1
NoJob == [epoch |-> 0, offset |-> 0, rows |-> << >>, phase |-> "None"]
NoCheckpoint == [epoch |-> 0, offset |-> 0]
Phases == {"None", "Snapshotting", "CatchingUp", "Running"}

-----------------------------------------------------------------------------
(* The checkpoint history: a ring of slots, one key per epoch modulo its   *)
(* length, separately for prepared and for committed records.              *)

SlotOf(epoch) == epoch % Slots

\* highest_committed: the newest committed record; prepared ones do not count.
HighestCommitted(st) ==
    LET all == { st.committed[s] : s \in 0..(Slots - 1) }
    IN  CHOOSE c \in all : \A d \in all : d.epoch <= c.epoch

\* prepare: the record that announces an epoch, ignored by recovery.
WithPrepared(st, j) ==
    [st EXCEPT !.prepared[SlotOf(j.epoch)] =
        [epoch |-> j.epoch, offset |-> j.offset]]

\* What the M3 write makes durable besides the view's output: the pipeline
\* state, the committed checkpoint (deleting the prepared one of its slot)
\* and the lifecycle with its cursor.
WithCommitted(st, j) ==
    [st EXCEPT !.phase = j.phase,
               !.cursor = j.offset,
               !.frontier = j.epoch,
               !.state = pipeline,
               !.committed[SlotOf(j.epoch)] =
                    [epoch |-> j.epoch, offset |-> j.offset],
               !.prepared[SlotOf(j.epoch)] = NoCheckpoint]

-----------------------------------------------------------------------------
(* Faults.  A write of the shard store is applied and reported so ("ok"),  *)
(* not applied ("failed"), or applied and durable while the flush that     *)
(* follows reports an error ("late").                                      *)

Outcomes(budget) == IF load[budget] > 0 THEN {"ok", "failed", "late"} ELSE {"ok"}

Spend(budget, outcome) ==
    load' = IF outcome = "ok" THEN load
            ELSE [load EXCEPT ![budget] = @ - 1]

Lands(outcome) == outcome # "failed"

-----------------------------------------------------------------------------
\* KafkaSource::connect: a new consumer starts from the group's offset.
FreshConsumer == [position |-> acked, pending |-> NoRow, lastPolled |-> NoRow]

SourceInit ==
    /\ produced = 0
    /\ acked = 0
    /\ consumer = [position |-> 0, pending |-> NoRow, lastPolled |-> NoRow]
    /\ store = [phase |-> "None", cursor |-> 0, frontier |-> 0, state |-> << >>,
                committed |-> [s \in 0..(Slots - 1) |-> NoCheckpoint],
                prepared |-> [s \in 0..(Slots - 1) |-> NoCheckpoint]]
    /\ view = << >>
    /\ runtime = [epoch |-> 0, inFlight |-> 0, live |-> FALSE]
    /\ pipeline = << >>
    /\ dirty = FALSE
    /\ allocated = 0
    /\ worker = "start"
    /\ job = NoJob
    /\ load \in Loads

\* External: a client appends a record upstream.
Produce ==
    /\ produced < MaxRows
    /\ produced' = produced + 1
    /\ UNCHANGED <<acked, consumer, store, view, runtime, pipeline, dirty,
                   allocated, worker, job, load>>

\* A worker begins: it builds a consumer and a coordinator, recovers the
\* highest committed checkpoint, takes the owner lease and reads the view's
\* lifecycle.  Without one it first captures the fence and records the intent;
\* a view already running goes on with the live worker.
StartWorker ==
    /\ worker = "start"
    /\ consumer' = FreshConsumer
    /\ runtime' = [epoch |-> HighestCommitted(store).epoch, inFlight |-> 0,
                   live |-> store.phase = "Running"]
    /\ worker' = IF store.phase = "None" THEN "intent" ELSE "poll"
    /\ UNCHANGED <<produced, acked, store, view, pipeline, dirty, allocated,
                   job, load>>

\* persist_backfill_intent; an error ends the backfill.
PersistIntent ==
    /\ worker = "intent"
    /\ \E outcome \in Outcomes("writes") :
        /\ Spend("writes", outcome)
        /\ store' = IF Lands(outcome) THEN [store EXCEPT !.phase = "Snapshotting"]
                    ELSE store
        /\ worker' = IF outcome = "ok" THEN "poll" ELSE "stopped"
    /\ UNCHANGED <<produced, acked, consumer, view, runtime, pipeline, dirty,
                   allocated, job>>

-----------------------------------------------------------------------------
(* Polling.                                                                *)

\* What a failed poll or commit leaves the worker with: the live loop logs it and
\* polls again, the backfill returns the error.
AfterError == IF runtime.live THEN "poll" ELSE "stopped"

\* seek_recovery_offset moves the consumer unless the last poll ended where
\* this one starts.
SeekFrom(after) ==
    IF consumer.lastPolled = after THEN consumer.position ELSE after

\* The records a poll that starts after `after` accepts when it reads the
\* stashed record and then the partition up to `stop`: one below the offset
\* reached so far is a replayed duplicate and is dropped.
Accepted(after, stop) ==
    LET stash == consumer.pending # NoRow /\ consumer.pending >= after
        base  == IF stash THEN consumer.pending + 1 ELSE after
        first == Max({SeekFrom(after), base})
    IN  (IF stash THEN <<consumer.pending>> ELSE << >>)
          \o [i \in 1..Max({0, stop - first}) |-> first + i - 1]

EndOffset(after, rows) == IF rows = << >> THEN after ELSE rows[Len(rows)] + 1

\* What a poll that has read up to `stop` may have stashed: the next record,
\* when that would exceed the byte limit before the record limit is reached.
\* Every record weighs one byte here, so none exceeds the limit by itself.
Stashable(after, stop) ==
    LET rows == Accepted(after, stop)
        over == /\ Len(rows) = load.bytes /\ Len(rows) < RowLimit
                /\ stop >= EndOffset(after, rows) /\ stop < produced
    IN  IF over THEN {stop, NoRow} ELSE {NoRow}

\* Where a poll from `after` may stop reading: the row limit and the byte limit
\* bound what it accepts.
Stops(after) ==
    { stop \in SeekFrom(after)..Max({SeekFrom(after), produced}) :
        Len(Accepted(after, stop)) <= Min({RowLimit, load.bytes}) }

ReadTo(stop, stash) == IF stash = NoRow THEN stop ELSE stop + 1

\* poll_delta from the view's durable cursor.  A record read over the byte
\* limit is stashed for the next poll.  An empty poll ends the catch-up, whose
\* last commit publishes the view; a live worker just polls again.
Poll ==
    LET after == store.cursor IN
    /\ worker = "poll"
    /\ \E stop \in Stops(after) :
         LET rows == Accepted(after, stop) IN
         /\ \E stash \in Stashable(after, stop) :
              consumer' = [position   |-> ReadTo(stop, stash),
                           pending    |-> stash,
                           lastPolled |-> EndOffset(after, rows)]
         /\ IF rows = << >> /\ runtime.live
            THEN UNCHANGED <<worker, job>>
            ELSE /\ worker' = "begin"
                 /\ job' = [epoch |-> 0, offset |-> EndOffset(after, rows),
                            rows |-> rows,
                            phase |-> IF rows = << >> \/ runtime.live
                                      THEN "Running" ELSE "CatchingUp"]
    /\ UNCHANGED <<produced, acked, store, view, runtime, pipeline, dirty,
                   allocated, load>>

\* A poll fails.  Before it has read anything (refresh_assignment, the seek)
\* the consumer is as it was.  Afterwards (recv, a record without payload, the
\* second refresh_assignment, build_batch) restore_poll_position seeks back to
\* where the poll began, and when that fails too, last_polled is left empty so
\* that the next poll seeks; a record stashed by then stays stashed.  A live
\* worker polls again, a backfill ends.
PollFails ==
    LET after == store.cursor IN
    /\ worker = "poll"
    /\ load.batches > 0
    /\ load' = [load EXCEPT !.batches = @ - 1]
    /\ \/ UNCHANGED consumer
       \/ \E stop \in Stops(after), sought \in BOOLEAN :
          \E stash \in Stashable(after, stop) :
            consumer' = [position   |-> IF sought THEN after ELSE ReadTo(stop, stash),
                         pending    |-> stash,
                         lastPolled |-> IF sought THEN after ELSE NoRow]
    /\ worker' = AfterError
    /\ UNCHANGED <<produced, acked, store, view, runtime, pipeline, dirty,
                   allocated, job>>

\* The batch holds a row that no worker accepts: its Arrow arrays take more
\* memory than BACKFILL_LIVE_DELTA_MAX_BYTES, or it does not decode to an
\* operation on the table.
Refused == \E i \in DOMAIN job.rows : job.rows[i] \in load.refused

\* The worker gives such a batch up before it takes an epoch.  The consumer
\* has moved, and keeps what it has stashed.
RefuseBatch ==
    /\ worker = "begin" /\ Refused
    /\ worker' = AfterError
    /\ job' = NoJob
    /\ UNCHANGED <<produced, acked, consumer, store, view, runtime, pipeline,
                   dirty, allocated, load>>

\* The live loop ends, for good, when it cannot read the view's lifecycle.
LifecycleUnreadable ==
    /\ worker = "poll" /\ runtime.live
    /\ load.consumer > 0
    /\ load' = [load EXCEPT !.consumer = @ - 1]
    /\ worker' = "stopped"
    /\ UNCHANGED <<produced, acked, consumer, store, view, runtime, pipeline,
                   dirty, allocated, job>>

\* External: the group rebalances and the partition comes back, read from the
\* group's offset; a refresh that saw it gone has dropped the stashed record.
Rebalance ==
    /\ load.consumer > 0
    /\ worker \in {"poll", "begin", "prepare", "m3", "ack"}
    /\ load' = [load EXCEPT !.consumer = @ - 1]
    /\ \E p \in {consumer.pending, NoRow} :
         consumer' = [consumer EXCEPT !.position = acked, !.pending = p]
    /\ UNCHANGED <<produced, acked, store, view, runtime, pipeline, dirty,
                   allocated, worker, job>>

-----------------------------------------------------------------------------
(* Committing.  All of it runs under the shard's commit lock.              *)

\* recover_pending_views_locked: a view whose last commit did not come back
\* clean is restored from the store before it processes anything more.
NeverRestored == pipeline
RestoredPipeline == IF dirty THEN store.state ELSE pipeline

\* The restore itself fails: the commit is given up before it took an epoch.
RestoreFails ==
    /\ worker = "begin" /\ ~Refused /\ dirty
    /\ load.writes > 0
    /\ load' = [load EXCEPT !.writes = @ - 1]
    /\ worker' = AfterError
    /\ job' = NoJob
    /\ UNCHANGED <<produced, acked, consumer, store, view, runtime, pipeline,
                   dirty, allocated>>

\* commit_bound_source_ops up to the coordinator: restore, take an epoch, run
\* the pipeline over the batch; then commit_backfill_epoch's checks.
BeginCommit ==
    LET epoch == Max({allocated, store.frontier}) + 1 IN
    /\ worker = "begin" /\ ~Refused
    /\ epoch <= MaxEpoch
    /\ allocated' = epoch
    /\ pipeline' = RestoredPipeline \o job.rows
    /\ dirty' = TRUE
    /\ IF runtime.inFlight >= MaxInFlight \/ epoch <= runtime.epoch
       THEN worker' = AfterError /\ job' = NoJob
       ELSE worker' = "prepare" /\ job' = [job EXCEPT !.epoch = epoch]
    /\ UNCHANGED <<produced, acked, consumer, store, view, runtime, load>>

\* commit_bound_source_ops fails between the epoch and the coordinator: the
\* compiled view is gone or the input cannot be built, before the view is named
\* for recovery; or the pipeline fails, or its state cannot be appended.
ProcessFails ==
    LET epoch == Max({allocated, store.frontier}) + 1 IN
    /\ worker = "begin" /\ ~Refused
    /\ epoch <= MaxEpoch
    /\ load.batches > 0
    /\ load' = [load EXCEPT !.batches = @ - 1]
    /\ allocated' = epoch
    /\ \/ dirty' = FALSE /\ pipeline' = RestoredPipeline
       \/ dirty' = TRUE /\ pipeline' \in {RestoredPipeline, RestoredPipeline \o job.rows}
    /\ worker' = AfterError
    /\ job' = NoJob
    /\ UNCHANGED <<produced, acked, consumer, store, view, runtime>>

Prepare ==
    /\ worker = "prepare"
    /\ \E outcome \in Outcomes("writes") :
        /\ Spend("writes", outcome)
        /\ store' = IF Lands(outcome) THEN WithPrepared(store, job) ELSE store
        /\ IF outcome = "ok"
           THEN /\ runtime' = [runtime EXCEPT !.inFlight = @ + 1]
                /\ worker' = "m3"
                /\ UNCHANGED job
           ELSE /\ worker' = AfterError
                /\ job' = NoJob
                /\ UNCHANGED runtime
    /\ UNCHANGED <<produced, acked, consumer, view, pipeline, dirty, allocated>>

\* A commit that fails gives its place in the in-flight count back.
GiveBack(r) == [r EXCEPT !.inFlight = @ - 1]

\* commit_m3 and what follows it before the acknowledgement.
CommitM3 ==
    /\ worker = "m3"
    /\ \E outcome \in Outcomes("writes") :
        /\ Spend("writes", outcome)
        /\ IF Lands(outcome)
           THEN /\ store' = WithCommitted(store, job)
                /\ view' = IF job.rows = << >> THEN view
                           ELSE Append(view, [epoch |-> job.epoch, rows |-> job.rows])
           ELSE UNCHANGED <<store, view>>
        /\ IF outcome = "ok"
           THEN /\ runtime' = [runtime EXCEPT !.epoch = job.epoch]
                /\ worker' = "ack"
                /\ UNCHANGED job
           ELSE /\ runtime' = GiveBack(runtime)
                /\ worker' = AfterError
                /\ job' = NoJob
    /\ UNCHANGED <<produced, acked, consumer, pipeline, dirty, allocated>>

\* The offset the broker is told: the one that was committed.
PositionReached == consumer.position
AckOffset == job.offset

\* source.commit_offset, and the end of the commit.  An error (which the
\* broker may have applied all the same) leaves the place in the in-flight
\* count taken.  A backfill that published the view hands over to a new live
\* worker.
Acknowledge ==
    /\ worker = "ack"
    /\ \E outcome \in Outcomes("acks") :
        /\ Spend("acks", outcome)
        /\ acked' = IF Lands(outcome) THEN AckOffset ELSE acked
        /\ IF outcome = "ok"
           THEN /\ runtime' = GiveBack(runtime)
                /\ dirty' = FALSE
                /\ worker' = IF job.phase = "Running" /\ ~runtime.live
                             THEN "start" ELSE "poll"
           ELSE /\ worker' = AfterError
                /\ UNCHANGED <<runtime, dirty>>
    /\ job' = NoJob
    /\ UNCHANGED <<produced, consumer, store, view, pipeline, allocated>>

WorkerStep == StartWorker \/ PersistIntent \/ Poll \/ RefuseBatch \/ BeginCommit
                \/ Prepare \/ CommitM3 \/ Acknowledge

SourceNext == Produce \/ WorkerStep \/ PollFails \/ LifecycleUnreadable
                \/ RestoreFails \/ ProcessFails \/ Rebalance
=============================================================================
