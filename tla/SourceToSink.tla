---------------------------- MODULE SourceToSink ----------------------------
(***************************************************************************)
(* A view from its source topic to its sink topic: SourceRuntime and       *)
(* KafkaViewExport share the shard store, run in one process and fall with *)
(* it.                                                                     *)
(***************************************************************************)
EXTENDS KafkaViewExport

vars == <<sourceVars, sinkVars, load>>

Init == SourceInit /\ SinkInit

\* The process ends: everything but the store and the two brokers is lost.
\* A new one restores the pipeline from the store, starts a worker for the
\* view and connects the sink.
ProcessRestarts ==
    /\ consumer' = FreshConsumer
    /\ runtime' = [epoch |-> 0, inFlight |-> 0, live |-> FALSE]
    /\ pipeline' = store.state
    /\ dirty' = FALSE
    /\ allocated' = store.frontier
    /\ worker' = "start"
    /\ job' = NoJob
    /\ producer' = "down"
    /\ staged' = {}
    /\ draft' = NoProgress
    /\ exporter' = "down"
    /\ UNCHANGED <<produced, acked, store, view, progress, topic, open>>

Crash ==
    /\ load.crashes > 0
    /\ load' = [load EXCEPT !.crashes = @ - 1]
    /\ ProcessRestarts

\* A driver whose deliver_next failed ends its process rather than go on
\* without the sink, and is started again.
DriverGivesUp ==
    /\ exporter = "failed"
    /\ ProcessRestarts
    /\ UNCHANGED load

Next ==
    \/ SourceNext /\ UNCHANGED sinkVars
    \/ SinkNext /\ UNCHANGED sourceVars
    \/ Crash
    \/ DriverGivesUp

\* The worker's and the exporter's loops keep running, the broker finishes
\* what it has accepted, a process that gave up is started again.
Fairness ==
    /\ WF_vars(WorkerStep /\ UNCHANGED sinkVars)
    /\ WF_vars(ExporterStep /\ UNCHANGED sourceVars)
    /\ WF_vars(TransactionResolves /\ UNCHANGED sourceVars)
    /\ WF_vars(DriverGivesUp)

Spec == Init /\ [][Next]_vars /\ Fairness

-----------------------------------------------------------------------------
(* Properties.                                                             *)

RowIds == 0..(MaxRows - 1)

AppliedRows == LogRows
DeliveredRows == FlattenSeq([i \in 1..Len(topic) |-> topic[i].rows])

Promise == INSTANCE ExactlyOnceDelivery
             WITH applied <- AppliedRows, delivered <- DeliveredRows

\* The whole pipeline is exactly-once: rows enter the view's log in order, none
\* twice and none left out, and a reader of the output topic always sees a
\* prefix of that log - through failed polls, batches given up, failed and
\* half-reported writes, lost and late acknowledgements, rebalances, unanswered
\* Kafka commits and crashes between any two steps, as long as no record is
\* stashed over the byte limit where a poll, a batch or a write fails
\* (commit_backfill_epoch, KafkaViewSink::deliver_next, KafkaSink::recover).
ExactlyOnce == Promise!Spec

\* The pipeline state a restart would load has taken in exactly the rows of
\* the view's log: a batch that was processed in memory, failed to commit and
\* was polled again is not in it twice (recover_pending_views_locked,
\* commit_bound_source_ops).
StateMatchesLog == store.state = AppliedRows

\* Every row the broker was told is consumed is in the view for good: a
\* failure before the acknowledgement "never acknowledges uncommitted input"
\* (SourceRuntimeCoordinator).
AckedInputIsCommitted ==
    \A r \in 0..(acked - 1) : \E i \in DOMAIN AppliedRows : AppliedRows[i] = r

\* The checkpoint recovery finds in the ring of slots is the one written with
\* the view's cursor, whatever prepared records failed attempts have left and
\* however often the ring has wrapped (highest_committed, append_committed).
CheckpointMatchesCursor ==
    /\ HighestCommitted(store).offset = store.cursor
    /\ HighestCommitted(store).epoch = store.frontier

\* Whatever failed and wherever the process stopped, a restart finds a pipeline
\* state, a checkpoint and a cursor that agree with the view's log.
RecoveryMatchesLog == StateMatchesLog /\ CheckpointMatchesCursor

\* The worker has ended, acknowledgements that failed hold every place of the
\* in-flight count, or a row that no worker accepts stands beyond the cursor.
SourceStuck ==
    \/ worker = "stopped"
    \/ runtime.inFlight = MaxInFlight
    \/ \E r \in load.refused : store.cursor <= r /\ r < produced

\* What the sink has to stage next it never can.
SinkStuck == progress.pending = NotPending /\ ~NothingNew /\ Unstageable

\* Every record that comes to stand in the upstream topic reaches the output
\* topic once faults stop, unless the pipeline is stuck for good: a backfill
\* returned an error, a live worker could not read its lifecycle, failed
\* acknowledgements used up the in-flight count, a batch is refused again and
\* again, or the next envelope is one the sink never stages
\* (run_live_source_worker, KafkaViewSink::deliver_next).
EverythingArrives ==
    \A r \in RowIds :
        \/ (produced > r) ~> (\E i \in DOMAIN DeliveredRows : DeliveredRows[i] = r)
        \/ <>[](SourceStuck \/ SinkStuck)
=============================================================================
