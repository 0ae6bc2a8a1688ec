# A verification project for RockStream

RockStream is a distributed engine for incremental SQL views. A control plane
elects a leader, leases shards to workers, aggregates the cluster frontier,
coordinates checkpoints and runs the operations of the management API; workers
exchange batches, execute the views and store their state through SlateDB in an
object store; a gateway speaks the PostgreSQL protocol, commits transactions and
feeds subscriptions; connectors bring data in and out.

This directory holds TLA+ models of the parts where concurrency, failure and
recovery meet: modules translated from the Rust code under `src/`, TLC
configurations that check them on small instances, and TLAPS proofs of the
properties that matter most, for every value of the constants. `PROJECT.json`
gives, for every definition, the lines it models.

To check a run: `tlc -config ShardTransfer.cfg MCShardTransfer`. To check the
proofs: `tlapm ControlPlaneProofs.tla`.

## Contents

| Component | Source | Module | Instance | Proofs |
|---|---|---|---|---|
| Leader election | `control/src/raft.rs` | `RaftElection` | `MCRaftElection` | `ControlPlaneProofs` |
| What the election promises | - | `ControlLeadership` | | `ControlPlaneProofs` |
| Shard leases and sessions | `control/src/shard.rs`, `service.rs`, `scheduler.rs` | `ShardLeases` | `MCShardLeases` | `ShardLeasesProofs` |
| Shard migration operation | `control/src/service.rs`, `management.rs`, `management_store.rs`, `runtime/src/client.rs` | `ShardTransfer` | `MCShardTransfer` | `ShardTransferProofs` |
| Cluster frontier | `control/src/frontier.rs` | `FrontierPublication` | `MCFrontierPublication` | `FrontierPublicationProofs` |
| Checkpoints | `control/src/checkpoint.rs` | `CheckpointCoordinator` | `MCCheckpointCoordinator` | `ControlPlaneProofs` |
| Exchange credits | `runtime/src/exchange/flow_control.rs`, `multiplexer.rs`, `service.rs` | `ExchangeFlow` | `MCExchangeFlow` | `ExchangeFlowProofs` |
| Bucket migration | `control/src/migration.rs`, `types/src/migration.rs`, `runtime/src/migration.rs` | `BucketMigration` | `MCBucketMigration` | `BucketMigrationProofs` |
| What a bucket migration promises | - | `BucketOwnership` | | `BucketMigrationProofs` |
| A view's source | `gateway/src/server.rs`, `connectors/src/source_runtime.rs`, `source_epoch.rs`, `kafka_source.rs` | `SourceRuntime` | | `DataflowProofs` |
| A view's sink | `ops/src/kafka_sink.rs`, `connectors/src/kafka_sink.rs` | `KafkaViewExport` | | `DataflowProofs` |
| Source and sink together | as above | `SourceToSink` | `MCSourceToSink` | `DataflowProofs` |
| What the two promise | - | `ExactlyOnceDelivery` | | `DataflowProofs` |
| COMMIT, compiled views | `gateway/src/server.rs`, `write_buffer.rs`, `session.rs`, `ops/src/distinct.rs` | `GatewayCommit` | `MCGatewayCommit` | `GatewayCommitProofs` |
| SUBSCRIBE and its replay log | `gateway/src/change_log.rs`, `subscribe_handler.rs` | `Subscriptions` | | `GatewayCommitProofs` |
| Two-input operators | `ops/src/join.rs`, `outer_join.rs`, `compile.rs`, `live_exec.rs` | `IncrementalJoin` | `MCIncrementalJoin` | `DataflowProofs` |

(`control` is `crates/rockstream-control`, and so on.)

## Inventory

For each component: the state it keeps, its operations, what it interacts with,
what is hard about it and what makes it correct.

**Leader election** (`control/src/raft.rs`). State per node: term and vote, in
memory and in an object of the store; role; a hint of the leader; the instants
of the last contact and the last majority round. Operations: the RPC handlers
`handle_request_vote` and `handle_heartbeat`, the driver (stand, collect votes,
beat, collect answers), `step_down`, persistence. Peers talk over TCP with
timeouts. Hard: the memory changes before the PUT ends; handlers and driver
interleave; answers of an old round; crashes and failed PUTs. Correct: a term is
won once, a stored ballot is not forgotten, a superseded leader stops.

**Shard leases** (`control/src/shard.rs`, worker sessions in `service.rs`,
`scheduler.rs`, `topology.rs`). State: shard to lease, the token counter, the
leader epoch, a snapshot of all that in the object store; the worker catalogue
and the sessions. Operations: acquire, force, release, restore, snapshot and
save, called by Register, RequestShard, FenceWrite, Deregister, DeployWorkload,
disconnects and drains. Hard: sessions interleave between the lease table and
the PUT; the leader changes in between; a new leader restores what was stored.
Correct: a token is issued once, a superseded token is refused, the next leader
knows every lease that was sent to a worker.

**Shard migration** (`ManagementMigrationRuntime` in `service.rs`). State: one
durable record per operation (status, phase, target), one executor task with its
locals, the lease table, what the workers have open, messages and
acknowledgements on their way. Operations: MigrateShard, CancelOperation, the
phases of the executor, rollback, resumption after a restart; the worker's
ShardAssigned and PrepareShardTransfer. Hard: 30-second waits that end before
the answer does, acknowledgements of earlier attempts, cancellation at any
moment, a lease that is renewed or reassigned meanwhile, a restart between any
two steps, failed writes. Correct: success means the target has opened the
shard, cancellation means it was not moved, the owner has closed it when it is
moved, and every operation ends.

**Cluster frontier** (`control/src/frontier.rs`). State: per aggregator the
reported epochs, the membership generation and the published minimum; in the
store the fence token of the publisher lease and the frontier of each
generation, with a cache. Operations: activate, retire and replace shards;
scalar and membership reports; acquire the lease with the handoff read; publish;
open. Hard: the aggregator's mutex is released around every store call, several
aggregators compete, reports of former incarnations arrive late. Correct: no
frontier claims what an active member has not committed; one publisher; no
retreat.

**Checkpoint coordinator** (`control/src/checkpoint.rs`). State: the round in
progress, its confirmations and staged contributions, alignment credits, the
committed checkpoints. Operations: begin (with the timeout path), barrier
received, plain and changelog confirmations, manifest commit, collection. Hard:
three places release the mutex in the middle of a call; reports are late,
repeated and of other rounds. Correct: a manifest has a contribution from every
shard, credits are not leaked, the latest checkpoint stays, rounds end.


**Exchange flow control** (`runtime/src/exchange/flow_control.rs`, used by
`multiplexer.rs` and `service.rs`). State: rows, batches and bytes in flight per
channel and in total, reservations that wait for their acknowledgement, retired
channels, waiting senders and their notifiers. Operations: acquire a permit,
hand it to the acknowledgement accounting, acknowledge, release, tear an exchange
down, set budgets. Hard: acknowledgements and permits that outlive their
exchange, wake-ups sent after the lock is given back, futures dropped while they
wait, saturating counters, a stream that breaks. Correct: totals are the sum of
what is held, limits are kept, a waiting sender is woken and served.

**Bucket migration** (`control/src/migration.rs`, `types/src/migration.rs`,
`runtime/src/migration.rs`). State: a durable record with one of eleven states,
verification progress and clean-up intent; donor and recipient databases;
routers with copies of the record. Operations: drive the states, copy,
dual-write, catch up, fence, cut over, verify or roll back, clean up, archive,
recover. Hard: a crash between any two writes, a router that writes by an old
record, writes during the verification scan. Correct: one authority for the
bucket, no row deleted that the recipient lacks, every migration ends.

**Sources and sinks** (`connectors/src/source_epoch.rs`, `source_runtime.rs`,
`kafka_source.rs`, `kafka_sink.rs`, `ops/src/kafka_sink.rs`, the workers in
`gateway/src/server.rs`). State: the durable lifecycle with its cursor, a ring of
prepared and committed checkpoints, the pipeline's state, the view's output log;
the consumer's position and its stashed record; the sink's durable progress and
the broker's transaction. Operations: backfill, poll, prepare, commit,
acknowledge, recover; stage, persist, commit, look up, recover. Hard: restarts
between any two of these, a write that failed or only says so, a commit whose
answer is lost, a poll after a failed commit. Correct: input applied once, in
order; output delivered once; what is acknowledged is durable.

**Gateway** (`gateway/src/server.rs`, `write_buffer.rs`, `session.rs`,
`change_log.rs`, `subscribe_handler.rs`). State: write buffers, idempotency keys
and their durable marks, the commit lock and its queue, compiled views with
their operators in memory and in the store, epochs, the replay log, subscribers.
Operations: DML, COMMIT, ROLLBACK, CREATE and DROP VIEW, restoration of a view,
SUBSCRIBE, poll, restart. Hard: checks made before the lock, a batch that is
durable although the write or the flush failed, views created while commits run,
evictions. Correct: a view is its query over the table, a retried transaction is
applied once, a subscriber misses nothing and sees nothing twice.

**Incremental operators** (`ops/src/join.rs`, `outer_join.rs`, `distinct.rs`,
...). State: arrangements and weights per key, in memory and in the store.
Operations: process an epoch, append the state to the batch, restore, load by
key. Hard: both inputs change in one epoch, NULL keys, rows that are repeated,
commits that fail after the memory has changed. Correct: the sum of the output
changes is the query over the tables.

**Worker runtime** (`runtime/src/client.rs`, `shard_actor.rs`, `fence.rs`,
`recovery.rs`), **drain** (`service.rs`), **topology and placement**,
**operation store**, **storage**: partly in the modules above. **SQL front
end**, **types**, **oracle and simulator**, **command line**: see "Not modelled".

How they interact: leases are granted only by a control node that passes
`require_leader` (with the exceptions in the list of hazards), and carry the
leader's epoch in their tokens; migration, drain and disconnects move leases;
workers report epochs to the frontier aggregator and confirmations to the
checkpoint coordinator; the frontier decides what bucket migration and readers
may rely on. In the gateway a client's COMMIT and a source's batch go through
the same lock and the same compiled views; a source's batch, the view's output
and the operators' state are one write to the shard store, and the sink reads
the view's output from there.

## The modules and the code

### RaftElection, ControlLeadership

One action per handler and driver step. A transition changes `memory` and
`role`, takes the transition lock and leaves its PUT in `saving`; `Save` stores
it and sends the answer, `SaveFails` panics the task, `CrashRestart` loses the
memory. `HandleRequestVote` and `HandleHeartbeat` are the RPC handlers;
`DriverTimesOut`, `StartElection`, `ConcludeElection`, `DriverBeats`,
`SendHeartbeats` and `ConcludeHeartbeats` the driver, with the rechecks the code
makes after an await. A round is closed with any subset of its answers, which is
every pattern of loss, delay and timeout. Time is two saturating ages per node.
`ControlLeadership` is the abstract specification: a term is won once, its winner
leads it until it stops. `RaftElection` implements it (`ImplementsLeadership`).

### ShardLeases

A session is a small program counter over the steps between awaits of
`handle_connection`: an operation takes effect in the lease table
(`Granted`, `ReleaseWorker`), then `TakeSnapshot`, then `Put`, then the answer is
sent. `Sync` and `Restore` are `ensure_shard_state_synced`. Leadership is an
abstract epoch (`Lead`, `Lapse`, `StepDown`): `RaftElection` is checked on its
own. How the control plane is run is the variable `deployment`, chosen once from
`Deployments`: the nodes and sessions there are, whether a raft handle is
attached, whether leadership is handed over in order (only while no session is at
work, to a later term, with no other node leading), which operations the workers
send and which faults happen. `senders` is `worker_senders`, as a set: a Register
adds the worker, a disconnect removes it, also when the entry is that of a newer
connection (`service.rs:4070`), a session that panicked leaves it, a restart
empties it. Only the disconnect path looks it up (`Deliverable`); requests and
drains hold their sender. The workers a lease may be moved to are any subset of
those that survive, as `compatible` decides (`scheduler.rs:242`); a drain that
finds the lease with its recipient already sends it again (`Announce`) and neither
mints nor persists.

### ShardTransfer

One action per stretch of `execute` between two awaits that matter: every
conditional update of the record (`TransitionIf`, `Transition`) is an action that
succeeds, is refused because the record has changed, or ends in a storage error
after which the update may or may not be stored. A record can be read as long as
it has no more than `MaxTransitions` transitions (64 in the code,
`management_store.rs:22`; `op[o].writes` counts them, `Readable`). One more makes
the scan of all operations fail (`AllReadable`): nothing is accepted, claimed or
reconciled any more (`Reconciled`), and the control does not start (`Restart`).
`SendAndWait` arms the waiter and sends; `ShardTransferAck` gives the waiter the
first acknowledgement of the awaited stage, whatever attempt it belongs to;
`TimesOut` is the timer. `Rollback`, `ReopenDonor` and `Resume` are the paths
back. `OnWorkerDead`, `RequestShard` and `Register` are the sessions that change
the lease meanwhile; there the grant and its PUT are one step, because ShardLeases
has them apart. Not in the module: active workloads, health, lifecycle and
shard-store checks, which appear as a refusal that may come at any time
(`RefuseBusy`, `RefuseUnfit`); the capacity of the waiter table; idempotency keys.
A clock that goes back (`TimestampRegression`, `management_store.rs:184`) is one
of the failed writes. Simplified: the code does not store a transition that
repeats the last one in the same millisecond, the model counts it; a start-up
whose own write of the record fails is left out, and so is a `wait` that cannot
read the record again after its update was stored (`service.rs:1580`), which loses
the phase, so that a cancellation could be accepted after the lease has moved. A
worker registers again only after its old session has cleaned up. Two history
variables serve the properties: `moved` has the leases an operation gave to its
target, and `revived` those among them that had been given up in memory only and
that a restart brought back; `InForce` counts the former and not the latter.

### FrontierPublication

The aggregators and the store they share, each store call a step of its own
because the mutex is released around it. The epochs the shards have committed
are part of the model, so that completeness is about them, not about reports.
`IngestMembershipReport` takes any report that was true once: delayed, repeated,
of a former incarnation or of another generation. `Reopen` is a takeover or
restart (`FrontierLeaseStore::open`).

### CheckpointCoordinator

`Begin`, `FindTimedOut`, `ReleaseCredit`, `ClearRound` are the lock regions of
`begin_checkpoint`; `StageContribution` and `ConfirmStaged` those of a changelog
report; `Confirm` with `CommitManifest` or `CommitFails` those of the last
confirmation. The manifest callback is outside the module: it ends at any later
time, well or badly. Reports are of any shard and of any checkpoint begun so
far, any number of times.

### ExchangeFlow

A call of `send_frame` is a task: it reads the row budget (`ReadBudget`), asks for
a permit under the lock with the budget it has seen, waits if a limit is reached,
sends, hands the permit to the acknowledgement accounting or falls back to the
durable object (`SendStep`), may be cancelled while it waits (`CancelWait`), and
its frame and acknowledgement travel the stream (`StreamStep`), which may break
(`Break`). The registry of channels is one lock region. The budget is read before
it (`flow_control.rs:443` and 451), so a channel may be made with one that
`SetRowBudget` has replaced since; `stale` has the keys of those channels. What
runs after the lock (waking the waiters, the second half of an acknowledgement and
of a teardown) are steps of their own. `RowStep`, `CancelRows`, `SetCredits` and
`SetRowBudget` are the older row-only interface with its notifiers; the budget
changes at most `MaxBudgetChanges` times. Assumed: batches and row credits are not
used on one channel key, as in the code's callers; `set_credits` is called on a
key nobody waits on (it wakes nobody). `teardown_exchange`, `acquire_credit`,
`set_credits` and `release_credit` have only tests for callers today; they are
modelled as the interface they are.

### BucketMigration, BucketOwnership

The driver calls the coordinator's methods in the order of the states and goes on
only when one answers true or Ok; each PUT of the record, each page copied or
scanned, and each deletion is a step, and the process may crash between any two
and start again from the stored record. Start-up (`recover_on_start`) finishes
what needs no driver and otherwise only retains the record (`NeedsOnlineDriver`,
`migration.rs:421`). `setup` is chosen once: the rows a verification takes (1,024
in the code; `TooLarge`) and the routers that have reported an older version of
the map. A verification that meets more rows fails and will fail again
(`VerifyWindowFull`, `migration.rs:1026`). The timeout of the cut-over aborts only
if a router has not reported at all: a version that differs is an error returned
before the timeout is looked at (`CutoverNotReady`, `migration.rs:586`). Errors of
the checkpoint coordinator (`migration.rs:724`, 774) are among the `StorageFails`.
Routers hold a copy of the record of any age (`RefreshRouter`), report the version
they have (`ReportVersion`), and a write of theirs is a step per shard it goes to
(`BeginWrite`, `PutRow`, `WriterStops`). A copy goes through the snapshot in the
order of the keys: the row after a cursor is the one with as many `Before` it
(`Page`). `BucketOwnership` is the abstract specification: one authority, which
may go back and forth until the migration is closed, and closing is final.
Assumed: a PUT that failed did not land; a component replaces its router between
two writes and reports the target version once its router asks for it; a put is
durable; no write joins an epoch below the committed frontier; one donor. The
driver is modelled from the methods' contracts: the only caller outside tests is
`maybe_split` in `skew.rs`. That the clean-up starts only after a complete
verification (`MaybeEnterGcEligible`) is such a discipline of the driver; the
method itself does not look.

### SourceRuntime, KafkaViewExport, SourceToSink, ExactlyOnceDelivery

`SourceRuntime` is the worker of a bound Kafka source from backfill to live
polling, with the consumer it polls and the coordinator that commits a batch:
prepare, the one write that makes everything durable, the acknowledgement.
`KafkaViewExport` is the sink: stage with the broker, persist the pending
transaction, commit, clear; recovery looks a pending transaction up before it
sends it again. `SourceToSink` puts both in one process over one store, with
crashes. A write succeeds, fails, or fails after it has landed; a Kafka commit
is applied, is applied later, or not at all, with or without an answer.

A poll is cut short by the byte limit and stashes the record it could not take
(`ReadTo`, `Stashable`); one that fails later seeks back and keeps the stash
(`PollFails`, `kafka_source.rs:552`). A batch that was polled may be given up by
the live worker: it takes too much memory, cannot be decoded or its commit is
refused (`RefuseBatch` when a row of the batch is the reason, so that it happens
each time, `ProcessFails` otherwise; `server.rs:4901`, 5027). The sink refuses an
epoch above the envelope limit and a row with a negative multiplicity
(`Unstageable`, `ops/kafka_sink.rs:101`, 131). Which of these happen, and how
often, is the `load`, chosen once: the byte limit of a poll, failed writes,
acknowledgements and batches, refused rows, consumer and broker faults, the size
of an envelope, rows that are owed (`debts`), crashes and retries.

`ExactlyOnceDelivery` is the abstract specification: rows enter the view in
order and once, and a reader of the output topic sees a prefix of what the view
took in. The broker is external and modelled from how the code uses it. Assumed:
`write_batch` returns when the batch is durable; one partition, and every record
weighs one against the byte limit of a poll and the 900 KiB of an envelope; no single
record is above the byte limit; a negative multiplicity is never made good; no Kafka
snapshot; a backfill that failed
or a lifecycle that cannot be read stops the worker until a restart; a driver
whose `deliver_next` failed retries or ends its process.

### GatewayCommit, Subscriptions

Two sessions over one table, one compiled view `SELECT DISTINCT` and one
subscriber. A session buffers operations (`Insert`, `Update`, `Delete`); COMMIT
checks its idempotency key, queues for `shard_commit_lock`, drops operations whose
row has changed, restores a view that a failed commit has left dirty, runs the
view's operator, writes one batch, flushes and publishes. A write has two halves
(`WriteVisible`, `shard_db.rs:877`; `WriteDurable`, 886): from the first on every
reader finds the batch in `store`, and a restart finds what is in `durable`, which
catches up when the store flushes its log (`WalFlush`) or a restoration flushes it
(`Flushed`). Waiting for the second half may fail (`AwaitFails`), and the flush
may fail after it. `CreateView`, `Populate`, `PersistView` are the steps of CREATE
VIEW; `EnsureViewConsistency` is what any statement does first. `Subscriptions`
has the bounded replay log with its evictions and the client: snapshot, poll,
disconnection, resumption. Assumed: a snapshot reader sees all rows written; a
write of CREATE VIEW is visible and durable in one step; single-row statements,
and no update that changes nothing; the catalogue of views survives a restart. A
poll hands over whole epochs (`Polled`): the code streams their rows one at a time
(`server.rs` 5784-5821), so a client that is cut off inside an epoch has to resume
at that epoch, as the client of the model does. Not in the modules: savepoints,
NOTIFY, cursors, COPY, the distributed data plane, the `source_epoch` envelope.

### IncrementalJoin

An epoch is any change of at most `MaxChanges` rows of one side or both; `Commit`
takes the operator through it as `process_epoch` does, left side, right side and
both (`dL x R + L x dR + dL x dR`), or as the transitions of matched and unmatched
rows of the outer, semi, anti and null-aware kinds do. `AppendState` puts the
operator's changes into the batch, `WriteLands` and `WriteFails` end it,
`Restore` brings the memory back from the store, `OpenUnrestored` is a pipeline
that loads the keys it needs when it needs them, `JoinCrash` loses the memory. The
reference is `SqlJoin`, the definition of the seven kinds over whole tables.
`lost` marks two real losses, and the exploration stops there: the inner and outer
joins store rows without their weights, so that a row a table has twice comes back
once; and an operator that loads by key loads only the keys of the *other* side, so
that changing a row it has stored and not loaded starts from zero (see below).
Assumed: a delta is net; commits are serial (`shard_commit_lock`); a restoration
happens whole or not at all; a payload is one number that is not NULL (the code
stores a NULL payload as 0 and merges the two, `join.rs` 557-592).

## Runs

| Run | Instance and bounds | States | What it shows |
|---|---|---|---|
| `raft_election` | 3 nodes, 2 of them may stand, terms 1-2, one crash, failed PUT, shutdown or late round | 873,660 | A term is won once; the stored ballot is not forgotten; the election implements ControlLeadership |
| `raft_stale_leader` | 3 nodes, terms 1-2, no fault, quorum timeout of one tick | 320,550 | A superseded leader stops, even if it hears from nobody |
| `shard_leases` | one control with 2 sessions and all operations, or 2 controls, 1 session, 2 crashes or failed PUTs and an orderly handover; 2 workers, 2 shards | 1,203,099 | Tokens are unique, the newest one fences, the next leader knows every lease sent |
| `transfer_faults` | 2 workers, 1 operation, 2 faults, 1 failed write, 1 renewal, 12 transitions | 809,448 | Success is backed and cancellation keeps the owner, the handover is exclusive, the operation ends or its record is full |
| `frontier_publication` | a membership-aware and a scalar aggregator, 1 shard of 2 incarnations, 3 generations, 1 error, 1 reopening | 1,237,312 | One publisher; every frontier is complete; the scalar frontier does not retreat |
| `checkpoint_rounds` | 1 trigger, 2 reporters, 2 shards, 4 rounds | 37,878 | Manifests are backed, credits not leaked, the latest stays, rounds end |
| `exchange_credits` | 2 calls at a time: two senders on one channel, on two, one of them larger than the smaller budget, a sender and a row call, two row calls; budgets and limits of 1 and 2; 1 teardown, 1 break, 1 change of the budget | 348,451 | Charges are exact and within limits, no wake-up is lost, a notifier stays with its waiters, late acknowledgements are inert, waiting ends |
| `bucket_migration` | 2 keys, 1 seeded, 1 router, epochs 0-2, 1 fault, 1 crash; a verification that takes both rows, or one row and a router that has reported an older map | 743,619 | No row is lost by the clean-up, a resumed copy is complete, the record is never lost, ownership is kept, the migration ends |
| `source_to_sink` | 2 rows, polls of up to 2, 2 checkpoint slots, 6 epochs, eleven loads: write, poll, batch, acknowledgement, consumer and broker faults, crashes and retries, a refused row, an envelope that is too large, a negative multiplicity, and polls cut short by the byte limit | 274,442 | Recovery finds a state that agrees with the log; what is acknowledged is committed; delivery is exactly once; everything arrives |
| `source_stash` (violated) | as above, polls cut short by the byte limit, one failed write | | A stashed record makes the next poll skip the rows before it, and they are acknowledged |
| `gateway_commit` | 2 sessions, 2 row keys, 2 values, 1 idempotency key, 3 statements, a replay log of 2, eight combinations of views, retries, moves, subscribers and faults | 1,149,106 | The view is its query, a retried transaction is applied once, the subscriber is exact and catches up |
| `join_views` | 3 rows, one of them with a NULL key, left copies 0, 2, 1, right copies 1, 2, 1, epochs of up to 3 changes, seven kinds | 381,217 | The view is the join, through failed commits, restorations, crashes and loading by key |

Why the bounds are enough to be worth it. Election: two candidates in two terms
with three voters is the smallest group in which majorities overlap in a voter
that may be asked twice and forget. Leases: two sessions on two shards give every
pair of operations every interleaving, and three tokens a superseded, a current
and a later one. Transfer: two faults cover a failed attempt followed by a failed
rollback or resumption, so acknowledgements of three attempts meet; the eight
tokens are never used up (a larger bound adds no state), so the bound removes no
behaviour; twelve transitions are enough for a complete migration with a retry and
few enough for a waiting one to use them up. Frontier: two incarnations and three
generations are what a late report needs to be of the wrong one in both ways; an
instance with one aggregator and two shards, where the meet is over several
members, passes as well. Checkpoints: four rounds with a retention of one let a
commit be overtaken by two others. Exchange: two calls compete for every limit,
repeat each other's frame and wait on each other; a third adds no kind of
conflict, since every rule compares one call with a total, and one change of the
budget between the reading and the use of it makes a channel stale. Bucket
migration: two keys give the copy a row before and a row after its cursor, and a
window of one row a bucket that is too large. Source and sink: two rows make a
batch that is split or merged by a retry, two slots let the ring wrap. Gateway:
two sessions conflict on a key, three statements make a row appear, change and
disappear, and two entries make the log evict. Joins: a row of weight two and a
pair of rows with one key distinguish presence from weight; instances with three
rows on both sides and epochs of six changes (658,481 states), and with two copies
on both sides (1,065,569 states), pass as well. Deadlock checking is off where the
bounds stop a system that would go on, or where a sequence of requests simply
ends.

Type invariants are stated where proofs use them. Symmetry is used only where
sets of interchangeable ids are permuted and no liveness is checked.

### Fairness

- `raft_stale_leader`: time passes (`Tick`), a PUT that is under way ends, and a
  driver that has decided to beat gets through its round: the driver is a tokio
  task in a loop over a timer. Nothing is assumed of the network or of elections.
- `checkpoint_rounds`: the alignment timeout passes, and some trigger thread
  calls `begin_checkpoint` again and gets through its timeout path: checkpoints
  are triggered periodically. Shards need never confirm.
- `transfer_faults`: executor tasks run, reconciliation (once a second and at
  start) claims operations again, workers handle what they receive, sessions end,
  workers reconnect, and the timer of a wait that nothing can answer runs out.
  Reconciliation comes to an operation without a task only while every record can
  be read; `OperationEnds` excepts a record that is full, and a failed write.
  That an answer on its way arrives in time is not assumed: a timeout before it
  is one of the faults.
- `exchange_credits`: a ready task runs, a thread that has given the lock back
  goes on to wake the waiters, the peer drains its stream. Nothing is assumed of
  a stream that breaks: `WaitingEnds` excepts it, and a sender that is larger than
  the stale budget of its channel (`Starved`).
- `bucket_migration`: the driver is retried as long as its process lives, and after
  a crash only start-up itself goes through (`UnderWay`); routers are refreshed and
  report, a write under way ends, the cluster frontier advances and consumers report
  what they have read. `MigrationEnds` excepts a record that start-up leaves to a
  driver, a write that reached one shard only, and a bucket above the window of the
  verification.
- `source_to_sink`: the loops of worker and exporter run, the broker finishes
  what it has accepted, a process that gave up is started again. Faults are
  bounded; `EverythingArrives` excepts a source that is stuck until a restart or
  refuses a batch each time (`SourceStuck`), and a sink whose next envelope can never
  be staged (`SinkStuck`).
- `gateway_commit`: the subscription's stream polls for as long as the client is
  connected. No COMMIT needs to end.

## What is proved

TLAPS proves the following for every value of the constants that satisfies the
named assumptions (finite sets of nodes, shards, calls, keys and rows, bounds that
are naturals, disjoint sets of threads, an object `Nil` that is none of the
others). The bounds stay as parameters: a theorem holds for each of them. A
theorem that needs more says so in its own ASSUME.

**ControlPlaneProofs, the election.** `AtMostOneLeaderPerTerm`,
`StoredBallotNeverForgotten`, `TypeCorrectness` and
`ElectionImplementsLeadership`. A win is backed by a majority of votes that
reached the store (`ElectedBacked`), a voter's stored votes name one candidate per
term (`CastOnce`), and two majorities of a finite set share a node
(`QuorumsMeet`). To be inductive this needs what a restart relies on (the memory
is at or ahead of the store, `MemoryAhead`; a cast vote is in the store or its
term is over, `CastStored`) and what a driver's recheck relies on (`GrantedCast`,
`GrantedSaving`, `DriverSaving`, `SelfVote`, `FreshRound`). `LeaderElected` gives
the refinement: whoever leads has won the term in its memory.

**FrontierPublicationProofs.** `FrontierCompleteness`, `OnePublisher`,
`ScalarFrontierStays` and `FrontierTypeCorrectness`. Completeness of what is
published follows from the aggregator's knowledge being real (`Real`) and the meet
being a lower bound; `Sound` extends it to the values calls carry across the
release of the mutex and to cache and store, `Placed` and `Fresh` say that a
generation exists before anybody writes under its key. One publisher needs that no
token is ahead of the fence and that a lease granted but not yet handed over
counts (`Exclusive`). `ScalarFrontierStays`, an action property: the frontier the
store answers with without a generation never goes back, across failed writes that
were stored all the same, takeovers and reopenings. A reopening answers with what
is stored, so it needs that the cache is never ahead of the store
(`CacheIsStored`).

**ControlPlaneProofs, checkpoints.** `ManifestsAreBacked`, `LatestCheckpointStays`
and `CheckpointTypeCorrectness`, for any number of trigger and reporter threads.
`Staged` says that a round's contributions are of its own checkpoint, that a
confirmed shard has one, and that a call between staging and confirming finds
its own still there unless the round is another; `Fresh` that ids are not used
twice.

`CreditsDoNotLeak` needs one trigger thread (`OneTrigger`). NoCreditLeak says
nothing while a round is being cleared, so `Balanced` adds the account of the
trigger that clears one: it has at least as many releases left as there are
credits in use. With two triggers TLC finds the leak.

**ShardLeasesProofs.** `LeaseTokensAreUnique`, `NewestLeaseWins`,
`LeasesAreRemembered` and `LeaseTypes`, for any number of controls, workers,
shards and sessions. The first three are not true of every deployment (see
below), so each names those it is proved for: `Steady` (a standalone control
whose process stays up; any sessions, any operations, failed PUTs), `PersistsFirst`
(a standalone control that crashes and restarts, one session, a store that can be
read, no DeployWorkload, which sends before it persists, and no drain, whose retry
sends a lease again that a failed PUT has left in memory only), `HandsOver`
(any number of controls that hand over in order, workers that request and fence)
and `HandsOverOne` (the same with one session and a readable store). The run's
two kinds of deployment are among them; the theorems cover four more combinations
of faults and operations. The idea is a *ledger* (`Ledger(d, m, L)`): the next
token `m` mints is above every token of `L`, the tokens of `L` are distinct, what
`m` holds for a shard is the newest of `L`, and where nobody gives leases back no
shard of `L` is without one. The memory of a control in charge is a ledger of all
that was sent or is about to be (`Booked`); where memory may be lost the store is
one of all that was sent (`Backed`), and what a session carries between the two is
not out of date when it arrives (`Carries`). With raft this rests on `InOrder`:
one control leads, under the latest epoch (`Reigns`); a session at work is with
that leader, and its step says whether the leader has synced (`Attends`); and
every token under way has an epoch that was won, of which the leader's is new
until it has synced (`EpochTokens`).

**ShardTransferProofs.** `TransferOutcomeIsTrue` and `TransferTypes`, for any
number of operations and workers; `TransferHandOverIsExclusive` for one operation
(`OneOperation`). For the first, a lease an operation gave to its target must stay
recognisable: tokens are minted once (`Minting`), so whatever replaces that lease
is not one the operation moved; `Placed`, `Staged` and `Numbered` tie a task's
locals to its record, `Truthful` an acknowledgement to what the target did, and
`Backed` says of what the operation says, and is about to say, that it is true of
the lease in force. The second is about what is on its way. An acknowledgement of
the donor is good for as long as nothing that would open the shard under the same
lease is behind it: no worker is asked to open what it was asked to close before
(`InOrder`), answers that say closed hold (`AnswersHold`), and a task that is
about to act on one finds the donor shut and nothing of an earlier attempt on its
way (`Calm`), unless it cannot get to a transfer any more (`Doomed`).

**ExchangeFlowProofs.** `FlowChargesExact`, `FlowNoLostWakeup`, `FlowNotifierKept`,
`FlowLateAcksAreInert` and `FlowTypes`, for any finite set of calls, any channels
and limits. Charges are sums over the calls that hold them, so the module first
proves what a sum over a finite set is and how it changes with one element
(`TotalStep` and the lemmas after it): a smallest set a claim is false of, which
the order of subsets gives (`MinimalSet`), takes the place of an induction. A
charge is of the channel its key has now, or of one that was torn down (`Owned`);
a delivered reservation is in the list of a channel in use, so that the teardown
that takes it back retires the key (`Delivered`, `TakenBack`). A sender between the
reading of the budget and the lock holds what it read, which is the budget of the
channel it makes (`Trying`); that this is the controller's is claimed of the channels
outside `stale` only. `Slots` says which
row calls are registered with which notifier, and how many.

**BucketMigrationProofs.** `MigrationRecordNeverLost`, `MigrationCopyIsComplete`,
`MigrationRowsSurvive`, `MigrationTypes` and the refinement
`MigrationImplementsOwnership`, for any finite set of keys (naturals), any
routers, epochs, faults and crashes. `Driven` ties the driver's place to the
stored record, `Consistent` a record's parts to each other, `Routed` and `Flying`
a router's copy and a write in flight to the stored record and the frontier, and
`Kept` says where the rows are: on the donor at first, on either shard while both
are written, on the recipient from the comparison on. Buckets above the window of
the verification and routers with an older map are covered. The copy needs that the
first rows of a scan are those with fewer before them (`RankExists` and the lemmas
about `Page`).

**GatewayCommitProofs.** `KeysAreAppliedOnce`, `ViewsMatchTheTable` and
`SubscribersAreExact`, for any sets of connections, row keys, idempotency keys and
values (naturals other than 0, which stands for no row), any log limit, any work
and faults. No set is assumed finite: rows are counted over the filled ones, and
an operation fills at most one more. Write buffers and the replay log are folded,
so the module first says what a fold is: `FoldLeft` is a recursive function on
sets of indices, `FoldInduction` takes the place of the induction over its length,
and `FoldAppend` and `FoldDrop` say what one more element at the end and fewer at
the front make of it. `CommittedFacts` is the fact the rest stands on: the
operations `committed_dml_ops` keeps change the row counts by exactly the delta
that the view processes and the log publishes, unless a moved row replaced another.

The keys need `KeysAreKept`: a key is in the store, and in the durable one, exactly
if its transaction was applied there, a transaction that was answered is in the
durable one unless it is `Excused`, and a COMMIT that waits under a known key overlaps
with another. What is excused is named in the property: a COMMIT whose rows had all
changed (`dropped`), one answered because of a key that was visible and not yet
durable (`early`), and one whose operations an earlier, refused COMMIT of the block
had taken (`emptied`). The view needs `ViewFollows`, the account of each stage of
CREATE VIEW for what is visible and what is durable, and that the weights in memory
are those of the last visible batch unless a restoration is pending (`LockIsHeld`:
the COMMIT that writes or flushes is at the head of the queue). The subscriber
needs the order of epochs (`EpochsInOrder`, `InOrder`) and `ClientFollows`: what the
client has summed up, what the log still owes it and what is about to be published
make up the table at every moment, and a restart takes nothing of it away
(`Survives`), or the client is `Stale` and its next poll or resumption is refused.

**DataflowProofs, from the source to the sink.** `RestartsMatchTheLog`,
`AckedInputStays` and the refinement `PipelineIsExactlyOnce`, for any limits of a
poll, any ring of checkpoints, any in-flight limit and any budget of faults. Three
invariants build on each other.

- `RecoveryInv` is about the store and the log of the view: epochs grow along the
  log up to the frontier (`LogInOrder`), the stored state is what the log adds up
  to (`StateMatchesLog`), the pipeline in memory is the stored one unless a
  restoration is pending (`PipelineFollows`), and each slot of the ring has an
  epoch of its own, the frontier's the stored cursor (`RingInOrder`). The last is
  why a wrapped ring, with prepared records of failed attempts in it, still gives
  the newest checkpoint.
- `InputInv` adds the input: the log has the records below the cursor once each
  and in order, a batch in hand starts at the cursor (`JobFollows`), and where the
  consumer stands after a poll, a seek, a rebalance or a failed commit is a place
  from which nothing is skipped (`ConsumerFollows`).
- `DeliveryInv` adds the sink: what readers see, followed by the pending
  transaction, is the log up to the epoch in the sink's progress (`RowsUpTo`), and
  the transaction the broker holds is that one (`PendingInOrder`,
  `TransactionInOrder`), also while a commit has no answer yet.

`AckedInputStays` and `PipelineIsExactlyOnce` assume `NoLostStash` of every load:
no poll is cut short by the byte limit, or no poll, batch or write fails and no row
is refused. Without it they are false, which the run `source_stash` shows for a
failed write. `RestartsMatchTheLog` needs no such
assumption. The log is flattened, so the module first says what one more entry
makes of a flattened sequence; `NumberInduction`, an induction with a set in the
place of the predicate, stands for the induction over lengths.

**DataflowProofs, joins.** `ViewsAreJoins`, for all seven kinds, any finite set of
rows with any number of copies, and epochs of any size. `JoinInv` says which tables
each copy of the state belongs to: the memory follows the tables of the last
processed epoch (`Follows`), the stored state and the one in the batch keep enough
to restore theirs (`Keeps`), and what is marked as changed is what distinguishes
the two (`Marks`), so that a batch that only writes the marked rows and weights
still stores the whole. The step of an epoch is algebra: a weight per key is a sum over
the rows of its bucket (the lemmas on sums over finite sets), it is zero exactly if
no row matches (`MatchWeight`, since no row has a negative count), so each padded,
kept or withdrawn row of the output is the difference of the two joins
(`OutputFollows`). ViewIsTheJoin says nothing after a loss (`lost`).
`DistinctRowsAreExact` says when there is none: no row twice in a table and no
inner join, which may load by key; then the output is the join in every state.

The inductive invariants were checked with TLC before they were proved, on the
instances of the runs or larger ones (ShardTransfer with three faults and with two
operations, BucketMigration with two routers, ShardLeases with all six kinds of
deployment).

Only model-checked: the liveness properties (StaleLeaderStepsDown, RoundsEnd,
OperationEnds, WaitingEnds, MigrationEnds, EverythingArrives,
SubscriberCatchesUp), which are beyond the prover, as is ENABLED. Every invariant,
action property and refinement a passing run checks is a theorem as well, with the
restrictions named above.

## Where code and documentation disagree

One is a run. `source_stash`: `source_runtime.rs:240` says that a failure before
the acknowledgement "never acknowledges uncommitted input". A poll cut short by
the byte limit stashes a record in the consumer; when the commit of the rows
before it fails, the next poll seeks back to the cursor but takes the stashed
record first, the rows before it are then dropped as duplicates, and the next
acknowledgement passes over them (`kafka_source.rs:565`, 762). It needs no failed
write: a poll that fails after it has stashed (`kafka_source.rs:552`, 774), and a batch
the live worker gives up after a good poll (`server.rs:4901`, 5027), lose rows in the
same way.

The others were found while the properties were being stated. Most are
cases a property or an instance excepts by name, so that removing the exception
shows them; the rest lie beside what the modules have.

Control plane:

- `raft.rs:427` says stale authority expires before survivors can elect a new
  leader. A follower grants a vote of a higher term whatever the age of its last
  contact, so two nodes may pass `require_leader` at once.
- `shard.rs:13` says a superseded token is refused for good. `persist_shard_state`
  (`service.rs:246`) takes its snapshot and PUTs it without a lock over both; the
  older snapshot may land last and be restored by the next leader (with more than
  one session and a raft handle in `Deployments`).
- `ShardPersistentStore::load` (`shard.rs:399`) takes every error for a first
  boot, so a failed read at start-up restarts the token counter (the fault
  `"load"`).
- `frontier.rs:959` says the frontier never retreats. The comparison is with a
  cache that `open` leaves empty for generations (815), so after a reopening the
  stored frontier of a generation can go down.
- `checkpoint.rs:249` says the timed-out round is cleared. The lock is released
  before, and what is cleared is whatever round is there; with two triggers the
  credits of the round cleared by mistake are never given back (`NoCreditLeak`
  fails).
- A disconnect takes its worker out of `worker_senders` and the catalogue even
  when the worker has connected again (`service.rs:4070`).
- A drain that is retried after a failed PUT finds the lease with the recipient
  and announces it without persisting it (`service.rs:2603`); a crash then loses a
  lease a worker was told of, and its token is minted again.
- An operation's record takes 64 transitions (`management_store.rs:22`), and one
  that waits writes two or three a second. After half a minute the record cannot
  be read: the reconciliation fails at every tick (`management.rs:176`), for all
  operations, and a control that is restarted does not start. A cancellation
  stored as the last one is not seen by the executor.
- A lease that is released to nobody because the last worker is lost is not
  persisted (`service.rs:4074`), so a restart brings it back (`revived` in
  ShardTransfer).
- Nothing keeps two migrations of one shard apart: one that is cancelled has the
  owner open the shard again while the other relies on its having closed it
  (`HandOverIsExclusive` fails with two operations).

Exchange: a broken stream leaves its reservations charged until a teardown
(`multiplexer.rs:369`), which no production code calls; a channel made with a row
budget that was read before the lock and replaced meanwhile keeps it
(`flow_control.rs:443`, 476), and a sender admitted under the larger budget waits
for ever (`Starved`); a row waiter orphaned by a teardown is never woken
(`flow_control.rs:642`, 836); `set_credits` wakes nobody (755); the durable object
is read, changed and written without a lock.

Bucket migration: a PUT of Aborted that lands and reports an error leaves the
driver going on with a migration that is stored as aborted, and a row may be lost
at the clean-up; writes the recipient alone has after the
cut-over are lost to the bucket by a rollback or a timeout, against
`docs/failure-matrix.md:27` (FM-009); a write that reaches one shard makes the
verification fail for ever; so does a bucket above 1,024 rows (`migration.rs:1026`);
a record that start-up retains for a driver (`migration.rs:421`) is taken up by
nobody; a router that reports another version of the map keeps the timeout of the
cut-over from being looked at (586); `maybe_enter_gc_eligible` does not look at
`verification_progress`; `maybe_split` never sets `cleanup_intent`, so a crash at
Done stays blocked.

Sources and sinks: an acknowledgement that fails keeps its place in the in-flight
count (`source_runtime.rs:394`); `block` drops the future that would pause the
source; a transient error while the live worker reads its lifecycle ends it; a
failed write of the pending transaction wedges the sink until it connects again; a
batch that is refused for its memory or its content (`server.rs:4901`), a view
epoch above 900 KiB and a negative multiplicity (`ops/kafka_sink.rs:101`, 131) are
tried again for ever.

Gateway:

- CREATE VIEW registers the view and scans the table without the commit lock; a
  COMMIT in between is counted twice (comment at `server.rs` 8412-8428).
- DROP VIEW and CREATE VIEW of one name share operator ids, and the weights of
  the dropped view are still in the store.
- An UPDATE that moves a row checks the new key only when the statement runs; a
  row inserted there since is replaced without a retraction.
- The idempotency key is read before the lock: two overlapping COMMITs with one
  key are both applied (`docs/tutorial-30-minutes.md:501`). It may also be visible
  and not yet durable: the COMMIT is answered, and a restart loses the transaction.
- An epoch that is durable although its write or flush reported an error is never
  published: subscribers have a gap they are not told of.
- A COMMIT sent again after a failed one is answered COMMIT with nothing written;
  operations that conflict are dropped and COMMIT succeeds; an unreadable key in
  autocommit leaves the buffer full.
- DROP VIEW during a commit that then fails leaves a recovery pending for a view
  that is gone, and every later statement fails until a restart.
- A savepoint made again under its name keeps its old index; NOTIFYs of a failed
  COMMIT are sent by the next (both outside the module).

Operators: inner and outer joins persist rows without their weights, and
`process_async` (`join.rs:529`, "loading any arrangement keys that are missing")
does not load the keys of the changed side. Its callers today are tests and
benchmarks. The semi, anti and null-aware kinds persist weights per key and
survive repeated rows on the right.

## Hazards without a property

Six hazards in `PROJECT.json` name no property, because in the code they go wrong:
a property can only except them, and the list above says what happens. They are the
snapshots of two sessions that are PUT in either order (`service.rs:246`), the charges
of a broken stream (`multiplexer.rs:369`), the migration that start-up leaves to a
driver and the bucket that is too large to verify (`migration.rs:421`), what sources
and sinks refuse for ever (`source_runtime.rs:394`), the idempotency key that is read
before the lock (`server.rs:10397`) and CREATE VIEW without the lock
(`server.rs:3127`).

Met while modelling, and without a property: lease writes that are not gated by
leadership; the window of the drain task between its check of the owner and the
forced grant; the epoch of the previous leader that is in force between restore
and `set_leader_epoch`; a panic in the executor that leaves its operation claimed
until a restart; cancelling an operation that waits after the donor has closed,
which leaves the owner with a lease and no open shard; two operations on one
shard; the durable exchange object, which two senders read, change and write
without a lock.

## Not modelled

- The rest of the gateway: wire protocol, parsing, query execution, catalogue
  stubs, savepoints, NOTIFY, cursors, COPY, admission, the distributed data plane.
- The other operators: aggregates, windows, top-k, recursion, the factorized join;
  the embedded scheduler and group commit.
- SQL front end, planner, differentiation: pure functions over programs, tested
  against the oracle crate and partly proved in Verus (`rockstream-verified`);
  their inputs are out of reach of TLC.
- Sources other than Kafka (the pgoutput path with its attachments), poison
  records, several partitions, pausing and dropping a source; the sink's abort,
  its legacy handles and the sink without a broker.
- Exchange transport: framing, compression, shared memory, the connection pool,
  and the durable object with its catch-up.
- Storage: a wrapper of SlateDB, assumed to apply a batch whole or not at all;
  tiers, the governor and format migration.
- `ProactiveSplitter`, several donors of a bucket, the drain queue, shard actors
  and self-fencing of workers.
- Secrets, access lists, audit, namespaces, capacity and qualification stores:
  maps with a single writer. Metrics, command line, generated protocol code.
- Oracle, simulator, test support: they test the system and are not part of it.

Most of the repository's lines are in these: SQL, formatting, I/O, metrics and
tests. The modules cover the parts with a protocol.

## Plan

Done: election, leases, migration operation, frontier, checkpoints, exchange
credits, bucket migration, source and sink, gateway commit with subscriptions,
joins; proofs of all their safety properties. What is left, in the order of
importance:

1. The drain queue, with the property of announced leases; the composition of
   ShardLeases with ControlLeadership in the place of its abstract epochs.
2. Aggregates beside the joins; the worker's shard actors and self-fencing.
