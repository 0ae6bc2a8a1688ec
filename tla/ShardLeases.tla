----------------------------- MODULE ShardLeases -----------------------------
(***************************************************************************)
(* Shard write leases of the control plane: ShardManager and its store     *)
(* (rockstream-control/src/shard.rs), the worker sessions that use them    *)
(* (handle_connection in service.rs) and the reassignment of a lost        *)
(* worker's shards (scheduler.rs).                                         *)
(*                                                                         *)
(* A session handles its messages one after the other; sessions interleave *)
(* wherever the code takes another lock or awaits.  The manager's calls    *)
(* are atomic (one RwLock); the snapshot that persists a grant is taken    *)
(* under a lock of its own and its PUT lands later, so PUTs of two         *)
(* sessions may land in either order.                                      *)
(*                                                                         *)
(* Leadership comes from outside, as ControlLeadership promises it: a term *)
(* is won once, but terms may be won out of order and the reign of two     *)
(* nodes may overlap.  A standalone control has no raft handle and passes  *)
(* every leader check.                                                     *)
(***************************************************************************)
EXTENDS Naturals, FiniteSets

CONSTANTS
    Controls,         \* control nodes, all on one object store
    Workers,
    Shards,
    Sessions,         \* slots for worker connections
    Nil,
    Deployments,      \* how the control plane is run, see Deployment
    MaxFaults,        \* bound: crashes, failed PUTs and failed loads
    MaxEpoch,         \* bound: leader epochs
    MaxToken          \* bound: the token counter (2^32 in mint_token)

ASSUME SetsAssumption ==
    /\ IsFiniteSet(Controls) /\ IsFiniteSet(Workers) /\ IsFiniteSet(Shards)
    /\ Nil \notin Controls \cup Workers \cup Shards \cup Sessions

\* raft: a raft handle is attached. orderly: leadership only moves while no
\* session is at work, and only to a later term with no other node leading.
\* operations: what the workers send. faults: what may fail.
Deployment ==
    [nodes : SUBSET Controls, sessions : SUBSET Sessions, raft : BOOLEAN, orderly : BOOLEAN,
     operations : SUBSET {"request", "fence", "deploy", "deregister", "disconnect", "drain"},
     faults : SUBSET {"crash", "put", "load"}]

ASSUME DeploymentAssumption ==
    /\ Deployments \subseteq Deployment
    /\ \A d \in Deployments : ~d.raft => Cardinality(d.nodes) = 1

ASSUME LeaseBoundAssumption ==
    MaxFaults \in Nat /\ MaxEpoch \in Nat /\ MaxToken \in Nat \ {0}

VARIABLES
    deployment,\* one of Deployments, for good
    manager,   \* manager[c]: ShardManagerInner
    store,     \* the object control/shard_manager/state.json
    synced,    \* synced[c]: synced_epoch, 0 for None
    syncing,   \* syncing[c]: the session that holds the synced_epoch mutex
    catalog,   \* catalog[c]: the workers of the TopologyCatalog
    topology,  \* the workers in the shared TopologyPersistentStore
    senders,   \* senders[c]: the workers in worker_senders
    reign,     \* reign[c]: the epoch c's raft role leads, 0 for none
    live,      \* live[c]: has_live_leader_quorum
    won,       \* history: the epochs won so far
    sessions,  \* sessions[k]: where a connection's task is
    issued,    \* history: every lease sent to a worker
    faults

vars == <<deployment, manager, store, synced, syncing, catalog, topology, senders,
          reign, live, won, sessions, issued, faults>>

leadership == <<reign, live, won>>
membership == <<catalog, topology, senders>>

-----------------------------------------------------------------------------
(* ShardManager *)

Token == [epoch : 0..MaxEpoch, count : 0..MaxToken]
Lease == [shard : Shards, worker : Workers, token : Token]

ASSUME NoLeaseAssumption == Nil \notin Lease

Snapshot ==
    [leases : [Shards -> Lease \cup {Nil}],
     nextToken : 0..MaxToken,
     leaderEpoch : 0..MaxEpoch]

Unleased == [s \in Shards |-> Nil]

\* ShardManager::new starts the counter at 1, the snapshot's default at 0.
NewManager == [leases |-> Unleased, nextToken |-> 1, leaderEpoch |-> 0]
DefaultSnapshot == [leases |-> Unleased, nextToken |-> 0, leaderEpoch |-> 0]

\* A LeaseToken is (epoch << 32) | count: the order is lexicographic.
AtMost(t, u) ==
    t.epoch < u.epoch \/ (t.epoch = u.epoch /\ t.count <= u.count)

NextCountStuck(m) == m.nextToken
NextCount(m) == m.nextToken + 1

\* mint_token asserts that the counter stays below its bound.
CanMintLast(m) == m.nextToken <= MaxToken
CanMint(m) == m.nextToken < MaxToken

MintToken(m) == [epoch |-> m.leaderEpoch, count |-> m.nextToken]

NewLease(m, s, w) == [shard |-> s, worker |-> w, token |-> MintToken(m)]

KeepFirst(m, s, w) ==
    IF m.leases[s] = Nil
    THEN [m EXCEPT !.leases[s] = NewLease(m, s, w), !.nextToken = NextCount(m)]
    ELSE [m EXCEPT !.nextToken = NextCount(m)]

\* The manager after minting a lease for s: what acquire, force_acquire and
\* transfer_if_owner share.
Granted(m, s, w) ==
    [m EXCEPT !.leases[s] = NewLease(m, s, w), !.nextToken = NextCount(m)]

HeldByOther(m, s, w) == m.leases[s] # Nil /\ m.leases[s].worker # w

HeldBy(m, w) == {s \in Shards : m.leases[s] # Nil /\ m.leases[s].worker = w}

ReleaseWorker(m, w) ==
    [m EXCEPT !.leases =
        [s \in Shards |-> IF s \in HeldBy(m, w) THEN Nil ELSE m.leases[s]]]

-----------------------------------------------------------------------------
(* Sessions *)

Steps == {"free", "idle", "checked", "sync", "restore", "stamp", "acquire",
          "release", "dead", "reassign", "deploy", "drain", "announce",
          "snapshot", "put"}

NoSession ==
    [step |-> "free", at |-> Nil, worker |-> Nil, next |-> "idle",
     shard |-> Nil, epoch |-> 0, snap |-> DefaultSnapshot, todo |-> {},
     targets |-> {}, grants |-> {}]

\* A session between two messages: only the connection is remembered.
Idle(k) ==
    [NoSession EXCEPT !.step = "idle", !.at = sessions[k].at,
                      !.worker = sessions[k].worker]

Become(k, record) == sessions' = [sessions EXCEPT ![k] = record]

\* The session's step when an operation is over: wait for a message, or, at
\* the end of the disconnect path, be gone.
Finish(k) ==
    Become(k, IF sessions[k].next = "idle" THEN Idle(k) ELSE NoSession)

At(k, step) == sessions[k].step = step

\* Grants that are sent: the answer to a request and the move of a drained
\* shard go through senders the session holds already; the end of a connection
\* looks them up, and a message for a worker without a sender is dropped.
Deliverable(k) ==
    {l \in sessions[k].grants :
        sessions[k].next = "gone" => l.worker \in senders[sessions[k].at]}

\* RaftHandle::require_leader, and no check at all without a raft handle.
RequireLeader(c) == ~deployment.raft \/ (reign[c] # 0 /\ live[c])

TypeOK ==
    /\ deployment \in Deployments
    /\ manager \in [Controls -> Snapshot]
    /\ store \in Snapshot
    /\ synced \in [Controls -> 0..MaxEpoch]
    /\ syncing \in [Controls -> Sessions \cup {Nil}]
    /\ catalog \in [Controls -> SUBSET Workers]
    /\ topology \subseteq Workers
    /\ senders \in [Controls -> SUBSET Workers]
    /\ reign \in [Controls -> 0..MaxEpoch]
    /\ live \in [Controls -> BOOLEAN]
    /\ won \subseteq 1..MaxEpoch
    /\ sessions \in [Sessions ->
          [step : Steps, at : Controls \cup {Nil}, worker : Workers \cup {Nil},
           next : {"idle", "gone"}, shard : Shards \cup {Nil},
           epoch : 0..MaxEpoch, snap : Snapshot, todo : SUBSET Shards,
           targets : SUBSET Workers, grants : SUBSET Lease]]
    /\ issued \subseteq Lease
    /\ faults \in 0..MaxFaults

-----------------------------------------------------------------------------
\* ControlService::start restores a standalone control's empty manager from
\* the store, whose default snapshot counts from 0; a raft node waits for the
\* first request it serves as a leader.
Booted(snapshot) == IF deployment.raft THEN NewManager ELSE snapshot

Init ==
    /\ deployment \in Deployments
    /\ manager = [c \in Controls |-> Booted(DefaultSnapshot)]
    /\ store = DefaultSnapshot
    /\ synced = [c \in Controls |-> 0]
    /\ syncing = [c \in Controls |-> Nil]
    /\ catalog = [c \in Controls |-> {}]
    /\ topology = {}
    /\ senders = [c \in Controls |-> {}]
    /\ reign = [c \in Controls |-> 0]
    /\ live = [c \in Controls |-> FALSE]
    /\ won = {}
    /\ sessions = [k \in Sessions |-> NoSession]
    /\ issued = {}
    /\ faults = 0

CanFail(kind) == kind \in deployment.faults /\ faults < MaxFaults
Fail == faults' = faults + 1

\* What load returns: the stored snapshot, or the default after any error.
Loadable == {store} \cup (IF CanFail("load") THEN {DefaultSnapshot} ELSE {})

\* The fault count after loading l.
FaultsAfterLoad(l) == IF l = store THEN faults ELSE faults + 1

-----------------------------------------------------------------------------
(* Register, Deregister and the end of a connection *)

\* Register: a new connection, or a worker that registers again on its own.
\* The sender of an older connection of the worker is replaced.
Register(k, c, w) ==
    /\ \/ At(k, "free")
       \/ At(k, "idle") /\ sessions[k].at = c /\ sessions[k].worker = w
             /\ w \notin catalog[c]
    /\ catalog' = [catalog EXCEPT ![c] = @ \cup {w}]
    /\ topology' = topology \cup {w}
    /\ senders' = [senders EXCEPT ![c] = @ \cup {w}]
    /\ Become(k, [NoSession EXCEPT !.step = "idle", !.at = c, !.worker = w])
    /\ UNCHANGED <<manager, store, synced, syncing, leadership, issued, faults>>

\* Deregister: leave the catalog and the topology store, then ...
Deregister(k) ==
    /\ "deregister" \in deployment.operations
    /\ At(k, "idle")
    /\ catalog' = [catalog EXCEPT ![sessions[k].at] = @ \ {sessions[k].worker}]
    /\ topology' = topology \ {sessions[k].worker}
    /\ Become(k, [Idle(k) EXCEPT !.step = "release"])
    /\ UNCHANGED <<manager, store, synced, syncing, senders, leadership, issued, faults>>

\* ... release the worker's leases, persisted only if it held any.
Release(k) ==
    LET c == sessions[k].at
        w == sessions[k].worker
    IN  /\ At(k, "release")
        /\ manager' = [manager EXCEPT ![c] = ReleaseWorker(@, w)]
        /\ IF HeldBy(manager[c], w) = {}
           THEN Become(k, Idle(k))
           ELSE Become(k, [Idle(k) EXCEPT !.step = "snapshot"])
        /\ UNCHANGED <<store, synced, syncing, membership, leadership, issued, faults>>

\* The connection is lost: the worker's sender and catalog entry go (but not
\* its entry in the topology store), those of a newer connection of the worker
\* included, ...
Disconnect(k) ==
    /\ "disconnect" \in deployment.operations
    /\ At(k, "idle")
    /\ catalog' = [catalog EXCEPT ![sessions[k].at] = @ \ {sessions[k].worker}]
    /\ senders' = [senders EXCEPT ![sessions[k].at] = @ \ {sessions[k].worker}]
    /\ Become(k, [sessions[k] EXCEPT !.step = "dead", !.next = "gone"])
    /\ UNCHANGED <<manager, store, synced, syncing, topology, leadership, issued, faults>>

\* ... on_worker_dead releases its leases and reads who is left; of several
\* survivors those count whose protocol and storage format all the others
\* understand, if there are any, ...
OnWorkerDead(k) ==
    LET c == sessions[k].at
        w == sessions[k].worker
        freed == HeldBy(manager[c], w)
        survivors == catalog[c] \ {w}
    IN  /\ At(k, "dead")
        /\ manager' = [manager EXCEPT ![c] = ReleaseWorker(@, w)]
        /\ \E compatible \in SUBSET survivors :
              /\ Cardinality(survivors) = 1 => compatible = survivors
              /\ IF freed = {} \/ compatible = {}
                 THEN Finish(k)
                 ELSE Become(k, [sessions[k] EXCEPT !.step = "reassign",
                                                    !.todo = freed, !.targets = compatible])
        /\ UNCHANGED <<store, synced, syncing, membership, leadership, issued, faults>>

\* ... and gives each freed shard to a survivor (the placement score is left
\* open).  A shard that somebody has taken meanwhile is announced to its new
\* holder again.
Reassign(k) ==
    LET c == sessions[k].at
        m == manager[c]
        advance(s, l) ==
            Become(k, [sessions[k] EXCEPT
                !.todo = @ \ {s}, !.grants = @ \cup {l},
                !.step = IF sessions[k].todo = {s} THEN "snapshot" ELSE @])
    IN  /\ At(k, "reassign")
        /\ \E s \in sessions[k].todo, w \in sessions[k].targets :
              IF HeldByOther(m, s, w)
              THEN advance(s, m.leases[s]) /\ UNCHANGED manager
              ELSE /\ CanMint(m)
                   /\ manager' = [manager EXCEPT ![c] = Granted(@, s, w)]
                   /\ advance(s, NewLease(m, s, w))
        /\ UNCHANGED <<store, synced, syncing, membership, leadership, issued, faults>>

-----------------------------------------------------------------------------
(* RequestShard and FenceWrite *)

\* An active worker asks the leader for s; others are turned away.
RequestShard(k, s) ==
    /\ "request" \in deployment.operations
    /\ At(k, "idle")
    /\ sessions[k].worker \in catalog[sessions[k].at]
    /\ RequireLeader(sessions[k].at)
    /\ Become(k, [Idle(k) EXCEPT
          !.step = IF deployment.raft THEN "checked" ELSE "acquire", !.shard = s])
    /\ UNCHANGED <<manager, store, synced, syncing, membership, leadership, issued, faults>>

\* The epoch is read again after require_leader: if the authority lapsed in
\* between, `expect` panics and the session is gone without its cleanup.
ReadEpoch(k) ==
    /\ At(k, "checked")
    /\ IF RequireLeader(sessions[k].at)
       THEN Become(k, [sessions[k] EXCEPT !.step = "sync",
                                          !.epoch = reign[sessions[k].at]])
       ELSE Become(k, NoSession)
    /\ UNCHANGED <<manager, store, synced, syncing, membership, leadership, issued, faults>>

\* FenceWrite makes a leader sync before it answers.  The answer itself is
\* Certifies below; a non-leader, or a synced leader, changes nothing.
FenceWrite(k) ==
    /\ "fence" \in deployment.operations
    /\ At(k, "idle")
    /\ deployment.raft /\ RequireLeader(sessions[k].at)
    /\ Become(k, [Idle(k) EXCEPT !.step = "sync", !.epoch = reign[sessions[k].at]])
    /\ UNCHANGED <<manager, store, synced, syncing, membership, leadership, issued, faults>>

\* Where a synced session goes on: to acquire its shard, or to answer.
AfterSync(k) ==
    IF sessions[k].shard = Nil
    THEN Idle(k)
    ELSE [sessions[k] EXCEPT !.step = "acquire", !.snap = DefaultSnapshot]

SyncedFor(c, e) == synced[c] = e

\* ensure_shard_state_synced, up to the end of load: the mutex is taken and,
\* unless the node has synced for this epoch, the snapshot is loaded.
Sync(k) ==
    LET c == sessions[k].at
    IN  /\ At(k, "sync")
        /\ syncing[c] = Nil
        /\ IF SyncedFor(c, sessions[k].epoch)
           THEN Become(k, AfterSync(k)) /\ UNCHANGED <<syncing, faults>>
           ELSE \E l \in Loadable :
                  /\ Become(k, [sessions[k] EXCEPT !.step = "restore", !.snap = l])
                  /\ syncing' = [syncing EXCEPT ![c] = k]
                  /\ faults' = FaultsAfterLoad(l)
        /\ UNCHANGED <<manager, store, synced, membership, leadership, issued>>

\* restore brings the writer's leader epoch along with the leases; ...
Restore(k) ==
    /\ At(k, "restore")
    /\ manager' = [manager EXCEPT ![sessions[k].at] = sessions[k].snap]
    /\ Become(k, [sessions[k] EXCEPT !.step = "stamp"])
    /\ UNCHANGED <<store, synced, syncing, membership, leadership, issued, faults>>

\* ... set_leader_epoch replaces it, under a lock of its own.
SetLeaderEpoch(k) ==
    LET c == sessions[k].at
    IN  /\ At(k, "stamp")
        /\ manager' = [manager EXCEPT ![c].leaderEpoch = sessions[k].epoch]
        /\ synced' = [synced EXCEPT ![c] = sessions[k].epoch]
        /\ syncing' = [syncing EXCEPT ![c] = Nil]
        /\ Become(k, AfterSync(k))
        /\ UNCHANGED <<store, membership, leadership, issued, faults>>

\* acquire: a free shard or a renewal; a foreign lease is left alone and the
\* worker hears nothing.
Acquire(k) ==
    LET c == sessions[k].at
        s == sessions[k].shard
        w == sessions[k].worker
        m == manager[c]
    IN  /\ At(k, "acquire")
        /\ IF HeldByOther(m, s, w)
           THEN Become(k, Idle(k)) /\ UNCHANGED manager
           ELSE /\ CanMint(m)
                /\ manager' = [manager EXCEPT ![c] = Granted(@, s, w)]
                /\ Become(k, [Idle(k) EXCEPT !.step = "snapshot",
                                             !.grants = {NewLease(m, s, w)}])
        /\ UNCHANGED <<store, synced, syncing, membership, leadership, issued, faults>>

-----------------------------------------------------------------------------
(* DeployWorkload and the drain of a worker: no leader check *)

\* deploy_workload takes the shards of a workload by force, one per healthy
\* worker, ...
DeployWorkload(k, shards) ==
    LET c == sessions[k].at
    IN  /\ "deploy" \in deployment.operations
        /\ At(k, "idle")
        /\ catalog[c] # {} /\ catalog[c] \subseteq senders[c]
        /\ shards # {} /\ Cardinality(shards) <= Cardinality(catalog[c])
        /\ Become(k, [Idle(k) EXCEPT !.step = "deploy", !.todo = shards,
                                     !.targets = catalog[c]])
        /\ UNCHANGED <<manager, store, synced, syncing, membership, leadership, issued, faults>>

\* ... and sends the descriptors before the handler persists the leases.
ForceAcquire(k) ==
    LET c == sessions[k].at
        m == manager[c]
    IN  /\ At(k, "deploy")
        /\ CanMint(m)
        /\ \E s \in sessions[k].todo, w \in sessions[k].targets :
              LET grants == sessions[k].grants \cup {NewLease(m, s, w)}
              IN  /\ manager' = [manager EXCEPT ![c] = Granted(@, s, w)]
                  /\ IF sessions[k].todo = {s}
                     THEN /\ issued' = issued \cup grants
                          /\ Become(k, [Idle(k) EXCEPT !.step = "snapshot"])
                     ELSE /\ UNCHANGED issued
                          /\ Become(k, [sessions[k] EXCEPT
                                !.todo = @ \ {s}, !.targets = @ \ {w},
                                !.grants = grants])
        /\ UNCHANGED <<store, synced, syncing, membership, leadership, faults>>

\* process_drain_queue, for one task of a draining worker: the lease is read
\* and must be the donor's or, after an earlier attempt, the recipient's, ...
DrainShard(k, s, recipient) ==
    LET c == sessions[k].at
        w == sessions[k].worker
    IN  /\ "drain" \in deployment.operations
        /\ At(k, "idle")
        /\ {w, recipient} \subseteq catalog[c] \cap senders[c] /\ recipient # w
        /\ \/ /\ s \in HeldBy(manager[c], w)
              /\ Become(k, [Idle(k) EXCEPT !.step = "drain", !.shard = s,
                                           !.targets = {recipient}])
           \/ /\ s \in HeldBy(manager[c], recipient)
              /\ Become(k, [Idle(k) EXCEPT !.step = "announce",
                                           !.grants = {manager[c].leases[s]}])
        /\ UNCHANGED <<manager, store, synced, syncing, membership, leadership, issued, faults>>

\* ... then taken by force.  If somebody else held it by now, the task is put
\* back: the new lease stays in the manager, neither persisted nor announced.
DrainTransfer(k) ==
    LET c == sessions[k].at
        s == sessions[k].shard
        m == manager[c]
    IN  /\ At(k, "drain")
        /\ CanMint(m)
        /\ \E w \in sessions[k].targets :
              /\ manager' = [manager EXCEPT ![c] = Granted(@, s, w)]
              /\ IF s \in HeldBy(m, sessions[k].worker)
                 THEN Become(k, [Idle(k) EXCEPT !.step = "snapshot",
                                                !.grants = {NewLease(m, s, w)}])
                 ELSE Become(k, Idle(k))
        /\ UNCHANGED <<store, synced, syncing, membership, leadership, issued, faults>>

\* The recipient's own lease is announced to it again as it was read: neither
\* minted nor persisted by this attempt.
Announce(k) ==
    /\ At(k, "announce")
    /\ issued' = issued \cup Deliverable(k)
    /\ Become(k, Idle(k))
    /\ UNCHANGED <<manager, store, synced, syncing, membership, leadership, faults>>

-----------------------------------------------------------------------------
(* persist_shard_state *)

TakeSnapshot(k) ==
    /\ At(k, "snapshot")
    /\ Become(k, [sessions[k] EXCEPT !.step = "put",
                                     !.snap = manager[sessions[k].at]])
    /\ UNCHANGED <<manager, store, synced, syncing, membership, leadership, issued, faults>>

PersistedLate(k) == store
Persisted(k) == sessions[k].snap

\* The PUT lands and the grants go out.
Put(k) ==
    /\ At(k, "put")
    /\ store' = Persisted(k)
    /\ issued' = issued \cup Deliverable(k)
    /\ Finish(k)
    /\ UNCHANGED <<manager, synced, syncing, membership, leadership, faults>>

\* A failed PUT panics the session's task: no reply and no cleanup, and the
\* worker's sender stays.
PutFails(k) ==
    /\ At(k, "put")
    /\ CanFail("put") /\ Fail
    /\ Become(k, NoSession)
    /\ UNCHANGED <<manager, store, synced, syncing, membership, leadership, issued>>

-----------------------------------------------------------------------------
(* Leadership and crashes *)

AtWork(k) == ~(At(k, "free") \/ At(k, "idle"))

\* What an orderly deployment asks of a change of leadership.
Orderly == deployment.orderly => \A k \in Sessions : ~AtWork(k)

Lead(c, e) ==
    /\ deployment.raft
    /\ reign[c] = 0 /\ e \notin won
    /\ Orderly
    /\ deployment.orderly => (\A d \in Controls : reign[d] = 0) /\ (\A f \in won : f < e)
    /\ reign' = [reign EXCEPT ![c] = e]
    /\ live' = [live EXCEPT ![c] = TRUE]
    /\ won' = won \cup {e}
    /\ UNCHANGED <<manager, store, synced, syncing, membership, sessions, issued, faults>>

\* The quorum lease runs out while the role stays Leader, and comes back.
Lapse(c) ==
    /\ reign[c] # 0 /\ live[c] /\ Orderly
    /\ live' = [live EXCEPT ![c] = FALSE]
    /\ UNCHANGED <<manager, store, synced, syncing, membership, reign, won,
                   sessions, issued, faults>>

Renew(c) ==
    /\ reign[c] # 0 /\ ~live[c]
    /\ live' = [live EXCEPT ![c] = TRUE]
    /\ UNCHANGED <<manager, store, synced, syncing, membership, reign, won,
                   sessions, issued, faults>>

StepDown(c) ==
    /\ reign[c] # 0 /\ Orderly
    /\ reign' = [reign EXCEPT ![c] = 0]
    /\ live' = [live EXCEPT ![c] = FALSE]
    /\ UNCHANGED <<manager, store, synced, syncing, membership, won, sessions,
                   issued, faults>>

\* The process stops and starts again: sessions, the role and the memory are
\* gone, the catalog comes back from the topology store.
Crash(c) ==
    /\ CanFail("crash")
    /\ \E l \in {store} \cup
                (IF "load" \in deployment.faults /\ ~deployment.raft /\ faults + 1 < MaxFaults
                 THEN {DefaultSnapshot} ELSE {}) :
          /\ manager' = [manager EXCEPT ![c] = Booted(l)]
          /\ faults' = IF l = store THEN faults + 1 ELSE faults + 2
    /\ synced' = [synced EXCEPT ![c] = 0]
    /\ syncing' = [syncing EXCEPT ![c] = Nil]
    /\ catalog' = [catalog EXCEPT ![c] = topology]
    /\ senders' = [senders EXCEPT ![c] = {}]
    /\ reign' = [reign EXCEPT ![c] = 0]
    /\ live' = [live EXCEPT ![c] = FALSE]
    /\ sessions' = [k \in Sessions |->
          IF sessions[k].at = c THEN NoSession ELSE sessions[k]]
    /\ UNCHANGED <<store, topology, won, issued>>

SessionStep(k) ==
    \/ \E c \in deployment.nodes, w \in Workers : Register(k, c, w)
    \/ Deregister(k) \/ Release(k)
    \/ Disconnect(k) \/ OnWorkerDead(k) \/ Reassign(k)
    \/ \E s \in Shards : RequestShard(k, s)
    \/ ReadEpoch(k) \/ FenceWrite(k)
    \/ Sync(k) \/ Restore(k) \/ SetLeaderEpoch(k) \/ Acquire(k)
    \/ \E shards \in SUBSET Shards : DeployWorkload(k, shards)
    \/ ForceAcquire(k)
    \/ \E s \in Shards, w \in Workers : DrainShard(k, s, w)
    \/ DrainTransfer(k) \/ Announce(k)
    \/ TakeSnapshot(k) \/ Put(k) \/ PutFails(k)

ControlStep(c) ==
    \/ \E e \in 1..MaxEpoch : Lead(c, e)
    \/ Lapse(c) \/ Renew(c) \/ StepDown(c)
    \/ Crash(c)

Next ==
    /\ \/ \E k \in deployment.sessions : SessionStep(k)
       \/ \E c \in deployment.nodes : ControlStep(c)
    /\ UNCHANGED deployment

Spec == Init /\ [][Next]_vars

-----------------------------------------------------------------------------
(* Properties *)

\* No token is sent out twice: "the returned LeaseToken is always strictly
\* greater than every previously issued token for any shard".
UniqueTokens ==
    \A l, m \in issued : l.token = m.token => l = m

\* The control answers FenceWrite from its lease table.
Certifies(c) ==
    /\ RequireLeader(c)
    /\ deployment.raft => SyncedFor(c, reign[c])

\* A control whose answer to FenceWrite counts never certifies a token once a
\* newer one has been sent out for the same shard: "Once a newer token T' > T
\* is issued for S, every attempt with T returns false".
NewestTokenWins ==
    \A c \in deployment.nodes, l \in issued :
        Certifies(c) /\ manager[c].leases[l.shard] # Nil
            => AtMost(l.token, manager[c].leases[l.shard].token)

\* Where workers only request and fence, so that nobody gives a lease back, a
\* control whose answers count holds a lease on every shard that was ever
\* leased: no grant that reached a worker is lost in a crash, a failed PUT or
\* a change of leadership, which is "the hazard this store exists to prevent".
LeaseRemembered ==
    \A c \in deployment.nodes, l \in issued :
        Certifies(c) /\ deployment.operations \subseteq {"request", "fence"}
            => manager[c].leases[l.shard] # Nil
=============================================================================
