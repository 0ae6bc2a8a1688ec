---------------------------- MODULE ShardTransfer ----------------------------
(* The migrate operation of the management API: ManagementMigrationRuntime    *)
(* moves the lease of one shard from its owner to a target worker.  An        *)
(* operation is a durable record of a status and a phase; an executor task    *)
(* drives it through the phases, asks the owner to close the shard, transfers *)
(* the lease, asks the target to open it, and rolls the transfer back when it *)
(* does not.  Operators cancel operations, workers and the control node come  *)
(* and go, answers are late, writes to the operation store fail.              *)
(*                                                                            *)
(* One shard and one control node are modelled: operations on different       *)
(* shards share nothing but the capacity of the waiter table.  The lease      *)
(* table itself, with the steps inside a grant, is the subject of ShardLeases.*)
EXTENDS Naturals, Sequences

CONSTANTS
    Workers,        \* worker ids
    Operations,     \* operation ids
    Nil,            \* no lease, no reply, no operation
    MaxTransitions, \* MAX_OPERATION_TRANSITIONS: 64 in the code
    MaxToken,       \* bound: tokens minted
    MaxRequests,    \* bound: RequestShard calls
    MaxFaults,      \* bound: lost connections, crashes, failed opens, late answers
    MaxErrors       \* bound: failed writes to the object store

ASSUME TransferConstants ==
    /\ Nil \notin Workers /\ Nil \notin Operations
    /\ Nil \notin [worker : Workers, token : 1 .. MaxToken]
    /\ {MaxTransitions, MaxToken, MaxRequests, MaxFaults, MaxErrors} \subseteq Nat
    /\ MaxToken > 0

VARIABLES
    op,         \* operation -> its durable record
    exec,       \* operation -> the executor task, with its locals
    table,      \* the control's lease of the shard and its token counter
    store,      \* the stored snapshot of the table
    catalog,    \* workers the control knows
    linked,     \* workers with a live connection
    dead,       \* lost workers whose session has not cleaned up yet
    open,       \* worker -> token of the lease it has the shard open with, or 0
    inbox,      \* worker -> control messages on their way
    acks,       \* worker -> ShardTransferAcks on their way
    opened,     \* history: <<worker, token>> the shard was opened with
    moved,      \* history: <<operation, token>> of every lease given to a target
    revived,    \* history: <<operation, token>> a restart brought back too late
    spent       \* what of the bounds has been used

durable == <<op, store>>
control == <<exec, table, catalog>>
workers == <<linked, dead, open, inbox, acks>>
history == <<opened, moved, revived>>
vars == <<durable, control, workers, history, spent>>

-----------------------------------------------------------------------------
(* State *)

Terminal == {"Succeeded", "Failed", "Cancelled"}

\* "validating" is validating_lease_and_workers, "handoff" is
\* donor_handoff_started, "closed" donor_flushed_and_closed, "transfer"
\* lease_transfer_started and "opening" recipient_opening.
Phases == {"none", "validating", "handoff", "closed", "transfer", "opening",
           "completed", "failed", "cancelled"}

Tokens == 1 .. MaxToken
Leases == [worker : Workers, token : Tokens]

\* Where an executor waits for an acknowledgement of the recipient stage; it
\* waits for the donor's at "donor".
RecipientStage == {"reclaim", "reopen", "giveback", "opening", "returned"}

IdleTask == [at |-> "idle", prev |-> "none", lease |-> Nil, sent |-> Nil,
             result |-> "none", then |-> "none"]

\* A worker owns the shard and has it open; nobody has asked for a migration.
Init ==
    /\ op = [o \in Operations |->
               [status |-> "Absent", phase |-> "none", target |-> Nil, writes |-> 0]]
    /\ exec = [o \in Operations |-> IdleTask]
    /\ \E w \in Workers :
          /\ table = [lease |-> [worker |-> w, token |-> 1], next |-> 2]
          /\ open = [v \in Workers |-> IF v = w THEN 1 ELSE 0]
          /\ opened = {<<w, 1>>}
    /\ store = table
    /\ catalog = Workers
    /\ linked = Workers
    /\ dead = {}
    /\ inbox = [w \in Workers |-> <<>>]
    /\ acks = [w \in Workers |-> <<>>]
    /\ moved = {} /\ revived = {}
    /\ spent = [faults |-> 0, errors |-> 0, requests |-> 0]

\* A fault, a failed write and a request each use up their bound.
Fault ==
    /\ spent.faults < MaxFaults
    /\ spent' = [spent EXCEPT !.faults = @ + 1]

Error ==
    /\ spent.errors < MaxErrors
    /\ spent' = [spent EXCEPT !.errors = @ + 1]

CanMint == table.next <= MaxToken

Minted(n) == n + 1

\* mint_token, and the lease put in the table.
Granted(w) ==
    [lease |-> [worker |-> w, token |-> table.next], next |-> Minted(table.next)]

Owner(l) == IF l = Nil THEN Nil ELSE l.worker

\* A message to a worker whose connection is gone is dropped.
Deliver(w, m) ==
    inbox' = IF w \in linked THEN [inbox EXCEPT ![w] = Append(@, m)] ELSE inbox

-----------------------------------------------------------------------------
(* The operation store *)

\* OperationRecord::apply_update: terminal records are immutable, Running and
\* Waiting ones may change their phase.
Legal(s, t) ==
    \/ s = t /\ s \in {"Running", "Waiting"}
    \/ s = "Pending" /\ t \in {"Running", "Waiting", "Failed", "Cancelled"}
    \/ s = "Running" /\ t \in {"Waiting", "Succeeded", "Failed", "Cancelled"}
    \/ s = "Waiting" /\ t \in {"Running", "Failed", "Cancelled"}

Marked(o, status, phase) ==
    [status |-> status, phase |-> phase, target |-> op[o].target,
     writes |-> op[o].writes + 1]

Record(o, status, phase) == op' = [op EXCEPT ![o] = Marked(o, status, phase)]

\* read_state follows the chain of transitions from the accepted record and
\* gives up on one that is too long.
Readable(o) == op[o].writes <= MaxTransitions

\* load_all reads every record, or fails.
AllReadable == \A o \in Operations : Readable(o)

\* write_transition: the update is stored if the record can be read and is as
\* expected, and is refused otherwise; the last transition that is stored makes
\* the record unreadable. A write that ends in an error, a clock that went
\* back included, may have been stored.
Write(o, expected, status, phase, Then, Else) ==
    LET accepted == Readable(o) /\ expected
    IN  \/ /\ accepted
           /\ Record(o, status, phase)
           /\ Then
           /\ UNCHANGED spent
        \/ /\ ~accepted
           /\ Else
           /\ UNCHANGED <<op, spent>>
        \/ /\ Error
           /\ UNCHANGED op \/ (accepted /\ Record(o, status, phase))
           /\ Else

TransitionIf(o, oldStatus, oldPhase, status, phase, Then, Else) ==
    Write(o, op[o].status = oldStatus /\ op[o].phase = oldPhase,
          status, phase, Then, Else)

Transition(o, status, phase, Then, Else) ==
    Write(o, Legal(op[o].status, status), status, phase, Then, Else)

\* A MigrateShard request is accepted as a Pending record.
MigrateShard(o, target) ==
    /\ op[o].status = "Absent"
    /\ AllReadable
    /\ table.lease # Nil
    /\ target \in catalog
    /\ op' = [op EXCEPT ![o] = [status |-> "Pending", phase |-> "none",
                                target |-> target, writes |-> 0]]
    /\ UNCHANGED <<store, control, workers, history, spent>>

Cancellable == {"validating", "handoff", "closed"}

\* cancel_operation, up to its safe boundary.
CancelOperation(o) ==
    /\ Readable(o)
    /\ \/ op[o].status = "Pending"
       \/ op[o].status \in {"Running", "Waiting"} /\ op[o].phase \in Cancellable
    /\ Record(o, "Cancelled", "cancelled")
    /\ UNCHANGED <<store, control, workers, history, spent>>

-----------------------------------------------------------------------------
(* The executor *)

\* An acknowledgement of another worker or another lease is an error.
RightAck(l, w, token) == w = l.worker /\ token = l.token

\* What a task makes of an acknowledgement.  The text of a storage error decides
\* whether it is taken for a timeout, that is, whether the operation is retried.
Results(l, w, a) ==
    CASE ~RightAck(l, w, a.token) -> {"bad"}
      [] RightAck(l, w, a.token) /\ a.answer = "ok" -> {"ok"}
      [] RightAck(l, w, a.token) /\ a.answer = "refused" -> {"bad"}
      [] RightAck(l, w, a.token) /\ a.answer = "failed" -> {"bad", "late"}

At(o, point) == exec[o].at = point

Become(o, task) == exec' = [exec EXCEPT ![o] = task]

Goto(o, point) == Become(o, [exec[o] EXCEPT !.at = point, !.result = "none"])

Return(o) == Become(o, IdleTask) /\ UNCHANGED inbox

\* fail and wait: the error of a refused update is only logged.
Fail(o) == Transition(o, "Failed", "failed", Return(o), Return(o))

Wait(o) == Transition(o, "Waiting", op[o].phase, Return(o), Return(o))

Succeed(o) == Transition(o, "Succeeded", "completed", Return(o), Return(o))

\* send_and_wait, up to the wait: the waiter is armed, the message sent.
SendAndWait(o, kind, l, point) ==
    /\ Become(o, [exec[o] EXCEPT !.at = point, !.sent = l, !.result = "none"])
    /\ Deliver(l.worker, [kind |-> kind, lease |-> l, op |-> o])

Waiting(o) ==
    exec[o].at \in RecipientStage \cup {"donor"} /\ exec[o].result = "none"

\* Something on its way that an executor at its wait can be answered with.
Answerable(o) ==
    /\ Waiting(o)
    /\ LET w == exec[o].sent.worker
       IN  \/ \E i \in DOMAIN inbox[w] : inbox[w][i].op = o
           \/ \E i \in DOMAIN acks[w] : acks[w][i].op = o

\* The 30 seconds are over; if an answer is on its way that is a fault.
TimesOut(o) ==
    /\ Waiting(o)
    /\ IF Answerable(o) THEN Fault ELSE UNCHANGED spent
    /\ exec' = [exec EXCEPT ![o] = [@ EXCEPT !.result = "late"]]
    /\ UNCHANGED <<durable, table, catalog, workers, history>>

ClaimableOnce == {"Pending"}
Claimable == {"Pending", "Waiting"}

\* The operation is claimed: by its request, by the request sent again, and by
\* the reconciliation that runs every second and at start. Only Pending and
\* Waiting operations without a task are.
Start(o) ==
    /\ At(o, "idle")
    /\ Readable(o)
    /\ op[o].status \in Claimable
    /\ TransitionIf(o, op[o].status, op[o].phase, "Running",
          IF op[o].phase = "none" THEN "validating" ELSE op[o].phase,
          Become(o, [IdleTask EXCEPT !.at = "begun", !.prev = op[o].phase]),
          UNCHANGED exec)
    /\ UNCHANGED <<store, table, catalog, workers, history>>

\* The shard has active workloads (they are not modelled): refused.
RefuseBusy(o) ==
    /\ At(o, "begun")
    /\ exec[o].prev \in {"none", "validating"}
    /\ Fail(o)
    /\ UNCHANGED <<store, table, catalog, linked, dead, open, acks, history>>

\* An interrupted attempt is taken up: the target that owns the lease already
\* is asked to open the shard, the owner that closed it is asked to open it
\* again, and everything else starts over.
Resume(o) ==
    LET l == table.lease
        toTarget == /\ Owner(l) = op[o].target
                    /\ exec[o].prev \in {"transfer", "opening"}
        toOwner == /\ l # Nil /\ Owner(l) # op[o].target
                   /\ exec[o].prev = "closed"
    IN  /\ At(o, "begun")
        /\ IF toTarget \/ toOwner
           THEN IF l.worker \in linked
                THEN /\ SendAndWait(o, "assigned", l,
                                    IF toTarget THEN "reclaim" ELSE "reopen")
                     /\ UNCHANGED <<op, spent>>
                ELSE Wait(o)
           ELSE Goto(o, "validate") /\ UNCHANGED <<op, inbox, spent>>
        /\ UNCHANGED <<store, table, catalog, linked, dead, open, acks, history>>

OpenedOrLate(o) == exec[o].result # "bad"
Opened(o) == exec[o].result = "ok"

Reclaimed(o) ==
    /\ At(o, "reclaim") /\ exec[o].result # "none"
    /\ IF Opened(o) THEN Succeed(o) ELSE Wait(o)
    /\ UNCHANGED <<store, table, catalog, linked, dead, open, acks, history>>

Reopened(o) ==
    /\ At(o, "reopen") /\ exec[o].result # "none"
    /\ IF Opened(o)
       THEN Goto(o, "validate") /\ UNCHANGED <<op, inbox, spent>>
       ELSE Wait(o)
    /\ UNCHANGED <<store, table, catalog, linked, dead, open, acks, history>>

BeginValidation(o) ==
    /\ At(o, "validate")
    /\ TransitionIf(o, "Running",
          IF exec[o].prev = "none" THEN "validating" ELSE exec[o].prev,
          "Running", "validating",
          Goto(o, "check") /\ UNCHANGED inbox, Return(o))
    /\ UNCHANGED <<store, table, catalog, linked, dead, open, acks, history>>

\* The owner or the target is missing, they are the same, or one of them is
\* unhealthy, draining or on another shard store (these are not modelled).
RefuseUnfit(o) ==
    /\ At(o, "check")
    /\ Fail(o)
    /\ UNCHANGED <<store, table, catalog, linked, dead, open, acks, history>>

\* Both are known and different: they must be connected, and the owner is
\* asked to close the shard.
PrepareDonor(o) ==
    LET l == table.lease
    IN  /\ At(o, "check")
        /\ l # Nil /\ Owner(l) # op[o].target
        /\ {Owner(l), op[o].target} \subseteq catalog
        /\ IF {Owner(l), op[o].target} \subseteq linked
           THEN TransitionIf(o, "Running", "validating", "Running", "handoff",
                  /\ Become(o, [exec[o] EXCEPT !.at = "donor", !.lease = l,
                                               !.sent = l])
                  /\ Deliver(l.worker, [kind |-> "prepare", lease |-> l, op |-> o]),
                  Return(o))
           ELSE Wait(o)
        /\ UNCHANGED <<store, table, catalog, linked, dead, open, acks, history>>

\* reopen_donor.
ReopenDonor(o) ==
    IF exec[o].lease.worker \in linked
    THEN SendAndWait(o, "assigned", exec[o].lease, "giveback")
    ELSE Return(o)

\* operation_cancelled: a record that cannot be read is not cancelled.
Cancelled(o) == Readable(o) /\ op[o].status = "Cancelled"

DonorAnswered(o) ==
    /\ At(o, "donor") /\ exec[o].result # "none"
    /\ CASE exec[o].result = "ok" ->
              TransitionIf(o, "Running", "handoff", "Running", "closed",
                 Goto(o, "closed") /\ UNCHANGED inbox,
                 IF Cancelled(o) THEN ReopenDonor(o) ELSE Return(o))
         [] exec[o].result # "ok" /\ Cancelled(o) ->
              ReopenDonor(o) /\ UNCHANGED <<op, spent>>
         [] exec[o].result = "late" /\ ~Cancelled(o) -> Wait(o)
         [] exec[o].result = "bad" /\ ~Cancelled(o) -> Fail(o)
    /\ UNCHANGED <<store, table, catalog, linked, dead, open, acks, history>>

GivenBack(o) ==
    /\ At(o, "giveback") /\ exec[o].result # "none"
    /\ Return(o)
    /\ UNCHANGED <<durable, table, catalog, linked, dead, open, acks, history, spent>>

\* The last chance to cancel is the update to lease_transfer_started.
Approve(o) ==
    /\ At(o, "closed")
    /\ IF table.lease # exec[o].lease
       THEN Fail(o)
       ELSE TransitionIf(o, "Running", "closed", "Running", "transfer",
               Goto(o, "transfer") /\ UNCHANGED inbox, ReopenDonor(o))
    /\ UNCHANGED <<store, table, catalog, linked, dead, open, acks, history>>

SameWorker(l) == Owner(table.lease) = l.worker
StillOwner(l) == table.lease = l

TransferIfOwner(o) ==
    /\ At(o, "transfer")
    /\ IF StillOwner(exec[o].lease)
       THEN /\ CanMint
            /\ table' = Granted(op[o].target)
            /\ Become(o, [exec[o] EXCEPT !.at = "save", !.sent = table'.lease])
            /\ moved' = moved \cup {<<o, table.next>>}
            /\ UNCHANGED <<op, inbox, spent>>
       ELSE Fail(o) /\ UNCHANGED <<table, moved>>
    /\ UNCHANGED <<store, catalog, linked, dead, open, acks, opened, revived>>

\* ShardPersistentStore::save panics when the PUT fails: the task is gone, and
\* its operation stays claimed until the control restarts.
Save(o, Then) ==
    \/ store' = table /\ Then
    \/ /\ Error
       /\ Become(o, [IdleTask EXCEPT !.at = "dead"])
       /\ store' \in {store, table}
       /\ UNCHANGED <<op, inbox>>

SaveTransfer(o) ==
    /\ At(o, "save")
    /\ Save(o, Goto(o, "announce") /\ UNCHANGED <<op, inbox, spent>>)
    /\ UNCHANGED <<table, catalog, linked, dead, open, acks, history>>

Announce(o) ==
    /\ At(o, "announce")
    /\ Transition(o, "Running", "opening",
          SendAndWait(o, "assigned", exec[o].sent, "opening"),
          Goto(o, "rollback") /\ UNCHANGED inbox)
    /\ UNCHANGED <<store, table, catalog, linked, dead, open, acks, history>>

RecipientAnswered(o) ==
    /\ At(o, "opening") /\ exec[o].result # "none"
    /\ IF Opened(o)
       THEN Succeed(o)
       ELSE /\ Become(o, [exec[o] EXCEPT !.at = "rollback", !.result = "none",
                 !.then = IF exec[o].result = "late" THEN "wait" ELSE "fail"])
            /\ UNCHANGED <<op, inbox, spent>>
    /\ UNCHANGED <<store, table, catalog, linked, dead, open, acks, history>>

\* What follows a rollback: the operation waits, fails, or (its own update had
\* failed) is left as it is.
AfterRollback(o) ==
    CASE exec[o].then = "wait" -> Wait(o)
      [] exec[o].then = "fail" -> Fail(o)
      [] exec[o].then = "none" -> Return(o) /\ UNCHANGED <<op, spent>>

Rollback(o) ==
    /\ At(o, "rollback")
    /\ IF StillOwner(exec[o].sent)
       THEN /\ CanMint
            /\ table' = Granted(exec[o].lease.worker)
            /\ Become(o, [exec[o] EXCEPT !.at = "restore", !.sent = table'.lease])
            /\ UNCHANGED <<op, inbox, spent>>
       ELSE AfterRollback(o) /\ UNCHANGED table
    /\ UNCHANGED <<store, catalog, linked, dead, open, acks, history>>

SaveRollback(o) ==
    /\ At(o, "restore")
    /\ Save(o, IF exec[o].sent.worker \in linked
               THEN /\ SendAndWait(o, "assigned", exec[o].sent, "returned")
                    /\ UNCHANGED <<op, spent>>
               ELSE AfterRollback(o))
    /\ UNCHANGED <<table, catalog, linked, dead, open, acks, history>>

Returned(o) ==
    /\ At(o, "returned") /\ exec[o].result # "none"
    /\ AfterRollback(o)
    /\ UNCHANGED <<store, table, catalog, linked, dead, open, acks, history>>

-----------------------------------------------------------------------------
(* The workers *)

Ack(w, m, answer) ==
    acks' = IF m.op = Nil THEN acks
            ELSE [acks EXCEPT ![w] = Append(@,
                    [op |-> m.op,
                     stage |-> IF m.kind = "prepare" THEN "donor" ELSE "recipient",
                     token |-> m.lease.token, answer |-> answer])]

Receive(w, kind) ==
    /\ inbox[w] # <<>>
    /\ Head(inbox[w]).kind = kind
    /\ inbox' = [inbox EXCEPT ![w] = Tail(@)]

\* ShardAssigned: the shard is opened unless it is open under this very lease.
ShardAssigned(w) ==
    LET m == Head(inbox[w])
    IN  /\ Receive(w, "assigned")
        /\ open' = [open EXCEPT ![w] = m.lease.token]
        /\ opened' = opened \cup {<<w, m.lease.token>>}
        /\ Ack(w, m, "ok")
        /\ UNCHANGED <<durable, control, linked, dead, moved, revived, spent>>

\* The shard cannot be opened: what the worker had open stays as it was.
OpenFails(w) ==
    LET m == Head(inbox[w])
    IN  /\ Receive(w, "assigned")
        /\ open[w] # m.lease.token
        /\ Fault
        /\ Ack(w, m, "failed")
        /\ UNCHANGED <<durable, control, linked, dead, open, history>>

\* PrepareShardTransfer: a worker without the shard has nothing to close; one
\* that has it open under another lease refuses.
PrepareShardTransfer(w) ==
    LET m == Head(inbox[w])
        holds == open[w] \in {0, m.lease.token}
    IN  /\ Receive(w, "prepare")
        /\ open' = IF holds THEN [open EXCEPT ![w] = 0] ELSE open
        /\ Ack(w, m, IF holds THEN "ok" ELSE "refused")
        /\ UNCHANGED <<durable, control, linked, dead, history, spent>>

\* The shard cannot be flushed or closed: it stays in the worker's table.
CloseFails(w) ==
    LET m == Head(inbox[w])
    IN  /\ Receive(w, "prepare")
        /\ open[w] = m.lease.token
        /\ Fault
        /\ Ack(w, m, "failed")
        /\ UNCHANGED <<durable, control, linked, dead, open, history>>

\* The control takes an acknowledgement in: the first one of the awaited stage
\* goes to the waiter, whichever attempt it answers; others are dropped.
ShardTransferAck(w) ==
    LET a == Head(acks[w])
        task == exec[a.op]
        awaited == Waiting(a.op) /\ (a.stage = "donor") = (task.at = "donor")
    IN  /\ acks[w] # <<>>
        /\ acks' = [acks EXCEPT ![w] = Tail(@)]
        /\ IF awaited
           THEN \E r \in Results(task.sent, w, a) :
                   Become(a.op, [task EXCEPT !.result = r])
           ELSE UNCHANGED exec
        /\ UNCHANGED <<durable, table, catalog, linked, dead, open, inbox, history, spent>>

\* RequestShard: a free shard, or a renewal by its owner, is granted, saved and
\* announced.
RequestShard(w) ==
    /\ w \in linked
    /\ Owner(table.lease) \in {Nil, w}
    /\ CanMint
    /\ spent.requests < MaxRequests
    /\ spent' = [spent EXCEPT !.requests = @ + 1]
    /\ table' = Granted(w)
    /\ store' = table'
    /\ Deliver(w, [kind |-> "assigned", lease |-> table'.lease, op |-> Nil])
    /\ UNCHANGED <<op, exec, catalog, linked, dead, open, acks, history>>

-----------------------------------------------------------------------------
(* Connections and crashes *)

\* A connection is lost: the worker closes what it has open, and what was on
\* its way is gone.
ConnectionLost(w) ==
    /\ w \in linked
    /\ Fault
    /\ linked' = linked \ {w}
    /\ dead' = dead \cup {w}
    /\ open' = [open EXCEPT ![w] = 0]
    /\ inbox' = [inbox EXCEPT ![w] = <<>>]
    /\ acks' = [acks EXCEPT ![w] = <<>>]
    /\ UNCHANGED <<durable, control, history>>

\* The end of its session: the worker is deregistered and its lease goes to
\* one that is left, or to nobody, which is not saved.
OnWorkerDead(w) ==
    /\ w \in dead
    /\ dead' = dead \ {w}
    /\ catalog' = catalog \ {w}
    /\ IF Owner(table.lease) # w
       THEN UNCHANGED <<table, store, inbox>>
       ELSE IF catalog \ {w} = {}
       THEN table' = [table EXCEPT !.lease = Nil] /\ UNCHANGED <<store, inbox>>
       ELSE /\ CanMint
            /\ \E v \in catalog \ {w} :
                  /\ table' = Granted(v)
                  /\ store' = table'
                  /\ Deliver(v, [kind |-> "assigned", lease |-> table'.lease,
                                 op |-> Nil])
    /\ UNCHANGED <<op, exec, linked, open, acks, history, spent>>

\* A worker comes back once its old session is cleaned up.
Register(w) ==
    /\ w \notin linked \cup dead
    /\ linked' = linked \cup {w}
    /\ catalog' = catalog \cup {w}
    /\ UNCHANGED <<durable, exec, table, dead, open, inbox, acks, history, spent>>

\* Operations that are not in the middle of handing the lease over.
MovedOn == {o \in Operations : op[o].phase \notin {"transfer", "opening"}}

\* The control restarts: tasks, connections and messages are gone, workers
\* close their shards, the table and the catalog are restored, and Running
\* operations are set to Waiting.  A lease that was not stored never existed,
\* and one that had been given up in memory only is in force again.  With a
\* record that cannot be read the control does not start: nothing happens any
\* more.
Restart ==
    /\ AllReadable
    /\ Fault
    /\ exec' = [o \in Operations |-> IdleTask]
    /\ op' = [o \in Operations |->
                IF op[o].status = "Running" THEN Marked(o, "Waiting", op[o].phase)
                ELSE op[o]]
    /\ table' = store
    /\ catalog' = Workers
    /\ linked' = {}
    /\ dead' = {}
    /\ open' = [w \in Workers |-> 0]
    /\ inbox' = [w \in Workers |-> <<>>]
    /\ acks' = [w \in Workers |-> <<>>]
    /\ moved' = {m \in moved : m[2] < store.next}
    /\ opened' = {m \in opened : m[2] < store.next}
    /\ revived' = IF store.lease \in {Nil, table.lease} THEN revived
                  ELSE revived \cup {<<o, store.lease.token>> : o \in MovedOn}
    /\ UNCHANGED store

-----------------------------------------------------------------------------
(* The specification *)

Execute(o) ==
    \/ Start(o) \/ RefuseBusy(o) \/ Resume(o) \/ Reclaimed(o) \/ Reopened(o)
    \/ BeginValidation(o) \/ RefuseUnfit(o) \/ PrepareDonor(o)
    \/ DonorAnswered(o) \/ GivenBack(o) \/ Approve(o) \/ TransferIfOwner(o)
    \/ SaveTransfer(o) \/ Announce(o) \/ RecipientAnswered(o) \/ Rollback(o)
    \/ SaveRollback(o) \/ Returned(o)

Handle(w) ==
    \/ ShardAssigned(w) \/ OpenFails(w)
    \/ PrepareShardTransfer(w) \/ CloseFails(w)

Next ==
    \/ \E o \in Operations :
          \/ \E w \in Workers : MigrateShard(o, w)
          \/ CancelOperation(o)
          \/ Execute(o)
          \/ TimesOut(o)
    \/ \E w \in Workers :
          \/ Handle(w)
          \/ ShardTransferAck(w)
          \/ RequestShard(w)
          \/ ConnectionLost(w)
          \/ OnWorkerDead(w)
          \/ Register(w)
    \/ Restart

Spec == Init /\ [][Next]_vars

\* Reconciliation comes to an operation without a task only if it can read
\* every record.
Reconciled(o) == At(o, "idle") => AllReadable

\* Tasks, sessions and workers run; the timer of a wait nothing can answer
\* runs out; workers that lost their connection register again.
Fairness ==
    /\ \A o \in Operations :
          /\ WF_vars(Reconciled(o) /\ Execute(o))
          /\ WF_vars(~Answerable(o) /\ TimesOut(o))
    /\ \A w \in Workers :
          /\ WF_vars(Handle(w))
          /\ WF_vars(ShardTransferAck(w))
          /\ WF_vars(OnWorkerDead(w))
          /\ WF_vars(Register(w))

FairSpec == Spec /\ Fairness

-----------------------------------------------------------------------------
(* Properties *)

\* The lease the operation gave to its target is in force.  One that had been
\* given up in memory only, and that a restart brought back when the operation
\* had ended or begun anew without it, is not counted.
InForce(o) ==
    /\ table.lease # Nil
    /\ Owner(table.lease) = op[o].target
    /\ <<o, table.lease.token>> \in moved
    /\ <<o, table.lease.token>> \notin revived

\* An operation that succeeded and whose lease is in force was acknowledged by
\* the target for that very lease: whatever answers of earlier attempts, of a
\* rollback or of the former owner arrive, the shard has been opened there.
SuccessIsBacked ==
    \A o \in Operations :
        op[o].status = "Succeeded" /\ InForce(o)
            => <<op[o].target, table.lease.token>> \in opened

\* A cancelled operation has not moved the shard: cancellation is accepted "up
\* to its safe boundary" only, and a lease an earlier attempt had moved has
\* been taken back by then.
CancelledKeepsOwner ==
    \A o \in Operations : op[o].status = "Cancelled" => ~InForce(o)

\* The status an operation ends with is true of the lease in force, whatever
\* late answers, crashes, rollbacks and cancellations came before.
OutcomeIsTrue == SuccessIsBacked /\ CancelledKeepsOwner

\* When the executor takes the lease away from its owner, the owner has closed
\* the shard: "donor_flushed_and_closed" is true when it is acted upon.  It is so
\* as long as one operation at a time migrates the shard, which nothing in the
\* code sees to: a second one that is cancelled has the owner open it again.
HandOverIsExclusive ==
    [][\A o \in Operations :
          At(o, "transfer") /\ exec'[o].at = "save" =>
              open[Owner(table.lease)] # table.lease.token]_vars

\* Unless the operation store fails, every accepted operation ends, through
\* late answers, lost connections and restarts, or it has used up the
\* transitions of its record, or another one has: from then on nothing is
\* reconciled (management_store.rs:22, management.rs:176).
OperationEnds ==
    \A o \in Operations :
        op[o].status = "Pending" ~>
            op[o].status \in Terminal \/ spent.errors > 0 \/ ~AllReadable
=============================================================================
