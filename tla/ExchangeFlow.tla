----------------------------- MODULE ExchangeFlow -----------------------------
(***************************************************************************)
(* The flow controller of the data exchange (rockstream-runtime/src/       *)
(* exchange/flow_control.rs), with the two ends that drive it: send_frame  *)
(* of the stream multiplexer, which takes a permit, hands it to the        *)
(* acknowledgement accounting or falls back to the durable object, and     *)
(* shuffle_stream of the receiver, which acknowledges every frame.         *)
(*                                                                         *)
(* A call of send_frame is a task of its own.  The registry of channels is *)
(* under one lock, but the wake-up of the waiters, the second half of an   *)
(* acknowledgement and the second half of a teardown run after the lock is *)
(* given back, and other tasks run in between.                             *)
(***************************************************************************)
EXTENDS Integers, FiniteSets, FiniteSetsExt

CONSTANTS
    Sends,        \* the calls of send_frame
    RowCalls,     \* the calls of acquire_credit, the older row-only interface
    Exchanges, Keys,
    ExchangeOf,   \* the exchange of a channel key
    KeyOf,        \* the channel a call sends on
    Rows,         \* row_count of a call
    Bytes,        \* the payload size of a send
    FrameOf,      \* (epoch, seq) of a send: a retransmission repeats it
    Workloads,    \* the sets of calls that may be made in one run
    Budgets,      \* the row budgets set_row_budget may install
    MaxBatches, MaxBytes, MaxBatchBytes, \* three of the limits, and
    PendingLimits, \* the values with_max_pending_requests may set
    MaxTeardowns, \* bound: how often a channel may be torn down
    MaxBreaks,    \* bound: how often the stream to the peer breaks
    MaxBudgetChanges \* bound: how often the row budget is replaced

Calls == Sends \cup RowCalls

ASSUME ExchangeCallsAssumption ==
    /\ IsFiniteSet(Sends) /\ IsFiniteSet(RowCalls) /\ Sends \cap RowCalls = {}
    /\ ExchangeOf \in [Keys -> Exchanges]
    /\ KeyOf \in [Calls -> Keys]
    /\ Rows \in [Calls -> Nat \ {0}]
    /\ Bytes \in [Sends -> Nat]
    /\ DOMAIN FrameOf = Sends
    /\ Workloads \subseteq SUBSET Calls

\* The sender charges batches, the older interface rows: never one channel both.
ASSUME ExchangeKeysAssumption ==
    \A t \in Sends, r \in RowCalls : KeyOf[t] # KeyOf[r]

ASSUME ExchangeLimitsAssumption ==
    /\ Budgets \subseteq Nat \ {0} /\ Budgets # {}
    /\ MaxBatches \in Nat \ {0} /\ MaxBytes \in Nat \ {0}
    /\ MaxBatchBytes \in Nat \ {0} /\ PendingLimits \subseteq Nat \ {0}
    /\ MaxTeardowns \in Nat /\ MaxBreaks \in Nat /\ MaxBudgetChanges \in Nat

VARIABLES
    maxPending, \* max_pending_requests, fixed when the controller is built
    budget,     \* row_budget
    changes,    \* how often it has been replaced
    live,       \* the keys with a ChannelCreditState
    chan,       \* chan[k]: that state, meaningful for live keys
    gen,        \* gen[k]: the identity of the Arc that owns k's channel
    retired,    \* the keys that must not be used again
    bytes,      \* aggregate_bytes
    pending,    \* pending_requests
    queued,     \* queued_credit_waiters
    noteId,     \* noteId[k]: the identity of k's Notify, or of its next one
    noteWaiters,\* noteWaiters[k]: its waiters, 0 when it has no entry
    at,         \* at[c]: where call c, or the reservation it left behind, is
    seen,       \* seen[t]: the row budget that t's attempt has read, or 0
    stale,      \* the keys whose channel was made with a budget replaced since
    own,        \* own[c]: the owner of c's permit, or the Notify it waits on
    slots,      \* the calls that hold a waiter slot
    woken,      \* the calls whose Notified future has fired
    due,        \* due[k]: notify_waiters(k) calls that are still to be made
    tearing,    \* the exchanges whose teardown has yet to wake the waiters
    budgetDue,  \* set_row_budget has yet to wake the waiters
    wire, acks, \* the sends whose frame, or acknowledgement, is on the stream
    breaks      \* how often the stream has broken

limits == <<maxPending, budget, changes>>
chanVars == <<live, chan, gen, retired>>
counters == <<bytes, pending>>
waiting == <<queued, noteId, noteWaiters, slots>>
notices == <<due, tearing, budgetDue>>
stream == <<wire, acks, breaks>>
attempts == <<seen, stale>>
vars == <<limits, chanVars, counters, waiting, notices, stream, attempts, at, own, woken>>

-----------------------------------------------------------------------------
(* Channels and what is charged to them *)

\* ChannelCreditState::new, with row budget n.
FreshChannel(n) ==
    [delivered |-> FALSE, avail |-> n, max |-> n, rows |-> 0, batches |-> 0]

NoChannel == [delivered |-> FALSE, avail |-> 0, max |-> 0, rows |-> 0, batches |-> 0]

\* The entry of k, created when there is none.
ChannelWith(k, n) == IF k \in live THEN chan[k] ELSE FreshChannel(n)
Channel(k) == ChannelWith(k, budget)

SaturatingSub(a, b) == IF a < b THEN 0 ELSE a - b

\* The calls whose permit or reservation is still charged to the controller.
Charged == {t \in Sends : at[t] \in {"held", "awaiting", "acking"}}

\* The charges of the channel that k has now.
ChargedTo(k) == {t \in Charged : KeyOf[t] = k /\ own[t] = gen[k]}

RowsOf(S) == MapThenSumSet(LAMBDA t : Rows[t], S)
BytesOf(S) == MapThenSumSet(LAMBDA t : Bytes[t], S)

Init ==
    /\ maxPending \in PendingLimits /\ budget \in Budgets /\ changes = 0
    /\ live = {} /\ retired = {}
    /\ gen = [k \in Keys |-> 0]
    /\ chan = [k \in Keys |-> NoChannel]
    /\ bytes = 0 /\ pending = 0 /\ queued = 0
    /\ noteId = [k \in Keys |-> 0] /\ noteWaiters = [k \in Keys |-> 0]
    /\ own = [c \in Calls |-> 0]
    /\ \E W \in Workloads : at = [c \in Calls |-> IF c \in W THEN "idle" ELSE "unused"]
    /\ seen = [t \in Sends |-> 0] /\ stale = {}
    /\ slots = {} /\ woken = {}
    /\ due = [k \in Keys |-> 0] /\ tearing = {} /\ budgetDue = FALSE
    /\ wire = {} /\ acks = {} /\ breaks = 0

Move(c, place) == at' = [at EXCEPT ![c] = place]

Put(k, state) == live' = live \cup {k} /\ chan' = [chan EXCEPT ![k] = state]

-----------------------------------------------------------------------------
(* acquire_batch_permit *)

\* Refused whatever the load: check_frame_size and the row budget.
Inadmissible(t) ==
    \/ Bytes[t] > MaxBatchBytes \/ Bytes[t] > MaxBytes
    \/ Rows[t] > budget

\* RESOURCE_EXHAUSTED before the channel is looked up.
Saturated(t) == pending >= maxPending \/ bytes + Bytes[t] > MaxBytes

\* RESOURCE_EXHAUSTED by the channel.
ChannelFull(t) ==
    /\ KeyOf[t] \in live
    /\ chan[KeyOf[t]].batches >= MaxBatches \/ chan[KeyOf[t]].avail < Rows[t]

\* The next iteration of the loop: the future is enabled before the attempt.
Enable(c) ==
    /\ Move(c, "enabled")
    /\ woken' = woken \ {c}

Begin(t) ==
    /\ at[t] = "idle" /\ ~Inadmissible(t)
    /\ Enable(t)
    /\ UNCHANGED <<limits, chanVars, counters, waiting, notices, stream, attempts, own>>

EnableAfterTheTry(c) == at' = [at EXCEPT ![c] = "waiting"] /\ woken' = woken \ {c}
\* After a refused attempt the future that was enabled before it is awaited.
Await(c) == Move(c, "waiting") /\ UNCHANGED woken

\* A waiter slot goes when the call returns, whatever it returns.
DropSlot(c) == slots' = slots \ {c} /\ queued' = IF c \in slots THEN queued - 1 ELSE queued

Refuse(t) ==
    /\ \/ at[t] \in {"idle", "enabled"} /\ Inadmissible(t)
       \/ at[t] = "trying" /\ KeyOf[t] \in retired
    /\ Move(t, "failed") /\ DropSlot(t)
    /\ seen' = [seen EXCEPT ![t] = 0]
    /\ UNCHANGED <<limits, chanVars, counters, noteId, noteWaiters, notices, stream, stale, own, woken>>

\* try_acquire_batch_permit reads the row budget, and only then takes the lock.
ReadBudget(t) ==
    /\ at[t] = "enabled" /\ ~Inadmissible(t)
    /\ seen' = [seen EXCEPT ![t] = budget]
    /\ Move(t, "trying")
    /\ UNCHANGED <<limits, chanVars, counters, waiting, notices, stream, stale, own, woken>>

\* All four limits hold: the permit is charged and names the channel's owner.
\* A channel that is not there is made with the budget that was read.
Acquire(t) ==
    LET k == KeyOf[t]
        c == ChannelWith(k, seen[t])
    IN  /\ at[t] = "trying" /\ k \notin retired
        /\ ~Saturated(t) /\ ~ChannelFull(t)
        /\ Put(k, [c EXCEPT !.avail = @ - Rows[t], !.rows = @ + Rows[t], !.batches = @ + 1])
        /\ stale' = IF k \notin live /\ seen[t] # budget THEN stale \cup {k} ELSE stale
        /\ seen' = [seen EXCEPT ![t] = 0]
        /\ bytes' = bytes + Bytes[t] /\ pending' = pending + 1
        /\ Move(t, "held") /\ own' = [own EXCEPT ![t] = gen[k]]
        /\ DropSlot(t)
        /\ UNCHANGED <<limits, gen, retired, noteId, noteWaiters, notices, stream, woken>>

\* The attempt is refused for now.  A channel it had to make would have had
\* room for it, so there was one.
Exhausted(t) ==
    /\ at[t] = "trying" /\ KeyOf[t] \notin retired
    /\ Saturated(t) \/ ChannelFull(t)
    /\ Move(t, "rejected")
    /\ seen' = [seen EXCEPT ![t] = 0]
    /\ UNCHANGED <<limits, chanVars, counters, waiting, notices, stream, stale, own, woken>>

\* reserve_credit_waiter: the first refusal takes a slot, a later one has it.
TakeSlot(c) ==
    /\ c \in slots \/ queued < maxPending
    /\ slots' = slots \cup {c}
    /\ queued' = IF c \in slots THEN queued ELSE queued + 1

Park(t) ==
    /\ at[t] = "rejected"
    /\ TakeSlot(t)
    /\ Await(t)
    /\ UNCHANGED <<limits, chanVars, counters, noteId, noteWaiters, notices, stream, attempts, own>>

NoSlot(c) ==
    /\ at[c] = "rejected" /\ c \notin slots /\ queued >= maxPending
    /\ Move(c, "failed")
    /\ UNCHANGED <<limits, chanVars, counters, waiting, notices, stream, attempts, own, woken>>

Wake(c) ==
    /\ at[c] = "waiting" /\ c \in woken
    /\ Enable(c)
    /\ UNCHANGED <<limits, chanVars, counters, waiting, notices, stream, attempts, own>>

\* The task is aborted while it awaits its turn.
CancelWait(t) ==
    /\ at[t] = "waiting"
    /\ Move(t, "failed") /\ DropSlot(t)
    /\ UNCHANGED <<limits, chanVars, counters, noteId, noteWaiters, notices, stream, attempts, own, woken>>

-----------------------------------------------------------------------------
(* What becomes of a permit *)

\* The channel of t's permit is the one that is live now.
SameOwner(t) == KeyOf[t] \in live /\ own[t] = gen[KeyOf[t]]

AnyOwner(t) == KeyOf[t] \in live
\* Whether a release touches the channel that k has now.
ReleaseMatches(t) == SameOwner(t)

\* release_batch_permit, up to the wake-up that follows it.
ReleaseBatchPermit(t) ==
    LET k == KeyOf[t]
        c == chan[k]
        rows == SaturatingSub(c.rows, Rows[t])
    IN  /\ chan' = IF ~ReleaseMatches(t) THEN chan
                   ELSE [chan EXCEPT ![k] = [c EXCEPT !.rows = rows,
                                                      !.batches = SaturatingSub(@, 1),
                                                      !.avail = SaturatingSub(c.max, rows)]]
        /\ bytes' = SaturatingSub(bytes, Bytes[t])
        /\ pending' = SaturatingSub(pending, 1)
        /\ due' = [due EXCEPT ![k] = @ + 1]
        /\ UNCHANGED <<live, gen, retired>>

\* FlowPermit::handoff and the frame on the stream; when the channel has been
\* torn down meanwhile the permit is dropped and the frame is sent all the same.
Handoff(t) ==
    /\ at[t] = "held" /\ SameOwner(t)
    /\ chan' = [chan EXCEPT ![KeyOf[t]].delivered = TRUE]
    /\ wire' = wire \cup {t}
    /\ Move(t, "awaiting")
    /\ UNCHANGED <<limits, live, gen, retired, counters, waiting, notices, acks, breaks, attempts, own, woken>>

HandoffTooLate(t) ==
    /\ at[t] = "held" /\ ~SameOwner(t)
    /\ ReleaseBatchPermit(t)
    /\ wire' = wire \cup {t}
    /\ Move(t, "done")
    /\ UNCHANGED <<limits, waiting, tearing, budgetDue, acks, breaks, attempts, own, woken>>

\* send_frame returns without the stream: shared memory or the durable object
\* took the frame, every path failed, or the task was aborted.
DropPermit(t) ==
    /\ at[t] = "held"
    /\ ReleaseBatchPermit(t)
    /\ \E end \in {"done", "failed"} : Move(t, end)
    /\ UNCHANGED <<limits, waiting, tearing, budgetDue, stream, attempts, own, woken>>

-----------------------------------------------------------------------------
(* The peer and its acknowledgements *)

\* shuffle_stream acknowledges a frame whether or not anybody wants it.
Receive(t) ==
    /\ t \in wire
    /\ wire' = wire \ {t} /\ acks' = acks \cup {t}
    /\ UNCHANGED <<limits, chanVars, counters, waiting, notices, breaks, attempts, at, own, woken>>

\* The stream breaks: what was on it is lost, in both directions.
Break ==
    /\ breaks < MaxBreaks /\ wire \cup acks # {}
    /\ breaks' = breaks + 1
    /\ wire' = {} /\ acks' = {}
    /\ UNCHANGED <<limits, chanVars, counters, waiting, notices, attempts, at, own, woken>>

ReservationsOfOthers(t) ==
    {u \in Sends : at[u] = "awaiting" /\ KeyOf[u] = KeyOf[t] /\ SameOwner(u) /\ FrameOf[u] # FrameOf[t]}

\* The delivered reservations an acknowledgement of t's frame can be for.
Reservations(t) ==
    {u \in Sends : /\ at[u] = "awaiting" /\ KeyOf[u] = KeyOf[t] /\ SameOwner(u)
                   /\ FrameOf[u] = FrameOf[t]}

\* handle_ack, first half: the reservation leaves the channel's list, ...
AckReservation(t) ==
    /\ t \in acks /\ KeyOf[t] \notin retired
    /\ \E u \in Reservations(t) : Move(u, "acking")
    /\ acks' = acks \ {t}
    /\ UNCHANGED <<limits, chanVars, counters, waiting, notices, wire, breaks, attempts, own, woken>>

\* ... and, the lock taken again, second half: it is released.
ReleaseAcked(u) ==
    /\ at[u] = "acking"
    /\ ReleaseBatchPermit(u)
    /\ Move(u, "done")
    /\ UNCHANGED <<limits, waiting, tearing, budgetDue, stream, attempts, own, woken>>

\* The row-only release of handle_ack and release_credit.
Credited(c, n) ==
    LET rows == SaturatingSub(c.rows, n)
    IN  [c EXCEPT !.rows = rows, !.avail = SaturatingSub(c.max, rows)]

\* An acknowledgement without a reservation frees rows only on an idle channel.
StrayCredits(c, n) == IF c.batches = 0 THEN Credited(c, n) ELSE c

AckUnmatched(t) ==
    /\ t \in acks /\ KeyOf[t] \notin retired /\ Reservations(t) = {}
    /\ Put(KeyOf[t], StrayCredits(Channel(KeyOf[t]), Rows[t]))
    /\ due' = [due EXCEPT ![KeyOf[t]] = @ + 1]
    /\ acks' = acks \ {t}
    /\ UNCHANGED <<limits, gen, retired, counters, waiting, tearing, budgetDue, wire, breaks, attempts, at, own, woken>>

AckRetired(t) ==
    /\ t \in acks /\ KeyOf[t] \in retired
    /\ acks' = acks \ {t}
    /\ UNCHANGED <<limits, chanVars, counters, waiting, notices, wire, breaks, attempts, at, own, woken>>

-----------------------------------------------------------------------------
(* Row credits: acquire_credit, release_credit, set_credits *)

\* try_acquire_rows when there is credit.
TakeRows(r) ==
    LET k == KeyOf[r]
        c == Channel(k)
    IN  /\ k \notin retired /\ c.avail >= Rows[r]
        /\ Put(k, [c EXCEPT !.avail = @ - Rows[r], !.rows = @ + Rows[r], !.delivered = TRUE])

\* ... and when there is none.
FindNoRows(r) ==
    LET k == KeyOf[r]
    IN  /\ k \notin retired /\ Channel(k).avail < Rows[r]
        /\ Put(k, Channel(k))

RegisteredAnyhow(r) == noteWaiters[KeyOf[r]] > 0
\* The entry r's slot was taken from is still the one under its key.
Registered(r) == noteWaiters[KeyOf[r]] > 0 /\ own[r] = noteId[KeyOf[r]]

\* ChannelWaiterSlot::drop: the last waiter takes the entry with it.
DropNotifier(r) ==
    LET k == KeyOf[r]
    IN  IF Registered(r)
        THEN /\ noteWaiters' = [noteWaiters EXCEPT ![k] = @ - 1]
             /\ noteId' = [noteId EXCEPT ![k] = IF noteWaiters[k] = 1 THEN @ + 1 ELSE @]
        ELSE UNCHANGED <<noteWaiters, noteId>>

LeaveQueue(r) == DropNotifier(r) /\ DropSlot(r)

\* acquire_credit compares with the budget once, before it takes the lock.
AdmitRows(r) ==
    /\ at[r] = "idle" /\ Rows[r] <= budget
    /\ Move(r, "admitted")
    /\ UNCHANGED <<limits, chanVars, counters, waiting, notices, stream, attempts, own, woken>>

AcquireRows(r) ==
    /\ at[r] \in {"admitted", "enabled"}
    /\ TakeRows(r)
    /\ Move(r, "granted")
    /\ IF at[r] = "admitted" THEN UNCHANGED waiting ELSE LeaveQueue(r)
    /\ UNCHANGED <<limits, gen, retired, counters, notices, stream, attempts, own, woken>>

RejectRows(r) ==
    /\ at[r] = "admitted"
    /\ FindNoRows(r)
    /\ Move(r, "rejected")
    /\ UNCHANGED <<limits, gen, retired, counters, waiting, notices, stream, attempts, own, woken>>

RefuseRows(r) ==
    /\ \/ at[r] = "idle" /\ Rows[r] > budget
       \/ at[r] \in {"admitted", "enabled"} /\ KeyOf[r] \in retired
    /\ Move(r, "failed")
    /\ IF at[r] = "enabled" THEN LeaveQueue(r) ELSE UNCHANGED waiting
    /\ UNCHANGED <<limits, chanVars, counters, notices, stream, attempts, own, woken>>

\* reserve_channel_waiter: a slot and the channel's notifier.
ReserveChannelWaiter(r) ==
    LET k == KeyOf[r]
    IN  /\ at[r] = "rejected"
        /\ TakeSlot(r)
        /\ noteWaiters' = [noteWaiters EXCEPT ![k] = @ + 1]
        /\ own' = [own EXCEPT ![r] = noteId[k]]
        /\ Move(r, "reserved")
        /\ UNCHANGED <<limits, chanVars, counters, noteId, notices, stream, attempts, woken>>

EnableRows(r) ==
    /\ at[r] = "reserved"
    /\ Enable(r)
    /\ UNCHANGED <<limits, chanVars, counters, waiting, notices, stream, attempts, own>>

ParkRows(r) ==
    /\ at[r] = "enabled"
    /\ FindNoRows(r)
    /\ Await(r)
    /\ UNCHANGED <<limits, gen, retired, counters, waiting, notices, stream, attempts, own>>

CancelRows(r) ==
    /\ at[r] = "waiting"
    /\ Move(r, "failed") /\ LeaveQueue(r)
    /\ UNCHANGED <<limits, chanVars, counters, notices, stream, attempts, own, woken>>

\* release_credit, or handle_ack for a frame sent on row credits.
ReturnRows(r) ==
    LET k == KeyOf[r]
    IN  /\ at[r] = "granted"
        /\ IF k \in retired THEN UNCHANGED <<live, chan, due>>
           ELSE /\ Put(k, Credited(Channel(k), Rows[r]))
                /\ due' = [due EXCEPT ![k] = @ + 1]
        /\ Move(r, "done")
        /\ UNCHANGED <<limits, gen, retired, counters, waiting, tearing, budgetDue, stream, attempts, own, woken>>

\* set_credits wakes nobody: it is for pathways that no call is waiting on.
SetCredits(k, n) ==
    /\ k \notin retired
    /\ \E r \in RowCalls : KeyOf[r] = k /\ at[r] = "idle"
    /\ \A r \in RowCalls : KeyOf[r] = k => at[r] \notin {"admitted", "rejected", "reserved", "enabled", "waiting"}
    /\ Channel(k).rows = 0 /\ Channel(k).batches = 0
    /\ Put(k, [Channel(k) EXCEPT !.avail = n, !.max = IF n = 0 THEN 1 ELSE n])
    /\ UNCHANGED <<limits, gen, retired, counters, waiting, notices, stream, attempts, at, own, woken>>

-----------------------------------------------------------------------------
(* Waking the waiters *)

\* Notify::notify_waiters of the global notifier: every enabled future fires.
Listening == {t \in Sends : at[t] \in {"enabled", "trying", "rejected", "waiting"}}

\* The row calls enabled on the notifiers registered under the keys K.
ListeningOn(K) ==
    {r \in RowCalls : at[r] \in {"enabled", "waiting"} /\ KeyOf[r] \in K /\ Registered(r)}

NotifyWaiters(k) ==
    /\ due[k] > 0
    /\ due' = [due EXCEPT ![k] = @ - 1]
    /\ woken' = woken \cup Listening \cup ListeningOn({k})
    /\ UNCHANGED <<limits, chanVars, counters, waiting, tearing, budgetDue, stream, attempts, at, own>>

SetRowBudget(n) ==
    /\ ~budgetDue /\ n # budget /\ changes < MaxBudgetChanges
    /\ budget' = n /\ changes' = changes + 1
    /\ chan' = [k \in Keys |->
                  IF k \in live
                  THEN [chan[k] EXCEPT !.max = n, !.avail = SaturatingSub(n, chan[k].rows)]
                  ELSE chan[k]]
    /\ budgetDue' = TRUE
    /\ stale' = {}
    /\ UNCHANGED <<maxPending, live, gen, retired, counters, waiting, due, tearing, stream, seen, at, own, woken>>

NotifyBudget ==
    /\ budgetDue
    /\ budgetDue' = FALSE
    /\ woken' = woken \cup Listening \cup ListeningOn(Keys)
    /\ UNCHANGED <<limits, chanVars, counters, waiting, due, tearing, stream, attempts, at, own>>

-----------------------------------------------------------------------------
(* teardown_exchange *)

KeysOf(x) == {k \in Keys : ExchangeOf[k] = x}

\* The delivered reservations a teardown takes back; permits that are still
\* held, and those an acknowledgement is about to release, are left alone.
Reclaimed(x) == {t \in Sends : at[t] = "awaiting" /\ ExchangeOf[KeyOf[t]] = x /\ SameOwner(t)}

RetireNothing(x) == {}
\* The keys that had a delivery are never used again.
NewlyRetired(x) == {k \in live \cap KeysOf(x) : chan[k].delivered}

Teardown(x) ==
    /\ x \notin tearing
    /\ live \cap KeysOf(x) # {}
    /\ \A k \in KeysOf(x) : gen[k] < MaxTeardowns
    /\ live' = live \ KeysOf(x)
    /\ chan' = [k \in Keys |-> IF k \in KeysOf(x) THEN NoChannel ELSE chan[k]]
    /\ gen' = [k \in Keys |-> IF k \in live \cap KeysOf(x) THEN gen[k] + 1 ELSE gen[k]]
    /\ retired' = retired \cup NewlyRetired(x)
    /\ bytes' = bytes - BytesOf(Reclaimed(x))
    /\ pending' = pending - Cardinality(Reclaimed(x))
    /\ at' = [c \in Calls |-> IF c \in Reclaimed(x) THEN "reclaimed" ELSE at[c]]
    /\ tearing' = tearing \cup {x}
    /\ stale' = stale \ KeysOf(x)
    /\ UNCHANGED <<limits, waiting, due, budgetDue, stream, seen, own, woken>>

\* The notifiers of the exchange go, their waiters and all others wake.
TeardownNotify(x) ==
    /\ x \in tearing
    /\ tearing' = tearing \ {x}
    /\ noteWaiters' = [k \in Keys |-> IF k \in KeysOf(x) THEN 0 ELSE noteWaiters[k]]
    /\ noteId' = [k \in Keys |-> IF k \in KeysOf(x) /\ noteWaiters[k] > 0
                                 THEN noteId[k] + 1 ELSE noteId[k]]
    /\ woken' = woken \cup Listening \cup ListeningOn(KeysOf(x))
    /\ UNCHANGED <<limits, chanVars, counters, queued, slots, due, budgetDue, stream, attempts, at, own>>

-----------------------------------------------------------------------------

SendStep(t) ==
    \/ Begin(t) \/ Refuse(t) \/ ReadBudget(t) \/ Acquire(t) \/ Exhausted(t) \/ Park(t) \/ NoSlot(t) \/ Wake(t)
    \/ Handoff(t) \/ HandoffTooLate(t) \/ DropPermit(t)

StreamStep(t) ==
    \/ Receive(t) \/ AckReservation(t) \/ AckUnmatched(t) \/ AckRetired(t) \/ ReleaseAcked(t)

RowStep(r) ==
    \/ AdmitRows(r) \/ AcquireRows(r) \/ RejectRows(r) \/ RefuseRows(r) \/ ReserveChannelWaiter(r) \/ NoSlot(r)
    \/ EnableRows(r) \/ ParkRows(r) \/ Wake(r) \/ ReturnRows(r)

Notify ==
    \/ \E k \in Keys : NotifyWaiters(k)
    \/ NotifyBudget
    \/ \E x \in Exchanges : TeardownNotify(x)

Next ==
    \/ \E t \in Sends : SendStep(t) \/ CancelWait(t) \/ StreamStep(t)
    \/ \E r \in RowCalls : RowStep(r) \/ CancelRows(r)
    \/ \E k \in Keys, n \in Budgets \cup {0} : SetCredits(k, n)
    \/ \E n \in Budgets : SetRowBudget(n)
    \/ \E x \in Exchanges : Teardown(x)
    \/ Notify
    \/ Break

\* Tokio runs every ready task, the peer drains its stream, and a thread that
\* has given the lock back goes on to wake the waiters.
Fairness ==
    /\ \A t \in Sends : WF_vars(SendStep(t)) /\ WF_vars(StreamStep(t))
    /\ WF_vars(Notify)

Spec == Init /\ [][Next]_vars /\ Fairness

-----------------------------------------------------------------------------
(* Properties *)

\* Every byte and request charged to the controller belongs to one permit,
\* delivered reservation or acknowledgement under way, and every row and batch
\* of a channel to one of its own generation: release_batch_permit, handle_ack
\* and teardown_exchange together neither leak a charge nor return it twice.
\* The charges stay within the node's limits.  A channel's budget is the
\* controller's, unless the sender that made it had read the budget before
\* set_row_budget replaced it (flow_control.rs:443 and 476).
ChargesExact ==
    /\ pending <= maxPending /\ bytes <= MaxBytes
    /\ pending = Cardinality(Charged)
    /\ bytes = BytesOf(Charged)
    /\ \A k \in live \cap {KeyOf[t] : t \in Sends} :
          /\ chan[k].batches = Cardinality(ChargedTo(k))
          /\ chan[k].rows = RowsOf(ChargedTo(k))
          /\ chan[k].avail = SaturatingSub(chan[k].max, chan[k].rows)
          /\ k \notin stale => chan[k].max = budget

\* A channel notifier stays under its key while calls are registered with it:
\* only a teardown of the exchange takes it away from them, and the late drop
\* of a call that a teardown has orphaned leaves the next notifier alone.
NotifierKept ==
    [][\A r \in RowCalls :
         /\ r \in slots /\ own[r] = noteId[KeyOf[r]]
         /\ r \in slots' /\ own'[r] # noteId'[KeyOf[r]]
         => ExchangeOf[KeyOf[r]] \in tearing \ tearing']_vars

\* A call of notify_waiters of the global notifier is still to come.
NoticeComing == (\E j \in Keys : due[j] > 0) \/ tearing # {} \/ budgetDue

\* No lost wake-up: a sender that awaits its future although it would now be
\* served or refused has been woken, or a wake-up is on its way; so has a row
\* call whose notifier is still registered.
NoLostWakeup ==
    /\ \A t \in Sends :
          /\ at[t] \in {"rejected", "waiting"} /\ t \notin woken
          /\ \/ ~Saturated(t) /\ ~ChannelFull(t)
             \/ KeyOf[t] \in retired \/ Inadmissible(t)
          => NoticeComing
    /\ \A r \in RowCalls :
          /\ at[r] = "waiting" /\ r \notin woken /\ own[r] = noteId[KeyOf[r]]
          /\ Channel(KeyOf[r]).avail >= Rows[r] \/ KeyOf[r] \in retired
          => due[KeyOf[r]] > 0 \/ ExchangeOf[KeyOf[r]] \in tearing \/ budgetDue

\* A late acknowledgement is inert: once a teardown has taken a reservation
\* back, the acknowledgement of its frame releases nothing, not even a
\* retransmission of the same frame on a channel made since.
LateAcksAreInert ==
    [][\A t \in Sends :
         t \in acks /\ t \notin acks' /\ at[t] = "reclaimed"
         => /\ UNCHANGED <<bytes, pending, live, chan>>
            /\ \A u \in Sends : at[u] = "awaiting" => at'[u] = "awaiting"]_vars

\* The channel was made with a budget that is too small for t, and t, which was
\* admitted under a later one, waits for credit it cannot ever have.
Starved(t) == KeyOf[t] \in stale /\ Rows[t] > chan[KeyOf[t]].max

\* A sender that waits for credit is served, refused or cancelled in the end,
\* with two exceptions: the stream broke, and the reservations of the frames and
\* acknowledgements lost with it stay charged, so that send_frame may wait for
\* them for ever; or its channel has a stale budget.
WaitingEnds ==
    \A t \in Sends :
       (at[t] \in {"enabled", "trying", "rejected", "waiting"})
       ~> \/ at[t] \notin {"enabled", "trying", "rejected", "waiting"}
          \/ breaks > 0 \/ Starved(t)
=============================================================================
