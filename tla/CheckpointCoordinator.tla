------------------------- MODULE CheckpointCoordinator -------------------------
(***************************************************************************)
(* The cluster checkpoint coordinator (rockstream-control/src/             *)
(* checkpoint.rs) with its AlignmentCreditTracker (rockstream-types/src/   *)
(* checkpoint.rs).                                                         *)
(*                                                                         *)
(* Trigger threads call begin_checkpoint, reporter threads deliver what    *)
(* the shards confirm, once or several times.  Every call holds the        *)
(* coordinator's mutex, but a call that finds a timed-out round releases   *)
(* it while it gives the credits back, a changelog report releases it      *)
(* between staging and confirming, and the last confirmation of a round    *)
(* releases it around the manifest callback.                               *)
(***************************************************************************)
EXTENDS Integers, FiniteSets

CONSTANTS
    Shards,     \* the registered shards
    Triggers,   \* the threads that begin checkpoints
    Reporters,  \* the threads that deliver confirmations
    MaxCredits, \* checkpoint_alignment_max_credits
    Retention,  \* retention_horizon
    MaxId       \* bound: checkpoint ids, in the place of u64::MAX

ASSUME CheckpointShardsAssumption == IsFiniteSet(Shards) /\ Shards # {}

ASSUME CheckpointThreadsAssumption == Triggers \cap Reporters = {}

ASSUME CheckpointBoundAssumption ==
    MaxCredits \in Nat /\ Retention \in Nat /\ MaxId \in Nat \ {0}

Ids == 1..MaxId
NoId == 0

VARIABLES
    changelog,  \* whether the shards send changelog contributions
    nextId,     \* next_checkpoint_id
    round,      \* in_progress
    expired,    \* whether the alignment timeout of the round has passed
    credits,    \* credits_used
    committed,  \* the ids of the committed checkpoints that are kept
    thread      \* thread[t]: the call t is in, between two of its lock regions

checkpointVars == <<changelog, nextId, round, expired, credits, committed, thread>>

Threads == Triggers \cup Reporters

NoRound ==
    [id |-> NoId, arrived |-> {}, confirmed |-> {},
     staged |-> [s \in Shards |-> NoId], held |-> 0]

NoCall == [at |-> "idle"]

Rounds ==
    [id : Ids \cup {NoId}, arrived : SUBSET Shards,
     confirmed : SUBSET Shards, staged : [Shards -> Ids \cup {NoId}],
     held : 0..Cardinality(Shards)]

\* A call is giving credits back, between staging and confirming, or about to
\* write a manifest.
Calls ==
    {NoCall} \cup [at : {"drain"}, left : 0..Cardinality(Shards)]
           \cup [at : {"staged"}, shard : Shards, id : Ids]
           \cup [at : {"commit"}, id : Ids, staged : [Shards -> Ids \cup {NoId}]]

CheckpointTypeOK ==
    /\ changelog \in BOOLEAN
    /\ nextId \in Ids
    /\ round \in Rounds
    /\ expired \in BOOLEAN
    /\ credits \in 0..MaxCredits
    /\ committed \subseteq Ids
    /\ thread \in [Threads -> Calls]

CheckpointInit ==
    /\ changelog \in BOOLEAN
    /\ nextId = 1
    /\ round = NoRound
    /\ expired = FALSE
    /\ credits = 0
    /\ committed = {}
    /\ thread = [t \in Threads |-> NoCall]

-----------------------------------------------------------------------------
(* Helpers *)

Pending == IF round.id = NoId THEN {} ELSE Shards \ round.confirmed

ReleasedPastZero(n) == credits - n
\* AlignmentCreditTracker::release, n times: it saturates.
Released(n) == IF credits < n THEN 0 ELSE credits - n

At(t, place) == thread[t].at = place
Become(t, place) == thread' = [thread EXCEPT ![t] = place]

TimedOutNever == FALSE
\* round.started_at.elapsed() > alignment_timeout
TimedOut == round.id # NoId /\ expired

RetainWindow(ids, latest) == {i \in ids : i \in (latest - Retention)..latest}
\* The ids that survive a collection after `latest`.
Retain(ids, latest) == {i \in ids : i >= latest - Retention}

-----------------------------------------------------------------------------
(* begin_checkpoint *)

\* One credit per shard, the next id, the barriers, and the round.
Begin(t) ==
    /\ At(t, "idle")
    /\ round.id = NoId
    /\ nextId < MaxId
    /\ credits + Cardinality(Shards) <= MaxCredits
    /\ credits' = credits + Cardinality(Shards)
    /\ nextId' = nextId + 1
    /\ round' = [NoRound EXCEPT !.id = nextId, !.held = Cardinality(Shards)]
    /\ expired' = FALSE
    /\ UNCHANGED <<changelog, committed, thread>>

DrainNothing == 0
\* The credits a timed-out round still counts as its own.
CreditsHeld == round.held

\* A round whose timeout has passed is found: the lock is dropped ...
FindTimedOut(t) ==
    /\ At(t, "idle")
    /\ TimedOut
    /\ Become(t, [at |-> "drain", left |-> CreditsHeld])
    /\ UNCHANGED <<changelog, nextId, round, expired, credits, committed>>

\* ... for the credits, which are released one by one, ...
ReleaseCredit(t) ==
    /\ At(t, "drain") /\ thread[t].left > 0
    /\ credits' = Released(1)
    /\ thread' = [thread EXCEPT ![t].left = @ - 1]
    /\ UNCHANGED <<changelog, nextId, round, expired, committed>>

\* ... and taken again to clear whatever round there is by now.
ClearRound(t) ==
    /\ At(t, "drain") /\ thread[t].left = 0
    /\ round' = NoRound /\ expired' = FALSE
    /\ Become(t, NoCall)
    /\ UNCHANGED <<changelog, nextId, credits, committed>>

\* Time passes.
Expire ==
    /\ round.id # NoId /\ ~expired
    /\ expired' = TRUE
    /\ UNCHANGED <<changelog, nextId, round, credits, committed, thread>>

-----------------------------------------------------------------------------
(* Reports of the shards.  A worker may report any id it was sent, late and *)
(* more than once, with a contribution of another checkpoint than the       *)
(* snapshot it reports.                                                     *)

Sent == 1..(nextId - 1)

BarrierReceived(t, s, i) ==
    /\ At(t, "idle") /\ i \in Sent
    /\ i = round.id
    /\ round' = [round EXCEPT !.arrived = @ \cup {s}]
    /\ UNCHANGED <<changelog, nextId, expired, credits, committed, thread>>

AnyContribution(i) == TRUE
RightContribution(i) == i = round.id

\* record_shard_changelog_checkpoint, up to the lock it releases.
StageContribution(t, s, i, j) ==
    /\ changelog
    /\ At(t, "idle") /\ i \in Sent /\ j \in Sent
    /\ s \in Pending
    /\ i = round.id
    /\ RightContribution(j)
    /\ round' = [round EXCEPT !.staged[s] = j]
    /\ Become(t, [at |-> "staged", shard |-> s, id |-> i])
    /\ UNCHANGED <<changelog, nextId, expired, credits, committed>>

\* credits_held.saturating_sub(manifest.shards.len())
Surplus ==
    IF round.held > Cardinality(Shards) THEN round.held - Cardinality(Shards) ELSE 0

\* record_shard_checkpoint_with_contributions: the confirmation, and with the
\* last one the end of the round.
Confirm(t, s, i) ==
    LET confirmed == round.confirmed \cup {s}
    IN  /\ i = round.id
        /\ IF confirmed = Shards
           THEN /\ round' = NoRound /\ expired' = FALSE
                /\ credits' = Released(1 + Surplus)
                /\ Become(t, [at |-> "commit", id |-> i, staged |-> round.staged])
           ELSE /\ round' = [round EXCEPT !.confirmed = confirmed]
                /\ credits' = Released(1)
                /\ Become(t, NoCall)
                /\ UNCHANGED expired
        /\ UNCHANGED <<changelog, nextId, committed>>

\* The rest of record_shard_changelog_checkpoint.  The round may be gone, or
\* be another one.
ConfirmStaged(t) ==
    /\ At(t, "staged")
    /\ \/ Confirm(t, thread[t].shard, thread[t].id)
       \/ /\ thread[t].id # round.id
          /\ Become(t, NoCall)
          /\ UNCHANGED <<changelog, nextId, round, expired, credits, committed>>

\* record_shard_checkpoint
RecordShardCheckpoint(t, s, i) ==
    /\ ~changelog
    /\ At(t, "idle") /\ i \in Sent
    /\ Confirm(t, s, i)

\* commit_manifest, outside the lock, then the new entry and the collection.
CommitManifest(t) ==
    /\ At(t, "commit")
    /\ committed' = Retain(committed \cup {thread[t].id}, thread[t].id)
    /\ Become(t, NoCall)
    /\ UNCHANGED <<changelog, nextId, round, expired, credits>>

\* A manifest that could not be written is given up; so is its round.
CommitFails(t) ==
    /\ At(t, "commit")
    /\ Become(t, NoCall)
    /\ UNCHANGED <<changelog, nextId, round, expired, credits, committed>>

GcOldCheckpoints ==
    /\ \E latest \in committed :
          /\ \A i \in committed : i <= latest
          /\ committed' = Retain(committed, latest)
    /\ UNCHANGED <<changelog, nextId, round, expired, credits, thread>>

CheckpointNext ==
    \/ \E t \in Triggers :
          Begin(t) \/ FindTimedOut(t) \/ ReleaseCredit(t) \/ ClearRound(t)
    \/ \E t \in Reporters :
          \/ \E s \in Shards, i \in Ids :
                \/ BarrierReceived(t, s, i)
                \/ RecordShardCheckpoint(t, s, i)
                \/ \E j \in Ids : StageContribution(t, s, i, j)
          \/ ConfirmStaged(t) \/ CommitManifest(t) \/ CommitFails(t)
    \/ Expire
    \/ GcOldCheckpoints

CheckpointSpec == CheckpointInit /\ [][CheckpointNext]_checkpointVars

\* Time passes, and a trigger thread calls again and again and finishes its
\* calls.  The shards need not answer.
Fairness ==
    /\ WF_checkpointVars(Expire)
    /\ \A t \in Triggers :
          WF_checkpointVars(FindTimedOut(t) \/ ReleaseCredit(t) \/ ClearRound(t))

CheckpointFairSpec == CheckpointSpec /\ Fairness

-----------------------------------------------------------------------------
(* Properties *)

\* Every manifest on its way to the store has, in changelog mode, a
\* contribution of its own checkpoint from every shard (M1-S1), whatever
\* rounds were begun, timed out and cleared between staging and confirming.
ManifestIsBacked ==
    \A t \in Threads :
        At(t, "commit") /\ changelog =>
            \A s \in Shards : thread[t].staged[s] = thread[t].id

\* No credit outlives its round: unless one is being cleared, there are at most
\* as many credits in use as shards that have not confirmed, so that a
\* coordinator without a round always has room for the next one.
NoCreditLeak ==
    (\A t \in Triggers : ~At(t, "drain")) => credits <= Cardinality(Pending)

\* The latest committed checkpoint is never lost or replaced by an older one,
\* although manifests may be committed out of order and old ones are collected.
LatestNeverRetreats ==
    [][\A i \in committed : \E j \in committed' : j >= i]_checkpointVars

\* A round ends, with or without its shards.
RoundsEnd == \A i \in Ids : round.id = i ~> round.id # i
================================================================================
