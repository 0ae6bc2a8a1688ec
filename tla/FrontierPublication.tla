------------------------- MODULE FrontierPublication -------------------------
(***************************************************************************)
(* The cluster frontier: FrontierAggregator and FrontierLeaseStore         *)
(* (rockstream-control/src/frontier.rs) with the pure rules it takes from  *)
(* rockstream-verified/src/frontier.rs.                                    *)
(*                                                                         *)
(* An aggregator keeps the epochs its shards reported and publishes their  *)
(* minimum, in memory and, when it holds the publisher lease, in the       *)
(* store.  A membership-aware aggregator works within a generation of the  *)
(* active membership; one built without a membership takes scalar reports  *)
(* of whatever shard reports.  Calls of the aggregator hold its mutex but  *)
(* release it around every call of the store; the store serves one call at *)
(* a time.                                                                 *)
(*                                                                         *)
(* The epochs shards have really committed are part of the model, so that  *)
(* completeness can be stated about them and not about the reports.        *)
(***************************************************************************)
EXTENDS Integers, FiniteSets

CONSTANTS
    Aggregators,
    Scalar,        \* the aggregators built without a membership
    Shards,
    MaxRegistered, \* MAX_REGISTERED_SHARDS
    MaxIncarnation,\* bound: incarnations of a shard
    MaxEpoch,      \* bound: epochs a shard commits
    MaxGeneration, \* bound: generations of the membership
    MaxToken,      \* bound: publisher leases granted
    MaxErrors,     \* bound: storage errors
    MaxReopens     \* bound: takeovers and restarts

ASSUME AggregatorsAssumption ==
    Scalar \subseteq Aggregators /\ IsFiniteSet(Shards)

ASSUME FrontierBoundAssumption ==
    /\ MaxRegistered \in Nat /\ MaxIncarnation \in Nat /\ MaxEpoch \in Nat
    /\ MaxGeneration \in Nat /\ MaxToken \in Nat
    /\ MaxErrors \in Nat /\ MaxReopens \in Nat

\* Option::None, below every epoch: `published.map(|p| e > p).unwrap_or(true)`
\* is e > published.  As a key it stands for the unscoped frontier.
None == -1

Epochs == 0..MaxEpoch
Incarnations == 1..MaxIncarnation
Generations == 0..MaxGeneration
Keys == {None} \cup Generations

VARIABLES
    committed,  \* committed[s][i]: the epoch incarnation i of s has committed
    configs,    \* configs[g][s]: the incarnation active in g, 0 for none
    latest,     \* the latest generation somebody has reached
    generation, \* generation[a]: membership.generation, None without one
    epochs,     \* epochs[a][s]: membership_epochs or shard_epochs
    published,  \* published[a]: Inner.published
    publisher,  \* publisher[a]: LeaseWiring.is_publisher
    token,      \* token[a]: LeaseWiring.lease_token
    call,       \* call[a]: the acquire_lease or try_publish under way
    fence,      \* LeaseState.fence_token, always durable
    cache,      \* cache[k]: published and published_by_generation
    durable,    \* durable[k]: the frontier stored under the key
    errors, reopens

aggregator == <<generation, epochs, published, publisher, token>>
vars == <<committed, configs, latest, aggregator, call, fence, cache, durable,
          errors, reopens>>

NoCall == [step |-> "none", key |-> None, seen |-> 0, meet |-> None]

TypeOK ==
    /\ committed \in [Shards -> [Incarnations -> Epochs]]
    /\ configs \in [Generations -> [Shards -> 0..MaxIncarnation]]
    /\ latest \in Generations
    /\ generation \in [Aggregators -> Keys]
    /\ epochs \in [Aggregators -> [Shards -> Epochs \cup {None}]]
    /\ published \in [Aggregators -> Epochs \cup {None}]
    /\ publisher \in [Aggregators -> BOOLEAN]
    /\ token \in [Aggregators -> 0..MaxToken]
    /\ call \in [Aggregators ->
          [step : {"none", "cas", "handoff", "peek", "write"}, key : Keys,
           seen : 0..MaxToken, meet : Epochs \cup {None}]]
    /\ fence \in 0..MaxToken
    /\ cache \in [Keys -> Epochs \cup {None}]
    /\ durable \in [Keys -> Epochs \cup {None}]
    /\ errors \in 0..MaxErrors /\ reopens \in 0..MaxReopens

-----------------------------------------------------------------------------
(* The membership and its meet *)

Active(a) == {s \in Shards : configs[generation[a]][s] # 0}

\* The shards whose epochs the aggregator's meet is about.
Counted(a) ==
    IF a \in Scalar THEN {s \in Shards : epochs[a][s] # None} ELSE Active(a)

\* compute_meet and compute_membership_meet: None for no shards, and None as
\* soon as one active shard has not reported.
IsMeet(meet, reported, shards) ==
    \/ shards = {} /\ meet = None
    \/ /\ \E s \in shards : reported[s] = meet
       /\ \A s \in shards : meet <= reported[s]

Later(x, y) == IF x > y THEN x ELSE y

AccumulatePublication(old, meet) == old + meet
AdvancePublication(old, meet) == Later(old, meet)

\* recompute_membership_publication: an empty membership publishes nothing,
\* a missing report leaves the publication alone, otherwise it advances.
Republish(a, reported, shards) ==
    \E meet \in Epochs \cup {None} :
        /\ IsMeet(meet, reported, shards)
        /\ published' = [published EXCEPT ![a] =
              IF shards = {} THEN None ELSE AdvancePublication(@, meet)]

Init ==
    /\ committed = [s \in Shards |-> [i \in Incarnations |-> 0]]
    /\ configs = [g \in Generations |-> [s \in Shards |-> 0]]
    /\ latest = 0
    /\ generation = [a \in Aggregators |-> IF a \in Scalar THEN None ELSE 0]
    /\ epochs = [a \in Aggregators |-> [s \in Shards |-> None]]
    /\ published = [a \in Aggregators |-> None]
    /\ publisher = [a \in Aggregators |-> FALSE]
    /\ token = [a \in Aggregators |-> 0]
    /\ call = [a \in Aggregators |-> NoCall]
    /\ fence = 0
    /\ cache = [k \in Keys |-> None]
    /\ durable = [k \in Keys |-> None]
    /\ errors = 0 /\ reopens = 0

\* A worker commits the next epoch of an incarnation of its shard.
Commit(s, i) ==
    /\ committed[s][i] < MaxEpoch
    /\ committed' = [committed EXCEPT ![s][i] = @ + 1]
    /\ UNCHANGED <<configs, latest, aggregator, call, fence, cache, durable, errors, reopens>>

-----------------------------------------------------------------------------
(* Changes of the membership.  The generations are one history: the first   *)
(* aggregator to leave the latest generation decides what the next one is,  *)
(* the others make the same change when they get there.                     *)

ChangeMembership(a, active, reported) ==
    LET next == generation[a] + 1
    IN  /\ next <= MaxGeneration
        /\ IF next > latest
           THEN configs' = [configs EXCEPT ![next] = active] /\ latest' = next
           ELSE configs[next] = active /\ UNCHANGED <<configs, latest>>
        /\ generation' = [generation EXCEPT ![a] = next]
        /\ epochs' = [epochs EXCEPT ![a] = reported]
        /\ Republish(a, reported, {s \in Shards : active[s] # 0})
        /\ UNCHANGED <<committed, publisher, token, call, fence, cache, durable, errors, reopens>>

\* activation_preserves_publication
CaughtUp(a, bootstrap) == bootstrap >= published[a]

\* activate_shard: the new member brings an epoch it has committed.
ActivateShard(a, s, i, bootstrap) ==
    /\ a \notin Scalar
    /\ s \notin Active(a)
    /\ bootstrap <= committed[s][i]
    /\ CaughtUp(a, bootstrap)
    /\ ChangeMembership(a, [configs[generation[a]] EXCEPT ![s] = i],
                           [epochs[a] EXCEPT ![s] = bootstrap])

RetireShard(a, s) ==
    /\ a \notin Scalar
    /\ s \in Active(a)
    /\ ChangeMembership(a, [configs[generation[a]] EXCEPT ![s] = 0],
                           [epochs[a] EXCEPT ![s] = None])

ReplaceShard(a, old, new, i, bootstrap) ==
    /\ a \notin Scalar
    /\ old \in Active(a) /\ (new = old \/ new \notin Active(a))
    /\ bootstrap <= committed[new][i]
    /\ CaughtUp(a, bootstrap)
    /\ ChangeMembership(a,
          [configs[generation[a]] EXCEPT ![old] = 0, ![new] = i],
          [epochs[a] EXCEPT ![old] = None, ![new] = bootstrap])

-----------------------------------------------------------------------------
(* Reports.  Any epoch an incarnation has committed may have been reported, *)
(* under any generation so far, and may arrive now: reports are delayed,    *)
(* repeated and reordered.                                                  *)

AdmitAnyIncarnation(a, s, i, g) == s \in Active(a) /\ g = generation[a]
\* admit_frontier_report, for a report of the right version and scope.
Admitted(a, s, i, g) ==
    s \in Active(a) /\ g = generation[a] /\ configs[generation[a]][s] = i

IngestMembershipReport(a, s, i, g, e) ==
    /\ a \notin Scalar
    /\ e <= committed[s][i] /\ g <= latest
    /\ Admitted(a, s, i, g)
    /\ LET reported == [epochs[a] EXCEPT ![s] = Later(e, @)]
       IN  /\ epochs' = [epochs EXCEPT ![a] = reported]
           /\ Republish(a, reported, Active(a))
    /\ UNCHANGED <<committed, configs, latest, generation, publisher, token,
                   call, fence, cache, durable, errors, reopens>>

\* ingest: the first report registers the shard.
Ingest(a, s, e) ==
    /\ a \in Scalar
    /\ \E i \in Incarnations : e <= committed[s][i]
    /\ epochs[a][s] # None \/ Cardinality(Counted(a)) < MaxRegistered
    /\ LET reported == [epochs[a] EXCEPT ![s] = Later(e, @)]
       IN  /\ epochs' = [epochs EXCEPT ![a] = reported]
           /\ Republish(a, reported, Counted(a) \cup {s})
    /\ UNCHANGED <<committed, configs, latest, generation, publisher, token,
                   call, fence, cache, durable, errors, reopens>>

-----------------------------------------------------------------------------
(* acquire_lease *)

EndCall(a) == call' = [call EXCEPT ![a] = NoCall]

\* The membership is noted and the fence token read ...
BeginAcquire(a) ==
    /\ call[a].step = "none"
    /\ call' = [call EXCEPT ![a] =
          [NoCall EXCEPT !.step = "cas", !.key = generation[a], !.seen = fence]]
    /\ UNCHANGED <<committed, configs, latest, aggregator, fence, cache, durable, errors, reopens>>

RenewFence == fence
NextFence == fence + 1

\* ... before it is compared and replaced, under another lock.
AcquirePublisherLease(a) ==
    /\ call[a].step = "cas"
    /\ IF call[a].seen = fence
       THEN /\ fence < MaxToken
            /\ fence' = NextFence
            /\ call' = [call EXCEPT ![a] =
                  [@ EXCEPT !.step = "handoff", !.seen = NextFence]]
            /\ UNCHANGED publisher
       ELSE /\ publisher' = [publisher EXCEPT ![a] = FALSE]
            /\ EndCall(a)
            /\ UNCHANGED fence
    /\ UNCHANGED <<committed, configs, latest, generation, epochs, published,
                   token, cache, durable, errors, reopens>>

\* The frontier read or written under k is still about a's membership.
SameMembership(a, k) == generation[a] = k

\* The new publisher reads the frontier of the generation it noted and folds
\* it into its own, unless the membership has moved on.
Handoff(a) ==
    LET k == call[a].key
        frontier == IF k = None \/ cache[k] # None THEN cache[k] ELSE durable[k]
    IN  /\ call[a].step = "handoff"
        /\ cache' = [cache EXCEPT ![k] = frontier]
        /\ published' = [published EXCEPT ![a] =
              IF SameMembership(a, k) THEN Later(frontier, @) ELSE @]
        /\ publisher' = [publisher EXCEPT ![a] = TRUE]
        /\ token' = [token EXCEPT ![a] = call[a].seen]
        /\ EndCall(a)
        /\ UNCHANGED <<committed, configs, latest, generation, epochs, fence,
                       durable, errors, reopens>>

-----------------------------------------------------------------------------
(* try_publish *)

\* The meet and the membership are noted, ...
BeginPublish(a) ==
    /\ call[a].step = "none"
    /\ publisher[a]
    /\ \E meet \in Epochs :
          /\ IsMeet(meet, epochs[a], Counted(a))
          /\ call' = [call EXCEPT ![a] =
                [step |-> "peek", key |-> generation[a], seen |-> token[a],
                 meet |-> meet]]
    /\ UNCHANGED <<committed, configs, latest, aggregator, fence, cache, durable, errors, reopens>>

\* ... a lost lease is noticed, ...
PeekFence(a) ==
    /\ call[a].step = "peek"
    /\ IF call[a].seen = fence
       THEN call' = [call EXCEPT ![a].step = "write"] /\ UNCHANGED publisher
       ELSE EndCall(a) /\ publisher' = [publisher EXCEPT ![a] = FALSE]
    /\ UNCHANGED <<committed, configs, latest, generation, epochs, published,
                   token, fence, cache, durable, errors, reopens>>

\* ... and the frontier written.  A lease lost since the peek trips
\* assert_valid_publisher: the call is gone, the flag stays.  A frontier below
\* the cached one is dropped without a word.
PublishFrontier(a) ==
    LET k == call[a].key
        meet == call[a].meet
    IN  /\ call[a].step = "write"
        /\ EndCall(a)
        /\ IF call[a].seen # fence
           THEN UNCHANGED <<cache, durable, published>>
           ELSE /\ IF meet < cache[k]
                   THEN UNCHANGED <<cache, durable>>
                   ELSE /\ cache' = [cache EXCEPT ![k] = meet]
                        /\ durable' = [durable EXCEPT ![k] = meet]
                /\ published' = [published EXCEPT ![a] =
                      IF SameMembership(a, k) THEN Later(meet, @) ELSE @]
        /\ UNCHANGED <<committed, configs, latest, generation, epochs,
                       publisher, token, fence, errors, reopens>>

-----------------------------------------------------------------------------
(* Faults *)

\* A storage error ends the call; a lease already granted stays granted, and
\* a frontier whose write failed may have been stored all the same.  (A token
\* stored by a failed grant is as one granted and never used.)
StorageError(a) ==
    LET k == call[a].key
    IN  /\ errors < MaxErrors /\ errors' = errors + 1
        /\ \/ call[a].step = "cas" /\ call[a].seen = fence /\ UNCHANGED durable
           \/ /\ call[a].step = "handoff" /\ k # None /\ cache[k] = None
              /\ UNCHANGED durable
           \/ /\ call[a].step = "write" /\ call[a].seen = fence
              /\ call[a].meet >= cache[k]
              /\ durable' \in {durable, [durable EXCEPT ![k] = call[a].meet]}
        /\ EndCall(a)
        /\ UNCHANGED <<committed, configs, latest, aggregator, fence, cache, reopens>>

ForgottenAtOpen == [k \in Keys |-> None]
\* FrontierLeaseStore::open reads the unscoped frontier, not the scoped ones.
CacheAtOpen == [k \in Keys |-> IF k = None THEN durable[None] ELSE None]

\* Another process takes the store over, or the same one restarts: it opens
\* the store anew and its aggregators start from their memberships.
Reopen ==
    /\ reopens < MaxReopens /\ reopens' = reopens + 1
    /\ cache' = CacheAtOpen
    /\ epochs' = [a \in Aggregators |-> [s \in Shards |-> None]]
    /\ published' = [a \in Aggregators |-> None]
    /\ publisher' = [a \in Aggregators |-> FALSE]
    /\ token' = [a \in Aggregators |-> 0]
    /\ call' = [a \in Aggregators |-> NoCall]
    /\ UNCHANGED <<committed, configs, latest, generation, fence, durable, errors>>

Next ==
    \/ \E s \in Shards, i \in Incarnations : Commit(s, i)
    \/ Reopen
    \/ \E a \in Aggregators :
          \/ \E s \in Shards : RetireShard(a, s)
          \/ \E s \in Shards, i \in Incarnations, e \in Epochs :
                \/ ActivateShard(a, s, i, e)
                \/ \E old \in Shards : ReplaceShard(a, old, s, i, e)
                \/ \E g \in Generations : IngestMembershipReport(a, s, i, g, e)
          \/ \E s \in Shards, e \in Epochs : Ingest(a, s, e)
          \/ BeginAcquire(a) \/ AcquirePublisherLease(a) \/ Handoff(a)
          \/ BeginPublish(a) \/ PeekFence(a) \/ PublishFrontier(a)
          \/ StorageError(a)

Spec == Init /\ [][Next]_vars

-----------------------------------------------------------------------------
(* Properties *)

\* Every shard active in generation g has committed epoch e.
Complete(g, e) ==
    \A s \in Shards :
        configs[g][s] # 0 => committed[s][configs[g][s]] >= e

\* A published frontier never claims more than every active member has really
\* committed, in memory and in the store, whatever reports and memberships
\* race with: "publication advances only from the meet of the currently
\* configured active membership".
FrontierIsComplete ==
    /\ \A a \in Aggregators \ Scalar : Complete(generation[a], published[a])
    /\ \A g \in 0..latest : Complete(g, durable[g])

\* At most one aggregator holds the current fence token (M2-S3).
SinglePublisher ==
    \A a, b \in Aggregators :
        /\ publisher[a] /\ token[a] = fence
        /\ publisher[b] /\ token[b] = fence
        => a = b

\* The unscoped frontier the store answers with never retreats, whoever
\* publishes, whatever writes fail, restarts included (M2-S4).
ScalarFrontierNeverRetreats == [][cache'[None] >= cache[None]]_vars
=============================================================================
