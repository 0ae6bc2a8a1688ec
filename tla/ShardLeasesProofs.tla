-------------------------- MODULE ShardLeasesProofs --------------------------
(***************************************************************************)
(* The properties of the shard leases for every set of controls, workers,  *)
(* shards and sessions and every bound, in the deployments they hold in:   *)
(*                                                                         *)
(*   - a standalone control whose process does not fail (Steady);          *)
(*   - a standalone control that may, where one session at a time persists *)
(*     each grant before it sends it and the store can be read             *)
(*     (PersistsFirst);                                                    *)
(*   - controls that hand leadership over in order, where workers only     *)
(*     request and fence (HandsOver).                                      *)
(*                                                                         *)
(* What a control in charge of the leases has in memory is a ledger of all *)
(* that was ever sent: the next token it mints is above every one of them, *)
(* and what it holds for a shard is the newest.  Where memory may be lost, *)
(* the store is such a ledger too, and what a session carries from the one *)
(* to the other is not out of date when it arrives.                        *)
(***************************************************************************)
EXTENDS ShardLeases, FiniteSetTheorems, TLAPS

Steady(d) == ~d.raft /\ "crash" \notin d.faults

OneSession(d) == \A j, k \in d.sessions : j = k

\* Neither a deployment nor a retried drain persists what it announces.
PersistsFirst(d) ==
    /\ ~d.raft /\ OneSession(d) /\ "load" \notin d.faults
    /\ "deploy" \notin d.operations /\ "drain" \notin d.operations

RequestsOnly(d) == d.operations \subseteq {"request", "fence"}

HandsOver(d) == d.raft /\ d.orderly /\ RequestsOnly(d)

\* Leadership is handed over in order and nothing but the store is relied on.
HandsOverOne(d) == HandsOver(d) /\ OneSession(d) /\ "load" \notin d.faults

\* The deployments in which memory may be lost and the store makes up for it.
Stored(d) == PersistsFirst(d) \/ HandsOverOne(d)

-----------------------------------------------------------------------------
(* Ledgers *)

Held(m) == {m.leases[s] : s \in Shards} \ {Nil}

\* t comes strictly before the token m would mint next.
Before(t, m) ==
    \/ t.epoch < m.leaderEpoch
    \/ t.epoch = m.leaderEpoch /\ t.count < m.nextToken

\* The leases L have tokens of their own, which m will not mint again.
Fresh(m, L) ==
    /\ \A l \in L : Before(l.token, m)
    /\ \A l, o \in L : l.token = o.token => l = o

\* What m holds is the newest of L.
Newest(m, L) ==
    \A l \in L :
        m.leases[l.shard] # Nil => AtMost(l.token, m.leases[l.shard].token)

\* Where nobody gives a lease back, no shard of L is without one.
Remembers(d, m, L) == RequestsOnly(d) => \A l \in L : m.leases[l.shard] # Nil

Ledger(d, m, L) ==
    Fresh(m, L \cup Held(m)) /\ Newest(m, L) /\ Remembers(d, m, L)

-----------------------------------------------------------------------------
(* The inductive invariant *)

Filed(m) == \A s \in Shards : m.leases[s] # Nil => m.leases[s].shard = s

\* Where a session is, is where the deployment lets it be.
Placed(d, k, here) ==
    /\ here.step = "free" \/ k \notin d.sessions => here = NoSession
    /\ here.step # "free" => here.at \in d.nodes /\ here.worker \in Workers
    /\ here.step \in {"acquire", "drain"} => here.shard \in Shards
    /\ here.step \in {"checked", "sync", "restore", "stamp"} => d.raft
    /\ here.step = "release" => "deregister" \in d.operations
    /\ here.step \in {"dead", "reassign"} => "disconnect" \in d.operations
    /\ here.step = "deploy" => "deploy" \in d.operations
    /\ here.step \in {"drain", "announce"} => "drain" \in d.operations
    /\ here.grants # {} =>
          here.step \in {"reassign", "deploy", "announce", "snapshot", "put"}

\* Leases lie under their own shard, everywhere.
AllFiled ==
    /\ Filed(store)
    /\ \A c \in Controls : Filed(manager[c])
    /\ \A k \in Sessions : Filed(sessions[k].snap)

Grants == UNION {sessions[k].grants : k \in Sessions}

\* A control whose memory counts.
InCharge(c) == deployment.raft => reign[c] # 0 /\ synced[c] = reign[c]

\* Everything ever sent, or about to be.
Granting == issued \cup Grants

\* One control leads at a time, under the latest epoch.
Reigns ==
    \A c \in Controls :
        /\ synced[c] \in won \cup {0}
        /\ reign[c] # 0 =>
              /\ reign[c] \in won /\ \A f \in won : f <= reign[c]
              /\ \A d \in Controls : reign[d] # 0 => d = c
        /\ reign[c] # 0 /\ synced[c] = reign[c] => manager[c].leaderEpoch = reign[c]

\* A session at work is with the leader, and where it is tells whether the
\* leader has synced.
Attends(k, here) ==
    /\ here.step \notin {"free", "idle"} => reign[here.at] # 0
    /\ here.step \in {"sync", "restore", "stamp"} => here.epoch = reign[here.at]
    /\ here.step \in {"restore", "stamp"} =>
          syncing[here.at] = k /\ synced[here.at] # reign[here.at]
    /\ here.step \in {"acquire", "snapshot", "put"} => synced[here.at] = reign[here.at]

\* No token is minted twice under an epoch.
EpochTokens ==
    /\ \A l \in Granting : l.token.epoch \in won
    /\ \A c \in Controls : reign[c] # 0 =>
          IF synced[c] = reign[c] THEN Fresh(manager[c], Granting)
          ELSE \A l \in Granting : l.token.epoch # reign[c]
    /\ \A l, o \in Granting : l.token = o.token => l = o

InOrder ==
    HandsOver(deployment) =>
        Reigns /\ (\A k \in Sessions : Attends(k, sessions[k])) /\ EpochTokens

\* What is in memory is a ledger, ...
Booked ==
    Steady(deployment) \/ Stored(deployment) =>
        \A c \in deployment.nodes :
            InCharge(c) => Ledger(deployment, manager[c], Granting)

\* A session brings the store up to date with the memory, or the reverse.
Carries(here) ==
    /\ here.step = "put" => here.snap = manager[here.at]
    /\ here.step = "restore" => here.snap = store
    /\ here.step = "stamp" => manager[here.at] = store

\* ... and where memory may be lost, the store is one of all that was sent.
Backed ==
    Stored(deployment) =>
        /\ Ledger(deployment, store, issued)
        /\ deployment.raft => store.leaderEpoch \in won \cup {0}
        /\ \A k \in Sessions : Carries(sessions[k])

IInv ==
    /\ TypeOK
    /\ \A k \in Sessions : Placed(deployment, k, sessions[k])
    /\ AllFiled
    /\ InOrder
    /\ Booked
    /\ Backed

-----------------------------------------------------------------------------
(* What the manager's operations do to a ledger *)

\* The facts about numbers and sets that every step uses.
LEMMA Constants ==
    /\ MaxFaults \in Nat /\ MaxEpoch \in Nat /\ MaxToken \in Nat /\ 1 <= MaxToken
    /\ Nil \notin Controls /\ Nil \notin Workers /\ Nil \notin Shards
    /\ Nil \notin Sessions /\ Nil \notin Lease
BY SetsAssumption, NoLeaseAssumption, LeaseBoundAssumption

\* The fields of a snapshot.
LEMMA SnapshotFields ==
    ASSUME NEW m \in Snapshot
    PROVE  /\ m.leases \in [Shards -> Lease \cup {Nil}]
           /\ m.nextToken \in 0..MaxToken /\ m.leaderEpoch \in 0..MaxEpoch
           /\ m.nextToken \in Int /\ m.leaderEpoch \in Int
           /\ Held(m) \subseteq Lease
BY Constants DEF Snapshot, Held

\* The fields of a lease.
LEMMA LeaseFields ==
    ASSUME NEW l \in Lease
    PROVE  /\ l.shard \in Shards /\ l.worker \in Workers /\ l.token \in Token
           /\ l.token.epoch \in 0..MaxEpoch /\ l.token.count \in 0..MaxToken
           /\ l.token.epoch \in Int /\ l.token.count \in Int
BY Constants DEF Lease, Token

\* Snapshots are equal when their fields are.
LEMMA SnapshotIs ==
    ASSUME NEW l, NEW n, NEW e,
           l \in [Shards -> Lease \cup {Nil}], n \in 0..MaxToken, e \in 0..MaxEpoch
    PROVE  [leases |-> l, nextToken |-> n, leaderEpoch |-> e] \in Snapshot
BY DEF Snapshot

\* A minted lease and the manager after it.
LEMMA GrantedIs ==
    ASSUME NEW m \in Snapshot, NEW s \in Shards, NEW w \in Workers, CanMint(m)
    PROVE  /\ NewLease(m, s, w) \in Lease
           /\ NewLease(m, s, w).shard = s
           /\ NewLease(m, s, w).token.epoch = m.leaderEpoch
           /\ NewLease(m, s, w).token.count = m.nextToken
           /\ Granted(m, s, w) \in Snapshot
           /\ Granted(m, s, w).nextToken = m.nextToken + 1
           /\ Granted(m, s, w).leaderEpoch = m.leaderEpoch
           /\ \A q \in Shards : Granted(m, s, w).leases[q] =
                 IF q = s THEN NewLease(m, s, w) ELSE m.leases[q]
<1>1. m.nextToken + 1 \in 0..MaxToken
  BY SnapshotFields, Constants DEF CanMint
<1>2. MintToken(m) \in Token /\ MintToken(m).epoch = m.leaderEpoch
      /\ MintToken(m).count = m.nextToken
  BY SnapshotFields DEF MintToken, Token
<1>3. PICK new : new = NewLease(m, s, w)
  OBVIOUS
<1>4. new \in Lease /\ new.shard = s /\ new.token = MintToken(m)
  BY <1>2, <1>3 DEF NewLease, Lease
<1>5. PICK g : g = [m.leases EXCEPT ![s] = new]
  OBVIOUS
<1>6. /\ g \in [Shards -> Lease \cup {Nil}]
      /\ \A q \in Shards : g[q] = IF q = s THEN new ELSE m.leases[q]
  BY <1>4, <1>5, SnapshotFields
<1>7. Granted(m, s, w) =
         [leases |-> g, nextToken |-> m.nextToken + 1, leaderEpoch |-> m.leaderEpoch]
  <2>1. Granted(m, s, w) = [m EXCEPT !.leases = g, !.nextToken = m.nextToken + 1]
    BY <1>3, <1>5 DEF Granted, NextCount
  <2> QED BY <2>1 DEF Snapshot
<1>8. Granted(m, s, w) \in Snapshot
  BY <1>1, <1>6, <1>7, SnapshotIs, SnapshotFields
<1> QED BY <1>2, <1>3, <1>4, <1>6, <1>7, <1>8

\* Minting keeps every lease under its shard.
LEMMA GrantedFiled ==
    ASSUME NEW m \in Snapshot, NEW s \in Shards, NEW w \in Workers, CanMint(m), Filed(m)
    PROVE  Filed(Granted(m, s, w))
BY GrantedIs DEF Filed

\* What a ledger holds after minting.
LEMMA GrantedHeld ==
    ASSUME NEW m \in Snapshot, NEW s \in Shards, NEW w \in Workers, CanMint(m)
    PROVE  Held(Granted(m, s, w)) \subseteq Held(m) \cup {NewLease(m, s, w)}
BY GrantedIs DEF Held

\* A minted token is a new one, and the next is newer still.
LEMMA FreshGrant ==
    ASSUME NEW m \in Snapshot, NEW s \in Shards, NEW w \in Workers, CanMint(m),
           NEW L, L \subseteq Lease, Fresh(m, L)
    PROVE  Fresh(Granted(m, s, w), L \cup {NewLease(m, s, w)})
<1>1. PICK new : new = NewLease(m, s, w)
  OBVIOUS
<1>2. PICK g : g = Granted(m, s, w)
  OBVIOUS
<1>3. /\ new.token.epoch = m.leaderEpoch /\ new.token.count = m.nextToken
      /\ g.nextToken = m.nextToken + 1 /\ g.leaderEpoch = m.leaderEpoch
      /\ m.nextToken \in Int /\ m.leaderEpoch \in Int
  BY <1>1, <1>2, GrantedIs, SnapshotFields
<1>4. ASSUME NEW l \in L
      PROVE  Before(l.token, g) /\ l.token # new.token
  <2>1. Before(l.token, m) /\ l.token.epoch \in Int /\ l.token.count \in Int
    BY <1>4, LeaseFields DEF Fresh
  <2> QED BY <1>3, <2>1 DEF Before
<1>5. Before(new.token, g)
  BY <1>3 DEF Before
<1>6. \A l \in L \cup {new} : Before(l.token, g)
  BY <1>4, <1>5
<1>7. \A l, o \in L \cup {new} : l.token = o.token => l = o
  BY <1>4 DEF Fresh
<1> QED BY <1>1, <1>2, <1>6, <1>7 DEF Fresh

\* Fewer leases are no less fresh.
LEMMA FreshSubset ==
    ASSUME NEW m, NEW L, NEW K, Fresh(m, L), K \subseteq L
    PROVE  Fresh(m, K)
BY DEF Fresh

\* A ledger of L is one of less, and of what it holds itself.
LEMMA LedgerSubset ==
    ASSUME NEW d, NEW m \in Snapshot, Filed(m), NEW L, Ledger(d, m, L),
           NEW K, K \subseteq L \cup Held(m)
    PROVE  Ledger(d, m, K)
<1>1. Fresh(m, K \cup Held(m))
  <2>1. K \cup Held(m) \subseteq L \cup Held(m)
    OBVIOUS
  <2> QED BY <2>1, FreshSubset DEF Ledger
<1>2. ASSUME NEW l \in Held(m)
      PROVE  m.leases[l.shard] = l /\ AtMost(l.token, l.token) /\ l # Nil
  <2>1. PICK s \in Shards : l = m.leases[s] /\ l # Nil
    BY <1>2 DEF Held
  <2>2. l.shard = s /\ l \in Lease
    BY <2>1, SnapshotFields DEF Filed
  <2>3. l.token.epoch \in Int /\ l.token.count \in Int
    BY <2>2, LeaseFields
  <2> QED BY <2>1, <2>2, <2>3 DEF AtMost
<1>3. Newest(m, K)
  BY <1>2 DEF Ledger, Newest
<1>4. Remembers(d, m, K)
  BY <1>2 DEF Ledger, Remembers
<1> QED BY <1>1, <1>3, <1>4 DEF Ledger

\* Minting keeps a ledger one, of the new lease too.
LEMMA LedgerGrant ==
    ASSUME NEW d, NEW m \in Snapshot, NEW s \in Shards, NEW w \in Workers, CanMint(m),
           NEW L, L \subseteq Lease, Ledger(d, m, L)
    PROVE  Ledger(d, Granted(m, s, w), L \cup {NewLease(m, s, w)})
<1>1. PICK new : new = NewLease(m, s, w)
  OBVIOUS
<1>2. PICK g : g = Granted(m, s, w)
  OBVIOUS
<1>3. /\ new.token.epoch = m.leaderEpoch /\ new.token.count = m.nextToken
      /\ new.shard = s /\ new \in Lease /\ new # Nil
      /\ m.nextToken \in Int /\ m.leaderEpoch \in Int
      /\ \A q \in Shards : g.leases[q] = IF q = s THEN new ELSE m.leases[q]
  BY <1>1, <1>2, GrantedIs, SnapshotFields, Constants
<1>4. Fresh(g, (L \cup {new}) \cup Held(g))
  <2>1. Fresh(g, (L \cup Held(m)) \cup {new})
    BY <1>1, <1>2, FreshGrant, SnapshotFields DEF Ledger
  <2>2. (L \cup {new}) \cup Held(g) \subseteq (L \cup Held(m)) \cup {new}
    BY <1>1, <1>2, GrantedHeld
  <2> QED BY <2>1, <2>2, FreshSubset
<1>5. ASSUME NEW l \in L
      PROVE  l.shard = s => AtMost(l.token, new.token)
  <2>1. Before(l.token, m) /\ l.token.epoch \in Int /\ l.token.count \in Int
    BY <1>5, LeaseFields DEF Fresh, Ledger
  <2> QED BY <1>3, <2>1 DEF Before, AtMost
<1>6. AtMost(new.token, new.token)
  BY <1>3 DEF AtMost
<1>7. \A l \in L : l.shard \in Shards
  BY LeaseFields
<1>8. Newest(g, L \cup {new})
  <2> SUFFICES ASSUME NEW l \in L \cup {new}, g.leases[l.shard] # Nil
               PROVE  AtMost(l.token, g.leases[l.shard].token)
    BY DEF Newest
  <2>1. CASE l.shard = s
    BY <1>3, <1>5, <1>6, <2>1
  <2>2. CASE l.shard # s
    BY <1>3, <1>7, <2>2 DEF Ledger, Newest
  <2> QED BY <2>1, <2>2
<1>9. Remembers(d, g, L \cup {new})
  BY <1>3, <1>7 DEF Ledger, Remembers
<1> QED BY <1>1, <1>2, <1>4, <1>8, <1>9 DEF Ledger

\* The manager after a release.
LEMMA ReleaseIs ==
    ASSUME NEW m \in Snapshot, NEW w
    PROVE  /\ ReleaseWorker(m, w) \in Snapshot
           /\ ReleaseWorker(m, w).nextToken = m.nextToken
           /\ ReleaseWorker(m, w).leaderEpoch = m.leaderEpoch
           /\ \A s \in Shards : ReleaseWorker(m, w).leases[s] \in {Nil, m.leases[s]}
           /\ Held(ReleaseWorker(m, w)) \subseteq Held(m)
           /\ Filed(m) => Filed(ReleaseWorker(m, w))
<1>1. PICK g : g = [s \in Shards |-> IF s \in HeldBy(m, w) THEN Nil ELSE m.leases[s]]
  OBVIOUS
<1>2. /\ g \in [Shards -> Lease \cup {Nil}]
      /\ \A s \in Shards : g[s] \in {Nil, m.leases[s]}
  BY <1>1, SnapshotFields
<1>3. ReleaseWorker(m, w) =
         [leases |-> g, nextToken |-> m.nextToken, leaderEpoch |-> m.leaderEpoch]
  BY <1>1 DEF ReleaseWorker, Snapshot
<1>4. ReleaseWorker(m, w) \in Snapshot
  BY <1>2, <1>3, SnapshotIs, SnapshotFields
<1>5. Held(ReleaseWorker(m, w)) \subseteq Held(m)
  BY <1>2, <1>3 DEF Held
<1>6. Filed(m) => Filed(ReleaseWorker(m, w))
  BY <1>2, <1>3 DEF Filed
<1> QED BY <1>2, <1>3, <1>4, <1>5, <1>6

\* A release keeps a ledger one where leases may be given back.
LEMMA LedgerRelease ==
    ASSUME NEW d, ~RequestsOnly(d), NEW m \in Snapshot, NEW w,
           NEW L, L \subseteq Lease, Ledger(d, m, L)
    PROVE  Ledger(d, ReleaseWorker(m, w), L)
<1>1. PICK g : g = ReleaseWorker(m, w)
  OBVIOUS
<1>2. Fresh(g, L \cup Held(g))
  <2>1. L \cup Held(g) \subseteq L \cup Held(m)
    BY <1>1, ReleaseIs
  <2>2. Fresh(m, L \cup Held(g))
    BY <2>1, FreshSubset DEF Ledger
  <2>3. g.nextToken = m.nextToken /\ g.leaderEpoch = m.leaderEpoch
    BY <1>1, ReleaseIs
  <2> QED BY <2>2, <2>3 DEF Fresh, Before
<1>3. Newest(g, L)
  <2>1. \A s \in Shards : g.leases[s] \in {Nil, m.leases[s]}
    BY <1>1, ReleaseIs
  <2>2. \A l \in L : l.shard \in Shards
    BY LeaseFields
  <2> QED BY <2>1, <2>2 DEF Ledger, Newest
<1> QED BY <1>1, <1>2, <1>3 DEF Ledger, Remembers

\* A snapshot under a later epoch.
LEMMA StampIs ==
    ASSUME NEW m \in Snapshot, NEW e \in 0..MaxEpoch
    PROVE  /\ [m EXCEPT !.leaderEpoch = e] \in Snapshot
           /\ [m EXCEPT !.leaderEpoch = e].leases = m.leases
           /\ [m EXCEPT !.leaderEpoch = e].nextToken = m.nextToken
           /\ [m EXCEPT !.leaderEpoch = e].leaderEpoch = e
BY DEF Snapshot

\* A ledger is one under a later epoch.
LEMMA LedgerStamp ==
    ASSUME NEW d, NEW m \in Snapshot, NEW e \in 0..MaxEpoch, m.leaderEpoch <= e,
           NEW L, L \subseteq Lease, Ledger(d, m, L)
    PROVE  Ledger(d, [m EXCEPT !.leaderEpoch = e], L)
<1>1. PICK g : g = [m EXCEPT !.leaderEpoch = e]
  OBVIOUS
<1>2. g.leases = m.leases /\ g.nextToken = m.nextToken /\ g.leaderEpoch = e
  BY <1>1, StampIs
<1>3. Held(g) = Held(m)
  BY <1>2 DEF Held
<1>4. ASSUME NEW l \in L \cup Held(m)
      PROVE  Before(l.token, g)
  <2>1. Before(l.token, m) /\ l.token.epoch \in Int /\ l.token.count \in Int
    BY <1>4, LeaseFields, SnapshotFields DEF Fresh, Ledger
  <2>2. m.leaderEpoch \in Int /\ m.nextToken \in Int /\ e \in Int
    BY SnapshotFields, Constants
  <2> QED BY <1>2, <2>1, <2>2 DEF Before
<1>5. Fresh(g, L \cup Held(g))
  BY <1>3, <1>4 DEF Ledger, Fresh
<1>6. Newest(g, L) /\ Remembers(d, g, L)
  BY <1>2 DEF Ledger, Newest, Remembers
<1> QED BY <1>1, <1>5, <1>6 DEF Ledger

-----------------------------------------------------------------------------
(* Sessions *)

Session ==
    [step : Steps, at : Controls \cup {Nil}, worker : Workers \cup {Nil},
     next : {"idle", "gone"}, shard : Shards \cup {Nil},
     epoch : 0..MaxEpoch, snap : Snapshot, todo : SUBSET Shards,
     targets : SUBSET Workers, grants : SUBSET Lease]

\* The controls and sessions of a deployment, one control without raft.
LEMMA DeploymentIs ==
    ASSUME TypeOK
    PROVE  /\ deployment.nodes \subseteq Controls /\ deployment.sessions \subseteq Sessions
           /\ deployment.raft \in BOOLEAN
           /\ ~deployment.raft => \A c, d \in deployment.nodes : c = d
<1>1. deployment \in Deployments /\ deployment \in Deployment
  BY DeploymentAssumption DEF TypeOK
<1>2. /\ deployment.nodes \subseteq Controls /\ deployment.sessions \subseteq Sessions
      /\ deployment.raft \in BOOLEAN
  BY <1>1 DEF Deployment
<1>3. ASSUME ~deployment.raft
      PROVE  \A c, d \in deployment.nodes : c = d
  <2>1. Cardinality(deployment.nodes) = 1
    BY <1>1, <1>3, DeploymentAssumption
  <2>2. IsFiniteSet(deployment.nodes)
    BY <1>2, SetsAssumption, FS_Subset
  <2>3. PICK x : deployment.nodes = {x}
    BY <2>1, <2>2, FS_Singleton
  <2> QED BY <2>3
<1> QED BY <1>2, <1>3

\* The empty snapshots.
LEMMA DefaultSnapshotIs ==
    /\ DefaultSnapshot \in Snapshot /\ NewManager \in Snapshot
    /\ Filed(DefaultSnapshot) /\ Filed(NewManager)
    /\ Held(DefaultSnapshot) = {} /\ Held(NewManager) = {}
    /\ DefaultSnapshot.leaderEpoch = 0
    /\ \A s \in Shards : DefaultSnapshot.leases[s] = Nil /\ NewManager.leases[s] = Nil
<1>1. /\ Unleased \in [Shards -> Lease \cup {Nil}]
      /\ \A s \in Shards : Unleased[s] = Nil
  BY DEF Unleased
<1>2. DefaultSnapshot \in Snapshot /\ NewManager \in Snapshot
  BY <1>1, Constants DEF DefaultSnapshot, NewManager, Snapshot
<1>3. /\ \A s \in Shards : DefaultSnapshot.leases[s] = Nil /\ NewManager.leases[s] = Nil
      /\ DefaultSnapshot.leaderEpoch = 0
  BY <1>1 DEF DefaultSnapshot, NewManager
<1> QED BY <1>2, <1>3 DEF Held, Filed

\* A free place for a session.
LEMMA NoSessionIs ==
    /\ NoSession \in Session
    /\ NoSession = [step |-> "free", at |-> Nil, worker |-> Nil, next |-> "idle",
                    shard |-> Nil, epoch |-> 0, snap |-> DefaultSnapshot, todo |-> {},
                    targets |-> {}, grants |-> {}]
BY DefaultSnapshotIs, Constants DEF NoSession, Session, Steps

\* The fields of a session.
LEMMA SessionFields ==
    ASSUME TypeOK, NEW k \in Sessions
    PROVE  /\ sessions[k] \in Session
           /\ sessions[k].step \in Steps /\ sessions[k].next \in {"idle", "gone"}
           /\ sessions[k].at \in Controls \cup {Nil} /\ sessions[k].worker \in Workers \cup {Nil}
           /\ sessions[k].shard \in Shards \cup {Nil} /\ sessions[k].epoch \in 0..MaxEpoch
           /\ sessions[k].snap \in Snapshot /\ sessions[k].todo \subseteq Shards
           /\ sessions[k].targets \subseteq Workers /\ sessions[k].grants \subseteq Lease
<1>1. sessions[k] \in Session
  BY DEF TypeOK, Session
<1> QED BY <1>1 DEF Session

\* An idle session is typed and holds nothing.
LEMMA IdleIs ==
    ASSUME TypeOK, NEW k \in Sessions
    PROVE  /\ Idle(k) \in Session
           /\ Idle(k).step = "idle" /\ Idle(k).next = "idle"
           /\ Idle(k).at = sessions[k].at /\ Idle(k).worker = sessions[k].worker
           /\ Idle(k).shard = Nil /\ Idle(k).epoch = 0 /\ Idle(k).snap = DefaultSnapshot
           /\ Idle(k).todo = {} /\ Idle(k).targets = {} /\ Idle(k).grants = {}
<1>1. PICK n : n = NoSession
  OBVIOUS
<1>2. /\ n \in Session /\ n.next = "idle" /\ n.shard = Nil /\ n.epoch = 0
      /\ n.snap = DefaultSnapshot /\ n.todo = {} /\ n.targets = {} /\ n.grants = {}
  BY <1>1, NoSessionIs
<1>3. Idle(k) = [n EXCEPT !.step = "idle", !.at = sessions[k].at,
                          !.worker = sessions[k].worker]
  BY <1>1 DEF Idle
<1> QED BY <1>2, <1>3, SessionFields DEF Session, Steps

\* Where a session that is not free is.
LEMMA SessionAt ==
    ASSUME IInv, NEW k \in Sessions, sessions[k].step # "free"
    PROVE  /\ sessions[k].at \in deployment.nodes /\ sessions[k].at \in Controls
           /\ sessions[k].worker \in Workers
           /\ manager[sessions[k].at] \in Snapshot /\ Filed(manager[sessions[k].at])
<1>1. sessions[k].at \in deployment.nodes /\ sessions[k].worker \in Workers
  BY DEF IInv, Placed
<1>2. sessions[k].at \in Controls
  BY <1>1, DeploymentIs DEF IInv
<1> QED BY <1>1, <1>2 DEF IInv, TypeOK, AllFiled

\* Grants under way are leases.
LEMMA GrantingIs ==
    ASSUME TypeOK
    PROVE  /\ issued \subseteq Granting /\ Granting \subseteq Lease
           /\ \A k \in Sessions : sessions[k].grants \subseteq Granting
<1>1. \A k \in Sessions : sessions[k].grants \subseteq Lease
  BY SessionFields
<1> QED BY <1>1 DEF Granting, Grants, TypeOK

\* When one session changes, the others are as they were.
LEMMA SessionFrame ==
    ASSUME IInv, NEW k \in deployment.sessions, NEW r \in Session, Become(k, r),
           Placed(deployment, k, r), Filed(r.snap),
           deployment' = deployment,
           manager' \in [Controls -> Snapshot], \A c \in Controls : Filed(manager'[c]),
           store' \in Snapshot, Filed(store'),
           synced' \in [Controls -> 0..MaxEpoch],
           syncing' \in [Controls -> Sessions \cup {Nil}],
           catalog' \in [Controls -> SUBSET Workers], topology' \subseteq Workers,
           senders' \in [Controls -> SUBSET Workers],
           UNCHANGED leadership,
           issued' \subseteq Lease, faults' \in 0..MaxFaults
    PROVE  /\ TypeOK' /\ AllFiled'
           /\ k \in Sessions
           /\ \A j \in Sessions : sessions'[j] = IF j = k THEN r ELSE sessions[j]
           /\ \A j \in Sessions : Placed(deployment', j, sessions'[j])
<1>1. k \in Sessions
  BY DeploymentIs DEF IInv
<1>2. sessions \in [Sessions -> Session]
  BY DEF IInv, TypeOK, Session
<1>3. /\ sessions' \in [Sessions -> Session]
      /\ \A j \in Sessions : sessions'[j] = IF j = k THEN r ELSE sessions[j]
  BY <1>1, <1>2 DEF Become
<1>4. TypeOK'
  <2>1. deployment' \in Deployments
    BY DEF IInv, TypeOK
  <2>2. reign' \in [Controls -> 0..MaxEpoch] /\ live' \in [Controls -> BOOLEAN]
        /\ won' \subseteq 1..MaxEpoch
    BY DEF IInv, TypeOK, leadership
  <2> QED BY <1>3, <2>1, <2>2 DEF TypeOK, Session
<1>5. AllFiled'
  BY <1>3 DEF IInv, AllFiled
<1>6. \A j \in Sessions : Placed(deployment', j, sessions'[j])
  BY <1>3 DEF IInv
<1> QED BY <1>1, <1>3, <1>4, <1>5, <1>6

\* The grants under way after one session changed.
LEMMA GrantsFrame ==
    ASSUME TypeOK, NEW k \in Sessions, NEW r, NEW X,
           \A j \in Sessions : sessions'[j] = IF j = k THEN r ELSE sessions[j],
           r.grants \subseteq sessions[k].grants \cup X, issued' = issued
    PROVE  Granting' \subseteq Granting \cup X
<1>1. \A j \in Sessions : sessions'[j].grants \subseteq Grants \cup X
  BY DEF Grants
<1> QED BY <1>1 DEF Granting, Grants

\* Where the store makes up for memory, there is one session.
LEMMA OnlySession ==
    ASSUME IInv, Stored(deployment), NEW k \in deployment.sessions,
           NEW j \in Sessions, j # k
    PROVE  /\ sessions[j] = NoSession /\ sessions[j].step = "free"
           /\ sessions[j].grants = {}
<1>1. j \notin deployment.sessions
  BY DEF Stored, PersistsFirst, HandsOverOne, OneSession
<1>2. sessions[j] = NoSession
  BY <1>1 DEF IInv, Placed
<1> QED BY <1>2, NoSessionIs

\* What the kinds of deployment exclude.
LEMMA Kinds ==
    ASSUME NEW d
    PROVE  /\ Steady(d) \/ PersistsFirst(d) => ~d.raft
           /\ HandsOver(d) => d.raft /\ d.orderly /\ RequestsOnly(d)
           /\ Stored(d) => PersistsFirst(d) \/ HandsOver(d)
           /\ Stored(d) => "load" \notin d.faults
                 /\ "deploy" \notin d.operations /\ "drain" \notin d.operations
           /\ RequestsOnly(d) => "deploy" \notin d.operations
                 /\ "deregister" \notin d.operations
                 /\ "disconnect" \notin d.operations /\ "drain" \notin d.operations
BY DEF Steady, PersistsFirst, HandsOver, HandsOverOne, Stored, RequestsOnly

-----------------------------------------------------------------------------
(* Three kinds of steps of a session *)

\* What is left to show of a step of session k to r, whatever it changes.
LEMMA Assemble ==
    ASSUME TypeOK', AllFiled', \A j \in Sessions : Placed(deployment', j, sessions'[j]),
           HandsOver(deployment') =>
               Reigns' /\ (\A j \in Sessions : Attends(j, sessions[j])') /\ EpochTokens',
           Steady(deployment') \/ Stored(deployment') =>
               \A c \in deployment'.nodes :
                   InCharge(c)' => Ledger(deployment', manager'[c], Granting'),
           Stored(deployment') =>
               /\ Ledger(deployment', store', issued')
               /\ deployment'.raft => store'.leaderEpoch \in won' \cup {0}
               /\ \A j \in Sessions : Carries(sessions[j])'
    PROVE  IInv'
<1>1. InOrder'
  BY DEF InOrder
<1>2. Booked'
  BY DEF Booked
<1>3. Backed'
  BY DEF Backed
<1> QED BY <1>1, <1>2, <1>3 DEF IInv

\* A session that has nothing to carry does so.
LEMMA CarriesNothing ==
    ASSUME NEW here, here.step \notin {"put", "restore", "stamp"}
    PROVE  Carries(here) /\ Carries(here)'
BY DEF Carries

\* The grants of epochs stay apart while managers and leaders stay.
LEMMA EpochTokensFrame ==
    ASSUME EpochTokens, Granting' \subseteq Granting,
           UNCHANGED <<manager, synced, reign, won>>
    PROVE  EpochTokens'
<1>1. \A c \in Controls : Fresh(manager[c], Granting) => Fresh(manager'[c], Granting')
  BY FreshSubset
<1> QED BY <1>1 DEF EpochTokens

\* Who reigns stays the same while managers and leaders stay.
LEMMA ReignsFrame ==
    ASSUME Reigns, UNCHANGED <<manager, synced, reign, won>>
    PROVE  Reigns'
BY DEF Reigns

\* Another session keeps its place with the leader.
LEMMA AttendsFrame ==
    ASSUME IInv, HandsOver(deployment), NEW j \in Sessions,
           UNCHANGED <<reign, synced>>,
           \A c \in Controls : syncing[c] # Nil => syncing'[c] = syncing[c],
           sessions'[j] = sessions[j]
    PROVE  Attends(j, sessions[j])'
<1>1. Attends(j, sessions[j])
  BY DEF IInv, InOrder
<1>2. j # Nil
  BY Constants
<1>3. sessions[j].step \in {"restore", "stamp"} => sessions[j].at \in Controls
  BY SessionAt
<1> QED BY <1>1, <1>2, <1>3 DEF Attends

\* A session moves on and leaves the managers and the store alone.  It may
\* take over leases of the manager to announce them.
LEMMA MoveInv ==
    ASSUME IInv, NEW k \in deployment.sessions, NEW r \in Session, Become(k, r),
           Placed(deployment, k, r), Filed(r.snap),
           UNCHANGED <<deployment, manager, store, synced, reign, live, won, issued>>,
           syncing' \in [Controls -> Sessions \cup {Nil}],
           \A c \in Controls : syncing[c] # Nil => syncing'[c] = syncing[c],
           catalog' \in [Controls -> SUBSET Workers], topology' \subseteq Workers,
           senders' \in [Controls -> SUBSET Workers],
           faults' \in 0..MaxFaults,
           \/ r.grants \subseteq sessions[k].grants
           \/ /\ ~RequestsOnly(deployment)
              /\ sessions[k].at \in deployment.nodes
              /\ r.grants \subseteq sessions[k].grants \cup Held(manager[sessions[k].at]),
           HandsOver(deployment) => Attends(k, r)',
           Stored(deployment) => Carries(r)
    PROVE  IInv'
<1>1. /\ TypeOK' /\ AllFiled' /\ k \in Sessions
      /\ \A j \in Sessions : sessions'[j] = IF j = k THEN r ELSE sessions[j]
      /\ \A j \in Sessions : Placed(deployment', j, sessions'[j])
  <2>1. /\ manager' \in [Controls -> Snapshot] /\ \A c \in Controls : Filed(manager'[c])
        /\ store' \in Snapshot /\ Filed(store')
        /\ synced' \in [Controls -> 0..MaxEpoch] /\ issued' \subseteq Lease
    BY DEF IInv, TypeOK, AllFiled
  <2>2. UNCHANGED leadership
    BY DEF leadership
  <2> QED BY <2>1, <2>2, SessionFrame
<1>2. HandsOver(deployment) =>
         Reigns' /\ (\A j \in Sessions : Attends(j, sessions[j])') /\ EpochTokens'
  <2> SUFFICES ASSUME HandsOver(deployment)
               PROVE  Reigns' /\ (\A j \in Sessions : Attends(j, sessions[j])') /\ EpochTokens'
    OBVIOUS
  <2>1. Reigns /\ EpochTokens
    BY DEF IInv, InOrder
  <2>2. Granting' \subseteq Granting
    <3>1. r.grants \subseteq sessions[k].grants \cup {}
      BY Kinds
    <3>2. Granting' \subseteq Granting \cup {}
      BY <1>1, <3>1, GrantsFrame DEF IInv
    <3> QED BY <3>2
  <2>3. ASSUME NEW j \in Sessions
        PROVE  Attends(j, sessions[j])'
    <3>1. CASE j = k
      <4>1. sessions'[j] = r
        BY <1>1, <3>1
      <4> QED BY <3>1, <4>1 DEF Attends
    <3>2. CASE j # k
      <4>1. sessions'[j] = sessions[j]
        BY <1>1, <3>2
      <4> QED BY <4>1, AttendsFrame
    <3> QED BY <3>1, <3>2
  <2> QED BY <2>1, <2>2, <2>3, EpochTokensFrame, ReignsFrame
<1>3. ASSUME Steady(deployment) \/ Stored(deployment),
             NEW c \in deployment.nodes, InCharge(c)'
      PROVE  Ledger(deployment, manager[c], Granting')
  <2>1. InCharge(c)
    BY <1>3 DEF InCharge
  <2>2. Ledger(deployment, manager[c], Granting)
    BY <1>3, <2>1 DEF IInv, Booked
  <2>3. manager[c] \in Snapshot /\ Filed(manager[c])
    BY DeploymentIs DEF IInv, TypeOK, AllFiled
  <2>4. Granting' \subseteq Granting \cup Held(manager[c])
    <3>1. r.grants \subseteq sessions[k].grants \cup Held(manager[c])
      <4>1. CASE r.grants \subseteq sessions[k].grants
        BY <4>1
      <4>2. CASE ~(r.grants \subseteq sessions[k].grants)
        <5>1. ~HandsOver(deployment)
          BY <4>2, Kinds
        <5>2. ~deployment.raft
          BY <1>3, <5>1, Kinds
        <5>3. sessions[k].at = c
          BY <4>2, <5>2, DeploymentIs DEF IInv
        <5> QED BY <4>2, <5>3
      <4> QED BY <4>1, <4>2
    <3> QED BY <1>1, <3>1, GrantsFrame DEF IInv
  <2> QED BY <2>2, <2>3, <2>4, LedgerSubset
<1>4. ASSUME Stored(deployment)
      PROVE  /\ Ledger(deployment, store, issued)
             /\ deployment.raft => store.leaderEpoch \in won \cup {0}
             /\ \A j \in Sessions : Carries(sessions[j])'
  <2>1. ASSUME NEW j \in Sessions
        PROVE  Carries(sessions[j])'
    <3>1. CASE j = k
      <4>1. sessions'[j] = r
        BY <1>1, <3>1
      <4> QED BY <1>4, <4>1 DEF Carries
    <3>2. CASE j # k
      <4>1. sessions'[j] = sessions[j] /\ sessions[j].step = "free"
        BY <1>1, <1>4, <3>2, OnlySession
      <4> QED BY <4>1 DEF Carries
    <3> QED BY <3>1, <3>2
  <2> QED BY <1>4, <2>1 DEF IInv, Backed
<1> QED BY <1>1, <1>2, <1>3, <1>4, Assemble

\* The manager a session talks to has changed; others have not.
LEMMA ManagerFrame ==
    ASSUME TypeOK, NEW c \in Controls, NEW m \in Snapshot,
           manager' = [manager EXCEPT ![c] = m]
    PROVE  /\ manager' \in [Controls -> Snapshot] /\ manager'[c] = m
           /\ \A d \in Controls : d # c => manager'[d] = manager[d]
BY DEF TypeOK

\* A session has its manager mint a lease.
LEMMA GrantInv ==
    ASSUME IInv, NEW k \in deployment.sessions, NEW r \in Session, Become(k, r),
           Placed(deployment, k, r), Filed(r.snap), r.step \notin {"put", "restore", "stamp"},
           sessions[k].step # "free",
           NEW s \in Shards, NEW w \in Workers, CanMint(manager[sessions[k].at]),
           manager' = [manager EXCEPT ![sessions[k].at] = Granted(manager[sessions[k].at], s, w)],
           UNCHANGED <<deployment, store, synced, syncing, catalog, topology, senders,
                       reign, live, won, faults>>,
           r.grants \subseteq sessions[k].grants \cup {NewLease(manager[sessions[k].at], s, w)},
           \/ issued' = issued
           \/ /\ "deploy" \in deployment.operations
              /\ issued' \subseteq issued \cup sessions[k].grants
                                     \cup {NewLease(manager[sessions[k].at], s, w)},
           HandsOver(deployment) => sessions[k].step = "acquire" /\ Attends(k, r)
    PROVE  IInv'
<1>0. PICK c \in Controls : c = sessions[k].at
  BY DeploymentIs, SessionAt DEF IInv
<1>1. PICK m \in Snapshot : m = manager[c]
  BY <1>0 DEF IInv, TypeOK
<1>2. PICK new \in Lease : new = NewLease(m, s, w)
  BY <1>0, <1>1, GrantedIs
<1>3. PICK g \in Snapshot : g = Granted(m, s, w)
  BY <1>0, <1>1, GrantedIs
<1>4. c \in deployment.nodes /\ Filed(m) /\ CanMint(m) /\ k \in Sessions
  BY <1>0, <1>1, SessionAt, DeploymentIs DEF IInv
<1>5. /\ manager' \in [Controls -> Snapshot] /\ manager'[c] = g
      /\ \A d \in Controls : d # c => manager'[d] = manager[d]
  BY <1>0, <1>1, <1>3, ManagerFrame DEF IInv
<1>6. Filed(g)
  BY <1>1, <1>3, <1>4, GrantedFiled
<1>7. issued' \subseteq Granting \cup {new}
  BY <1>0, <1>1, <1>2, <1>4, GrantingIs DEF IInv
<1>8. /\ TypeOK' /\ AllFiled'
      /\ \A j \in Sessions : sessions'[j] = IF j = k THEN r ELSE sessions[j]
      /\ \A j \in Sessions : Placed(deployment', j, sessions'[j])
  <2>1. \A d \in Controls : Filed(manager'[d])
    BY <1>5, <1>6 DEF IInv, AllFiled
  <2>2. /\ store' \in Snapshot /\ Filed(store')
        /\ synced' \in [Controls -> 0..MaxEpoch]
        /\ syncing' \in [Controls -> Sessions \cup {Nil}]
        /\ catalog' \in [Controls -> SUBSET Workers] /\ topology' \subseteq Workers
        /\ senders' \in [Controls -> SUBSET Workers]
        /\ faults' \in 0..MaxFaults
    BY DEF IInv, TypeOK, AllFiled
  <2>3. issued' \subseteq Lease
    BY <1>7, GrantingIs DEF IInv
  <2>4. UNCHANGED leadership
    BY DEF leadership
  <2> QED BY <1>5, <2>1, <2>2, <2>3, <2>4, SessionFrame
<1>9. Granting' \subseteq Granting \cup {new}
  <2>1. r.grants \subseteq Granting \cup {new}
    BY <1>0, <1>1, <1>2, <1>4, GrantingIs DEF IInv
  <2>2. \A j \in Sessions : sessions'[j].grants \subseteq Granting \cup {new}
    BY <1>8, <2>1, GrantingIs DEF IInv
  <2> QED BY <1>7, <2>2 DEF Granting, Grants
<1>10. Granting \subseteq Lease
  BY GrantingIs DEF IInv
<1>11. HandsOver(deployment) =>
          Reigns' /\ (\A j \in Sessions : Attends(j, sessions[j])') /\ EpochTokens'
  <2> SUFFICES ASSUME HandsOver(deployment)
               PROVE  Reigns' /\ (\A j \in Sessions : Attends(j, sessions[j])') /\ EpochTokens'
    OBVIOUS
  <2>1. Reigns /\ EpochTokens /\ Attends(k, sessions[k])
    BY <1>4 DEF IInv, InOrder
  <2>2. reign[c] # 0 /\ synced[c] = reign[c]
    BY <1>0, <2>1 DEF Attends
  <2>3. g.leaderEpoch = m.leaderEpoch /\ m.leaderEpoch = reign[c] /\ reign[c] \in won
    BY <1>1, <1>3, <1>4, <2>1, <2>2, GrantedIs DEF Reigns
  <2>4. Reigns'
    BY <1>1, <1>5, <2>1, <2>3 DEF Reigns
  <2>5. ASSUME NEW j \in Sessions
        PROVE  Attends(j, sessions[j])'
    <3>1. CASE j = k
      <4>1. sessions'[j] = r
        BY <1>8, <3>1
      <4> QED BY <3>1, <4>1 DEF Attends
    <3>2. CASE j # k
      <4>1. sessions'[j] = sessions[j]
        BY <1>8, <3>2
      <4> QED BY <4>1, AttendsFrame
    <3> QED BY <3>1, <3>2
  <2>6. Fresh(g, Granting \cup {new})
    BY <1>1, <1>2, <1>3, <1>4, <1>10, <2>1, <2>2, FreshGrant DEF EpochTokens
  <2>7. Fresh(manager'[c], Granting')
    BY <1>5, <1>9, <2>6, FreshSubset
  <2>8. \A l \in Granting' : l.token.epoch \in won'
    <3>1. new.token.epoch = m.leaderEpoch
      BY <1>2, <1>4, GrantedIs
    <3> QED BY <1>9, <2>1, <2>3, <3>1 DEF EpochTokens
  <2>9. \A d \in Controls : reign'[d] # 0 => d = c
    BY <2>1, <2>2 DEF Reigns
  <2>10. \A l, o \in Granting' : l.token = o.token => l = o
    BY <2>7 DEF Fresh
  <2>11. EpochTokens'
    BY <2>2, <2>7, <2>8, <2>9, <2>10 DEF EpochTokens
  <2> QED BY <2>4, <2>5, <2>11
<1>12. ASSUME Steady(deployment) \/ Stored(deployment),
              NEW d \in deployment.nodes, InCharge(d)'
       PROVE  Ledger(deployment, manager'[d], Granting')
  <2>1. d = c
    <3>1. CASE deployment.raft
      <4>1. HandsOver(deployment)
        BY <1>12, <3>1, Kinds
      <4>2. Reigns /\ Attends(k, sessions[k])
        BY <1>4, <4>1 DEF IInv, InOrder
      <4>3. reign[c] # 0 /\ reign[d] # 0 /\ d \in Controls
        BY <1>0, <1>12, <3>1, <4>1, <4>2, DeploymentIs DEF Attends, InCharge, IInv
      <4> QED BY <4>2, <4>3 DEF Reigns
    <3>2. CASE ~deployment.raft
      BY <1>4, <3>2, DeploymentIs DEF IInv
    <3> QED BY <3>1, <3>2
  <2>2. InCharge(c)
    BY <1>12, <2>1 DEF InCharge
  <2>3. Ledger(deployment, m, Granting)
    BY <1>1, <1>4, <1>12, <2>2 DEF IInv, Booked
  <2>4. Ledger(deployment, g, Granting \cup {new})
    BY <1>2, <1>3, <1>4, <1>10, <2>3, LedgerGrant
  <2>5. Granting' \subseteq (Granting \cup {new}) \cup Held(g)
    BY <1>9
  <2>6. Ledger(deployment, g, Granting')
    BY <1>6, <2>4, <2>5, LedgerSubset
  <2> QED BY <1>5, <2>1, <2>6
<1>13. ASSUME Stored(deployment)
       PROVE  /\ Ledger(deployment, store, issued')
              /\ deployment.raft => store.leaderEpoch \in won \cup {0}
              /\ \A j \in Sessions : Carries(sessions[j])'
  <2>1. issued' = issued
    BY <1>13, Kinds
  <2>2. ASSUME NEW j \in Sessions
        PROVE  Carries(sessions[j])'
    <3>1. sessions'[j].step \notin {"put", "restore", "stamp"}
      <4>1. CASE j = k
        BY <1>8, <4>1
      <4>2. CASE j # k
        <5>1. sessions'[j] = sessions[j] /\ sessions[j].step = "free"
          BY <1>8, <1>13, <4>2, OnlySession
        <5> QED BY <5>1
      <4> QED BY <4>1, <4>2
    <3> QED BY <3>1 DEF Carries
  <2> QED BY <1>13, <2>1, <2>2 DEF IInv, Backed
<1> QED BY <1>8, <1>11, <1>12, <1>13, Assemble

\* A session has its manager release a worker's leases.
LEMMA ReleaseInv ==
    ASSUME IInv, NEW k \in deployment.sessions, NEW r \in Session, Become(k, r),
           Placed(deployment, k, r), Filed(r.snap), r.step \notin {"put", "restore", "stamp"},
           sessions[k].step # "free", ~RequestsOnly(deployment), NEW w,
           manager' = [manager EXCEPT ![sessions[k].at] = ReleaseWorker(manager[sessions[k].at], w)],
           UNCHANGED <<deployment, store, synced, syncing, catalog, topology, senders,
                       reign, live, won, faults, issued>>,
           r.grants \subseteq sessions[k].grants
    PROVE  IInv'
<1>0. PICK c \in Controls : c = sessions[k].at
  BY DeploymentIs, SessionAt DEF IInv
<1>1. PICK m \in Snapshot : m = manager[c]
  BY <1>0 DEF IInv, TypeOK
<1>2. PICK g \in Snapshot : g = ReleaseWorker(m, w)
  BY <1>0, <1>1, ReleaseIs
<1>3. c \in deployment.nodes /\ Filed(m) /\ k \in Sessions /\ Filed(g)
  BY <1>0, <1>1, <1>2, SessionAt, DeploymentIs, ReleaseIs DEF IInv
<1>4. /\ manager' \in [Controls -> Snapshot] /\ manager'[c] = g
      /\ \A d \in Controls : d # c => manager'[d] = manager[d]
  BY <1>0, <1>1, <1>2, ManagerFrame DEF IInv
<1>5. /\ TypeOK' /\ AllFiled'
      /\ \A j \in Sessions : sessions'[j] = IF j = k THEN r ELSE sessions[j]
      /\ \A j \in Sessions : Placed(deployment', j, sessions'[j])
  <2>1. \A d \in Controls : Filed(manager'[d])
    BY <1>3, <1>4 DEF IInv, AllFiled
  <2>2. /\ store' \in Snapshot /\ Filed(store')
        /\ synced' \in [Controls -> 0..MaxEpoch]
        /\ syncing' \in [Controls -> Sessions \cup {Nil}]
        /\ catalog' \in [Controls -> SUBSET Workers] /\ topology' \subseteq Workers
        /\ senders' \in [Controls -> SUBSET Workers]
        /\ faults' \in 0..MaxFaults /\ issued' \subseteq Lease
    BY DEF IInv, TypeOK, AllFiled
  <2>3. UNCHANGED leadership
    BY DEF leadership
  <2> QED BY <1>4, <2>1, <2>2, <2>3, SessionFrame
<1>6. Granting' \subseteq Granting
  <2>1. r.grants \subseteq sessions[k].grants \cup {}
    OBVIOUS
  <2>2. Granting' \subseteq Granting \cup {}
    BY <1>3, <1>5, <2>1, GrantsFrame DEF IInv
  <2> QED BY <2>2
<1>7. ~HandsOver(deployment)
  BY Kinds
<1>8. ASSUME Steady(deployment) \/ Stored(deployment),
             NEW d \in deployment.nodes, InCharge(d)'
      PROVE  Ledger(deployment, manager'[d], Granting')
  <2>1. ~deployment.raft
    BY <1>7, <1>8, Kinds
  <2>2. d = c
    BY <1>3, <2>1, DeploymentIs DEF IInv
  <2>3. InCharge(c)
    BY <2>1 DEF InCharge
  <2>4. Ledger(deployment, m, Granting)
    BY <1>1, <1>3, <1>8, <2>3 DEF IInv, Booked
  <2>5. Ledger(deployment, g, Granting)
    BY <1>2, <2>4, LedgerRelease, GrantingIs DEF IInv
  <2>6. Granting' \subseteq Granting \cup Held(g)
    BY <1>6
  <2>7. Ledger(deployment, g, Granting')
    BY <1>3, <2>5, <2>6, LedgerSubset
  <2> QED BY <1>4, <2>2, <2>7
<1>9. ASSUME Stored(deployment)
      PROVE  /\ Ledger(deployment, store, issued)
             /\ deployment.raft => store.leaderEpoch \in won \cup {0}
             /\ \A j \in Sessions : Carries(sessions[j])'
  <2>1. ASSUME NEW j \in Sessions
        PROVE  Carries(sessions[j])'
    <3>1. sessions'[j].step \notin {"put", "restore", "stamp"}
      <4>1. CASE j = k
        BY <1>5, <4>1
      <4>2. CASE j # k
        <5>1. sessions'[j] = sessions[j] /\ sessions[j].step = "free"
          BY <1>5, <1>9, <4>2, OnlySession
        <5> QED BY <5>1
      <4> QED BY <4>1, <4>2
    <3> QED BY <3>1 DEF Carries
  <2> QED BY <1>9, <2>1 DEF IInv, Backed
<1> QED BY <1>5, <1>7, <1>8, <1>9, Assemble

-----------------------------------------------------------------------------
(* The steps of a session *)

\* A session moves on and changes nothing but itself.
LEMMA QuietMove ==
    ASSUME IInv, NEW k \in deployment.sessions, NEW r \in Session, Become(k, r),
           Placed(deployment, k, r), Filed(r.snap),
           UNCHANGED <<deployment, manager, store, synced, syncing, membership,
                       leadership, issued, faults>>,
           r.grants \subseteq sessions[k].grants,
           HandsOver(deployment) => Attends(k, r),
           Stored(deployment) => Carries(r)
    PROVE  IInv'
<1>1. UNCHANGED <<deployment, manager, store, synced, syncing, catalog, topology, senders,
                  reign, live, won, issued, faults>>
  BY DEF membership, leadership
<1>2. HandsOver(deployment) => Attends(k, r)'
  BY <1>1 DEF Attends
<1>3. /\ syncing' \in [Controls -> Sessions \cup {Nil}]
      /\ catalog' \in [Controls -> SUBSET Workers] /\ topology' \subseteq Workers
      /\ senders' \in [Controls -> SUBSET Workers]
      /\ faults' \in 0..MaxFaults
  BY <1>1 DEF IInv, TypeOK
<1> QED BY <1>1, <1>2, <1>3, MoveInv

\* A session goes back to waiting or is gone: nothing depends on it.
LEMMA RestIs ==
    ASSUME IInv, NEW k \in Sessions, NEW r, r \in {Idle(k), NoSession},
           r = Idle(k) => sessions[k].step # "free" /\ k \in deployment.sessions
    PROVE  /\ r \in Session /\ Placed(deployment, k, r) /\ Filed(r.snap)
           /\ r.grants = {} /\ Attends(k, r) /\ Carries(r)
           /\ r.step \notin {"put", "restore", "stamp"}
<1>1. CASE r = NoSession
  BY <1>1, NoSessionIs, DefaultSnapshotIs DEF Placed, Attends, Carries
<1>2. CASE r = Idle(k)
  <2>1. /\ r \in Session /\ r.step = "idle" /\ r.grants = {} /\ r.snap = DefaultSnapshot
        /\ r.at = sessions[k].at /\ r.worker = sessions[k].worker
    BY <1>2, IdleIs DEF IInv
  <2>2. r.at \in deployment.nodes /\ r.worker \in Workers
    BY <1>2, <2>1, SessionAt
  <2> QED BY <1>2, <2>1, <2>2, DefaultSnapshotIs DEF Placed, Attends, Carries
<1> QED BY <1>1, <1>2

\* What Finish leaves is one of the two.
LEMMA FinishIs ==
    ASSUME NEW k, Finish(k)
    PROVE  \E r : r \in {Idle(k), NoSession} /\ Become(k, r)
BY DEF Finish

\* A worker connects, or registers again.
LEMMA RegisterInv ==
    ASSUME IInv, NEW k \in deployment.sessions, deployment' = deployment,
           NEW c \in deployment.nodes, NEW w \in Workers, Register(k, c, w)
    PROVE  IInv'
<1>1. PICK n : n = NoSession
  OBVIOUS
<1>2. PICK r : r = [n EXCEPT !.step = "idle", !.at = c, !.worker = w]
  OBVIOUS
<1>3. c \in Controls /\ k \in Sessions
  BY DeploymentIs DEF IInv
<1>4. /\ n \in Session /\ n.grants = {} /\ n.snap = DefaultSnapshot
  BY <1>1, NoSessionIs
<1>5. /\ r \in Session /\ r.step = "idle" /\ r.at = c /\ r.worker = w
      /\ r.grants = {} /\ r.snap = DefaultSnapshot
  BY <1>2, <1>3, <1>4 DEF Session, Steps
<1>6. Become(k, r)
  BY <1>1, <1>2 DEF Register
<1>7. Placed(deployment, k, r) /\ Filed(r.snap) /\ Attends(k, r)' /\ Carries(r)
  BY <1>5, DefaultSnapshotIs DEF Placed, Attends, Carries
<1>8. UNCHANGED <<manager, store, synced, syncing, reign, live, won, issued, faults>>
  BY DEF Register, leadership
<1>9. /\ syncing' \in [Controls -> Sessions \cup {Nil}]
      /\ catalog' \in [Controls -> SUBSET Workers] /\ topology' \subseteq Workers
      /\ senders' \in [Controls -> SUBSET Workers]
      /\ faults' \in 0..MaxFaults
  BY <1>3, <1>8 DEF IInv, TypeOK, Register
<1> QED BY <1>5, <1>6, <1>7, <1>8, <1>9, MoveInv

\* A worker deregisters.
LEMMA DeregisterInv ==
    ASSUME IInv, NEW k \in deployment.sessions, deployment' = deployment, Deregister(k)
    PROVE  IInv'
<1>1. PICK i : i = Idle(k)
  OBVIOUS
<1>2. PICK r : r = [i EXCEPT !.step = "release"]
  OBVIOUS
<1>3. k \in Sessions /\ sessions[k].step = "idle" /\ "deregister" \in deployment.operations
  BY DeploymentIs DEF IInv, Deregister, At
<1>4. /\ i \in Session /\ i.grants = {} /\ i.snap = DefaultSnapshot
      /\ i.at = sessions[k].at /\ i.worker = sessions[k].worker
  BY <1>1, <1>3, IdleIs DEF IInv
<1>5. /\ r \in Session /\ r.step = "release" /\ r.at = sessions[k].at
      /\ r.worker = sessions[k].worker /\ r.grants = {} /\ r.snap = DefaultSnapshot
  BY <1>2, <1>4 DEF Session, Steps
<1>6. Become(k, r)
  BY <1>1, <1>2 DEF Deregister
<1>7. Placed(deployment, k, r) /\ Filed(r.snap) /\ Carries(r)
  BY <1>3, <1>5, SessionAt, DefaultSnapshotIs DEF Placed, Carries
<1>8. ~HandsOver(deployment)
  BY <1>3, Kinds
<1>9. UNCHANGED <<manager, store, synced, syncing, reign, live, won, issued, faults>>
  BY DEF Deregister, leadership
<1>10. /\ syncing' \in [Controls -> Sessions \cup {Nil}]
       /\ catalog' \in [Controls -> SUBSET Workers] /\ topology' \subseteq Workers
       /\ senders' \in [Controls -> SUBSET Workers]
       /\ faults' \in 0..MaxFaults
  BY <1>9 DEF IInv, TypeOK, Deregister
<1> QED BY <1>5, <1>6, <1>7, <1>8, <1>9, <1>10, MoveInv

\* A connection is lost.
LEMMA DisconnectInv ==
    ASSUME IInv, NEW k \in deployment.sessions, deployment' = deployment, Disconnect(k)
    PROVE  IInv'
<1>1. PICK r : r = [sessions[k] EXCEPT !.step = "dead", !.next = "gone"]
  OBVIOUS
<1>2. k \in Sessions /\ sessions[k].step = "idle" /\ "disconnect" \in deployment.operations
  BY DeploymentIs DEF IInv, Disconnect, At
<1>3. /\ r \in Session /\ r.step = "dead" /\ r.at = sessions[k].at
      /\ r.worker = sessions[k].worker /\ r.grants = sessions[k].grants
      /\ r.snap = sessions[k].snap
  BY <1>1, <1>2, SessionFields DEF Session, Steps, IInv
<1>4. Become(k, r)
  BY <1>1 DEF Disconnect
<1>5. sessions[k].grants = {}
  BY <1>2 DEF IInv, Placed
<1>6. Placed(deployment, k, r) /\ Filed(r.snap) /\ Carries(r)
  BY <1>2, <1>3, <1>5, SessionAt DEF Placed, Carries, IInv, AllFiled
<1>7. ~HandsOver(deployment)
  BY <1>2, Kinds
<1>8. UNCHANGED <<manager, store, synced, syncing, reign, live, won, issued, faults>>
  BY DEF Disconnect, leadership
<1>9. /\ syncing' \in [Controls -> Sessions \cup {Nil}]
      /\ catalog' \in [Controls -> SUBSET Workers] /\ topology' \subseteq Workers
      /\ senders' \in [Controls -> SUBSET Workers]
      /\ faults' \in 0..MaxFaults
  BY <1>8 DEF IInv, TypeOK, Disconnect
<1> QED BY <1>3, <1>4, <1>6, <1>7, <1>8, <1>9, MoveInv

\* RequestShard starts, at a leader.
LEMMA RequestShardInv ==
    ASSUME IInv, NEW k \in deployment.sessions, deployment' = deployment,
           NEW s \in Shards, RequestShard(k, s)
    PROVE  IInv'
<1>1. PICK i : i = Idle(k)
  OBVIOUS
<1>2. PICK p : p = IF deployment.raft THEN "checked" ELSE "acquire"
  OBVIOUS
<1>3. PICK r : r = [i EXCEPT !.step = p, !.shard = s]
  OBVIOUS
<1>4. k \in Sessions /\ sessions[k].step = "idle" /\ RequireLeader(sessions[k].at)
  BY DeploymentIs DEF IInv, RequestShard, At
<1>5. /\ i \in Session /\ i.grants = {} /\ i.snap = DefaultSnapshot
      /\ i.at = sessions[k].at /\ i.worker = sessions[k].worker
  BY <1>1, <1>4, IdleIs DEF IInv
<1>6. /\ r \in Session /\ r.step = p /\ r.at = sessions[k].at /\ r.shard = s
      /\ r.worker = sessions[k].worker /\ r.grants = {} /\ r.snap = DefaultSnapshot
  BY <1>2, <1>3, <1>5 DEF Session, Steps
<1>7. Become(k, r)
  BY <1>1, <1>2, <1>3 DEF RequestShard
<1>8. Placed(deployment, k, r) /\ Filed(r.snap) /\ Carries(r)
  BY <1>2, <1>4, <1>6, SessionAt, DefaultSnapshotIs DEF Placed, Carries
<1>9. HandsOver(deployment) => Attends(k, r)
  BY <1>2, <1>4, <1>6, Kinds DEF Attends, RequireLeader
<1> QED BY <1>6, <1>7, <1>8, <1>9, QuietMove DEF RequestShard

\* The epoch is read again, or the session dies.
LEMMA ReadEpochInv ==
    ASSUME IInv, NEW k \in deployment.sessions, deployment' = deployment, ReadEpoch(k)
    PROVE  IInv'
<1>0. /\ k \in Sessions /\ sessions[k].step = "checked"
      /\ UNCHANGED <<deployment, manager, store, synced, syncing, membership,
                     leadership, issued, faults>>
  BY DeploymentIs DEF IInv, ReadEpoch, At
<1>1. CASE RequireLeader(sessions[k].at)
  <2>1. PICK r : r = [sessions[k] EXCEPT !.step = "sync", !.epoch = reign[sessions[k].at]]
    OBVIOUS
  <2>2. reign[sessions[k].at] \in 0..MaxEpoch
    BY <1>0, SessionAt DEF IInv, TypeOK
  <2>3. /\ r \in Session /\ r.step = "sync" /\ r.at = sessions[k].at
        /\ r.worker = sessions[k].worker /\ r.grants = sessions[k].grants
        /\ r.snap = sessions[k].snap /\ r.epoch = reign[r.at]
    BY <1>0, <2>1, <2>2, SessionFields DEF Session, Steps, IInv
  <2>4. Become(k, r)
    BY <1>1, <2>1 DEF ReadEpoch
  <2>5. deployment.raft /\ sessions[k].grants = {}
    BY <1>0 DEF IInv, Placed
  <2>6. Placed(deployment, k, r) /\ Filed(r.snap) /\ Carries(r)
    BY <1>0, <2>3, <2>5, SessionAt DEF Placed, Carries, IInv, AllFiled
  <2>7. Attends(k, r)
    BY <1>1, <2>3, <2>5 DEF Attends, RequireLeader
  <2> QED BY <1>0, <2>3, <2>4, <2>6, <2>7, QuietMove
<1>2. CASE ~RequireLeader(sessions[k].at)
  <2>1. Become(k, NoSession)
    BY <1>2 DEF ReadEpoch
  <2>2. PICK r : r = NoSession
    OBVIOUS
  <2>3. /\ r \in Session /\ Placed(deployment, k, r) /\ Filed(r.snap)
        /\ r.grants = {} /\ Attends(k, r) /\ Carries(r)
    BY <1>0, <2>2, RestIs, NoSessionIs, IdleIs DEF IInv
  <2> QED BY <1>0, <2>1, <2>2, <2>3, QuietMove
<1> QED BY <1>1, <1>2

\* FenceWrite starts, at a leader.
LEMMA FenceWriteInv ==
    ASSUME IInv, NEW k \in deployment.sessions, deployment' = deployment, FenceWrite(k)
    PROVE  IInv'
<1>1. PICK i : i = Idle(k)
  OBVIOUS
<1>2. PICK e : e = reign[sessions[k].at]
  OBVIOUS
<1>3. PICK r : r = [i EXCEPT !.step = "sync", !.epoch = e]
  OBVIOUS
<1>4. /\ k \in Sessions /\ sessions[k].step = "idle"
      /\ deployment.raft /\ RequireLeader(sessions[k].at)
  BY DeploymentIs DEF IInv, FenceWrite, At
<1>5. /\ i \in Session /\ i.grants = {} /\ i.snap = DefaultSnapshot
      /\ i.at = sessions[k].at /\ i.worker = sessions[k].worker
  BY <1>1, <1>4, IdleIs DEF IInv
<1>6. e \in 0..MaxEpoch
  BY <1>2, <1>4, SessionAt DEF IInv, TypeOK
<1>7. /\ r \in Session /\ r.step = "sync" /\ r.at = sessions[k].at /\ r.epoch = e
      /\ r.worker = sessions[k].worker /\ r.grants = {} /\ r.snap = DefaultSnapshot
  BY <1>3, <1>5, <1>6 DEF Session, Steps
<1>8. Become(k, r)
  BY <1>1, <1>2, <1>3 DEF FenceWrite
<1>9. Placed(deployment, k, r) /\ Filed(r.snap) /\ Carries(r)
  BY <1>4, <1>7, SessionAt, DefaultSnapshotIs DEF Placed, Carries
<1>10. Attends(k, r)
  BY <1>2, <1>4, <1>7 DEF Attends, RequireLeader
<1> QED BY <1>7, <1>8, <1>9, <1>10, QuietMove DEF FenceWrite

\* A workload is to be deployed.
LEMMA DeployWorkloadInv ==
    ASSUME IInv, NEW k \in deployment.sessions, deployment' = deployment,
           NEW shards \in SUBSET Shards, DeployWorkload(k, shards)
    PROVE  IInv'
<1>1. PICK i : i = Idle(k)
  OBVIOUS
<1>2. PICK t : t = catalog[sessions[k].at]
  OBVIOUS
<1>3. PICK r : r = [i EXCEPT !.step = "deploy", !.todo = shards, !.targets = t]
  OBVIOUS
<1>4. k \in Sessions /\ sessions[k].step = "idle" /\ "deploy" \in deployment.operations
  BY DeploymentIs DEF IInv, DeployWorkload, At
<1>5. /\ i \in Session /\ i.grants = {} /\ i.snap = DefaultSnapshot
      /\ i.at = sessions[k].at /\ i.worker = sessions[k].worker
  BY <1>1, <1>4, IdleIs DEF IInv
<1>6. t \subseteq Workers
  BY <1>2, <1>4, SessionAt DEF IInv, TypeOK
<1>7. /\ r \in Session /\ r.step = "deploy" /\ r.at = sessions[k].at
      /\ r.worker = sessions[k].worker /\ r.grants = {} /\ r.snap = DefaultSnapshot
  BY <1>3, <1>5, <1>6 DEF Session, Steps
<1>8. Become(k, r)
  BY <1>1, <1>2, <1>3 DEF DeployWorkload
<1>9. Placed(deployment, k, r) /\ Filed(r.snap) /\ Carries(r)
  BY <1>4, <1>7, SessionAt, DefaultSnapshotIs DEF Placed, Carries
<1>10. ~HandsOver(deployment)
  BY <1>4, Kinds
<1> QED BY <1>7, <1>8, <1>9, <1>10, QuietMove DEF DeployWorkload

\* A lease of a draining worker is read.
LEMMA DrainShardInv ==
    ASSUME IInv, NEW k \in deployment.sessions, deployment' = deployment,
           NEW s \in Shards, NEW w \in Workers, DrainShard(k, s, w)
    PROVE  IInv'
<1>1. PICK i : i = Idle(k)
  OBVIOUS
<1>2. k \in Sessions /\ sessions[k].step = "idle" /\ "drain" \in deployment.operations
  BY DeploymentIs DEF IInv, DrainShard, At
<1>3. PICK m \in Snapshot : m = manager[sessions[k].at] /\ sessions[k].at \in deployment.nodes
  BY <1>2, SessionAt
<1>4. /\ i \in Session /\ i.grants = {} /\ i.snap = DefaultSnapshot
      /\ i.at = sessions[k].at /\ i.worker = sessions[k].worker
  BY <1>1, <1>2, IdleIs DEF IInv
<1>5. ~HandsOver(deployment) /\ ~RequestsOnly(deployment) /\ ~Stored(deployment)
  BY <1>2, Kinds
<1>6. CASE Become(k, [i EXCEPT !.step = "drain", !.shard = s, !.targets = {w}])
  <2>1. PICK r : r = [i EXCEPT !.step = "drain", !.shard = s, !.targets = {w}]
    OBVIOUS
  <2>2. /\ r \in Session /\ r.step = "drain" /\ r.at = sessions[k].at /\ r.shard = s
        /\ r.worker = sessions[k].worker /\ r.grants = {} /\ r.snap = DefaultSnapshot
    BY <1>4, <2>1 DEF Session, Steps
  <2>3. Placed(deployment, k, r) /\ Filed(r.snap)
    BY <1>2, <2>2, SessionAt, DefaultSnapshotIs DEF Placed
  <2>4. Become(k, r)
    BY <1>6, <2>1
  <2> QED BY <1>5, <2>2, <2>3, <2>4, QuietMove DEF DrainShard
<1>7. CASE s \in HeldBy(m, w) /\ Become(k, [i EXCEPT !.step = "announce", !.grants = {m.leases[s]}])
  <2>1. PICK l : l = m.leases[s]
    OBVIOUS
  <2>2. l \in Lease /\ l \in Held(m)
    BY <1>7, <2>1, SnapshotFields DEF HeldBy, Held
  <2>3. PICK r : r = [i EXCEPT !.step = "announce", !.grants = {l}]
    OBVIOUS
  <2>4. /\ r \in Session /\ r.step = "announce" /\ r.at = sessions[k].at
        /\ r.worker = sessions[k].worker /\ r.grants = {l} /\ r.snap = DefaultSnapshot
    BY <1>4, <2>2, <2>3 DEF Session, Steps
  <2>5. Placed(deployment, k, r) /\ Filed(r.snap)
    BY <1>2, <2>4, SessionAt, DefaultSnapshotIs DEF Placed
  <2>6. Become(k, r)
    BY <1>7, <2>1, <2>3
  <2>7. /\ ~RequestsOnly(deployment) /\ sessions[k].at \in deployment.nodes
        /\ r.grants \subseteq sessions[k].grants \cup Held(manager[sessions[k].at])
    BY <1>3, <1>5, <2>2, <2>4
  <2>8. UNCHANGED <<deployment, manager, store, synced, syncing, catalog, topology, senders,
                    reign, live, won, issued, faults>>
    BY DEF DrainShard, membership, leadership
  <2>9. /\ syncing' \in [Controls -> Sessions \cup {Nil}]
        /\ catalog' \in [Controls -> SUBSET Workers] /\ topology' \subseteq Workers
        /\ senders' \in [Controls -> SUBSET Workers]
        /\ faults' \in 0..MaxFaults
    BY <2>8 DEF IInv, TypeOK
  <2> QED BY <1>5, <2>4, <2>5, <2>6, <2>7, <2>8, <2>9, MoveInv
<1> QED BY <1>1, <1>3, <1>6, <1>7 DEF DrainShard

\* The manager's state is taken to be persisted.
LEMMA TakeSnapshotInv ==
    ASSUME IInv, NEW k \in deployment.sessions, deployment' = deployment, TakeSnapshot(k)
    PROVE  IInv'
<1>1. k \in Sessions /\ sessions[k].step = "snapshot"
  BY DeploymentIs DEF IInv, TakeSnapshot, At
<1>2. PICK m \in Snapshot : m = manager[sessions[k].at] /\ Filed(m)
  BY <1>1, SessionAt
<1>3. PICK r : r = [sessions[k] EXCEPT !.step = "put", !.snap = m]
  OBVIOUS
<1>4. /\ r \in Session /\ r.step = "put" /\ r.at = sessions[k].at
      /\ r.worker = sessions[k].worker /\ r.grants = sessions[k].grants /\ r.snap = m
  BY <1>1, <1>3, SessionFields DEF Session, Steps, IInv
<1>5. Become(k, r)
  BY <1>2, <1>3 DEF TakeSnapshot
<1>6. Placed(deployment, k, r) /\ Filed(r.snap) /\ Carries(r)
  BY <1>1, <1>2, <1>4, SessionAt DEF Placed, Carries
<1>7. HandsOver(deployment) => Attends(k, r)
  BY <1>1, <1>4 DEF Attends, IInv, InOrder
<1> QED BY <1>4, <1>5, <1>6, <1>7, QuietMove DEF TakeSnapshot

\* A PUT fails.
LEMMA PutFailsInv ==
    ASSUME IInv, NEW k \in deployment.sessions, deployment' = deployment, PutFails(k)
    PROVE  IInv'
<1>1. k \in Sessions
  BY DeploymentIs DEF IInv
<1>2. PICK r : r = NoSession
  OBVIOUS
<1>3. /\ r \in Session /\ Placed(deployment, k, r) /\ Filed(r.snap)
      /\ r.grants = {} /\ r.step = "free" /\ Carries(r)
  BY <1>1, <1>2, RestIs, NoSessionIs, IdleIs DEF IInv
<1>4. Attends(k, r)'
  BY <1>3 DEF Attends
<1>5. /\ Become(k, r)
      /\ UNCHANGED <<manager, store, synced, syncing, catalog, topology, senders,
                     reign, live, won, issued>>
  BY <1>2 DEF PutFails, membership, leadership
<1>6. faults' \in 0..MaxFaults
  BY Constants DEF PutFails, CanFail, Fail, IInv, TypeOK
<1>7. /\ syncing' \in [Controls -> Sessions \cup {Nil}]
      /\ catalog' \in [Controls -> SUBSET Workers] /\ topology' \subseteq Workers
      /\ senders' \in [Controls -> SUBSET Workers]
  BY <1>5 DEF IInv, TypeOK
<1> QED BY <1>3, <1>4, <1>5, <1>6, <1>7, MoveInv

\* A synced session goes on.
LEMMA AfterSyncIs ==
    ASSUME IInv, NEW k \in deployment.sessions, sessions[k].step \in {"sync", "stamp"},
           NEW r, r = AfterSync(k)
    PROVE  /\ r \in Session /\ Placed(deployment, k, r) /\ Filed(r.snap)
           /\ r.grants = {} /\ r.step \in {"idle", "acquire"} /\ Carries(r)
           /\ r.step = "acquire" => r.at = sessions[k].at
<1>0. k \in Sessions
  BY DeploymentIs DEF IInv
<1>1. CASE sessions[k].shard = Nil
  <2>1. r = Idle(k) /\ sessions[k].step # "free" /\ r.step = "idle"
    BY <1>0, <1>1, IdleIs DEF AfterSync, IInv
  <2> QED BY <1>0, <2>1, RestIs
<1>2. CASE sessions[k].shard # Nil
  <2>1. r = [sessions[k] EXCEPT !.step = "acquire", !.snap = DefaultSnapshot]
    BY <1>2 DEF AfterSync
  <2>2. sessions[k].shard \in Shards /\ sessions[k].grants = {}
    BY <1>0, <1>2, SessionFields DEF IInv, Placed
  <2>3. /\ r \in Session /\ r.step = "acquire" /\ r.at = sessions[k].at
        /\ r.shard = sessions[k].shard
        /\ r.worker = sessions[k].worker /\ r.grants = {} /\ r.snap = DefaultSnapshot
    BY <1>0, <2>1, <2>2, SessionFields, DefaultSnapshotIs DEF Session, Steps, IInv
  <2> QED BY <1>0, <2>2, <2>3, SessionAt, DefaultSnapshotIs DEF Placed, Carries
<1> QED BY <1>1, <1>2

\* A session takes the mutex, and loads the snapshot unless that was done.
LEMMA SyncInv ==
    ASSUME IInv, NEW k \in deployment.sessions, deployment' = deployment, Sync(k)
    PROVE  IInv'
<1>0. /\ k \in Sessions /\ sessions[k].step = "sync"
      /\ syncing[sessions[k].at] = Nil
      /\ UNCHANGED <<manager, store, synced, catalog, topology, senders,
                     reign, live, won, issued>>
  BY DeploymentIs DEF IInv, Sync, At, membership, leadership
<1>1. PICK c \in Controls : c = sessions[k].at
  BY <1>0, SessionAt
<1>2. /\ catalog' \in [Controls -> SUBSET Workers] /\ topology' \subseteq Workers
      /\ senders' \in [Controls -> SUBSET Workers]
  BY <1>0 DEF IInv, TypeOK
<1>3. HandsOver(deployment) => reign[c] # 0 /\ sessions[k].epoch = reign[c]
  BY <1>0, <1>1 DEF IInv, InOrder, Attends
<1>4. CASE synced[c] = sessions[k].epoch
  <2>1. PICK r : r = AfterSync(k)
    OBVIOUS
  <2>2. /\ Become(k, r) /\ UNCHANGED <<syncing, faults>>
    BY <1>1, <1>4, <2>1 DEF Sync, SyncedFor
  <2>3. /\ r \in Session /\ Placed(deployment, k, r) /\ Filed(r.snap)
        /\ r.grants = {} /\ r.step \in {"idle", "acquire"} /\ Carries(r)
        /\ r.step = "acquire" => r.at = sessions[k].at
    BY <1>0, <2>1, AfterSyncIs
  <2>4. HandsOver(deployment) => Attends(k, r)'
    BY <1>0, <1>1, <1>3, <1>4, <2>3 DEF Attends
  <2>5. syncing' \in [Controls -> Sessions \cup {Nil}] /\ faults' \in 0..MaxFaults
    BY <2>2 DEF IInv, TypeOK
  <2> QED BY <1>0, <1>2, <2>2, <2>3, <2>4, <2>5, MoveInv
<1>5. CASE synced[c] # sessions[k].epoch
  <2>1. PICK l \in Loadable :
           /\ Become(k, [sessions[k] EXCEPT !.step = "restore", !.snap = l])
           /\ syncing' = [syncing EXCEPT ![c] = k]
           /\ faults' = FaultsAfterLoad(l)
    BY <1>1, <1>5 DEF Sync, SyncedFor
  <2>2. PICK r : r = [sessions[k] EXCEPT !.step = "restore", !.snap = l]
    OBVIOUS
  <2>3. l \in Snapshot /\ Filed(l)
    BY DefaultSnapshotIs DEF Loadable, IInv, TypeOK, AllFiled
  <2>4. /\ r \in Session /\ r.step = "restore" /\ r.at = c /\ r.snap = l
        /\ r.worker = sessions[k].worker /\ r.grants = sessions[k].grants
        /\ r.epoch = sessions[k].epoch
    <3>1. PICK b \in Session : b = sessions[k]
      BY <1>0, SessionFields DEF IInv
    <3>2. r = [b EXCEPT !.step = "restore", !.snap = l]
      BY <2>2, <3>1
    <3> QED BY <1>1, <2>3, <3>1, <3>2 DEF Session, Steps
  <2>5. deployment.raft /\ sessions[k].grants = {}
    BY <1>0 DEF IInv, Placed
  <2>6. Placed(deployment, k, r) /\ Filed(r.snap)
    BY <1>0, <1>1, <2>3, <2>4, <2>5, SessionAt DEF Placed
  <2>7. Stored(deployment) => Carries(r)
    <3>1. Stored(deployment) => l = store
      BY Kinds DEF Loadable, CanFail
    <3> QED BY <2>4, <3>1 DEF Carries
  <2>8. /\ syncing' \in [Controls -> Sessions \cup {Nil}] /\ syncing'[c] = k
        /\ \A d \in Controls : syncing[d] # Nil => syncing'[d] = syncing[d]
    BY <1>0, <1>1, <2>1 DEF IInv, TypeOK
  <2>9. HandsOver(deployment) => Attends(k, r)'
    BY <1>0, <1>3, <1>5, <2>4, <2>8 DEF Attends
  <2>10. faults' \in 0..MaxFaults
    BY <2>1, Constants DEF FaultsAfterLoad, Loadable, CanFail, IInv, TypeOK
  <2>11. Become(k, r)
    BY <2>1, <2>2
  <2> QED BY <1>0, <1>2, <2>4, <2>6, <2>7, <2>8, <2>9, <2>10, <2>11, MoveInv
<1> QED BY <1>4, <1>5

\* A session that goes on to a snapshot, with the grants it will send.
Snapping(k, G) == [Idle(k) EXCEPT !.step = "snapshot", !.grants = G]

\* It is typed and carries no snapshot yet.
LEMMA ToSnapshot ==
    ASSUME IInv, NEW k \in deployment.sessions, sessions[k].step # "free",
           NEW G, G \subseteq Lease
    PROVE  /\ Snapping(k, G) \in Session /\ Placed(deployment, k, Snapping(k, G))
           /\ Filed(Snapping(k, G).snap) /\ Snapping(k, G).grants = G
           /\ Snapping(k, G).step = "snapshot" /\ Snapping(k, G).at = sessions[k].at
<1>0. k \in Sessions
  BY DeploymentIs DEF IInv
<1>1. PICK i : i = Idle(k)
  OBVIOUS
<1>2. /\ i \in Session /\ i.grants = {} /\ i.snap = DefaultSnapshot
      /\ i.at = sessions[k].at /\ i.worker = sessions[k].worker
  BY <1>0, <1>1, IdleIs DEF IInv
<1>3. PICK r : r = Snapping(k, G)
  OBVIOUS
<1>4. r = [i EXCEPT !.step = "snapshot", !.grants = G]
  BY <1>1, <1>3 DEF Snapping
<1>5. /\ r \in Session /\ r.step = "snapshot" /\ r.at = sessions[k].at
      /\ r.worker = sessions[k].worker /\ r.grants = G /\ r.snap = DefaultSnapshot
  BY <1>2, <1>4 DEF Session, Steps
<1>6. Placed(deployment, k, r) /\ Filed(r.snap)
  BY <1>0, <1>5, SessionAt, DefaultSnapshotIs DEF Placed
<1> QED BY <1>3, <1>5, <1>6

\* The same without grants.
LEMMA ToSnapshotOnly ==
    ASSUME TypeOK, NEW k \in Sessions
    PROVE  [Idle(k) EXCEPT !.step = "snapshot"] = Snapping(k, {})
<1>1. PICK i \in Session : i = Idle(k) /\ i.grants = {}
  BY IdleIs
<1>2. [i EXCEPT !.step = "snapshot"] = [i EXCEPT !.step = "snapshot", !.grants = {}]
  BY <1>1 DEF Session
<1> QED BY <1>1, <1>2 DEF Snapping

\* A deregistered worker's leases are released.
LEMMA ReleaseStepInv ==
    ASSUME IInv, NEW k \in deployment.sessions, deployment' = deployment, Release(k)
    PROVE  IInv'
<1>1. k \in Sessions /\ sessions[k].step = "release" /\ "deregister" \in deployment.operations
  BY DeploymentIs DEF IInv, Release, At, Placed
<1>2. ~RequestsOnly(deployment)
  BY <1>1, Kinds
<1>3. PICK r : /\ Become(k, r)
               /\ r = Idle(k) \/ r = [Idle(k) EXCEPT !.step = "snapshot"]
  BY DEF Release
<1>4. /\ r \in Session /\ Placed(deployment, k, r) /\ Filed(r.snap)
      /\ r.grants = {} /\ r.step \notin {"put", "restore", "stamp"}
  <2>1. CASE r = Idle(k)
    BY <1>1, <2>1, RestIs
  <2>2. CASE r = [Idle(k) EXCEPT !.step = "snapshot"]
    <3>1. r = Snapping(k, {})
      BY <1>1, <2>2, ToSnapshotOnly DEF IInv
    <3>2. sessions[k].step # "free"
      BY <1>1
    <3> QED BY <3>1, <3>2, ToSnapshot
  <2> QED BY <1>3, <2>1, <2>2
<1>5. /\ manager' = [manager EXCEPT ![sessions[k].at] =
            ReleaseWorker(manager[sessions[k].at], sessions[k].worker)]
      /\ UNCHANGED <<store, synced, syncing, catalog, topology, senders,
                     reign, live, won, faults, issued>>
  BY DEF Release, membership, leadership
<1> QED BY <1>1, <1>2, <1>3, <1>4, <1>5, ReleaseInv

\* A lost worker's leases are released.
LEMMA OnWorkerDeadInv ==
    ASSUME IInv, NEW k \in deployment.sessions, deployment' = deployment, OnWorkerDead(k)
    PROVE  IInv'
<1>1. k \in Sessions /\ sessions[k].step = "dead" /\ "disconnect" \in deployment.operations
  BY DeploymentIs DEF IInv, OnWorkerDead, At, Placed
<1>2. ~RequestsOnly(deployment)
  BY <1>1, Kinds
<1>3. /\ manager' = [manager EXCEPT ![sessions[k].at] =
            ReleaseWorker(manager[sessions[k].at], sessions[k].worker)]
      /\ UNCHANGED <<store, synced, syncing, catalog, topology, senders,
                     reign, live, won, faults, issued>>
  BY DEF OnWorkerDead, membership, leadership
<1>4. PICK f : f = HeldBy(manager[sessions[k].at], sessions[k].worker)
  OBVIOUS
<1>5. PICK t \in SUBSET (catalog[sessions[k].at] \ {sessions[k].worker}) :
         \/ Finish(k)
         \/ Become(k, [sessions[k] EXCEPT !.step = "reassign", !.todo = f, !.targets = t])
  BY <1>4 DEF OnWorkerDead
<1>6. CASE Finish(k)
  <2>1. PICK r : r \in {Idle(k), NoSession} /\ Become(k, r)
    BY <1>6, FinishIs
  <2>2. /\ r \in Session /\ Placed(deployment, k, r) /\ Filed(r.snap)
        /\ r.grants = {} /\ r.step \notin {"put", "restore", "stamp"}
    BY <1>1, <2>1, RestIs
  <2> QED BY <1>1, <1>2, <1>3, <2>1, <2>2, ReleaseInv
<1>7. CASE Become(k, [sessions[k] EXCEPT !.step = "reassign", !.todo = f, !.targets = t])
  <2>1. PICK b \in Session : b = sessions[k]
    BY <1>1, SessionFields DEF IInv
  <2>2. PICK r : r = [b EXCEPT !.step = "reassign", !.todo = f, !.targets = t]
    OBVIOUS
  <2>3. f \subseteq Shards /\ t \subseteq Workers
    BY <1>1, <1>4, <1>5, SessionAt DEF HeldBy, IInv, TypeOK
  <2>4. /\ r \in Session /\ r.step = "reassign" /\ r.at = b.at /\ r.worker = b.worker
        /\ r.grants = b.grants /\ r.snap = b.snap
    BY <2>2, <2>3 DEF Session, Steps
  <2>5. Placed(deployment, k, r) /\ Filed(r.snap)
    BY <1>1, <2>1, <2>4, SessionAt DEF Placed, IInv, AllFiled
  <2>6. Become(k, r)
    BY <1>7, <2>1, <2>2
  <2> QED BY <1>1, <1>2, <1>3, <2>1, <2>4, <2>5, <2>6, ReleaseInv
<1> QED BY <1>5, <1>6, <1>7

\* A freed shard is given to a survivor, or its new holder told again.
LEMMA ReassignInv ==
    ASSUME IInv, NEW k \in deployment.sessions, deployment' = deployment, Reassign(k)
    PROVE  IInv'
<1>1. /\ k \in Sessions /\ sessions[k].step = "reassign"
      /\ "disconnect" \in deployment.operations
      /\ UNCHANGED <<deployment, store, synced, syncing, membership, leadership, issued, faults>>
      /\ UNCHANGED <<store, synced, syncing, catalog, topology, senders,
                     reign, live, won, issued, faults>>
  BY DeploymentIs DEF IInv, Reassign, At, Placed, membership, leadership
<1>2. ~RequestsOnly(deployment) /\ ~HandsOver(deployment)
  BY <1>1, Kinds
<1>3. PICK m \in Snapshot :
         /\ m = manager[sessions[k].at] /\ Filed(m)
         /\ sessions[k].at \in deployment.nodes
  BY <1>1, SessionAt
<1>3a. PICK s \in sessions[k].todo, w \in sessions[k].targets : \E l :
         /\ Become(k, [sessions[k] EXCEPT
                !.todo = sessions[k].todo \ {s}, !.grants = sessions[k].grants \cup {l},
                !.step = IF sessions[k].todo = {s} THEN "snapshot" ELSE sessions[k].step])
         /\ \/ HeldByOther(m, s, w) /\ l = m.leases[s] /\ manager' = manager
            \/ /\ CanMint(m) /\ l = NewLease(m, s, w)
               /\ manager' = [manager EXCEPT ![sessions[k].at] = Granted(m, s, w)]
  BY <1>3 DEF Reassign
<1>4. PICK l :
         /\ Become(k, [sessions[k] EXCEPT
                !.todo = sessions[k].todo \ {s}, !.grants = sessions[k].grants \cup {l},
                !.step = IF sessions[k].todo = {s} THEN "snapshot" ELSE sessions[k].step])
         /\ \/ HeldByOther(m, s, w) /\ l = m.leases[s] /\ manager' = manager
            \/ /\ CanMint(m) /\ l = NewLease(m, s, w)
               /\ manager' = [manager EXCEPT ![sessions[k].at] = Granted(m, s, w)]
  BY <1>3a
<1>5. PICK b \in Session : b = sessions[k]
  BY <1>1, SessionFields DEF IInv
<1>6. s \in Shards /\ w \in Workers
  BY <1>1, SessionFields DEF IInv
<1>7. l \in Lease
  <2>1. CASE HeldByOther(m, s, w) /\ l = m.leases[s]
    BY <1>6, <2>1, SnapshotFields DEF HeldByOther
  <2>2. CASE CanMint(m) /\ l = NewLease(m, s, w)
    BY <1>6, <2>2, GrantedIs
  <2> QED BY <1>4, <2>1, <2>2
<1>8. PICK t, p : /\ t = b.todo \ {s}
                  /\ p = IF b.todo = {s} THEN "snapshot" ELSE b.step
  OBVIOUS
<1>9. PICK G : G = b.grants \cup {l}
  OBVIOUS
<1>10. PICK r : r = [b EXCEPT !.todo = t, !.grants = G, !.step = p]
  OBVIOUS
<1>11. Become(k, r)
  BY <1>4, <1>5, <1>8, <1>9, <1>10
<1>12. p \in {"snapshot", "reassign"} /\ t \subseteq Shards /\ G \subseteq Lease
  BY <1>1, <1>5, <1>7, <1>8, <1>9 DEF Session
<1>13. /\ r \in Session /\ r.step = p /\ r.at = b.at /\ r.worker = b.worker
       /\ r.grants = G /\ r.snap = b.snap
  BY <1>10, <1>12 DEF Session, Steps
<1>14. Placed(deployment, k, r) /\ Filed(r.snap)
  BY <1>1, <1>5, <1>12, <1>13, SessionAt DEF Placed, IInv, AllFiled
<1>15. CASE HeldByOther(m, s, w) /\ l = m.leases[s] /\ manager' = manager
  <2>1. l \in Held(m)
    BY <1>6, <1>15 DEF Held, HeldByOther
  <2>2. r.grants \subseteq sessions[k].grants \cup Held(manager[sessions[k].at])
    BY <1>3, <1>5, <1>9, <1>13, <2>1
  <2>3. Carries(r)
    BY <1>12, <1>13, CarriesNothing
  <2>4. /\ syncing' \in [Controls -> Sessions \cup {Nil}]
        /\ catalog' \in [Controls -> SUBSET Workers] /\ topology' \subseteq Workers
        /\ senders' \in [Controls -> SUBSET Workers]
        /\ faults' \in 0..MaxFaults
    BY <1>1 DEF IInv, TypeOK
  <2> QED BY <1>1, <1>2, <1>3, <1>11, <1>13, <1>14, <1>15, <2>2, <2>3, <2>4, MoveInv
<1>16. CASE /\ CanMint(m) /\ l = NewLease(m, s, w)
            /\ manager' = [manager EXCEPT ![sessions[k].at] = Granted(m, s, w)]
  <2>1. r.grants \subseteq sessions[k].grants \cup {NewLease(m, s, w)}
    BY <1>5, <1>9, <1>13, <1>16
  <2>2. r.step \notin {"put", "restore", "stamp"} /\ sessions[k].step # "free"
    BY <1>1, <1>12, <1>13
  <2> QED BY <1>1, <1>2, <1>3, <1>6, <1>11, <1>13, <1>14, <1>16, <2>1, <2>2, GrantInv
<1> QED BY <1>4, <1>15, <1>16

\* acquire: a lease for the worker that asked, or none.
LEMMA AcquireInv ==
    ASSUME IInv, NEW k \in deployment.sessions, deployment' = deployment, Acquire(k)
    PROVE  IInv'
<1>1. /\ k \in Sessions /\ sessions[k].step = "acquire"
      /\ UNCHANGED <<deployment, store, synced, syncing, membership, leadership, issued, faults>>
      /\ UNCHANGED <<store, synced, syncing, catalog, topology, senders,
                     reign, live, won, issued, faults>>
  BY DeploymentIs DEF IInv, Acquire, At, membership, leadership
<1>2. PICK m \in Snapshot : m = manager[sessions[k].at]
  BY <1>1, SessionAt
<1>3. PICK s \in Shards, w \in Workers : s = sessions[k].shard /\ w = sessions[k].worker
  BY <1>1, SessionAt DEF IInv, Placed
<1>4. CASE HeldByOther(m, s, w)
  <2>1. Become(k, Idle(k)) /\ manager' = manager
    BY <1>2, <1>3, <1>4 DEF Acquire
  <2>2. PICK r : r = Idle(k)
    OBVIOUS
  <2>3. /\ r \in Session /\ Placed(deployment, k, r) /\ Filed(r.snap)
        /\ r.grants = {} /\ Attends(k, r) /\ Carries(r)
    BY <1>1, <2>2, RestIs
  <2> QED BY <1>1, <2>1, <2>2, <2>3, QuietMove
<1>5. CASE ~HeldByOther(m, s, w)
  <2>1. /\ CanMint(m)
        /\ manager' = [manager EXCEPT ![sessions[k].at] = Granted(m, s, w)]
        /\ Become(k, [Idle(k) EXCEPT !.step = "snapshot", !.grants = {NewLease(m, s, w)}])
    BY <1>2, <1>3, <1>5 DEF Acquire
  <2>2. PICK G : G = {NewLease(m, s, w)} /\ G \subseteq Lease
    <3>1. NewLease(m, s, w) \in Lease
      BY <2>1, GrantedIs
    <3> QED BY <3>1
  <2>3. PICK r : r = Snapping(k, G)
    OBVIOUS
  <2>4. /\ r \in Session /\ Placed(deployment, k, r) /\ Filed(r.snap)
        /\ r.grants = G /\ r.step = "snapshot" /\ r.at = sessions[k].at
    <3>1. sessions[k].step # "free"
      BY <1>1
    <3> QED BY <2>2, <2>3, <3>1, ToSnapshot
  <2>5. HandsOver(deployment) => Attends(k, r)
    BY <1>1, <2>4 DEF IInv, InOrder, Attends
  <2>6. Become(k, r)
    BY <2>1, <2>2, <2>3 DEF Snapping
  <2>7. r.grants \subseteq sessions[k].grants \cup {NewLease(m, s, w)}
    BY <2>2, <2>4
  <2> QED BY <1>1, <1>2, <2>1, <2>4, <2>5, <2>6, <2>7, GrantInv
<1> QED BY <1>4, <1>5

\* A shard of a workload is taken by force.
LEMMA ForceAcquireInv ==
    ASSUME IInv, NEW k \in deployment.sessions, deployment' = deployment, ForceAcquire(k)
    PROVE  IInv'
<1>1. /\ k \in Sessions /\ sessions[k].step = "deploy"
      /\ "deploy" \in deployment.operations
      /\ UNCHANGED <<store, synced, syncing, catalog, topology, senders,
                     reign, live, won, faults>>
  BY DeploymentIs DEF IInv, ForceAcquire, At, Placed, membership, leadership
<1>2. ~HandsOver(deployment)
  BY <1>1, Kinds
<1>3. PICK m \in Snapshot : m = manager[sessions[k].at] /\ CanMint(m)
  BY <1>1, SessionAt DEF ForceAcquire
<1>4a. PICK s \in sessions[k].todo, w \in sessions[k].targets : \E G :
         /\ G = sessions[k].grants \cup {NewLease(m, s, w)}
         /\ manager' = [manager EXCEPT ![sessions[k].at] = Granted(m, s, w)]
         /\ \/ issued' = issued \cup G
               /\ Become(k, [Idle(k) EXCEPT !.step = "snapshot"])
            \/ issued' = issued
               /\ Become(k, [sessions[k] EXCEPT
                     !.todo = sessions[k].todo \ {s},
                     !.targets = sessions[k].targets \ {w}, !.grants = G])
  BY <1>3 DEF ForceAcquire
<1>4. PICK G :
         /\ G = sessions[k].grants \cup {NewLease(m, s, w)}
         /\ manager' = [manager EXCEPT ![sessions[k].at] = Granted(m, s, w)]
         /\ \/ issued' = issued \cup G
               /\ Become(k, [Idle(k) EXCEPT !.step = "snapshot"])
            \/ issued' = issued
               /\ Become(k, [sessions[k] EXCEPT
                     !.todo = sessions[k].todo \ {s},
                     !.targets = sessions[k].targets \ {w}, !.grants = G])
  BY <1>4a
<1>5. s \in Shards /\ w \in Workers
  BY <1>1, SessionFields DEF IInv
<1>6. G \subseteq Lease
  BY <1>1, <1>3, <1>4, <1>5, GrantedIs, SessionFields DEF IInv
<1>7. CASE issued' = issued \cup G /\ Become(k, [Idle(k) EXCEPT !.step = "snapshot"])
  <2>1. PICK r : r = [Idle(k) EXCEPT !.step = "snapshot"]
    OBVIOUS
  <2>2. r = Snapping(k, {})
    BY <1>1, <2>1, ToSnapshotOnly DEF IInv
  <2>3. /\ r \in Session /\ Placed(deployment, k, r) /\ Filed(r.snap)
        /\ r.grants = {} /\ r.step = "snapshot"
    <3>1. sessions[k].step # "free"
      BY <1>1
    <3> QED BY <2>2, <3>1, ToSnapshot
  <2>4. issued' \subseteq issued \cup sessions[k].grants \cup {NewLease(m, s, w)}
    BY <1>4, <1>7
  <2>5. /\ r.grants \subseteq sessions[k].grants \cup {NewLease(m, s, w)}
        /\ Become(k, r)
    BY <1>7, <2>1, <2>2, <2>3
  <2> QED BY <1>1, <1>2, <1>3, <1>4, <1>5, <2>3, <2>4, <2>5, GrantInv
<1>8. CASE issued' = issued
           /\ Become(k, [sessions[k] EXCEPT
                 !.todo = sessions[k].todo \ {s},
                 !.targets = sessions[k].targets \ {w}, !.grants = G])
  <2>1. PICK b \in Session : b = sessions[k]
    BY <1>1, SessionFields DEF IInv
  <2>2. PICK t, u : t = b.todo \ {s} /\ u = b.targets \ {w}
    OBVIOUS
  <2>3. PICK r : r = [b EXCEPT !.todo = t, !.targets = u, !.grants = G]
    OBVIOUS
  <2>4. t \subseteq Shards /\ u \subseteq Workers
    BY <2>2 DEF Session
  <2>5. /\ r \in Session /\ r.step = b.step /\ r.at = b.at /\ r.worker = b.worker
        /\ r.grants = G /\ r.snap = b.snap
    BY <1>6, <2>3, <2>4 DEF Session
  <2>6. Become(k, r)
    BY <1>8, <2>1, <2>2, <2>3
  <2>7. Placed(deployment, k, r) /\ Filed(r.snap)
    BY <1>1, <2>1, <2>5, SessionAt DEF Placed, IInv, AllFiled
  <2>8. r.grants \subseteq sessions[k].grants \cup {NewLease(m, s, w)}
    BY <1>4, <2>5
  <2> QED BY <1>1, <1>2, <1>3, <1>4, <1>5, <1>8, <2>1, <2>5, <2>6, <2>7, <2>8, GrantInv
<1> QED BY <1>4, <1>7, <1>8

\* A drained shard is taken by force.
LEMMA DrainTransferInv ==
    ASSUME IInv, NEW k \in deployment.sessions, deployment' = deployment, DrainTransfer(k)
    PROVE  IInv'
<1>1. /\ k \in Sessions /\ sessions[k].step = "drain"
      /\ "drain" \in deployment.operations
      /\ UNCHANGED <<store, synced, syncing, catalog, topology, senders,
                     reign, live, won, issued, faults>>
  BY DeploymentIs DEF IInv, DrainTransfer, At, Placed, membership, leadership
<1>2. ~HandsOver(deployment)
  BY <1>1, Kinds
<1>3. PICK m \in Snapshot : m = manager[sessions[k].at] /\ CanMint(m)
  BY <1>1, SessionAt DEF DrainTransfer
<1>4. PICK s \in Shards : s = sessions[k].shard
  BY <1>1 DEF IInv, Placed
<1>5. PICK w \in sessions[k].targets :
         /\ manager' = [manager EXCEPT ![sessions[k].at] = Granted(m, s, w)]
         /\ \/ Become(k, [Idle(k) EXCEPT !.step = "snapshot", !.grants = {NewLease(m, s, w)}])
            \/ Become(k, Idle(k))
  BY <1>3, <1>4 DEF DrainTransfer
<1>6. w \in Workers
  BY <1>1, SessionFields DEF IInv
<1>7. PICK r :
         /\ Become(k, r) /\ r \in Session /\ Placed(deployment, k, r) /\ Filed(r.snap)
         /\ r.grants \subseteq {NewLease(m, s, w)}
         /\ r.step \notin {"put", "restore", "stamp"}
  <2>1. CASE Become(k, Idle(k))
    <3>1. PICK r : r = Idle(k)
      OBVIOUS
    <3> QED BY <1>1, <2>1, <3>1, RestIs
  <2>2. CASE Become(k, [Idle(k) EXCEPT !.step = "snapshot", !.grants = {NewLease(m, s, w)}])
    <3>1. PICK G : G = {NewLease(m, s, w)} /\ G \subseteq Lease
      <4>1. NewLease(m, s, w) \in Lease
        BY <1>3, <1>6, GrantedIs
      <4> QED BY <4>1
    <3>2. PICK r : r = Snapping(k, G)
      OBVIOUS
    <3>3. /\ r \in Session /\ Placed(deployment, k, r) /\ Filed(r.snap)
          /\ r.grants = G /\ r.step = "snapshot"
      <4>1. sessions[k].step # "free"
        BY <1>1
      <4> QED BY <3>1, <3>2, <4>1, ToSnapshot
    <3>4. Become(k, r)
      BY <2>2, <3>1, <3>2 DEF Snapping
    <3> QED BY <3>1, <3>3, <3>4
  <2> QED BY <1>5, <2>1, <2>2
<1>8. r.grants \subseteq sessions[k].grants \cup {NewLease(m, s, w)}
  BY <1>7
<1> QED BY <1>1, <1>2, <1>3, <1>5, <1>6, <1>7, <1>8, GrantInv

\* With raft, only deployments that hand over in order promise anything.
LEMMA RaftKinds ==
    ASSUME NEW d, d.raft, Steady(d) \/ Stored(d)
    PROVE  HandsOver(d) /\ Stored(d)
BY Kinds DEF Stored

\* A leader restores what it has loaded.
LEMMA RestoreInv ==
    ASSUME IInv, NEW k \in deployment.sessions, deployment' = deployment, Restore(k)
    PROVE  IInv'
<1>1. /\ k \in Sessions /\ sessions[k].step = "restore"
      /\ UNCHANGED <<store, synced, syncing, catalog, topology, senders,
                     reign, live, won, issued, faults>>
  BY DeploymentIs DEF IInv, Restore, At, membership, leadership
<1>2. PICK c \in Controls : c = sessions[k].at /\ c \in deployment.nodes
  BY <1>1, SessionAt
<1>3. PICK m \in Snapshot : m = sessions[k].snap /\ Filed(m)
  BY <1>1, SessionFields DEF IInv, AllFiled
<1>4. PICK b \in Session : b = sessions[k]
  BY <1>1, SessionFields DEF IInv
<1>5. PICK r : r = [b EXCEPT !.step = "stamp"]
  OBVIOUS
<1>6. /\ r \in Session /\ r.step = "stamp" /\ r.at = b.at /\ r.worker = b.worker
      /\ r.grants = b.grants /\ r.snap = b.snap /\ r.epoch = b.epoch
  BY <1>5 DEF Session, Steps
<1>7. Become(k, r)
  BY <1>4, <1>5 DEF Restore
<1>8. deployment.raft /\ b.grants = {}
  BY <1>1, <1>4 DEF IInv, Placed
<1>9. Placed(deployment, k, r) /\ Filed(r.snap)
  BY <1>1, <1>3, <1>4, <1>6, <1>8, SessionAt DEF Placed
<1>10. /\ manager' \in [Controls -> Snapshot] /\ manager'[c] = m
       /\ \A d \in Controls : d # c => manager'[d] = manager[d]
  <2>1. manager' = [manager EXCEPT ![c] = m]
    BY <1>2, <1>3 DEF Restore
  <2> QED BY <2>1, ManagerFrame DEF IInv
<1>11. /\ TypeOK' /\ AllFiled'
       /\ \A j \in Sessions : sessions'[j] = IF j = k THEN r ELSE sessions[j]
       /\ \A j \in Sessions : Placed(deployment', j, sessions'[j])
  <2>1. \A d \in Controls : Filed(manager'[d])
    BY <1>3, <1>10 DEF IInv, AllFiled
  <2>2. /\ store' \in Snapshot /\ Filed(store')
        /\ synced' \in [Controls -> 0..MaxEpoch]
        /\ syncing' \in [Controls -> Sessions \cup {Nil}]
        /\ catalog' \in [Controls -> SUBSET Workers] /\ topology' \subseteq Workers
        /\ senders' \in [Controls -> SUBSET Workers]
        /\ faults' \in 0..MaxFaults /\ issued' \subseteq Lease
    BY <1>1 DEF IInv, TypeOK, AllFiled
  <2>3. UNCHANGED leadership
    BY <1>1 DEF leadership
  <2> QED BY <1>6, <1>7, <1>9, <1>10, <2>1, <2>2, <2>3, SessionFrame
<1>12. ASSUME HandsOver(deployment)
       PROVE  /\ Reigns' /\ (\A j \in Sessions : Attends(j, sessions[j])') /\ EpochTokens'
              /\ \A d \in Controls : reign[d] # 0 => synced[d] # reign[d]
  <2>1. Reigns /\ EpochTokens /\ Attends(k, sessions[k])
    BY <1>1, <1>12 DEF IInv, InOrder
  <2>2. reign[c] # 0 /\ synced[c] # reign[c]
    BY <1>1, <1>2, <2>1 DEF Attends
  <2>3. \A d \in Controls : reign[d] # 0 => d = c
    BY <2>1, <2>2 DEF Reigns
  <2>4. Reigns'
    BY <1>1, <1>10, <2>1, <2>2 DEF Reigns
  <2>5. Granting' \subseteq Granting
    <3>1. r.grants \subseteq sessions[k].grants \cup {}
      BY <1>4, <1>6
    <3>2. Granting' \subseteq Granting \cup {}
      BY <1>1, <1>11, <3>1, GrantsFrame DEF IInv
    <3> QED BY <3>2
  <2>6. EpochTokens'
    BY <1>1, <2>1, <2>2, <2>3, <2>5 DEF EpochTokens
  <2>7. ASSUME NEW j \in Sessions
        PROVE  Attends(j, sessions[j])'
    <3>1. CASE j = k
      <4>1. sessions'[j] = r
        BY <1>11, <3>1
      <4> QED BY <1>1, <1>4, <1>6, <2>1, <3>1, <4>1 DEF Attends
    <3>2. CASE j # k
      <4>1. sessions'[j] = sessions[j]
        BY <1>11, <3>2
      <4> QED BY <1>1, <1>12, <4>1, AttendsFrame
    <3> QED BY <3>1, <3>2
  <2> QED BY <2>2, <2>3, <2>4, <2>6, <2>7
<1>13. ASSUME Steady(deployment) \/ Stored(deployment),
              NEW d \in deployment.nodes, InCharge(d)'
       PROVE  Ledger(deployment, manager'[d], Granting')
  <2>1. HandsOver(deployment) /\ d \in Controls
    BY <1>8, <1>13, RaftKinds, DeploymentIs DEF IInv
  <2>2. reign[d] # 0 /\ synced[d] = reign[d]
    BY <1>1, <1>8, <1>13 DEF InCharge
  <2> QED BY <1>12, <2>1, <2>2
<1>14. ASSUME Stored(deployment)
       PROVE  /\ Ledger(deployment, store, issued)
              /\ deployment.raft => store.leaderEpoch \in won \cup {0}
              /\ \A j \in Sessions : Carries(sessions[j])'
  <2>1. ASSUME NEW j \in Sessions
        PROVE  Carries(sessions[j])'
    <3>1. CASE j = k
      <4>1. sessions'[j] = r
        BY <1>11, <3>1
      <4>2. m = store
        BY <1>1, <1>3, <1>14 DEF IInv, Backed, Carries
      <4> QED BY <1>1, <1>2, <1>4, <1>6, <1>10, <4>1, <4>2 DEF Carries
    <3>2. CASE j # k
      <4>1. sessions'[j].step = "free"
        BY <1>11, <1>14, <3>2, OnlySession
      <4> QED BY <4>1 DEF Carries
    <3> QED BY <3>1, <3>2
  <2> QED BY <1>14, <2>1 DEF IInv, Backed
<1> QED BY <1>1, <1>11, <1>12, <1>13, <1>14, Assemble

\* Where there is one session and it holds no grant, none is under way.
LEMMA NothingGranting ==
    ASSUME TypeOK', \A j \in Sessions : sessions'[j].grants = {}, issued' = issued
    PROVE  Granting' = issued
BY DEF Granting, Grants

\* A leader puts its own epoch in place of the writer's.
LEMMA SetLeaderEpochInv ==
    ASSUME IInv, NEW k \in deployment.sessions, deployment' = deployment, SetLeaderEpoch(k)
    PROVE  IInv'
<1>1. /\ k \in Sessions /\ sessions[k].step = "stamp"
      /\ UNCHANGED <<store, catalog, topology, senders, reign, live, won, issued, faults>>
  BY DeploymentIs DEF IInv, SetLeaderEpoch, At, membership, leadership
<1>2. PICK c \in Controls : c = sessions[k].at /\ c \in deployment.nodes
  BY <1>1, SessionAt
<1>3. PICK e \in 0..MaxEpoch : e = sessions[k].epoch
  BY <1>1, SessionFields DEF IInv
<1>4. PICK m \in Snapshot : m = manager[c] /\ Filed(m)
  BY <1>1, <1>2, SessionAt
<1>5. PICK g \in Snapshot : /\ g = [m EXCEPT !.leaderEpoch = e]
                            /\ g.leases = m.leases /\ g.leaderEpoch = e
  BY StampIs
<1>6. PICK r : r = AfterSync(k)
  OBVIOUS
<1>7. /\ r \in Session /\ Placed(deployment, k, r) /\ Filed(r.snap)
      /\ r.grants = {} /\ r.step \in {"idle", "acquire"}
      /\ r.step = "acquire" => r.at = c
  BY <1>1, <1>2, <1>6, AfterSyncIs
<1>8. Become(k, r) /\ deployment.raft
  BY <1>1, <1>6 DEF SetLeaderEpoch, IInv, Placed
<1>9. /\ manager' \in [Controls -> Snapshot] /\ manager'[c] = g
      /\ \A d \in Controls : d # c => manager'[d] = manager[d]
  <2>1. manager' = [manager EXCEPT ![c] = g]
    BY <1>2, <1>3, <1>4, <1>5 DEF SetLeaderEpoch
  <2> QED BY <2>1, ManagerFrame DEF IInv
<1>10. /\ synced' \in [Controls -> 0..MaxEpoch] /\ synced'[c] = e
       /\ \A d \in Controls : d # c => synced'[d] = synced[d]
       /\ syncing' \in [Controls -> Sessions \cup {Nil}]
       /\ \A d \in Controls : d # c => syncing'[d] = syncing[d]
  BY <1>2, <1>3 DEF SetLeaderEpoch, IInv, TypeOK
<1>11. /\ TypeOK' /\ AllFiled'
       /\ \A j \in Sessions : sessions'[j] = IF j = k THEN r ELSE sessions[j]
       /\ \A j \in Sessions : Placed(deployment', j, sessions'[j])
  <2>0. Filed(g)
    BY <1>4, <1>5 DEF Filed
  <2>1. \A d \in Controls : Filed(manager'[d])
    BY <1>9, <2>0 DEF IInv, AllFiled
  <2>2. /\ store' \in Snapshot /\ Filed(store')
        /\ catalog' \in [Controls -> SUBSET Workers] /\ topology' \subseteq Workers
        /\ senders' \in [Controls -> SUBSET Workers]
        /\ faults' \in 0..MaxFaults /\ issued' \subseteq Lease
    BY <1>1 DEF IInv, TypeOK, AllFiled
  <2>3. UNCHANGED leadership
    BY <1>1 DEF leadership
  <2> QED BY <1>7, <1>8, <1>9, <1>10, <2>1, <2>2, <2>3, SessionFrame
<1>12. ASSUME HandsOver(deployment)
       PROVE  /\ Reigns' /\ (\A j \in Sessions : Attends(j, sessions[j])') /\ EpochTokens'
              /\ \A d \in Controls : reign[d] # 0 => d = c
              /\ \A f \in won : f <= e
  <2>1. Reigns /\ EpochTokens /\ Attends(k, sessions[k])
    BY <1>1, <1>12 DEF IInv, InOrder
  <2>2. reign[c] # 0 /\ synced[c] # reign[c] /\ e = reign[c] /\ syncing[c] = k
    BY <1>1, <1>2, <1>3, <2>1 DEF Attends
  <2>3. /\ \A d \in Controls : reign[d] # 0 => d = c
        /\ e \in won /\ \A f \in won : f <= e
    BY <2>1, <2>2 DEF Reigns
  <2>4. Reigns'
    BY <1>1, <1>5, <1>9, <1>10, <2>1, <2>2, <2>3 DEF Reigns
  <2>5. Granting' \subseteq Granting
    <3>1. r.grants \subseteq sessions[k].grants \cup {}
      BY <1>7
    <3>2. Granting' \subseteq Granting \cup {}
      BY <1>1, <1>11, <3>1, GrantsFrame DEF IInv
    <3> QED BY <3>2
  <2>6. Fresh(g, Granting)
    <3>1. ASSUME NEW l \in Granting
          PROVE  Before(l.token, g)
      <4>1. l.token.epoch \in won /\ l.token.epoch # e
        BY <2>1, <2>2, <3>1 DEF EpochTokens
      <4>2. l.token.epoch \in Int /\ e \in Int
        BY <3>1, LeaseFields, GrantingIs, Constants DEF IInv
      <4> QED BY <1>5, <2>3, <4>1, <4>2 DEF Before
    <3> QED BY <2>1, <3>1 DEF Fresh, EpochTokens
  <2>7. EpochTokens'
    <3>1. Fresh(manager'[c], Granting')
      BY <1>9, <2>5, <2>6, FreshSubset
    <3>2. \A l \in Granting' : l.token.epoch \in won'
      BY <1>1, <2>1, <2>5 DEF EpochTokens
    <3>3. \A l, o \in Granting' : l.token = o.token => l = o
      BY <3>1 DEF Fresh
    <3> QED BY <1>1, <1>10, <2>2, <2>3, <3>1, <3>2, <3>3 DEF EpochTokens
  <2>8. ASSUME NEW j \in Sessions
        PROVE  Attends(j, sessions[j])'
    <3>1. CASE j = k
      <4>1. sessions'[j] = r
        BY <1>11, <3>1
      <4> QED BY <1>1, <1>7, <1>10, <2>2, <4>1 DEF Attends
    <3>2. CASE j # k
      <4>1. sessions'[j] = sessions[j] /\ Attends(j, sessions[j])
        BY <1>11, <1>12, <3>2 DEF IInv, InOrder
      <4>2. CASE sessions[j].step \in {"free", "idle"}
        BY <4>1, <4>2 DEF Attends
      <4>3. CASE sessions[j].step \notin {"free", "idle"}
        <5>1. sessions[j].at = c
          BY <2>3, <4>1, <4>3, SessionAt DEF Attends
        <5>2. sessions[j].step \notin {"restore", "stamp", "acquire", "snapshot", "put"}
          BY <2>2, <3>2, <4>1, <5>1 DEF Attends
        <5> QED BY <1>1, <4>1, <5>1, <5>2 DEF Attends
      <4> QED BY <4>2, <4>3
    <3> QED BY <3>1, <3>2
  <2> QED BY <2>3, <2>4, <2>7, <2>8
<1>13. ASSUME Stored(deployment)
       PROVE  /\ Ledger(deployment, store, issued)
              /\ store.leaderEpoch \in won \cup {0} /\ m = store
              /\ \A j \in Sessions : Carries(sessions[j])'
  <2>1. ASSUME NEW j \in Sessions
        PROVE  Carries(sessions[j])'
    <3>1. sessions'[j].step \notin {"put", "restore", "stamp"}
      <4>1. CASE j = k
        BY <1>7, <1>11, <4>1
      <4>2. CASE j # k
        <5>1. sessions'[j].step = "free"
          BY <1>11, <1>13, <4>2, OnlySession
        <5> QED BY <5>1
      <4> QED BY <4>1, <4>2
    <3> QED BY <3>1 DEF Carries
  <2> QED BY <1>1, <1>2, <1>4, <1>8, <1>13, <2>1 DEF IInv, Backed, Carries
<1>14. ASSUME Steady(deployment) \/ Stored(deployment),
              NEW d \in deployment.nodes, InCharge(d)'
       PROVE  Ledger(deployment, manager'[d], Granting')
  <2>1. HandsOver(deployment) /\ d \in Controls /\ Stored(deployment)
    BY <1>8, <1>14, RaftKinds, DeploymentIs DEF IInv
  <2>2. d = c
    BY <1>1, <1>8, <1>12, <1>14, <2>1 DEF InCharge
  <2>3. Granting' = issued
    <3>1. \A j \in Sessions : sessions'[j].grants = {}
      BY <1>7, <1>11, <2>1, OnlySession
    <3> QED BY <1>1, <1>11, <3>1, NothingGranting
  <2>4. m.leaderEpoch <= e
    BY <1>3, <1>12, <1>13, <2>1, Constants
  <2>5. Ledger(deployment, g, issued)
    BY <1>5, <1>13, <2>1, <2>4, LedgerStamp DEF IInv, TypeOK
  <2> QED BY <1>9, <2>2, <2>3, <2>5
<1> QED BY <1>1, <1>8, <1>11, <1>12, <1>13, <1>14, Assemble

\* The snapshot lands and the grants it carries go out.
LEMMA PutInv ==
    ASSUME IInv, NEW k \in deployment.sessions, deployment' = deployment, Put(k)
    PROVE  IInv'
<1>1. /\ k \in Sessions /\ sessions[k].step = "put"
      /\ UNCHANGED <<manager, synced, syncing, catalog, topology, senders,
                     reign, live, won, faults>>
  BY DeploymentIs DEF IInv, Put, At, membership, leadership
<1>2. PICK c \in Controls : c = sessions[k].at /\ c \in deployment.nodes
  BY <1>1, SessionAt
<1>3. /\ store' = sessions[k].snap /\ store' \in Snapshot /\ Filed(store')
      /\ issued' \subseteq issued \cup sessions[k].grants
  BY <1>1, SessionFields DEF Put, Persisted, Deliverable, IInv, AllFiled
<1>4. PICK r : r \in {Idle(k), NoSession} /\ Become(k, r)
  BY FinishIs DEF Put
<1>5. /\ r \in Session /\ Placed(deployment, k, r) /\ Filed(r.snap)
      /\ r.grants = {} /\ r.step \in {"free", "idle"}
  BY <1>1, <1>4, RestIs, IdleIs, NoSessionIs DEF IInv
<1>6. issued \subseteq Granting /\ issued' \subseteq Granting /\ Granting \subseteq Lease
  BY <1>1, <1>3, GrantingIs DEF IInv
<1>7. /\ TypeOK' /\ AllFiled'
      /\ \A j \in Sessions : sessions'[j] = IF j = k THEN r ELSE sessions[j]
      /\ \A j \in Sessions : Placed(deployment', j, sessions'[j])
  <2>1. /\ manager' \in [Controls -> Snapshot] /\ \A d \in Controls : Filed(manager'[d])
        /\ synced' \in [Controls -> 0..MaxEpoch]
        /\ syncing' \in [Controls -> Sessions \cup {Nil}]
        /\ catalog' \in [Controls -> SUBSET Workers] /\ topology' \subseteq Workers
        /\ senders' \in [Controls -> SUBSET Workers]
        /\ faults' \in 0..MaxFaults
    BY <1>1 DEF IInv, TypeOK, AllFiled
  <2>2. UNCHANGED leadership /\ issued' \subseteq Lease
    BY <1>1, <1>6 DEF leadership
  <2> QED BY <1>3, <1>4, <1>5, <2>1, <2>2, SessionFrame
<1>8. Granting' \subseteq Granting
  <2>1. \A j \in Sessions : sessions'[j].grants \subseteq Granting
    BY <1>5, <1>7, GrantingIs DEF IInv
  <2> QED BY <1>6, <2>1 DEF Granting, Grants
<1>9. ASSUME HandsOver(deployment)
      PROVE  Reigns' /\ (\A j \in Sessions : Attends(j, sessions[j])') /\ EpochTokens'
  <2>1. Reigns /\ EpochTokens
    BY <1>9 DEF IInv, InOrder
  <2>2. ASSUME NEW j \in Sessions
        PROVE  Attends(j, sessions[j])'
    <3>1. CASE j = k
      <4>1. sessions'[j] = r
        BY <1>7, <3>1
      <4> QED BY <1>5, <4>1 DEF Attends
    <3>2. CASE j # k
      <4>1. sessions'[j] = sessions[j]
        BY <1>7, <3>2
      <4> QED BY <1>1, <1>9, <4>1, AttendsFrame
    <3> QED BY <3>1, <3>2
  <2> QED BY <1>1, <1>8, <2>1, <2>2, EpochTokensFrame, ReignsFrame
<1>10. ASSUME Steady(deployment) \/ Stored(deployment),
              NEW d \in deployment.nodes, InCharge(d)
       PROVE  Ledger(deployment, manager[d], Granting)
  BY <1>10 DEF IInv, Booked
<1>11. ASSUME Steady(deployment) \/ Stored(deployment),
              NEW d \in deployment.nodes, InCharge(d)'
       PROVE  Ledger(deployment, manager'[d], Granting')
  <2>1. InCharge(d)
    BY <1>1, <1>11 DEF InCharge
  <2>2. manager[d] \in Snapshot /\ Filed(manager[d])
    BY DeploymentIs DEF IInv, TypeOK, AllFiled
  <2>3. Granting' \subseteq Granting \cup Held(manager[d])
    BY <1>8
  <2>4. Ledger(deployment, manager[d], Granting')
    BY <1>10, <1>11, <2>1, <2>2, <2>3, LedgerSubset
  <2> QED BY <1>1, <2>4
<1>12. ASSUME Stored(deployment)
       PROVE  /\ Ledger(deployment, store', issued')
              /\ deployment.raft => store'.leaderEpoch \in won' \cup {0}
              /\ \A j \in Sessions : Carries(sessions[j])'
  <2>1. store' = manager[c]
    BY <1>1, <1>2, <1>3, <1>12 DEF IInv, Backed, Carries
  <2>2. ASSUME deployment.raft
        PROVE  reign[c] # 0 /\ synced[c] = reign[c] /\ manager[c].leaderEpoch \in won
    <3>1. HandsOver(deployment)
      BY <1>12, <2>2, RaftKinds
    <3>2. Reigns /\ Attends(k, sessions[k])
      BY <1>1, <3>1 DEF IInv, InOrder
    <3>3. reign[c] # 0 /\ synced[c] = reign[c]
      BY <1>1, <1>2, <3>2 DEF Attends
    <3> QED BY <3>2, <3>3 DEF Reigns
  <2>3. InCharge(c)
    BY <2>2 DEF InCharge
  <2>4. Ledger(deployment, store', Granting)
    BY <1>2, <1>10, <1>12, <2>1, <2>3
  <2>5. issued' \subseteq Granting \cup Held(store')
    BY <1>6
  <2>6. Ledger(deployment, store', issued')
    BY <1>3, <2>4, <2>5, LedgerSubset
  <2>7. ASSUME NEW j \in Sessions
        PROVE  Carries(sessions[j])'
    <3>1. sessions'[j].step \in {"free", "idle"}
      BY <1>5, <1>7, <1>12, OnlySession
    <3> QED BY <3>1 DEF Carries
  <2> QED BY <1>1, <2>1, <2>2, <2>6, <2>7
<1> QED BY <1>7, <1>9, <1>11, <1>12, Assemble

\* A recipient's lease is announced to it again.
LEMMA AnnounceInv ==
    ASSUME IInv, NEW k \in deployment.sessions, deployment' = deployment, Announce(k)
    PROVE  IInv'
<1>1. /\ k \in Sessions /\ sessions[k].step = "announce"
      /\ "drain" \in deployment.operations
      /\ UNCHANGED <<manager, store, synced, syncing, catalog, topology, senders,
                     reign, live, won, faults>>
  BY DeploymentIs DEF IInv, Announce, At, Placed, membership, leadership
<1>2. ~HandsOver(deployment) /\ ~Stored(deployment)
  BY <1>1, Kinds
<1>3. issued' \subseteq issued \cup sessions[k].grants
  BY DEF Announce, Deliverable
<1>4. PICK r : r = Idle(k) /\ Become(k, r)
  BY DEF Announce
<1>5. /\ r \in Session /\ Placed(deployment, k, r) /\ Filed(r.snap) /\ r.grants = {}
  BY <1>1, <1>4, RestIs
<1>6. issued \subseteq Granting /\ issued' \subseteq Granting /\ Granting \subseteq Lease
  BY <1>1, <1>3, GrantingIs DEF IInv
<1>7. /\ TypeOK' /\ AllFiled'
      /\ \A j \in Sessions : sessions'[j] = IF j = k THEN r ELSE sessions[j]
      /\ \A j \in Sessions : Placed(deployment', j, sessions'[j])
  <2>1. /\ manager' \in [Controls -> Snapshot] /\ \A d \in Controls : Filed(manager'[d])
        /\ store' \in Snapshot /\ Filed(store')
        /\ synced' \in [Controls -> 0..MaxEpoch]
        /\ syncing' \in [Controls -> Sessions \cup {Nil}]
        /\ catalog' \in [Controls -> SUBSET Workers] /\ topology' \subseteq Workers
        /\ senders' \in [Controls -> SUBSET Workers]
        /\ faults' \in 0..MaxFaults
    BY <1>1 DEF IInv, TypeOK, AllFiled
  <2>2. UNCHANGED leadership /\ issued' \subseteq Lease
    BY <1>1, <1>6 DEF leadership
  <2> QED BY <1>4, <1>5, <2>1, <2>2, SessionFrame
<1>8. Granting' \subseteq Granting
  <2>1. \A j \in Sessions : sessions'[j].grants \subseteq Granting
    BY <1>5, <1>7, GrantingIs DEF IInv
  <2> QED BY <1>6, <2>1 DEF Granting, Grants
<1>9. ASSUME Steady(deployment) \/ Stored(deployment),
             NEW d \in deployment.nodes, InCharge(d)'
      PROVE  Ledger(deployment, manager'[d], Granting')
  <2>1. InCharge(d)
    BY <1>1, <1>9 DEF InCharge
  <2>2. manager[d] \in Snapshot /\ Filed(manager[d])
    BY DeploymentIs DEF IInv, TypeOK, AllFiled
  <2>3. Ledger(deployment, manager[d], Granting)
    BY <1>9, <2>1 DEF IInv, Booked
  <2>4. Granting' \subseteq Granting \cup Held(manager[d])
    BY <1>8
  <2>5. Ledger(deployment, manager[d], Granting')
    BY <2>2, <2>3, <2>4, LedgerSubset
  <2> QED BY <1>1, <2>5
<1> QED BY <1>2, <1>7, <1>9, Assemble

-----------------------------------------------------------------------------
(* Leadership and crashes *)

\* Steps that leave the sessions, the managers and the store alone.
LEMMA RoleInv ==
    ASSUME IInv,
           UNCHANGED <<deployment, manager, store, synced, syncing, catalog, topology, senders,
                       sessions, issued, faults>>,
           reign' \in [Controls -> 0..MaxEpoch], live' \in [Controls -> BOOLEAN],
           won' \subseteq 1..MaxEpoch, won \subseteq won',
           HandsOver(deployment) =>
               Reigns' /\ (\A j \in Sessions : Attends(j, sessions[j])') /\ EpochTokens',
           Stored(deployment) /\ deployment.raft =>
               \A c \in Controls : InCharge(c)' => InCharge(c)
    PROVE  IInv'
<1>1. TypeOK'
  BY DEF IInv, TypeOK
<1>2. AllFiled'
  BY DEF IInv, AllFiled
<1>3. \A j \in Sessions : Placed(deployment', j, sessions'[j])
  BY DEF IInv
<1>4. Granting' = Granting
  BY DEF Granting, Grants
<1>5. ASSUME Steady(deployment) \/ Stored(deployment),
             NEW c \in deployment.nodes, InCharge(c)'
      PROVE  Ledger(deployment, manager[c], Granting)
  <2>1. InCharge(c)
    <3>1. CASE deployment.raft
      BY <1>5, <3>1, RaftKinds, DeploymentIs DEF IInv
    <3>2. CASE ~deployment.raft
      BY <3>2 DEF InCharge
    <3> QED BY <3>1, <3>2
  <2> QED BY <1>5, <2>1 DEF IInv, Booked
<1>6. ASSUME Stored(deployment)
      PROVE  /\ Ledger(deployment, store, issued)
             /\ deployment.raft => store.leaderEpoch \in won' \cup {0}
             /\ \A j \in Sessions : Carries(sessions[j])'
  <2>1. \A j \in Sessions : Carries(sessions[j])
    BY <1>6 DEF IInv, Backed
  <2>2. \A j \in Sessions : Carries(sessions[j])'
    BY <2>1 DEF Carries
  <2> QED BY <1>6, <2>2 DEF IInv, Backed
<1> QED BY <1>1, <1>2, <1>3, <1>4, <1>5, <1>6, Assemble

\* A session that is not at work does not depend on who leads.
LEMMA AttendsRest ==
    ASSUME NEW j \in Sessions, ~AtWork(j), sessions' = sessions
    PROVE  Attends(j, sessions[j])'
BY DEF AtWork, At, Attends

\* A control is elected.
LEMMA LeadInv ==
    ASSUME IInv, NEW c \in deployment.nodes, deployment' = deployment,
           NEW e \in 1..MaxEpoch, Lead(c, e)
    PROVE  IInv'
<1>1. c \in Controls /\ e \in 0..MaxEpoch /\ e # 0
  BY DeploymentIs, Constants DEF IInv
<1>2. /\ UNCHANGED <<deployment, manager, store, synced, syncing, catalog, topology, senders,
                     sessions, issued, faults>>
      /\ reign' = [reign EXCEPT ![c] = e] /\ won' = won \cup {e}
      /\ live' = [live EXCEPT ![c] = TRUE] /\ e \notin won
  BY DEF Lead, membership
<1>3. /\ reign' \in [Controls -> 0..MaxEpoch] /\ live' \in [Controls -> BOOLEAN]
      /\ won' \subseteq 1..MaxEpoch /\ won \subseteq won'
      /\ reign'[c] = e /\ \A d \in Controls : d # c => reign'[d] = reign[d]
  BY <1>1, <1>2 DEF IInv, TypeOK
<1>4. Granting' = Granting
  BY <1>2 DEF Granting, Grants
<1>5. ASSUME HandsOver(deployment)
      PROVE  /\ Reigns' /\ (\A j \in Sessions : Attends(j, sessions[j])') /\ EpochTokens'
             /\ \A d \in Controls : reign'[d] # 0 => d = c
             /\ synced[c] # e
  <2>1. /\ Reigns /\ EpochTokens /\ (\A k \in Sessions : ~AtWork(k))
        /\ (\A d \in Controls : reign[d] = 0) /\ (\A f \in won : f < e)
    BY <1>5, Kinds DEF IInv, InOrder, Lead, Orderly
  <2>2. /\ \A d \in Controls : reign'[d] # 0 => d = c
        /\ synced[c] # e
    BY <1>1, <1>2, <1>3, <2>1 DEF Reigns
  <2>3. \A f \in won' : f <= e
    BY <1>2, <2>1 DEF IInv, TypeOK
  <2>4. Reigns'
    BY <1>1, <1>2, <1>3, <2>1, <2>2, <2>3 DEF Reigns
  <2>5. \A l \in Granting : l.token.epoch \in won /\ l.token.epoch # e
    BY <1>2, <2>1 DEF EpochTokens
  <2>6. EpochTokens'
    BY <1>2, <1>3, <1>4, <2>1, <2>2, <2>5 DEF EpochTokens
  <2>7. \A j \in Sessions : Attends(j, sessions[j])'
    BY <1>2, <2>1, AttendsRest
  <2> QED BY <2>2, <2>4, <2>6, <2>7
<1>6. ASSUME Stored(deployment), deployment.raft
      PROVE  \A d \in Controls : ~InCharge(d)'
  BY <1>2, <1>3, <1>5, <1>6, RaftKinds DEF InCharge
<1> QED BY <1>2, <1>3, <1>5, <1>6, RoleInv

\* A leader's quorum lease runs out or comes back: nobody asks it here.
LEMMA LapseInv ==
    ASSUME IInv, NEW c \in deployment.nodes, deployment' = deployment,
           Lapse(c) \/ Renew(c)
    PROVE  IInv'
<1>1. UNCHANGED <<deployment, manager, store, synced, syncing, catalog, topology, senders,
                  reign, won, sessions, issued, faults>>
  BY DEF Lapse, Renew, membership
<1>2. live' \in [Controls -> BOOLEAN]
  BY DEF Lapse, Renew, IInv, TypeOK
<1>3. reign' \in [Controls -> 0..MaxEpoch] /\ won' \subseteq 1..MaxEpoch /\ won \subseteq won'
  BY <1>1 DEF IInv, TypeOK
<1>4. Granting' \subseteq Granting
  BY <1>1 DEF Granting, Grants
<1>5. ASSUME HandsOver(deployment)
      PROVE  Reigns' /\ (\A j \in Sessions : Attends(j, sessions[j])') /\ EpochTokens'
  <2>1. Reigns /\ EpochTokens
    BY <1>5 DEF IInv, InOrder
  <2>2. \A j \in Sessions : Attends(j, sessions[j])'
    BY <1>1, <1>5, AttendsFrame
  <2> QED BY <1>1, <1>4, <2>1, <2>2, EpochTokensFrame, ReignsFrame
<1>6. \A d \in Controls : InCharge(d)' => InCharge(d)
  BY <1>1 DEF InCharge
<1> QED BY <1>1, <1>2, <1>3, <1>5, <1>6, RoleInv

\* A leader steps down.
LEMMA StepDownInv ==
    ASSUME IInv, NEW c \in deployment.nodes, deployment' = deployment, StepDown(c)
    PROVE  IInv'
<1>1. c \in Controls
  BY DeploymentIs DEF IInv
<1>2. /\ UNCHANGED <<deployment, manager, store, synced, syncing, catalog, topology, senders,
                     won, sessions, issued, faults>>
      /\ reign' = [reign EXCEPT ![c] = 0] /\ live' = [live EXCEPT ![c] = FALSE]
  BY DEF StepDown, membership
<1>3. /\ reign' \in [Controls -> 0..MaxEpoch] /\ live' \in [Controls -> BOOLEAN]
      /\ won' \subseteq 1..MaxEpoch /\ won \subseteq won'
      /\ \A d \in Controls : reign'[d] # 0 => reign'[d] = reign[d]
  BY <1>1, <1>2, Constants DEF IInv, TypeOK
<1>4. Granting' = Granting
  BY <1>2 DEF Granting, Grants
<1>5. ASSUME HandsOver(deployment)
      PROVE  Reigns' /\ (\A j \in Sessions : Attends(j, sessions[j])') /\ EpochTokens'
  <2>1. Reigns /\ EpochTokens /\ (\A k \in Sessions : ~AtWork(k))
    BY <1>5, Kinds DEF IInv, InOrder, StepDown, Orderly
  <2>2. Reigns'
    BY <1>2, <1>3, <2>1 DEF Reigns
  <2>3. EpochTokens'
    BY <1>2, <1>3, <1>4, <2>1 DEF EpochTokens
  <2>4. \A j \in Sessions : Attends(j, sessions[j])'
    BY <1>2, <2>1, AttendsRest
  <2> QED BY <2>2, <2>3, <2>4
<1>6. \A d \in Controls : deployment.raft /\ InCharge(d)' => InCharge(d)
  BY <1>2, <1>3 DEF InCharge
<1> QED BY <1>2, <1>3, <1>5, <1>6, RoleInv

\* A control's process stops and starts again.
LEMMA CrashInv ==
    ASSUME IInv, NEW c \in deployment.nodes, deployment' = deployment, Crash(c)
    PROVE  IInv'
<1>1. c \in Controls /\ deployment.raft \in BOOLEAN
  BY DeploymentIs DEF IInv
<1>2. PICK l \in Snapshot :
         /\ Filed(l) /\ manager' = [manager EXCEPT ![c] = Booted(l)]
         /\ faults' = IF l = store THEN faults + 1 ELSE faults + 2
         /\ l # store => "load" \in deployment.faults /\ faults + 1 < MaxFaults
  BY DefaultSnapshotIs DEF Crash, IInv, TypeOK, AllFiled
<1>3. /\ UNCHANGED <<store, topology, won, issued>> /\ faults < MaxFaults
      /\ "crash" \in deployment.faults
  BY DEF Crash, CanFail
<1>4. PICK b \in Snapshot : b = Booted(l) /\ Filed(b) /\ (~deployment.raft => b = l)
  BY <1>2, DefaultSnapshotIs DEF Booted
<1>5. /\ manager' \in [Controls -> Snapshot] /\ manager'[c] = b
      /\ \A d \in Controls : d # c => manager'[d] = manager[d]
  BY <1>1, <1>2, <1>4, ManagerFrame DEF IInv
<1>6. /\ synced' \in [Controls -> 0..MaxEpoch]
      /\ reign' \in [Controls -> 0..MaxEpoch] /\ reign'[c] = 0 /\ synced'[c] = 0
      /\ \A d \in Controls : d # c => synced'[d] = synced[d] /\ reign'[d] = reign[d]
  BY <1>1, Constants DEF Crash, IInv, TypeOK
<1>7. /\ syncing' \in [Controls -> Sessions \cup {Nil}]
      /\ catalog' \in [Controls -> SUBSET Workers] /\ topology' \subseteq Workers
      /\ senders' \in [Controls -> SUBSET Workers]
      /\ \A d \in Controls : d # c => syncing'[d] = syncing[d]
  BY <1>1, <1>3 DEF Crash, IInv, TypeOK
<1>8. live' \in [Controls -> BOOLEAN]
  BY <1>1 DEF Crash, IInv, TypeOK
<1>9. faults' \in 0..MaxFaults
  BY <1>2, <1>3, Constants DEF IInv, TypeOK
<1>10. /\ sessions' \in [Sessions -> Session]
       /\ \A j \in Sessions : sessions'[j] =
             IF sessions[j].at = c THEN NoSession ELSE sessions[j]
  BY NoSessionIs, SessionFields DEF Crash, IInv
<1>11. TypeOK'
  <2>1. /\ deployment' \in Deployments /\ store' \in Snapshot
        /\ won' \subseteq 1..MaxEpoch /\ issued' \subseteq Lease
    BY <1>3 DEF IInv, TypeOK
  <2> QED BY <1>5, <1>6, <1>7, <1>8, <1>9, <1>10, <2>1 DEF TypeOK, Session
<1>12. AllFiled'
  <2>1. \A d \in Controls : Filed(manager'[d])
    BY <1>4, <1>5 DEF IInv, AllFiled
  <2>2. \A j \in Sessions : Filed(sessions'[j].snap)
    BY <1>10, NoSessionIs, DefaultSnapshotIs DEF IInv, AllFiled
  <2> QED BY <1>3, <2>1, <2>2 DEF IInv, AllFiled
<1>13. \A j \in Sessions : Placed(deployment', j, sessions'[j])
  <2>1. \A j \in Sessions : Placed(deployment, j, NoSession)
    BY NoSessionIs DEF Placed
  <2> QED BY <1>10, <2>1 DEF IInv
<1>14. Granting' \subseteq Granting
  <2>1. \A j \in Sessions : sessions'[j].grants \subseteq Granting
    BY <1>10, NoSessionIs, GrantingIs DEF IInv
  <2> QED BY <1>3, <2>1 DEF Granting, Grants
<1>15. ASSUME NEW j \in Sessions
       PROVE  \/ sessions'[j] = NoSession
              \/ /\ sessions'[j] = sessions[j] /\ sessions[j].step # "free"
                 /\ sessions[j].at \in Controls /\ sessions[j].at # c
                 /\ sessions[j].at \in deployment.nodes
  <2>1. CASE sessions[j].step = "free"
    BY <1>10, <2>1 DEF IInv, Placed
  <2>2. CASE sessions[j].step # "free"
    BY <1>10, <2>2, SessionAt
  <2> QED BY <2>1, <2>2
<1>16. ASSUME HandsOver(deployment)
       PROVE  Reigns' /\ (\A j \in Sessions : Attends(j, sessions[j])') /\ EpochTokens'
  <2>1. Reigns /\ EpochTokens
    BY <1>16 DEF IInv, InOrder
  <2>2. Reigns'
    BY <1>3, <1>5, <1>6, <2>1 DEF Reigns
  <2>3. EpochTokens'
    <3>1. \A d \in Controls : Fresh(manager[d], Granting) => Fresh(manager[d], Granting')
      BY <1>14, FreshSubset
    <3> QED BY <1>3, <1>5, <1>6, <1>14, <2>1, <3>1 DEF EpochTokens
  <2>4. ASSUME NEW j \in Sessions
        PROVE  Attends(j, sessions[j])'
    <3>1. CASE sessions'[j] = NoSession
      BY <3>1, NoSessionIs DEF Attends
    <3>2. CASE sessions'[j] # NoSession
      <4>1. /\ sessions'[j] = sessions[j] /\ Attends(j, sessions[j])
            /\ sessions[j].at \in Controls /\ sessions[j].at # c
        BY <1>15, <1>16, <3>2 DEF IInv, InOrder
      <4> QED BY <1>6, <1>7, <4>1 DEF Attends
    <3> QED BY <3>1, <3>2
  <2> QED BY <2>2, <2>3, <2>4
<1>17. ASSUME Steady(deployment) \/ Stored(deployment),
              NEW d \in deployment.nodes, InCharge(d)'
       PROVE  Ledger(deployment, manager'[d], Granting')
  <2>0. d \in Controls
    BY DeploymentIs DEF IInv
  <2>1. CASE deployment.raft
    <3>1. d # c
      BY <1>6, <1>17, <2>1 DEF InCharge
    <3>2. InCharge(d) /\ manager'[d] = manager[d]
      BY <1>5, <1>6, <1>17, <2>0, <3>1 DEF InCharge
    <3>3. Ledger(deployment, manager[d], Granting)
      BY <1>17, <3>2 DEF IInv, Booked
    <3>4. manager[d] \in Snapshot /\ Filed(manager[d])
      BY <2>0 DEF IInv, TypeOK, AllFiled
    <3>5. Granting' \subseteq Granting \cup Held(manager[d])
      BY <1>14
    <3>6. Ledger(deployment, manager[d], Granting')
      BY <3>3, <3>4, <3>5, LedgerSubset
    <3> QED BY <3>2, <3>6
  <2>2. CASE ~deployment.raft
    <3>1. Stored(deployment) /\ "load" \notin deployment.faults
      BY <1>3, <1>17, Kinds DEF Steady
    <3>2. d = c /\ b = store
      BY <1>2, <1>4, <2>2, <3>1, DeploymentIs DEF IInv
    <3>3. \A j \in Sessions : sessions'[j].grants = {}
      <4>1. \A j \in Sessions : sessions'[j] = NoSession
        BY <1>15, <2>2, DeploymentIs DEF IInv
      <4> QED BY <4>1, NoSessionIs
    <3>4. Granting' = issued
      BY <1>3, <1>11, <3>3, NothingGranting
    <3> QED BY <1>5, <3>1, <3>2, <3>4 DEF IInv, Backed
  <2> QED BY <2>1, <2>2
<1>18. ASSUME Stored(deployment)
       PROVE  /\ Ledger(deployment, store', issued')
              /\ deployment.raft => store'.leaderEpoch \in won' \cup {0}
              /\ \A j \in Sessions : Carries(sessions[j])'
  <2>1. ASSUME NEW j \in Sessions
        PROVE  Carries(sessions[j])'
    <3>1. CASE sessions'[j] = NoSession
      BY <3>1, NoSessionIs DEF Carries
    <3>2. CASE sessions'[j] # NoSession
      <4>1. /\ sessions'[j] = sessions[j] /\ Carries(sessions[j])
            /\ sessions[j].at \in Controls /\ sessions[j].at # c
        BY <1>15, <1>18, <3>2 DEF IInv, Backed
      <4> QED BY <1>3, <1>5, <4>1 DEF Carries
    <3> QED BY <3>1, <3>2
  <2> QED BY <1>3, <1>18, <2>1 DEF IInv, Backed
<1> QED BY <1>11, <1>12, <1>13, <1>16, <1>17, <1>18, Assemble

-----------------------------------------------------------------------------
(* The theorems *)

\* The invariant holds at the start.
LEMMA InitInv ==
    ASSUME Init
    PROVE  IInv
<1>1. PICK b \in Snapshot : /\ b = Booted(DefaultSnapshot) /\ Filed(b) /\ Held(b) = {}
  BY DefaultSnapshotIs DEF Booted
<1>2. /\ manager \in [Controls -> Snapshot] /\ \A c \in Controls : manager[c] = b
      /\ store = DefaultSnapshot /\ store \in Snapshot /\ Filed(store) /\ Held(store) = {}
      /\ store.leaderEpoch = 0
  BY <1>1, DefaultSnapshotIs DEF Init
<1>3. sessions \in [Sessions -> Session] /\ \A k \in Sessions : sessions[k] = NoSession
  BY NoSessionIs DEF Init
<1>4. /\ synced \in [Controls -> 0..MaxEpoch] /\ reign \in [Controls -> 0..MaxEpoch]
      /\ \A c \in Controls : reign[c] = 0 /\ synced[c] = 0
      /\ issued = {} /\ won = {} /\ faults \in 0..MaxFaults
  BY Constants DEF Init
<1>5. TypeOK
  <2>1. /\ syncing \in [Controls -> Sessions \cup {Nil}]
        /\ catalog \in [Controls -> SUBSET Workers] /\ topology \subseteq Workers
        /\ senders \in [Controls -> SUBSET Workers]
        /\ deployment \in Deployments
    BY DEF Init
  <2>2. live \in [Controls -> BOOLEAN]
    BY Zenon DEF Init
  <2> QED BY <1>2, <1>3, <1>4, <2>1, <2>2 DEF TypeOK, Session
<1>6. \A k \in Sessions : Placed(deployment, k, sessions[k])
  BY <1>3, NoSessionIs DEF Placed
<1>7. AllFiled
  BY <1>1, <1>2, <1>3, NoSessionIs, DefaultSnapshotIs DEF AllFiled
<1>8. Granting = {}
  BY <1>3, <1>4, NoSessionIs DEF Granting, Grants
<1>9. InOrder
  <2>1. Reigns /\ EpochTokens
    BY <1>4, <1>8 DEF Reigns, EpochTokens
  <2>2. \A k \in Sessions : Attends(k, sessions[k])
    BY <1>3, NoSessionIs DEF Attends
  <2> QED BY <2>1, <2>2 DEF InOrder
<1>10. ASSUME NEW m, Held(m) = {}
       PROVE  Ledger(deployment, m, {})
  BY <1>10 DEF Ledger, Fresh, Newest, Remembers
<1>11. Booked
  BY <1>1, <1>2, <1>5, <1>8, <1>10, DeploymentIs DEF Booked
<1>12. Backed
  <2>1. \A k \in Sessions : Carries(sessions[k])
    BY <1>3, NoSessionIs DEF Carries
  <2> QED BY <1>2, <1>4, <1>10, <2>1 DEF Backed
<1> QED BY <1>5, <1>6, <1>7, <1>9, <1>11, <1>12 DEF IInv

\* Every step of a session keeps it.
LEMMA SessionStepInv ==
    ASSUME IInv, NEW k \in deployment.sessions, deployment' = deployment, SessionStep(k)
    PROVE  IInv'
BY RegisterInv, DeregisterInv, ReleaseStepInv, DisconnectInv, OnWorkerDeadInv, ReassignInv,
   RequestShardInv, ReadEpochInv, FenceWriteInv, SyncInv, RestoreInv, SetLeaderEpochInv,
   AcquireInv, DeployWorkloadInv, ForceAcquireInv, DrainShardInv, DrainTransferInv,
   AnnounceInv, TakeSnapshotInv, PutInv, PutFailsInv
   DEF SessionStep

\* And so does every step of a control.
LEMMA ControlStepInv ==
    ASSUME IInv, NEW c \in deployment.nodes, deployment' = deployment, ControlStep(c)
    PROVE  IInv'
BY LeadInv, LapseInv, StepDownInv, CrashInv DEF ControlStep

\* The invariant is inductive.
LEMMA StepInv ==
    ASSUME IInv, [Next]_vars
    PROVE  IInv'
<1>1. CASE Next
  BY <1>1, SessionStepInv, ControlStepInv DEF Next
<1>2. CASE UNCHANGED vars
  <2>1. TypeOK'
    BY <1>2 DEF vars, IInv, TypeOK
  <2>2. AllFiled' /\ \A k \in Sessions : Placed(deployment', k, sessions'[k])
    BY <1>2 DEF vars, IInv, AllFiled
  <2>3. InOrder'
    <3>1. UNCHANGED <<deployment, manager, synced, syncing, reign, won, sessions, issued>>
      BY <1>2 DEF vars
    <3>2. Granting' \subseteq Granting
      BY <3>1 DEF Granting, Grants
    <3>3. ASSUME HandsOver(deployment)
          PROVE  Reigns' /\ (\A j \in Sessions : Attends(j, sessions[j])') /\ EpochTokens'
      <4>1. Reigns /\ EpochTokens
        BY <3>3 DEF IInv, InOrder
      <4>2. \A j \in Sessions : Attends(j, sessions[j])'
        BY <3>1, <3>3, AttendsFrame
      <4> QED BY <3>1, <3>2, <4>1, <4>2, EpochTokensFrame, ReignsFrame
    <3> QED BY <3>1, <3>3 DEF InOrder
  <2>4. Booked'
    BY <1>2 DEF vars, IInv, Booked, InCharge, Granting, Grants
  <2>5. Backed'
    BY <1>2 DEF vars, IInv, Backed, Carries
  <2> QED BY <2>1, <2>2, <2>3, <2>4, <2>5 DEF IInv
<1> QED BY <1>1, <1>2

\* IInv is an invariant of the leases: what every other result follows from.
THEOREM LeaseInvariant == Spec => []IInv
<1>1. Init => IInv
  BY InitInv
<1>2. IInv /\ [Next]_vars => IInv'
  BY StepInv
<1> QED BY <1>1, <1>2, PTL DEF Spec

\* Managers, sessions, the store and the sent leases keep their types in every
\* deployment, faults and disorderly leadership included.
THEOREM LeaseTypes == Spec => []TypeOK
<1>1. IInv => TypeOK
  BY DEF IInv
<1> QED BY <1>1, LeaseInvariant, PTL

\* A control that certifies is in charge of the leases.
LEMMA CertifiesInCharge ==
    ASSUME NEW c, Certifies(c)
    PROVE  InCharge(c)
BY DEF Certifies, RequireLeader, SyncedFor, InCharge

\* No token is sent out twice: not by a standalone control that stays up, with
\* any number of sessions and whatever they do; not by one that restarts,
\* where each grant is persisted before it is sent; and not by a cluster that
\* hands leadership over in order, even when the store cannot be read and any
\* PUT may be lost.
THEOREM LeaseTokensAreUnique ==
    Spec => [](Steady(deployment) \/ PersistsFirst(deployment) \/ HandsOver(deployment)
               => UniqueTokens)
<1>1. ASSUME IInv, HandsOver(deployment)
      PROVE  UniqueTokens
  <2>1. \A l, m \in Granting : l.token = m.token => l = m
    BY <1>1 DEF IInv, InOrder, EpochTokens
  <2> QED BY <2>1 DEF Granting, UniqueTokens
<1>2. ASSUME IInv, Steady(deployment) \/ PersistsFirst(deployment)
      PROVE  UniqueTokens
  <2>1. PICK c : c \in deployment.nodes
    <3>1. deployment \in Deployments /\ ~deployment.raft
      BY <1>2, Kinds DEF IInv, TypeOK
    <3>2. Cardinality(deployment.nodes) = 1 /\ IsFiniteSet(deployment.nodes)
      BY <1>2, <3>1, DeploymentAssumption, DeploymentIs, SetsAssumption, FS_Subset DEF IInv
    <3> QED BY <3>2, FS_Singleton
  <2>2. InCharge(c)
    BY <1>2, Kinds DEF InCharge
  <2>3. Fresh(manager[c], Granting \cup Held(manager[c]))
    BY <1>2, <2>1, <2>2 DEF IInv, Booked, Ledger, Stored
  <2> QED BY <2>3 DEF Fresh, Granting, UniqueTokens
<1>3. IInv => (Steady(deployment) \/ PersistsFirst(deployment) \/ HandsOver(deployment)
                  => UniqueTokens)
  BY <1>1, <1>2
<1> QED BY <1>3, LeaseInvariant, PTL

\* A control whose answer counts never certifies a token once a newer one was
\* sent for the shard, in a standalone control that stays up and wherever one
\* session persists each grant before it sends it: across restarts, lost PUTs
\* and changes of leadership.
THEOREM NewestLeaseWins ==
    Spec => [](Steady(deployment) \/ Stored(deployment) => NewestTokenWins)
<1>1. ASSUME IInv, Steady(deployment) \/ Stored(deployment),
             NEW c \in deployment.nodes, NEW l \in issued, Certifies(c),
             manager[c].leases[l.shard] # Nil
      PROVE  AtMost(l.token, manager[c].leases[l.shard].token)
  <2>1. Newest(manager[c], Granting)
    BY <1>1, CertifiesInCharge DEF IInv, Booked, Ledger
  <2> QED BY <1>1, <2>1 DEF Newest, Granting
<1>2. IInv => (Steady(deployment) \/ Stored(deployment) => NewestTokenWins)
  BY <1>1 DEF NewestTokenWins
<1> QED BY <1>2, LeaseInvariant, PTL

\* In the same deployments no grant that reached a worker is ever forgotten
\* where workers only request and fence.
THEOREM LeasesAreRemembered ==
    Spec => [](Steady(deployment) \/ Stored(deployment) => LeaseRemembered)
<1>1. ASSUME IInv, Steady(deployment) \/ Stored(deployment),
             NEW c \in deployment.nodes, NEW l \in issued, Certifies(c),
             deployment.operations \subseteq {"request", "fence"}
      PROVE  manager[c].leases[l.shard] # Nil
  <2>1. Remembers(deployment, manager[c], Granting)
    BY <1>1, CertifiesInCharge DEF IInv, Booked, Ledger
  <2> QED BY <1>1, <2>1 DEF Remembers, RequestsOnly, Granting
<1>2. IInv => (Steady(deployment) \/ Stored(deployment) => LeaseRemembered)
  BY <1>1 DEF LeaseRemembered
<1> QED BY <1>2, LeaseInvariant, PTL
=============================================================================
