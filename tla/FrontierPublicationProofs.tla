---------------------- MODULE FrontierPublicationProofs ----------------------
(***************************************************************************)
(* FrontierIsComplete for every set of aggregators and shards and every    *)
(* bound.  The property alone is not inductive: a publication rests on the *)
(* epochs an aggregator has taken from reports (Real), on the meet that a  *)
(* call under way has noted and on what the store caches (Sound), and a    *)
(* generation nobody has reached must not have a frontier yet (Fresh).     *)
(***************************************************************************)
EXTENDS FrontierPublication, TLAPS

\* Generations exist before they are used, and scalar aggregators have none.
Placed ==
    /\ \A a \in Aggregators :
          /\ a \in Scalar <=> generation[a] = None
          /\ generation[a] <= latest
          /\ call[a].key <= latest

\* What an aggregator knows of an active member, the member has committed.
Real ==
    \A a \in Aggregators, s \in Shards :
        a \notin Scalar /\ configs[generation[a]][s] # 0
            => epochs[a][s] <= committed[s][configs[generation[a]][s]]

\* Every frontier in sight is complete for the generation it belongs to.
Sound ==
    /\ \A a \in Aggregators :
          generation[a] # None => Complete(generation[a], published[a])
    /\ \A a \in Aggregators :
          call[a].key # None => Complete(call[a].key, call[a].meet)
    /\ \A g \in Generations : Complete(g, cache[g]) /\ Complete(g, durable[g])

\* A generation to come has no frontier.
Fresh == \A g \in Generations : g > latest => cache[g] = None /\ durable[g] = None

IInv == TypeOK /\ Placed /\ Real /\ Sound /\ Fresh

\* A meet is at most every epoch it is the meet of.
LEMMA MeetIsLowerBound ==
    ASSUME NEW meet, NEW reported, NEW shards, NEW s \in shards,
           IsMeet(meet, reported, shards)
    PROVE  meet <= reported[s]
BY DEF IsMeet

\* Later picks one of its arguments.
LEMMA LaterIsEither ==
    ASSUME NEW x, NEW y
    PROVE  Later(x, y) \in {x, y}
BY DEF Later

\* An active member is an incarnation and has a committed epoch.
LEMMA MemberHasCommitted ==
    ASSUME TypeOK, NEW g \in Generations, NEW s \in Shards, configs[g][s] # 0
    PROVE  configs[g][s] \in Incarnations /\ committed[s][configs[g][s]] \in Epochs
<1> USE FrontierBoundAssumption
<1>1. configs[g][s] \in 0..MaxIncarnation
  BY DEF TypeOK
<1>2. configs[g][s] \in Incarnations
  BY <1>1 DEF Incarnations
<1> QED BY <1>2 DEF TypeOK

\* Optional epochs are integers, which makes them comparable.
LEMMA EpochsAreIntegers == Epochs \cup {None} \subseteq Int /\ None \in Int
BY FrontierBoundAssumption DEF Epochs, None

\* The initial state has published nothing.
LEMMA InitInv == Init => IInv
<1> SUFFICES ASSUME Init PROVE IInv
  OBVIOUS
<1> USE FrontierBoundAssumption, AggregatorsAssumption
<1>1. TypeOK
  BY DEF Init, TypeOK, NoCall, None, Epochs, Incarnations, Generations, Keys
<1>2. Placed
  BY DEF Init, Placed, NoCall, None
<1>3. Real
  <2>1. 0 \in Generations
    BY DEF Generations
  <2> QED BY <2>1 DEF Init, Real
<1>4. Sound
  BY DEF Init, Sound, Complete, NoCall, None, Keys, Generations
<1>5. Fresh
  BY DEF Init, Fresh, Keys
<1> QED BY <1>1, <1>2, <1>3, <1>4, <1>5 DEF IInv

\* A commit only makes more epochs complete.
LEMMA CommitInv ==
    ASSUME IInv, NEW s \in Shards, NEW i \in Incarnations, Commit(s, i)
    PROVE  IInv'
<1> USE FrontierBoundAssumption
<1>1. TypeOK'
  BY DEF IInv, TypeOK, Commit, aggregator, Epochs, Incarnations
<1>2. \A z \in Shards, j \in Incarnations : committed'[z][j] >= committed[z][j]
  BY DEF IInv, TypeOK, Commit, Epochs
<1>3. \A g \in Generations, z \in Shards :
         configs[g][z] # 0 => configs[g][z] \in Incarnations
  BY DEF IInv, TypeOK, Incarnations
<1>4. ASSUME NEW g \in Generations, NEW e \in Epochs \cup {None}, Complete(g, e)
      PROVE  Complete(g, e)'
  <2> SUFFICES ASSUME NEW z \in Shards, configs[g][z] # 0
               PROVE  committed'[z][configs[g][z]] >= e
    BY DEF Complete, Commit
  <2>1. configs[g][z] \in Incarnations /\ committed[z][configs[g][z]] \in Epochs
    BY MemberHasCommitted DEF IInv
  <2>2. committed'[z][configs[g][z]] \in Epochs
    BY <1>1, <2>1 DEF TypeOK
  <2>3. committed'[z][configs[g][z]] >= committed[z][configs[g][z]]
    BY <1>2, <2>1
  <2>4. committed[z][configs[g][z]] >= e
    BY <1>4 DEF Complete
  <2> QED BY <2>1, <2>2, <2>3, <2>4, EpochsAreIntegers
<1>5. Placed' /\ Fresh'
  BY DEF IInv, Placed, Fresh, Commit, aggregator
<1>6. Real'
  <2> SUFFICES ASSUME NEW a \in Aggregators, NEW z \in Shards, a \notin Scalar,
                      configs[generation[a]][z] # 0
               PROVE  epochs[a][z] <= committed'[z][configs[generation[a]][z]]
    BY DEF Real, Commit, aggregator
  <2> DEFINE v == configs[generation[a]][z]
  <2>1. generation[a] \in Generations
    BY DEF IInv, TypeOK, Placed, Keys
  <2>2. v \in Incarnations /\ committed[z][v] \in Epochs
    BY <2>1, MemberHasCommitted DEF IInv
  <2>3. committed'[z][v] \in Epochs /\ epochs[a][z] \in Epochs \cup {None}
    BY <1>1, <2>2 DEF IInv, TypeOK
  <2>4. committed'[z][v] >= committed[z][v]
    BY <1>2, <2>2
  <2>5. epochs[a][z] <= committed[z][v]
    BY DEF IInv, Real
  <2> HIDE DEF v
  <2>6. epochs[a][z] <= committed'[z][v]
    BY <2>2, <2>3, <2>4, <2>5, EpochsAreIntegers
  <2> QED BY <2>6 DEF v
<1>7. Sound'
  BY <1>4 DEF IInv, TypeOK, Sound, Commit, aggregator, Keys
<1> QED BY <1>1, <1>5, <1>6, <1>7 DEF IInv

\* Every member of the active set has committed epoch e.
Covers(active, e) ==
    \A s \in Shards : active[s] # 0 => committed[s][active[s]] >= e

\* Republishing from epochs the members have committed stays complete.
LEMMA RepublishIsComplete ==
    ASSUME TypeOK, NEW a \in Aggregators,
           NEW active \in [Shards -> 0..MaxIncarnation],
           NEW reported \in [Shards -> Epochs \cup {None}],
           Republish(a, reported, {s \in Shards : active[s] # 0}),
           \A s \in Shards : active[s] # 0 => reported[s] <= committed[s][active[s]],
           Covers(active, published[a])
    PROVE  /\ Covers(active, published'[a])
           /\ published' \in [Aggregators -> Epochs \cup {None}]
           /\ \A b \in Aggregators : b # a => published'[b] = published[b]
<1> USE FrontierBoundAssumption
<1> DEFINE members == {s \in Shards : active[s] # 0}
<1>1. PICK meet \in Epochs \cup {None} :
         /\ IsMeet(meet, reported, members)
         /\ published' = [published EXCEPT ![a] =
               IF members = {} THEN None ELSE AdvancePublication(@, meet)]
  BY DEF Republish
<1>2. ASSUME NEW s \in Shards, active[s] # 0
      PROVE  committed[s][active[s]] \in Epochs
  <2>1. active[s] \in Incarnations
    BY <1>2 DEF Incarnations
  <2> QED BY <2>1 DEF TypeOK
<1>3. Covers(active, meet)
  <2> SUFFICES ASSUME NEW s \in Shards, active[s] # 0
               PROVE  committed[s][active[s]] >= meet
    BY DEF Covers
  <2>1. meet <= reported[s]
    BY <1>1, MeetIsLowerBound
  <2> QED BY <1>2, <2>1, EpochsAreIntegers
<1>4. Covers(active, None)
  BY <1>2 DEF Covers, None, Epochs
<1>5. published'[a] \in {None, published[a], meet}
  BY <1>1, LaterIsEither DEF TypeOK, AdvancePublication
<1>6. Covers(active, published'[a])
  BY <1>3, <1>4, <1>5
<1>7. published' \in [Aggregators -> Epochs \cup {None}]
  BY <1>1, <1>5 DEF TypeOK
<1> QED BY <1>1, <1>6, <1>7 DEF TypeOK

\* Complete is Covers of the generation's members.
LEMMA CompleteIsCovers ==
    ASSUME NEW g, NEW e
    PROVE  Complete(g, e) <=> Covers(configs[g], e)
BY DEF Complete, Covers

\* A change of membership keeps the invariant if the new members have
\* committed what the aggregator knows of them and what it has published.
LEMMA ChangeMembershipInv ==
    ASSUME IInv, NEW a \in Aggregators, a \notin Scalar,
           NEW active \in [Shards -> 0..MaxIncarnation],
           NEW reported \in [Shards -> Epochs \cup {None}],
           ChangeMembership(a, active, reported),
           \A s \in Shards : active[s] # 0 => reported[s] <= committed[s][active[s]],
           Covers(active, published[a])
    PROVE  IInv'
<1> USE FrontierBoundAssumption
<1>0. PICK next \in Generations : next = generation[a] + 1
  <2>1. generation[a] \in Generations
    BY DEF IInv, TypeOK, Placed, Keys
  <2>2. generation[a] + 1 <= MaxGeneration
    BY DEF ChangeMembership
  <2> QED BY <2>1, <2>2 DEF Generations
<1>1. generation[a] \in Generations /\ next # None
  BY <1>0 DEF IInv, TypeOK, Placed, Keys, Generations, None
<1>2. /\ UNCHANGED <<committed, publisher, token, call, fence, cache, durable,
                  errors, reopens>>
      /\ generation' = [generation EXCEPT ![a] = next]
      /\ epochs' = [epochs EXCEPT ![a] = reported]
  BY <1>0 DEF ChangeMembership
<1>3. /\ latest' \in Generations /\ latest <= latest' /\ next <= latest'
      /\ configs' \in [Generations -> [Shards -> 0..MaxIncarnation]]
      /\ configs'[next] = active
      /\ \A g \in Generations : g <= latest => configs'[g] = configs[g]
      /\ \A g \in Generations : g # next => configs'[g] = configs[g]
      /\ \A g \in Generations : g > latest' => g > latest
      /\ next <= latest => configs' = configs
  <2>1. IF next > latest
        THEN configs' = [configs EXCEPT ![next] = active] /\ latest' = next
        ELSE configs[next] = active /\ configs' = configs /\ latest' = latest
    BY <1>0 DEF ChangeMembership
  <2>2. /\ latest \in Generations
        /\ configs \in [Generations -> [Shards -> 0..MaxIncarnation]]
    BY DEF IInv, TypeOK
  <2>3. CASE next > latest
    <3>1. /\ latest' = next
          /\ configs' = [configs EXCEPT ![next] = active]
      BY <2>1, <2>3
    <3>2. configs' \in [Generations -> [Shards -> 0..MaxIncarnation]]
      BY <2>2, <3>1
    <3> QED BY <2>2, <2>3, <3>1, <3>2 DEF Generations
  <2>4. CASE ~(next > latest)
    BY <2>1, <2>2, <2>4, <1>1 DEF Generations
  <2> QED BY <2>3, <2>4
<1>4. /\ Covers(active, published'[a])
      /\ published' \in [Aggregators -> Epochs \cup {None}]
      /\ \A b \in Aggregators : b # a => published'[b] = published[b]
  BY RepublishIsComplete DEF IInv, ChangeMembership
<1>5. TypeOK'
  BY <1>1, <1>2, <1>3, <1>4 DEF IInv, TypeOK, Keys
<1>6. Placed'
  <2> SUFFICES ASSUME NEW b \in Aggregators
               PROVE  /\ b \in Scalar <=> generation'[b] = None
                      /\ generation'[b] <= latest'
                      /\ call'[b].key <= latest'
    BY DEF Placed
  <2>1. /\ call'[b].key = call[b].key
        /\ call[b].key <= latest /\ call[b].key \in Int
        /\ generation[b] <= latest /\ generation[b] \in Int
        /\ b \in Scalar <=> generation[b] = None
        /\ latest \in Int /\ latest' \in Int
    <3>1. call'[b] = call[b] /\ call[b].key \in Keys /\ generation[b] \in Keys
      BY <1>2 DEF IInv, TypeOK
    <3>2. Keys \subseteq Int /\ Generations \subseteq Int
      BY DEF Keys, Generations, None
    <3> QED BY <1>3, <3>1, <3>2 DEF IInv, TypeOK, Placed
  <2>2. generation'[b] = IF b = a THEN next ELSE generation[b]
    BY <1>2 DEF IInv, TypeOK
  <2> QED BY <2>1, <2>2, <1>1, <1>3 DEF Generations
<1>7. Fresh'
  BY <1>2, <1>3 DEF IInv, Fresh
<1>8. Real'
  <2> SUFFICES ASSUME NEW b \in Aggregators, NEW s \in Shards, b \notin Scalar,
                      configs'[generation'[b]][s] # 0
               PROVE  epochs'[b][s] <= committed[s][configs'[generation'[b]][s]]
    BY <1>2 DEF Real
  <2>1. CASE b = a
    BY <2>1, <1>1, <1>2, <1>3 DEF IInv, TypeOK
  <2>2. CASE b # a
    <3>1. generation'[b] = generation[b] /\ generation[b] \in Generations
             /\ generation[b] <= latest /\ epochs'[b] = epochs[b]
      BY <2>2, <1>2 DEF IInv, TypeOK, Placed, Keys
    <3>2. configs'[generation'[b]] = configs[generation[b]]
      BY <1>3, <3>1
    <3> QED BY <3>1, <3>2 DEF IInv, Real
  <2> QED BY <2>1, <2>2
<1>9. ASSUME NEW g \in Generations, NEW e, g <= latest, Complete(g, e)
      PROVE  Complete(g, e)'
  BY <1>9, <1>2, <1>3 DEF Complete
<1>10. \A s \in Shards : configs'[next][s] # 0 =>
          committed'[s][configs'[next][s]] >= published'[a]
  BY <1>2, <1>3, <1>4 DEF Covers
<1>11. \A s \in Shards : configs'[next][s] # 0 =>
          committed'[s][configs'[next][s]] >= None
  <2> SUFFICES ASSUME NEW s \in Shards, active[s] # 0
               PROVE  committed[s][active[s]] >= None
    BY <1>2, <1>3
  <2>1. active[s] \in Incarnations
    BY DEF Incarnations
  <2>2. committed[s][active[s]] \in Epochs
    BY <2>1 DEF IInv, TypeOK
  <2> QED BY <2>2 DEF Epochs, None
<1>12. Sound'
  <2>1. ASSUME NEW b \in Aggregators, generation'[b] # None
        PROVE  Complete(generation[b], published[b])'
    <3>1. CASE b = a
      <4>1. generation'[a] = next
        BY <1>2 DEF IInv, TypeOK
      <4> QED BY <3>1, <4>1, <1>10 DEF Complete
    <3>2. CASE b # a
      <4>1. generation'[b] = generation[b] /\ generation[b] \in Generations
               /\ generation[b] <= latest /\ published'[b] = published[b]
        BY <3>2, <2>1, <1>2, <1>4 DEF IInv, TypeOK, Placed, Keys
      <4>2. Complete(generation[b], published[b])
        BY <2>1, <4>1 DEF IInv, Sound
      <4>3. configs'[generation[b]] = configs[generation[b]]
        BY <4>1, <1>3
      <4> QED BY <4>1, <4>2, <4>3, <1>2 DEF Complete
    <3> QED BY <3>1, <3>2
  <2>2. ASSUME NEW b \in Aggregators, call'[b].key # None
        PROVE  Complete(call[b].key, call[b].meet)'
    <3>1. call'[b] = call[b] /\ call[b].key \in Generations /\ call[b].key <= latest
      BY <2>2, <1>2 DEF IInv, TypeOK, Placed, Keys
    <3>2. Complete(call[b].key, call[b].meet)
      BY <2>2, <1>2 DEF IInv, Sound
    <3>3. configs'[call[b].key] = configs[call[b].key]
      BY <3>1, <1>3
    <3> QED BY <3>1, <3>2, <3>3, <1>2 DEF Complete
  <2>3. ASSUME NEW g \in Generations
        PROVE  Complete(g, cache[g])' /\ Complete(g, durable[g])'
    <3>1. CASE configs'[g] = configs[g]
      BY <3>1, <1>2 DEF IInv, Sound, Complete
    <3>2. CASE configs'[g] # configs[g]
      <4>1. g = next /\ g > latest
        BY <3>2, <1>1, <1>3 DEF IInv, TypeOK, Generations
      <4>2. cache'[g] = None /\ durable'[g] = None
        BY <4>1, <1>2 DEF IInv, Fresh
      <4> QED BY <4>1, <4>2, <1>11 DEF Complete
    <3> QED BY <3>1, <3>2
  <2> QED BY <2>1, <2>2, <2>3 DEF Sound
<1> QED BY <1>5, <1>6, <1>7, <1>8, <1>12 DEF IInv


\* The members of an aggregator's generation have committed what it published.
LEMMA PublishedIsCovered ==
    ASSUME IInv, NEW a \in Aggregators, a \notin Scalar
    PROVE  /\ generation[a] \in Generations
           /\ configs[generation[a]] \in [Shards -> 0..MaxIncarnation]
           /\ Covers(configs[generation[a]], published[a])
           /\ published[a] \in Epochs \cup {None}
           /\ epochs[a] \in [Shards -> Epochs \cup {None}]
<1>1. generation[a] \in Generations /\ generation[a] # None
  BY FrontierBoundAssumption DEF IInv, TypeOK, Placed, Keys, Generations, None
<1>2. Complete(generation[a], published[a])
  BY <1>1 DEF IInv, Sound
<1> QED BY <1>1, <1>2, CompleteIsCovers DEF IInv, TypeOK

\* Admitting a member that is caught up with the publication keeps it covered.
LEMMA AdmitMember ==
    ASSUME IInv, NEW a \in Aggregators, a \notin Scalar,
           NEW s \in Shards, NEW i \in Incarnations, NEW bootstrap \in Epochs,
           bootstrap <= committed[s][i], CaughtUp(a, bootstrap),
           NEW active \in [Shards -> 0..MaxIncarnation],
           NEW reported \in [Shards -> Epochs \cup {None}],
           active[s] = i, reported[s] = bootstrap,
           \A z \in Shards : z # s /\ active[z] # 0 =>
               /\ active[z] = configs[generation[a]][z]
               /\ reported[z] = epochs[a][z],
           ChangeMembership(a, active, reported)
    PROVE  IInv'
<1>1. committed[s][i] \in Epochs /\ published[a] \in Epochs \cup {None}
  BY DEF IInv, TypeOK
<1>2. bootstrap >= published[a]
  BY DEF CaughtUp
<1>3. committed[s][i] >= published[a]
  BY <1>1, <1>2, EpochsAreIntegers
<1>4. Covers(configs[generation[a]], published[a])
  BY PublishedIsCovered
<1>5. Covers(active, published[a])
  BY <1>3, <1>4 DEF Covers
<1>6. \A z \in Shards : active[z] # 0 => reported[z] <= committed[z][active[z]]
  BY DEF IInv, Real
<1> QED BY <1>5, <1>6, ChangeMembershipInv

\* activate_shard keeps the invariant.
LEMMA ActivateShardInv ==
    ASSUME IInv, NEW a \in Aggregators, NEW s \in Shards, NEW i \in Incarnations,
           NEW bootstrap \in Epochs, ActivateShard(a, s, i, bootstrap)
    PROVE  IInv'
<1>0. a \notin Scalar /\ bootstrap <= committed[s][i] /\ CaughtUp(a, bootstrap)
  BY DEF ActivateShard
<1>1. PICK active : active = [configs[generation[a]] EXCEPT ![s] = i]
  OBVIOUS
<1>2. PICK reported : reported = [epochs[a] EXCEPT ![s] = bootstrap]
  OBVIOUS
<1>3. active \in [Shards -> 0..MaxIncarnation] /\ active[s] = i
  BY <1>0, <1>1, PublishedIsCovered, FrontierBoundAssumption DEF Incarnations
<1>4. reported \in [Shards -> Epochs \cup {None}] /\ reported[s] = bootstrap
  BY <1>0, <1>2, PublishedIsCovered
<1>5. \A z \in Shards : z # s =>
         active[z] = configs[generation[a]][z] /\ reported[z] = epochs[a][z]
  BY <1>0, <1>1, <1>2, PublishedIsCovered
<1>6. ChangeMembership(a, active, reported)
  BY <1>1, <1>2 DEF ActivateShard
<1> QED BY <1>0, <1>3, <1>4, <1>5, <1>6, AdmitMember

\* replace_shard keeps the invariant.
LEMMA ReplaceShardInv ==
    ASSUME IInv, NEW a \in Aggregators, NEW old \in Shards, NEW s \in Shards,
           NEW i \in Incarnations, NEW bootstrap \in Epochs,
           ReplaceShard(a, old, s, i, bootstrap)
    PROVE  IInv'
<1>0. a \notin Scalar /\ bootstrap <= committed[s][i] /\ CaughtUp(a, bootstrap)
  BY DEF ReplaceShard
<1>1. PICK active :
         active = [configs[generation[a]] EXCEPT ![old] = 0, ![s] = i]
  OBVIOUS
<1>2. PICK reported :
         reported = [epochs[a] EXCEPT ![old] = None, ![s] = bootstrap]
  OBVIOUS
<1>3. active \in [Shards -> 0..MaxIncarnation] /\ active[s] = i
  BY <1>0, <1>1, PublishedIsCovered, FrontierBoundAssumption DEF Incarnations
<1>4. reported \in [Shards -> Epochs \cup {None}] /\ reported[s] = bootstrap
  BY <1>0, <1>2, PublishedIsCovered
<1>5. \A z \in Shards : z # s /\ active[z] # 0 =>
         active[z] = configs[generation[a]][z] /\ reported[z] = epochs[a][z]
  BY <1>0, <1>1, <1>2, PublishedIsCovered
<1>6. ChangeMembership(a, active, reported)
  BY <1>1, <1>2 DEF ReplaceShard
<1> QED BY <1>0, <1>3, <1>4, <1>5, <1>6, AdmitMember

\* retire_shard keeps the invariant: fewer members have to be covered.
LEMMA RetireShardInv ==
    ASSUME IInv, NEW a \in Aggregators, NEW s \in Shards, RetireShard(a, s)
    PROVE  IInv'
<1>0. a \notin Scalar
  BY DEF RetireShard
<1>1. PICK active : active = [configs[generation[a]] EXCEPT ![s] = 0]
  OBVIOUS
<1>2. PICK reported : reported = [epochs[a] EXCEPT ![s] = None]
  OBVIOUS
<1>3. active \in [Shards -> 0..MaxIncarnation] /\ active[s] = 0
  BY <1>0, <1>1, PublishedIsCovered, FrontierBoundAssumption
<1>4. reported \in [Shards -> Epochs \cup {None}]
  BY <1>0, <1>2, PublishedIsCovered
<1>5. \A z \in Shards : z # s =>
         active[z] = configs[generation[a]][z] /\ reported[z] = epochs[a][z]
  BY <1>0, <1>1, <1>2, PublishedIsCovered
<1>6. ChangeMembership(a, active, reported)
  BY <1>1, <1>2 DEF RetireShard
<1>7. Covers(active, published[a])
  BY <1>0, <1>3, <1>5, PublishedIsCovered DEF Covers
<1>8. \A z \in Shards : active[z] # 0 => reported[z] <= committed[z][active[z]]
  BY <1>0, <1>3, <1>5 DEF IInv, Real
<1> QED BY <1>0, <1>3, <1>4, <1>6, <1>7, <1>8, ChangeMembershipInv

\* Steps that leave the memberships and the commits alone keep the invariant
\* if what they publish, note and store is complete.
LEMMA FrameInv ==
    ASSUME IInv, TypeOK', Real',
           UNCHANGED <<committed, configs, latest, generation>>,
           \A b \in Aggregators :
               generation[b] # None => Complete(generation[b], published'[b]),
           \A b \in Aggregators :
               /\ call'[b].key <= latest
               /\ call'[b].key # None => Complete(call'[b].key, call'[b].meet),
           \A g \in Generations :
               /\ Complete(g, cache'[g]) /\ Complete(g, durable'[g])
               /\ g > latest => cache'[g] = None /\ durable'[g] = None
    PROVE  IInv'
<1>1. Placed'
  BY DEF IInv, Placed
<1>2. Sound'
  BY DEF Sound, Complete
<1>3. Fresh'
  BY DEF Fresh
<1> QED BY <1>1, <1>2, <1>3 DEF IInv

\* What the invariant says of every frontier in sight.
LEMMA InSight ==
    ASSUME IInv
    PROVE  /\ \A b \in Aggregators :
                 generation[b] # None => Complete(generation[b], published[b])
           /\ \A b \in Aggregators :
                 /\ call[b].key <= latest
                 /\ call[b].key # None => Complete(call[b].key, call[b].meet)
           /\ \A g \in Generations :
                 /\ Complete(g, cache[g]) /\ Complete(g, durable[g])
                 /\ g > latest => cache[g] = None /\ durable[g] = None
BY DEF IInv, Placed, Sound, Fresh

\* Nothing published is complete.
LEMMA NoneIsComplete ==
    ASSUME TypeOK, NEW g \in Generations
    PROVE  Complete(g, None)
<1> SUFFICES ASSUME NEW s \in Shards, configs[g][s] # 0
             PROVE  committed[s][configs[g][s]] >= None
  BY DEF Complete
<1> QED BY MemberHasCommitted, FrontierBoundAssumption DEF Epochs, None

\* A call that ends leaves nothing behind.
LEMMA EndCallIsQuiet ==
    ASSUME IInv, NEW a \in Aggregators, EndCall(a)
    PROVE  /\ call' \in [Aggregators ->
                [step : {"none", "cas", "handoff", "peek", "write"}, key : Keys,
                 seen : 0..MaxToken, meet : Epochs \cup {None}]]
           /\ \A b \in Aggregators :
                 /\ call'[b].key <= latest
                 /\ call'[b].key # None => Complete(call'[b].key, call'[b].meet)
<1> USE FrontierBoundAssumption
<1>1. NoCall \in [step : {"none", "cas", "handoff", "peek", "write"}, key : Keys,
                  seen : 0..MaxToken, meet : Epochs \cup {None}]
  BY DEF NoCall, Keys
<1>2. NoCall.key = None /\ None <= latest
  BY DEF NoCall, IInv, TypeOK, Generations, None
<1>3. \A b \in Aggregators : call'[b] = IF b = a THEN NoCall ELSE call[b]
  BY DEF EndCall, IInv, TypeOK
<1>4. call' \in [Aggregators ->
                [step : {"none", "cas", "handoff", "peek", "write"}, key : Keys,
                 seen : 0..MaxToken, meet : Epochs \cup {None}]]
  BY <1>1 DEF EndCall, IInv, TypeOK
<1> QED BY <1>2, <1>3, <1>4, InSight

\* An admitted report is of the active incarnation, which has committed it.
LEMMA ReportInv ==
    ASSUME IInv, NEW a \in Aggregators, NEW s \in Shards, NEW i \in Incarnations,
           NEW g \in Generations, NEW e \in Epochs,
           IngestMembershipReport(a, s, i, g, e)
    PROVE  IInv'
<1>0. a \notin Scalar /\ e <= committed[s][i] /\ configs[generation[a]][s] = i
  BY DEF IngestMembershipReport, Admitted
<1>1. PICK reported : reported = [epochs[a] EXCEPT ![s] = Later(e, @)]
  OBVIOUS
<1>2. PICK active : active = configs[generation[a]]
  OBVIOUS
<1>3. Later(e, epochs[a][s]) \in {e, epochs[a][s]}
  BY LaterIsEither
<1>4. reported \in [Shards -> Epochs \cup {None}]
  BY <1>0, <1>1, <1>3, PublishedIsCovered
<1>5. active \in [Shards -> 0..MaxIncarnation] /\ Covers(active, published[a])
  BY <1>0, <1>2, PublishedIsCovered
<1>6. \A z \in Shards : active[z] # 0 => reported[z] <= committed[z][active[z]]
  <2> SUFFICES ASSUME NEW z \in Shards, active[z] # 0
               PROVE  reported[z] <= committed[z][active[z]]
    OBVIOUS
  <2>1. epochs[a][z] <= committed[z][active[z]]
    BY <1>0, <1>2 DEF IInv, Real
  <2>2. reported[z] \in {epochs[a][z]} \cup (IF z = s THEN {e} ELSE {})
    BY <1>0, <1>1, <1>3, PublishedIsCovered
  <2> QED BY <1>0, <1>2, <2>1, <2>2
<1>7. /\ epochs' = [epochs EXCEPT ![a] = reported]
      /\ Republish(a, reported, {z \in Shards : active[z] # 0})
      /\ UNCHANGED <<committed, configs, latest, generation, publisher, token,
                     call, fence, cache, durable,
                  errors, reopens>>
  BY <1>1, <1>2 DEF IngestMembershipReport, Active
<1>8. /\ Covers(active, published'[a])
      /\ published' \in [Aggregators -> Epochs \cup {None}]
      /\ \A b \in Aggregators : b # a => published'[b] = published[b]
  BY <1>4, <1>5, <1>6, <1>7, RepublishIsComplete DEF IInv
<1>9. TypeOK'
  BY <1>4, <1>7, <1>8 DEF IInv, TypeOK
<1>10. Real'
  BY <1>2, <1>6, <1>7 DEF IInv, TypeOK, Real
<1>11. \A b \in Aggregators :
          generation[b] # None => Complete(generation[b], published'[b])
  BY <1>2, <1>8, InSight, CompleteIsCovers
<1> QED BY <1>7, <1>9, <1>10, <1>11, InSight, FrameInv

\* ingest touches a scalar aggregator only.
LEMMA IngestInv ==
    ASSUME IInv, NEW a \in Aggregators, NEW s \in Shards, NEW e \in Epochs,
           Ingest(a, s, e)
    PROVE  IInv'
<1>0. a \in Scalar /\ generation[a] = None
  BY DEF Ingest, IInv, Placed
<1>1. PICK reported : reported = [epochs[a] EXCEPT ![s] = Later(e, @)]
  OBVIOUS
<1>2. /\ epochs' = [epochs EXCEPT ![a] = reported]
      /\ Republish(a, reported, Counted(a) \cup {s})
      /\ UNCHANGED <<committed, configs, latest, generation, publisher, token,
                     call, fence, cache, durable,
                  errors, reopens>>
  BY <1>1 DEF Ingest
<1>3. reported \in [Shards -> Epochs \cup {None}]
  BY <1>1, LaterIsEither DEF IInv, TypeOK
<1>4. PICK meet \in Epochs \cup {None} :
         published' = [published EXCEPT ![a] =
            IF Counted(a) \cup {s} = {} THEN None ELSE AdvancePublication(@, meet)]
  BY <1>2 DEF Republish
<1>5. published'[a] \in {None, published[a], meet}
  BY <1>4, LaterIsEither DEF IInv, TypeOK, AdvancePublication
<1>6. /\ published' \in [Aggregators -> Epochs \cup {None}]
      /\ \A b \in Aggregators : b # a => published'[b] = published[b]
  BY <1>4, <1>5 DEF IInv, TypeOK
<1>7. TypeOK'
  BY <1>2, <1>3, <1>6 DEF IInv, TypeOK
<1>8. Real'
  BY <1>0, <1>2 DEF IInv, TypeOK, Real
<1>9. \A b \in Aggregators :
         generation[b] # None => Complete(generation[b], published'[b])
  BY <1>0, <1>6, InSight
<1> QED BY <1>2, <1>7, <1>8, <1>9, InSight, FrameInv

\* The key an aggregator works under is its generation, and it is reached.
LEMMA KeyIsReached ==
    ASSUME IInv, NEW a \in Aggregators
    PROVE  generation[a] \in Keys /\ generation[a] <= latest
BY DEF IInv, TypeOK, Placed

\* acquire_lease notes a membership and no frontier.
LEMMA BeginAcquireInv ==
    ASSUME IInv, NEW a \in Aggregators, BeginAcquire(a)
    PROVE  IInv'
<1> USE FrontierBoundAssumption
<1>1. PICK c : c = [NoCall EXCEPT !.step = "cas", !.key = generation[a], !.seen = fence]
  OBVIOUS
<1>2. c = [step |-> "cas", key |-> generation[a], seen |-> fence, meet |-> None]
  BY <1>1 DEF NoCall
<1>3. call' = [call EXCEPT ![a] = c]
  BY <1>1 DEF BeginAcquire
<1>4. UNCHANGED <<committed, configs, latest, generation, epochs, published,
                  publisher, token, fence, cache, durable,
                  errors, reopens>>
  BY DEF BeginAcquire, aggregator
<1>5. TypeOK'
  BY <1>2, <1>3, <1>4, KeyIsReached DEF IInv, TypeOK
<1>6. Real'
  BY <1>4 DEF IInv, Real
<1>7. \A b \in Aggregators : call'[b] = IF b = a THEN c ELSE call[b]
  BY <1>3 DEF IInv, TypeOK
<1>8. c.key # None => Complete(c.key, c.meet)
  BY <1>2, KeyIsReached, NoneIsComplete DEF IInv, Keys
<1>9. c.key <= latest
  BY <1>2, KeyIsReached
<1> QED BY <1>4, <1>5, <1>6, <1>7, <1>8, <1>9, InSight, FrameInv

\* The compare-and-swap changes the token and the step of the call.
LEMMA AcquireInv ==
    ASSUME IInv, NEW a \in Aggregators, AcquirePublisherLease(a)
    PROVE  IInv'
<1> USE FrontierBoundAssumption
<1>1. UNCHANGED <<committed, configs, latest, generation, epochs, published,
                  token, cache, durable,
                  errors, reopens>>
  BY DEF AcquirePublisherLease
<1>2. Real'
  BY <1>1 DEF IInv, Real
<1>3. CASE call[a].seen = fence
  <2>1. /\ fence' = fence + 1 /\ fence' \in 0..MaxToken
        /\ call' = [call EXCEPT ![a] =
              [call[a] EXCEPT !.step = "handoff", !.seen = fence']]
        /\ publisher' = publisher
    BY <1>3 DEF AcquirePublisherLease, NextFence, IInv, TypeOK
  <2>2. call' \in [Aggregators ->
                [step : {"none", "cas", "handoff", "peek", "write"}, key : Keys,
                 seen : 0..MaxToken, meet : Epochs \cup {None}]]
    <3>1. call[a] \in [step : {"none", "cas", "handoff", "peek", "write"}, key : Keys,
                       seen : 0..MaxToken, meet : Epochs \cup {None}]
      BY DEF IInv, TypeOK
    <3>2. [call[a] EXCEPT !.step = "handoff", !.seen = fence']
             \in [step : {"none", "cas", "handoff", "peek", "write"}, key : Keys,
                 seen : 0..MaxToken, meet : Epochs \cup {None}]
      BY <2>1, <3>1
    <3> QED BY <2>1, <3>2 DEF IInv, TypeOK
  <2>3. TypeOK'
    BY <1>1, <2>1, <2>2 DEF IInv, TypeOK
  <2>4. \A b \in Aggregators : call'[b].key = call[b].key /\ call'[b].meet = call[b].meet
    BY <2>1 DEF IInv, TypeOK
  <2> QED BY <1>1, <1>2, <2>3, <2>4, InSight, FrameInv
<1>4. CASE call[a].seen # fence
  <2>1. EndCall(a) /\ publisher' = [publisher EXCEPT ![a] = FALSE] /\ fence' = fence
    BY <1>4 DEF AcquirePublisherLease
  <2>2. TypeOK'
    BY <1>1, <2>1, EndCallIsQuiet DEF IInv, TypeOK
  <2> QED BY <1>1, <1>2, <2>1, <2>2, InSight, EndCallIsQuiet, FrameInv
<1> QED BY <1>3, <1>4

\* The frontier handed over is folded in only under the generation it was
\* read for.
LEMMA HandoffInv ==
    ASSUME IInv, NEW a \in Aggregators, Handoff(a)
    PROVE  IInv'
<1> USE FrontierBoundAssumption
<1>1. PICK k \in Keys : k = call[a].key
  BY DEF IInv, TypeOK
<1>2. PICK f : f = IF k = None \/ cache[k] # None THEN cache[k] ELSE durable[k]
  OBVIOUS
<1>3. f \in Epochs \cup {None}
  BY <1>2 DEF IInv, TypeOK
<1>4. /\ cache' = [cache EXCEPT ![k] = f]
      /\ published' = [published EXCEPT ![a] =
            IF generation[a] = k THEN Later(f, @) ELSE @]
      /\ publisher' = [publisher EXCEPT ![a] = TRUE]
      /\ token' = [token EXCEPT ![a] = call[a].seen]
      /\ EndCall(a)
      /\ UNCHANGED <<committed, configs, latest, generation, epochs, fence,
                     durable, errors, reopens>>
  BY <1>1, <1>2 DEF Handoff, SameMembership
<1>5. k # None => Complete(k, f)
  BY <1>2, InSight DEF Keys
<1>6. Later(f, published[a]) \in {f, published[a]}
  BY LaterIsEither
<1>7. \A b \in Aggregators : published'[b] =
         IF b = a /\ generation[a] = k THEN Later(f, published[a]) ELSE published[b]
  BY <1>4 DEF IInv, TypeOK
<1>8. \A b \in Aggregators :
         generation[b] # None => Complete(generation[b], published'[b])
  BY <1>5, <1>6, <1>7, InSight
<1>9. TypeOK'
  BY <1>3, <1>4, <1>6, EndCallIsQuiet DEF IInv, TypeOK
<1>10. Real'
  BY <1>4 DEF IInv, Real
<1>11. \A g \in Generations :
          /\ Complete(g, cache'[g]) /\ Complete(g, durable'[g])
          /\ g > latest => cache'[g] = None /\ durable'[g] = None
  <2>1. \A g \in Generations : cache'[g] \in {cache[g], durable[g]}
    BY <1>2, <1>4 DEF IInv, TypeOK, Keys
  <2> QED BY <1>4, <2>1, InSight
<1> QED BY <1>4, <1>8, <1>9, <1>10, <1>11, EndCallIsQuiet, FrameInv

\* The meet a publisher notes is complete for the generation it notes.
LEMMA BeginPublishInv ==
    ASSUME IInv, NEW a \in Aggregators, BeginPublish(a)
    PROVE  IInv'
<1> USE FrontierBoundAssumption
<1>1. PICK meet \in Epochs :
         /\ IsMeet(meet, epochs[a], Counted(a))
         /\ call' = [call EXCEPT ![a] =
               [step |-> "peek", key |-> generation[a], seen |-> token[a],
                meet |-> meet]]
  BY DEF BeginPublish
<1>2. PICK c : c = [step |-> "peek", key |-> generation[a], seen |-> token[a],
                    meet |-> meet]
  OBVIOUS
<1>3. UNCHANGED <<committed, configs, latest, generation, epochs, published,
                  publisher, token, fence, cache, durable,
                  errors, reopens>>
  BY DEF BeginPublish, aggregator
<1>4. generation[a] # None => Complete(generation[a], meet)
  <2> SUFFICES ASSUME generation[a] # None, NEW s \in Shards,
                      configs[generation[a]][s] # 0
               PROVE  committed[s][configs[generation[a]][s]] >= meet
    BY DEF Complete
  <2>1. a \notin Scalar /\ generation[a] \in Generations
    BY DEF IInv, TypeOK, Placed, Keys
  <2>2. s \in Counted(a)
    BY <2>1 DEF Counted, Active
  <2>3. meet <= epochs[a][s]
    BY <1>1, <2>2, MeetIsLowerBound
  <2>4. epochs[a][s] <= committed[s][configs[generation[a]][s]]
    BY <2>1 DEF IInv, Real
  <2>5. committed[s][configs[generation[a]][s]] \in Epochs
    BY <2>1, MemberHasCommitted DEF IInv
  <2>6. epochs[a][s] \in Epochs \cup {None}
    BY DEF IInv, TypeOK
  <2> QED BY <2>3, <2>4, <2>5, <2>6, EpochsAreIntegers
<1>5. TypeOK'
  BY <1>1, <1>3, KeyIsReached DEF IInv, TypeOK
<1>6. Real'
  BY <1>3 DEF IInv, Real
<1>7. \A b \in Aggregators : call'[b] = IF b = a THEN c ELSE call[b]
  BY <1>1, <1>2 DEF IInv, TypeOK
<1>8. c.key = generation[a] /\ c.meet = meet
  BY <1>2
<1> QED BY <1>3, <1>4, <1>5, <1>6, <1>7, <1>8, KeyIsReached, InSight, FrameInv

\* The peek moves the call on or ends it.
LEMMA PeekFenceInv ==
    ASSUME IInv, NEW a \in Aggregators, PeekFence(a)
    PROVE  IInv'
<1>1. UNCHANGED <<committed, configs, latest, generation, epochs, published,
                  token, fence, cache, durable,
                  errors, reopens>>
  BY DEF PeekFence
<1>2. Real'
  BY <1>1 DEF IInv, Real
<1>3. CASE call[a].seen = fence
  <2>1. call' = [call EXCEPT ![a].step = "write"] /\ publisher' = publisher
    BY <1>3 DEF PeekFence
  <2>2. TypeOK'
    BY <1>1, <2>1 DEF IInv, TypeOK
  <2>3. \A b \in Aggregators : call'[b].key = call[b].key /\ call'[b].meet = call[b].meet
    BY <2>1 DEF IInv, TypeOK
  <2> QED BY <1>1, <1>2, <2>2, <2>3, InSight, FrameInv
<1>4. CASE call[a].seen # fence
  <2>1. EndCall(a) /\ publisher' = [publisher EXCEPT ![a] = FALSE]
    BY <1>4 DEF PeekFence
  <2>2. TypeOK'
    BY <1>1, <2>1, EndCallIsQuiet DEF IInv, TypeOK
  <2> QED BY <1>1, <1>2, <2>1, <2>2, InSight, EndCallIsQuiet, FrameInv
<1> QED BY <1>3, <1>4

\* What a publisher writes was complete when it was noted and still is.
LEMMA PublishFrontierInv ==
    ASSUME IInv, NEW a \in Aggregators, PublishFrontier(a)
    PROVE  IInv'
<1> USE FrontierBoundAssumption
<1>1. PICK k \in Keys : k = call[a].key
  BY DEF IInv, TypeOK
<1>2. PICK m \in Epochs \cup {None} : m = call[a].meet
  BY DEF IInv, TypeOK
<1>3. /\ EndCall(a)
      /\ UNCHANGED <<committed, configs, latest, generation, epochs,
                     publisher, token, fence, errors, reopens>>
  BY DEF PublishFrontier
<1>4. \/ UNCHANGED <<cache, durable>>
      \/ /\ cache' = [cache EXCEPT ![k] = m]
         /\ durable' = [durable EXCEPT ![k] = m]
  BY <1>1, <1>2 DEF PublishFrontier
<1>5. \/ published' = published
      \/ published' = [published EXCEPT ![a] =
            IF generation[a] = k THEN Later(m, @) ELSE @]
  BY <1>1, <1>2 DEF PublishFrontier, SameMembership
<1>6. /\ k # None => Complete(k, m)
      /\ k <= latest
  BY <1>1, <1>2, InSight
<1>7. Later(m, published[a]) \in {m, published[a]}
  BY LaterIsEither
<1>8. \A b \in Aggregators :
         \/ published'[b] = published[b]
         \/ b = a /\ generation[a] = k /\ published'[b] = m
  BY <1>5, <1>7 DEF IInv, TypeOK
<1>9. \A b \in Aggregators :
         generation[b] # None => Complete(generation[b], published'[b])
  BY <1>6, <1>8, InSight
<1>10. published' \in [Aggregators -> Epochs \cup {None}]
  <2>1. published \in [Aggregators -> Epochs \cup {None}]
    BY DEF IInv, TypeOK
  <2>2. CASE published' = published
    BY <2>1, <2>2
  <2>3. CASE published' = [published EXCEPT ![a] =
               IF generation[a] = k THEN Later(m, @) ELSE @]
    BY <1>7, <2>1, <2>3
  <2> QED BY <1>5, <2>2, <2>3
<1>11. /\ cache' \in [Keys -> Epochs \cup {None}]
       /\ durable' \in [Keys -> Epochs \cup {None}]
  <2>1. /\ cache \in [Keys -> Epochs \cup {None}]
        /\ durable \in [Keys -> Epochs \cup {None}]
    BY DEF IInv, TypeOK
  <2>2. CASE UNCHANGED <<cache, durable>>
    BY <2>1, <2>2
  <2>3. CASE /\ cache' = [cache EXCEPT ![k] = m]
             /\ durable' = [durable EXCEPT ![k] = m]
    BY <2>1, <2>3
  <2> QED BY <1>4, <2>2, <2>3
<1>12. TypeOK'
  BY <1>3, <1>10, <1>11, EndCallIsQuiet DEF IInv, TypeOK
<1>13. Real'
  BY <1>3 DEF IInv, Real
<1>14. \A g \in Generations :
          /\ Complete(g, cache'[g]) /\ Complete(g, durable'[g])
          /\ g > latest => cache'[g] = None /\ durable'[g] = None
  <2> SUFFICES ASSUME NEW g \in Generations
               PROVE  /\ Complete(g, cache'[g]) /\ Complete(g, durable'[g])
                      /\ g > latest => cache'[g] = None /\ durable'[g] = None
    OBVIOUS
  <2>1. \/ cache'[g] = cache[g] /\ durable'[g] = durable[g]
        \/ g = k /\ cache'[g] = m /\ durable'[g] = m
    BY <1>4 DEF IInv, TypeOK, Keys
  <2>2. g # None /\ g \in Int /\ latest \in Int
    BY DEF Generations, None, IInv, TypeOK
  <2> QED BY <1>6, <2>1, <2>2, InSight
<1> QED BY <1>3, <1>9, <1>12, <1>13, <1>14, EndCallIsQuiet, FrameInv

\* A failed call publishes nothing, and what it may have stored was complete.
LEMMA StorageErrorInv ==
    ASSUME IInv, NEW a \in Aggregators, StorageError(a)
    PROVE  IInv'
<1> USE FrontierBoundAssumption
<1>1. PICK k \in Keys : k = call[a].key
  BY DEF IInv, TypeOK
<1>2. PICK m \in Epochs \cup {None} : m = call[a].meet
  BY DEF IInv, TypeOK
<1>3. /\ EndCall(a)
      /\ UNCHANGED <<committed, configs, latest, generation, epochs, published,
                     publisher, token, fence, cache, reopens>>
      /\ errors' \in 0..MaxErrors
  BY DEF StorageError, aggregator, IInv, TypeOK
<1>4. durable' = durable \/ durable' = [durable EXCEPT ![k] = m]
  BY <1>1, <1>2 DEF StorageError
<1>5. /\ k # None => Complete(k, m)
      /\ k <= latest
  BY <1>1, <1>2, InSight
<1>6. durable' \in [Keys -> Epochs \cup {None}]
  BY <1>4 DEF IInv, TypeOK
<1>7. TypeOK'
  BY <1>3, <1>6, EndCallIsQuiet DEF IInv, TypeOK
<1>8. Real'
  BY <1>3 DEF IInv, Real
<1>9. \A g \in Generations :
         /\ Complete(g, cache'[g]) /\ Complete(g, durable'[g])
         /\ g > latest => cache'[g] = None /\ durable'[g] = None
  <2> SUFFICES ASSUME NEW g \in Generations
               PROVE  /\ Complete(g, cache'[g]) /\ Complete(g, durable'[g])
                      /\ g > latest => cache'[g] = None /\ durable'[g] = None
    OBVIOUS
  <2>1. \/ durable'[g] = durable[g]
        \/ g = k /\ durable'[g] = m
    <3>1. durable \in [Keys -> Epochs \cup {None}] /\ g \in Keys
      BY DEF IInv, TypeOK, Keys
    <3>2. CASE durable' = durable
      BY <3>2
    <3>3. CASE durable' = [durable EXCEPT ![k] = m]
      BY <3>1, <3>3
    <3> QED BY <1>4, <3>2, <3>3
  <2>2. g # None /\ g \in Int /\ latest \in Int
    BY DEF Generations, None, IInv, TypeOK
  <2> QED BY <1>3, <1>5, <2>1, <2>2, InSight
<1> QED BY <1>3, <1>7, <1>8, <1>9, InSight, EndCallIsQuiet, FrameInv

\* A new process knows nothing but the stored frontiers.
LEMMA ReopenInv ==
    ASSUME IInv, Reopen
    PROVE  IInv'
<1> USE FrontierBoundAssumption
<1>1. /\ epochs' = [a \in Aggregators |-> [s \in Shards |-> None]]
      /\ published' = [a \in Aggregators |-> None]
      /\ publisher' = [a \in Aggregators |-> FALSE]
      /\ token' = [a \in Aggregators |-> 0]
      /\ call' = [a \in Aggregators |-> NoCall]
      /\ UNCHANGED <<committed, configs, latest, generation, fence, durable, errors>>
      /\ reopens' \in 0..MaxReopens
  BY DEF Reopen, IInv, TypeOK
<1>2. cache' = [k \in Keys |-> IF k = None THEN durable[None] ELSE None]
  BY DEF Reopen, CacheAtOpen
<1>3. NoCall \in [step : {"none", "cas", "handoff", "peek", "write"}, key : Keys,
                  seen : 0..MaxToken, meet : Epochs \cup {None}]
  BY DEF NoCall, Keys
<1>4. TypeOK'
  BY <1>1, <1>2, <1>3 DEF IInv, TypeOK, Keys
<1>5. Real'
  <2> SUFFICES ASSUME NEW a \in Aggregators, NEW s \in Shards, a \notin Scalar,
                      configs[generation[a]][s] # 0
               PROVE  None <= committed[s][configs[generation[a]][s]]
    BY <1>1 DEF Real
  <2>1. generation[a] \in Generations
    BY DEF IInv, TypeOK, Placed, Keys
  <2> QED BY <2>1, MemberHasCommitted DEF IInv, Epochs, None
<1>6. \A b \in Aggregators :
         generation[b] # None => Complete(generation[b], published'[b])
  BY <1>1, NoneIsComplete DEF IInv, TypeOK, Keys
<1>7. NoCall.key = None /\ None <= latest
  BY DEF NoCall, None, IInv, TypeOK, Generations
<1>8. \A g \in Generations : cache'[g] = None
  BY <1>2 DEF Keys, Generations, None
<1>9. \A g \in Generations :
         /\ Complete(g, cache'[g]) /\ Complete(g, durable'[g])
         /\ g > latest => cache'[g] = None /\ durable'[g] = None
  BY <1>1, <1>8, InSight, NoneIsComplete DEF IInv
<1> QED BY <1>1, <1>4, <1>5, <1>6, <1>7, <1>9, FrameInv

\* IInv is inductive.
LEMMA StepInv ==
    ASSUME IInv, [Next]_vars
    PROVE  IInv'
<1>1. CASE UNCHANGED vars
  <2>1. UNCHANGED <<committed, configs, latest, generation, epochs, published,
                    publisher, token, call, fence, cache, durable,
                  errors, reopens>>
    BY <1>1 DEF vars, aggregator
  <2>2. TypeOK'
    BY <2>1 DEF IInv, TypeOK
  <2>3. Real'
    BY <2>1 DEF IInv, Real
  <2> QED BY <2>1, <2>2, <2>3, InSight, FrameInv
<1>2. CASE \E s \in Shards, i \in Incarnations : Commit(s, i)
  BY <1>2, CommitInv
<1>3. CASE Reopen
  BY <1>3, ReopenInv
<1>4. ASSUME NEW a \in Aggregators,
             \/ \E s \in Shards : RetireShard(a, s)
             \/ \E s \in Shards, i \in Incarnations, e \in Epochs :
                   \/ ActivateShard(a, s, i, e)
                   \/ \E old \in Shards : ReplaceShard(a, old, s, i, e)
                   \/ \E g \in Generations : IngestMembershipReport(a, s, i, g, e)
             \/ \E s \in Shards, e \in Epochs : Ingest(a, s, e)
      PROVE  IInv'
  BY <1>4, RetireShardInv, ActivateShardInv, ReplaceShardInv, ReportInv, IngestInv
<1>5. ASSUME NEW a \in Aggregators,
             \/ BeginAcquire(a) \/ AcquirePublisherLease(a) \/ Handoff(a)
             \/ BeginPublish(a) \/ PeekFence(a) \/ PublishFrontier(a)
             \/ StorageError(a)
      PROVE  IInv'
  BY <1>5, BeginAcquireInv, AcquireInv, HandoffInv, BeginPublishInv,
     PeekFenceInv, PublishFrontierInv, StorageErrorInv
<1> QED BY <1>1, <1>2, <1>3, <1>4, <1>5 DEF Next

\* What the property says follows from the invariant.
LEMMA InvIsComplete == IInv => FrontierIsComplete
<1> SUFFICES ASSUME IInv PROVE FrontierIsComplete
  OBVIOUS
<1>1. \A a \in Aggregators \ Scalar : Complete(generation[a], published[a])
  BY DEF IInv, Placed, Sound
<1>2. \A g \in 0..latest : g \in Generations
  BY FrontierBoundAssumption DEF IInv, TypeOK, Generations
<1> QED BY <1>1, <1>2 DEF FrontierIsComplete, IInv, Sound

\* The aggregators, the calls and the store keep their types.
THEOREM FrontierTypeCorrectness == Spec => []TypeOK
<1>1. IInv => TypeOK
  BY DEF IInv
<1> QED BY <1>1, InitInv, StepInv, PTL DEF Spec

\* No publication and no stored frontier of a membership generation ever claims
\* an epoch that an active member has not committed, however reports, changes
\* of membership, takeovers, storage errors and restarts interleave.
THEOREM FrontierCompleteness == Spec => []FrontierIsComplete
BY InitInv, StepInv, InvIsComplete, PTL DEF Spec

-----------------------------------------------------------------------------
(* One publisher.  SinglePublisher alone says nothing of a lease that has   *)
(* been granted and not yet handed over, nor that no token is ahead of the  *)
(* fence; both are what the next grant relies on.                           *)

\* a holds the current token, or has been granted it and is in the handoff.
Current(a) ==
    \/ publisher[a] /\ token[a] = fence
    \/ call[a].step = "handoff" /\ call[a].seen = fence

\* No token is ahead of the fence, and at most one aggregator has the current.
Exclusive ==
    /\ \A a \in Aggregators :
          /\ publisher[a] => token[a] <= fence
          /\ call[a].step = "handoff" => call[a].seen <= fence
    /\ \A a, b \in Aggregators : Current(a) /\ Current(b) => a = b

\* A step that grants nothing: tokens stay, publishers may only be demoted, and
\* calls of the handoff may only end.
LEMMA GrantlessStep ==
    ASSUME Exclusive, fence' = fence, token' = token,
           \A a \in Aggregators :
               /\ publisher'[a] => publisher[a]
               /\ call'[a].step = "handoff" => call'[a] = call[a]
    PROVE  Exclusive'
<1>1. \A a \in Aggregators : Current(a)' => Current(a)
  BY DEF Current
<1> QED BY <1>1 DEF Exclusive

\* A grant passes every token by.
LEMMA GrantStep ==
    ASSUME IInv, Exclusive, NEW a \in Aggregators, AcquirePublisherLease(a)
    PROVE  Exclusive'
<1>0. token' = token
  BY DEF AcquirePublisherLease
<1>1. CASE call[a].seen = fence
  <2>1. PICK c : c = [call[a] EXCEPT !.step = "handoff", !.seen = fence + 1]
    OBVIOUS
  <2>2. /\ fence' = fence + 1 /\ publisher' = publisher
        /\ call' = [call EXCEPT ![a] = c]
    BY <1>1, <2>1 DEF AcquirePublisherLease, NextFence
  <2>3. c.seen = fence + 1 /\ c.step = "handoff"
    BY <2>1 DEF IInv, TypeOK
  <2>4. \A b \in Aggregators : call'[b] = IF b = a THEN c ELSE call[b]
    BY <2>2 DEF IInv, TypeOK
  <2>5. /\ fence \in Int
        /\ \A b \in Aggregators : token[b] \in Int /\ call[b].seen \in Int
    BY FrontierBoundAssumption DEF IInv, TypeOK
  <2>6. \A b \in Aggregators : Current(b)' => b = a
    <3> SUFFICES ASSUME NEW b \in Aggregators, b # a, Current(b)'
                 PROVE  FALSE
      OBVIOUS
    <3>1. call'[b] = call[b] /\ publisher'[b] = publisher[b] /\ token'[b] = token[b]
      BY <1>0, <2>2, <2>4
    <3> QED BY <2>2, <2>5, <3>1 DEF Current, Exclusive
  <2>7. \A b \in Aggregators :
           /\ publisher'[b] => token'[b] <= fence'
           /\ call'[b].step = "handoff" => call'[b].seen <= fence'
    <3> SUFFICES ASSUME NEW b \in Aggregators
                 PROVE  /\ publisher'[b] => token'[b] <= fence'
                        /\ call'[b].step = "handoff" => call'[b].seen <= fence'
      OBVIOUS
    <3> QED BY <1>0, <2>2, <2>3, <2>4, <2>5 DEF Exclusive
  <2> QED BY <2>6, <2>7 DEF Exclusive
<1>2. CASE call[a].seen # fence
  <2>1. /\ publisher' = [publisher EXCEPT ![a] = FALSE] /\ fence' = fence
        /\ call' = [call EXCEPT ![a] = NoCall]
    BY <1>2 DEF AcquirePublisherLease, EndCall
  <2>2. \A b \in Aggregators :
           /\ publisher'[b] => publisher[b]
           /\ call'[b] = IF b = a THEN NoCall ELSE call[b]
    BY <2>1 DEF IInv, TypeOK
  <2>3. NoCall.step # "handoff"
    BY DEF NoCall
  <2> QED BY <1>0, <2>1, <2>2, <2>3, GrantlessStep
<1> QED BY <1>1, <1>2

\* The handoff turns a granted lease into a held one.
LEMMA HandoffStep ==
    ASSUME IInv, Exclusive, NEW a \in Aggregators, Handoff(a)
    PROVE  Exclusive'
<1>1. /\ call[a].step = "handoff" /\ fence' = fence
      /\ publisher' = [publisher EXCEPT ![a] = TRUE]
      /\ token' = [token EXCEPT ![a] = call[a].seen]
      /\ call' = [call EXCEPT ![a] = NoCall]
  BY DEF Handoff, EndCall
<1>2. NoCall.step # "handoff"
  BY DEF NoCall
<1>3. \A b \in Aggregators :
         /\ call'[b] = IF b = a THEN NoCall ELSE call[b]
         /\ publisher'[b] = IF b = a THEN TRUE ELSE publisher[b]
         /\ token'[b] = IF b = a THEN call[a].seen ELSE token[b]
  BY <1>1 DEF IInv, TypeOK
<1>4. \A b \in Aggregators : Current(b)' => Current(b)
  BY <1>1, <1>2, <1>3 DEF Current
<1>5. \A b \in Aggregators :
         /\ publisher'[b] => token'[b] <= fence'
         /\ call'[b].step = "handoff" => call'[b].seen <= fence'
  <2> SUFFICES ASSUME NEW b \in Aggregators
               PROVE  /\ publisher'[b] => token'[b] <= fence'
                      /\ call'[b].step = "handoff" => call'[b].seen <= fence'
    OBVIOUS
  <2>1. CASE b = a
    BY <1>1, <1>2, <1>3, <2>1 DEF Exclusive
  <2>2. CASE b # a
    <3>1. publisher'[b] = publisher[b] /\ token'[b] = token[b] /\ call'[b] = call[b]
      BY <1>3, <2>2
    <3> QED BY <1>1, <3>1 DEF Exclusive
  <2> QED BY <2>1, <2>2
<1> QED BY <1>4, <1>5 DEF Exclusive

\* Exclusive is inductive relative to the invariant above.
LEMMA ExclusiveStep ==
    ASSUME IInv, Exclusive, [Next]_vars
    PROVE  Exclusive'
<1>1. CASE UNCHANGED <<fence, token, publisher, call>>
  BY <1>1, GrantlessStep
<1>2. CASE Reopen
  <2>1. /\ fence' = fence
        /\ publisher' = [a \in Aggregators |-> FALSE]
        /\ call' = [a \in Aggregators |-> NoCall]
    BY <1>2 DEF Reopen
  <2>2. NoCall.step # "handoff"
    BY DEF NoCall
  <2>3. \A a \in Aggregators : ~publisher'[a] /\ call'[a].step # "handoff"
    BY <2>1, <2>2
  <2> QED BY <2>3 DEF Exclusive, Current
<1>3. ASSUME NEW a \in Aggregators,
             \/ BeginAcquire(a) \/ BeginPublish(a) \/ PeekFence(a)
             \/ PublishFrontier(a) \/ StorageError(a)
      PROVE  Exclusive'
  <2>1. /\ fence' = fence /\ token' = token
        /\ publisher' = publisher \/ publisher' = [publisher EXCEPT ![a] = FALSE]
    BY <1>3 DEF BeginAcquire, BeginPublish, PeekFence, PublishFrontier,
       StorageError, aggregator
  <2>2. \A b \in Aggregators : publisher'[b] => publisher[b]
    BY <2>1 DEF IInv, TypeOK
  <2>3. PICK c : call' = [call EXCEPT ![a] = c] /\ c.step # "handoff"
    <3>1. NoCall.step = "none"
      BY DEF NoCall
    <3>2. CASE BeginAcquire(a)
      <4>1. [NoCall EXCEPT !.step = "cas", !.key = generation[a], !.seen = fence].step
               = "cas"
        BY DEF NoCall
      <4> QED BY <3>2, <4>1 DEF BeginAcquire
    <3>3. CASE BeginPublish(a)
      <4>1. PICK m : call' = [call EXCEPT ![a] =
               [step |-> "peek", key |-> generation[a], seen |-> token[a], meet |-> m]]
        BY <3>3 DEF BeginPublish
      <4>2. PICK d : d = [step |-> "peek", key |-> generation[a],
                          seen |-> token[a], meet |-> m]
        OBVIOUS
      <4>3. call' = [call EXCEPT ![a] = d] /\ d.step = "peek"
        BY <4>1, <4>2
      <4> QED BY <4>3
    <3>4. CASE PeekFence(a)
      <4>1. \/ call' = [call EXCEPT ![a] = NoCall]
            \/ call' = [call EXCEPT ![a] = [call[a] EXCEPT !.step = "write"]]
        BY <3>4 DEF PeekFence, EndCall
      <4>2. [call[a] EXCEPT !.step = "write"].step = "write"
        BY DEF IInv, TypeOK
      <4>3. CASE call' = [call EXCEPT ![a] = NoCall]
        BY <3>1, <4>3
      <4>4. CASE call' = [call EXCEPT ![a] = [call[a] EXCEPT !.step = "write"]]
        BY <4>2, <4>4
      <4> QED BY <4>1, <4>3, <4>4
    <3>5. CASE PublishFrontier(a) \/ StorageError(a)
      BY <3>1, <3>5 DEF PublishFrontier, StorageError, EndCall
    <3> QED BY <1>3, <3>2, <3>3, <3>4, <3>5
  <2>4. \A b \in Aggregators : call'[b] = IF b = a THEN c ELSE call[b]
    BY <2>3 DEF IInv, TypeOK
  <2>5. \A b \in Aggregators : call'[b].step = "handoff" => call'[b] = call[b]
    BY <2>3, <2>4
  <2> QED BY <2>1, <2>2, <2>5, GrantlessStep
<1>4. CASE \/ UNCHANGED vars
           \/ \E s \in Shards, i \in Incarnations : Commit(s, i)
           \/ \E a \in Aggregators :
                 \/ \E s \in Shards : RetireShard(a, s)
                 \/ \E s \in Shards, i \in Incarnations, e \in Epochs :
                       \/ ActivateShard(a, s, i, e)
                       \/ \E old \in Shards : ReplaceShard(a, old, s, i, e)
                       \/ \E g \in Generations : IngestMembershipReport(a, s, i, g, e)
                 \/ \E s \in Shards, e \in Epochs : Ingest(a, s, e)
  <2>1. ASSUME NEW a \in Aggregators, NEW active, NEW reported,
               ChangeMembership(a, active, reported)
        PROVE  UNCHANGED <<fence, token, publisher, call>>
    BY <2>1 DEF ChangeMembership
  <2>2. ASSUME NEW a \in Aggregators, NEW s \in Shards,
               \/ RetireShard(a, s)
               \/ \E i \in Incarnations, e \in Epochs :
                     \/ ActivateShard(a, s, i, e)
                     \/ \E old \in Shards : ReplaceShard(a, old, s, i, e)
        PROVE  UNCHANGED <<fence, token, publisher, call>>
    BY <2>1, <2>2 DEF RetireShard, ActivateShard, ReplaceShard
  <2>3. ASSUME NEW a \in Aggregators, NEW s \in Shards, NEW e \in Epochs,
               \/ \E i \in Incarnations, g \in Generations :
                     IngestMembershipReport(a, s, i, g, e)
               \/ Ingest(a, s, e)
        PROVE  UNCHANGED <<fence, token, publisher, call>>
    BY <2>3 DEF IngestMembershipReport, Ingest
  <2>4. CASE UNCHANGED vars \/ \E s \in Shards, i \in Incarnations : Commit(s, i)
    BY <2>4, <1>1 DEF vars, aggregator, Commit
  <2> QED BY <1>1, <1>4, <2>2, <2>3, <2>4
<1> QED BY <1>2, <1>3, <1>4, GrantStep, HandoffStep DEF Next

\* Never do two aggregators hold the current fence token, with any number of
\* aggregators, takeovers, reopenings and storage errors (M2-S3).
THEOREM OnePublisher == Spec => []SinglePublisher
<1>1. Init => Exclusive
  <2>1. NoCall.step # "handoff"
    BY DEF NoCall
  <2> QED BY <2>1 DEF Init, Exclusive, Current
<1>2. Exclusive => SinglePublisher
  BY DEF Exclusive, Current, SinglePublisher
<1> QED BY <1>1, <1>2, InitInv, StepInv, ExclusiveStep, PTL DEF Spec

-----------------------------------------------------------------------------
(* The unscoped frontier.  A restart answers with what is stored, so the    *)
(* cache is never ahead of the store; it may be behind, after a write that  *)
(* failed and was stored all the same.                                      *)

\* What the store answers with is at most what it has stored.
CacheIsStored == cache[None] <= durable[None]

\* A step that leaves the store alone keeps both facts.
LEMMA StoreUntouched ==
    ASSUME IInv, CacheIsStored, cache' = cache, durable' = durable
    PROVE  cache'[None] >= cache[None] /\ CacheIsStored'
<1>1. cache[None] \in Int
  BY EpochsAreIntegers DEF IInv, TypeOK, Keys
<1> QED BY <1>1 DEF CacheIsStored

\* The handoff fills the cache of a generation and never the unscoped one.
LEMMA HandoffLeavesScalar ==
    ASSUME IInv, CacheIsStored, NEW a \in Aggregators, Handoff(a)
    PROVE  cache'[None] >= cache[None] /\ CacheIsStored'
<1>1. PICK k \in Keys : k = call[a].key
  BY DEF IInv, TypeOK
<1>2. PICK f : /\ cache' = [cache EXCEPT ![k] = f]
               /\ k = None => f = cache[k]
  BY <1>1 DEF Handoff
<1>3. None \in Keys /\ cache[None] \in Int
  BY EpochsAreIntegers DEF IInv, TypeOK, Keys
<1>4. cache'[None] = cache[None]
  BY <1>2, <1>3 DEF IInv, TypeOK
<1>5. durable' = durable
  BY DEF Handoff
<1> QED BY <1>3, <1>4, <1>5 DEF CacheIsStored

\* A publication writes the cache and the store alike, or neither, and only a
\* frontier that is not below the cached one.
LEMMA PublicationAdvancesScalar ==
    ASSUME IInv, CacheIsStored, NEW a \in Aggregators, PublishFrontier(a)
    PROVE  cache'[None] >= cache[None] /\ CacheIsStored'
<1>1. CASE cache' = cache /\ durable' = durable
  BY <1>1, StoreUntouched
<1>2. CASE ~(cache' = cache /\ durable' = durable)
  <2>1. PICK k \in Keys, meet \in Epochs \cup {None} :
           k = call[a].key /\ meet = call[a].meet
    BY DEF IInv, TypeOK
  <2>2. /\ ~(meet < cache[k])
        /\ cache' = [cache EXCEPT ![k] = meet]
        /\ durable' = [durable EXCEPT ![k] = meet]
    BY <1>2, <2>1 DEF PublishFrontier
  <2>3. /\ None \in Keys /\ meet \in Int
        /\ cache[None] \in Int /\ durable[None] \in Int
    BY EpochsAreIntegers DEF IInv, TypeOK, Keys
  <2>4. /\ cache'[None] = IF k = None THEN meet ELSE cache[None]
        /\ durable'[None] = IF k = None THEN meet ELSE durable[None]
    BY <2>2, <2>3 DEF IInv, TypeOK
  <2>5. k = None => meet >= cache[None]
    BY <2>2, <2>3
  <2> QED BY <2>3, <2>4, <2>5 DEF CacheIsStored
<1> QED BY <1>1, <1>2

\* A failed write that was stored all the same leaves the store ahead.
LEMMA FailedWriteIsAhead ==
    ASSUME IInv, CacheIsStored, NEW a \in Aggregators, StorageError(a)
    PROVE  cache'[None] >= cache[None] /\ CacheIsStored'
<1>0. cache' = cache
  BY DEF StorageError
<1>1. CASE durable' = durable
  BY <1>0, <1>1, StoreUntouched
<1>2. CASE durable' # durable
  <2>1. PICK k \in Keys, meet \in Epochs \cup {None} :
           k = call[a].key /\ meet = call[a].meet
    BY DEF IInv, TypeOK
  <2>2. meet >= cache[k] /\ durable' = [durable EXCEPT ![k] = meet]
    BY <1>2, <2>1 DEF StorageError
  <2>3. /\ None \in Keys /\ cache[None] \in Int
    BY EpochsAreIntegers DEF IInv, TypeOK, Keys
  <2>4. durable'[None] = IF k = None THEN meet ELSE durable[None]
    BY <2>2, <2>3 DEF IInv, TypeOK
  <2> QED BY <1>0, <2>2, <2>3, <2>4 DEF CacheIsStored
<1> QED BY <1>1, <1>2

\* A restart answers with what is stored.
LEMMA ReopenAnswersStored ==
    ASSUME IInv, CacheIsStored, Reopen
    PROVE  cache'[None] >= cache[None] /\ CacheIsStored'
<1>1. /\ None \in Keys /\ cache[None] \in Int /\ durable[None] \in Int
  BY EpochsAreIntegers DEF IInv, TypeOK, Keys
<1>2. cache'[None] = durable[None] /\ durable' = durable
  BY <1>1 DEF Reopen, CacheAtOpen
<1> QED BY <1>1, <1>2 DEF CacheIsStored

\* No step takes the unscoped frontier back.
LEMMA ScalarStep ==
    ASSUME IInv, CacheIsStored, [Next]_vars
    PROVE  cache'[None] >= cache[None] /\ CacheIsStored'
<1>1. ASSUME NEW a \in Aggregators, NEW active, NEW reported,
             ChangeMembership(a, active, reported)
      PROVE  cache' = cache /\ durable' = durable
  BY <1>1 DEF ChangeMembership
<1>2. ASSUME NEW a \in Aggregators, NEW s \in Shards,
             \/ RetireShard(a, s)
             \/ \E i \in Incarnations, e \in Epochs :
                   \/ ActivateShard(a, s, i, e)
                   \/ \E old \in Shards : ReplaceShard(a, old, s, i, e)
      PROVE  cache' = cache /\ durable' = durable
  BY <1>1, <1>2 DEF RetireShard, ActivateShard, ReplaceShard
<1>3. ASSUME NEW a \in Aggregators, NEW s \in Shards, NEW e \in Epochs,
             \/ \E i \in Incarnations, g \in Generations :
                   IngestMembershipReport(a, s, i, g, e)
             \/ Ingest(a, s, e)
      PROVE  cache' = cache /\ durable' = durable
  BY <1>3 DEF IngestMembershipReport, Ingest
<1>4. ASSUME NEW a \in Aggregators,
             \/ BeginAcquire(a) \/ AcquirePublisherLease(a)
             \/ BeginPublish(a) \/ PeekFence(a)
      PROVE  cache' = cache /\ durable' = durable
  BY <1>4 DEF BeginAcquire, AcquirePublisherLease, BeginPublish, PeekFence
<1>5. CASE UNCHANGED vars \/ \E s \in Shards, i \in Incarnations : Commit(s, i)
  BY <1>5, StoreUntouched DEF vars, Commit
<1>6. CASE \E a \in Aggregators :
              \/ \E s \in Shards : RetireShard(a, s)
              \/ \E s \in Shards, i \in Incarnations, e \in Epochs :
                    \/ ActivateShard(a, s, i, e)
                    \/ \E old \in Shards : ReplaceShard(a, old, s, i, e)
                    \/ \E g \in Generations : IngestMembershipReport(a, s, i, g, e)
              \/ \E s \in Shards, e \in Epochs : Ingest(a, s, e)
              \/ BeginAcquire(a) \/ AcquirePublisherLease(a)
              \/ BeginPublish(a) \/ PeekFence(a)
  <2>1. cache' = cache /\ durable' = durable
    BY <1>2, <1>3, <1>4, <1>6
  <2> QED BY <2>1, StoreUntouched
<1>7. CASE \E a \in Aggregators :
              Handoff(a) \/ PublishFrontier(a) \/ StorageError(a)
  BY <1>7, HandoffLeavesScalar, PublicationAdvancesScalar, FailedWriteIsAhead
<1> QED BY <1>5, <1>6, <1>7, ReopenAnswersStored DEF Next

\* The frontier that the store answers with without a generation never goes
\* back, whoever publishes, whichever writes fail or are stored although they
\* failed, and across every takeover and restart (M2-S4).
THEOREM ScalarFrontierStays == Spec => ScalarFrontierNeverRetreats
<1>1. Init => CacheIsStored
  <2>1. None \in Keys
    BY DEF Keys
  <2> QED BY <2>1, EpochsAreIntegers DEF Init, CacheIsStored
<1>2. IInv /\ CacheIsStored /\ [Next]_vars
         => CacheIsStored' /\ [cache'[None] >= cache[None]]_vars
  BY ScalarStep
<1> QED BY <1>1, <1>2, InitInv, StepInv, PTL DEF Spec, ScalarFrontierNeverRetreats
=============================================================================
