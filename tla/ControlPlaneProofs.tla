------------------------ MODULE ControlPlaneProofs ------------------------
(***************************************************************************)
(* Proofs about the control group's election and about its checkpoint      *)
(* coordinator.                                                            *)
(*                                                                         *)
(* RaftElection, for any control group and any bounds.  ElectionSafety is  *)
(* not inductive: who won a term is decided by votes that may since have   *)
(* been overwritten, in memory and in the store.  The argument goes        *)
(* through `cast`, the votes that ever reached the store: a node casts one *)
(* vote per term, a granted answer is only sent for a vote already cast,   *)
(* and a win is backed by a majority of cast votes.                        *)
(*                                                                         *)
(* CheckpointCoordinator, for every set of shards and threads and every    *)
(* bound (NoCreditLeak for one trigger thread).  ManifestIsBacked speaks   *)
(* of a call that has left the lock; what makes it true is that a          *)
(* confirmed shard has staged its contribution for the same round          *)
(* (Staged), which a call between its two lock regions relies on although  *)
(* rounds come and go meanwhile: ids are never used twice (Fresh).         *)
(***************************************************************************)
EXTENDS RaftElection, CheckpointCoordinator, FiniteSetTheorems, TLAPS

-----------------------------------------------------------------------------
(* The election *)

Vote(v, t, c) == [voter |-> v, term |-> t, candidate |-> c]

\* Ballot b may replace ballot a in the store.
Follows(a, b) ==
    \/ b.term > a.term
    \/ b.term = a.term /\ a.votedFor \in {Nil, b.votedFor}

\* The memory is at or ahead of the store.
MemoryAhead == \A n \in Nodes : Follows(durable[n], memory[n])

\* A cast vote is still in the store, or the voter has left its term.
CastStored ==
    \A c \in cast :
        \/ durable[c.voter].term > c.term
        \/ /\ durable[c.voter].term = c.term
           /\ durable[c.voter].votedFor = c.candidate

CastOnce ==
    \A c, d \in cast :
        c.voter = d.voter /\ c.term = d.term => c.candidate = d.candidate

\* A granted answer on its way stands for a cast vote, ...
GrantedCast ==
    \A r \in replies : r.granted =>
        r.term = r.round /\ Vote(r.from, r.round, r.to) \in cast

\* ... and one waiting for its PUT for the vote being stored.
GrantedSaving ==
    \A n \in Nodes : \A r \in saving[n].reply :
        r.granted => /\ r.from = n
                     /\ r.term = r.round
                     /\ memory[n] = [term |-> r.round, votedFor |-> r.to]

\* A pending transition of the driver belongs to the step the driver is at.
DriverSaving ==
    \A n \in Nodes : saving[n].by = "driver" =>
        \/ saving[n].next = "idle" /\ driver[n] = "idle"
        \/ /\ saving[n].next = "electing"
           /\ driver[n] = "elect"
           /\ memory[n] = [term |-> roundTerm[n], votedFor |-> n]

\* A candidate that collects votes has stored its own.
SelfVote ==
    \A n \in Nodes : driver[n] = "electing" =>
        Vote(n, roundTerm[n], n) \in cast

\* The driver is in a round it has not won yet.
FreshRound ==
    \A n \in Nodes :
        (driver[n] = "electing" \/ (saving[n].by = "driver"
                                    /\ saving[n].next = "electing"))
            => [term |-> roundTerm[n], node |-> n] \notin elected

Backing(Q, e) ==
    /\ e.node \in Q
    /\ Cardinality(Q) >= Majority
    /\ \A v \in Q : Vote(v, e.term, e.node) \in cast

ElectedBacked ==
    \A e \in elected : \E Q \in SUBSET Nodes : Backing(Q, e)

LeaderElected ==
    \A n \in Nodes : role[n] = "Leader" =>
        [term |-> memory[n].term, node |-> n] \in elected

IInv ==
    /\ TypeOK
    /\ MemoryAhead
    /\ CastStored
    /\ CastOnce
    /\ GrantedCast
    /\ GrantedSaving
    /\ DriverSaving
    /\ SelfVote
    /\ FreshRound
    /\ ElectedBacked
    /\ LeaderElected

-----------------------------------------------------------------------------

\* Two majorities share a node: div_ceil(peers, 2) + 1 is more than half.
LEMMA QuorumsMeet ==
    ASSUME NEW P \in SUBSET Nodes, NEW Q \in SUBSET Nodes,
           Cardinality(P) >= Majority, Cardinality(Q) >= Majority
    PROVE  \E v \in Nodes : v \in P /\ v \in Q
<1>1. IsFiniteSet(P) /\ IsFiniteSet(Q) /\ IsFiniteSet(P \cup Q)
      /\ P \cup Q \in SUBSET Nodes
  BY FS_Subset, NodesAssumption
<1>2. /\ Cardinality(Nodes) \in Nat
      /\ Cardinality(P) \in Nat
      /\ Cardinality(Q) \in Nat
      /\ Cardinality(P \cap Q) \in Nat
  BY <1>1, FS_CardinalityType, FS_Intersection, NodesAssumption
<1>3. Cardinality(P \cup Q) <= Cardinality(Nodes)
  BY <1>1, FS_Subset, NodesAssumption
<1>4. Cardinality(P \cup Q)
        = Cardinality(P) + Cardinality(Q) - Cardinality(P \cap Q)
  BY <1>1, FS_Union
<1>5. Cardinality(P \cap Q) # 0
  BY <1>2, <1>3, <1>4 DEF Majority
<1>6. P \cap Q # {}
  BY <1>5, FS_EmptySet
<1> QED
  BY <1>6

\* What ElectedBacked and CastOnce are for: M7-S1.
LEMMA BackedOnce ==
    ASSUME CastOnce,
           NEW e, NEW f, NEW P \in SUBSET Nodes, NEW Q \in SUBSET Nodes,
           Backing(P, e), Backing(Q, f), e.term = f.term
    PROVE  e.node = f.node
<1>1. PICK v \in Nodes : v \in P /\ v \in Q
  BY QuorumsMeet DEF Backing
<1>2. Vote(v, e.term, e.node) \in cast /\ Vote(v, f.term, f.node) \in cast
  BY <1>1 DEF Backing
<1> QED
  BY <1>2 DEF CastOnce, Vote

\* The inductive invariant implies election safety.
LEMMA IInvElectionSafety == IInv => ElectionSafety
<1> SUFFICES ASSUME IInv, NEW e \in elected, NEW f \in elected,
                    e.term = f.term
             PROVE  e.node = f.node
  BY DEF ElectionSafety
<1>1. PICK P \in SUBSET Nodes : Backing(P, e)
  BY DEF IInv, ElectedBacked
<1>2. PICK Q \in SUBSET Nodes : Backing(Q, f)
  BY DEF IInv, ElectedBacked
<1> QED
  BY <1>1, <1>2, BackedOnce DEF IInv

-----------------------------------------------------------------------------
(* Type correctness. *)

\* The initial state has the types.
LEMMA TypeInit == Init => TypeOK
  BY NodesAssumption, BoundAssumption, TimeoutAssumption
  DEF Init, TypeOK, Ballot, Roles, Idle, Transition, DriverSteps, Terms

\* Every step keeps the types.
LEMMA TypeStep == TypeOK /\ [Next]_vars => TypeOK'
<1> SUFFICES ASSUME TypeOK, [Next]_vars
             PROVE  TypeOK'
  OBVIOUS
<1> USE NodesAssumption, BoundAssumption, TimeoutAssumption
<1>0. Idle \in Transition
  BY DEF Idle, Transition, DriverSteps
<1>1. CASE Tick
  BY <1>1 DEF Tick, TypeOK, Later, authority, network, history
<1>2. ASSUME NEW n \in Nodes, Save(n)
      PROVE  TypeOK'
  <2>1. /\ saving[n] \in Transition
        /\ memory[n] \in Ballot
    BY DEF TypeOK
  <2>2. cast' \in SUBSET [voter: Nodes, term: Terms, candidate: Nodes]
    BY <1>2, <2>1 DEF TypeOK, Save, Ballot
  <2>3. /\ requests' \in SUBSET Request
        /\ replies' \in SUBSET Reply
        /\ driver' \in [Nodes -> DriverSteps]
    BY <1>2, <2>1 DEF TypeOK, Save, Transition
  <2>4. durable' \in [Nodes -> Ballot] /\ saving' \in [Nodes -> Transition]
    BY <1>0, <1>2, <2>1 DEF TypeOK, Save
  <2> QED
    BY <1>2, <2>2, <2>3, <2>4 DEF TypeOK, Save, timers
<1>3. ASSUME NEW n \in Nodes, SaveFails(n)
      PROVE  TypeOK'
  BY <1>0, <1>3 DEF TypeOK, SaveFails, Fault, timers, network, history,
                    DriverSteps
<1>4. ASSUME NEW n \in Nodes, CrashRestart(n)
      PROVE  TypeOK'
  BY <1>0, <1>4 DEF TypeOK, CrashRestart, Load, Fault, history, DriverSteps, Roles,
                    Terms
<1>5. ASSUME NEW n \in Nodes, HandleRequestVote(n)
      PROVE  TypeOK'
  <2>1. PICK req \in requests : HandleRequestVote(n)!2!(req)
    BY <1>5 DEF HandleRequestVote
  <2> DEFINE seen == IF req.term > memory[n].term
                     THEN [term |-> req.term, votedFor |-> Nil]
                     ELSE memory[n]
             canVote == CanVote(seen, req)
             answer == [kind |-> "vote", from |-> n, to |-> req.from,
                        round |-> req.term, term |-> seen.term,
                        granted |-> canVote]
             pending == [by |-> "rpc", next |-> "idle", request |-> {},
                         reply |-> {answer}]
  <2>2. req \in Request /\ memory[n] \in Ballot
    BY DEF TypeOK
  <2>3. seen \in Ballot
    BY <2>2 DEF Ballot, Request
  <2>4. [seen EXCEPT !.votedFor = req.from] \in Ballot
    BY <2>2, <2>3 DEF Ballot, Request
  <2>5. answer \in Reply
    BY <2>2, <2>3 DEF Ballot, Request, Reply, CanVote
  <2>6. pending \in Transition
    BY <2>5 DEF Transition, DriverSteps
  <2>7. memory' \in [Nodes -> Ballot] /\ saving' \in [Nodes -> Transition]
    BY <2>1, <2>3, <2>4, <2>6 DEF TypeOK
  <2>8. /\ role' \in [Nodes -> Roles]
        /\ contactAge' \in [Nodes -> 0..ElectionTimeoutMin]
        /\ requests' \in SUBSET Request
    BY <2>1 DEF TypeOK, Roles
  <2> QED
    BY <1>5, <2>7, <2>8 DEF TypeOK, HandleRequestVote, history
<1>6. ASSUME NEW n \in Nodes, HandleHeartbeat(n)
      PROVE  TypeOK'
  <2>1. PICK req \in requests : HandleHeartbeat(n)!2!(req)
    BY <1>6 DEF HandleHeartbeat
  <2> DEFINE advanced == req.term > memory[n].term
             current == req.term >= memory[n].term
             answer == [kind |-> "beat", from |-> n, to |-> req.from,
                        round |-> req.term,
                        term |-> IF current THEN req.term ELSE memory[n].term,
                        granted |-> FALSE]
             pending == [by |-> "rpc", next |-> "idle", request |-> {},
                         reply |-> {answer}]
  <2>2. req \in Request /\ memory[n] \in Ballot
    BY DEF TypeOK
  <2>3. answer \in Reply
    BY <2>2 DEF Ballot, Request, Reply
  <2>4. pending \in Transition
    BY <2>3 DEF Transition, DriverSteps
  <2>5. [term |-> req.term, votedFor |-> Nil] \in Ballot
    BY <2>2 DEF Ballot, Request
  <2>6. memory' \in [Nodes -> Ballot]
    BY <2>1, <2>2, <2>5 DEF TypeOK, HeartbeatBallot
  <2>7. saving' \in [Nodes -> Transition] /\ replies' \in SUBSET Reply
    <3>1. saving' = saving \/ saving' = [saving EXCEPT ![n] = pending]
      BY <2>1
    <3>2. replies' \subseteq replies \cup {answer} \/ replies' = replies
      BY <2>1
    <3>3. saving' \in [Nodes -> Transition]
      <4> HIDE DEF pending
      <4> QED
        BY <2>4, <3>1 DEF TypeOK
    <3>4. replies' \in SUBSET Reply
      <4> HIDE DEF answer
      <4> QED
        BY <2>3, <3>2 DEF TypeOK
    <3> QED
      BY <3>3, <3>4
  <2>8. /\ role' \in [Nodes -> Roles]
        /\ contactAge' \in [Nodes -> 0..ElectionTimeoutMin]
        /\ requests' \in SUBSET Request
        /\ currentLeader' \in [Nodes -> Nodes \cup {Nil}]
    BY <2>1, <2>2 DEF TypeOK, Roles, Request
  <2> QED
    BY <1>6, <2>6, <2>7, <2>8 DEF TypeOK, HandleHeartbeat, history
<1>7. ASSUME NEW n \in Nodes, DriverTimesOut(n) \/ DriverBeats(n)
      PROVE  TypeOK'
  BY <1>7 DEF TypeOK, DriverTimesOut, DriverBeats, authority, timers,
              network, history, DriverSteps
<1>8. ASSUME NEW n \in Nodes, StartElection(n)
      PROVE  TypeOK'
  <2> DEFINE term == memory[n].term + 1
             sent == [kind: {"vote"}, from: {n}, to: Peers(n), term: {term}]
             pending == [by |-> "driver", next |-> "electing",
                         request |-> sent, reply |-> {}]
  <2>1. term \in Terms /\ memory[n].term \in Terms
    BY <1>8 DEF TypeOK, StartElection, Terms, Ballot
  <2>2. [term |-> term, votedFor |-> n] \in Ballot
    BY <2>1 DEF Ballot
  <2>3. sent \in SUBSET Request
    BY <2>1 DEF Request, Peers
  <2>4. pending \in Transition
    BY <2>3 DEF Transition, DriverSteps
  <2>5. /\ memory' \in [Nodes -> Ballot]
        /\ saving' \in [Nodes -> Transition]
        /\ roundTerm' \in [Nodes -> Terms]
    BY <1>8, <2>1, <2>2, <2>4 DEF TypeOK, StartElection
  <2>6. /\ role' \in [Nodes -> Roles]
        /\ contactAge' \in [Nodes -> 0..ElectionTimeoutMin]
    BY <1>8 DEF TypeOK, StartElection, Roles
  <2> QED
    BY <1>8, <2>5, <2>6 DEF TypeOK, StartElection, network, history
<1>9. ASSUME NEW n \in Nodes, SendHeartbeats(n)
      PROVE  TypeOK'
  <2>1. memory[n].term \in Terms
    BY DEF TypeOK, Ballot
  <2>2. requests' \in SUBSET Request
    BY <1>9, <2>1 DEF TypeOK, SendHeartbeats, Request, Peers
  <2>3. roundTerm' \in [Nodes -> Terms] /\ driver' \in [Nodes -> DriverSteps]
    BY <1>9, <2>1 DEF TypeOK, SendHeartbeats, DriverSteps
  <2> QED
    BY <1>9, <2>2, <2>3 DEF TypeOK, SendHeartbeats, authority, timers, history
<1>10. ASSUME NEW n \in Nodes, NEW t \in Terms, StepDownTo(n, t)
       PROVE  /\ memory' \in [Nodes -> Ballot]
              /\ role' \in [Nodes -> Roles]
              /\ saving' \in [Nodes -> Transition]
  <2>1. [term |-> t, votedFor |-> Nil] \in Ballot
    BY DEF Ballot
  <2>2. [by |-> "driver", next |-> "idle", request |-> {}, reply |-> {}]
          \in Transition
    BY DEF Transition, DriverSteps
  <2> QED
    BY <1>10, <2>1, <2>2 DEF StepDownTo, Idle, TypeOK, Roles
<1>11. ASSUME NEW n \in Nodes, NEW kind, CloseRound(n, kind)
       PROVE  /\ replies' \in SUBSET Reply
              /\ requests' \in SUBSET Request
              /\ driver' \in [Nodes -> DriverSteps]
              /\ faults' \in 0..MaxFaults
  BY <1>11 DEF CloseRound, Fault, TypeOK, DriverSteps
<1>12. ASSUME NEW n \in Nodes, ConcludeElection(n)
       PROVE  TypeOK'
  <2>1. PICK answers \in SUBSET RoundReplies(n, "vote") :
               ConcludeElection(n)!3!(answers)
    BY <1>12 DEF ConcludeElection
  <2>2. \A r \in answers : r.term \in Terms
    BY DEF RoundReplies, TypeOK, Reply
  <2>3. /\ memory' \in [Nodes -> Ballot]
        /\ role' \in [Nodes -> Roles]
        /\ saving' \in [Nodes -> Transition]
    <3>1. ASSUME NEW top \in Highest(answers), StepDownTo(n, top.term)
          PROVE  <2>3
      BY <1>10, <2>2, <3>1 DEF Highest
    <3> QED
      BY <2>1, <3>1 DEF TypeOK, Roles
  <2>4. /\ currentLeader' \in [Nodes -> Nodes \cup {Nil}]
        /\ quorumAge' \in [Nodes -> 0..LeaderQuorumTimeout]
        /\ elected' \in SUBSET [term: Terms, node: Nodes]
    BY <2>1 DEF TypeOK
  <2> QED
    BY <1>11, <1>12, <2>3, <2>4 DEF TypeOK, ConcludeElection
<1>13. ASSUME NEW n \in Nodes, ConcludeHeartbeats(n)
       PROVE  TypeOK'
  <2>1. PICK answers \in SUBSET RoundReplies(n, "beat") :
               ConcludeHeartbeats(n)!2!(answers)
    BY <1>13 DEF ConcludeHeartbeats
  <2>2. \A r \in answers : r.term \in Terms
    BY DEF RoundReplies, TypeOK, Reply
  <2>3. /\ memory' \in [Nodes -> Ballot]
        /\ role' \in [Nodes -> Roles]
        /\ saving' \in [Nodes -> Transition]
    <3>1. ASSUME NEW top \in Highest(answers), StepDownTo(n, top.term)
          PROVE  <2>3
      BY <1>10, <2>2, <3>1 DEF Highest
    <3> QED
      BY <2>1, <3>1 DEF TypeOK, Roles
  <2>4. /\ currentLeader' \in [Nodes -> Nodes \cup {Nil}]
        /\ quorumAge' \in [Nodes -> 0..LeaderQuorumTimeout]
    BY <2>1 DEF TypeOK
  <2> QED
    BY <1>11, <1>13, <2>3, <2>4 DEF TypeOK, ConcludeHeartbeats, history
<1>14. ASSUME NEW n \in Nodes, StepDown(n)
       PROVE  TypeOK'
  BY <1>14 DEF TypeOK, StepDown, Fault, timers, network, history, Roles
<1>15. CASE UNCHANGED vars
  BY <1>15 DEF TypeOK, vars
<1> QED
  BY <1>1, <1>2, <1>3, <1>4, <1>5, <1>6, <1>7, <1>8, <1>9, <1>12, <1>13,
     <1>14, <1>15 DEF Next

-----------------------------------------------------------------------------
(* The inductive invariant. *)

\* The inductive invariant holds at first.
LEMMA IInvInit == Init => IInv
<1> SUFFICES ASSUME Init PROVE IInv
  OBVIOUS
<1>1. TypeOK
  BY TypeInit
<1>2. MemoryAhead
  BY DEF Init, MemoryAhead, Follows
<1>3. /\ CastStored /\ CastOnce /\ GrantedCast /\ ElectedBacked
      /\ LeaderElected
  BY DEF Init, CastStored, CastOnce, GrantedCast, ElectedBacked, LeaderElected
<1>4. GrantedSaving /\ DriverSaving /\ SelfVote /\ FreshRound
  BY DEF Init, GrantedSaving, DriverSaving, SelfVote, FreshRound, Idle
<1> QED
  BY <1>1, <1>2, <1>3, <1>4 DEF IInv

\* Terms are naturals wherever they are kept.
LEMMA TermsAreNat ==
    ASSUME TypeOK
    PROVE  /\ \A n \in Nodes : /\ memory[n].term \in Nat
                               /\ durable[n].term \in Nat
                               /\ roundTerm[n] \in Nat
           /\ \A c \in cast : c.term \in Nat /\ c.voter \in Nodes
           /\ \A e \in elected : e.term \in Nat /\ e.node \in Nodes
           /\ \A r \in requests : r.term \in Nat
           /\ \A r \in replies : r.term \in Nat /\ r.from \in Nodes
  BY BoundAssumption
  DEF TypeOK, Ballot, Terms, Request, Reply

\* A step that neither casts votes nor changes who won keeps the facts about
\* them.
LEMMA HistoryKept ==
    ASSUME IInv, UNCHANGED <<cast, durable, elected>>
    PROVE  CastStored' /\ CastOnce' /\ ElectedBacked'
  BY DEF IInv, CastStored, CastOnce, ElectedBacked, Backing, Vote

\* One that leaves the memory, the driver and the pending PUTs alone, too.
LEMMA TasksKept ==
    ASSUME IInv, UNCHANGED <<memory, durable, saving, cast, elected, driver,
                             roundTerm>>
    PROVE  /\ MemoryAhead' /\ GrantedSaving' /\ DriverSaving' /\ SelfVote'
           /\ FreshRound'
  BY DEF IInv, MemoryAhead, GrantedSaving, DriverSaving, SelfVote, FreshRound,
         Follows, Vote

\* Storing the memory of n casts its vote.  The vote is the only one n ever
\* casts in its term because the store never goes back.
LEMMA SaveKeeps ==
    ASSUME IInv, NEW n \in Nodes, Save(n)
    PROVE  IInv'
<1>1. TypeOK'
  BY TypeStep DEF IInv, Next
<1>2. /\ TypeOK /\ MemoryAhead /\ CastStored /\ CastOnce /\ GrantedCast
      /\ GrantedSaving /\ DriverSaving /\ SelfVote /\ FreshRound
      /\ ElectedBacked /\ LeaderElected
  BY DEF IInv
<1>3. cast \subseteq cast'
  BY DEF Save
<1>4. ASSUME NEW c \in cast', c \notin cast
      PROVE  c = Vote(n, memory[n].term, memory[n].votedFor)
  BY <1>4 DEF Save, Vote
<1>5. durable' = [durable EXCEPT ![n] = memory[n]]
  BY DEF Save
<1>6. \A m \in Nodes : Follows(durable[m], durable'[m])
  BY <1>2, <1>5, TermsAreNat DEF MemoryAhead, Follows, TypeOK
<1>7. MemoryAhead'
  BY <1>2, <1>5, TermsAreNat DEF MemoryAhead, Follows, Save, TypeOK
<1>8. CastStored'
  <2> SUFFICES ASSUME NEW c \in cast'
               PROVE  \/ durable'[c.voter].term > c.term
                      \/ /\ durable'[c.voter].term = c.term
                         /\ durable'[c.voter].votedFor = c.candidate
    BY DEF CastStored
  <2>1. CASE c \in cast
    <3>1. c.candidate # Nil /\ c.voter \in Nodes
      BY <1>2, <2>1, NodesAssumption DEF TypeOK
    <3>2. durable'[c.voter].term \in Nat
      BY <1>1, <3>1, TermsAreNat DEF TypeOK, Ballot, Terms
    <3> QED
      BY <1>2, <1>6, <2>1, <3>1, <3>2, TermsAreNat DEF CastStored, Follows
  <2>2. CASE c \notin cast
    BY <1>2, <1>4, <1>5, <2>2, TermsAreNat DEF Vote, TypeOK
  <2> QED
    BY <2>1, <2>2
<1>9. CastOnce'
  <2> SUFFICES ASSUME NEW c \in cast', NEW d \in cast',
                      c.voter = d.voter, c.term = d.term
               PROVE  c.candidate = d.candidate
    BY DEF CastOnce
  <2>1. c.term \in Nat /\ c.voter \in Nodes
    BY <1>1, BoundAssumption DEF TypeOK, Terms
  <2>2. durable'[c.voter].term \in Nat
    BY <1>1, <2>1, BoundAssumption DEF TypeOK, Ballot, Terms
  <2>3. CASE c \in cast /\ d \in cast
    BY <1>2, <2>3 DEF CastOnce
  <2>4. CASE c \notin cast \/ d \notin cast
    <3>1. c.voter = n /\ c.term = memory[n].term
      BY <1>4, <2>4 DEF Vote
    <3>2. durable'[n] = memory[n]
      BY <1>2, <1>5 DEF TypeOK
    <3>3. d.voter = n /\ ~(durable'[n].term > c.term)
      BY <2>1, <2>2, <3>1, <3>2
    <3>4. durable'[n].votedFor = c.candidate
      BY <1>8, <3>1, <3>3 DEF CastStored
    <3>5. durable'[n].votedFor = d.candidate
      BY <1>8, <3>3 DEF CastStored
    <3> QED
      BY <3>4, <3>5
  <2> QED
    BY <2>3, <2>4
<1>10. GrantedCast'
  <2> SUFFICES ASSUME NEW r \in replies', r.granted
               PROVE  /\ r.term = r.round
                      /\ Vote(r.from, r.round, r.to) \in cast'
    BY DEF GrantedCast, Vote
  <2>1. CASE r \in replies
    BY <1>2, <1>3, <2>1 DEF GrantedCast
  <2>2. CASE r \in saving[n].reply
    <3>1. /\ r.from = n /\ r.term = r.round
          /\ memory[n] = [term |-> r.round, votedFor |-> r.to]
      BY <1>2, <2>2 DEF GrantedSaving
    <3>2. r.to # Nil
      BY <1>2, <2>2, NodesAssumption DEF TypeOK, Transition, Reply
    <3> QED
      BY <3>1, <3>2 DEF Save, Vote
  <2> QED
    BY <2>1, <2>2 DEF Save
<1>11. GrantedSaving' /\ DriverSaving'
  BY <1>2 DEF Save, GrantedSaving, DriverSaving, Idle, TypeOK
<1>12. SelfVote'
  <2> SUFFICES ASSUME NEW m \in Nodes, driver'[m] = "electing"
               PROVE  Vote(m, roundTerm[m], m) \in cast'
    BY DEF SelfVote, Save, Vote
  <2>1. CASE driver[m] = "electing"
    BY <1>2, <1>3, <2>1 DEF SelfVote
  <2>2. CASE driver[m] # "electing"
    <3>1. m = n /\ saving[n].by = "driver" /\ saving[n].next = "electing"
      BY <1>2, <2>2 DEF Save, TypeOK
    <3>2. memory[n] = [term |-> roundTerm[n], votedFor |-> n]
      BY <1>2, <3>1 DEF DriverSaving
    <3>3. n # Nil
      BY NodesAssumption
    <3> QED
      BY <3>1, <3>2, <3>3 DEF Save, Vote
  <2> QED
    BY <2>1, <2>2
<1>13. FreshRound'
  BY <1>2 DEF Save, FreshRound, DriverSaving, Idle, TypeOK
<1>14. ElectedBacked' /\ LeaderElected'
  BY <1>2, <1>3 DEF Save, ElectedBacked, LeaderElected, Backing, Vote
<1> QED
  BY <1>1, <1>7, <1>8, <1>9, <1>10, <1>11, <1>12, <1>13, <1>14 DEF IInv

\* A handler or the driver changes the memory of n and leaves the PUT for
\* later: the memory moves on from the store, nobody leads through it.
LEMMA HandleRequestVoteKeeps ==
    ASSUME IInv, NEW n \in Nodes, HandleRequestVote(n)
    PROVE  IInv'
<1>1. TypeOK'
  BY TypeStep DEF IInv, Next
<1>2. /\ TypeOK /\ MemoryAhead /\ GrantedCast /\ GrantedSaving
      /\ DriverSaving /\ SelfVote /\ FreshRound /\ LeaderElected
  BY DEF IInv
<1>3. UNCHANGED <<durable, driver, roundTerm, replies, cast, elected>>
  BY DEF HandleRequestVote, history
<1>4. PICK req \in requests : HandleRequestVote(n)!2!(req)
  BY DEF HandleRequestVote
<1>5. /\ req.term \in Nat /\ req.from \in Nodes
      /\ memory[n].term \in Nat /\ durable[n].term \in Nat
  BY <1>2, TermsAreNat DEF TypeOK, Request
<1> DEFINE seen == IF req.term > memory[n].term
                   THEN [term |-> req.term, votedFor |-> Nil]
                   ELSE memory[n]
           canVote == CanVote(seen, req)
           ballot == IF canVote THEN [seen EXCEPT !.votedFor = req.from]
                     ELSE seen
           answer == [kind |-> "vote", from |-> n, to |-> req.from,
                      round |-> req.term, term |-> seen.term,
                      granted |-> canVote]
<1>6. /\ memory' = [memory EXCEPT ![n] = ballot]
      /\ saving' = [saving EXCEPT ![n] =
                      [by |-> "rpc", next |-> "idle", request |-> {},
                       reply |-> {answer}]]
      /\ role' = IF req.term > memory[n].term
                 THEN [role EXCEPT ![n] = "Follower"] ELSE role
  BY <1>4
<1>7. /\ seen.term = memory[n].term \/ seen.term > memory[n].term
      /\ seen.term \in Nat
      /\ ballot.term = seen.term
      /\ seen = memory[n] \/ seen.term > memory[n].term
      /\ seen = [term |-> seen.term, votedFor |-> seen.votedFor]
  BY <1>2, <1>5 DEF TypeOK, Ballot
<1>8. Follows(memory[n], ballot)
  BY <1>2, <1>5, <1>7 DEF Follows, TypeOK, Ballot, CanVote
<1>9. canVote => ballot = [term |-> req.term, votedFor |-> req.from]
  BY <1>7 DEF CanVote
<1> HIDE DEF ballot
<1>10. MemoryAhead'
  <2>1. Follows(durable[n], ballot)
    BY <1>2, <1>5, <1>7, <1>8 DEF MemoryAhead, Follows
  <2> QED
    BY <1>2, <1>3, <1>6, <2>1 DEF MemoryAhead, TypeOK, Follows
<1>11. CastStored' /\ CastOnce' /\ ElectedBacked'
  BY <1>3, HistoryKept
<1>12. GrantedCast' /\ SelfVote'
  BY <1>2, <1>3 DEF GrantedCast, SelfVote, Vote
<1>13. GrantedSaving'
  <2> SUFFICES ASSUME NEW m \in Nodes, NEW r \in saving'[m].reply, r.granted
               PROVE  /\ r.from = m
                      /\ r.term = r.round
                      /\ memory'[m] = [term |-> r.round, votedFor |-> r.to]
    BY DEF GrantedSaving
  <2>1. CASE m = n
    <3>1. r = answer /\ canVote /\ memory'[m] = ballot
      BY <1>2, <1>6, <2>1 DEF TypeOK
    <3> QED
      BY <1>9, <2>1, <3>1 DEF CanVote
  <2>2. CASE m # n
    BY <1>2, <1>6, <2>2 DEF GrantedSaving, TypeOK
  <2> QED
    BY <2>1, <2>2
<1>14. DriverSaving' /\ FreshRound'
  BY <1>2, <1>3, <1>6 DEF DriverSaving, FreshRound, TypeOK
<1>15. LeaderElected'
  BY <1>2, <1>3, <1>5, <1>6, <1>7 DEF LeaderElected, TypeOK
<1> QED
  BY <1>1, <1>10, <1>11, <1>12, <1>13, <1>14, <1>15 DEF IInv

\* handle_heartbeat keeps the invariant.
LEMMA HandleHeartbeatKeeps ==
    ASSUME IInv, NEW n \in Nodes, HandleHeartbeat(n)
    PROVE  IInv'
<1>1. TypeOK'
  BY TypeStep DEF IInv, Next
<1>2. /\ TypeOK /\ MemoryAhead /\ GrantedCast /\ GrantedSaving
      /\ DriverSaving /\ SelfVote /\ FreshRound /\ LeaderElected
  BY DEF IInv
<1>3. UNCHANGED <<durable, driver, roundTerm, cast, elected>> /\ Unlocked(n)
  BY DEF HandleHeartbeat, history
<1>4. PICK req \in requests : HandleHeartbeat(n)!2!(req)
  BY DEF HandleHeartbeat
<1>5. req.term \in Nat /\ memory[n].term \in Nat /\ durable[n].term \in Nat
  BY <1>2, TermsAreNat
<1> DEFINE advanced == req.term > memory[n].term
           answer == [kind |-> "beat", from |-> n, to |-> req.from,
                      round |-> req.term,
                      term |-> IF req.term >= memory[n].term
                               THEN req.term ELSE memory[n].term,
                      granted |-> FALSE]
           ballot == [term |-> req.term, votedFor |-> Nil]
           pending == [by |-> "rpc", next |-> "idle", request |-> {},
                       reply |-> {answer}]
<1>6. /\ memory' = [memory EXCEPT ![n] = IF advanced THEN ballot
                                         ELSE memory[n]]
      /\ saving' = IF advanced THEN [saving EXCEPT ![n] = pending] ELSE saving
      /\ role' = IF req.term >= memory[n].term
                 THEN [role EXCEPT ![n] = "Follower"] ELSE role
  BY <1>2, <1>4 DEF HeartbeatBallot, TypeOK
<1>7. \A r \in replies' : r \in replies \/ ~r.granted
  <2>1. replies' \subseteq replies \cup {answer} \/ replies' = replies
    BY <1>4
  <2> QED
    BY <2>1
<1>8. MemoryAhead'
  BY <1>2, <1>3, <1>5, <1>6 DEF MemoryAhead, Follows, TypeOK
<1>9. CastStored' /\ CastOnce' /\ ElectedBacked'
  BY <1>3, HistoryKept
<1>10. GrantedCast' /\ SelfVote'
  BY <1>2, <1>3, <1>7 DEF GrantedCast, SelfVote, Vote
<1>11. GrantedSaving'
  BY <1>2, <1>6 DEF GrantedSaving, TypeOK
<1>12. DriverSaving' /\ FreshRound'
  BY <1>2, <1>3, <1>6 DEF DriverSaving, FreshRound, TypeOK, Unlocked
<1>13. LeaderElected'
  BY <1>2, <1>3, <1>5, <1>6 DEF LeaderElected, TypeOK
<1> QED
  BY <1>1, <1>8, <1>9, <1>10, <1>11, <1>12, <1>13 DEF IInv

\* A node that stands moves to a term beyond any it has won.
LEMMA StartElectionKeeps ==
    ASSUME IInv, NEW n \in Nodes, StartElection(n)
    PROVE  IInv'
<1>1. TypeOK'
  BY TypeStep DEF IInv, Next
<1>2. /\ TypeOK /\ MemoryAhead /\ CastStored /\ GrantedCast /\ GrantedSaving
      /\ DriverSaving /\ SelfVote /\ FreshRound /\ ElectedBacked
      /\ LeaderElected
  BY DEF IInv
<1> DEFINE term == memory[n].term + 1
<1>3. /\ UNCHANGED <<durable, driver, replies, cast, elected>>
      /\ memory' = [memory EXCEPT ![n] = [term |-> term, votedFor |-> n]]
      /\ roundTerm' = [roundTerm EXCEPT ![n] = term]
      /\ role' = [role EXCEPT ![n] = "Candidate"]
      /\ saving' = [saving EXCEPT ![n] =
                      [by |-> "driver", next |-> "electing",
                       request |-> [kind: {"vote"}, from: {n},
                                    to: Peers(n), term: {term}],
                       reply |-> {}]]
      /\ driver[n] = "elect"
  BY DEF StartElection, network, history
<1>4. memory[n].term \in Nat /\ durable[n].term \in Nat
  BY <1>2, TermsAreNat
<1>5. [term |-> term, node |-> n] \notin elected
  <2> SUFFICES ASSUME NEW e \in elected, e.node = n
               PROVE  e.term # term
    OBVIOUS
  <2>1. Vote(n, e.term, n) \in cast
    BY <1>2 DEF ElectedBacked, Backing
  <2>2. durable[n].term >= e.term /\ e.term \in Nat
    BY <1>2, <1>4, <2>1, TermsAreNat DEF CastStored, Vote
  <2>3. memory[n].term >= durable[n].term
    BY <1>2, <1>4 DEF MemoryAhead, Follows
  <2> QED
    BY <1>4, <2>2, <2>3
<1>6. MemoryAhead'
  BY <1>2, <1>3, <1>4 DEF MemoryAhead, Follows, TypeOK
<1>7. CastStored' /\ CastOnce' /\ ElectedBacked'
  BY <1>3, HistoryKept
<1>8. GrantedCast'
  BY <1>2, <1>3 DEF GrantedCast, Vote
<1>9. SelfVote'
  BY <1>2, <1>3 DEF SelfVote, Vote, TypeOK
<1>10. GrantedSaving' /\ DriverSaving'
  BY <1>2, <1>3 DEF GrantedSaving, DriverSaving, TypeOK
<1>11. FreshRound'
  BY <1>2, <1>3, <1>5 DEF FreshRound, TypeOK
<1>12. LeaderElected'
  BY <1>2, <1>3 DEF LeaderElected, TypeOK
<1> QED
  BY <1>1, <1>6, <1>7, <1>8, <1>9, <1>10, <1>11, <1>12 DEF IInv

\* Closing a round and stepping down to a higher term.
LEMMA StepDownToKeeps ==
    ASSUME IInv, NEW n \in Nodes, NEW t \in Nat,
           StepDownTo(n, t), t > memory[n].term,
           TypeOK', UNCHANGED <<durable, roundTerm, cast, elected>>,
           driver[n] \in {"electing", "beating"},
           driver' = [driver EXCEPT ![n] = "idle"],
           replies' \subseteq replies
    PROVE  IInv'
<1>1. /\ TypeOK /\ MemoryAhead /\ GrantedCast /\ GrantedSaving
      /\ DriverSaving /\ SelfVote /\ FreshRound /\ LeaderElected
  BY DEF IInv
<1>2. memory[n].term \in Nat /\ durable[n].term \in Nat
  BY <1>1, TermsAreNat
<1>3. MemoryAhead'
  BY <1>1, <1>2 DEF StepDownTo, MemoryAhead, Follows, TypeOK
<1>4. CastStored' /\ CastOnce' /\ ElectedBacked'
  BY HistoryKept
<1>5. GrantedCast'
  BY <1>1 DEF GrantedCast, Vote
<1>6. SelfVote'
  BY <1>1 DEF SelfVote, Vote, TypeOK
<1>7. GrantedSaving' /\ DriverSaving' /\ FreshRound'
  BY <1>1 DEF StepDownTo, Idle, GrantedSaving, DriverSaving, FreshRound, TypeOK
<1>8. LeaderElected'
  BY <1>1 DEF StepDownTo, LeaderElected, TypeOK
<1> QED
  BY <1>3, <1>4, <1>5, <1>6, <1>7, <1>8 DEF IInv

\* A round that ends without touching the memory, by a node that does not
\* start to lead.
LEMMA RoundEndKeeps ==
    ASSUME IInv, NEW n \in Nodes,
           TypeOK', UNCHANGED <<memory, durable, saving, roundTerm, cast,
                                elected>>,
           role' = role \/ role' = [role EXCEPT ![n] = "Follower"],
           driver[n] \in {"electing", "beating"},
           driver' = [driver EXCEPT ![n] = "idle"],
           replies' \subseteq replies
    PROVE  IInv'
<1>1. /\ TypeOK /\ MemoryAhead /\ GrantedCast /\ GrantedSaving
      /\ DriverSaving /\ SelfVote /\ FreshRound /\ LeaderElected
  BY DEF IInv
<1>2. MemoryAhead' /\ GrantedSaving'
  BY <1>1 DEF MemoryAhead, GrantedSaving, Follows
<1>3. CastStored' /\ CastOnce' /\ ElectedBacked'
  BY HistoryKept
<1>4. GrantedCast'
  BY <1>1 DEF GrantedCast, Vote
<1>5. SelfVote' /\ DriverSaving' /\ FreshRound'
  BY <1>1 DEF SelfVote, DriverSaving, FreshRound, Vote, TypeOK
<1>6. LeaderElected'
  BY <1>1 DEF LeaderElected, TypeOK
<1> QED
  BY <1>2, <1>3, <1>4, <1>5, <1>6 DEF IInv

\* The votes a candidate counts have all been cast: its own before the round
\* started, the others before they were answered.
LEMMA VotesCast ==
    ASSUME IInv, NEW n \in Nodes, driver[n] = "electing",
           NEW answers \in SUBSET RoundReplies(n, "vote")
    PROVE  /\ Votes(n, answers) \in SUBSET Nodes
           /\ n \in Votes(n, answers)
           /\ \A v \in Votes(n, answers) : Vote(v, roundTerm[n], n) \in cast
<1>1. \A r \in answers : r \in replies /\ r.to = n /\ r.round = roundTerm[n]
  BY DEF RoundReplies
<1>2. \A r \in answers : r.from \in Nodes
  BY <1>1, TermsAreNat DEF IInv
<1>3. \A r \in answers : r.granted => Vote(r.from, roundTerm[n], n) \in cast
  BY <1>1 DEF IInv, GrantedCast
<1>4. Vote(n, roundTerm[n], n) \in cast
  BY DEF IInv, SelfVote
<1> QED
  BY <1>2, <1>3, <1>4 DEF Votes

\* The end of run_election keeps the invariant.
LEMMA ConcludeElectionKeeps ==
    ASSUME IInv, NEW n \in Nodes, ConcludeElection(n)
    PROVE  IInv'
<1>1. TypeOK'
  BY TypeStep DEF IInv, Next
<1>2. /\ TypeOK /\ MemoryAhead /\ CastStored /\ CastOnce /\ GrantedCast
      /\ GrantedSaving /\ DriverSaving /\ SelfVote /\ FreshRound
      /\ ElectedBacked /\ LeaderElected
  BY DEF IInv
<1>3. /\ driver[n] = "electing"
      /\ driver' = [driver EXCEPT ![n] = "idle"]
      /\ replies' \subseteq replies
      /\ UNCHANGED <<durable, roundTerm, cast>>
  BY DEF ConcludeElection, CloseRound
<1>4. PICK answers \in SUBSET RoundReplies(n, "vote") :
             ConcludeElection(n)!3!(answers)
  BY DEF ConcludeElection
<1>5. roundTerm[n] \in Nat /\ \A r \in answers : r.term \in Nat
  BY <1>2, TermsAreNat DEF RoundReplies
<1>6. CASE UNCHANGED <<memory, role, currentLeader, quorumAge, saving,
                       elected>>
  BY <1>1, <1>3, <1>6, RoundEndKeeps
<1>7. ASSUME memory[n].term = roundTerm[n], Outvoted(n, answers) # {},
             NEW top \in Highest(answers), StepDownTo(n, top.term),
             UNCHANGED elected
      PROVE  IInv'
  <2>1. top.term \in Nat /\ top.term > memory[n].term
    BY <1>5, <1>7 DEF Highest, Outvoted
  <2> QED
    BY <1>1, <1>3, <1>7, <2>1, StepDownToKeeps
<1>8. ASSUME memory[n].term = roundTerm[n],
             Cardinality(Votes(n, answers)) >= Majority,
             role' = [role EXCEPT ![n] = "Leader"],
             elected' = elected \cup {[term |-> roundTerm[n], node |-> n]},
             UNCHANGED <<memory, saving>>
      PROVE  IInv'
  <2>1. MemoryAhead' /\ GrantedSaving'
    BY <1>2, <1>3, <1>8 DEF MemoryAhead, GrantedSaving, Follows
  <2>2. CastStored' /\ CastOnce'
    BY <1>2, <1>3 DEF CastStored, CastOnce
  <2>3. GrantedCast'
    BY <1>2, <1>3 DEF GrantedCast, Vote
  <2>4. SelfVote' /\ DriverSaving'
    BY <1>2, <1>3, <1>8 DEF SelfVote, DriverSaving, Vote, TypeOK
  <2>5. FreshRound'
    BY <1>2, <1>3, <1>8 DEF FreshRound, DriverSaving, TypeOK
  <2>6. ElectedBacked'
    <3> DEFINE won == [term |-> roundTerm[n], node |-> n]
    <3>1. Backing(Votes(n, answers), won)
      BY <1>3, <1>8, VotesCast DEF Backing
    <3>2. Votes(n, answers) \in SUBSET Nodes
      BY <1>3, VotesCast
    <3>3. \A e \in elected' : \E Q \in SUBSET Nodes : Backing(Q, e)
      BY <1>2, <1>8, <3>1, <3>2 DEF ElectedBacked
    <3> QED
      BY <1>3, <3>3 DEF ElectedBacked, Backing, Vote
  <2>7. LeaderElected'
    BY <1>2, <1>8 DEF LeaderElected, TypeOK
  <2> QED
    BY <1>1, <2>1, <2>2, <2>3, <2>4, <2>5, <2>6, <2>7 DEF IInv
<1> QED
  BY <1>4, <1>6, <1>7, <1>8 DEF StillCandidate

\* The end of send_heartbeats keeps the invariant.
LEMMA ConcludeHeartbeatsKeeps ==
    ASSUME IInv, NEW n \in Nodes, ConcludeHeartbeats(n)
    PROVE  IInv'
<1>1. TypeOK'
  BY TypeStep DEF IInv, Next
<1>2. /\ driver[n] = "beating"
      /\ driver' = [driver EXCEPT ![n] = "idle"]
      /\ replies' \subseteq replies
      /\ UNCHANGED <<durable, roundTerm, cast, elected>>
  BY DEF ConcludeHeartbeats, CloseRound, history
<1>3. PICK answers \in SUBSET RoundReplies(n, "beat") :
             ConcludeHeartbeats(n)!2!(answers)
  BY DEF ConcludeHeartbeats
<1>4. CASE /\ UNCHANGED <<memory, saving>>
           /\ role' = role \/ role' = [role EXCEPT ![n] = "Follower"]
  BY <1>1, <1>2, <1>4, RoundEndKeeps
<1>5. ASSUME NEW top \in Highest(answers), StepDownTo(n, top.term),
             top.term > memory[n].term
      PROVE  IInv'
  <2>1. top.term \in Nat
    BY TermsAreNat DEF IInv, Highest, RoundReplies
  <2> QED
    BY <1>1, <1>2, <1>5, <2>1, StepDownToKeeps
<1> QED
  BY <1>3, <1>4, <1>5

\* A crash drops a node back to its store.
LEMMA CrashRestartKeeps ==
    ASSUME IInv, NEW n \in Nodes, CrashRestart(n)
    PROVE  IInv'
<1>1. TypeOK'
  BY TypeStep DEF IInv, Next
<1>2. /\ TypeOK /\ MemoryAhead /\ GrantedCast /\ GrantedSaving
      /\ DriverSaving /\ SelfVote /\ FreshRound /\ LeaderElected
  BY DEF IInv
<1>3. CastStored' /\ CastOnce' /\ ElectedBacked'
  BY HistoryKept DEF CrashRestart, history
<1>4. MemoryAhead' /\ LeaderElected'
  BY <1>2 DEF CrashRestart, Load, history, MemoryAhead, LeaderElected, Follows,
              TypeOK
<1>5. GrantedCast'
  BY <1>2 DEF CrashRestart, history, GrantedCast, Vote
<1>6. GrantedSaving' /\ DriverSaving'
  BY <1>2 DEF CrashRestart, GrantedSaving, DriverSaving, Idle, TypeOK
<1>7. SelfVote' /\ FreshRound'
  BY <1>2 DEF CrashRestart, history, SelfVote, FreshRound, Vote, Idle, TypeOK
<1> QED
  BY <1>1, <1>3, <1>4, <1>5, <1>6, <1>7 DEF IInv

\* The steps that change no ballot and win no term.
LEMMA QuietStepKeeps ==
    ASSUME IInv, NEW n \in Nodes,
           \/ Tick
           \/ SaveFails(n)
           \/ DriverTimesOut(n)
           \/ DriverBeats(n)
           \/ SendHeartbeats(n)
           \/ StepDown(n)
    PROVE  IInv'
<1>1. TypeOK'
  BY TypeStep DEF IInv, Next
<1>2. /\ TypeOK /\ MemoryAhead /\ GrantedCast /\ GrantedSaving
      /\ DriverSaving /\ SelfVote /\ FreshRound /\ LeaderElected
  BY DEF IInv
<1>3. UNCHANGED <<memory, durable, replies, cast, elected>>
  BY DEF Tick, SaveFails, DriverTimesOut, DriverBeats, SendHeartbeats,
         StepDown, authority, network, history
<1>4. CastStored' /\ CastOnce' /\ ElectedBacked'
  BY <1>3, HistoryKept
<1>5. MemoryAhead' /\ GrantedCast'
  BY <1>2, <1>3 DEF MemoryAhead, GrantedCast, Follows, Vote
<1>6. GrantedSaving'
  <2>1. saving' = saving \/ saving' = [saving EXCEPT ![n] = Idle]
    BY DEF Tick, SaveFails, DriverTimesOut, DriverBeats, SendHeartbeats, StepDown, authority
  <2>2. CASE saving' = saving
    BY <1>2, <1>3, <2>2 DEF GrantedSaving
  <2>3. CASE saving' = [saving EXCEPT ![n] = Idle]
    <3>1. \A k \in Nodes : saving'[k] = saving[k] \/ saving'[k].reply = {}
      BY <1>2, <2>3 DEF TypeOK, Idle
    <3>2. QED
      BY <1>2, <1>3, <3>1 DEF GrantedSaving
  <2>4. QED
    BY <2>1, <2>2, <2>3
<1>7. DriverSaving' /\ SelfVote' /\ FreshRound'
  BY <1>2, <1>3 DEF DriverSaving, SelfVote, FreshRound, Vote, Tick, SaveFails,
                    DriverTimesOut, DriverBeats, SendHeartbeats, StepDown,
                    authority, Idle, TypeOK
<1>8. LeaderElected'
  BY <1>2, <1>3 DEF LeaderElected, Tick, SaveFails, DriverTimesOut,
                    DriverBeats, SendHeartbeats, StepDown, authority, TypeOK
<1> QED
  BY <1>1, <1>4, <1>5, <1>6, <1>7, <1>8 DEF IInv

\* Every step keeps the inductive invariant.
LEMMA IInvStep == IInv /\ [Next]_vars => IInv'
<1> SUFFICES ASSUME IInv, [Next]_vars PROVE IInv'
  OBVIOUS
<1>1. CASE Next
  BY <1>1, NodesAssumption, SaveKeeps, HandleRequestVoteKeeps,
     HandleHeartbeatKeeps, StartElectionKeeps, ConcludeElectionKeeps,
     ConcludeHeartbeatsKeeps, CrashRestartKeeps, QuietStepKeeps
  DEF Next
<1>2. CASE UNCHANGED vars
  <2>1. /\ UNCHANGED <<memory, durable, saving, cast, elected, driver,
                       roundTerm, role, replies>>
        /\ TypeOK'
    BY <1>2, TypeStep DEF vars, IInv
  <2>2. GrantedCast' /\ LeaderElected'
    BY <2>1 DEF IInv, GrantedCast, LeaderElected, Vote
  <2> QED
    BY <2>1, <2>2, HistoryKept, TasksKept DEF IInv
<1> QED
  BY <1>1, <1>2

-----------------------------------------------------------------------------
(* Theorems. *)

\* Every state of every behaviour is well typed and satisfies the inductive
\* invariant.
THEOREM Invariance == Spec => []IInv
<1>1. Init => IInv
  BY IInvInit
<1>2. IInv /\ [Next]_vars => IInv'
  BY IInvStep
<1> QED
  BY <1>1, <1>2, PTL DEF Spec

\* Type correctness of the election's state.
THEOREM TypeCorrectness == Spec => []TypeOK
<1>1. IInv => TypeOK
  BY DEF IInv
<1> QED
  BY <1>1, Invariance, PTL

\* M7-S1: no term of the control plane is ever won by two nodes, for every
\* group size, whatever is lost, delayed or forgotten in crashes.
THEOREM AtMostOneLeaderPerTerm == Spec => []ElectionSafety
<1>1. IInv => ElectionSafety
  BY IInvElectionSafety
<1> QED
  BY <1>1, Invariance, PTL

\* The object that holds a node's term and vote never goes back, so that a
\* restarted node cannot vote twice in a term.
THEOREM StoredBallotNeverForgotten == Spec => BallotNeverForgotten
<1>1. ASSUME IInv, [Next]_vars PROVE StoreMovesOn
  <2>1. \A n \in Nodes : durable[n].term \in Nat /\ memory[n].term \in Nat
    BY <1>1, TermsAreNat DEF IInv
  <2>2. CASE UNCHANGED durable
    BY <2>1, <2>2 DEF StoreMovesOn
  <2>3. ASSUME NEW n \in Nodes, Save(n) PROVE StoreMovesOn
    <3>1. durable' = [durable EXCEPT ![n] = memory[n]]
      BY <2>3 DEF Save
    <3>2. Follows(durable[n], memory[n]) /\ durable \in [Nodes -> Ballot]
      BY <1>1 DEF IInv, MemoryAhead, TypeOK
    <3> QED
      BY <2>1, <3>1, <3>2 DEF StoreMovesOn, Follows
  <2>4. UNCHANGED durable \/ \E n \in Nodes : Save(n)
    BY <1>1 DEF vars, Next, Tick, SaveFails, CrashRestart, HandleRequestVote,
           HandleHeartbeat, DriverTimesOut, StartElection, ConcludeElection,
           DriverBeats, SendHeartbeats, ConcludeHeartbeats, StepDown,
           authority
  <2> QED
    BY <2>2, <2>3, <2>4
<1>2. IInv /\ [Next]_vars => [StoreMovesOn]_vars
  BY <1>1
<1> QED
  BY <1>2, Invariance, PTL DEF Spec, BallotNeverForgotten

\* The election implements ControlLeadership: a term is won once and led
\* only by its winner, from the win until it stops.
THEOREM ElectionImplementsLeadership == Spec => ImplementsLeadership
<1> DEFINE led == [n \in Nodes |-> IF role[n] = "Leader"
                                   THEN {memory[n].term} ELSE {}]
<1>1. Init => Leadership!Init
  BY DEF Init, Leadership!Init
<1>2. ASSUME IInv, [Next]_vars
      PROVE  [Leadership!Next]_(Leadership!vars)
  <2>1. TypeOK /\ LeaderElected /\ FreshRound /\ ElectedBacked /\ CastOnce
    BY <1>2 DEF IInv
  <2>2. ASSUME UNCHANGED <<memory, role, elected>>
        PROVE  UNCHANGED Leadership!vars
    BY <2>2 DEF Leadership!vars
  <2>3. ASSUME NEW n \in Nodes, UNCHANGED elected,
               \A m \in Nodes \ {n} : memory'[m] = memory[m]
                                      /\ role'[m] = role[m],
               role'[n] # "Leader"
        PROVE  Leadership!Stop(n)
    BY <2>3 DEF Leadership!Stop
  <2>4. ASSUME NEW n \in Nodes, ConcludeElection(n)
        PROVE  [Leadership!Next]_(Leadership!vars)
    <3>1. PICK answers \in SUBSET RoundReplies(n, "vote") :
                 ConcludeElection(n)!3!(answers)
      BY <2>4 DEF ConcludeElection
    <3>2. PICK t \in Terms : t = roundTerm[n]
      BY <2>1 DEF TypeOK
    <3>3. ASSUME NEW top \in Highest(answers), StepDownTo(n, top.term),
                 UNCHANGED elected
          PROVE  Leadership!Stop(n)
      BY <2>1, <2>3, <3>3 DEF StepDownTo, TypeOK
    <3>4. ASSUME role[n] = "Candidate", memory[n].term = roundTerm[n],
                 Cardinality(Votes(n, answers)) >= Majority,
                 role' = [role EXCEPT ![n] = "Leader"],
                 elected' = elected \cup {[term |-> roundTerm[n],
                                           node |-> n]},
                 UNCHANGED memory
          PROVE  Leadership!Win(n, t)
      <4>1. driver[n] = "electing"
        BY <2>4 DEF ConcludeElection
      <4> DEFINE won == [term |-> roundTerm[n], node |-> n]
      <4>2. Backing(Votes(n, answers), won)
            /\ Votes(n, answers) \in SUBSET Nodes
        BY <1>2, <3>4, <4>1, VotesCast DEF Backing
      <4>3. ASSUME NEW e \in elected, e.term = roundTerm[n] PROVE FALSE
        <5>1. PICK Q \in SUBSET Nodes : Backing(Q, e)
          BY <2>1 DEF ElectedBacked
        <5>2. e.node = won.node
          BY <2>1, <4>2, <4>3, <5>1, BackedOnce
        <5>3. e = won
          BY <2>1, <4>3, <5>2 DEF TypeOK
        <5> QED
          BY <2>1, <4>1, <5>3 DEF FreshRound
      <4>4. led[n] = {}
        BY <3>4
      <4>5. led' = [led EXCEPT ![n] = {t}]
        BY <2>1, <3>2, <3>4 DEF TypeOK
      <4> QED
        BY <3>2, <3>4, <4>3, <4>4, <4>5 DEF Leadership!Win
    <3>5. \/ UNCHANGED <<memory, role, elected>>
          \/ Leadership!Stop(n)
          \/ Leadership!Win(n, t)
      BY <3>1, <3>3, <3>4 DEF StillCandidate
    <3> QED
      BY <2>2, <3>5 DEF Leadership!Next
  <2>5. ASSUME NEW n \in Nodes, ConcludeHeartbeats(n)
        PROVE  [Leadership!Next]_(Leadership!vars)
    <3>1. UNCHANGED elected
      BY <2>5 DEF ConcludeHeartbeats, history
    <3>2. PICK answers \in SUBSET RoundReplies(n, "beat") :
                 ConcludeHeartbeats(n)!2!(answers)
      BY <2>5 DEF ConcludeHeartbeats
    <3>3. CASE UNCHANGED <<memory, role>>
      BY <2>2, <3>1, <3>3
    <3>4. CASE /\ UNCHANGED memory
               /\ role' = [role EXCEPT ![n] = "Follower"]
      BY <2>1, <2>3, <3>1, <3>4 DEF TypeOK, Leadership!Next
    <3>5. ASSUME NEW top \in Highest(answers), StepDownTo(n, top.term)
          PROVE  Leadership!Stop(n)
      BY <2>1, <2>3, <3>1, <3>5 DEF StepDownTo, TypeOK
    <3> QED
      BY <3>2, <3>3, <3>4, <3>5 DEF Leadership!Next
  <2>6. ASSUME NEW n \in Nodes,
               \/ CrashRestart(n)
               \/ StartElection(n)
               \/ StepDown(n)
        PROVE  Leadership!Stop(n)
    BY <2>1, <2>3, <2>6 DEF CrashRestart, StartElection, StepDown, history,
                            TypeOK
  <2>7. ASSUME NEW n \in Nodes, HandleRequestVote(n) \/ HandleHeartbeat(n)
        PROVE  [Leadership!Next]_(Leadership!vars)
    <3>1. UNCHANGED elected
      BY <2>7 DEF HandleRequestVote, HandleHeartbeat, history
    <3>2. \A m \in Nodes \ {n} : memory'[m] = memory[m]
                                 /\ role'[m] = role[m]
      BY <2>1, <2>7 DEF HandleRequestVote, HandleHeartbeat, TypeOK
    <3>3. \/ role'[n] # "Leader"
          \/ role' = role /\ memory'[n].term = memory[n].term
      <4>1. memory[n].term \in Nat /\ \A q \in requests : q.term \in Nat
        BY <2>1, TermsAreNat
      <4>2. CASE HandleRequestVote(n)
        <5>1. PICK req \in requests : HandleRequestVote(n)!2!(req)
          BY <4>2 DEF HandleRequestVote
        <5>2. CASE req.term > memory[n].term
          BY <2>1, <5>1, <5>2 DEF TypeOK
        <5>3. CASE ~(req.term > memory[n].term)
          BY <2>1, <5>1, <5>3 DEF TypeOK, Ballot
        <5> QED
          BY <5>2, <5>3
      <4>3. CASE HandleHeartbeat(n)
        <5>1. PICK req \in requests : HandleHeartbeat(n)!2!(req)
          BY <4>3 DEF HandleHeartbeat
        <5> QED
          BY <2>1, <4>1, <5>1 DEF TypeOK, HeartbeatBallot
      <4> QED
        BY <2>7, <4>2, <4>3
    <3>4. CASE role' = role /\ memory'[n].term = memory[n].term
      <4>1. led' = led
        BY <3>2, <3>4
      <4> QED
        BY <3>1, <4>1 DEF Leadership!vars
    <3> QED
      BY <2>3, <3>1, <3>2, <3>3, <3>4 DEF Leadership!Next
  <2>8. ASSUME NEW n \in Nodes,
               \/ Tick
               \/ Save(n)
               \/ SaveFails(n)
               \/ DriverTimesOut(n)
               \/ DriverBeats(n)
               \/ SendHeartbeats(n)
               \/ UNCHANGED vars
        PROVE  UNCHANGED Leadership!vars
    BY <2>2, <2>8 DEF Tick, Save, SaveFails, DriverTimesOut, DriverBeats,
                      SendHeartbeats, authority, history, vars
  <2> QED
    BY <1>2, <2>4, <2>5, <2>6, <2>7, <2>8, NodesAssumption
    DEF Next, Leadership!Next
<1>3. IInv /\ [Next]_vars => [Leadership!Next]_(Leadership!vars)
  BY <1>2
<1> QED
  BY <1>1, <1>3, Invariance, PTL
  DEF Spec, ImplementsLeadership, Leadership!Spec

-----------------------------------------------------------------------------
(* The checkpoint coordinator *)

\* A round and the calls under way have ids handed out before.
Fresh ==
    /\ round.id < nextId
    /\ \A t \in Threads : At(t, "staged") => thread[t].id < nextId

\* What a round has staged is of its own checkpoint; a confirmed shard has
\* staged, and so has a shard whose call is about to confirm.
Staged ==
    /\ \A s \in Shards : round.staged[s] \in {NoId, round.id}
    /\ changelog => \A s \in round.confirmed : round.staged[s] = round.id
    /\ \A t \in Threads :
          At(t, "staged") /\ thread[t].id = round.id =>
              round.staged[thread[t].shard] = round.id

CheckpointInv == CheckpointTypeOK /\ Fresh /\ Staged /\ ManifestIsBacked

\* The number of shards is a number.
LEMMA ShardsAreCounted == Cardinality(Shards) \in Nat
BY CheckpointShardsAssumption, FS_CardinalityType

\* No round is a round, and it has staged nothing.
LEMMA NoRoundIsRound ==
    /\ NoRound \in Rounds /\ NoRound.id = NoId /\ NoRound.confirmed = {}
    /\ NoRound.staged = [s \in Shards |-> NoId]
BY ShardsAreCounted DEF NoRound, Rounds

\* What a call in progress looks like at each of its places.
LEMMA CallsByPlace ==
    ASSUME NEW c \in Calls
    PROVE  /\ c.at \in {"idle", "drain", "staged", "commit"}
           /\ c.at = "drain" => c \in [at : {"drain"}, left : 0..Cardinality(Shards)]
           /\ c.at = "staged" => c \in [at : {"staged"}, shard : Shards, id : Ids]
           /\ c.at = "commit" =>
                 c \in [at : {"commit"}, id : Ids, staged : [Shards -> Ids \cup {NoId}]]
BY DEF Calls, NoCall

\* Nothing has begun.
LEMMA InitInv == CheckpointInit => CheckpointInv
<1> SUFFICES ASSUME CheckpointInit PROVE CheckpointInv
  OBVIOUS
<1> USE CheckpointBoundAssumption, ShardsAreCounted
<1>1. CheckpointTypeOK
  <2>1. NoCall \in Calls
    BY DEF Calls
  <2>2. 1 \in Ids /\ {} \subseteq Ids /\ 0 \in 0..MaxCredits
    BY DEF Ids
  <2>3. thread \in [Threads -> Calls]
    BY <2>1 DEF CheckpointInit
  <2> HIDE DEF NoCall
  <2> QED BY <2>2, <2>3, NoRoundIsRound DEF CheckpointInit, CheckpointTypeOK
<1>2. Fresh
  BY NoRoundIsRound DEF CheckpointInit, Fresh, At, NoCall, NoId
<1>3. Staged
  BY NoRoundIsRound DEF CheckpointInit, Staged, At, NoCall
<1>4. ManifestIsBacked
  BY DEF CheckpointInit, ManifestIsBacked, At, NoCall
<1> QED BY <1>1, <1>2, <1>3, <1>4 DEF CheckpointInv

\* A release leaves the credits within their bound.
LEMMA ReleasedIsBounded ==
    ASSUME CheckpointTypeOK, NEW n \in Nat
    PROVE  Released(n) \in 0..MaxCredits
BY CheckpointBoundAssumption DEF CheckpointTypeOK, Released

\* A call that is neither staged nor about to commit promises nothing.
LEMMA FrameInv ==
    ASSUME CheckpointInv, CheckpointTypeOK', changelog' = changelog, round' = round,
           nextId' = nextId, NEW t \in Threads, NEW c \in Calls,
           thread' = [thread EXCEPT ![t] = c],
           c.at \in {"idle", "drain"}
    PROVE  CheckpointInv'
<1>1. \A u \in Threads : thread'[u] = IF u = t THEN c ELSE thread[u]
  BY DEF CheckpointInv, CheckpointTypeOK
<1>2. Fresh'
  BY <1>1 DEF CheckpointInv, Fresh, At
<1>3. Staged'
  BY <1>1 DEF CheckpointInv, Staged, At
<1>4. ManifestIsBacked'
  BY <1>1 DEF CheckpointInv, ManifestIsBacked, At
<1> QED BY <1>2, <1>3, <1>4 DEF CheckpointInv

\* A begun round has an id that no call under way carries.
LEMMA BeginInv ==
    ASSUME CheckpointInv, NEW t \in Triggers, Begin(t)
    PROVE  CheckpointInv'
<1> USE CheckpointBoundAssumption, ShardsAreCounted
<1>1. /\ round'.id = nextId /\ round'.confirmed = {}
      /\ round'.staged = [s \in Shards |-> NoId]
      /\ round' \in Rounds
  <2>1. round' = [NoRound EXCEPT !.id = nextId, !.held = Cardinality(Shards)]
    BY DEF Begin
  <2>2. round' = [id |-> nextId, arrived |-> {}, confirmed |-> {},
                  staged |-> [s \in Shards |-> NoId], held |-> Cardinality(Shards)]
    BY <2>1 DEF NoRound
  <2>3. nextId \in Ids \cup {NoId} /\ Cardinality(Shards) \in 0..Cardinality(Shards)
    BY DEF CheckpointInv, CheckpointTypeOK
  <2> QED BY <2>2, <2>3 DEF Rounds
<1>2. nextId' = nextId + 1 /\ nextId' \in Ids /\ credits' \in 0..MaxCredits
  BY DEF Begin, CheckpointInv, CheckpointTypeOK, Ids
<1>3. UNCHANGED <<changelog, committed, thread>> /\ expired' = FALSE
  BY DEF Begin
<1>4. CheckpointTypeOK'
  BY <1>1, <1>2, <1>3 DEF CheckpointInv, CheckpointTypeOK
<1>5. Fresh'
  <2>1. nextId \in Nat
    BY DEF CheckpointInv, CheckpointTypeOK, Ids
  <2>2. \A u \in Threads : At(u, "staged") => thread[u].id < nextId /\ thread[u].id \in Nat
    <3> SUFFICES ASSUME NEW u \in Threads, At(u, "staged")
                 PROVE  thread[u].id < nextId /\ thread[u].id \in Nat
      OBVIOUS
    <3>1. thread[u] \in Calls /\ thread[u].at = "staged"
      BY DEF CheckpointInv, CheckpointTypeOK, At
    <3> QED BY <3>1, CallsByPlace DEF CheckpointInv, Fresh, Ids
  <2> QED BY <1>1, <1>2, <1>3, <2>1, <2>2 DEF Fresh, At
<1>6. Staged'
  <2>1. \A u \in Threads : At(u, "staged") => thread[u].id # nextId
    <3> SUFFICES ASSUME NEW u \in Threads, At(u, "staged")
                 PROVE  thread[u].id # nextId
      OBVIOUS
    <3> QED BY DEF CheckpointInv, Fresh, CheckpointTypeOK, Ids
  <2> QED BY <1>1, <1>3, <2>1 DEF Staged, At
<1>7. ManifestIsBacked'
  BY <1>3 DEF CheckpointInv, ManifestIsBacked, At
<1> QED BY <1>4, <1>5, <1>6, <1>7 DEF CheckpointInv

\* A timed-out round is found.
LEMMA FindTimedOutInv ==
    ASSUME CheckpointInv, NEW t \in Triggers, FindTimedOut(t)
    PROVE  CheckpointInv'
<1>1. PICK c : c = [at |-> "drain", left |-> round.held]
  OBVIOUS
<1>2. c \in Calls /\ c.at = "drain"
  BY <1>1 DEF CheckpointInv, CheckpointTypeOK, Rounds, Calls
<1>3. /\ thread' = [thread EXCEPT ![t] = c]
      /\ UNCHANGED <<changelog, nextId, round, expired, credits, committed>>
  BY <1>1 DEF FindTimedOut, Become, CreditsHeld
<1>4. t \in Threads
  BY DEF Threads
<1>5. CheckpointTypeOK'
  BY <1>2, <1>3 DEF CheckpointInv, CheckpointTypeOK
<1> QED BY <1>2, <1>3, <1>4, <1>5, FrameInv

\* One of its credits is given back.
LEMMA ReleaseCreditInv ==
    ASSUME CheckpointInv, NEW t \in Triggers, ReleaseCredit(t)
    PROVE  CheckpointInv'
<1> USE ShardsAreCounted
<1>0. t \in Threads
  BY DEF Threads
<1>1. thread[t] \in [at : {"drain"}, left : 0..Cardinality(Shards)]
  BY <1>0, CallsByPlace DEF ReleaseCredit, At, CheckpointInv, CheckpointTypeOK
<1>2. PICK c : c = [thread[t] EXCEPT !.left = @ - 1]
  OBVIOUS
<1>3. c \in [at : {"drain"}, left : 0..Cardinality(Shards)] /\ c.at = "drain"
  BY <1>1, <1>2 DEF ReleaseCredit
<1>4. c \in Calls
  BY <1>3 DEF Calls
<1>5. /\ thread' = [thread EXCEPT ![t] = c]
      /\ credits' = Released(1)
      /\ UNCHANGED <<changelog, nextId, round, expired, committed>>
  BY <1>2 DEF ReleaseCredit
<1>6. credits' \in 0..MaxCredits
  BY <1>5, ReleasedIsBounded DEF CheckpointInv
<1>7. CheckpointTypeOK'
  BY <1>4, <1>5, <1>6 DEF CheckpointInv, CheckpointTypeOK
<1> QED BY <1>0, <1>3, <1>4, <1>5, <1>7, FrameInv

\* Without a round there is nothing a call could confirm.
LEMMA NoRoundInv ==
    ASSUME CheckpointInv, CheckpointTypeOK', changelog' = changelog, nextId' = nextId,
           round' = NoRound, NEW t \in Threads, NEW c \in Calls,
           thread' = [thread EXCEPT ![t] = c],
           c.at \in {"idle", "commit"},
           c.at = "commit" /\ changelog => \A s \in Shards : c.staged[s] = c.id
    PROVE  CheckpointInv'
<1> USE NoRoundIsRound
<1>1. \A u \in Threads : thread'[u] = IF u = t THEN c ELSE thread[u]
  BY DEF CheckpointInv, CheckpointTypeOK
<1>2. Fresh'
  BY <1>1 DEF CheckpointInv, Fresh, At, CheckpointTypeOK, Ids, NoId
<1>3. Staged'
  <2>1. \A u \in Threads : thread'[u].at = "staged" => thread'[u].id # NoId
    <3> SUFFICES ASSUME NEW u \in Threads, thread'[u].at = "staged"
                 PROVE  thread'[u].id # NoId
      OBVIOUS
    <3>1. thread'[u] \in Calls
      BY DEF CheckpointTypeOK
    <3> QED BY <3>1, CallsByPlace DEF Ids, NoId
  <2> QED BY <2>1 DEF Staged, At
<1>4. ManifestIsBacked'
  BY <1>1 DEF CheckpointInv, ManifestIsBacked, At
<1> QED BY <1>2, <1>3, <1>4 DEF CheckpointInv

\* Clearing a round, whichever it is.
LEMMA ClearRoundInv ==
    ASSUME CheckpointInv, NEW t \in Triggers, ClearRound(t)
    PROVE  CheckpointInv'
<1>1. t \in Threads /\ NoCall \in Calls /\ NoCall.at = "idle"
  BY DEF Threads, Calls, NoCall
<1>2. /\ thread' = [thread EXCEPT ![t] = NoCall] /\ round' = NoRound /\ expired' = FALSE
      /\ UNCHANGED <<changelog, nextId, credits, committed>>
  BY DEF ClearRound, Become
<1>3. CheckpointTypeOK'
  BY <1>1, <1>2, NoRoundIsRound DEF CheckpointInv, CheckpointTypeOK
<1> QED BY <1>1, <1>2, <1>3, NoRoundInv

\* A confirmation of a shard that has staged its contribution.
LEMMA ConfirmInv ==
    ASSUME CheckpointInv, NEW t \in Threads, NEW s \in Shards, NEW i \in Ids,
           Confirm(t, s, i), changelog => round.staged[s] = round.id
    PROVE  CheckpointInv'
<1> USE ShardsAreCounted, CheckpointBoundAssumption
<1>1. /\ i = round.id /\ round \in Rounds
      /\ UNCHANGED <<changelog, nextId, committed>>
  BY DEF Confirm, CheckpointInv, CheckpointTypeOK
<1>2. CASE round.confirmed \cup {s} = Shards
  <2>1. PICK c : c = [at |-> "commit", id |-> i, staged |-> round.staged]
    OBVIOUS
  <2>2. c \in Calls /\ c.at = "commit" /\ c.id = i /\ c.staged = round.staged
    BY <2>1, <1>1 DEF Calls, Rounds
  <2>3. /\ round' = NoRound /\ expired' = FALSE
        /\ credits' = Released(1 + Surplus)
        /\ thread' = [thread EXCEPT ![t] = c]
    BY <1>2, <2>1 DEF Confirm, Become
  <2>4. credits' \in 0..MaxCredits
    <3>1. round.held \in 0..Cardinality(Shards)
      BY <1>1 DEF Rounds
    <3>2. 1 + Surplus \in Nat
      BY <3>1 DEF Surplus
    <3> QED BY <2>3, <3>2, ReleasedIsBounded DEF CheckpointInv
  <2>5. CheckpointTypeOK'
    BY <1>1, <2>2, <2>3, <2>4, NoRoundIsRound DEF CheckpointInv, CheckpointTypeOK
  <2>6. c.at = "commit" /\ changelog => \A z \in Shards : c.staged[z] = c.id
    BY <1>1, <1>2, <2>2 DEF CheckpointInv, Staged
  <2> QED BY <1>1, <2>2, <2>3, <2>5, <2>6, NoRoundInv
<1>3. CASE round.confirmed \cup {s} # Shards
  <2>1. /\ round' = [round EXCEPT !.confirmed = round.confirmed \cup {s}]
        /\ credits' = Released(1) /\ expired' = expired
        /\ thread' = [thread EXCEPT ![t] = NoCall]
    BY <1>3 DEF Confirm, Become
  <2>2. /\ round' \in Rounds /\ round'.id = round.id /\ round'.staged = round.staged
        /\ round'.confirmed = round.confirmed \cup {s}
    BY <1>1, <2>1 DEF Rounds
  <2>3. NoCall \in Calls /\ NoCall.at = "idle" /\ Released(1) \in 0..MaxCredits
    BY ReleasedIsBounded DEF Calls, NoCall, CheckpointInv
  <2>4. CheckpointTypeOK'
    BY <1>1, <2>1, <2>2, <2>3 DEF CheckpointInv, CheckpointTypeOK
  <2>5. \A u \in Threads : thread'[u] = IF u = t THEN NoCall ELSE thread[u]
    BY <2>1 DEF CheckpointInv, CheckpointTypeOK
  <2>6. Fresh'
    BY <1>1, <2>2, <2>3, <2>5 DEF CheckpointInv, Fresh, At
  <2>7. Staged'
    BY <1>1, <2>2, <2>3, <2>5 DEF CheckpointInv, Staged, At
  <2>8. ManifestIsBacked'
    BY <1>1, <2>3, <2>5 DEF CheckpointInv, ManifestIsBacked, At
  <2> QED BY <2>4, <2>6, <2>7, <2>8 DEF CheckpointInv
<1> QED BY <1>2, <1>3

\* The second half of a changelog report confirms what the first half staged,
\* unless the round has gone.
LEMMA ConfirmStagedInv ==
    ASSUME CheckpointInv, NEW t \in Reporters, ConfirmStaged(t)
    PROVE  CheckpointInv'
<1>1. t \in Threads
  BY DEF Threads
<1>2. thread[t] \in [at : {"staged"}, shard : Shards, id : Ids]
  BY <1>1, CallsByPlace DEF ConfirmStaged, At, CheckpointInv, CheckpointTypeOK
<1>3. CASE Confirm(t, thread[t].shard, thread[t].id)
  <2>1. thread[t].id = round.id /\ thread[t].shard \in Shards /\ thread[t].id \in Ids
    BY <1>2, <1>3 DEF Confirm
  <2>2. round.staged[thread[t].shard] = round.id
    BY <1>1, <2>1 DEF ConfirmStaged, CheckpointInv, Staged
  <2> QED BY <1>1, <1>3, <2>1, <2>2, ConfirmInv
<1>4. CASE /\ Become(t, NoCall)
           /\ UNCHANGED <<changelog, nextId, round, expired, credits, committed>>
  <2>1. NoCall \in Calls /\ NoCall.at = "idle" /\ thread' = [thread EXCEPT ![t] = NoCall]
    BY <1>4 DEF Calls, NoCall, Become
  <2>2. CheckpointTypeOK'
    BY <1>4, <2>1 DEF CheckpointInv, CheckpointTypeOK
  <2> QED BY <1>1, <1>4, <2>1, <2>2, FrameInv
<1> QED BY <1>3, <1>4 DEF ConfirmStaged

\* The first half of a changelog report.
LEMMA StageContributionInv ==
    ASSUME CheckpointInv, NEW t \in Reporters, NEW s \in Shards, NEW i \in Ids, NEW j \in Ids,
           StageContribution(t, s, i, j)
    PROVE  CheckpointInv'
<1>1. /\ i = round.id /\ j = round.id /\ round \in Rounds /\ t \in Threads
      /\ i < nextId
      /\ UNCHANGED <<changelog, nextId, expired, credits, committed>>
  BY DEF StageContribution, RightContribution, CheckpointInv, CheckpointTypeOK, Threads, Fresh
<1>2. PICK c : c = [at |-> "staged", shard |-> s, id |-> i]
  OBVIOUS
<1>3. c \in Calls /\ c.at = "staged" /\ c.shard = s /\ c.id = i
  BY <1>2 DEF Calls
<1>4. /\ round' = [round EXCEPT !.staged[s] = j]
      /\ thread' = [thread EXCEPT ![t] = c]
  BY <1>2 DEF StageContribution, Become
<1>5. /\ round' \in Rounds /\ round'.id = round.id
      /\ round'.confirmed = round.confirmed
      /\ round'.staged = [round.staged EXCEPT ![s] = j]
  BY <1>1, <1>4 DEF Rounds
<1>6. CheckpointTypeOK'
  BY <1>1, <1>3, <1>4, <1>5 DEF CheckpointInv, CheckpointTypeOK
<1>7. \A u \in Threads : thread'[u] = IF u = t THEN c ELSE thread[u]
  BY <1>4 DEF CheckpointInv, CheckpointTypeOK
<1>8. Fresh'
  BY <1>1, <1>3, <1>5, <1>7 DEF CheckpointInv, Fresh, At
<1>9. Staged'
  <2>1. \A z \in Shards : round'.staged[z] = IF z = s THEN j ELSE round.staged[z]
    BY <1>1, <1>5 DEF Rounds
  <2>2. round.confirmed \subseteq Shards
    BY <1>1 DEF Rounds
  <2>3. \A u \in Threads : thread'[u].at = "staged" => thread'[u].shard \in Shards
    <3> SUFFICES ASSUME NEW u \in Threads, thread'[u].at = "staged"
                 PROVE  thread'[u].shard \in Shards
      OBVIOUS
    <3>1. thread'[u] \in Calls
      BY <1>6 DEF CheckpointTypeOK
    <3> QED BY <3>1, CallsByPlace
  <2>4. \A u \in Threads : thread'[u].at = "staged" /\ thread'[u].id = round.id
           => round'.staged[thread'[u].shard] = round.id
    BY <1>1, <1>3, <1>7, <2>1, <2>3 DEF CheckpointInv, Staged, At
  <2> QED BY <1>1, <1>5, <2>1, <2>2, <2>4 DEF CheckpointInv, Staged, At
<1>10. ManifestIsBacked'
  BY <1>1, <1>3, <1>7 DEF CheckpointInv, ManifestIsBacked, At
<1> QED BY <1>6, <1>8, <1>9, <1>10 DEF CheckpointInv

\* The manifest callback, the collection, the barriers and the clock touch
\* neither the contributions nor the calls that rely on them.
LEMMA QuietInv ==
    ASSUME CheckpointInv,
           \/ \E t \in Reporters : CommitManifest(t) \/ CommitFails(t)
           \/ GcOldCheckpoints \/ Expire \/ UNCHANGED checkpointVars
    PROVE  CheckpointInv'
<1>1. CASE \E t \in Reporters : CommitManifest(t) \/ CommitFails(t)
  <2>1. PICK t \in Reporters : CommitManifest(t) \/ CommitFails(t)
    BY <1>1
  <2>2. t \in Threads /\ NoCall \in Calls /\ NoCall.at = "idle"
    BY DEF Threads, Calls, NoCall
  <2>3. /\ thread' = [thread EXCEPT ![t] = NoCall]
        /\ UNCHANGED <<changelog, nextId, round, expired, credits>>
    BY <2>1 DEF CommitManifest, CommitFails, Become
  <2>4. thread[t].id \in Ids
    BY <2>1, <2>2, CallsByPlace DEF CommitManifest, CommitFails, At, CheckpointInv, CheckpointTypeOK
  <2>5. committed' \subseteq Ids
    BY <2>1, <2>4 DEF CommitManifest, CommitFails, Retain, CheckpointInv, CheckpointTypeOK
  <2>6. CheckpointTypeOK'
    BY <2>2, <2>3, <2>5 DEF CheckpointInv, CheckpointTypeOK
  <2> QED BY <2>2, <2>3, <2>6, FrameInv
<1>2. CASE GcOldCheckpoints \/ Expire \/ UNCHANGED checkpointVars
  <2>1. UNCHANGED <<changelog, nextId, round, credits, thread>>
    BY <1>2 DEF GcOldCheckpoints, Expire, checkpointVars
  <2>2. committed' \subseteq Ids /\ expired' \in BOOLEAN
    BY <1>2 DEF GcOldCheckpoints, Expire, checkpointVars, Retain, CheckpointInv, CheckpointTypeOK
  <2>3. CheckpointTypeOK'
    BY <2>1, <2>2 DEF CheckpointInv, CheckpointTypeOK
  <2>4. Fresh' /\ Staged' /\ ManifestIsBacked'
    BY <2>1 DEF CheckpointInv, Fresh, Staged, ManifestIsBacked, At
  <2> QED BY <2>3, <2>4 DEF CheckpointInv
<1> QED BY <1>1, <1>2

\* A barrier's arrival is noted.
LEMMA BarrierReceivedInv ==
    ASSUME CheckpointInv, NEW t \in Reporters, NEW s \in Shards, NEW i \in Ids,
           BarrierReceived(t, s, i)
    PROVE  CheckpointInv'
<1>1. /\ round' = [round EXCEPT !.arrived = @ \cup {s}] /\ round \in Rounds
      /\ UNCHANGED <<changelog, nextId, expired, credits, committed, thread>>
  BY DEF BarrierReceived, CheckpointInv, CheckpointTypeOK
<1>2. /\ round' \in Rounds /\ round'.id = round.id
      /\ round'.confirmed = round.confirmed /\ round'.staged = round.staged
  BY <1>1 DEF Rounds
<1>3. CheckpointTypeOK'
  BY <1>1, <1>2 DEF CheckpointInv, CheckpointTypeOK
<1>4. Fresh' /\ Staged' /\ ManifestIsBacked'
  BY <1>1, <1>2 DEF CheckpointInv, Fresh, Staged, ManifestIsBacked, At
<1> QED BY <1>3, <1>4 DEF CheckpointInv

\* IInv is inductive.
LEMMA StepInv ==
    ASSUME CheckpointInv, [CheckpointNext]_checkpointVars
    PROVE  CheckpointInv'
<1>1. CASE \E t \in Triggers :
             Begin(t) \/ FindTimedOut(t) \/ ReleaseCredit(t) \/ ClearRound(t)
  BY <1>1, BeginInv, FindTimedOutInv, ReleaseCreditInv, ClearRoundInv
<1>2. ASSUME NEW t \in Reporters, NEW s \in Shards, NEW i \in Ids,
             \/ BarrierReceived(t, s, i)
             \/ \E j \in Ids : StageContribution(t, s, i, j)
      PROVE  CheckpointInv'
  BY <1>2, BarrierReceivedInv, StageContributionInv
<1>3. ASSUME NEW t \in Reporters, NEW s \in Shards, NEW i \in Ids,
             RecordShardCheckpoint(t, s, i)
      PROVE  CheckpointInv'
  <2>1. t \in Threads /\ ~changelog /\ Confirm(t, s, i)
    BY <1>3 DEF RecordShardCheckpoint, Threads
  <2> QED BY <2>1, ConfirmInv
<1>4. CASE \E t \in Reporters : ConfirmStaged(t)
  BY <1>4, ConfirmStagedInv
<1>5. CASE \/ \E t \in Reporters : CommitManifest(t) \/ CommitFails(t)
           \/ GcOldCheckpoints \/ Expire \/ UNCHANGED checkpointVars
  BY <1>5, QuietInv
<1> QED BY <1>1, <1>2, <1>3, <1>4, <1>5 DEF CheckpointNext

\* The coordinator's state keeps its type; in particular the credits in use
\* stay within checkpoint_alignment_max_credits.
THEOREM CheckpointTypeCorrectness == CheckpointSpec => []CheckpointTypeOK
<1>1. CheckpointInv => CheckpointTypeOK
  BY DEF CheckpointInv
<1> QED BY <1>1, InitInv, StepInv, PTL DEF CheckpointSpec

\* A changelog manifest reaches its callback only with a contribution of the
\* same checkpoint from every shard (M1-S1), with any number of trigger and
\* reporter threads.
THEOREM ManifestsAreBacked == CheckpointSpec => []ManifestIsBacked
<1>1. CheckpointInv => ManifestIsBacked
  BY DEF CheckpointInv
<1> QED BY <1>1, InitInv, StepInv, PTL DEF CheckpointSpec

\* A collection after `latest` keeps something as recent as anything it drops.
LEMMA RetainKeepsLatest ==
    ASSUME NEW ids \in SUBSET Ids, NEW latest \in ids, NEW i \in ids
    PROVE  \E j \in Retain(ids, latest) : j >= i
<1> USE CheckpointBoundAssumption DEF Ids, Retain
<1>1. CASE i >= latest - Retention
  BY <1>1
<1>2. CASE ~(i >= latest - Retention)
  <2>1. latest \in Retain(ids, latest) /\ latest >= i
    BY <1>2
  <2> QED BY <2>1
<1> QED BY <1>1, <1>2

\* No step loses the latest committed checkpoint to an older one.
LEMMA LatestStep ==
    ASSUME CheckpointInv, [CheckpointNext]_checkpointVars
    PROVE  [\A i \in committed : \E j \in committed' : j >= i]_checkpointVars
<1> SUFFICES ASSUME NEW i \in committed PROVE \E j \in committed' : j >= i
  OBVIOUS
<1>0. i \in Ids /\ i >= i
  BY CheckpointBoundAssumption DEF CheckpointInv, CheckpointTypeOK, Ids
<1>1. CASE committed' = committed
  BY <1>0, <1>1
<1>2. ASSUME NEW t \in Reporters, CommitManifest(t)
      PROVE  \E j \in committed' : j >= i
  <2>1. thread[t].id \in Ids
    BY <1>2, CallsByPlace DEF CommitManifest, At, CheckpointInv, CheckpointTypeOK, Threads
  <2>2. committed \cup {thread[t].id} \in SUBSET Ids
    BY <2>1 DEF CheckpointInv, CheckpointTypeOK
  <2>3. committed' = Retain(committed \cup {thread[t].id}, thread[t].id)
    BY <1>2 DEF CommitManifest
  <2> QED BY <2>2, <2>3, RetainKeepsLatest
<1>3. CASE GcOldCheckpoints
  <2>1. PICK latest \in committed : committed' = Retain(committed, latest)
    BY <1>3 DEF GcOldCheckpoints
  <2> QED BY <2>1, RetainKeepsLatest DEF CheckpointInv, CheckpointTypeOK
<1>4. CASE committed' # committed
  <2>1. \/ \E t \in Reporters : CommitManifest(t)
        \/ GcOldCheckpoints
    BY <1>4 DEF CheckpointNext, checkpointVars, Begin, FindTimedOut, ReleaseCredit, ClearRound,
       BarrierReceived, RecordShardCheckpoint, StageContribution, ConfirmStaged,
       Confirm, CommitFails, Expire
  <2> QED BY <2>1, <1>2, <1>3
<1> QED BY <1>1, <1>4

\* The latest committed checkpoint never retreats, in whatever order manifests
\* are committed and old ones collected.
THEOREM LatestCheckpointStays == CheckpointSpec => LatestNeverRetreats
BY InitInv, StepInv, LatestStep, PTL DEF CheckpointSpec, LatestNeverRetreats

-----------------------------------------------------------------------------
(* Credits.  NoCreditLeak says nothing while a round is being cleared, so     *)
(* what it needs is the account of a trigger that is clearing one: it has at  *)
(* least as many releases left as there are credits in use.  With a second    *)
(* trigger that is not so: the round it begins meanwhile is the one that the  *)
(* first clears, and its credits stay in use.                                 *)

\* One thread begins checkpoints.
OneTrigger == \A t, u \in Triggers : t = u

\* A round holds one credit per shard, and the trigger that clears one releases
\* all that are in use.
Balanced ==
    /\ round.id # NoId => round.held = Cardinality(Shards)
    /\ \A t \in Triggers : At(t, "drain") => credits <= thread[t].left
    /\ NoCreditLeak

\* The shards that have not confirmed are finitely many, at most all of them.
LEMMA PendingIsCounted ==
    ASSUME CheckpointTypeOK
    PROVE  /\ IsFiniteSet(Pending) /\ Cardinality(Pending) \in Nat
           /\ Pending \subseteq Shards
           /\ Cardinality(Pending) <= Cardinality(Shards)
           /\ round.id = NoId => Cardinality(Pending) = 0
<1>1. Pending \subseteq Shards
  BY DEF Pending
<1>2. IsFiniteSet(Pending) /\ Cardinality(Pending) <= Cardinality(Shards)
  BY <1>1, CheckpointShardsAssumption, FS_Subset
<1>3. Cardinality(Pending) \in Nat
  BY <1>2, FS_CardinalityType
<1>4. round.id = NoId => Cardinality(Pending) = 0
  BY FS_EmptySet DEF Pending
<1> QED BY <1>1, <1>2, <1>3, <1>4

\* A trigger in the middle of clearing a round has a number of releases left.
LEMMA DrainIsCounted ==
    ASSUME CheckpointTypeOK, NEW t \in Triggers, At(t, "drain")
    PROVE  thread[t].left \in Nat
<1>1. t \in Threads /\ thread[t] \in Calls /\ thread[t].at = "drain"
  BY DEF CheckpointTypeOK, Threads, At
<1> QED BY <1>1, CallsByPlace, ShardsAreCounted

\* A step of a reporter that gives back credits as shards confirm keeps the
\* account: the triggers are where they were and no more credits are in use.
LEMMA FewerCredits ==
    ASSUME CheckpointTypeOK, CheckpointTypeOK', Balanced, NEW t \in Reporters, NEW c,
           thread' = [thread EXCEPT ![t] = c],
           credits' <= credits,
           round'.id # NoId => round'.held = Cardinality(Shards),
           credits <= Cardinality(Pending) => credits' <= Cardinality(Pending)'
    PROVE  Balanced'
<1>1. \A u \in Triggers : thread'[u] = thread[u]
  BY CheckpointThreadsAssumption DEF CheckpointTypeOK, Threads
<1>2. credits \in Nat /\ credits' \in Nat
  BY CheckpointBoundAssumption DEF CheckpointTypeOK
<1>3. \A u \in Triggers : At(u, "drain")' => credits' <= thread'[u].left
  <2> SUFFICES ASSUME NEW u \in Triggers, At(u, "drain")
               PROVE  credits' <= thread[u].left
    BY <1>1 DEF At
  <2>1. credits <= thread[u].left /\ thread[u].left \in Nat
    BY DrainIsCounted DEF Balanced
  <2> QED BY <1>2, <2>1
<1>4. NoCreditLeak'
  BY <1>1 DEF Balanced, NoCreditLeak, At
<1> QED BY <1>1, <1>3, <1>4 DEF Balanced

\* The count of the pending shards is what it was.
LEMMA SamePending ==
    ASSUME round'.id = round.id, round'.confirmed = round.confirmed
    PROVE  Pending' = Pending
BY DEF Pending

\* A round is begun only when no credit is in use.
LEMMA BeginBalanced ==
    ASSUME OneTrigger, CheckpointInv, Balanced, CheckpointInv', NEW t \in Triggers, Begin(t)
    PROVE  Balanced'
<1>1. \A u \in Triggers : ~At(u, "drain") /\ thread'[u] = thread[u]
  BY DEF OneTrigger, Begin, At
<1>2. credits <= 0
  BY <1>1, PendingIsCounted DEF CheckpointInv, Balanced, NoCreditLeak, Begin
<1>3. credits' = Cardinality(Shards)
  BY <1>2, ShardsAreCounted, CheckpointBoundAssumption DEF Begin, CheckpointInv, CheckpointTypeOK
<1>4. round'.id = nextId /\ round'.confirmed = {} /\ round'.held = Cardinality(Shards)
  BY DEF Begin, NoRound
<1>5. nextId # NoId
  BY DEF CheckpointInv, CheckpointTypeOK, Ids, NoId
<1>6. Pending' = Shards
  BY <1>4, <1>5 DEF Pending
<1>7. credits' <= Cardinality(Pending)'
  BY <1>3, <1>6, ShardsAreCounted
<1> QED BY <1>1, <1>4, <1>7 DEF Balanced, NoCreditLeak, At

\* The trigger that finds a timed-out round takes the round's credits along.
LEMMA FindTimedOutBalanced ==
    ASSUME OneTrigger, CheckpointInv, Balanced, NEW t \in Triggers, FindTimedOut(t)
    PROVE  Balanced'
<1>1. /\ thread'[t].at = "drain" /\ thread'[t].left = round.held
      /\ round' = round /\ credits' = credits /\ t \in Threads
  BY DEF FindTimedOut, Become, CreditsHeld, CheckpointInv, CheckpointTypeOK, Threads
<1>2. \A u \in Triggers : ~At(u, "drain")
  BY DEF OneTrigger, FindTimedOut, At
<1>3. credits <= Cardinality(Pending)
  BY <1>2 DEF Balanced, NoCreditLeak
<1>4. round.held = Cardinality(Shards)
  BY DEF FindTimedOut, TimedOut, Balanced
<1>5. credits <= round.held
  BY <1>3, <1>4, PendingIsCounted, ShardsAreCounted, CheckpointBoundAssumption
     DEF CheckpointInv, CheckpointTypeOK
<1>6. \A u \in Triggers : At(u, "drain")' => credits' <= thread'[u].left
  BY <1>1, <1>5 DEF OneTrigger
<1>7. ~(\A u \in Triggers : ~At(u, "drain"))'
  BY <1>1 DEF At
<1> QED BY <1>1, <1>4, <1>6, <1>7 DEF Balanced, NoCreditLeak

\* A credit is given back for each release.
LEMMA ReleaseCreditBalanced ==
    ASSUME OneTrigger, CheckpointInv, Balanced, NEW t \in Triggers, ReleaseCredit(t)
    PROVE  Balanced'
<1>1. t \in Threads /\ thread[t] \in [at : {"drain"}, left : 0..Cardinality(Shards)]
  BY CallsByPlace DEF ReleaseCredit, At, CheckpointInv, CheckpointTypeOK, Threads
<1>2. /\ thread'[t].at = "drain" /\ thread'[t].left = thread[t].left - 1
      /\ round' = round /\ credits' = Released(1) /\ thread[t].left > 0
  BY <1>1 DEF ReleaseCredit, CheckpointInv, CheckpointTypeOK
<1>3. credits <= thread[t].left /\ thread[t].left \in Nat /\ credits \in Nat
  BY <1>1, ShardsAreCounted, CheckpointBoundAssumption
     DEF Balanced, ReleaseCredit, CheckpointInv, CheckpointTypeOK
<1>4. credits' <= thread'[t].left
  BY <1>2, <1>3 DEF Released
<1>5. \A u \in Triggers : At(u, "drain")' => credits' <= thread'[u].left
  BY <1>4 DEF OneTrigger
<1>6. ~(\A u \in Triggers : ~At(u, "drain"))'
  BY <1>2 DEF At
<1> QED BY <1>2, <1>5, <1>6 DEF Balanced, NoCreditLeak

\* When the round is cleared no credit is in use any more.
LEMMA ClearRoundBalanced ==
    ASSUME OneTrigger, CheckpointInv, Balanced, NEW t \in Triggers, ClearRound(t)
    PROVE  Balanced'
<1>1. /\ round'.id = NoId /\ credits' = credits /\ thread'[t].at = "idle"
  BY NoRoundIsRound DEF ClearRound, Become, NoCall, CheckpointInv, CheckpointTypeOK, Threads
<1>2. credits <= 0
  BY DEF ClearRound, Balanced
<1>3. Pending' = {}
  BY <1>1 DEF Pending
<1>4. credits' <= Cardinality(Pending)'
  BY <1>1, <1>2, <1>3, FS_EmptySet
<1>5. \A u \in Triggers : ~At(u, "drain")'
  BY <1>1 DEF OneTrigger, At
<1> QED BY <1>1, <1>4, <1>5 DEF Balanced, NoCreditLeak

\* A confirmation gives a credit back for the shard that confirms; the last one
\* leaves none.
LEMMA ConfirmBalanced ==
    ASSUME CheckpointInv, CheckpointInv', Balanced, NEW t \in Reporters, NEW s \in Shards, NEW i \in Ids,
           Confirm(t, s, i)
    PROVE  Balanced'
<1> USE ShardsAreCounted, CheckpointBoundAssumption
<1>1. /\ round.id = i /\ round.id # NoId /\ round \in Rounds /\ credits \in Nat
      /\ CheckpointTypeOK /\ CheckpointTypeOK'
  BY DEF Confirm, CheckpointInv, CheckpointTypeOK, Ids, NoId
<1>2. Pending = Shards \ round.confirmed /\ IsFiniteSet(Pending)
  BY <1>1, PendingIsCounted DEF Pending
<1>3. CASE round.confirmed \cup {s} = Shards
  <2>1. PICK c : thread' = [thread EXCEPT ![t] = c]
    BY <1>3 DEF Confirm, Become
  <2>2. round'.id = NoId /\ credits' = Released(1 + Surplus)
    BY <1>3, NoRoundIsRound DEF Confirm
  <2>3. Surplus \in Nat
    BY <1>1 DEF Surplus, Rounds
  <2>4. credits' <= credits
    BY <1>1, <2>2, <2>3 DEF Released
  <2>5. Pending' = {} /\ Cardinality(Pending') = 0
    BY <2>2, FS_EmptySet DEF Pending
  <2>6. Cardinality(Pending) <= 1
    <3>1. Pending \subseteq {s}
      BY <1>2, <1>3
    <3>2. IsFiniteSet({s}) /\ Cardinality({s}) = 1
      BY FS_Singleton
    <3> QED BY <3>1, <3>2, FS_Subset
  <2>7. Cardinality(Pending) \in Nat
    BY <1>1, PendingIsCounted
  <2>8. credits <= Cardinality(Pending) => credits' <= Cardinality(Pending)'
    BY <1>1, <2>2, <2>3, <2>5, <2>6, <2>7 DEF Released
  <2> QED BY <1>1, <2>1, <2>2, <2>4, <2>8, FewerCredits
<1>4. CASE round.confirmed \cup {s} # Shards
  <2>1. PICK c : thread' = [thread EXCEPT ![t] = c]
    BY <1>4 DEF Confirm, Become
  <2>2. /\ round' = [round EXCEPT !.confirmed = round.confirmed \cup {s}]
        /\ credits' = Released(1)
    BY <1>4 DEF Confirm
  <2>3. /\ round'.id = round.id /\ round'.held = round.held
        /\ round'.confirmed = round.confirmed \cup {s}
    BY <1>1, <2>2 DEF Rounds
  <2>4. credits' <= credits
    BY <1>1, <2>2 DEF Released
  <2>5. Pending' = Pending \ {s}
    BY <1>1, <1>2, <2>3 DEF Pending
  <2>6. /\ Cardinality(Pending) \in Nat /\ Cardinality(Pending \ {s}) \in Nat
        /\ Cardinality(Pending \ {s}) \in {Cardinality(Pending), Cardinality(Pending) - 1}
    <3>1. Cardinality(Pending \ {s}) =
             IF s \in Pending THEN Cardinality(Pending) - 1 ELSE Cardinality(Pending)
      BY <1>2, FS_RemoveElement
    <3>2. IsFiniteSet(Pending \ {s})
      BY <1>2, FS_RemoveElement
    <3>3. Cardinality(Pending) \in Nat /\ Cardinality(Pending \ {s}) \in Nat
      BY <1>2, <3>2, FS_CardinalityType
    <3> QED BY <3>1, <3>3
  <2>7. credits <= Cardinality(Pending) => credits' <= Cardinality(Pending \ {s})
    BY <1>1, <2>2, <2>6 DEF Released
  <2>8. credits <= Cardinality(Pending) => credits' <= Cardinality(Pending)'
    BY <2>5, <2>7
  <2>9. round'.id # NoId => round'.held = Cardinality(Shards)
    BY <2>3 DEF Balanced
  <2> QED BY <1>1, <2>1, <2>4, <2>8, <2>9, FewerCredits
<1> QED BY <1>3, <1>4

\* Steps that touch no credit, no confirmation and no trigger.
LEMMA OtherBalanced ==
    ASSUME CheckpointTypeOK, Balanced, credits' = credits, round'.id = round.id,
           round'.confirmed = round.confirmed, round'.held = round.held,
           \A u \in Triggers : thread'[u] = thread[u]
    PROVE  Balanced'
<1>1. Pending' = Pending
  BY SamePending
<1> QED BY <1>1 DEF Balanced, NoCreditLeak, At

\* With one trigger the account is kept by every step.
LEMMA BalancedStep ==
    ASSUME OneTrigger, CheckpointInv, CheckpointInv', Balanced, [CheckpointNext]_checkpointVars
    PROVE  Balanced'
<1>0. CheckpointTypeOK /\ round \in Rounds
  BY DEF CheckpointInv, CheckpointTypeOK
<1>1. CASE \E t \in Triggers :
             Begin(t) \/ FindTimedOut(t) \/ ReleaseCredit(t) \/ ClearRound(t)
  BY <1>1, BeginBalanced, FindTimedOutBalanced, ReleaseCreditBalanced,
     ClearRoundBalanced
<1>2. ASSUME NEW t \in Reporters, NEW c, thread' = [thread EXCEPT ![t] = c]
      PROVE  \A u \in Triggers : thread'[u] = thread[u]
  BY <1>0, <1>2, CheckpointThreadsAssumption DEF CheckpointTypeOK, Threads
<1>3. ASSUME NEW t \in Reporters, NEW s \in Shards, NEW i \in Ids,
             BarrierReceived(t, s, i)
      PROVE  Balanced'
  <2>1. /\ round'.id = round.id /\ round'.confirmed = round.confirmed
        /\ round'.held = round.held /\ credits' = credits /\ thread' = thread
    BY <1>0, <1>3 DEF BarrierReceived, Rounds
  <2> QED BY <1>0, <2>1, OtherBalanced
<1>4. ASSUME NEW t \in Reporters, NEW s \in Shards, NEW i \in Ids, NEW j \in Ids,
             StageContribution(t, s, i, j)
      PROVE  Balanced'
  <2>1. /\ round'.id = round.id /\ round'.confirmed = round.confirmed
        /\ round'.held = round.held /\ credits' = credits
    BY <1>0, <1>4 DEF StageContribution, Rounds
  <2>2. \A u \in Triggers : thread'[u] = thread[u]
    BY <1>2, <1>4 DEF StageContribution, Become
  <2> QED BY <1>0, <2>1, <2>2, OtherBalanced
<1>5. ASSUME NEW t \in Reporters, NEW s \in Shards, NEW i \in Ids,
             RecordShardCheckpoint(t, s, i)
      PROVE  Balanced'
  BY <1>5, ConfirmBalanced DEF RecordShardCheckpoint
<1>6. ASSUME NEW t \in Reporters, ConfirmStaged(t) PROVE Balanced'
  <2>1. thread[t] \in [at : {"staged"}, shard : Shards, id : Ids]
    BY <1>0, <1>6, CallsByPlace DEF ConfirmStaged, At, CheckpointTypeOK, Threads
  <2>2. CASE Confirm(t, thread[t].shard, thread[t].id)
    BY <2>1, <2>2, ConfirmBalanced
  <2>3. CASE Become(t, NoCall) /\ UNCHANGED <<round, credits>>
    BY <1>0, <1>2, <2>3, OtherBalanced DEF Become
  <2> QED BY <1>6, <2>2, <2>3 DEF ConfirmStaged
<1>7. ASSUME NEW t \in Reporters, CommitManifest(t) \/ CommitFails(t) PROVE Balanced'
  <2>1. Become(t, NoCall) /\ UNCHANGED <<round, credits>>
    BY <1>7 DEF CommitManifest, CommitFails
  <2> QED BY <1>0, <1>2, <2>1, OtherBalanced DEF Become
<1>8. CASE GcOldCheckpoints \/ Expire \/ UNCHANGED checkpointVars
  <2>1. UNCHANGED <<round, credits, thread>>
    BY <1>8 DEF GcOldCheckpoints, Expire, checkpointVars
  <2> QED BY <1>0, <2>1, OtherBalanced
<1> QED BY <1>1, <1>3, <1>4, <1>5, <1>6, <1>7, <1>8 DEF CheckpointNext

\* No credit outlives its round, with one trigger thread and any number of
\* shards, reporters and rounds: a coordinator that is not clearing a round has
\* no more credits in use than shards that have not confirmed.
THEOREM CreditsDoNotLeak == OneTrigger => (CheckpointSpec => []NoCreditLeak)
<1> SUFFICES ASSUME OneTrigger PROVE CheckpointSpec => []NoCreditLeak
  OBVIOUS
<1>1. CheckpointInit => Balanced
  <2> SUFFICES ASSUME CheckpointInit PROVE Balanced
    OBVIOUS
  <2>1. round.id = NoId /\ credits = 0 /\ \A t \in Triggers : ~At(t, "drain")
    BY NoRoundIsRound DEF CheckpointInit, At, NoCall, Threads
  <2>2. Pending = {} /\ Cardinality(Pending) = 0
    BY <2>1, FS_EmptySet DEF Pending
  <2> QED BY <2>1, <2>2 DEF Balanced, NoCreditLeak
<1>2. CheckpointInv /\ Balanced /\ [CheckpointNext]_checkpointVars => (CheckpointInv /\ Balanced)'
  BY StepInv, BalancedStep
<1>3. Balanced => NoCreditLeak
  BY DEF Balanced
<1> QED BY <1>1, <1>2, <1>3, InitInv, PTL DEF CheckpointSpec
=============================================================================
