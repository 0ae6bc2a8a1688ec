---------------------------- MODULE RaftElection ----------------------------
(***************************************************************************)
(* Leader election of the control plane (rockstream-control/src/raft.rs).  *)
(*                                                                         *)
(* Every control node runs one election driver (driver_loop) and one task  *)
(* per incoming peer RPC.  A node's term and vote live twice: in memory    *)
(* (RaftInner.persistent) and in the object store (durable).  A transition *)
(* changes the memory first, keeps transition_lock while the PUT is under  *)
(* way and answers only after it; a crash in between loses the memory, a   *)
(* failed PUT panics the task and leaves the memory ahead of the store.    *)
(* Peer RPCs may be lost, delayed past the caller's timeout and reordered. *)
(*                                                                         *)
(* Time is kept as two ages per node, in ticks: the age of last_contact    *)
(* and of last_quorum_contact.  An age saturates at the only threshold it  *)
(* is compared with.                                                       *)
(***************************************************************************)
EXTENDS Naturals, FiniteSets

CONSTANTS
    Nodes,             \* the control group
    Nil,               \* no node
    Bootstrap,         \* the nodes started with --bootstrap
    ElectionTimeoutMin,\* ticks without contact before a follower may stand
    LeaderQuorumTimeout,\* ticks a majority round backs a leader's authority
    Standing,          \* bound: the nodes whose election timer may fire
    MaxTerm,           \* bound: no election starts beyond this term
    MaxFaults          \* bound: crashes, failed PUTs, shutdown requests and
                       \* rounds whose unhandled RPCs arrive late

ASSUME NodesAssumption ==
    /\ IsFiniteSet(Nodes)
    /\ Nodes # {}
    /\ Nil \notin Nodes
    /\ Bootstrap \subseteq Nodes
    /\ Standing \subseteq Nodes

\* spawn_raft_node derives the quorum timeout from the other durations: with
\* the defaults it is 125 ms against 150 ms, but nothing in the code makes it
\* the shorter one, and no safety property below needs it to be.
ASSUME TimeoutAssumption ==
    /\ ElectionTimeoutMin \in Nat
    /\ LeaderQuorumTimeout \in Nat

ASSUME BoundAssumption == MaxTerm \in Nat /\ MaxFaults \in Nat

VARIABLES
    memory,        \* memory[n]: RaftInner.persistent
    durable,       \* durable[n]: the object control/raft/state.json
    role,          \* role[n]: RaftInner.role
    currentLeader, \* currentLeader[n]: RaftInner.current_leader, a hint
    contactAge,    \* contactAge[n]: ticks since last_contact
    quorumAge,     \* quorumAge[n]: ticks since last_quorum_contact
    saving,        \* saving[n]: the transition whose PUT is under way
    driver,        \* driver[n]: where the driver task is
    roundTerm,     \* roundTerm[n]: the term the driver's RPC round carries
    requests,      \* peer RPCs sent and not yet handled
    replies,       \* answers an open round may still read
    cast,          \* history: every vote that reached the store
    elected,       \* history: every win, as [term, node]
    faults         \* how many faults there were

authority == <<memory, durable, role, saving>>
timers == <<contactAge, quorumAge>>
network == <<requests, replies>>
history == <<cast, elected>>
vars == <<memory, durable, role, currentLeader, contactAge, quorumAge,
          saving, driver, roundTerm, requests, replies, cast, elected,
          faults>>

\* Counts a step against MaxFaults.
Fault ==
    /\ faults < MaxFaults
    /\ faults' = faults + 1

Terms == 0..MaxTerm
Roles == {"Follower", "Candidate", "Leader"}
Ballot == [term: Terms, votedFor: Nodes \cup {Nil}]

\* Where the driver task is: waiting; decided to stand; awaiting the votes;
\* decided to beat; awaiting the acknowledgements; panicked.
DriverSteps == {"idle", "elect", "electing", "beat", "beating", "dead"}

Request == [kind: {"vote", "beat"}, from: Nodes, to: Nodes, term: Terms]
Reply == [kind: {"vote", "beat"}, from: Nodes, to: Nodes, round: Terms,
          term: Terms, granted: BOOLEAN]

\* A transition waiting for its PUT: the task it belongs to, the step the
\* driver takes next when it is the driver's, and what is sent afterwards.
Idle == [by |-> "none", next |-> "idle", request |-> {}, reply |-> {}]
Transition == [by: {"none", "rpc", "driver"}, next: DriverSteps,
               request: SUBSET Request, reply: SUBSET Reply]

Peers(n) == Nodes \ {n}

\* config.peers.len().div_ceil(2) + 1
Majority == ((Cardinality(Nodes) - 1) + 1) \div 2 + 1

\* transition_lock is held exactly while a PUT is under way.
Unlocked(n) == saving[n].by = "none"

Later(age, limit) == IF age < limit THEN age + 1 ELSE age

QuorumNeverExpires(n) == role[n] = "Leader"

HasLiveLeaderQuorum(n) ==
    /\ role[n] = "Leader"
    /\ quorumAge[n] < LeaderQuorumTimeout

-----------------------------------------------------------------------------

Init ==
    /\ memory = [n \in Nodes |-> [term |-> 0, votedFor |-> Nil]]
    /\ durable = [n \in Nodes |-> [term |-> 0, votedFor |-> Nil]]
    /\ role = [n \in Nodes |-> "Follower"]
    /\ currentLeader = [n \in Nodes |-> Nil]
    /\ contactAge = [n \in Nodes |-> 0]
    /\ quorumAge = [n \in Nodes |-> 0]
    /\ saving = [n \in Nodes |-> Idle]
    /\ driver = [n \in Nodes |-> IF n \in Bootstrap THEN "elect" ELSE "idle"]
    /\ roundTerm = [n \in Nodes |-> 0]
    /\ requests = {}
    /\ replies = {}
    /\ cast = {}
    /\ elected = {}
    /\ faults = 0

-----------------------------------------------------------------------------
(* The durable store. *)

\* The caller of `r` still has its end of the RPC open.
Awaited(r) ==
    /\ driver[r.to] = (IF r.kind = "vote" THEN "electing" ELSE "beating")
    /\ roundTerm[r.to] = r.round

\* The PUT succeeds: the transition's messages go out and its lock is freed.
Save(n) ==
    /\ ~Unlocked(n)
    /\ durable' = [durable EXCEPT ![n] = memory[n]]
    /\ cast' = IF memory[n].votedFor = Nil THEN cast
               ELSE cast \cup {[voter |-> n, term |-> memory[n].term,
                                candidate |-> memory[n].votedFor]}
    /\ requests' = requests \cup saving[n].request
    /\ replies' = replies \cup {r \in saving[n].reply : Awaited(r)}
    /\ driver' = IF saving[n].by = "driver"
                 THEN [driver EXCEPT ![n] = saving[n].next] ELSE driver
    /\ saving' = [saving EXCEPT ![n] = Idle]
    /\ UNCHANGED <<memory, role, currentLeader, timers, roundTerm, elected,
                   faults>>

\* The PUT fails and `save` panics.  Only the task dies: the memory keeps
\* the transition, nothing is sent and the driver, if it was its save, is
\* gone for good.
SaveFails(n) ==
    /\ Fault
    /\ ~Unlocked(n)
    /\ driver' = IF saving[n].by = "driver"
                 THEN [driver EXCEPT ![n] = "dead"] ELSE driver
    /\ saving' = [saving EXCEPT ![n] = Idle]
    /\ UNCHANGED <<memory, durable, role, currentLeader, timers, roundTerm,
                   network, history>>

\* RaftPersistentStore::load.
Load(n) == durable[n]

\* The process dies and comes back: everything but the object is lost.
CrashRestart(n) ==
    /\ Fault
    /\ memory' = [memory EXCEPT ![n] = Load(n)]
    /\ role' = [role EXCEPT ![n] = "Follower"]
    /\ currentLeader' = [currentLeader EXCEPT ![n] = Nil]
    /\ contactAge' = [contactAge EXCEPT ![n] = 0]
    /\ quorumAge' = [quorumAge EXCEPT ![n] = 0]
    /\ saving' = [saving EXCEPT ![n] = Idle]
    /\ driver' = [driver EXCEPT ![n] = IF n \in Bootstrap THEN "elect"
                                       ELSE "idle"]
    /\ roundTerm' = [roundTerm EXCEPT ![n] = 0]
    /\ replies' = {r \in replies : r.to # n}
    /\ UNCHANGED <<durable, requests, history>>

-----------------------------------------------------------------------------
(* Peer RPC server. *)

\* One vote per term: for whoever asks first, as often as it asks.
CanVoteAgain(seen, req) == req.term = seen.term

CanVote(seen, req) ==
    /\ req.term = seen.term
    /\ seen.votedFor \in {Nil, req.from}

HandleRequestVote(n) ==
    /\ Unlocked(n)
    /\ \E req \in requests :
         LET seen == IF req.term > memory[n].term
                     THEN [term |-> req.term, votedFor |-> Nil]
                     ELSE memory[n]
             canVote == CanVote(seen, req)
             answer == [kind |-> "vote", from |-> n, to |-> req.from,
                        round |-> req.term, term |-> seen.term,
                        granted |-> canVote]
         IN  /\ req.kind = "vote"
             /\ req.to = n
             /\ requests' = requests \ {req}
             /\ memory' = [memory EXCEPT ![n] =
                             IF canVote
                             THEN [seen EXCEPT !.votedFor = req.from]
                             ELSE seen]
             /\ role' = IF req.term > memory[n].term
                        THEN [role EXCEPT ![n] = "Follower"] ELSE role
             /\ contactAge' = IF canVote THEN [contactAge EXCEPT ![n] = 0]
                              ELSE contactAge
             /\ saving' = [saving EXCEPT ![n] =
                             [by |-> "rpc", next |-> "idle", request |-> {},
                              reply |-> {answer}]]
    /\ UNCHANGED <<durable, currentLeader, quorumAge, driver, roundTerm,
                   replies, history, faults>>

\* The ballot after a heartbeat: a later term starts without a vote.
ForgetfulBallot(ballot, req) ==
    IF req.term >= ballot.term THEN [term |-> req.term, votedFor |-> Nil]
    ELSE ballot

HeartbeatBallot(ballot, req) ==
    IF req.term > ballot.term THEN [term |-> req.term, votedFor |-> Nil]
    ELSE ballot

HandleHeartbeat(n) ==
    /\ Unlocked(n)
    /\ \E req \in requests :
         LET advanced == req.term > memory[n].term
             current == req.term >= memory[n].term
             answer == [kind |-> "beat", from |-> n, to |-> req.from,
                        round |-> req.term,
                        term |-> IF current THEN req.term ELSE memory[n].term,
                        granted |-> FALSE]
         IN  /\ req.kind = "beat"
             /\ req.to = n
             /\ requests' = requests \ {req}
             /\ memory' = [memory EXCEPT ![n] = HeartbeatBallot(@, req)]
             /\ role' = IF current THEN [role EXCEPT ![n] = "Follower"]
                        ELSE role
             /\ currentLeader' = IF current
                                 THEN [currentLeader EXCEPT ![n] = req.from]
                                 ELSE currentLeader
             /\ contactAge' = IF current THEN [contactAge EXCEPT ![n] = 0]
                              ELSE contactAge
             /\ IF advanced
                THEN /\ saving' = [saving EXCEPT ![n] =
                                     [by |-> "rpc", next |-> "idle",
                                      request |-> {}, reply |-> {answer}]]
                     /\ UNCHANGED replies
                ELSE /\ replies' = replies \cup {r \in {answer} : Awaited(r)}
                     /\ UNCHANGED saving
    /\ UNCHANGED <<durable, quorumAge, driver, roundTerm, history, faults>>

-----------------------------------------------------------------------------
(* Election driver. *)

\* driver_loop found last_contact older than the randomized timeout.
DriverTimesOut(n) ==
    /\ driver[n] = "idle"
    /\ saving[n].by # "driver"
    /\ n \in Standing
    /\ role[n] # "Leader"
    /\ contactAge[n] = ElectionTimeoutMin
    /\ driver' = [driver EXCEPT ![n] = "elect"]
    /\ UNCHANGED <<authority, currentLeader, timers, roundTerm, network,
                   history, faults>>

\* start_election up to the durable self-vote.
StartElection(n) ==
    /\ driver[n] = "elect"
    /\ Unlocked(n)
    /\ memory[n].term < MaxTerm
    /\ LET term == memory[n].term + 1
       IN  /\ role' = [role EXCEPT ![n] = "Candidate"]
           /\ memory' = [memory EXCEPT ![n] = [term |-> term,
                                               votedFor |-> n]]
           /\ contactAge' = [contactAge EXCEPT ![n] = 0]
           /\ roundTerm' = [roundTerm EXCEPT ![n] = term]
           /\ saving' = [saving EXCEPT ![n] =
                           [by |-> "driver", next |-> "electing",
                            request |-> [kind: {"vote"}, from: {n},
                                         to: Peers(n), term: {term}],
                            reply |-> {}]]
    /\ UNCHANGED <<durable, currentLeader, quorumAge, driver, network,
                   history, faults>>

\* The answers of the driver's round that came back in time.
RoundReplies(n, kind) ==
    {r \in replies : r.kind = kind /\ r.to = n /\ r.round = roundTerm[n]}

Outvoted(n, answers) == {r \in answers : r.term > roundTerm[n]}
Votes(n, answers) ==
    {n} \cup {r.from : r \in {a \in answers : /\ a.granted
                                              /\ a.term = roundTerm[n]}}
Acknowledgements(n, answers) ==
    {n} \cup {r.from : r \in {a \in answers : a.term = roundTerm[n]}}

\* The answers that carry the highest term seen.
Highest(answers) == {r \in answers : \A q \in answers : r.term >= q.term}

\* The round is over.  The RPCs of it nobody has handled yet are lost, or,
\* as a fault, still on their way.
CloseRound(n, kind) ==
    /\ replies' = replies \ RoundReplies(n, kind)
    /\ driver' = [driver EXCEPT ![n] = "idle"]
    /\ \/ /\ requests' = {q \in requests : ~(/\ q.kind = kind
                                              /\ q.from = n
                                              /\ q.term = roundTerm[n])}
          /\ UNCHANGED faults
       \/ /\ Fault
          /\ UNCHANGED requests

\* Adopt `term` as a follower and persist it.
StepDownPast(n, term) ==
    /\ memory' = [memory EXCEPT ![n] = [term |-> term + 1, votedFor |-> Nil]]
    /\ role' = [role EXCEPT ![n] = "Follower"]
    /\ saving' = [saving EXCEPT ![n] = [Idle EXCEPT !.by = "driver"]]

StepDownTo(n, term) ==
    /\ memory' = [memory EXCEPT ![n] = [term |-> term, votedFor |-> Nil]]
    /\ role' = [role EXCEPT ![n] = "Follower"]
    /\ saving' = [saving EXCEPT ![n] = [Idle EXCEPT !.by = "driver"]]

\* No concurrent RPC has moved the node past the election it started.
StillCandidateUnchecked(n) == TRUE

StillCandidate(n) == role[n] = "Candidate" /\ memory[n].term = roundTerm[n]

\* start_election after join_all: some answers arrived, the others were lost
\* or timed out.
ConcludeElection(n) ==
    /\ driver[n] = "electing"
    /\ Unlocked(n)
    /\ \E answers \in SUBSET RoundReplies(n, "vote") :
         IF ~StillCandidate(n)
         THEN UNCHANGED <<memory, role, currentLeader, quorumAge, saving,
                          elected>>
         ELSE IF Outvoted(n, answers) # {}
         THEN /\ \E top \in Highest(answers) : StepDownTo(n, top.term)
              /\ UNCHANGED <<currentLeader, quorumAge, elected>>
         ELSE IF Cardinality(Votes(n, answers)) >= Majority
         THEN /\ role' = [role EXCEPT ![n] = "Leader"]
              /\ currentLeader' = [currentLeader EXCEPT ![n] = n]
              /\ quorumAge' = [quorumAge EXCEPT ![n] = 0]
              /\ elected' = elected \cup {[term |-> roundTerm[n],
                                           node |-> n]}
              /\ UNCHANGED <<memory, saving>>
         ELSE UNCHANGED <<memory, role, currentLeader, quorumAge, saving,
                          elected>>
    /\ CloseRound(n, "vote")
    /\ UNCHANGED <<durable, contactAge, roundTerm, cast>>

\* driver_loop read role == Leader.
DriverBeats(n) ==
    /\ driver[n] = "idle"
    /\ saving[n].by # "driver"
    /\ role[n] = "Leader"
    /\ driver' = [driver EXCEPT ![n] = "beat"]
    /\ UNCHANGED <<authority, currentLeader, timers, roundTerm, network,
                   history, faults>>

\* send_heartbeats reads the term under a lock of its own, after the driver
\* read the role.
SendHeartbeats(n) ==
    /\ driver[n] = "beat"
    /\ roundTerm' = [roundTerm EXCEPT ![n] = memory[n].term]
    /\ requests' = requests \cup [kind: {"beat"}, from: {n}, to: Peers(n),
                                  term: {memory[n].term}]
    /\ driver' = [driver EXCEPT ![n] = "beating"]
    /\ UNCHANGED <<authority, currentLeader, timers, replies, history, faults>>

\* send_heartbeats after join_all.
ConcludeHeartbeats(n) ==
    /\ driver[n] = "beating"
    /\ \E answers \in SUBSET RoundReplies(n, "beat") :
         IF Outvoted(n, answers) # {}
         THEN /\ Unlocked(n)
              /\ UNCHANGED quorumAge
              /\ \E top \in Highest(answers) :
                   IF role[n] = "Leader" /\ top.term > memory[n].term
                   THEN /\ StepDownTo(n, top.term)
                        /\ currentLeader' = [currentLeader EXCEPT ![n] = Nil]
                   ELSE UNCHANGED <<memory, role, saving, currentLeader>>
         ELSE /\ UNCHANGED <<memory, saving>>
              /\ IF role[n] = "Leader" /\ memory[n].term = roundTerm[n]
                 THEN IF Cardinality(Acknowledgements(n, answers)) >= Majority
                      THEN /\ quorumAge' = [quorumAge EXCEPT ![n] = 0]
                           /\ UNCHANGED <<role, currentLeader>>
                      ELSE IF ~HasLiveLeaderQuorum(n)
                      THEN /\ role' = [role EXCEPT ![n] = "Follower"]
                           /\ currentLeader' = [currentLeader EXCEPT ![n] =
                                                  Nil]
                           /\ UNCHANGED quorumAge
                      ELSE UNCHANGED <<role, currentLeader, quorumAge>>
                 ELSE UNCHANGED <<role, currentLeader, quorumAge>>
    /\ CloseRound(n, "beat")
    /\ UNCHANGED <<durable, contactAge, roundTerm, history>>

\* RaftHandle::step_down, called when the process is asked to shut down.
StepDown(n) ==
    /\ Fault
    /\ role[n] # "Follower" \/ currentLeader[n] # Nil
    /\ role' = [role EXCEPT ![n] = "Follower"]
    /\ currentLeader' = [currentLeader EXCEPT ![n] = Nil]
    /\ UNCHANGED <<memory, durable, saving, timers, driver, roundTerm,
                   network, history>>

Tick ==
    /\ contactAge' = [n \in Nodes |-> Later(contactAge[n],
                                            ElectionTimeoutMin)]
    /\ quorumAge' = [n \in Nodes |-> Later(quorumAge[n],
                                           LeaderQuorumTimeout)]
    /\ UNCHANGED <<authority, currentLeader, driver, roundTerm, network,
                   history, faults>>

Next ==
    \/ Tick
    \/ \E n \in Nodes :
        \/ Save(n)
        \/ SaveFails(n)
        \/ CrashRestart(n)
        \/ HandleRequestVote(n)
        \/ HandleHeartbeat(n)
        \/ DriverTimesOut(n)
        \/ StartElection(n)
        \/ ConcludeElection(n)
        \/ DriverBeats(n)
        \/ SendHeartbeats(n)
        \/ ConcludeHeartbeats(n)
        \/ StepDown(n)

Spec == Init /\ [][Next]_vars

\* The runtime schedules every ready task and time passes: a PUT under way
\* ends, and a driver that has decided to beat gets through its round.
\* Nothing is assumed of the network, of elections or of faults.
FairSpec ==
    /\ Spec
    /\ WF_vars(Tick)
    /\ \A n \in Nodes :
        /\ WF_vars(Save(n) \/ SaveFails(n))
        /\ WF_vars(DriverBeats(n))
        /\ WF_vars(SendHeartbeats(n))
        /\ WF_vars(ConcludeHeartbeats(n))

-----------------------------------------------------------------------------
(* What the election promises the rest of the control plane. *)

Leadership == INSTANCE ControlLeadership WITH
    leading <- [n \in Nodes |-> IF role[n] = "Leader"
                                THEN {memory[n].term} ELSE {}]

\* Every step of the election is a step of ControlLeadership: a term is won
\* once, and a node leads exactly the term it won until it stops.
ImplementsLeadership == Leadership!Spec

-----------------------------------------------------------------------------
(* Properties. *)

TypeOK ==
    /\ memory \in [Nodes -> Ballot]
    /\ durable \in [Nodes -> Ballot]
    /\ role \in [Nodes -> Roles]
    /\ currentLeader \in [Nodes -> Nodes \cup {Nil}]
    /\ contactAge \in [Nodes -> 0..ElectionTimeoutMin]
    /\ quorumAge \in [Nodes -> 0..LeaderQuorumTimeout]
    /\ saving \in [Nodes -> Transition]
    /\ driver \in [Nodes -> DriverSteps]
    /\ roundTerm \in [Nodes -> Terms]
    /\ requests \in SUBSET Request
    /\ replies \in SUBSET Reply
    /\ cast \in SUBSET [voter: Nodes, term: Terms, candidate: Nodes]
    /\ elected \in SUBSET [term: Terms, node: Nodes]
    /\ faults \in 0..MaxFaults

\* M7-S1 over the whole history: no two nodes ever win the same term, crashes
\* between memory and store, failed PUTs and late votes included.  Fence
\* tokens derived from the control-leader epoch rest on it.
ElectionSafety ==
    \A e, f \in elected : e.term = f.term => e.node = f.node

\* The stored ballot of each node stays or moves on.
StoreMovesOn ==
    \A n \in Nodes :
        /\ durable'[n].term >= durable[n].term
        /\ \/ durable'[n].term > durable[n].term
           \/ durable[n].votedFor \in {Nil, durable'[n].votedFor}

\* The stored ballot never goes back: not to an earlier term and not to
\* another vote (or none) in the same term.  "a silently-dropped write here
\* could let a restarted node forget it already voted this term".
BallotNeverForgotten == [][StoreMovesOn]_vars

\* Node n leads a term although a later one has been won.
Superseded(n) ==
    /\ role[n] = "Leader"
    /\ \E e \in elected : e.term > memory[n].term

\* A leader another node has superseded does not lead its old term for ever,
\* whatever answers it loses: its driver hears of the later term or finds its
\* quorum lease expired.
StaleLeaderStepsDown ==
    \A n \in Nodes : Superseded(n) ~> ~Superseded(n)
=============================================================================
