------------------------- MODULE ShardTransferProofs -------------------------
(* Theorems about ShardTransfer, for any number of workers and any bounds.    *)
(*                                                                            *)
(* OutcomeIsTrue is proved for any number of operations on the shard.  What   *)
(* it needs beyond the text of the executor is that a lease an operation gave *)
(* to its target stays recognisable: tokens are minted once, so whatever      *)
(* replaces that lease is not one the operation moved.                        *)
(*                                                                            *)
(* HandOverIsExclusive is proved for one operation at a time.  It is about    *)
(* what is on its way: an acknowledgement of the donor is good for as long as *)
(* nothing that would open the shard under the same lease is behind it.       *)
EXTENDS ShardTransfer, SequenceTheorems, TLAPS

-----------------------------------------------------------------------------
(* Types *)

Statuses == {"Absent", "Pending", "Running", "Waiting"} \cup Terminal

OpRecords ==
    [status : Statuses, phase : Phases, target : Workers \cup {Nil}, writes : Nat]

Points == RecipientStage \cup
          {"idle", "begun", "validate", "check", "donor", "closed", "transfer",
           "save", "announce", "rollback", "restore", "dead"}

Tasks == [at : Points, prev : Phases, lease : Leases \cup {Nil},
          sent : Leases \cup {Nil}, result : {"none", "ok", "bad", "late"},
          then : {"none", "wait", "fail"}]

Tables == [lease : Leases \cup {Nil}, next : Nat]

Messages == [kind : {"assigned", "prepare"}, lease : Leases,
             op : Operations \cup {Nil}]

Answers == [op : Operations, stage : {"donor", "recipient"}, token : Tokens,
            answer : {"ok", "refused", "failed"}]

\* Every variable has its type.
TypeOK ==
    /\ op \in [Operations -> OpRecords]
    /\ exec \in [Operations -> Tasks]
    /\ table \in Tables /\ store \in Tables
    /\ catalog \subseteq Workers /\ linked \subseteq Workers
    /\ dead \subseteq Workers
    /\ open \in [Workers -> Nat]
    /\ inbox \in [Workers -> Seq(Messages)]
    /\ acks \in [Workers -> Seq(Answers)]
    /\ opened \subseteq Workers \X Tokens
    /\ moved \subseteq Operations \X Tokens
    /\ revived \subseteq Operations \X Tokens
    /\ spent \in [faults : Nat, errors : Nat, requests : Nat]

-----------------------------------------------------------------------------
(* The inductive invariant behind OutcomeIsTrue *)

\* A token is minted once in the life of the control.
Minting ==
    /\ table.next >= 1 /\ store.next >= 1 /\ store.next <= table.next
    /\ table.lease # Nil => table.lease.token < table.next
    /\ store.lease # Nil => store.lease.token < store.next
    /\ \A m \in moved : m[2] < table.next

\* An acknowledgement that the shard was opened is true.
Truthful ==
    \A w \in Workers : \A i \in DOMAIN acks[w] :
        acks[w][i].stage = "recipient" /\ acks[w][i].answer = "ok"
            => <<w, acks[w][i].token>> \in opened

\* The phases an attempt leaves behind once it has got as far as the transfer.
Moving == {"transfer", "opening"}

\* Where a task has a lease of the donor, and where it has one to announce.
HasDonor == {"donor", "closed", "transfer", "save", "announce", "opening",
             "rollback", "restore", "returned"}
HasSent == {"donor", "save", "announce", "rollback", "restore"} \cup RecipientStage

\* The record r of an operation and its task t agree.
Placed(r, t) ==
    /\ r.status # "Absent" => r.target \in Workers
    /\ r.status \in {"Absent", "Pending"} => r.phase = "none"
    /\ r.status \in {"Absent", "Pending", "Waiting"} => t.at = "idle"
    /\ r.status \in {"Running", "Waiting"} => r.phase \in Cancellable \cup Moving
    /\ r.status \in Terminal => r.phase \in {"completed", "failed", "cancelled"}
    /\ t.at \in {"begun", "reopen"} =>
          /\ t.prev \in Cancellable \cup Moving \cup {"none"}
          /\ \/ r.status = "Cancelled"
             \/ r.status = "Running"
                   /\ r.phase = IF t.prev = "none" THEN "validating" ELSE t.prev
    /\ t.at = "reopen" => t.prev \notin Moving
    /\ t.at = "transfer" => r.status = "Running" /\ r.phase = "transfer"
    /\ t.at \in HasDonor => t.lease \in Leases
    /\ t.at \in HasSent => t.sent \in Leases

\* The operation o with the record r gave the lease l to its target.
Gave(o, r, l) ==
    /\ l # Nil /\ Owner(l) = r.target
    /\ <<o, l.token>> \in moved /\ <<o, l.token>> \notin revived

\* The operation may still be cancelled, or was, or is about to begin anew.
Uncommitted(r, t) ==
    \/ r.status \in {"Pending", "Cancelled"}
    \/ r.status \in {"Running", "Waiting"} /\ r.phase \in Cancellable
    \/ t.at = "validate"

\* What the operation says, and is about to say, is true of the lease l in force.
Backed(o, r, t, l) ==
    /\ r.status = "Absent" => \A n \in Tokens : <<o, n>> \notin moved
    /\ Uncommitted(r, t) => ~Gave(o, r, l)
    /\ r.status = "Succeeded" /\ Gave(o, r, l) => <<r.target, l.token>> \in opened
    /\ t.at \in RecipientStage /\ t.result = "ok"
          => <<t.sent.worker, t.sent.token>> \in opened
    /\ t.at \in {"save", "announce", "opening", "reclaim"}
          => l = t.sent \/ l = Nil \/ <<o, l.token>> \notin moved

\* Where the task is by the phase of its record, and what it holds there.
Staged(r, t) ==
    /\ t.at = "reopen" => t.prev = "closed"
    /\ t.at = "check" => t.result = "none"
    /\ t.at = "donor" => t.sent = t.lease
    /\ t.at \in {"save", "announce"} => t.sent.worker = r.target
    /\ r.status = "Running" =>
          /\ t.at = "check" => r.phase = "validating"
          /\ t.at = "donor" => r.phase = "handoff"
          /\ t.at \in {"reclaim", "save", "announce", "opening", "rollback",
                       "restore", "returned"} => r.phase \in Moving

\* The leases a task holds have been minted.
Numbered(t) ==
    /\ t.at \in HasDonor => t.lease.token < table.next
    /\ t.at \in HasSent => t.sent.token < table.next

\* No lease that is on its way is yet to be minted.
Known ==
    /\ \A w \in Workers : \A i \in DOMAIN inbox[w] :
          inbox[w][i].lease.token < table.next
    /\ \A w \in Workers : \A i \in DOMAIN acks[w] : acks[w][i].token < table.next

Fits(o, r, t) ==
    Placed(r, t) /\ Staged(r, t) /\ Numbered(t) /\ Backed(o, r, t, table.lease)

IInv ==
    /\ TypeOK /\ Minting /\ Truthful /\ Known
    /\ \A o \in Operations : Fits(o, op[o], exec[o])

-----------------------------------------------------------------------------
(* The inductive invariant behind HandOverIsExclusive *)

\* The operation will not get to a transfer any more unless the control restarts.
Doomed(r, t) ==
    \/ r.status \in Terminal
    \/ r.status = "Running" /\ t.at \in {"idle", "giveback", "dead"}

IsPrepare(m, n) == m.kind = "prepare" /\ m.lease.token = n
IsAssigned(m, n) == m.kind = "assigned" /\ m.lease.token = n

\* A worker is not asked to open what it has been asked to close before.
InOrder ==
    \A w \in Workers : \A i, j \in DOMAIN inbox[w] : \A n \in Tokens :
        i < j /\ IsPrepare(inbox[w][i], n) => ~IsAssigned(inbox[w][j], n)

\* The worker does not have the shard open with token n, and will not.
Shut(w, n) ==
    /\ open[w] # n
    /\ \A i \in DOMAIN inbox[w] : ~IsAssigned(inbox[w][i], n)

\* A donor that answered that the shard is closed is right, and will be.
AnswersHold ==
    \A w \in Workers : \A i \in DOMAIN acks[w] :
        acks[w][i].stage = "donor" /\ acks[w][i].answer = "ok"
            => Shut(w, acks[w][i].token)

\* No request to close the shard, nor an answer to one, is on its way to or from
\* worker w, or for the lease with token n.
NoDonorAt(w) ==
    /\ \A i \in DOMAIN inbox[w] : inbox[w][i].kind # "prepare"
    /\ \A i \in DOMAIN acks[w] : acks[w][i].stage # "donor"

NoDonorWith(n) ==
    \A w \in Workers :
        /\ \A i \in DOMAIN inbox[w] : ~IsPrepare(inbox[w][i], n)
        /\ \A i \in DOMAIN acks[w] :
              ~(acks[w][i].stage = "donor" /\ acks[w][i].token = n)

\* An attempt that begins by asking the owner to open the shard again finds
\* nothing of an earlier attempt on its way.
Afresh(r, t) ==
    \/ r.status = "Absent"
    \/ r.status = "Waiting" /\ r.phase = "closed"
    \/ t.at \in {"begun", "reopen", "validate"} /\ t.prev = "closed"

\* What is on its way is no danger to the task.
Cleared(r, t) == Afresh(r, t) => \A w \in Workers : NoDonorAt(w)
Aimed(r) == \A w \in Workers : w = r.target => NoDonorAt(w)
Renewed(t) == t.at = "restore" => NoDonorWith(t.sent.token)
DonorShut(t) ==
    \/ t.at \in {"closed", "transfer"}
    \/ t.at = "donor" /\ t.result = "ok"
    => Shut(t.lease.worker, t.lease.token)

Calm(r, t) == Cleared(r, t) /\ Aimed(r) /\ Renewed(t) /\ DonorShut(t)

Quiet ==
    \A o \in Operations :
        ~Doomed(op[o], exec[o]) =>
            InOrder /\ AnswersHold /\ Calm(op[o], exec[o])


-----------------------------------------------------------------------------
(* Sequences and types *)

\* What a message put at the end of a queue leaves in place.
LEMMA Appended ==
  ASSUME NEW S, NEW s \in Seq(S), NEW e \in S
  PROVE  /\ Append(s, e) \in Seq(S)
         /\ \A i \in DOMAIN Append(s, e) :
               \/ i \in DOMAIN s /\ Append(s, e)[i] = s[i]
               \/ Append(s, e)[i] = e /\ \A j \in DOMAIN Append(s, e) : ~(i < j)
  OBVIOUS

\* What is left of a queue once its first message is taken.
LEMMA Taken1 ==
  ASSUME NEW S, NEW s \in Seq(S), s # <<>>
  PROVE  /\ Tail(s) \in Seq(S) /\ Head(s) \in S
         /\ 1 \in DOMAIN s /\ Head(s) = s[1]
         /\ \A i \in DOMAIN Tail(s) :
               i \in Nat /\ 1 < i + 1 /\ i + 1 \in DOMAIN s /\ Tail(s)[i] = s[i + 1]
  OBVIOUS

\* The empty queue has nothing in it.
LEMMA Emptied ==
  ASSUME NEW S
  PROVE  <<>> \in Seq(S) /\ \A i \in DOMAIN <<>> : FALSE
  OBVIOUS

\* An element of a queue is of the queue's type.
LEMMA Queued ==
  ASSUME NEW S, NEW s \in Seq(S), NEW i \in DOMAIN s
  PROVE  s[i] \in S
  OBVIOUS

\* Leases are records of a worker and a token.
LEMMA LeaseFacts ==
  ASSUME NEW l \in Leases
  PROVE  l.worker \in Workers /\ l.token \in Tokens /\ l.token \in Nat /\ l.token # 0
  BY DEF Leases, Tokens

\* A task without an operation.
LEMMA IdleIsTask == IdleTask \in Tasks
  BY DEF IdleTask, Tasks, Points, Phases

\* A token that is minted is a new one.
LEMMA GrantedIs ==
  ASSUME TypeOK, CanMint, Minting, NEW w \in Workers
  PROVE  /\ Granted(w) \in Tables /\ Granted(w).lease \in Leases
         /\ Granted(w).lease.worker = w /\ Granted(w).lease.token = table.next
         /\ Granted(w).next = table.next + 1 /\ table.next \in Tokens
         /\ table.next \in Nat
<1>1. table.next \in Nat /\ table.next >= 1 /\ table.next <= MaxToken /\ MaxToken \in Nat
  BY TransferConstants DEF TypeOK, Tables, CanMint, Minting
<1>2. table.next \in Tokens
  BY <1>1 DEF Tokens
<1>3. [worker |-> w, token |-> table.next] \in Leases
  BY <1>2 DEF Leases
<1>4. QED
  BY <1>1, <1>2, <1>3 DEF Granted, Minted, Tables

-----------------------------------------------------------------------------
(* A step of a task or of its record *)

\* The message m goes to worker w.
Posted(w, m) == inbox' = [inbox EXCEPT ![w] = Append(@, m)]

\* At most one message goes out, with a lease that has been minted.
Mailed ==
    \/ inbox' = inbox
    \/ \E w \in Workers : \E m \in Messages :
          m.lease.token < table.next /\ Posted(w, m)

\* The message m to worker w is no danger to a task t with the record r.
Harmless(r, t, w, m) ==
    \/ m.kind = "prepare" /\ ~Afresh(r, t) /\ w # r.target /\ t.at # "restore"
    \/ /\ m.kind = "assigned"
       /\ \A i \in DOMAIN inbox[w] : ~IsPrepare(inbox[w][i], m.lease.token)
       /\ \A i \in DOMAIN acks[w] :
             ~(acks[w][i].stage = "donor" /\ acks[w][i].token = m.lease.token)
       /\ t.at \in {"donor", "closed", "transfer"} => t.lease.token # m.lease.token

\* The operation was not doomed before, and is not disturbed now.
Follows(o, r, t) ==
    ~Doomed(r, t) =>
        /\ ~Doomed(op[o], exec[o])
        /\ Calm(r, t)
        /\ \/ inbox' = inbox
           \/ \E w \in Workers : \E m \in Messages :
                 Posted(w, m) /\ Harmless(r, t, w, m)

Becomes(o, r, t) == op' = [op EXCEPT ![o] = r] /\ exec' = [exec EXCEPT ![o] = t]

SpentOK == spent' \in [faults : Nat, errors : Nat, requests : Nat]

\* A step of operation o that leaves the lease in force alone.
Turn(o) ==
    \E r \in OpRecords : \E t \in Tasks :
        Fits(o, r, t) /\ Becomes(o, r, t) /\ (Quiet => Follows(o, r, t))

\* Posting a message keeps the queues well-formed.
LEMMA PostedTypes ==
  ASSUME TypeOK, NEW w \in Workers, NEW m \in Messages, Posted(w, m)
  PROVE  /\ inbox' \in [Workers -> Seq(Messages)]
         /\ \A v \in Workers : v # w => inbox'[v] = inbox[v]
         /\ inbox'[w] = Append(inbox[w], m)
         /\ \A i \in DOMAIN inbox'[w] :
               \/ i \in DOMAIN inbox[w] /\ inbox'[w][i] = inbox[w][i]
               \/ inbox'[w][i] = m /\ \A j \in DOMAIN inbox'[w] : ~(i < j)
<1>1. inbox \in [Workers -> Seq(Messages)] /\ inbox[w] \in Seq(Messages)
  BY DEF TypeOK
<1>2. /\ \A v \in Workers : v # w => inbox'[v] = inbox[v]
      /\ inbox'[w] = Append(inbox[w], m)
  BY <1>1 DEF Posted
<1>3. Append(inbox[w], m) \in Seq(Messages)
  BY <1>1, Appended
<1>4. inbox' \in [Workers -> Seq(Messages)]
  BY <1>1, <1>3 DEF Posted
<1>5. \A i \in DOMAIN Append(inbox[w], m) :
         \/ i \in DOMAIN inbox[w] /\ Append(inbox[w], m)[i] = inbox[w][i]
         \/ Append(inbox[w], m)[i] = m
              /\ \A j \in DOMAIN Append(inbox[w], m) : ~(i < j)
  BY <1>1, Appended
<1>6. QED
  BY <1>2, <1>4, <1>5

\* A message with a minted lease keeps the queues as they should be.
LEMMA MailedKeeps ==
  ASSUME TypeOK, Known, Mailed, table'.next >= table.next, table'.next \in Nat
  PROVE  /\ inbox' \in [Workers -> Seq(Messages)]
         /\ \A w \in Workers : \A i \in DOMAIN inbox'[w] :
               inbox'[w][i].lease.token < table'.next
<1>0. table.next \in Nat
  BY DEF TypeOK, Tables
<1>1. \A m \in Messages : m.lease.token \in Nat
  BY LeaseFacts DEF Messages
<1>2. \A w \in Workers : \A i \in DOMAIN inbox[w] : inbox[w][i] \in Messages
  BY Queued DEF TypeOK
<1>3. CASE inbox' = inbox
  BY <1>0, <1>1, <1>2, <1>3 DEF TypeOK, Known
<1>4. ASSUME NEW w \in Workers, NEW m \in Messages,
             m.lease.token < table.next, Posted(w, m)
      PROVE  /\ inbox' \in [Workers -> Seq(Messages)]
             /\ \A v \in Workers : \A i \in DOMAIN inbox'[v] :
                   inbox'[v][i].lease.token < table'.next
  <2>1. /\ inbox' \in [Workers -> Seq(Messages)]
        /\ \A v \in Workers : v # w => inbox'[v] = inbox[v]
        /\ \A i \in DOMAIN inbox'[w] :
               \/ i \in DOMAIN inbox[w] /\ inbox'[w][i] = inbox[w][i]
               \/ inbox'[w][i] = m
    BY <1>4, PostedTypes
  <2>2. ASSUME NEW v \in Workers, NEW i \in DOMAIN inbox'[v]
        PROVE  inbox'[v][i].lease.token < table'.next
    <3>1. \/ i \in DOMAIN inbox[v] /\ inbox'[v][i] = inbox[v][i]
          \/ inbox'[v][i] = m
      BY <2>1
    <3>2. CASE i \in DOMAIN inbox[v] /\ inbox'[v][i] = inbox[v][i]
      BY <1>0, <1>1, <1>2, <3>2 DEF Known
    <3>3. CASE inbox'[v][i] = m
      BY <1>0, <1>1, <1>4, <3>3
    <3>4. QED
      BY <3>1, <3>2, <3>3
  <2>3. QED
    BY <2>1, <2>2
<1>5. QED
  BY <1>3, <1>4 DEF Mailed

\* A step of one operation that leaves the lease in force alone keeps the
\* invariant.
LEMMA TurnKeeps ==
  ASSUME IInv, NEW o \in Operations, Turn(o), Mailed, SpentOK,
         store' \in {store, table},
         UNCHANGED <<table, catalog, linked, dead, open, acks, opened, moved, revived>>
  PROVE  IInv'
<1>1. PICK r \in OpRecords : \E t \in Tasks : Fits(o, r, t) /\ Becomes(o, r, t)
  BY DEF Turn
<1>2. PICK t \in Tasks : Fits(o, r, t) /\ Becomes(o, r, t)
  BY <1>1
<1>3. op \in [Operations -> OpRecords] /\ exec \in [Operations -> Tasks]
  BY DEF IInv, TypeOK
<1>4. op' \in [Operations -> OpRecords] /\ exec' \in [Operations -> Tasks]
  BY <1>2, <1>3 DEF Becomes
<1>5. /\ inbox' \in [Workers -> Seq(Messages)]
      /\ \A w \in Workers : \A i \in DOMAIN inbox'[w] :
            inbox'[w][i].lease.token < table'.next
  <2>1. table'.next >= table.next /\ table'.next \in Nat
    BY DEF IInv, TypeOK, Tables
  <2>2. QED
    BY <2>1, MailedKeeps DEF IInv
<1>6. TypeOK'
  <2>1. store' \in Tables
    BY DEF IInv, TypeOK
  <2>2. QED
    BY <1>4, <1>5, <2>1 DEF IInv, TypeOK, SpentOK
<1>7. Minting'
  <2>1. table.next \in Nat /\ store.next \in Nat
    BY DEF IInv, TypeOK, Tables
  <2>2. QED
    BY <2>1 DEF IInv, Minting
<1>8. Truthful' /\ Known'
  BY <1>5 DEF IInv, Truthful, Known
<1>9. ASSUME NEW p \in Operations PROVE Fits(p, op[p], exec[p])'
  <2>1. CASE p = o
    <3>1. op'[p] = r /\ exec'[p] = t
      BY <1>2, <1>3, <2>1 DEF Becomes
    <3>2. Placed(r, t) /\ Staged(r, t) /\ Numbered(t)' /\ Backed(o, r, t, table.lease)'
      BY <1>2 DEF Fits, Numbered, Backed, Gave
    <3>3. QED
      BY <2>1, <3>1, <3>2 DEF Fits, Placed, Staged, Numbered, Backed, Gave
  <2>2. CASE p # o
    <3>1. op'[p] = op[p] /\ exec'[p] = exec[p]
      BY <1>2, <1>3, <2>2 DEF Becomes
    <3>2. Fits(p, op[p], exec[p])
      BY DEF IInv
    <3>3. QED
      BY <3>1, <3>2 DEF Fits, Placed, Staged, Numbered, Backed, Gave
  <2>3. QED
    BY <2>1, <2>2
<1>10. QED
  BY <1>6, <1>7, <1>8, <1>9 DEF IInv

\* One operation at a time migrates the shard.
OneOperation == \A o, p \in Operations : o = p

\* A harmless message leaves the promises about what is on its way in force.
LEMMA HarmlessKeeps ==
  ASSUME TypeOK, InOrder, AnswersHold, NEW r \in OpRecords, NEW t \in Tasks,
         Placed(r, t), Calm(r, t),
         NEW w \in Workers, NEW m \in Messages, Posted(w, m), Harmless(r, t, w, m),
         UNCHANGED <<open, acks>>
  PROVE  InOrder' /\ AnswersHold' /\ Calm(r, t)'
<1>1. /\ \A v \in Workers : v # w => inbox'[v] = inbox[v]
      /\ \A i \in DOMAIN inbox'[w] :
             \/ i \in DOMAIN inbox[w] /\ inbox'[w][i] = inbox[w][i]
             \/ inbox'[w][i] = m /\ \A j \in DOMAIN inbox'[w] : ~(i < j)
  BY PostedTypes
<1>2. \A v \in Workers : \A i \in DOMAIN inbox'[v] :
         \/ i \in DOMAIN inbox[v] /\ inbox'[v][i] = inbox[v][i]
         \/ v = w /\ inbox'[v][i] = m /\ \A j \in DOMAIN inbox'[v] : ~(i < j)
  BY <1>1
<1> HIDE DEF Posted
<1>3. InOrder'
  <2>1. ASSUME NEW v \in Workers, NEW i \in DOMAIN inbox'[v],
               NEW j \in DOMAIN inbox'[v], NEW n \in Tokens, i < j,
               IsPrepare(inbox'[v][i], n), IsAssigned(inbox'[v][j], n)
        PROVE  FALSE
    <3>1. i \in DOMAIN inbox[v] /\ inbox'[v][i] = inbox[v][i]
      BY <1>2, <2>1
    <3>2. CASE j \in DOMAIN inbox[v] /\ inbox'[v][j] = inbox[v][j]
      BY <2>1, <3>1, <3>2 DEF InOrder
    <3>3. CASE v = w /\ inbox'[v][j] = m
      BY <2>1, <3>1, <3>3 DEF Harmless, IsPrepare, IsAssigned
    <3>4. QED
      BY <1>2, <3>2, <3>3
  <2>2. QED
    BY <2>1 DEF InOrder, IsPrepare, IsAssigned
<1>4. ASSUME NEW v \in Workers, NEW n, Shut(v, n),
             v = w /\ m.kind = "assigned" => m.lease.token # n
      PROVE  Shut(v, n)'
  <2>1. ASSUME NEW i \in DOMAIN inbox'[v] PROVE ~IsAssigned(inbox'[v][i], n)
    BY <1>2, <1>4 DEF Shut, IsAssigned
  <2>2. QED
    BY <1>4, <2>1 DEF Shut, IsAssigned
<1>5. AnswersHold'
  <2>1. ASSUME NEW v \in Workers, NEW i \in DOMAIN acks[v],
               acks[v][i].stage = "donor", acks[v][i].answer = "ok"
        PROVE  Shut(v, acks[v][i].token)'
    <3>1. Shut(v, acks[v][i].token)
      BY <2>1 DEF AnswersHold
    <3>2. v = w /\ m.kind = "assigned" => m.lease.token # acks[v][i].token
      BY <2>1 DEF Harmless
    <3>3. QED
      BY <1>4, <3>1, <3>2
  <2>2. QED
    BY <2>1 DEF AnswersHold, Shut, IsAssigned
<1>6. Calm(r, t)'
  <2>1. ASSUME NEW v \in Workers, NoDonorAt(v), v = w => m.kind = "assigned"
        PROVE  NoDonorAt(v)'
    BY <1>2, <2>1 DEF NoDonorAt
  <2>2. Cleared(r, t)'
    BY <2>1 DEF Calm, Cleared, Harmless, Afresh
  <2>3. Aimed(r)'
    BY <2>1 DEF Calm, Aimed, Harmless
  <2>4. Renewed(t)'
    <3>1. SUFFICES ASSUME t.at = "restore" PROVE NoDonorWith(t.sent.token)'
      BY DEF Renewed
    <3>2. NoDonorWith(t.sent.token) /\ m.kind = "assigned"
      BY <3>1 DEF Calm, Renewed, Harmless
    <3>3. QED
      BY <1>2, <3>2 DEF NoDonorWith, IsPrepare
  <2>5. DonorShut(t)'
    <3>1. SUFFICES ASSUME \/ t.at \in {"closed", "transfer"}
                          \/ t.at = "donor" /\ t.result = "ok"
                   PROVE  Shut(t.lease.worker, t.lease.token)'
      BY DEF DonorShut
    <3>2. Shut(t.lease.worker, t.lease.token)
      BY <3>1 DEF Calm, DonorShut
    <3>3. t.lease.worker \in Workers
      BY <3>1, LeaseFacts DEF Placed, HasDonor
    <3>4. m.kind = "assigned" => m.lease.token # t.lease.token
      BY <3>1 DEF Harmless
    <3>5. QED
      BY <1>4, <3>2, <3>3, <3>4
  <2>6. QED
    BY <2>2, <2>3, <2>4, <2>5 DEF Calm
<1>7. QED
  BY <1>3, <1>5, <1>6

\* A step of the only operation keeps what is on its way harmless to it.
LEMMA FollowsKeeps ==
  ASSUME IInv, Quiet, OneOperation, NEW o \in Operations,
         NEW r \in OpRecords, NEW t \in Tasks, Placed(r, t),
         Becomes(o, r, t), Follows(o, r, t), UNCHANGED <<open, acks>>
  PROVE  Quiet'
<1>1. op'[o] = r /\ exec'[o] = t
  BY DEF IInv, TypeOK, Becomes
<1>2. SUFFICES ASSUME ~Doomed(r, t) PROVE InOrder' /\ AnswersHold' /\ Calm(r, t)'
  <2>1. Doomed(op'[o], exec'[o]) <=> Doomed(r, t)
    BY <1>1
  <2>2. ASSUME NEW p \in Operations, ~Doomed(op[p], exec[p])'
        PROVE  InOrder' /\ AnswersHold' /\ Calm(op[p], exec[p])'
    <3>1. p = o
      BY DEF OneOperation
    <3>2. ~Doomed(r, t)
      BY <2>2, <3>1, <1>1 DEF Doomed
    <3>3. InOrder' /\ AnswersHold' /\ Calm(r, t)'
      BY <1>2, <3>2
    <3>4. QED
      BY <1>1, <3>1, <3>3 DEF Calm, Cleared, Aimed, Renewed, DonorShut, Afresh,
         NoDonorAt, NoDonorWith, Shut
  <2>3. QED
    BY <2>2 DEF Quiet
<1>3. InOrder /\ AnswersHold /\ Calm(r, t)
  BY <1>2 DEF Follows, Quiet
<1>4. TypeOK
  BY DEF IInv
<1>5. CASE inbox' = inbox
  <2>1. InOrder' /\ AnswersHold'
    BY <1>3, <1>5 DEF InOrder, AnswersHold, Shut
  <2>2. Calm(r, t)'
    BY <1>3, <1>5 DEF Calm, Cleared, Aimed, Renewed, DonorShut, Afresh,
         NoDonorAt, NoDonorWith, Shut
  <2>3. QED
    BY <2>1, <2>2
<1>6. CASE \E w \in Workers : \E m \in Messages :
              Posted(w, m) /\ Harmless(r, t, w, m)
  <2>1. PICK w \in Workers : \E m \in Messages : Posted(w, m) /\ Harmless(r, t, w, m)
    BY <1>6
  <2>2. PICK m \in Messages : Posted(w, m) /\ Harmless(r, t, w, m)
    BY <2>1
  <2>3. QED
    BY <1>3, <1>4, <2>2, HarmlessKeeps
<1>7. QED
  BY <1>2, <1>5, <1>6 DEF Follows

-----------------------------------------------------------------------------
(* A task that ends *)

\* The bounds keep their types.
LEMMA SpentStep ==
  ASSUME TypeOK, Error \/ Fault \/ UNCHANGED spent
  PROVE  SpentOK
<1>1. spent \in [faults : Nat, errors : Nat, requests : Nat]
  BY DEF TypeOK
<1>2. CASE UNCHANGED spent
  BY <1>1, <1>2 DEF SpentOK
<1>3. CASE Error
  BY <1>1, <1>3 DEF Error, SpentOK
<1>4. CASE Fault
  BY <1>1, <1>4 DEF Fault, SpentOK
<1>5. QED
  BY <1>2, <1>3, <1>4

\* A record with another status and phase.
LEMMA MarkedIs ==
  ASSUME NEW o \in Operations, op[o] \in OpRecords,
         NEW s \in Statuses, NEW p \in Phases
  PROVE  /\ Marked(o, s, p) \in OpRecords
         /\ Marked(o, s, p).status = s /\ Marked(o, s, p).phase = p
         /\ Marked(o, s, p).target = op[o].target
  BY DEF Marked, OpRecords

\* The statuses and phases the executor writes.
LEMMA WordsIs ==
  /\ {"Running", "Waiting", "Pending", "Failed", "Cancelled", "Succeeded"} \subseteq Statuses
  /\ {"validating", "handoff", "closed", "transfer", "opening", "completed", "failed",
      "cancelled", "none"} \subseteq Phases
  BY DEF Statuses, Terminal, Phases

\* A last update of the record ends the task, whether it is stored or not.
LEMMA LastUpdate ==
  ASSUME IInv, NEW o \in Operations, NEW status, NEW phase,
         Transition(o, status, phase, Return(o), Return(o))
  PROVE  /\ SpentOK /\ inbox' = inbox
         /\ \/ Becomes(o, op[o], IdleTask)
            \/ /\ Legal(op[o].status, status)
               /\ Becomes(o, Marked(o, status, phase), IdleTask)
<1>1. TypeOK
  BY DEF IInv
<1>2. Return(o) /\ (Error \/ UNCHANGED spent)
  BY DEF Transition, Write
<1>3. op' = op \/ (Legal(op[o].status, status) /\ Record(o, status, phase))
  BY DEF Transition, Write
<1>4. op = [op EXCEPT ![o] = op[o]]
  BY <1>1 DEF TypeOK
<1>5. QED
  BY <1>1, <1>2, <1>3, <1>4, SpentStep DEF Return, Become, Record, Becomes, Marked

\* A record that fits its task fits no task.
LEMMA IdleFits ==
  ASSUME NEW o \in Operations, NEW r \in OpRecords, NEW t \in Tasks, Fits(o, r, t)
  PROVE  Fits(o, r, IdleTask)
<1>1. IdleTask.at = "idle"
  BY DEF IdleTask
<1>2. Placed(r, IdleTask) /\ Staged(r, IdleTask)
  BY <1>1 DEF Fits, Placed, Staged, HasDonor, HasSent, RecipientStage
<1>3. Numbered(IdleTask)
  BY <1>1 DEF Numbered, HasDonor, HasSent, RecipientStage
<1>4. Backed(o, r, IdleTask, table.lease)
  BY <1>1 DEF Fits, Backed, Uncommitted, RecipientStage
<1>5. QED
  BY <1>2, <1>3, <1>4 DEF Fits

\* A task that gives up without a word leaves a doomed operation.
LEMMA ReturnTurn ==
  ASSUME IInv, NEW o \in Operations, exec[o].at # "idle",
         Becomes(o, op[o], IdleTask), inbox' = inbox
  PROVE  Turn(o) /\ Mailed
<1>1. op[o] \in OpRecords /\ exec[o] \in Tasks /\ Fits(o, op[o], exec[o])
  BY DEF IInv, TypeOK
<1>2. Fits(o, op[o], IdleTask)
  BY <1>1, IdleFits
<1>3. Doomed(op[o], IdleTask)
  <2>1. op[o].status \in Statuses
    BY <1>1 DEF OpRecords
  <2>2. op[o].status \notin {"Absent", "Pending", "Waiting"}
    BY <1>1 DEF Fits, Placed
  <2>3. QED
    BY <2>1, <2>2 DEF Doomed, Statuses, IdleTask
<1>4. QED
  BY <1>1, <1>2, <1>3, IdleIsTask DEF Turn, Follows, Mailed

\* A record that becomes Failed fits no task.
LEMMA FailTurn ==
  ASSUME IInv, NEW o \in Operations, exec[o].at # "idle", Fail(o)
  PROVE  Turn(o) /\ Mailed /\ SpentOK
<1>1. op[o] \in OpRecords /\ exec[o] \in Tasks /\ Fits(o, op[o], exec[o])
  BY DEF IInv, TypeOK
<1>2. /\ SpentOK /\ inbox' = inbox
      /\ \/ Becomes(o, op[o], IdleTask)
         \/ /\ Legal(op[o].status, "Failed")
            /\ Becomes(o, Marked(o, "Failed", "failed"), IdleTask)
  BY LastUpdate DEF Fail
<1>3. CASE Becomes(o, op[o], IdleTask)
  BY <1>2, <1>3, ReturnTurn
<1>4. CASE /\ Legal(op[o].status, "Failed")
           /\ Becomes(o, Marked(o, "Failed", "failed"), IdleTask)
  <2> DEFINE r == Marked(o, "Failed", "failed")
  <2>1. r \in OpRecords /\ r.status = "Failed" /\ r.phase = "failed"
           /\ r.target = op[o].target
    BY <1>1, MarkedIs, WordsIs
  <2> HIDE DEF r
  <2>2. op[o].target \in Workers
    BY <1>1, <1>4 DEF Fits, Placed, Legal
  <2>3. Placed(r, IdleTask) /\ Staged(r, IdleTask) /\ Numbered(IdleTask)
    BY <2>1, <2>2 DEF Placed, Staged, Numbered, IdleTask, HasDonor, HasSent,
       RecipientStage, Terminal
  <2>4. Backed(o, r, IdleTask, table.lease)
    BY <2>1 DEF Backed, Uncommitted, IdleTask, RecipientStage
  <2>5. Doomed(r, IdleTask)
    BY <2>1 DEF Doomed, Terminal
  <2>6. Becomes(o, r, IdleTask)
    BY <1>4 DEF r
  <2>7. QED
    BY <1>2, <2>1, <2>3, <2>4, <2>5, <2>6, IdleIsTask DEF Turn, Follows, Mailed, Fits
<1>5. QED
  BY <1>2, <1>3, <1>4

\* An operation that succeeds was acknowledged for the lease in force, if that
\* is one it moved.
LEMMA SucceedTurn ==
  ASSUME IInv, NEW o \in Operations, exec[o].at \in {"reclaim", "opening"},
         Opened(o), Succeed(o)
  PROVE  Turn(o) /\ Mailed /\ SpentOK
<1>1. op[o] \in OpRecords /\ exec[o] \in Tasks /\ Fits(o, op[o], exec[o])
  BY DEF IInv, TypeOK
<1>2. /\ SpentOK /\ inbox' = inbox
      /\ \/ Becomes(o, op[o], IdleTask)
         \/ /\ Legal(op[o].status, "Succeeded")
            /\ Becomes(o, Marked(o, "Succeeded", "completed"), IdleTask)
  BY LastUpdate DEF Succeed
<1>3. CASE Becomes(o, op[o], IdleTask)
  BY <1>2, <1>3, ReturnTurn
<1>4. CASE /\ Legal(op[o].status, "Succeeded")
           /\ Becomes(o, Marked(o, "Succeeded", "completed"), IdleTask)
  <2> DEFINE r == Marked(o, "Succeeded", "completed")
  <2>1. r \in OpRecords /\ r.status = "Succeeded" /\ r.phase = "completed"
           /\ r.target = op[o].target
    BY <1>1, MarkedIs, WordsIs
  <2> HIDE DEF r
  <2>2. op[o].target \in Workers
    BY <1>1, <1>4 DEF Fits, Placed, Legal
  <2>3. Placed(r, IdleTask) /\ Staged(r, IdleTask) /\ Numbered(IdleTask)
    BY <2>1, <2>2 DEF Placed, Staged, Numbered, IdleTask, HasDonor, HasSent,
       RecipientStage, Terminal
  <2>4. <<exec[o].sent.worker, exec[o].sent.token>> \in opened
    BY <1>1 DEF Fits, Backed, RecipientStage, Opened
  <2>5. ASSUME Gave(o, r, table.lease)
        PROVE  <<r.target, table.lease.token>> \in opened
    <3>1. table.lease = exec[o].sent
      BY <1>1, <2>5 DEF Fits, Backed, Gave
    <3>2. exec[o].sent.worker = r.target
      BY <2>5, <3>1 DEF Gave, Owner
    <3>3. QED
      BY <2>4, <3>1, <3>2
  <2>6. Backed(o, r, IdleTask, table.lease)
    BY <2>1, <2>5 DEF Backed, Uncommitted, IdleTask, RecipientStage
  <2>7. Doomed(r, IdleTask)
    BY <2>1 DEF Doomed, Terminal
  <2>8. Becomes(o, r, IdleTask)
    BY <1>4 DEF r
  <2>9. QED
    BY <1>2, <2>1, <2>3, <2>6, <2>7, <2>8, IdleIsTask DEF Turn, Follows, Mailed, Fits
<1>5. QED
  BY <1>2, <1>3, <1>4

\* Where a task may put its operation off.
MayWait == {"begun", "reclaim", "reopen", "check", "donor", "rollback", "restore",
            "returned"}

\* An operation that is put off can be taken up again: what it leaves on its way
\* is harmless to the next attempt.
LEMMA WaitTurn ==
  ASSUME IInv, NEW o \in Operations, exec[o].at \in MayWait, Wait(o)
  PROVE  Turn(o) /\ Mailed /\ SpentOK
<1>0. exec[o].at # "idle"
  BY DEF MayWait
<1>1. op[o] \in OpRecords /\ exec[o] \in Tasks /\ Fits(o, op[o], exec[o])
  BY DEF IInv, TypeOK
<1>2. /\ SpentOK /\ inbox' = inbox
      /\ \/ Becomes(o, op[o], IdleTask)
         \/ /\ Legal(op[o].status, "Waiting")
            /\ Becomes(o, Marked(o, "Waiting", op[o].phase), IdleTask)
  BY LastUpdate DEF Wait
<1>3. CASE Becomes(o, op[o], IdleTask)
  BY <1>0, <1>2, <1>3, ReturnTurn
<1>4. CASE /\ Legal(op[o].status, "Waiting")
           /\ Becomes(o, Marked(o, "Waiting", op[o].phase), IdleTask)
  <2> DEFINE r == Marked(o, "Waiting", op[o].phase)
  <2>1. op[o].phase \in Phases
    BY <1>1 DEF OpRecords
  <2>2. r \in OpRecords /\ r.status = "Waiting" /\ r.phase = op[o].phase
           /\ r.target = op[o].target
    BY <1>1, <2>1, MarkedIs, WordsIs
  <2> HIDE DEF r
  <2>3. op[o].status = "Running" /\ op[o].target \in Workers
    BY <1>0, <1>1, <1>4 DEF Fits, Placed, Legal
  <2>4. Placed(r, IdleTask) /\ Staged(r, IdleTask) /\ Numbered(IdleTask)
    BY <1>1, <2>2, <2>3 DEF Fits, Placed, Staged, Numbered, IdleTask, HasDonor, HasSent,
       RecipientStage, Terminal
  <2>5. Backed(o, r, IdleTask, table.lease)
    BY <1>1, <2>2, <2>3 DEF Fits, Backed, Uncommitted, Gave, IdleTask, RecipientStage
  <2>6. ~Doomed(op[o], exec[o])
    BY <2>3 DEF Doomed, Terminal, MayWait
  <2>7. ASSUME Quiet PROVE Calm(r, IdleTask)
    <3>1. Calm(op[o], exec[o])
      BY <2>6, <2>7 DEF Quiet
    <3>2. Afresh(r, IdleTask) => Afresh(op[o], exec[o])
      <4>1. SUFFICES ASSUME op[o].phase = "closed" PROVE Afresh(op[o], exec[o])
        BY <2>2 DEF Afresh, IdleTask
      <4>2. exec[o].at \in {"begun", "reopen"}
        BY <1>1, <2>3, <4>1 DEF Fits, Staged, Moving, MayWait
      <4>3. exec[o].prev = "closed"
        BY <1>1, <2>3, <4>1, <4>2 DEF Fits, Placed
      <4>4. QED
        BY <4>2, <4>3 DEF Afresh
    <3>3. Cleared(r, IdleTask)
      BY <3>1, <3>2 DEF Calm, Cleared
    <3>4. Aimed(r) /\ Renewed(IdleTask) /\ DonorShut(IdleTask)
      BY <2>2, <3>1 DEF Calm, Aimed, Renewed, DonorShut, IdleTask
    <3>5. QED
      BY <3>3, <3>4 DEF Calm
  <2>8. Becomes(o, r, IdleTask)
    BY <1>4 DEF r
  <2>9. QED
    BY <1>2, <2>2, <2>4, <2>5, <2>6, <2>7, <2>8, IdleIsTask
    DEF Turn, Follows, Mailed, Fits
<1>5. QED
  BY <1>2, <1>3, <1>4

-----------------------------------------------------------------------------
(* The steps of the executor *)

\* What a task has after a step within the same attempt.
LEMMA GotoIs ==
  ASSUME NEW t \in Tasks, NEW p \in Points
  PROVE  LET u == [t EXCEPT !.at = p, !.result = "none"]
         IN  /\ u \in Tasks /\ u.at = p /\ u.result = "none" /\ u.prev = t.prev
             /\ u.lease = t.lease /\ u.sent = t.sent /\ u.then = t.then
  BY DEF Tasks

\* An operation that is left as it is.
LEMMA StayTurn ==
  ASSUME IInv, NEW o \in Operations, op' = op, exec' = exec, inbox' = inbox
  PROVE  Turn(o) /\ Mailed
<1>1. op[o] \in OpRecords /\ exec[o] \in Tasks /\ Fits(o, op[o], exec[o])
  BY DEF IInv, TypeOK
<1>2. Becomes(o, op[o], exec[o])
  BY DEF IInv, TypeOK, Becomes
<1>3. Quiet => Follows(o, op[o], exec[o])
  BY DEF Quiet, Follows
<1>4. QED
  BY <1>1, <1>2, <1>3 DEF Turn, Mailed

\* An operation is claimed.
LEMMA StartTurn ==
  ASSUME IInv, NEW o \in Operations, Start(o)
  PROVE  Turn(o) /\ Mailed /\ SpentOK
<1> DEFINE p == IF op[o].phase = "none" THEN "validating" ELSE op[o].phase
           r == Marked(o, "Running", p)
           t == [IdleTask EXCEPT !.at = "begun", !.prev = op[o].phase]
<1>1. op[o] \in OpRecords /\ exec[o] \in Tasks /\ Fits(o, op[o], exec[o])
  BY DEF IInv, TypeOK
<1>2. op[o].status \in {"Pending", "Waiting"} /\ exec[o].at = "idle" /\ inbox' = inbox
  BY DEF Start, Claimable, At, workers
<1>3. op[o].phase \in Phases /\ op[o].target \in Workers
  BY <1>1, <1>2 DEF OpRecords, Fits, Placed
<1>4. p \in Phases /\ p \in Cancellable \cup Moving
  BY <1>1, <1>2, <1>3, WordsIs DEF Fits, Placed, Cancellable
<1>5. /\ r \in OpRecords /\ r.status = "Running" /\ r.phase = p
      /\ r.target = op[o].target
  <2> HIDE DEF p
  <2> QED BY <1>1, <1>4, MarkedIs, WordsIs
<1>6. t \in Tasks /\ t.at = "begun" /\ t.prev = op[o].phase
  BY <1>3 DEF IdleTask, Tasks, Points
<1> HIDE DEF r, t
<1>7. Gave(o, r, table.lease) <=> Gave(o, op[o], table.lease)
  BY <1>5 DEF Gave
<1>8. r.phase \in Cancellable => ~Gave(o, op[o], table.lease)
  <2>1. r.phase \in Cancellable => Uncommitted(op[o], exec[o])
    BY <1>1, <1>2, <1>5 DEF Fits, Placed, Uncommitted, Cancellable, Moving
  <2>2. QED
    BY <1>1, <2>1 DEF Fits, Backed
<1>9. Fits(o, r, t)
  <2>1. Placed(r, t)
    BY <1>1, <1>2, <1>3, <1>4, <1>5, <1>6 DEF Fits, Placed, HasDonor, HasSent, RecipientStage,
       Terminal
  <2>2. Staged(r, t) /\ Numbered(t)
    BY <1>6 DEF Staged, Numbered, HasDonor, HasSent, RecipientStage
  <2>3. Backed(o, r, t, table.lease)
    BY <1>5, <1>6, <1>7, <1>8 DEF Backed, Uncommitted, RecipientStage
  <2>4. QED
    BY <2>1, <2>2, <2>3 DEF Fits
<1>10. Fits(o, r, exec[o])
  <2>1. Placed(r, exec[o])
    BY <1>1, <1>2, <1>3, <1>4, <1>5 DEF Placed, HasDonor, HasSent, RecipientStage, Terminal
  <2>2. Staged(r, exec[o]) /\ Numbered(exec[o])
    BY <1>2 DEF Staged, Numbered, HasDonor, HasSent, RecipientStage
  <2>3. Backed(o, r, exec[o], table.lease)
    BY <1>2, <1>5, <1>7, <1>8 DEF Backed, Uncommitted, RecipientStage
  <2>4. QED
    BY <2>1, <2>2, <2>3 DEF Fits
<1>11. ASSUME Quiet PROVE ~Doomed(op[o], exec[o]) /\ Calm(r, t)
  <2>1. ~Doomed(op[o], exec[o])
    BY <1>2 DEF Doomed, Terminal
  <2>2. Calm(op[o], exec[o])
    BY <1>11, <2>1 DEF Quiet
  <2>3. Afresh(r, t) => Afresh(op[o], exec[o])
    BY <1>1, <1>2, <1>5, <1>6 DEF Afresh, Fits, Placed
  <2>4. QED
    BY <1>5, <1>6, <2>1, <2>2, <2>3 DEF Calm, Cleared, Aimed, Renewed, DonorShut
<1>12. Doomed(r, exec[o])
  BY <1>2, <1>5 DEF Doomed
<1>13. Error \/ UNCHANGED spent
  BY DEF Start, TransitionIf, Write
<1>14. SpentOK
  BY <1>13, SpentStep DEF IInv
<1>15. op = [op EXCEPT ![o] = op[o]] /\ exec = [exec EXCEPT ![o] = exec[o]]
  BY DEF IInv, TypeOK
<1>16. \/ Becomes(o, r, t) \/ Becomes(o, r, exec[o]) \/ (op' = op /\ exec' = exec)
  BY <1>15 DEF Start, TransitionIf, Write, Record, Become, Becomes, Marked, r, t
<1> HIDE DEF p
<1>17. CASE Becomes(o, r, t)
  BY <1>2, <1>5, <1>6, <1>9, <1>11, <1>14, <1>17 DEF Turn, Follows, Mailed
<1>18. CASE Becomes(o, r, exec[o])
  BY <1>1, <1>2, <1>5, <1>10, <1>12, <1>14, <1>18 DEF Turn, Follows, Mailed
<1>19. CASE op' = op /\ exec' = exec
  BY <1>2, <1>14, <1>19, StayTurn
<1>20. QED
  BY <1>16, <1>17, <1>18, <1>19

\* The step of a task that goes from one point to another and writes nothing.
LEMMA GotoTurn ==
  ASSUME IInv, NEW o \in Operations, NEW p \in Points, Goto(o, p), op' = op,
         inbox' = inbox,
         Fits(o, op[o], [exec[o] EXCEPT !.at = p, !.result = "none"]),
         exec[o].at \notin {"idle", "giveback", "dead"},
         Quiet /\ ~Doomed(op[o], exec[o]) =>
             Calm(op[o], [exec[o] EXCEPT !.at = p, !.result = "none"])
  PROVE  Turn(o) /\ Mailed
<1> DEFINE t == [exec[o] EXCEPT !.at = p, !.result = "none"]
<1>1. op[o] \in OpRecords /\ exec[o] \in Tasks /\ op = [op EXCEPT ![o] = op[o]]
  BY DEF IInv, TypeOK
<1>2. t \in Tasks /\ Becomes(o, op[o], t)
  BY <1>1, GotoIs DEF Goto, Become, Becomes
<1> HIDE DEF t
<1>3. ~Doomed(op[o], t) => ~Doomed(op[o], exec[o])
  BY DEF Doomed
<1>4. Fits(o, op[o], t) /\ (Quiet /\ ~Doomed(op[o], exec[o]) => Calm(op[o], t))
  BY DEF t
<1>5. QED
  BY <1>1, <1>2, <1>3, <1>4 DEF Turn, Follows, Mailed

\* A message goes to a linked worker, or is dropped.
LEMMA Delivered ==
  ASSUME NEW w \in Workers, NEW m \in Messages, Deliver(w, m)
  PROVE  Posted(w, m) \/ inbox' = inbox
  BY DEF Deliver, Posted

\* The executor asks for an open: the message is well-formed.
LEMMA Asked ==
  ASSUME NEW o \in Operations, NEW l \in Leases, NEW k \in {"assigned", "prepare"}
  PROVE  LET m == [kind |-> k, lease |-> l, op |-> o]
         IN  m \in Messages /\ m.kind = k /\ m.lease = l
  BY DEF Messages

\* The step of a task that sends a message about a lease.
LEMMA SendTurn ==
  ASSUME IInv, NEW o \in Operations, NEW r \in OpRecords, NEW t \in Tasks,
         Fits(o, r, t), Becomes(o, r, t), NEW l \in Leases, l.token < table.next,
         NEW k \in {"assigned", "prepare"},
         Deliver(l.worker, [kind |-> k, lease |-> l, op |-> o]),
         Quiet /\ ~Doomed(r, t) =>
            /\ ~Doomed(op[o], exec[o]) /\ Calm(r, t)
            /\ Harmless(r, t, l.worker, [kind |-> k, lease |-> l, op |-> o])
  PROVE  Turn(o) /\ Mailed
<1> DEFINE m == [kind |-> k, lease |-> l, op |-> o]
<1>1. m \in Messages /\ m.lease = l
  BY Asked
<1>2. l.worker \in Workers
  BY LeaseFacts
<1>3. /\ Deliver(l.worker, m)
      /\ Quiet /\ ~Doomed(r, t) =>
            ~Doomed(op[o], exec[o]) /\ Calm(r, t) /\ Harmless(r, t, l.worker, m)
  OBVIOUS
<1> HIDE DEF m
<1>4. Posted(l.worker, m) \/ inbox' = inbox
  BY <1>1, <1>2, <1>3, Delivered
<1>5. Mailed
  BY <1>1, <1>2, <1>4 DEF Mailed
<1>6. Quiet => Follows(o, r, t)
  BY <1>1, <1>2, <1>3, <1>4 DEF Follows
<1>7. QED
  BY <1>5, <1>6 DEF Turn

\* The owner of the lease is asked to open the shard: the target that got it in
\* an earlier attempt, or the owner that closed it.
LEMMA OpenAskedTurn ==
  ASSUME IInv, NEW o \in Operations, exec[o].at = "begun",
         NEW l \in Leases, l = table.lease, l # Nil,
         NEW point \in {"reclaim", "reopen"},
         point = "reclaim" => Owner(l) = op[o].target /\ exec[o].prev \in Moving,
         point = "reopen" => exec[o].prev = "closed",
         SendAndWait(o, "assigned", l, point), op' = op
  PROVE  Turn(o) /\ Mailed
<1> DEFINE t == [exec[o] EXCEPT !.at = point, !.sent = l, !.result = "none"]
           m == [kind |-> "assigned", lease |-> l, op |-> o]
<1>1. op[o] \in OpRecords /\ exec[o] \in Tasks /\ Fits(o, op[o], exec[o])
  BY DEF IInv, TypeOK
<1>2. op[o].status \in {"Running", "Cancelled"} /\ op[o].target \in Workers
  BY <1>1 DEF Fits, Placed
<1>3. l.worker \in Workers /\ l.token < table.next
  BY LeaseFacts DEF IInv, Minting
<1>4. point \in Points
  BY DEF Points, RecipientStage
<1>5. /\ t \in Tasks /\ t.at = point /\ t.result = "none" /\ t.prev = exec[o].prev
      /\ t.lease = exec[o].lease /\ t.sent = l
  BY <1>1, <1>4 DEF Tasks
<1>6. m.kind = "assigned" /\ m.lease = l
  OBVIOUS
<1>7. Becomes(o, op[o], t) /\ Deliver(l.worker, m)
  <2>1. op = [op EXCEPT ![o] = op[o]]
    BY DEF IInv, TypeOK
  <2>2. QED
    BY <2>1 DEF SendAndWait, Become, Becomes
<1> HIDE DEF t, m
<1>8. Fits(o, op[o], t)
  <2>1. Placed(op[o], t)
    BY <1>1, <1>2, <1>5 DEF Fits, Placed, HasDonor, HasSent, Terminal, Moving
  <2>2. Staged(op[o], t) /\ Numbered(t)
    BY <1>1, <1>2, <1>3, <1>5 DEF Fits, Placed, Staged, Numbered, HasDonor, HasSent,
       RecipientStage, Moving
  <2>3. Backed(o, op[o], t, l)
    BY <1>1, <1>5 DEF Fits, Backed, Uncommitted
  <2>4. QED
    BY <2>1, <2>2, <2>3 DEF Fits
<1>9. ASSUME Quiet, ~Doomed(op[o], exec[o])
      PROVE  Calm(op[o], t) /\ Harmless(op[o], t, l.worker, m)
  <2>1. Calm(op[o], exec[o])
    BY <1>9 DEF Quiet
  <2>2. NoDonorAt(l.worker)
    <3>1. CASE point = "reclaim"
      BY <1>3, <2>1, <3>1 DEF Calm, Aimed, Owner
    <3>2. CASE point = "reopen"
      BY <1>3, <2>1, <3>2 DEF Calm, Cleared, Afresh
    <3>3. QED
      BY <3>1, <3>2
  <2>3. Harmless(op[o], t, l.worker, m)
    BY <1>5, <1>6, <2>2 DEF Harmless, NoDonorAt, IsPrepare
  <2>4. Afresh(op[o], t) => Afresh(op[o], exec[o])
    BY <1>5 DEF Afresh
  <2>5. Calm(op[o], t)
    BY <1>5, <2>1, <2>4 DEF Calm, Cleared, Renewed, DonorShut
  <2>6. QED
    BY <2>3, <2>5
<1>10. ~Doomed(op[o], t) => ~Doomed(op[o], exec[o])
  BY DEF Doomed
<1>11. QED
  BY <1>1, <1>3, <1>5, <1>7, <1>8, <1>9, <1>10, SendTurn DEF m

\* An interrupted attempt is taken up.
LEMMA ResumeTurn ==
  ASSUME IInv, NEW o \in Operations, Resume(o)
  PROVE  Turn(o) /\ Mailed /\ SpentOK
<1> DEFINE l == table.lease
           toTarget == Owner(l) = op[o].target /\ exec[o].prev \in {"transfer", "opening"}
           toOwner == l # Nil /\ Owner(l) # op[o].target /\ exec[o].prev = "closed"
<1>1. op[o] \in OpRecords /\ exec[o] \in Tasks /\ Fits(o, op[o], exec[o])
  BY DEF IInv, TypeOK
<1>2. exec[o].at = "begun"
  BY DEF Resume, At
<1>3. op[o].status \in {"Running", "Cancelled"} /\ op[o].target \in Workers
  BY <1>1, <1>2 DEF Fits, Placed
<1>4. l \in Leases \cup {Nil} /\ (l # Nil => l \in Leases /\ l.token < table.next)
  BY DEF IInv, TypeOK, Tables, Minting
<1>5. CASE (toTarget \/ toOwner) /\ l.worker \in linked
  <2>1. l # Nil /\ l \in Leases
    BY <1>3, <1>4, <1>5, TransferConstants DEF Owner
  <2>2. op' = op /\ SpentOK
    <3>1. op' = op /\ UNCHANGED spent
      BY <1>5 DEF Resume
    <3>2. QED
      BY <3>1, SpentStep DEF IInv
  <2>3. CASE toTarget
    <3>1. SendAndWait(o, "assigned", l, "reclaim")
      BY <1>5, <2>3 DEF Resume
    <3>2. QED
      BY <1>2, <2>1, <2>2, <2>3, <3>1, OpenAskedTurn DEF Moving
  <2>4. CASE ~toTarget
    <3>1. SendAndWait(o, "assigned", l, "reopen") /\ exec[o].prev = "closed"
      BY <1>5, <2>4 DEF Resume
    <3>2. QED
      BY <1>2, <2>1, <2>2, <3>1, OpenAskedTurn
  <2>5. QED
    BY <2>3, <2>4
<1>6. CASE (toTarget \/ toOwner) /\ l.worker \notin linked
  <2>1. Wait(o)
    BY <1>6 DEF Resume
  <2>2. QED
    BY <1>2, <2>1, WaitTurn DEF MayWait
<1>7. CASE ~(toTarget \/ toOwner)
  <2> DEFINE t == [exec[o] EXCEPT !.at = "validate", !.result = "none"]
  <2>1. Goto(o, "validate") /\ UNCHANGED <<op, inbox, spent>>
    BY <1>7 DEF Resume
  <2>2. "validate" \in Points
    BY DEF Points
  <2>3. t \in Tasks /\ t.at = "validate" /\ t.result = "none" /\ t.prev = exec[o].prev
    BY <1>1, <2>2, GotoIs
  <2> HIDE DEF t
  <2>4. ~Gave(o, op[o], l)
    <3>1. CASE exec[o].prev \in Moving
      BY <1>7, <3>1 DEF Gave, Moving
    <3>2. CASE exec[o].prev \notin Moving
      <4>1. Uncommitted(op[o], exec[o])
        BY <1>1, <1>2, <3>2 DEF Fits, Placed, Uncommitted, Cancellable
      <4>2. QED
        BY <1>1, <4>1 DEF Fits, Backed
    <3>3. QED
      BY <3>1, <3>2
  <2> HIDE DEF toTarget, toOwner
  <2>5. Fits(o, op[o], t)
    <3>1. Placed(op[o], t) /\ Staged(op[o], t) /\ Numbered(t)
      BY <1>1, <1>3, <2>3 DEF Fits, Placed, Staged, Numbered, HasDonor, HasSent, RecipientStage, Terminal
    <3>2. Backed(o, op[o], t, l)
      BY <1>1, <2>3, <2>4 DEF Fits, Backed, RecipientStage
    <3>3. QED
      BY <3>1, <3>2 DEF Fits
  <2>6. ASSUME Quiet /\ ~Doomed(op[o], exec[o]) PROVE Calm(op[o], t)
    <3>1. Calm(op[o], exec[o])
      BY <2>6 DEF Quiet
    <3>2. Afresh(op[o], t) => Afresh(op[o], exec[o])
      BY <1>2, <2>3 DEF Afresh
    <3>3. QED
      BY <2>3, <3>1, <3>2 DEF Calm, Cleared, Renewed, DonorShut
  <2>7. SpentOK
    <3>1. UNCHANGED spent
      BY <2>1
    <3>2. QED
      BY <3>1, SpentStep DEF IInv
  <2>8. op' = op /\ inbox' = inbox
    BY <2>1
  <2>9. exec[o].at \notin {"idle", "giveback", "dead"}
    BY <1>2
  <2>10. QED
    BY <2>1, <2>2, <2>5, <2>6, <2>7, <2>8, <2>9, GotoTurn DEF t
<1>8. QED
  BY <1>5, <1>6, <1>7

\* The target answered, or did not, that it opened the shard it owned already.
LEMMA ReclaimedTurn ==
  ASSUME IInv, NEW o \in Operations, Reclaimed(o)
  PROVE  Turn(o) /\ Mailed /\ SpentOK
<1>1. exec[o].at = "reclaim" /\ (IF Opened(o) THEN Succeed(o) ELSE Wait(o))
  BY DEF Reclaimed, At
<1>2. CASE Opened(o)
  BY <1>1, <1>2, SucceedTurn
<1>3. CASE ~Opened(o)
  BY <1>1, <1>3, WaitTurn DEF MayWait
<1>4. QED
  BY <1>2, <1>3

\* The owner answered, or did not, that it opened the shard again.
LEMMA ReopenedTurn ==
  ASSUME IInv, NEW o \in Operations, Reopened(o)
  PROVE  Turn(o) /\ Mailed /\ SpentOK
<1>1. op[o] \in OpRecords /\ exec[o] \in Tasks /\ Fits(o, op[o], exec[o])
  BY DEF IInv, TypeOK
<1>2. exec[o].at = "reopen"
  BY DEF Reopened, At
<1>3. CASE Opened(o)
  <2> DEFINE t == [exec[o] EXCEPT !.at = "validate", !.result = "none"]
  <2>1. Goto(o, "validate") /\ UNCHANGED <<op, inbox, spent>>
    BY <1>3 DEF Reopened
  <2>2. "validate" \in Points
    BY DEF Points
  <2>3. t \in Tasks /\ t.at = "validate" /\ t.result = "none" /\ t.prev = exec[o].prev
    BY <1>1, <2>2, GotoIs
  <2> HIDE DEF t
  <2>4. op[o].status \in {"Running", "Cancelled"} /\ op[o].target \in Workers
    BY <1>1, <1>2 DEF Fits, Placed
  <2>5. ~Gave(o, op[o], table.lease)
    <3>1. Uncommitted(op[o], exec[o])
      BY <1>1, <1>2 DEF Fits, Placed, Uncommitted, Cancellable, Moving
    <3>2. QED
      BY <1>1, <3>1 DEF Fits, Backed
  <2>6. Fits(o, op[o], t)
    <3>1. Placed(op[o], t) /\ Staged(op[o], t) /\ Numbered(t)
      BY <1>1, <2>3, <2>4 DEF Fits, Placed, Staged, Numbered, HasDonor, HasSent, RecipientStage, Terminal
    <3>2. Backed(o, op[o], t, table.lease)
      BY <1>1, <2>3, <2>5 DEF Fits, Backed, RecipientStage
    <3>3. QED
      BY <3>1, <3>2 DEF Fits
  <2>7. ASSUME Quiet /\ ~Doomed(op[o], exec[o]) PROVE Calm(op[o], t)
    <3>1. Calm(op[o], exec[o])
      BY <2>7 DEF Quiet
    <3>2. Afresh(op[o], t) => Afresh(op[o], exec[o])
      BY <1>2, <2>3 DEF Afresh
    <3>3. QED
      BY <2>3, <3>1, <3>2 DEF Calm, Cleared, Renewed, DonorShut
  <2>8. SpentOK
    <3>1. UNCHANGED spent
      BY <2>1
    <3>2. QED
      BY <3>1, SpentStep DEF IInv
  <2>9. op' = op /\ inbox' = inbox
    BY <2>1
  <2>10. exec[o].at \notin {"idle", "giveback", "dead"}
    BY <1>2
  <2>11. QED
    BY <2>1, <2>2, <2>6, <2>7, <2>8, <2>9, <2>10, GotoTurn DEF t
<1>4. CASE ~Opened(o)
  <2>1. Wait(o)
    BY <1>4 DEF Reopened
  <2>2. QED
    BY <1>2, <2>1, WaitTurn DEF MayWait
<1>5. QED
  BY <1>3, <1>4

\* An attempt begins anew.
LEMMA BeginValidationTurn ==
  ASSUME IInv, NEW o \in Operations, BeginValidation(o)
  PROVE  Turn(o) /\ Mailed /\ SpentOK
<1> DEFINE r == Marked(o, "Running", "validating")
           t == [exec[o] EXCEPT !.at = "check", !.result = "none"]
<1>1. op[o] \in OpRecords /\ exec[o] \in Tasks /\ Fits(o, op[o], exec[o])
  BY DEF IInv, TypeOK
<1>2. exec[o].at = "validate" /\ inbox' = inbox
  BY DEF BeginValidation, At, TransitionIf, Write, Return
<1>3. r \in OpRecords /\ r.status = "Running" /\ r.phase = "validating"
         /\ r.target = op[o].target
  BY <1>1, MarkedIs, WordsIs
<1>4. "check" \in Points
  BY DEF Points
<1>5. t \in Tasks /\ t.at = "check" /\ t.result = "none" /\ t.prev = exec[o].prev
  BY <1>1, <1>4, GotoIs
<1>6. Error \/ UNCHANGED spent
  BY DEF BeginValidation, TransitionIf, Write
<1>7. SpentOK
  BY <1>6, SpentStep DEF IInv
<1>8. op = [op EXCEPT ![o] = op[o]]
  BY DEF IInv, TypeOK
<1>9. \/ op[o].status = "Running" /\ Becomes(o, r, t)
      \/ op[o].status = "Running" /\ Becomes(o, r, IdleTask)
      \/ Becomes(o, op[o], IdleTask)
  BY <1>8 DEF BeginValidation, TransitionIf, Write, Record, Return, Goto, Become, Becomes, Marked
<1> HIDE DEF r, t
<1>10. ~Gave(o, r, table.lease)
  BY <1>1, <1>2, <1>3 DEF Fits, Backed, Uncommitted, Gave
<1>11. ASSUME op[o].status = "Running", Becomes(o, r, t)
       PROVE  Turn(o) /\ Mailed
  <2>1. Fits(o, r, t)
    <3>1. Placed(r, t) /\ Staged(r, t) /\ Numbered(t)
      BY <1>1, <1>3, <1>5, <1>11 DEF Fits, Placed, Staged, Numbered, HasDonor, HasSent, RecipientStage,
         Terminal, Cancellable
    <3>2. Backed(o, r, t, table.lease)
      BY <1>3, <1>5, <1>10 DEF Backed, RecipientStage
    <3>3. QED
      BY <3>1, <3>2 DEF Fits
  <2>2. ~Doomed(op[o], exec[o])
    BY <1>2, <1>11 DEF Doomed, Terminal
  <2>3. ASSUME Quiet PROVE Calm(r, t)
    <3>1. Calm(op[o], exec[o])
      BY <2>2, <2>3 DEF Quiet
    <3>2. ~Afresh(r, t)
      BY <1>3, <1>5 DEF Afresh
    <3>3. QED
      BY <1>3, <1>5, <3>1, <3>2 DEF Calm, Cleared, Aimed, Renewed, DonorShut
  <2>4. QED
    BY <1>2, <1>3, <1>5, <1>11, <2>1, <2>2, <2>3 DEF Turn, Follows, Mailed
<1>12. ASSUME op[o].status = "Running", Becomes(o, r, IdleTask)
       PROVE  Turn(o) /\ Mailed
  <2>1. Fits(o, r, exec[o])
    <3>1. Placed(r, exec[o]) /\ Staged(r, exec[o]) /\ Numbered(exec[o])
      BY <1>1, <1>2, <1>3, <1>12 DEF Fits, Placed, Staged, Numbered, HasDonor, HasSent, RecipientStage,
         Terminal, Cancellable
    <3>2. Backed(o, r, exec[o], table.lease)
      BY <1>2, <1>3, <1>10 DEF Backed, RecipientStage
    <3>3. QED
      BY <3>1, <3>2 DEF Fits
  <2>2. Fits(o, r, IdleTask)
    BY <1>1, <1>3, <2>1, IdleFits
  <2>3. Doomed(r, IdleTask)
    BY <1>3 DEF Doomed, IdleTask
  <2>4. QED
    BY <1>2, <1>3, <1>12, <2>2, <2>3, IdleIsTask DEF Turn, Follows, Mailed
<1>13. CASE Becomes(o, op[o], IdleTask)
  <2>1. exec[o].at # "idle"
    BY <1>2
  <2>2. QED
    BY <1>2, <1>7, <1>13, <2>1, ReturnTurn
<1>14. QED
  BY <1>7, <1>9, <1>11, <1>12, <1>13

\* A task has a record that is neither new nor put off.
LEMMA Claimed ==
  ASSUME IInv, NEW o \in Operations, exec[o].at # "idle"
  PROVE  op[o].status \in Terminal \cup {"Running"} /\ op[o].target \in Workers
<1>1. op[o] \in OpRecords /\ Fits(o, op[o], exec[o])
  BY DEF IInv, TypeOK
<1>2. op[o].status \in Statuses
  BY <1>1 DEF OpRecords
<1>3. QED
  BY <1>1, <1>2 DEF Fits, Placed, Statuses

\* The phase of a running operation moves on, within the same task.
LEMMA PhaseFits ==
  ASSUME IInv, NEW o \in Operations, NEW p \in Cancellable \cup Moving,
         op[o].status = "Running", NEW t \in Tasks,
         Placed(Marked(o, "Running", p), t), Staged(Marked(o, "Running", p), t),
         Numbered(t), op[o].phase \in Cancellable,
         t.at \notin RecipientStage \cup {"save", "announce"}
  PROVE  Fits(o, Marked(o, "Running", p), t)
<1> DEFINE r == Marked(o, "Running", p)
<1>1. op[o] \in OpRecords /\ Fits(o, op[o], exec[o])
  BY DEF IInv, TypeOK
<1>2. r.status = "Running" /\ r.target = op[o].target
  BY <1>1 DEF Marked, OpRecords
<1>3. Placed(r, t) /\ Staged(r, t)
  OBVIOUS
<1> HIDE DEF r
<1>4. ~Gave(o, r, table.lease)
  BY <1>1, <1>2 DEF Fits, Backed, Uncommitted, Gave
<1>5. Backed(o, r, t, table.lease)
  BY <1>2, <1>4 DEF Backed, RecipientStage
<1>6. Fits(o, r, t)
  BY <1>3, <1>5 DEF Fits
<1>7. QED
  BY <1>6 DEF r

\* A running operation whose phase moved on although its task gave up.
LEMMA HaltTurn ==
  ASSUME IInv, NEW o \in Operations, NEW p \in Cancellable \cup Moving,
         op[o].status = "Running", op[o].phase \in Cancellable,
         Becomes(o, Marked(o, "Running", p), IdleTask), inbox' = inbox
  PROVE  Turn(o) /\ Mailed
<1> DEFINE r == Marked(o, "Running", p)
<1>1. op[o] \in OpRecords /\ Fits(o, op[o], exec[o])
  BY DEF IInv, TypeOK
<1>2. p \in Phases
  BY WordsIs DEF Cancellable, Moving
<1>3. r \in OpRecords /\ r.status = "Running" /\ r.phase = p /\ r.target = op[o].target
  BY <1>1, <1>2, MarkedIs, WordsIs
<1> HIDE DEF r
<1>4. Placed(r, IdleTask) /\ Staged(r, IdleTask) /\ Numbered(IdleTask)
  BY <1>1, <1>3 DEF Fits, Placed, Staged, Numbered, HasDonor, HasSent, RecipientStage,
     Terminal, IdleTask
<1>5. Fits(o, r, IdleTask)
  BY <1>4, IdleIsTask, PhaseFits DEF r, IdleTask, RecipientStage
<1>6. Doomed(r, IdleTask) /\ Becomes(o, r, IdleTask)
  BY <1>3 DEF Doomed, IdleTask, r
<1>7. QED
  BY <1>3, <1>5, <1>6, IdleIsTask DEF Turn, Follows, Mailed

\* The owner is asked to close the shard.
LEMMA PrepareDonorTurn ==
  ASSUME IInv, NEW o \in Operations, PrepareDonor(o)
  PROVE  Turn(o) /\ Mailed /\ SpentOK
<1> DEFINE r == Marked(o, "Running", "handoff")
<1>1. op[o] \in OpRecords /\ exec[o] \in Tasks /\ Fits(o, op[o], exec[o])
  BY DEF IInv, TypeOK
<1>2. PICK l : l = table.lease
  OBVIOUS
<1>3. /\ exec[o].at = "check" /\ exec[o].at # "idle" /\ l # Nil
      /\ Owner(l) # op[o].target
  BY <1>2 DEF PrepareDonor, At
<1>4. l \in Leases /\ l.token < table.next /\ l.worker \in Workers /\ Owner(l) = l.worker
  <2>1. l \in Leases /\ l.token < table.next
    BY <1>2, <1>3 DEF IInv, TypeOK, Tables, Minting
  <2>2. QED
    BY <1>3, <2>1, LeaseFacts DEF Owner
<1> DEFINE t == [exec[o] EXCEPT !.at = "donor", !.lease = l, !.sent = l]
           m == [kind |-> "prepare", lease |-> l, op |-> o]
<1>5. CASE ~({Owner(l), op[o].target} \subseteq linked)
  <2>1. Wait(o)
    BY <1>2, <1>5 DEF PrepareDonor
  <2>2. QED
    BY <1>3, <2>1, WaitTurn DEF MayWait
<1>6. CASE {Owner(l), op[o].target} \subseteq linked
  <2>1. TransitionIf(o, "Running", "validating", "Running", "handoff",
          Become(o, t) /\ Deliver(l.worker, m), Return(o))
    BY <1>2, <1>6 DEF PrepareDonor
  <2>2. Error \/ UNCHANGED spent
    BY <2>1 DEF TransitionIf, Write
  <2>3. SpentOK
    BY <2>2, SpentStep DEF IInv
  <2>4. op = [op EXCEPT ![o] = op[o]]
    BY DEF IInv, TypeOK
  <2>5. \/ /\ op[o].status = "Running" /\ op[o].phase = "validating"
           /\ Becomes(o, r, t) /\ Deliver(l.worker, m)
        \/ /\ op[o].status = "Running" /\ op[o].phase = "validating"
           /\ Becomes(o, r, IdleTask) /\ inbox' = inbox
        \/ Becomes(o, op[o], IdleTask) /\ inbox' = inbox
    BY <2>1, <2>4 DEF TransitionIf, Write, Record, Return, Become, Becomes, Marked
  <2>6. r \in OpRecords /\ r.status = "Running" /\ r.phase = "handoff"
           /\ r.target = op[o].target
    BY <1>1, MarkedIs, WordsIs
  <2>7. /\ t \in Tasks /\ t.at = "donor" /\ t.lease = l /\ t.sent = l
        /\ t.result = exec[o].result
    BY <1>1, <1>4 DEF Tasks, Points
  <2>8. m.kind = "prepare"
    OBVIOUS
  <2> HIDE DEF t, m
  <2>9. CASE /\ op[o].status = "Running" /\ op[o].phase = "validating"
             /\ Becomes(o, r, t) /\ Deliver(l.worker, m)
    <3>1. Placed(r, t) /\ Staged(r, t) /\ Numbered(t)
      <4> HIDE DEF r
      <4> QED BY <1>1, <1>4, <2>6, <2>7, <2>9 DEF Fits, Placed, Staged, Numbered,
         HasDonor, HasSent, RecipientStage, Terminal, Cancellable
    <3>2. Fits(o, r, t)
      BY <2>7, <2>9, <3>1, PhaseFits DEF Cancellable, RecipientStage
    <3> HIDE DEF r
    <3>3. ~Doomed(op[o], exec[o])
      BY <1>3, <2>9 DEF Doomed, Terminal
    <3>4. ~Afresh(r, t)
      BY <2>6, <2>7 DEF Afresh
    <3>5. Quiet => Calm(r, t)
      <4>1. SUFFICES ASSUME Quiet PROVE Calm(r, t)
        OBVIOUS
      <4>2. Calm(op[o], exec[o]) /\ exec[o].result = "none"
        BY <1>1, <1>3, <3>3, <4>1 DEF Quiet, Fits, Staged
      <4>3. QED
        BY <2>6, <2>7, <3>4, <4>2 DEF Calm, Cleared, Aimed, Renewed, DonorShut
    <3>6. Harmless(r, t, l.worker, m)
      BY <1>3, <1>4, <2>6, <2>7, <2>8, <3>4 DEF Harmless
    <3>7. QED
      BY <1>4, <2>3, <2>6, <2>7, <2>9, <3>2, <3>3, <3>5, <3>6, SendTurn DEF m
  <2>10. CASE /\ op[o].status = "Running" /\ op[o].phase = "validating"
              /\ Becomes(o, r, IdleTask) /\ inbox' = inbox
    BY <2>3, <2>10, HaltTurn DEF Cancellable
  <2>11. CASE Becomes(o, op[o], IdleTask) /\ inbox' = inbox
    BY <1>3, <2>3, <2>11, ReturnTurn
  <2>12. QED
    BY <2>5, <2>9, <2>10, <2>11
<1>7. QED
  BY <1>5, <1>6

\* reopen_donor: the operation will not get any further.
LEMMA ReopenDonorTurn ==
  ASSUME IInv, NEW o \in Operations, exec[o].at \in {"donor", "closed"},
         NEW r \in OpRecords, r.status \in Terminal \cup {"Running"},
         Fits(o, r, exec[o]), op' = [op EXCEPT ![o] = r], ReopenDonor(o)
  PROVE  Turn(o) /\ Mailed
<1>1. op[o] \in OpRecords /\ exec[o] \in Tasks
  BY DEF IInv, TypeOK
<1>2. PICK l : l = exec[o].lease
  OBVIOUS
<1>3. l \in Leases /\ l.token < table.next
  BY <1>2 DEF Fits, Placed, Numbered, HasDonor
<1> DEFINE t == [exec[o] EXCEPT !.at = "giveback", !.sent = l, !.result = "none"]
<1>4. CASE l.worker \in linked
  <2>1. SendAndWait(o, "assigned", l, "giveback")
    BY <1>2, <1>4 DEF ReopenDonor
  <2>2. t \in Tasks /\ t.at = "giveback" /\ t.sent = l /\ t.result = "none"
    BY <1>1, <1>3 DEF Tasks, Points, RecipientStage
  <2>3. Becomes(o, r, t) /\ Deliver(l.worker, [kind |-> "assigned", lease |-> l, op |-> o])
    BY <2>1 DEF SendAndWait, Become, Becomes
  <2> HIDE DEF t
  <2>4. Placed(r, t) /\ Staged(r, t) /\ Numbered(t)
    BY <1>3, <2>2 DEF Fits, Placed, Staged, Numbered, HasDonor, HasSent, Terminal
  <2>5. Backed(o, r, t, table.lease)
    BY <2>2 DEF Fits, Backed, Uncommitted
  <2>6. Fits(o, r, t) /\ Doomed(r, t)
    BY <2>2, <2>4, <2>5 DEF Fits, Doomed
  <2>7. QED
    BY <1>3, <2>2, <2>3, <2>6, SendTurn
<1>5. CASE l.worker \notin linked
  <2>1. Becomes(o, r, IdleTask) /\ inbox' = inbox
    BY <1>2, <1>5 DEF ReopenDonor, Return, Become, Becomes
  <2>2. Fits(o, r, IdleTask) /\ Doomed(r, IdleTask)
    BY <1>1, IdleFits DEF Doomed, IdleTask
  <2>3. QED
    BY <2>1, <2>2, IdleIsTask DEF Turn, Follows, Mailed
<1>6. QED
  BY <1>4, <1>5

\* The donor answered, or did not.
LEMMA DonorAnsweredTurn ==
  ASSUME IInv, NEW o \in Operations, DonorAnswered(o)
  PROVE  Turn(o) /\ Mailed /\ SpentOK
<1> DEFINE r == Marked(o, "Running", "closed")
           t == [exec[o] EXCEPT !.at = "closed", !.result = "none"]
<1>1. op[o] \in OpRecords /\ exec[o] \in Tasks /\ Fits(o, op[o], exec[o])
  BY DEF IInv, TypeOK
<1>2. exec[o].at = "donor" /\ exec[o].at # "idle"
  BY DEF DonorAnswered, At
<1>3. op = [op EXCEPT ![o] = op[o]] /\ op[o].status \in Terminal \cup {"Running"}
  BY <1>2, Claimed DEF IInv, TypeOK
<1>4. exec[o].result \in {"ok", "late", "bad"}
  BY <1>1 DEF Tasks, DonorAnswered
<1>5. CASE exec[o].result # "ok" /\ Cancelled(o)
  <2>1. ReopenDonor(o) /\ UNCHANGED <<op, spent>>
    BY <1>5 DEF DonorAnswered
  <2>2. op' = op /\ SpentOK
    <3>1. op' = op /\ UNCHANGED spent
      BY <2>1
    <3>2. QED
      BY <3>1, SpentStep DEF IInv
  <2>3. QED
    BY <1>1, <1>2, <1>3, <2>1, <2>2, ReopenDonorTurn
<1>6. CASE exec[o].result = "late" /\ ~Cancelled(o)
  <2>1. Wait(o)
    BY <1>6 DEF DonorAnswered
  <2>2. QED
    BY <1>2, <2>1, WaitTurn DEF MayWait
<1>7. CASE exec[o].result = "bad" /\ ~Cancelled(o)
  <2>1. Fail(o)
    BY <1>7 DEF DonorAnswered
  <2>2. QED
    BY <1>2, <2>1, FailTurn
<1>8. CASE exec[o].result = "ok"
  <2>1. TransitionIf(o, "Running", "handoff", "Running", "closed",
           Goto(o, "closed") /\ UNCHANGED inbox,
           IF Cancelled(o) THEN ReopenDonor(o) ELSE Return(o))
    BY <1>8 DEF DonorAnswered
  <2>2. Error \/ UNCHANGED spent
    BY <2>1 DEF TransitionIf, Write
  <2>3. SpentOK
    BY <2>2, SpentStep DEF IInv
  <2>4. \/ /\ op[o].status = "Running" /\ op[o].phase = "handoff"
           /\ Becomes(o, r, t) /\ inbox' = inbox
        \/ /\ op[o].status = "Running" /\ op[o].phase = "handoff"
           /\ op' = [op EXCEPT ![o] = r]
           /\ IF Cancelled(o) THEN ReopenDonor(o) ELSE Return(o)
        \/ /\ op' = [op EXCEPT ![o] = op[o]]
           /\ IF Cancelled(o) THEN ReopenDonor(o) ELSE Return(o)
    BY <1>3, <2>1 DEF TransitionIf, Write, Record, Goto, Become, Becomes, Marked
  <2>5. r \in OpRecords /\ r.status = "Running" /\ r.phase = "closed"
           /\ r.target = op[o].target
    BY <1>1, MarkedIs, WordsIs
  <2>6. "closed" \in Points
    BY DEF Points
  <2>7. /\ t \in Tasks /\ t.at = "closed" /\ t.lease = exec[o].lease
        /\ t.result = "none"
    BY <1>1, <2>6, GotoIs
  <2> HIDE DEF t
  <2>8. CASE /\ op[o].status = "Running" /\ op[o].phase = "handoff"
             /\ Becomes(o, r, t) /\ inbox' = inbox
    <3>1. Placed(r, t) /\ Staged(r, t) /\ Numbered(t)
      <4> HIDE DEF r
      <4> QED BY <1>1, <1>2, <2>5, <2>7, <2>8 DEF Fits, Placed, Staged, Numbered,
         HasDonor, HasSent, RecipientStage, Terminal, Cancellable
    <3>2. Fits(o, r, t)
      BY <2>7, <2>8, <3>1, PhaseFits DEF Cancellable, RecipientStage
    <3> HIDE DEF r
    <3>3. ~Doomed(op[o], exec[o])
      BY <1>2, <2>8 DEF Doomed, Terminal
    <3>4. ~Afresh(r, t)
      BY <2>5, <2>7 DEF Afresh
    <3>5. Quiet => Calm(r, t)
      <4>1. SUFFICES ASSUME Quiet PROVE Calm(r, t)
        OBVIOUS
      <4>2. Calm(op[o], exec[o])
        BY <3>3, <4>1 DEF Quiet
      <4>3. DonorShut(t)
        BY <1>2, <1>8, <2>7, <4>2 DEF Calm, DonorShut
      <4>4. QED
        BY <2>5, <2>7, <3>4, <4>2, <4>3 DEF Calm, Cleared, Aimed, Renewed
    <3>6. QED
      BY <2>3, <2>5, <2>7, <2>8, <3>2, <3>3, <3>5 DEF Turn, Follows, Mailed
  <2>9. CASE /\ op[o].status = "Running" /\ op[o].phase = "handoff"
             /\ op' = [op EXCEPT ![o] = r]
             /\ IF Cancelled(o) THEN ReopenDonor(o) ELSE Return(o)
    <3>1. Becomes(o, r, IdleTask) /\ inbox' = inbox
      BY <2>9 DEF Cancelled, Return, Become, Becomes
    <3>2. QED
      BY <2>3, <2>9, <3>1, HaltTurn DEF Cancellable
  <2>10. CASE /\ op' = [op EXCEPT ![o] = op[o]]
              /\ IF Cancelled(o) THEN ReopenDonor(o) ELSE Return(o)
    <3>1. CASE Cancelled(o)
      BY <1>1, <1>2, <1>3, <2>3, <2>10, <3>1, ReopenDonorTurn
    <3>2. CASE ~Cancelled(o)
      <4>1. Becomes(o, op[o], IdleTask) /\ inbox' = inbox
        BY <2>10, <3>2 DEF Return, Become, Becomes
      <4>2. QED
        BY <1>2, <2>3, <4>1, ReturnTurn
    <3>3. QED
      BY <3>1, <3>2
  <2>11. QED
    BY <2>4, <2>8, <2>9, <2>10
<1>9. QED
  BY <1>4, <1>5, <1>6, <1>7, <1>8

\* reopen_donor is over.
LEMMA GivenBackTurn ==
  ASSUME IInv, NEW o \in Operations, GivenBack(o)
  PROVE  Turn(o) /\ Mailed /\ SpentOK
<1>1. exec[o].at = "giveback" /\ exec[o].at # "idle" /\ Return(o)
  BY DEF GivenBack, At
<1>2. op' = op /\ UNCHANGED spent
  BY DEF GivenBack, durable
<1>3. op = [op EXCEPT ![o] = op[o]]
  BY DEF IInv, TypeOK
<1>4. Becomes(o, op[o], IdleTask) /\ inbox' = inbox
  BY <1>1, <1>2, <1>3 DEF Return, Become, Becomes
<1>5. SpentOK
  BY <1>2, SpentStep DEF IInv
<1>6. QED
  BY <1>1, <1>4, <1>5, ReturnTurn

\* The operation passes the point after which it cannot be cancelled.
LEMMA ApproveTurn ==
  ASSUME IInv, NEW o \in Operations, Approve(o)
  PROVE  Turn(o) /\ Mailed /\ SpentOK
<1> DEFINE r == Marked(o, "Running", "transfer")
           t == [exec[o] EXCEPT !.at = "transfer", !.result = "none"]
<1>1. op[o] \in OpRecords /\ exec[o] \in Tasks /\ Fits(o, op[o], exec[o])
  BY DEF IInv, TypeOK
<1>2. exec[o].at = "closed" /\ exec[o].at # "idle"
  BY DEF Approve, At
<1>3. op = [op EXCEPT ![o] = op[o]] /\ op[o].status \in Terminal \cup {"Running"}
  BY <1>2, Claimed DEF IInv, TypeOK
<1>4. CASE table.lease # exec[o].lease
  <2>1. Fail(o)
    BY <1>4 DEF Approve
  <2>2. QED
    BY <1>2, <2>1, FailTurn
<1>5. CASE table.lease = exec[o].lease
  <2>1. TransitionIf(o, "Running", "closed", "Running", "transfer",
           Goto(o, "transfer") /\ UNCHANGED inbox, ReopenDonor(o))
    BY <1>5 DEF Approve
  <2>2. Error \/ UNCHANGED spent
    BY <2>1 DEF TransitionIf, Write
  <2>3. SpentOK
    BY <2>2, SpentStep DEF IInv
  <2>4. \/ /\ op[o].status = "Running" /\ op[o].phase = "closed"
           /\ Becomes(o, r, t) /\ inbox' = inbox
        \/ /\ op[o].status = "Running" /\ op[o].phase = "closed"
           /\ op' = [op EXCEPT ![o] = r] /\ ReopenDonor(o)
        \/ /\ op' = [op EXCEPT ![o] = op[o]] /\ ReopenDonor(o)
    BY <1>3, <2>1 DEF TransitionIf, Write, Record, Goto, Become, Becomes, Marked
  <2>5. r \in OpRecords /\ r.status = "Running" /\ r.phase = "transfer"
           /\ r.target = op[o].target
    BY <1>1, MarkedIs, WordsIs
  <2>6. "transfer" \in Points
    BY DEF Points
  <2>7. /\ t \in Tasks /\ t.at = "transfer" /\ t.lease = exec[o].lease
        /\ t.result = "none"
    BY <1>1, <2>6, GotoIs
  <2> HIDE DEF t
  <2>8. CASE /\ op[o].status = "Running" /\ op[o].phase = "closed"
             /\ Becomes(o, r, t) /\ inbox' = inbox
    <3>1. Placed(r, t) /\ Staged(r, t) /\ Numbered(t)
      <4> HIDE DEF r
      <4> QED BY <1>1, <1>2, <2>5, <2>7, <2>8 DEF Fits, Placed, Staged, Numbered,
         HasDonor, HasSent, RecipientStage, Terminal, Moving
    <3>2. Fits(o, r, t)
      BY <2>7, <2>8, <3>1, PhaseFits DEF Cancellable, Moving, RecipientStage
    <3> HIDE DEF r
    <3>3. ~Doomed(op[o], exec[o])
      BY <1>2, <2>8 DEF Doomed, Terminal
    <3>4. ~Afresh(r, t)
      BY <2>5, <2>7 DEF Afresh
    <3>5. Quiet => Calm(r, t)
      <4>1. SUFFICES ASSUME Quiet PROVE Calm(r, t)
        OBVIOUS
      <4>2. Calm(op[o], exec[o])
        BY <3>3, <4>1 DEF Quiet
      <4>3. DonorShut(t)
        BY <1>2, <2>7, <4>2 DEF Calm, DonorShut
      <4>4. QED
        BY <2>5, <2>7, <3>4, <4>2, <4>3 DEF Calm, Cleared, Aimed, Renewed
    <3>6. QED
      BY <2>3, <2>5, <2>7, <2>8, <3>2, <3>3, <3>5 DEF Turn, Follows, Mailed
  <2>9. CASE /\ op[o].status = "Running" /\ op[o].phase = "closed"
             /\ op' = [op EXCEPT ![o] = r] /\ ReopenDonor(o)
    <3>1. Placed(r, exec[o]) /\ Staged(r, exec[o]) /\ Numbered(exec[o])
      <4> HIDE DEF r
      <4> QED BY <1>1, <1>2, <2>5, <2>9 DEF Fits, Placed, Staged, HasDonor, HasSent,
         RecipientStage, Terminal, Moving
    <3>2. Fits(o, r, exec[o])
      BY <1>1, <1>2, <2>9, <3>1, PhaseFits DEF Cancellable, Moving, RecipientStage
    <3> HIDE DEF r
    <3>3. QED
      BY <1>2, <2>3, <2>5, <2>9, <3>2, ReopenDonorTurn
  <2>10. CASE op' = [op EXCEPT ![o] = op[o]] /\ ReopenDonor(o)
    BY <1>1, <1>2, <1>3, <2>3, <2>10, ReopenDonorTurn
  <2>11. QED
    BY <2>4, <2>8, <2>9, <2>10
<1>6. QED
  BY <1>4, <1>5

\* A task that stopped between two steps: a save panicked.
LEMMA DeadTurn ==
  ASSUME IInv, NEW o \in Operations, exec[o].at # "idle",
         Becomes(o, op[o], [IdleTask EXCEPT !.at = "dead"]), inbox' = inbox
  PROVE  Turn(o) /\ Mailed
<1> DEFINE t == [IdleTask EXCEPT !.at = "dead"]
<1>1. op[o] \in OpRecords /\ exec[o] \in Tasks /\ Fits(o, op[o], exec[o])
  BY DEF IInv, TypeOK
<1>2. op[o].status \in Terminal \cup {"Running"}
  BY Claimed
<1>3. t \in Tasks /\ t.at = "dead"
  BY DEF IdleTask, Tasks, Points, Phases
<1>4. Becomes(o, op[o], t)
  OBVIOUS
<1> HIDE DEF t
<1>5. Placed(op[o], t) /\ Staged(op[o], t) /\ Numbered(t)
  BY <1>1, <1>2, <1>3 DEF Fits, Placed, Staged, Numbered, HasDonor, HasSent,
     RecipientStage, Terminal
<1>6. Backed(o, op[o], t, table.lease)
  BY <1>1, <1>3 DEF Fits, Backed, Uncommitted, RecipientStage
<1>7. Doomed(op[o], t)
  BY <1>2, <1>3 DEF Doomed
<1>8. QED
  BY <1>1, <1>3, <1>4, <1>5, <1>6, <1>7 DEF Turn, Follows, Mailed, Fits

\* The transfer is saved.
LEMMA SaveTransferTurn ==
  ASSUME IInv, NEW o \in Operations, SaveTransfer(o)
  PROVE  Turn(o) /\ Mailed /\ SpentOK /\ store' \in {store, table}
<1>1. op[o] \in OpRecords /\ exec[o] \in Tasks /\ Fits(o, op[o], exec[o])
  BY DEF IInv, TypeOK
<1>2. exec[o].at = "save" /\ exec[o].at # "idle"
  BY DEF SaveTransfer, At
<1>3. op[o].status \in Terminal \cup {"Running"}
  BY <1>2, Claimed
<1>4. Save(o, Goto(o, "announce") /\ UNCHANGED <<op, inbox, spent>>)
  BY DEF SaveTransfer
<1>5. store' \in {store, table}
  BY <1>4 DEF Save
<1>6. Error \/ UNCHANGED spent
  BY <1>4 DEF Save
<1>7. SpentOK
  BY <1>6, SpentStep DEF IInv
<1>8. op' = op /\ inbox' = inbox
  BY <1>4 DEF Save
<1>9. Goto(o, "announce") \/ Become(o, [IdleTask EXCEPT !.at = "dead"])
  BY <1>4 DEF Save
<1>10. op = [op EXCEPT ![o] = op[o]]
  BY DEF IInv, TypeOK
<1>11. CASE Goto(o, "announce")
  <2> DEFINE t == [exec[o] EXCEPT !.at = "announce", !.result = "none"]
  <2>1. "announce" \in Points
    BY DEF Points
  <2>2. /\ t \in Tasks /\ t.at = "announce" /\ t.result = "none"
        /\ t.lease = exec[o].lease /\ t.sent = exec[o].sent
    BY <1>1, <2>1, GotoIs
  <2> HIDE DEF t
  <2>3. Placed(op[o], t) /\ Staged(op[o], t) /\ Numbered(t)
    BY <1>1, <1>2, <1>3, <2>2 DEF Fits, Placed, Staged, Numbered, HasDonor, HasSent,
       RecipientStage, Terminal
  <2>4. Backed(o, op[o], t, table.lease)
    BY <1>1, <1>2, <2>2 DEF Fits, Backed, Uncommitted, RecipientStage
  <2>5. Fits(o, op[o], t)
    BY <2>3, <2>4 DEF Fits
  <2>6. ASSUME Quiet /\ ~Doomed(op[o], exec[o]) PROVE Calm(op[o], t)
    <3>1. Calm(op[o], exec[o])
      BY <2>6 DEF Quiet
    <3>2. Afresh(op[o], t) => Afresh(op[o], exec[o])
      BY <2>2 DEF Afresh
    <3>3. QED
      BY <2>2, <3>1, <3>2 DEF Calm, Cleared, Renewed, DonorShut
  <2>7. exec[o].at \notin {"idle", "giveback", "dead"}
    BY <1>2
  <2>8. QED
    BY <1>5, <1>7, <1>8, <1>11, <2>1, <2>5, <2>6, <2>7, GotoTurn DEF t
<1>12. CASE Become(o, [IdleTask EXCEPT !.at = "dead"])
  <2>1. Becomes(o, op[o], [IdleTask EXCEPT !.at = "dead"])
    BY <1>8, <1>10, <1>12 DEF Become, Becomes
  <2>2. QED
    BY <1>2, <1>5, <1>7, <1>8, <2>1, DeadTurn
<1>13. QED
  BY <1>9, <1>11, <1>12

\* The target is asked to open the shard, or the transfer is rolled back.
LEMMA AnnounceTurn ==
  ASSUME IInv, NEW o \in Operations, Announce(o)
  PROVE  Turn(o) /\ Mailed /\ SpentOK
<1>1. op[o] \in OpRecords /\ exec[o] \in Tasks /\ Fits(o, op[o], exec[o])
  BY DEF IInv, TypeOK
<1>2. PICK l : l = exec[o].sent
  OBVIOUS
<1> DEFINE r == Marked(o, "Running", "opening")
           t == [exec[o] EXCEPT !.at = "opening", !.sent = l, !.result = "none"]
           u == [exec[o] EXCEPT !.at = "rollback", !.result = "none"]
           m == [kind |-> "assigned", lease |-> l, op |-> o]
<1>3. exec[o].at = "announce" /\ exec[o].at # "idle"
  BY DEF Announce, At
<1>4. op[o].status \in Terminal \cup {"Running"} /\ op[o].target \in Workers
  BY <1>3, Claimed
<1>5. op = [op EXCEPT ![o] = op[o]]
  BY DEF IInv, TypeOK
<1>6. l \in Leases /\ l.token < table.next /\ l.worker = op[o].target
  BY <1>1, <1>2, <1>3 DEF Fits, Placed, Staged, Numbered, HasSent
<1>7. Error \/ UNCHANGED spent
  BY DEF Announce, Transition, Write
<1>8. SpentOK
  BY <1>7, SpentStep DEF IInv
<1>9. \/ /\ Legal(op[o].status, "Running") /\ Becomes(o, r, t) /\ Deliver(l.worker, m)
      \/ /\ Legal(op[o].status, "Running") /\ Becomes(o, r, u) /\ inbox' = inbox
      \/ Becomes(o, op[o], u) /\ inbox' = inbox
  BY <1>2, <1>5 DEF Announce, Transition, Write, Record, SendAndWait, Goto, Become,
     Becomes, Marked
<1>10. r \in OpRecords /\ r.status = "Running" /\ r.phase = "opening"
          /\ r.target = op[o].target
  BY <1>1, MarkedIs, WordsIs
<1>11. /\ t \in Tasks /\ t.at = "opening" /\ t.lease = exec[o].lease /\ t.sent = l
       /\ t.result = "none"
  BY <1>1, <1>6 DEF Tasks, Points, RecipientStage
<1>12. /\ u \in Tasks /\ u.at = "rollback" /\ u.lease = exec[o].lease
       /\ u.sent = exec[o].sent /\ u.result = "none"
  BY <1>1 DEF Tasks, Points
<1>13. m.kind = "assigned" /\ m.lease = l
  OBVIOUS
<1> HIDE DEF r, t, u, m
<1>14. Legal(op[o].status, "Running") => op[o].status = "Running"
  BY <1>4 DEF Legal, Terminal
<1>15. op[o].status = "Running" => ~Doomed(op[o], exec[o])
  BY <1>3 DEF Doomed, Terminal
<1>16. Quiet /\ op[o].status = "Running" => Aimed(op[o])
  BY <1>15 DEF Quiet, Calm
<1>17. CASE Legal(op[o].status, "Running") /\ Becomes(o, r, t) /\ Deliver(l.worker, m)
  <2>1. op[o].status = "Running"
    BY <1>14, <1>17
  <2>2. Placed(r, t) /\ Staged(r, t) /\ Numbered(t)
    BY <1>1, <1>3, <1>4, <1>6, <1>10, <1>11 DEF Fits, Placed, Staged, Numbered,
       HasDonor, HasSent, RecipientStage, Terminal, Moving
  <2>3. Backed(o, r, t, table.lease)
    BY <1>1, <1>2, <1>3, <1>10, <1>11 DEF Fits, Backed, Uncommitted, Cancellable
  <2>4. ASSUME Quiet PROVE Calm(r, t) /\ Harmless(r, t, l.worker, m)
    <3>1. Aimed(op[o])
      BY <1>16, <2>1, <2>4
    <3>2. ~Afresh(r, t)
      BY <1>10, <1>11 DEF Afresh
    <3>3. Calm(r, t)
      BY <1>10, <1>11, <3>1, <3>2 DEF Calm, Cleared, Aimed, Renewed, DonorShut
    <3>4. NoDonorAt(l.worker)
      BY <1>4, <1>6, <3>1 DEF Aimed
    <3>5. Harmless(r, t, l.worker, m)
      BY <1>11, <1>13, <3>4 DEF Harmless, NoDonorAt, IsPrepare
    <3>6. QED
      BY <3>3, <3>5
  <2>5. Fits(o, r, t)
    BY <2>2, <2>3 DEF Fits
  <2>6. QED
    BY <1>6, <1>8, <1>10, <1>11, <1>15, <1>17, <2>1, <2>4, <2>5, SendTurn DEF m
<1>18. ASSUME NEW s \in OpRecords, s.status \in Terminal \cup {"Running"},
              s.status = "Running" => op[o].status = "Running",
              s.target = op[o].target,
              Fits(o, s, exec[o]), Becomes(o, s, u), inbox' = inbox
       PROVE  Turn(o) /\ Mailed
  <2>1. Placed(s, u) /\ Staged(s, u) /\ Numbered(u)
    BY <1>3, <1>12, <1>18 DEF Fits, Placed, Staged, Numbered,
       HasDonor, HasSent, RecipientStage, Terminal
  <2>2. Backed(o, s, u, table.lease)
    BY <1>12, <1>18 DEF Fits, Backed, Uncommitted, RecipientStage
  <2>3. ASSUME Quiet, ~Doomed(s, u) PROVE ~Doomed(op[o], exec[o]) /\ Calm(s, u)
    <3>1. op[o].status = "Running"
      BY <1>18, <2>3 DEF Doomed
    <3>2. ~Afresh(s, u)
      BY <1>12, <1>18, <2>3 DEF Afresh, Terminal
    <3>3. QED
      BY <1>12, <1>15, <1>16, <1>18, <2>3, <3>1, <3>2
      DEF Calm, Cleared, Aimed, Renewed, DonorShut
  <2>4. QED
    BY <1>12, <1>18, <2>1, <2>2, <2>3 DEF Turn, Follows, Mailed, Fits
<1>19. CASE Legal(op[o].status, "Running") /\ Becomes(o, r, u) /\ inbox' = inbox
  <2>1. Placed(r, exec[o]) /\ Staged(r, exec[o]) /\ Numbered(exec[o])
    BY <1>1, <1>3, <1>4, <1>10 DEF Fits, Placed, Staged, HasDonor, HasSent,
       RecipientStage, Terminal, Moving
  <2>2. Backed(o, r, exec[o], table.lease)
    BY <1>1, <1>3, <1>10 DEF Fits, Backed, Uncommitted, Cancellable
  <2>3. Fits(o, r, exec[o])
    BY <2>1, <2>2 DEF Fits
  <2>4. QED
    BY <1>8, <1>10, <1>14, <1>18, <1>19, <2>3
<1>20. CASE Becomes(o, op[o], u) /\ inbox' = inbox
  BY <1>1, <1>4, <1>8, <1>18, <1>20
<1>21. QED
  BY <1>9, <1>17, <1>19, <1>20

\* The target answered, or did not, that it opened the shard.
LEMMA RecipientAnsweredTurn ==
  ASSUME IInv, NEW o \in Operations, RecipientAnswered(o)
  PROVE  Turn(o) /\ Mailed /\ SpentOK
<1>1. op[o] \in OpRecords /\ exec[o] \in Tasks /\ Fits(o, op[o], exec[o])
  BY DEF IInv, TypeOK
<1>2. exec[o].at = "opening" /\ exec[o].at # "idle"
  BY DEF RecipientAnswered, At
<1>3. op[o].status \in Terminal \cup {"Running"}
  BY <1>2, Claimed
<1>4. CASE Opened(o)
  <2>1. Succeed(o)
    BY <1>4 DEF RecipientAnswered
  <2>2. QED
    BY <1>2, <1>4, <2>1, SucceedTurn
<1>5. CASE ~Opened(o)
  <2> DEFINE c == IF exec[o].result = "late" THEN "wait" ELSE "fail"
             t == [exec[o] EXCEPT !.at = "rollback", !.result = "none", !.then = c]
  <2>1. Become(o, t) /\ op' = op /\ inbox' = inbox /\ UNCHANGED spent
    BY <1>5 DEF RecipientAnswered
  <2>2. op = [op EXCEPT ![o] = op[o]]
    BY DEF IInv, TypeOK
  <2>3. Becomes(o, op[o], t) /\ SpentOK
    BY <2>1, <2>2, SpentStep DEF IInv, Become, Becomes
  <2>4. /\ t \in Tasks /\ t.at = "rollback" /\ t.lease = exec[o].lease
        /\ t.sent = exec[o].sent /\ t.result = "none"
    BY <1>1 DEF Tasks, Points
  <2> HIDE DEF t
  <2>5. Placed(op[o], t) /\ Staged(op[o], t) /\ Numbered(t)
    BY <1>1, <1>2, <1>3, <2>4 DEF Fits, Placed, Staged, Numbered, HasDonor, HasSent,
       RecipientStage, Terminal
  <2>6. Backed(o, op[o], t, table.lease)
    BY <1>1, <2>4 DEF Fits, Backed, Uncommitted, RecipientStage
  <2>7. ASSUME Quiet, ~Doomed(op[o], t)
        PROVE  ~Doomed(op[o], exec[o]) /\ Calm(op[o], t)
    <3>1. ~Doomed(op[o], exec[o])
      BY <1>2, <2>4, <2>7 DEF Doomed
    <3>2. Calm(op[o], exec[o])
      BY <2>7, <3>1 DEF Quiet
    <3>3. Afresh(op[o], t) => Afresh(op[o], exec[o])
      BY <2>4 DEF Afresh
    <3>4. QED
      BY <2>4, <3>1, <3>2, <3>3 DEF Calm, Cleared, Renewed, DonorShut
  <2>8. QED
    BY <1>1, <2>1, <2>3, <2>4, <2>5, <2>6, <2>7 DEF Turn, Follows, Mailed, Fits
<1>6. QED
  BY <1>4, <1>5

\* What follows a rollback ends the task.
LEMMA AfterRollbackTurn ==
  ASSUME IInv, NEW o \in Operations,
         exec[o].at \in {"rollback", "restore", "returned"}, AfterRollback(o)
  PROVE  Turn(o) /\ Mailed /\ SpentOK
<1>1. exec[o].then \in {"none", "wait", "fail"} /\ exec[o].at # "idle"
  BY DEF IInv, TypeOK, Tasks
<1>2. CASE exec[o].then = "wait"
  <2>1. Wait(o)
    BY <1>2 DEF AfterRollback
  <2>2. QED
    BY <2>1, WaitTurn DEF MayWait
<1>3. CASE exec[o].then = "fail"
  <2>1. Fail(o)
    BY <1>3 DEF AfterRollback
  <2>2. QED
    BY <1>1, <2>1, FailTurn
<1>4. CASE exec[o].then = "none"
  <2>1. Return(o) /\ op' = op /\ UNCHANGED spent
    BY <1>4 DEF AfterRollback
  <2>2. op = [op EXCEPT ![o] = op[o]]
    BY DEF IInv, TypeOK
  <2>3. Becomes(o, op[o], IdleTask) /\ inbox' = inbox
    BY <2>1, <2>2 DEF Return, Become, Becomes
  <2>4. SpentOK
    BY <2>1, SpentStep DEF IInv
  <2>5. QED
    BY <1>1, <2>3, <2>4, ReturnTurn
<1>5. QED
  BY <1>1, <1>2, <1>3, <1>4

\* The rollback is saved and the donor is asked to open the shard again.
LEMMA SaveRollbackTurn ==
  ASSUME IInv, NEW o \in Operations, SaveRollback(o)
  PROVE  Turn(o) /\ Mailed /\ SpentOK /\ store' \in {store, table}
<1>1. op[o] \in OpRecords /\ exec[o] \in Tasks /\ Fits(o, op[o], exec[o])
  BY DEF IInv, TypeOK
<1>2. exec[o].at = "restore" /\ exec[o].at # "idle"
  BY DEF SaveRollback, At
<1>3. op[o].status \in Terminal \cup {"Running"}
  BY <1>2, Claimed
<1>4. PICK l : l = exec[o].sent
  OBVIOUS
<1>5. l \in Leases /\ l.token < table.next /\ l.worker \in Workers
  <2>1. l \in Leases /\ l.token < table.next
    BY <1>1, <1>2, <1>4 DEF Fits, Placed, Numbered, HasSent
  <2>2. QED
    BY <2>1, LeaseFacts
<1>6. \/ /\ store' = table
         /\ IF exec[o].sent.worker \in linked
            THEN /\ SendAndWait(o, "assigned", exec[o].sent, "returned")
                 /\ UNCHANGED <<op, spent>>
            ELSE AfterRollback(o)
      \/ /\ Error /\ Become(o, [IdleTask EXCEPT !.at = "dead"])
         /\ store' \in {store, table} /\ UNCHANGED <<op, inbox>>
  BY DEF SaveRollback, Save
<1>7. store' \in {store, table}
  BY <1>6
<1>8. op = [op EXCEPT ![o] = op[o]]
  BY DEF IInv, TypeOK
<1>9. CASE /\ exec[o].sent.worker \in linked
           /\ SendAndWait(o, "assigned", exec[o].sent, "returned")
           /\ UNCHANGED <<op, spent>>
  <2> DEFINE t == [exec[o] EXCEPT !.at = "returned", !.sent = l, !.result = "none"]
             m == [kind |-> "assigned", lease |-> l, op |-> o]
  <2>1. op' = op /\ UNCHANGED spent
    BY <1>9
  <2>2. Becomes(o, op[o], t) /\ Deliver(l.worker, m)
    BY <1>4, <1>8, <1>9, <2>1 DEF SendAndWait, Become, Becomes
  <2>3. /\ t \in Tasks /\ t.at = "returned" /\ t.lease = exec[o].lease /\ t.sent = l
        /\ t.result = "none"
    BY <1>1, <1>5 DEF Tasks, Points, RecipientStage
  <2>4. m.kind = "assigned" /\ m.lease = l
    OBVIOUS
  <2>5. SpentOK
    BY <2>1, SpentStep DEF IInv
  <2> HIDE DEF t, m
  <2>6. Placed(op[o], t) /\ Staged(op[o], t) /\ Numbered(t)
    BY <1>1, <1>2, <1>3, <1>5, <2>3 DEF Fits, Placed, Staged, Numbered, HasDonor, HasSent,
       RecipientStage, Terminal
  <2>7. Backed(o, op[o], t, table.lease)
    BY <1>1, <2>3 DEF Fits, Backed, Uncommitted, RecipientStage
  <2>8. ASSUME Quiet, ~Doomed(op[o], t)
        PROVE  /\ ~Doomed(op[o], exec[o]) /\ Calm(op[o], t)
               /\ Harmless(op[o], t, l.worker, m)
    <3>1. ~Doomed(op[o], exec[o])
      BY <1>2, <2>3, <2>8 DEF Doomed
    <3>2. Calm(op[o], exec[o])
      BY <2>8, <3>1 DEF Quiet
    <3>3. Afresh(op[o], t) => Afresh(op[o], exec[o])
      BY <2>3 DEF Afresh
    <3>4. Calm(op[o], t)
      BY <2>3, <3>2, <3>3 DEF Calm, Cleared, Renewed, DonorShut
    <3>5. NoDonorWith(l.token)
      BY <1>2, <1>4, <3>2 DEF Calm, Renewed
    <3>6. Harmless(op[o], t, l.worker, m)
      BY <1>5, <2>3, <2>4, <3>5 DEF Harmless, NoDonorWith
    <3>7. QED
      BY <3>1, <3>4, <3>6
  <2>9. Fits(o, op[o], t)
    BY <2>6, <2>7 DEF Fits
  <2>10. QED
    BY <1>1, <1>5, <1>7, <2>2, <2>3, <2>5, <2>8, <2>9, SendTurn DEF m
<1>10. CASE AfterRollback(o)
  BY <1>2, <1>7, <1>10, AfterRollbackTurn
<1>11. CASE Error /\ Become(o, [IdleTask EXCEPT !.at = "dead"]) /\ UNCHANGED <<op, inbox>>
  <2>1. op' = op /\ inbox' = inbox
    BY <1>11
  <2>2. Becomes(o, op[o], [IdleTask EXCEPT !.at = "dead"])
    BY <1>8, <1>11, <2>1 DEF Become, Becomes
  <2>3. SpentOK
    BY <1>11, SpentStep DEF IInv
  <2>4. QED
    BY <1>2, <1>7, <2>1, <2>2, <2>3, DeadTurn
<1>12. QED
  BY <1>6, <1>9, <1>10, <1>11

-----------------------------------------------------------------------------
(* Steps that mint a token *)

\* An operation that did not move the new lease is not affected by it.
LEMMA FreshFits ==
  ASSUME IInv, NEW o \in Operations,
         table'.lease = Nil \/ table'.lease.token = table.next,
         table'.next \in Nat, table'.next >= table.next,
         NEW r \in OpRecords, NEW t \in Tasks, Fits(o, r, t),
         \A n \in Tokens : <<o, n>> \in moved' => <<o, n>> \in moved,
         moved' \subseteq Operations \X Tokens, opened \subseteq opened',
         revived' = revived
  PROVE  Fits(o, r, t)'
<1>1. table.next \in Nat
  BY DEF IInv, TypeOK, Tables
<1>2. table'.lease = Nil \/ <<o, table'.lease.token>> \notin moved'
  <2>1. SUFFICES ASSUME <<o, table'.lease.token>> \in moved',
                        table'.lease.token = table.next
                 PROVE  FALSE
    OBVIOUS
  <2>2. table.next \in Tokens
    BY <2>1
  <2>3. <<o, table.next>> \in moved
    BY <2>1, <2>2
  <2>4. <<o, table.next>>[2] < table.next
    BY <2>3 DEF IInv, Minting
  <2>5. QED
    BY <1>1, <2>4
<1>3. Placed(r, t)' /\ Staged(r, t)'
  BY DEF Fits, Placed, Staged
<1>4. Numbered(t)'
  <2>1. \A l \in Leases : l.token \in Nat
    BY LeaseFacts
  <2>2. QED
    BY <1>1, <2>1 DEF Fits, Placed, Numbered
<1>5. ~Gave(o, r, table.lease)'
  BY <1>2 DEF Gave
<1>6. Backed(o, r, t, table.lease)'
  <2>1. (r.status = "Absent" => \A n \in Tokens : <<o, n>> \notin moved)'
    BY DEF Fits, Backed
  <2>2. (t.at \in RecipientStage /\ t.result = "ok"
           => <<t.sent.worker, t.sent.token>> \in opened)'
    BY DEF Fits, Backed
  <2>3. QED
    BY <1>2, <1>5, <2>1, <2>2 DEF Backed
<1>7. QED
  BY <1>3, <1>4, <1>6 DEF Fits

\* What is on its way carries tokens.
LEMMA QueueTokens ==
  ASSUME TypeOK, NEW w \in Workers
  PROVE  /\ \A i \in DOMAIN inbox[w] :
               inbox[w][i] \in Messages /\ inbox[w][i].lease.token \in Nat
         /\ \A i \in DOMAIN acks[w] :
               acks[w][i] \in Answers /\ acks[w][i].token \in Nat
<1>1. inbox[w] \in Seq(Messages) /\ acks[w] \in Seq(Answers)
  BY DEF TypeOK
<1>2. \A m \in Messages : m.lease.token \in Nat
  BY LeaseFacts DEF Messages
<1>3. \A a \in Answers : a.token \in Nat
  BY DEF Answers, Tokens
<1>4. QED
  BY <1>1, <1>2, <1>3, Queued

\* Minting a token, or giving the lease up, keeps the counters right.
LEMMA MintingKeeps ==
  ASSUME IInv, table' \in Tables, table'.next >= table.next,
         table'.lease # Nil => table'.lease.token < table'.next,
         store' \in {store, table'},
         \A m \in moved' : m \in moved \/ m[2] < table'.next
  PROVE  Minting'
<1>1. table.next \in Nat /\ store.next \in Nat /\ table'.next \in Nat
  BY DEF IInv, TypeOK, Tables
<1>2. \A m \in moved : m[2] \in Nat
  <2>1. moved \subseteq Operations \X Nat
    BY DEF IInv, TypeOK, Tokens
  <2>2. QED
    BY <2>1
<1>3. \A m \in moved' : m[2] < table'.next
  BY <1>1, <1>2 DEF IInv, Minting
<1>4. store'.next >= 1 /\ store'.next <= table'.next /\ table'.next >= 1
  BY <1>1 DEF IInv, Minting
<1>5. store'.lease # Nil => store'.lease.token < store'.next
  BY DEF IInv, Minting
<1>6. QED
  BY <1>3, <1>4, <1>5 DEF Minting

\* The announcement of a new lease keeps the queues right.
LEMMA FreshMail ==
  ASSUME IInv, table'.next = table.next + 1, NEW w \in Workers, NEW l \in Leases,
         l.token = table.next,
         \/ inbox' = inbox
         \/ Deliver(w, [kind |-> "assigned", lease |-> l, op |-> Nil])
  PROVE  /\ inbox' \in [Workers -> Seq(Messages)]
         /\ \A v \in Workers : \A i \in DOMAIN inbox'[v] :
               inbox'[v][i].lease.token < table'.next
<1> DEFINE m == [kind |-> "assigned", lease |-> l, op |-> Nil]
<1>1. m \in Messages /\ m.lease = l
  BY DEF Messages
<1>2. table.next \in Nat /\ TypeOK
  BY DEF IInv, TypeOK, Tables
<1>3. Posted(w, m) \/ inbox' = inbox
  BY <1>1, Delivered
<1> HIDE DEF m
<1>4. \A n \in Messages : n.lease.token \in Nat
  BY LeaseFacts DEF Messages
<1>5. \A v \in Workers : \A i \in DOMAIN inbox[v] :
         inbox[v][i] \in Messages /\ inbox[v][i].lease.token < table.next
  BY <1>2, Queued DEF IInv, TypeOK, Known
<1>6. \A v \in Workers : \A i \in DOMAIN inbox[v] :
         inbox[v][i].lease.token < table'.next
  BY <1>2, <1>4, <1>5
<1>7. CASE inbox' = inbox
  BY <1>2, <1>6, <1>7 DEF TypeOK
<1>8. CASE Posted(w, m)
  <2>1. /\ inbox' \in [Workers -> Seq(Messages)]
        /\ \A v \in Workers : v # w => inbox'[v] = inbox[v]
        /\ \A i \in DOMAIN inbox'[w] :
               \/ i \in DOMAIN inbox[w] /\ inbox'[w][i] = inbox[w][i]
               \/ inbox'[w][i] = m
    BY <1>1, <1>2, <1>8, PostedTypes
  <2>2. m.lease.token < table'.next
    BY <1>1, <1>2
  <2>3. QED
    BY <1>6, <2>1, <2>2
<1>9. QED
  BY <1>3, <1>7, <1>8

\* The announcement of a new lease is no danger to anyone.
LEMMA FreshQuiet ==
  ASSUME IInv, Quiet, OneOperation, NEW w \in Workers, NEW l \in Leases,
         l.token = table.next, op' = op, exec' = exec,
         \/ inbox' = inbox
         \/ Deliver(w, [kind |-> "assigned", lease |-> l, op |-> Nil]),
         UNCHANGED <<open, acks>>
  PROVE  Quiet'
<1> DEFINE m == [kind |-> "assigned", lease |-> l, op |-> Nil]
<1>1. m \in Messages /\ m.lease = l /\ m.kind = "assigned"
  BY DEF Messages
<1>2. Posted(w, m) \/ inbox' = inbox
  BY <1>1, Delivered
<1> HIDE DEF m
<1>3. ASSUME NEW o \in Operations PROVE Quiet'
  <2>1. op[o] \in OpRecords /\ exec[o] \in Tasks /\ Fits(o, op[o], exec[o])
    BY DEF IInv, TypeOK
  <2>2. Becomes(o, op[o], exec[o])
    BY DEF IInv, TypeOK, Becomes
  <2>3. table.next \in Nat
    BY DEF IInv, TypeOK, Tables
  <2>4. \A i \in DOMAIN inbox[w] : ~IsPrepare(inbox[w][i], m.lease.token)
    BY <1>1, <2>3 DEF IInv, Known, IsPrepare
  <2>5. \A i \in DOMAIN acks[w] :
           ~(acks[w][i].stage = "donor" /\ acks[w][i].token = m.lease.token)
    BY <1>1, <2>3 DEF IInv, Known
  <2>6. exec[o].at \in {"donor", "closed", "transfer"}
           => exec[o].lease.token # m.lease.token
    BY <1>1, <2>1, <2>3 DEF Fits, Numbered, HasDonor
  <2>7. Harmless(op[o], exec[o], w, m)
    BY <1>1, <2>4, <2>5, <2>6 DEF Harmless
  <2>8. Follows(o, op[o], exec[o])
    BY <1>1, <1>2, <2>7 DEF Follows, Quiet
  <2>9. Placed(op[o], exec[o])
    BY <2>1 DEF Fits
  <2>10. QED
    BY <2>1, <2>2, <2>8, <2>9, FollowsKeeps
<1>4. QED
  BY <1>3 DEF Quiet

\* A task that was granted a lease of its own.
LEMMA GrantKeeps ==
  ASSUME IInv, NEW o \in Operations, CanMint, NEW w \in Workers, table' = Granted(w),
         NEW t \in Tasks, Fits(o, op[o], t)', Becomes(o, op[o], t),
         moved' \in {moved, moved \cup {<<o, table.next>>}},
         UNCHANGED <<store, catalog, linked, dead, open, inbox, acks, opened, revived, spent>>
  PROVE  IInv'
<1>1. /\ table' \in Tables /\ table'.lease \in Leases /\ table'.lease.token = table.next
      /\ table'.next = table.next + 1 /\ table.next \in Tokens /\ table.next \in Nat
  BY GrantedIs DEF IInv
<1>2. op \in [Operations -> OpRecords] /\ exec \in [Operations -> Tasks]
  BY DEF IInv, TypeOK
<1>3. op' = op /\ exec' \in [Operations -> Tasks]
  BY <1>2 DEF Becomes
<1>4. moved' \subseteq Operations \X Tokens
  BY <1>1 DEF IInv, TypeOK
<1>5. TypeOK'
  BY <1>1, <1>3, <1>4 DEF IInv, TypeOK
<1>6. Minting'
  <2>1. \A m \in moved' : m \in moved \/ m[2] < table'.next
    BY <1>1
  <2>2. QED
    BY <1>1, <2>1, MintingKeeps
<1>7. Truthful'
  BY DEF IInv, Truthful
<1>8. Known'
  BY <1>1, QueueTokens DEF IInv, Known
<1>9. ASSUME NEW p \in Operations PROVE Fits(p, op[p], exec[p])'
  <2>1. CASE p = o
    <3>1. op'[p] = op[o] /\ exec'[p] = t
      BY <1>2, <1>3, <2>1 DEF Becomes
    <3>2. QED
      BY <1>3, <2>1, <3>1 DEF Fits, Placed, Staged, Numbered, Backed, Gave, Uncommitted
  <2>2. CASE p # o
    <3>1. exec'[p] = exec[p] /\ op'[p] = op[p]
      BY <1>2, <1>3, <2>2 DEF Becomes
    <3>2. \A n \in Tokens : <<p, n>> \in moved' => <<p, n>> \in moved
      BY <2>2
    <3>3. op[p] \in OpRecords /\ exec[p] \in Tasks /\ Fits(p, op[p], exec[p])
      BY DEF IInv, TypeOK
    <3>4. table'.next \in Nat /\ table'.next >= table.next
      BY <1>1
    <3>5. PICK r \in OpRecords : r = op[p]
      BY <3>3
    <3>6. PICK u \in Tasks : u = exec[p]
      BY <3>3
    <3>7. Fits(p, r, u)
      BY <3>3, <3>5, <3>6
    <3>8. Fits(p, r, u)'
      BY <1>1, <1>4, <3>2, <3>4, <3>7, FreshFits
    <3>9. op'[p] = r /\ exec'[p] = u
      BY <3>1, <3>5, <3>6
    <3>10. QED
      BY <3>8, <3>9 DEF Fits, Placed, Staged, Numbered, Backed, Gave, Uncommitted
  <2>3. QED
    BY <2>1, <2>2
<1>10. QED
  BY <1>5, <1>6, <1>7, <1>8, <1>9 DEF IInv

\* The rest of the state, for a step that leaves the lease in force alone.
Elsewhere ==
    UNCHANGED <<table, catalog, linked, dead, open, acks, opened, moved, revived>>

\* A task is granted a lease: to transfer the shard, or to take it back.  It
\* does not send anything yet.
LEMMA GrantQuiet ==
  ASSUME IInv, Quiet, OneOperation, NEW o \in Operations, NEW t \in Tasks,
         Placed(op[o], t), t.at \in {"save", "restore"},
         exec[o].at \notin {"idle", "giveback", "dead"},
         t.at = "restore" => t.sent.token = table.next,
         Becomes(o, op[o], t), inbox' = inbox, UNCHANGED <<open, acks>>
  PROVE  Quiet'
<1>1. op[o] \in OpRecords /\ table.next \in Nat
  BY DEF IInv, TypeOK, Tables
<1>2. Follows(o, op[o], t)
  <2>1. SUFFICES ASSUME ~Doomed(op[o], t) PROVE ~Doomed(op[o], exec[o]) /\ Calm(op[o], t)
    BY DEF Follows
  <2>2. ~Doomed(op[o], exec[o])
    BY <2>1 DEF Doomed
  <2>3. Calm(op[o], exec[o])
    BY <2>2 DEF Quiet
  <2>4. Afresh(op[o], t) => Afresh(op[o], exec[o])
    BY DEF Afresh
  <2>5. NoDonorWith(table.next)
    BY <1>1 DEF IInv, Known, NoDonorWith, IsPrepare
  <2>6. QED
    BY <2>2, <2>3, <2>4, <2>5 DEF Calm, Cleared, Renewed, DonorShut
<1>3. QED
  BY <1>1, <1>2, FollowsKeeps

\* The lease is transferred to the target.
LEMMA TransferGrant ==
  ASSUME IInv, NEW o \in Operations, TransferIfOwner(o), StillOwner(exec[o].lease)
  PROVE  IInv' /\ (Quiet /\ OneOperation => Quiet')
<1>1. op[o] \in OpRecords /\ exec[o] \in Tasks /\ Fits(o, op[o], exec[o])
  BY DEF IInv, TypeOK
<1>2. exec[o].at = "transfer" /\ CanMint /\ table' = Granted(op[o].target)
  BY DEF TransferIfOwner, At
<1>3. op[o].status = "Running" /\ op[o].phase = "transfer" /\ op[o].target \in Workers
  BY <1>1, <1>2 DEF Fits, Placed
<1>4. PICK l : l = table'.lease
  OBVIOUS
<1>5. /\ l \in Leases /\ l.worker = op[o].target /\ l.token = table.next
      /\ table'.next = table.next + 1 /\ table.next \in Nat /\ table.next \in Tokens
  BY <1>2, <1>3, <1>4, GrantedIs DEF IInv
<1>20. [exec[o] EXCEPT !.at = "save", !.sent = l] \in Tasks
  BY <1>1, <1>5 DEF Tasks, Points
<1>21. PICK t \in Tasks : t = [exec[o] EXCEPT !.at = "save", !.sent = l]
  BY <1>20
<1>6. t.at = "save" /\ t.sent = l /\ t.lease = exec[o].lease
  BY <1>1, <1>21 DEF Tasks
<1>7. op' = op /\ inbox' = inbox /\ spent' = spent /\ moved' = moved \cup {<<o, table.next>>}
  BY DEF TransferIfOwner
<1>8. op = [op EXCEPT ![o] = op[o]]
  BY DEF IInv, TypeOK
<1>9. Becomes(o, op[o], t)
  BY <1>4, <1>7, <1>8, <1>21 DEF TransferIfOwner, Become, Becomes
<1>10. UNCHANGED <<store, catalog, linked, dead, open, acks, opened, revived>>
  BY DEF TransferIfOwner
<1>11. Placed(op[o], t) /\ Staged(op[o], t)
  BY <1>1, <1>2, <1>3, <1>5, <1>6 DEF Fits, Placed, Staged, HasDonor, HasSent,
     RecipientStage, Terminal, Moving
<1>12. Fits(o, op[o], t)'
  <2>1. op'[o] = op[o]
    BY <1>7
  <2>2. exec[o].lease \in Leases /\ exec[o].lease.token < table.next
    BY <1>1, <1>2 DEF Fits, Placed, Numbered, HasDonor
  <2>3. Numbered(t)'
    <3>1. exec[o].lease.token \in Nat
      BY <2>2, LeaseFacts
    <3>2. QED
      BY <1>5, <1>6, <2>2, <3>1 DEF Numbered
  <2>4. PICK r : r = op[o]
    OBVIOUS
  <2>5. Placed(r, t) /\ Staged(r, t) /\ r.status = "Running" /\ r.phase = "transfer"
    BY <1>3, <1>11, <2>4
  <2>6. Backed(o, r, t, table.lease)'
    BY <1>4, <1>6, <2>5 DEF Backed, Uncommitted, Cancellable, RecipientStage
  <2>7. Fits(o, r, t)'
    BY <2>3, <2>5, <2>6 DEF Fits, Placed, Staged
  <2>8. QED
    BY <2>1, <2>4, <2>7 DEF Fits, Placed, Staged, Numbered, Backed, Gave, Uncommitted
<1>13. IInv'
  BY <1>2, <1>3, <1>6, <1>7, <1>9, <1>10, <1>12, GrantKeeps
<1>14. Quiet /\ OneOperation => Quiet'
  <2>1. SUFFICES ASSUME Quiet, OneOperation PROVE Quiet'
    OBVIOUS
  <2>2. UNCHANGED <<open, acks>>
    BY <1>10
  <2>3. exec[o].at \notin {"idle", "giveback", "dead"}
    BY <1>2
  <2>4. QED
    BY <1>6, <1>7, <1>9, <1>11, <2>1, <2>2, <2>3, GrantQuiet
<1>15. QED
  BY <1>13, <1>14

\* The lease is given back to the donor.
LEMMA RollbackGrant ==
  ASSUME IInv, NEW o \in Operations, Rollback(o), StillOwner(exec[o].sent)
  PROVE  IInv' /\ (Quiet /\ OneOperation => Quiet')
<1>1. op[o] \in OpRecords /\ exec[o] \in Tasks /\ Fits(o, op[o], exec[o])
  BY DEF IInv, TypeOK
<1>2. /\ exec[o].at = "rollback" /\ exec[o].at # "idle" /\ CanMint
      /\ table' = Granted(exec[o].lease.worker)
  BY DEF Rollback, At
<1>3. exec[o].lease \in Leases /\ exec[o].lease.token < table.next
  BY <1>1, <1>2 DEF Fits, Placed, Numbered, HasDonor
<1>4. PICK l : l = table'.lease
  OBVIOUS
<1>5. exec[o].lease.worker \in Workers /\ exec[o].lease.token \in Nat
  BY <1>3, LeaseFacts
<1>6. /\ l \in Leases /\ l.token = table.next
      /\ table'.next = table.next + 1 /\ table.next \in Nat /\ table.next \in Tokens
  BY <1>2, <1>4, <1>5, GrantedIs DEF IInv
<1>20. [exec[o] EXCEPT !.at = "restore", !.sent = l] \in Tasks
  BY <1>1, <1>6 DEF Tasks, Points
<1>21. PICK t \in Tasks : t = [exec[o] EXCEPT !.at = "restore", !.sent = l]
  BY <1>20
<1>7. t.at = "restore" /\ t.sent = l /\ t.lease = exec[o].lease
  BY <1>1, <1>21 DEF Tasks
<1>8. op' = op /\ inbox' = inbox /\ spent' = spent
  BY DEF Rollback
<1>9. op = [op EXCEPT ![o] = op[o]] /\ op[o].status \in Terminal \cup {"Running"}
  BY <1>2, Claimed DEF IInv, TypeOK
<1>10. Becomes(o, op[o], t)
  BY <1>4, <1>8, <1>9, <1>21 DEF Rollback, Become, Becomes
<1>11. UNCHANGED <<store, catalog, linked, dead, open, acks, opened, moved, revived>>
  BY DEF Rollback, history
<1>12. PICK r \in OpRecords : r = op[o]
  BY <1>1
<1>13. Placed(r, t) /\ Staged(r, t)
  BY <1>1, <1>2, <1>6, <1>7, <1>9, <1>12 DEF Fits, Placed, Staged, HasDonor, HasSent,
     RecipientStage, Terminal
<1>14. Fits(o, r, IdleTask)
  BY <1>1, <1>12, IdleFits
<1>15. Fits(o, r, IdleTask)'
  <2>1. \A n \in Tokens : <<o, n>> \in moved' => <<o, n>> \in moved
    BY <1>11
  <2>2. moved' \subseteq Operations \X Tokens /\ opened \subseteq opened' /\ revived' = revived
    BY <1>11 DEF IInv, TypeOK
  <2>3. table'.next \in Nat /\ table'.next >= table.next /\ table'.lease.token = table.next
    BY <1>4, <1>6
  <2>4. QED
    BY <1>14, <2>1, <2>2, <2>3, IdleIsTask, FreshFits
<1>16. Fits(o, r, t)'
  <2>1. Numbered(t)'
    BY <1>3, <1>5, <1>6, <1>7 DEF Numbered
  <2>2. Backed(o, r, t, table.lease)'
    <3>1. Uncommitted(r, t)' => Uncommitted(r, IdleTask)'
      BY <1>7 DEF Uncommitted
    <3>2. QED
      BY <1>7, <1>15, <3>1 DEF Fits, Backed, RecipientStage
  <2>3. QED
    BY <1>13, <2>1, <2>2 DEF Fits, Placed, Staged
<1>17. Fits(o, op[o], t)'
  BY <1>8, <1>12, <1>16 DEF Fits, Placed, Staged, Numbered, Backed, Gave, Uncommitted
<1>18. IInv'
  BY <1>2, <1>5, <1>7, <1>8, <1>10, <1>11, <1>17, GrantKeeps
<1>19. Quiet /\ OneOperation => Quiet'
  <2>1. SUFFICES ASSUME Quiet, OneOperation PROVE Quiet'
    OBVIOUS
  <2>2. UNCHANGED <<open, acks>>
    BY <1>11
  <2>3. exec[o].at \notin {"idle", "giveback", "dead"} /\ Placed(op[o], t)
    BY <1>2, <1>12, <1>13
  <2>4. t.at = "restore" => t.sent.token = table.next
    BY <1>6, <1>7
  <2>5. QED
    BY <1>7, <1>8, <1>10, <2>1, <2>2, <2>3, <2>4, GrantQuiet
<1>22. QED
  BY <1>18, <1>19

-----------------------------------------------------------------------------
(* The other steps of an operation *)

\* A request is accepted.
LEMMA MigrateShardTurn ==
  ASSUME IInv, NEW o \in Operations, NEW w \in Workers, MigrateShard(o, w)
  PROVE  Turn(o) /\ Mailed /\ SpentOK /\ store' = store /\ Elsewhere
<1> DEFINE r == [status |-> "Pending", phase |-> "none", target |-> w, writes |-> 0]
<1>1. op[o] \in OpRecords /\ exec[o] \in Tasks /\ Fits(o, op[o], exec[o])
  BY DEF IInv, TypeOK
<1>2. op[o].status = "Absent" /\ table.lease # Nil
  BY DEF MigrateShard
<1>3. exec[o].at = "idle"
  BY <1>1, <1>2 DEF Fits, Placed
<1>4. /\ r \in OpRecords /\ r.status = "Pending" /\ r.phase = "none" /\ r.target = w
  BY WordsIs DEF OpRecords
<1>5. exec' = exec /\ inbox' = inbox /\ UNCHANGED spent /\ store' = store
  BY DEF MigrateShard, control, workers
<1>6. Elsewhere
  BY DEF MigrateShard, control, workers, history, Elsewhere
<1>7. exec = [exec EXCEPT ![o] = exec[o]]
  BY DEF IInv, TypeOK
<1>8. Becomes(o, r, exec[o])
  BY <1>5, <1>7 DEF MigrateShard, Becomes
<1> HIDE DEF r
<1>9. ~Gave(o, r, table.lease)
  <2>1. table.lease \in Leases
    BY <1>2 DEF IInv, TypeOK, Tables
  <2>2. <<o, table.lease.token>> \notin moved
    BY <1>1, <1>2, <2>1, LeaseFacts DEF Fits, Backed
  <2>3. QED
    BY <2>2 DEF Gave
<1>10. Placed(r, exec[o]) /\ Staged(r, exec[o]) /\ Numbered(exec[o])
  BY <1>1, <1>3, <1>4 DEF Fits, Placed, Staged, HasDonor, HasSent, RecipientStage, Terminal
<1>11. Backed(o, r, exec[o], table.lease)
  BY <1>3, <1>4, <1>9 DEF Backed, RecipientStage
<1>12. ASSUME Quiet PROVE ~Doomed(op[o], exec[o]) /\ Calm(r, exec[o])
  <2>1. ~Doomed(op[o], exec[o]) /\ Afresh(op[o], exec[o])
    BY <1>2 DEF Doomed, Terminal, Afresh
  <2>2. \A v \in Workers : NoDonorAt(v)
    BY <1>12, <2>1 DEF Quiet, Calm, Cleared
  <2>3. QED
    BY <1>3, <2>1, <2>2 DEF Calm, Cleared, Aimed, Renewed, DonorShut
<1>13. SpentOK
  BY <1>5, SpentStep DEF IInv
<1>14. QED
  BY <1>1, <1>4, <1>5, <1>6, <1>8, <1>10, <1>11, <1>12, <1>13
  DEF Turn, Follows, Mailed, Fits

\* An operation is cancelled.
LEMMA CancelTurn ==
  ASSUME IInv, NEW o \in Operations, CancelOperation(o)
  PROVE  Turn(o) /\ Mailed /\ SpentOK /\ store' = store /\ Elsewhere
<1> DEFINE r == Marked(o, "Cancelled", "cancelled")
<1>1. op[o] \in OpRecords /\ exec[o] \in Tasks /\ Fits(o, op[o], exec[o])
  BY DEF IInv, TypeOK
<1>2. \/ op[o].status = "Pending"
      \/ op[o].status \in {"Running", "Waiting"} /\ op[o].phase \in Cancellable
  BY DEF CancelOperation
<1>3. /\ r \in OpRecords /\ r.status = "Cancelled" /\ r.phase = "cancelled"
      /\ r.target = op[o].target
  BY <1>1, MarkedIs, WordsIs
<1>4. exec' = exec /\ inbox' = inbox /\ UNCHANGED spent /\ store' = store
  BY DEF CancelOperation, control, workers
<1>5. Elsewhere
  BY DEF CancelOperation, control, workers, history, Elsewhere
<1>6. exec = [exec EXCEPT ![o] = exec[o]]
  BY DEF IInv, TypeOK
<1>7. Becomes(o, r, exec[o])
  BY <1>4, <1>6 DEF CancelOperation, Record, Becomes, Marked
<1> HIDE DEF r
<1>8. ~Gave(o, r, table.lease)
  BY <1>1, <1>2, <1>3 DEF Fits, Backed, Uncommitted, Gave
<1>9. exec[o].at # "transfer"
  BY <1>1, <1>2 DEF Fits, Placed, Cancellable
<1>10. Placed(r, exec[o]) /\ Staged(r, exec[o]) /\ Numbered(exec[o])
  BY <1>1, <1>2, <1>3, <1>9 DEF Fits, Placed, Staged, Terminal
<1>11. Backed(o, r, exec[o], table.lease)
  BY <1>1, <1>3, <1>8 DEF Fits, Backed
<1>12. Doomed(r, exec[o])
  BY <1>3 DEF Doomed, Terminal
<1>13. SpentOK
  BY <1>4, SpentStep DEF IInv
<1>14. QED
  BY <1>1, <1>3, <1>4, <1>5, <1>7, <1>10, <1>11, <1>12, <1>13
  DEF Turn, Follows, Mailed, Fits

\* The step of a task that learns the result r of its wait.
LEMMA ResultTurn ==
  ASSUME IInv, NEW o \in Operations, Waiting(o), NEW s \in {"ok", "bad", "late"},
         op' = op, exec' = [exec EXCEPT ![o] = [@ EXCEPT !.result = s]], inbox' = inbox,
         exec[o].at # "donor" /\ s = "ok" =>
             <<exec[o].sent.worker, exec[o].sent.token>> \in opened,
         Quiet /\ ~Doomed(op[o], exec[o]) /\ exec[o].at = "donor" /\ s = "ok" =>
             Shut(exec[o].lease.worker, exec[o].lease.token)
  PROVE  Turn(o) /\ Mailed
<1> DEFINE t == [exec[o] EXCEPT !.result = s]
<1>1. op[o] \in OpRecords /\ exec[o] \in Tasks /\ Fits(o, op[o], exec[o])
  BY DEF IInv, TypeOK
<1>2. exec[o].at \in RecipientStage \cup {"donor"}
  BY DEF Waiting
<1>3. /\ t \in Tasks /\ t.at = exec[o].at /\ t.lease = exec[o].lease
      /\ t.sent = exec[o].sent /\ t.prev = exec[o].prev /\ t.result = s
  BY <1>1 DEF Tasks
<1>4. Becomes(o, op[o], t)
  <2>1. op = [op EXCEPT ![o] = op[o]]
    BY DEF IInv, TypeOK
  <2>2. QED
    BY <2>1 DEF Becomes
<1> HIDE DEF t
<1>5. Placed(op[o], t) /\ Staged(op[o], t) /\ Numbered(t)
  BY <1>1, <1>2, <1>3 DEF Fits, Placed, Staged, Numbered, RecipientStage
<1>6. Backed(o, op[o], t, table.lease)
  BY <1>1, <1>2, <1>3 DEF Fits, Backed, Uncommitted, RecipientStage
<1>7. Doomed(op[o], t) <=> Doomed(op[o], exec[o])
  BY <1>3 DEF Doomed
<1>8. ASSUME Quiet, ~Doomed(op[o], exec[o]) PROVE Calm(op[o], t)
  <2>1. Calm(op[o], exec[o])
    BY <1>8 DEF Quiet
  <2>2. Afresh(op[o], t) => Afresh(op[o], exec[o])
    BY <1>3 DEF Afresh
  <2>3. DonorShut(t)
    BY <1>2, <1>3, <1>8 DEF DonorShut, RecipientStage
  <2>4. QED
    BY <1>3, <2>1, <2>2, <2>3 DEF Calm, Cleared, Renewed
<1>9. QED
  BY <1>1, <1>3, <1>4, <1>5, <1>6, <1>7, <1>8 DEF Turn, Follows, Mailed, Fits

\* The wait of a task is over.
LEMMA TimesOutTurn ==
  ASSUME IInv, NEW o \in Operations, TimesOut(o)
  PROVE  Turn(o) /\ Mailed /\ SpentOK /\ store' = store /\ Elsewhere
<1>1. Waiting(o) /\ exec' = [exec EXCEPT ![o] = [@ EXCEPT !.result = "late"]]
  BY DEF TimesOut
<1>2. op' = op /\ inbox' = inbox /\ store' = store /\ Elsewhere
  BY DEF TimesOut, durable, workers, history, Elsewhere
<1>3. Fault \/ UNCHANGED spent
  BY DEF TimesOut
<1>4. SpentOK
  BY <1>3, SpentStep DEF IInv
<1>5. Turn(o) /\ Mailed
  BY <1>1, <1>2, ResultTurn
<1>6. QED
  BY <1>2, <1>4, <1>5

-----------------------------------------------------------------------------
(* Every step of the executor *)

\* What every step has to keep.
Kept == IInv' /\ (Quiet /\ OneOperation => Quiet')

\* A step of one operation keeps both invariants.
LEMMA TurnKept ==
  ASSUME IInv, NEW o \in Operations, Turn(o), Mailed, SpentOK,
         store' \in {store, table}, Elsewhere
  PROVE  Kept
<1>1. IInv'
  BY TurnKeeps DEF Elsewhere
<1>2. ASSUME Quiet, OneOperation PROVE Quiet'
  <2>1. PICK r \in OpRecords : \E t \in Tasks :
           Fits(o, r, t) /\ Becomes(o, r, t) /\ Follows(o, r, t)
    BY <1>2 DEF Turn
  <2>2. PICK t \in Tasks : Fits(o, r, t) /\ Becomes(o, r, t) /\ Follows(o, r, t)
    BY <2>1
  <2>3. Placed(r, t)
    BY <2>2 DEF Fits
  <2>4. UNCHANGED <<open, acks>>
    BY DEF Elsewhere
  <2>5. QED
    BY <1>2, <2>2, <2>3, <2>4, FollowsKeeps
<1>3. QED
  BY <1>1, <1>2 DEF Kept

\* The lease is no longer the donor's, or the target's, when the task gets to it.
LEMMA TooLate ==
  ASSUME IInv, NEW o \in Operations,
         \/ TransferIfOwner(o) /\ ~StillOwner(exec[o].lease)
         \/ Rollback(o) /\ ~StillOwner(exec[o].sent)
  PROVE  Turn(o) /\ Mailed /\ SpentOK /\ store' = store /\ Elsewhere
<1>1. CASE TransferIfOwner(o) /\ ~StillOwner(exec[o].lease)
  <2>1. exec[o].at # "idle" /\ Fail(o)
    BY <1>1 DEF TransferIfOwner, At
  <2>2. store' = store /\ Elsewhere
    BY <1>1 DEF TransferIfOwner, Elsewhere
  <2>3. QED
    BY <2>1, <2>2, FailTurn
<1>2. CASE Rollback(o) /\ ~StillOwner(exec[o].sent)
  <2>1. exec[o].at = "rollback" /\ AfterRollback(o)
    BY <1>2 DEF Rollback, At
  <2>2. store' = store /\ Elsewhere
    BY <1>2 DEF Rollback, Elsewhere, history
  <2>3. QED
    BY <2>1, <2>2, AfterRollbackTurn
<1>3. QED
  BY <1>1, <1>2

\* A migration is refused.
LEMMA RefuseTurn ==
  ASSUME IInv, NEW o \in Operations, RefuseBusy(o) \/ RefuseUnfit(o)
  PROVE  Turn(o) /\ Mailed /\ SpentOK
<1>1. exec[o].at # "idle" /\ Fail(o)
  BY DEF RefuseBusy, RefuseUnfit, At
<1>2. QED
  BY <1>1, FailTurn

\* The donor answered, or did not, that it opened what was given back to it.
LEMMA ReturnedTurn ==
  ASSUME IInv, NEW o \in Operations, Returned(o)
  PROVE  Turn(o) /\ Mailed /\ SpentOK
<1>1. exec[o].at = "returned" /\ AfterRollback(o)
  BY DEF Returned, At
<1>2. QED
  BY <1>1, AfterRollbackTurn

\* The steps of the executor, apart from the two that grant a lease, leave the
\* rest of the system alone.
LEMMA ExecuteElsewhere ==
  ASSUME NEW o \in Operations,
         \/ Start(o) \/ RefuseBusy(o) \/ Resume(o) \/ Reclaimed(o) \/ Reopened(o)
         \/ BeginValidation(o) \/ RefuseUnfit(o) \/ PrepareDonor(o)
         \/ DonorAnswered(o) \/ GivenBack(o) \/ Approve(o) \/ Announce(o)
         \/ RecipientAnswered(o) \/ Returned(o)
  PROVE  store' = store /\ Elsewhere
<1>1. CASE Start(o)
  BY <1>1 DEF Start, Elsewhere, workers, history
<1>2. CASE RefuseBusy(o) \/ RefuseUnfit(o) \/ Returned(o)
  BY <1>2 DEF RefuseBusy, RefuseUnfit, Returned, Elsewhere, history
<1>3. CASE Resume(o)
  BY <1>3 DEF Resume, Elsewhere, history
<1>4. CASE Reclaimed(o) \/ Reopened(o)
  BY <1>4 DEF Reclaimed, Reopened, Elsewhere, history
<1>5. CASE BeginValidation(o) \/ PrepareDonor(o)
  BY <1>5 DEF BeginValidation, PrepareDonor, Elsewhere, history
<1>6. CASE DonorAnswered(o) \/ GivenBack(o) \/ Approve(o)
  BY <1>6 DEF DonorAnswered, GivenBack, Approve, Elsewhere, durable, history
<1>7. CASE Announce(o) \/ RecipientAnswered(o)
  BY <1>7 DEF Announce, RecipientAnswered, Elsewhere, history
<1>8. QED
  BY <1>1, <1>2, <1>3, <1>4, <1>5, <1>6, <1>7

\* Every step of the executor keeps both invariants.
LEMMA ExecuteKeeps ==
  ASSUME IInv, NEW o \in Operations, Execute(o)
  PROVE  Kept
<1>1. CASE TransferIfOwner(o) \/ Rollback(o)
  BY <1>1, TransferGrant, RollbackGrant, TooLate, TurnKept DEF Kept
<1>2. CASE SaveTransfer(o)
  <2>1. Elsewhere
    BY <1>2 DEF SaveTransfer, Elsewhere, history
  <2>2. QED
    BY <1>2, <2>1, SaveTransferTurn, TurnKept
<1>3. CASE SaveRollback(o)
  <2>1. Elsewhere
    BY <1>3 DEF SaveRollback, Elsewhere, history
  <2>2. QED
    BY <1>3, <2>1, SaveRollbackTurn, TurnKept
<1>4. CASE \/ Start(o) \/ RefuseBusy(o) \/ Resume(o) \/ Reclaimed(o) \/ Reopened(o)
           \/ BeginValidation(o) \/ RefuseUnfit(o) \/ PrepareDonor(o)
           \/ DonorAnswered(o) \/ GivenBack(o) \/ Approve(o) \/ Announce(o)
           \/ RecipientAnswered(o) \/ Returned(o)
  <2>1. Turn(o) /\ Mailed /\ SpentOK
    BY <1>4, StartTurn, RefuseTurn, ResumeTurn, ReclaimedTurn, ReopenedTurn,
       BeginValidationTurn, PrepareDonorTurn, DonorAnsweredTurn, GivenBackTurn,
       ApproveTurn, AnnounceTurn, RecipientAnsweredTurn, ReturnedTurn
  <2>2. store' = store /\ Elsewhere
    BY <1>4, ExecuteElsewhere
  <2>3. QED
    BY <2>1, <2>2, TurnKept
<1>5. QED
  BY <1>1, <1>2, <1>3, <1>4 DEF Execute

-----------------------------------------------------------------------------
(* The lease in force changes without the executor *)

\* Every operation goes on fitting its record when the lease in force is the
\* same, a new one, or none.
LEMMA AllFit ==
  ASSUME IInv, UNCHANGED <<op, exec, moved, revived>>, opened \subseteq opened',
         \/ table' = table
         \/ /\ table'.lease = Nil \/ table'.lease.token = table.next
            /\ table'.next \in Nat /\ table'.next >= table.next
  PROVE  \A o \in Operations : Fits(o, op[o], exec[o])'
<1>1. SUFFICES ASSUME NEW o \in Operations PROVE Fits(o, op[o], exec[o])'
  OBVIOUS
<1>2. op[o] \in OpRecords /\ exec[o] \in Tasks /\ Fits(o, op[o], exec[o])
  BY DEF IInv, TypeOK
<1>3. CASE table' = table
  BY <1>2, <1>3 DEF Fits, Placed, Staged, Numbered, Backed, Gave, Uncommitted
<1>4. CASE /\ table'.lease = Nil \/ table'.lease.token = table.next
           /\ table'.next \in Nat /\ table'.next >= table.next
  <2>1. PICK r \in OpRecords : r = op[o]
    BY <1>2
  <2>2. PICK t \in Tasks : t = exec[o]
    BY <1>2
  <2>3. Fits(o, r, t)
    BY <1>2, <2>1, <2>2
  <2>4. \A n \in Tokens : <<o, n>> \in moved' => <<o, n>> \in moved
    OBVIOUS
  <2>5. moved' \subseteq Operations \X Tokens
    BY DEF IInv, TypeOK
  <2>6. Fits(o, r, t)'
    BY <1>4, <2>3, <2>4, <2>5, FreshFits
  <2>7. QED
    BY <2>1, <2>2, <2>6 DEF Fits, Placed, Staged, Numbered, Backed, Gave, Uncommitted
<1>5. QED
  BY <1>3, <1>4

\* A lease granted to a worker and announced to it.
LEMMA NewLeaseKept ==
  ASSUME IInv, CanMint, NEW w \in Workers, table' = Granted(w), store' = table',
         Deliver(w, [kind |-> "assigned", lease |-> table'.lease, op |-> Nil]),
         SpentOK, catalog' \subseteq Workers, dead' \subseteq Workers,
         UNCHANGED <<op, exec, linked, open, acks, opened, moved, revived>>
  PROVE  Kept
<1>1. /\ table' \in Tables /\ table'.lease \in Leases /\ table'.lease.token = table.next
      /\ table'.next = table.next + 1 /\ table.next \in Tokens /\ table.next \in Nat
  BY GrantedIs DEF IInv
<1>2. PICK l \in Leases : l = table'.lease
  BY <1>1
<1>3. l.token = table.next /\ Deliver(w, [kind |-> "assigned", lease |-> l, op |-> Nil])
  BY <1>1, <1>2
<1>4. /\ inbox' \in [Workers -> Seq(Messages)]
      /\ \A v \in Workers : \A i \in DOMAIN inbox'[v] :
            inbox'[v][i].lease.token < table'.next
  BY <1>1, <1>3, FreshMail
<1>5. TypeOK'
  BY <1>1, <1>4 DEF IInv, TypeOK, SpentOK
<1>6. Minting'
  BY <1>1, MintingKeeps
<1>7. Truthful'
  BY DEF IInv, Truthful
<1>8. Known'
  BY <1>1, <1>4, QueueTokens DEF IInv, Known
<1>9. \A o \in Operations : Fits(o, op[o], exec[o])'
  <2>1. table'.next \in Nat /\ table'.next >= table.next
    BY <1>1
  <2>2. QED
    BY <1>1, <2>1, AllFit
<1>10. IInv'
  BY <1>5, <1>6, <1>7, <1>8, <1>9 DEF IInv
<1>11. ASSUME Quiet, OneOperation PROVE Quiet'
  BY <1>3, <1>11, FreshQuiet
<1>12. QED
  BY <1>10, <1>11 DEF Kept

\* A step that leaves records, tasks, leases and messages alone.
LEMMA AsideKept ==
  ASSUME IInv, SpentOK, catalog' \subseteq Workers, dead' \subseteq Workers,
         linked' \subseteq Workers,
         UNCHANGED <<op, exec, table, store, open, inbox, acks, opened, moved, revived>>
  PROVE  Kept
<1>1. \A o \in Operations : Fits(o, op[o], exec[o])'
  BY AllFit
<1>2. TypeOK' /\ Minting' /\ Truthful' /\ Known'
  BY DEF IInv, TypeOK, SpentOK, Minting, Truthful, Known
<1>3. ASSUME Quiet PROVE Quiet'
  BY <1>3 DEF Quiet, InOrder, AnswersHold, Shut, Calm, Cleared, Aimed, Renewed,
     DonorShut, NoDonorAt, NoDonorWith
<1>4. QED
  BY <1>1, <1>2, <1>3 DEF Kept, IInv

\* A worker asks for the shard.
LEMMA RequestShardKeeps ==
  ASSUME IInv, NEW w \in Workers, RequestShard(w)
  PROVE  Kept
<1>1. SpentOK
  BY DEF RequestShard, SpentOK, IInv, TypeOK
<1>2. catalog' \subseteq Workers /\ dead' \subseteq Workers
  BY DEF RequestShard, IInv, TypeOK
<1>3. QED
  BY <1>1, <1>2, NewLeaseKept DEF RequestShard, history

\* A worker that was lost is deregistered and its lease goes to another one.
LEMMA OnWorkerDeadKeeps ==
  ASSUME IInv, NEW w \in Workers, OnWorkerDead(w)
  PROVE  Kept
<1>1. catalog' \subseteq Workers /\ dead' \subseteq Workers /\ linked' \subseteq Workers
  BY DEF OnWorkerDead, IInv, TypeOK
<1>2. SpentOK
  BY DEF OnWorkerDead, IInv, TypeOK, SpentOK
<1>3. UNCHANGED <<op, exec, linked, open, acks, opened, moved, revived>>
  BY DEF OnWorkerDead, history
<1>4. CASE UNCHANGED <<table, store, inbox>>
  BY <1>1, <1>2, <1>3, <1>4, AsideKept
<1>5. CASE table' = [table EXCEPT !.lease = Nil] /\ UNCHANGED <<store, inbox>>
  <2>1. table' \in Tables /\ table'.lease = Nil /\ table'.next = table.next
    BY <1>5 DEF IInv, TypeOK, Tables
  <2>2. table'.next \in Nat /\ table'.next >= table.next
    BY <2>1 DEF Tables
  <2>3. TypeOK'
    BY <1>1, <1>2, <1>3, <1>5, <2>1 DEF IInv, TypeOK, SpentOK
  <2>4. Minting'
    BY <1>3, <1>5, <2>1, <2>2, MintingKeeps
  <2>5. Truthful' /\ Known'
    BY <1>3, <1>5, <2>1 DEF IInv, Truthful, Known
  <2>6. \A o \in Operations : Fits(o, op[o], exec[o])'
    BY <1>3, <2>1, <2>2, AllFit
  <2>7. ASSUME Quiet PROVE Quiet'
    BY <1>3, <1>5, <2>7 DEF Quiet, InOrder, AnswersHold, Shut, Calm, Cleared, Aimed,
       Renewed, DonorShut, NoDonorAt, NoDonorWith
  <2>8. QED
    BY <2>3, <2>4, <2>5, <2>6, <2>7 DEF Kept, IInv
<1>6. CASE /\ CanMint
           /\ \E v \in catalog \ {w} :
                 /\ table' = Granted(v)
                 /\ store' = table'
                 /\ Deliver(v, [kind |-> "assigned", lease |-> table'.lease,
                                op |-> Nil])
  <2>1. PICK v \in Workers :
           /\ table' = Granted(v) /\ store' = table'
           /\ Deliver(v, [kind |-> "assigned", lease |-> table'.lease, op |-> Nil])
    BY <1>6 DEF IInv, TypeOK
  <2>2. QED
    BY <1>1, <1>2, <1>3, <1>6, <2>1, NewLeaseKept
<1>7. QED
  BY <1>4, <1>5, <1>6 DEF OnWorkerDead

\* A worker registers again.
LEMMA RegisterKeeps ==
  ASSUME IInv, NEW w \in Workers, Register(w)
  PROVE  Kept
<1>1. catalog' \subseteq Workers /\ dead' \subseteq Workers /\ linked' \subseteq Workers
  BY DEF Register, IInv, TypeOK
<1>2. SpentOK
  BY DEF Register, IInv, TypeOK, SpentOK
<1>3. QED
  BY <1>1, <1>2, AsideKept DEF Register, durable, history

-----------------------------------------------------------------------------
(* Acknowledgements arrive, connections are lost *)

\* No acknowledgement is on its way that was not before.
AcksTaken ==
    /\ acks' \in [Workers -> Seq(Answers)]
    /\ \A w \in Workers : \A i \in DOMAIN acks'[w] :
          \E j \in DOMAIN acks[w] : acks'[w][i] = acks[w][j]

\* A step of one operation that takes an acknowledgement.
LEMMA AckKept ==
  ASSUME IInv, NEW o \in Operations, Turn(o), AcksTaken, inbox' = inbox,
         UNCHANGED <<store, table, catalog, linked, dead, open, opened, moved,
                     revived, spent>>
  PROVE  Kept
<1>1. PICK r \in OpRecords : \E t \in Tasks :
         Fits(o, r, t) /\ Becomes(o, r, t) /\ (Quiet => Follows(o, r, t))
  BY DEF Turn
<1>2. PICK t \in Tasks :
         Fits(o, r, t) /\ Becomes(o, r, t) /\ (Quiet => Follows(o, r, t))
  BY <1>1
<1>3. op \in [Operations -> OpRecords] /\ exec \in [Operations -> Tasks]
  BY DEF IInv, TypeOK
<1>4. op' \in [Operations -> OpRecords] /\ exec' \in [Operations -> Tasks]
  BY <1>2, <1>3 DEF Becomes
<1>5. op'[o] = r /\ exec'[o] = t
  BY <1>2, <1>3 DEF Becomes
<1>6. TypeOK'
  BY <1>4 DEF IInv, TypeOK, AcksTaken
<1>7. Minting' /\ Truthful' /\ Known'
  <2>1. Minting'
    BY DEF IInv, Minting
  <2>2. ASSUME NEW w \in Workers, NEW i \in DOMAIN acks'[w],
               acks'[w][i].stage = "recipient", acks'[w][i].answer = "ok"
        PROVE  <<w, acks'[w][i].token>> \in opened'
    <3>1. PICK j \in DOMAIN acks[w] : acks'[w][i] = acks[w][j]
      BY DEF AcksTaken
    <3>2. QED
      BY <2>2, <3>1 DEF IInv, Truthful
  <2>3. Known'
    BY DEF IInv, Known, AcksTaken
  <2>4. QED
    BY <2>1, <2>2, <2>3 DEF Truthful
<1>8. ASSUME NEW p \in Operations PROVE Fits(p, op[p], exec[p])'
  <2>1. CASE p = o
    BY <1>2, <1>5, <2>1 DEF Fits, Placed, Staged, Numbered, Backed, Gave, Uncommitted
  <2>2. CASE p # o
    <3>1. op'[p] = op[p] /\ exec'[p] = exec[p] /\ Fits(p, op[p], exec[p])
      BY <1>2, <1>3, <2>2 DEF Becomes, IInv
    <3>2. QED
      BY <3>1 DEF Fits, Placed, Staged, Numbered, Backed, Gave, Uncommitted
  <2>3. QED
    BY <2>1, <2>2
<1>9. IInv'
  BY <1>6, <1>7, <1>8 DEF IInv
<1>10. ASSUME Quiet, OneOperation PROVE Quiet'
  <2>1. SUFFICES ASSUME ~Doomed(r, t) PROVE InOrder' /\ AnswersHold' /\ Calm(r, t)'
    <3>1. ASSUME NEW p \in Operations, ~Doomed(op[p], exec[p])'
          PROVE  InOrder' /\ AnswersHold' /\ Calm(op[p], exec[p])'
      <4>1. p = o
        BY <1>10 DEF OneOperation
      <4>2. ~Doomed(r, t)
        BY <3>1, <4>1, <1>5 DEF Doomed
      <4>3. InOrder' /\ AnswersHold' /\ Calm(r, t)'
        BY <2>1, <4>2
      <4>4. QED
        BY <1>5, <4>1, <4>3 DEF Calm, Cleared, Aimed, Renewed, DonorShut, Afresh,
           NoDonorAt, NoDonorWith, Shut
    <3>2. QED
      BY <3>1 DEF Quiet
  <2>2. InOrder /\ AnswersHold /\ Calm(r, t)
    BY <1>2, <1>10, <2>1 DEF Follows, Quiet
  <2>3. InOrder'
    BY <2>2 DEF InOrder
  <2>4. AnswersHold'
    BY <2>2 DEF AnswersHold, AcksTaken, Shut
  <2>5. Cleared(r, t)' /\ Aimed(r)'
    <3>1. ASSUME NEW v \in Workers, NoDonorAt(v) PROVE NoDonorAt(v)'
      BY <3>1 DEF NoDonorAt, AcksTaken
    <3>2. QED
      BY <2>2, <3>1 DEF Calm, Cleared, Aimed
  <2>6. Renewed(t)'
    BY <2>2 DEF Calm, Renewed, NoDonorWith, AcksTaken
  <2>7. DonorShut(t)'
    BY <2>2 DEF Calm, DonorShut, Shut
  <2>8. QED
    BY <2>3, <2>4, <2>5, <2>6, <2>7 DEF Calm
<1>11. QED
  BY <1>9, <1>10 DEF Kept

\* An acknowledgement that a task takes for "ok" is of the worker and the lease
\* it waits for.
LEMMA ResultIs ==
  ASSUME NEW l, NEW w, NEW a \in Answers, NEW s \in Results(l, w, a)
  PROVE  /\ s \in {"ok", "bad", "late"}
         /\ s = "ok" => w = l.worker /\ a.token = l.token /\ a.answer = "ok"
<1>1. a.answer \in {"ok", "refused", "failed"}
  BY DEF Answers
<1>2. CASE ~RightAck(l, w, a.token)
  BY <1>1, <1>2 DEF Results
<1>3. CASE RightAck(l, w, a.token)
  BY <1>1, <1>3 DEF Results, RightAck
<1>4. QED
  BY <1>2, <1>3

\* The control takes an acknowledgement in.
LEMMA ShardTransferAckKeeps ==
  ASSUME IInv, NEW w \in Workers, ShardTransferAck(w)
  PROVE  Kept
<1>1. acks \in [Workers -> Seq(Answers)] /\ acks[w] \in Seq(Answers) /\ acks[w] # <<>>
  BY DEF IInv, TypeOK, ShardTransferAck
<1>2. PICK a \in Answers : a = Head(acks[w]) /\ 1 \in DOMAIN acks[w] /\ a = acks[w][1]
  BY <1>1, Taken1
<1>3. AcksTaken
  <2>1. acks' = [acks EXCEPT ![w] = Tail(@)]
    BY DEF ShardTransferAck
  <2>2. Tail(acks[w]) \in Seq(Answers)
    BY <1>1, Taken1
  <2>3. \A i \in DOMAIN Tail(acks[w]) :
           \E j \in DOMAIN acks[w] : Tail(acks[w])[i] = acks[w][j]
    BY <1>1, Taken1
  <2>4. acks' \in [Workers -> Seq(Answers)]
    BY <1>1, <2>1, <2>2
  <2>5. acks'[w] = Tail(acks[w]) /\ \A v \in Workers : v # w => acks'[v] = acks[v]
    BY <1>1, <2>1
  <2>6. ASSUME NEW v \in Workers, NEW i \in DOMAIN acks'[v]
        PROVE  \E j \in DOMAIN acks[v] : acks'[v][i] = acks[v][j]
    <3>1. CASE v = w
      BY <2>3, <2>5, <2>6, <3>1
    <3>2. CASE v # w
      BY <2>5, <2>6, <3>2
    <3>3. QED
      BY <3>1, <3>2
  <2>7. QED
    BY <2>4, <2>6 DEF AcksTaken
<1>4. a.op \in Operations /\ a.stage \in {"donor", "recipient"}
  BY DEF Answers
<1>5. /\ op' = op /\ inbox' = inbox
      /\ UNCHANGED <<store, table, catalog, linked, dead, open, opened, moved,
                     revived, spent>>
  BY DEF ShardTransferAck, durable, history
<1>6. CASE exec' = exec
  <2>1. Turn(a.op)
    BY <1>4, <1>5, <1>6, StayTurn
  <2>2. QED
    BY <1>3, <1>4, <1>5, <2>1, AckKept
<1>7. ASSUME Waiting(a.op), (a.stage = "donor") = (exec[a.op].at = "donor"),
             NEW s \in Results(exec[a.op].sent, w, a),
             Become(a.op, [exec[a.op] EXCEPT !.result = s])
      PROVE  Kept
  <2>1. /\ s \in {"ok", "bad", "late"}
        /\ s = "ok" => /\ w = exec[a.op].sent.worker /\ a.token = exec[a.op].sent.token
                       /\ a.answer = "ok"
    BY <1>7, ResultIs
  <2>2. exec' = [exec EXCEPT ![a.op] = [@ EXCEPT !.result = s]]
    BY <1>4, <1>7 DEF Become
  <2>3. exec[a.op].at # "donor" /\ s = "ok" =>
           <<exec[a.op].sent.worker, exec[a.op].sent.token>> \in opened
    <3>1. ASSUME exec[a.op].at # "donor", s = "ok"
          PROVE  a.stage = "recipient" /\ a.answer = "ok"
      BY <1>4, <1>7, <2>1, <3>1
    <3>2. QED
      BY <1>2, <2>1, <3>1 DEF IInv, Truthful
  <2>4. Quiet /\ ~Doomed(op[a.op], exec[a.op]) /\ exec[a.op].at = "donor" /\ s = "ok" =>
           Shut(exec[a.op].lease.worker, exec[a.op].lease.token)
    <3>1. SUFFICES ASSUME Quiet, ~Doomed(op[a.op], exec[a.op]),
                          exec[a.op].at = "donor", s = "ok"
                   PROVE  Shut(exec[a.op].lease.worker, exec[a.op].lease.token)
      OBVIOUS
    <3>2. AnswersHold
      BY <1>4, <3>1 DEF Quiet
    <3>3. Shut(w, a.token)
      BY <1>2, <1>7, <2>1, <3>1, <3>2 DEF AnswersHold
    <3>4. exec[a.op].sent = exec[a.op].lease
      BY <1>4, <3>1 DEF IInv, Fits, Staged
    <3>5. QED
      BY <2>1, <3>1, <3>3, <3>4
  <2>5. Turn(a.op)
    BY <1>4, <1>5, <1>7, <2>1, <2>2, <2>3, <2>4, ResultTurn
  <2>6. QED
    BY <1>3, <1>4, <1>5, <2>5, AckKept
<1>8. QED
  BY <1>2, <1>6, <1>7 DEF ShardTransferAck

\* A connection is lost.
LEMMA ConnectionLostKeeps ==
  ASSUME IInv, NEW w \in Workers, ConnectionLost(w)
  PROVE  Kept
<1>1. /\ inbox \in [Workers -> Seq(Messages)] /\ acks \in [Workers -> Seq(Answers)]
      /\ open \in [Workers -> Nat]
  BY DEF IInv, TypeOK
<1>2. UNCHANGED <<op, exec, table, store, catalog, opened, moved, revived>>
  BY DEF ConnectionLost, durable, control, history
<1>3. /\ inbox' \in [Workers -> Seq(Messages)] /\ acks' \in [Workers -> Seq(Answers)]
      /\ open' \in [Workers -> Nat]
  BY <1>1, Emptied DEF ConnectionLost
<1>4. \A v \in Workers :
         /\ inbox'[v] = inbox[v] \/ inbox'[v] = <<>>
         /\ acks'[v] = acks[v] \/ acks'[v] = <<>>
         /\ open'[v] = open[v] \/ open'[v] = 0
  BY <1>1 DEF ConnectionLost
<1>5. \A v \in Workers :
         /\ \A i \in DOMAIN inbox'[v] : i \in DOMAIN inbox[v] /\ inbox'[v][i] = inbox[v][i]
         /\ \A i \in DOMAIN acks'[v] : i \in DOMAIN acks[v] /\ acks'[v][i] = acks[v][i]
  BY <1>4, Emptied
<1>6. TypeOK'
  <2>1. SpentOK
    BY SpentStep DEF ConnectionLost, IInv
  <2>2. linked' \subseteq Workers /\ dead' \subseteq Workers
    BY DEF ConnectionLost, IInv, TypeOK
  <2>3. QED
    BY <1>2, <1>3, <2>1, <2>2 DEF IInv, TypeOK, SpentOK
<1>7. Minting' /\ Truthful' /\ Known'
  BY <1>2, <1>5 DEF IInv, Minting, Truthful, Known
<1>8. \A o \in Operations : Fits(o, op[o], exec[o])'
  BY <1>2, AllFit
<1>9. ASSUME Quiet PROVE Quiet'
  <2>1. SUFFICES ASSUME NEW o \in Operations, ~Doomed(op[o], exec[o])
                 PROVE  InOrder' /\ AnswersHold' /\ Calm(op[o], exec[o])'
    BY <1>2 DEF Quiet, Doomed
  <2>2. InOrder /\ AnswersHold /\ Calm(op[o], exec[o])
    BY <1>9, <2>1 DEF Quiet
  <2>3. ASSUME NEW v \in Workers, NEW n \in Tokens, Shut(v, n) PROVE Shut(v, n)'
    <3>1. n # 0
      BY DEF Tokens
    <3>2. QED
      BY <1>4, <1>5, <2>3, <3>1 DEF Shut
  <2>4. InOrder'
    BY <1>5, <2>2 DEF InOrder
  <2>5. AnswersHold'
    <3>1. \A v \in Workers : \A i \in DOMAIN acks[v] : acks[v][i].token \in Tokens
      BY QueueTokens DEF IInv, Answers
    <3>2. QED
      BY <1>5, <2>2, <2>3, <3>1 DEF AnswersHold
  <2>6. ASSUME NEW v \in Workers, NoDonorAt(v) PROVE NoDonorAt(v)'
    BY <1>5, <2>6 DEF NoDonorAt
  <2>7. Cleared(op[o], exec[o])' /\ Aimed(op[o])'
    BY <1>2, <2>2, <2>6 DEF Calm, Cleared, Aimed, Afresh
  <2>8. Renewed(exec[o])'
    BY <1>2, <1>5, <2>2 DEF Calm, Renewed, NoDonorWith
  <2>9. DonorShut(exec[o])'
    <3>1. exec[o].at \in HasDonor => exec[o].lease \in Leases
      BY DEF IInv, Fits, Placed
    <3>2. exec[o].at \in {"donor", "closed", "transfer"} =>
             exec[o].lease.worker \in Workers /\ exec[o].lease.token \in Tokens
      BY <3>1, LeaseFacts DEF HasDonor
    <3>3. QED
      BY <1>2, <2>2, <2>3, <3>2 DEF Calm, DonorShut
  <2>10. QED
    BY <2>4, <2>5, <2>7, <2>8, <2>9 DEF Calm
<1>10. QED
  BY <1>6, <1>7, <1>8, <1>9 DEF Kept, IInv

-----------------------------------------------------------------------------
(* The workers *)

\* Worker w takes the message m in and acknowledges it with the answer a.
Handled(w, m, a) ==
    /\ inbox[w] # <<>> /\ m = Head(inbox[w])
    /\ inbox' = [inbox EXCEPT ![w] = Tail(@)]
    /\ Ack(w, m, a)
    /\ UNCHANGED <<op, exec, table, store, catalog, linked, dead, moved, revived>>

Answer(m, a) ==
    [op |-> m.op, stage |-> IF m.kind = "prepare" THEN "donor" ELSE "recipient",
     token |-> m.lease.token, answer |-> a]

\* What is on its way once worker w has handled a message.
LEMMA HandledIs ==
  ASSUME TypeOK, NEW w \in Workers, NEW m \in Messages,
         NEW a \in {"ok", "refused", "failed"}, Handled(w, m, a)
  PROVE  /\ inbox' \in [Workers -> Seq(Messages)]
         /\ acks' \in [Workers -> Seq(Answers)]
         /\ 1 \in DOMAIN inbox[w] /\ m = inbox[w][1]
         /\ \A v \in Workers : \A i \in DOMAIN inbox'[v] :
               \/ v # w /\ i \in DOMAIN inbox[v] /\ inbox'[v][i] = inbox[v][i]
               \/ /\ v = w /\ i \in Nat /\ 1 < i + 1 /\ i + 1 \in DOMAIN inbox[v]
                  /\ inbox'[v][i] = inbox[v][i + 1]
         /\ \A v \in Workers : \A i \in DOMAIN acks'[v] :
               \/ i \in DOMAIN acks[v] /\ acks'[v][i] = acks[v][i]
               \/ v = w /\ acks'[v][i] = Answer(m, a)
<1>1. /\ inbox \in [Workers -> Seq(Messages)] /\ inbox[w] \in Seq(Messages)
      /\ acks \in [Workers -> Seq(Answers)] /\ acks[w] \in Seq(Answers)
      /\ inbox[w] # <<>>
  BY DEF TypeOK, Handled
<1>2. /\ Tail(inbox[w]) \in Seq(Messages) /\ 1 \in DOMAIN inbox[w] /\ m = inbox[w][1]
      /\ \A i \in DOMAIN Tail(inbox[w]) :
            /\ i \in Nat /\ 1 < i + 1 /\ i + 1 \in DOMAIN inbox[w]
            /\ Tail(inbox[w])[i] = inbox[w][i + 1]
  BY <1>1, Taken1 DEF Handled
<1>3. /\ inbox' \in [Workers -> Seq(Messages)] /\ inbox'[w] = Tail(inbox[w])
      /\ \A v \in Workers : v # w => inbox'[v] = inbox[v]
  BY <1>1, <1>2 DEF Handled
<1>4. ASSUME NEW v \in Workers, NEW i \in DOMAIN inbox'[v]
      PROVE  \/ v # w /\ i \in DOMAIN inbox[v] /\ inbox'[v][i] = inbox[v][i]
             \/ /\ v = w /\ i \in Nat /\ 1 < i + 1 /\ i + 1 \in DOMAIN inbox[v]
                /\ inbox'[v][i] = inbox[v][i + 1]
  BY <1>2, <1>3
<1>5. CASE m.op = Nil
  <2>1. acks' = acks
    BY <1>5 DEF Handled, Ack
  <2>2. QED
    BY <1>1, <1>2, <1>3, <1>4, <2>1
<1>6. CASE m.op # Nil
  <2>1. Answer(m, a) \in Answers
    BY <1>6, LeaseFacts DEF Messages, Answers, Answer
  <2>2. acks' = [acks EXCEPT ![w] = Append(@, Answer(m, a))]
    BY <1>6 DEF Handled, Ack, Answer
  <2> HIDE DEF Answer
  <2>3. Append(acks[w], Answer(m, a)) \in Seq(Answers)
    BY <1>1, <2>1, Appended
  <2>4. \A i \in DOMAIN Append(acks[w], Answer(m, a)) :
           \/ i \in DOMAIN acks[w] /\ Append(acks[w], Answer(m, a))[i] = acks[w][i]
           \/ Append(acks[w], Answer(m, a))[i] = Answer(m, a)
    BY <1>1, <2>1, Appended
  <2>5. /\ acks' \in [Workers -> Seq(Answers)]
        /\ acks'[w] = Append(acks[w], Answer(m, a))
        /\ \A v \in Workers : v # w => acks'[v] = acks[v]
    BY <1>1, <2>2, <2>3
  <2>6. ASSUME NEW v \in Workers, NEW i \in DOMAIN acks'[v]
        PROVE  \/ i \in DOMAIN acks[v] /\ acks'[v][i] = acks[v][i]
               \/ v = w /\ acks'[v][i] = Answer(m, a)
    <3>1. CASE v = w
      BY <2>4, <2>5, <2>6, <3>1
    <3>2. CASE v # w
      BY <2>5, <2>6, <3>2
    <3>3. QED
      BY <3>1, <3>2
  <2>7. QED
    BY <1>2, <1>3, <1>4, <2>5, <2>6
<1>7. QED
  BY <1>5, <1>6

\* A handled message keeps the first invariant.
LEMMA HandledKeeps ==
  ASSUME IInv, NEW w \in Workers, NEW m \in Messages,
         NEW a \in {"ok", "refused", "failed"}, Handled(w, m, a),
         m.kind = "assigned" /\ a = "ok" => <<w, m.lease.token>> \in opened',
         opened \subseteq opened', opened' \subseteq Workers \X Tokens,
         open' \in [Workers -> Nat], SpentOK
  PROVE  IInv'
<1>1. TypeOK
  BY DEF IInv
<1>2. UNCHANGED <<op, exec, table, store, catalog, linked, dead, moved, revived>>
  BY DEF Handled
<1>3. /\ inbox' \in [Workers -> Seq(Messages)]
      /\ acks' \in [Workers -> Seq(Answers)]
      /\ 1 \in DOMAIN inbox[w] /\ m = inbox[w][1]
      /\ \A v \in Workers : \A i \in DOMAIN inbox'[v] :
            \E k \in DOMAIN inbox[v] : inbox'[v][i] = inbox[v][k]
      /\ \A v \in Workers : \A i \in DOMAIN acks'[v] :
            \/ i \in DOMAIN acks[v] /\ acks'[v][i] = acks[v][i]
            \/ v = w /\ acks'[v][i] = Answer(m, a)
  <2>1. /\ inbox' \in [Workers -> Seq(Messages)]
        /\ acks' \in [Workers -> Seq(Answers)]
        /\ 1 \in DOMAIN inbox[w] /\ m = inbox[w][1]
    BY <1>1, HandledIs
  <2>2. ASSUME NEW v \in Workers, NEW i \in DOMAIN inbox'[v]
        PROVE  \E k \in DOMAIN inbox[v] : inbox'[v][i] = inbox[v][k]
    <3>1. \/ i \in DOMAIN inbox[v] /\ inbox'[v][i] = inbox[v][i]
          \/ i + 1 \in DOMAIN inbox[v] /\ inbox'[v][i] = inbox[v][i + 1]
      BY <1>1, <2>2, HandledIs
    <3>2. QED
      BY <3>1
  <2>3. \A v \in Workers : \A i \in DOMAIN acks'[v] :
           \/ i \in DOMAIN acks[v] /\ acks'[v][i] = acks[v][i]
           \/ v = w /\ acks'[v][i] = Answer(m, a)
    BY <1>1, HandledIs
  <2>4. QED
    BY <2>1, <2>2, <2>3
<1>4. TypeOK'
  BY <1>2, <1>3 DEF IInv, TypeOK, SpentOK
<1>5. /\ Answer(m, a).token = m.lease.token /\ Answer(m, a).answer = a
      /\ Answer(m, a).stage = "recipient" => m.kind = "assigned"
  BY DEF Answer, Messages
<1>6. Minting'
  BY <1>2 DEF IInv, Minting
<1>7. ASSUME NEW v \in Workers, NEW i \in DOMAIN acks'[v],
             acks'[v][i].stage = "recipient", acks'[v][i].answer = "ok"
      PROVE  <<v, acks'[v][i].token>> \in opened'
  <2>1. CASE i \in DOMAIN acks[v] /\ acks'[v][i] = acks[v][i]
    BY <1>7, <2>1 DEF IInv, Truthful
  <2>2. CASE v = w /\ acks'[v][i] = Answer(m, a)
    BY <1>5, <1>7, <2>2
  <2>3. QED
    BY <1>3, <2>1, <2>2
<1>8. ASSUME NEW v \in Workers, NEW i \in DOMAIN acks'[v]
      PROVE  acks'[v][i].token < table'.next
  <2>1. m.lease.token < table.next
    BY <1>3 DEF IInv, Known
  <2>2. CASE i \in DOMAIN acks[v] /\ acks'[v][i] = acks[v][i]
    BY <1>2, <2>2 DEF IInv, Known
  <2>3. CASE v = w /\ acks'[v][i] = Answer(m, a)
    BY <1>2, <1>5, <2>1, <2>3
  <2>4. QED
    BY <1>3, <2>2, <2>3
<1>9. ASSUME NEW v \in Workers, NEW i \in DOMAIN inbox'[v]
      PROVE  inbox'[v][i].lease.token < table'.next
  BY <1>2, <1>3 DEF IInv, Known
<1>10. \A o \in Operations : Fits(o, op[o], exec[o])'
  BY <1>2, AllFit
<1>11. QED
  BY <1>4, <1>6, <1>7, <1>8, <1>9, <1>10 DEF IInv, Truthful, Known

\* A handled message leaves what is on its way in order: a worker opens the shard
\* only as it was asked to, and answers that it closed it when it has.
LEMMA HandledQuiet ==
  ASSUME IInv, Quiet, NEW w \in Workers, NEW m \in Messages,
         NEW a \in {"ok", "refused", "failed"}, Handled(w, m, a),
         \A v \in Workers : v # w => open'[v] = open[v],
         \/ open'[w] \in {open[w], 0}
         \/ m.kind = "assigned" /\ open'[w] = m.lease.token,
         m.kind = "prepare" /\ a = "ok" => open'[w] = 0
  PROVE  Quiet'
<1>1. TypeOK
  BY DEF IInv
<1>2. op' = op /\ exec' = exec
  BY DEF Handled
<1>3. SUFFICES ASSUME NEW o \in Operations, ~Doomed(op[o], exec[o])
               PROVE  InOrder' /\ AnswersHold' /\ Calm(op[o], exec[o])'
  BY <1>2 DEF Quiet, Doomed
<1>4. InOrder /\ AnswersHold /\ Calm(op[o], exec[o])
  BY <1>3 DEF Quiet
<1>5. /\ 1 \in DOMAIN inbox[w] /\ m = inbox[w][1]
      /\ \A v \in Workers : \A i \in DOMAIN inbox'[v] :
            \/ v # w /\ i \in DOMAIN inbox[v] /\ inbox'[v][i] = inbox[v][i]
            \/ /\ v = w /\ i \in Nat /\ 1 < i + 1 /\ i + 1 \in DOMAIN inbox[v]
               /\ inbox'[v][i] = inbox[v][i + 1]
      /\ \A v \in Workers : \A i \in DOMAIN acks'[v] :
            \/ i \in DOMAIN acks[v] /\ acks'[v][i] = acks[v][i]
            \/ v = w /\ acks'[v][i] = Answer(m, a)
  BY <1>1, HandledIs
<1>6. \A v \in Workers : \A i \in DOMAIN inbox'[v] :
         \E k \in DOMAIN inbox[v] : inbox'[v][i] = inbox[v][k]
  BY <1>5
<1>7. /\ Answer(m, a).token = m.lease.token /\ Answer(m, a).answer = a
      /\ Answer(m, a).stage = "donor" => m.kind = "prepare"
      /\ m.lease.token \in Tokens
  BY LeaseFacts DEF Answer, Messages
<1>8. InOrder'
  <2>1. ASSUME NEW v \in Workers, NEW i \in DOMAIN inbox'[v],
               NEW j \in DOMAIN inbox'[v], NEW n \in Tokens, i < j,
               IsPrepare(inbox'[v][i], n), IsAssigned(inbox'[v][j], n)
        PROVE  FALSE
    <3>1. CASE v # w
      BY <1>4, <1>5, <2>1, <3>1 DEF InOrder
    <3>2. CASE v = w
      <4>1. /\ i \in Nat /\ i + 1 \in DOMAIN inbox[w] /\ inbox'[w][i] = inbox[w][i + 1]
            /\ j \in Nat /\ j + 1 \in DOMAIN inbox[w] /\ inbox'[w][j] = inbox[w][j + 1]
        BY <1>5, <3>2
      <4>2. i + 1 < j + 1
        BY <2>1, <4>1
      <4>3. QED
        BY <1>4, <2>1, <3>2, <4>1, <4>2 DEF InOrder
    <3>3. QED
      BY <3>1, <3>2
  <2>2. QED
    BY <2>1 DEF InOrder, IsPrepare, IsAssigned
<1>9. ASSUME NEW v \in Workers, NEW n \in Tokens, Shut(v, n) PROVE Shut(v, n)'
  <2>1. n # 0
    BY DEF Tokens
  <2>2. \A i \in DOMAIN inbox'[v] : ~IsAssigned(inbox'[v][i], n)
    BY <1>6, <1>9 DEF Shut
  <2>3. v = w => ~IsAssigned(m, n)
    BY <1>5, <1>9 DEF Shut
  <2>4. open'[v] # n
    BY <1>9, <2>1, <2>3 DEF Shut, IsAssigned
  <2>5. QED
    BY <2>2, <2>4 DEF Shut, IsAssigned
<1>10. AnswersHold'
  <2>1. ASSUME NEW v \in Workers, NEW i \in DOMAIN acks'[v],
               acks'[v][i].stage = "donor", acks'[v][i].answer = "ok"
        PROVE  /\ open'[v] # acks'[v][i].token
               /\ \A k \in DOMAIN inbox'[v] : ~IsAssigned(inbox'[v][k], acks'[v][i].token)
    <3>1. CASE i \in DOMAIN acks[v] /\ acks'[v][i] = acks[v][i]
      <4>1. PICK n \in Tokens : n = acks[v][i].token
        BY <1>1, <3>1, QueueTokens DEF Answers
      <4>2. Shut(v, n)
        BY <1>4, <2>1, <3>1, <4>1 DEF AnswersHold
      <4>3. Shut(v, n)'
        BY <1>9, <4>2
      <4>4. QED
        BY <3>1, <4>1, <4>3 DEF Shut, IsAssigned
    <3>2. CASE v = w /\ acks'[v][i] = Answer(m, a)
      <4>1. PICK n \in Tokens : n = m.lease.token
        BY <1>7
      <4>2. m.kind = "prepare" /\ open'[w] = 0 /\ acks'[v][i].token = n
        BY <1>7, <2>1, <3>2, <4>1
      <4>3. n # 0
        BY DEF Tokens
      <4>4. IsPrepare(inbox[w][1], n)
        BY <1>5, <4>1, <4>2 DEF IsPrepare
      <4>5. ASSUME NEW k \in DOMAIN inbox'[w] PROVE ~IsAssigned(inbox'[w][k], n)
        BY <1>4, <1>5, <4>4, <4>5 DEF InOrder
      <4>6. Shut(w, n)'
        BY <4>2, <4>3, <4>5 DEF Shut, IsAssigned
      <4>7. QED
        BY <3>2, <4>2, <4>6 DEF Shut, IsAssigned
    <3>3. QED
      BY <1>5, <3>1, <3>2
  <2>2. QED
    BY <2>1 DEF AnswersHold, Shut, IsAssigned
<1>11. ASSUME NEW v \in Workers, NoDonorAt(v) PROVE NoDonorAt(v)'
  <2>1. \A i \in DOMAIN inbox'[v] : inbox'[v][i].kind # "prepare"
    BY <1>6, <1>11 DEF NoDonorAt
  <2>2. v = w => m.kind # "prepare"
    BY <1>5, <1>11 DEF NoDonorAt
  <2>3. \A i \in DOMAIN acks'[v] : acks'[v][i].stage # "donor"
    BY <1>5, <1>7, <1>11, <2>2 DEF NoDonorAt
  <2>4. QED
    BY <2>1, <2>3 DEF NoDonorAt
<1>12. Cleared(op[o], exec[o])' /\ Aimed(op[o])'
  BY <1>2, <1>4, <1>11 DEF Calm, Cleared, Aimed, Afresh
<1>13. Renewed(exec[o])'
  <2>1. SUFFICES ASSUME exec[o].at = "restore"
                 PROVE  NoDonorWith(exec[o].sent.token)'
    BY <1>2 DEF Renewed
  <2>2. PICK n : n = exec[o].sent.token
    OBVIOUS
  <2>3. NoDonorWith(n)
    BY <1>4, <2>1, <2>2 DEF Calm, Renewed
  <2>4. ASSUME NEW v \in Workers, NEW i \in DOMAIN inbox'[v]
        PROVE  ~IsPrepare(inbox'[v][i], n)
    BY <1>6, <2>3 DEF NoDonorWith
  <2>5. ~IsPrepare(m, n)
    BY <1>5, <2>3 DEF NoDonorWith
  <2>6. ASSUME NEW v \in Workers, NEW i \in DOMAIN acks'[v],
               acks'[v][i].stage = "donor", acks'[v][i].token = n
        PROVE  FALSE
    <3>1. CASE i \in DOMAIN acks[v] /\ acks'[v][i] = acks[v][i]
      BY <2>3, <2>6, <3>1 DEF NoDonorWith
    <3>2. CASE v = w /\ acks'[v][i] = Answer(m, a)
      BY <1>7, <2>5, <2>6, <3>2 DEF IsPrepare
    <3>3. QED
      BY <1>5, <3>1, <3>2
  <2>7. QED
    BY <1>2, <2>2, <2>4, <2>6 DEF NoDonorWith, IsPrepare
<1>14. DonorShut(exec[o])'
  <2>1. exec[o].at \in HasDonor => exec[o].lease \in Leases
    BY DEF IInv, Fits, Placed
  <2>2. exec[o].at \in {"donor", "closed", "transfer"} =>
           exec[o].lease.worker \in Workers /\ exec[o].lease.token \in Tokens
    BY <2>1, LeaseFacts DEF HasDonor
  <2>3. QED
    BY <1>2, <1>4, <1>9, <2>2 DEF Calm, DonorShut
<1>15. QED
  BY <1>8, <1>10, <1>12, <1>13, <1>14 DEF Calm

\* Every step of a worker keeps both invariants.
LEMMA HandleKeeps ==
  ASSUME IInv, NEW w \in Workers, Handle(w)
  PROVE  Kept
<1>1. TypeOK
  BY DEF IInv
<1>2. inbox[w] \in Seq(Messages) /\ inbox[w] # <<>>
  BY <1>1 DEF TypeOK, Handle, ShardAssigned, OpenFails, PrepareShardTransfer,
     CloseFails, Receive
<1>3. PICK m \in Messages : m = Head(inbox[w])
  BY <1>2, Taken1
<1>4. m.lease.token \in Tokens /\ m.lease.token \in Nat
  BY LeaseFacts DEF Messages
<1>5. open \in [Workers -> Nat] /\ opened \subseteq Workers \X Tokens
  BY <1>1 DEF TypeOK
<1>6. CASE ShardAssigned(w)
  <2>1. /\ m.kind = "assigned" /\ open' = [open EXCEPT ![w] = m.lease.token]
        /\ opened' = opened \cup {<<w, m.lease.token>>} /\ Handled(w, m, "ok")
    BY <1>2, <1>3, <1>6 DEF ShardAssigned, Receive, Handled, durable, control
  <2>2. SpentOK
    BY <1>1, <1>6 DEF ShardAssigned, SpentOK, TypeOK
  <2>3. /\ open' \in [Workers -> Nat] /\ opened' \subseteq Workers \X Tokens
        /\ open'[w] = m.lease.token
        /\ \A v \in Workers : v # w => open'[v] = open[v]
    BY <1>4, <1>5, <2>1
  <2>4. IInv'
    BY <2>1, <2>2, <2>3, HandledKeeps
  <2>5. Quiet => Quiet'
    BY <2>1, <2>3, HandledQuiet
  <2>6. QED
    BY <2>4, <2>5 DEF Kept
<1>7. CASE OpenFails(w) \/ CloseFails(w)
  <2>1. Handled(w, m, "failed") /\ open' = open /\ opened' = opened
    BY <1>2, <1>3, <1>7 DEF OpenFails, CloseFails, Receive, Handled, durable,
       control, history
  <2>2. SpentOK
    BY <1>1, <1>7, SpentStep DEF OpenFails, CloseFails
  <2>3. IInv'
    BY <1>5, <2>1, <2>2, HandledKeeps
  <2>4. Quiet => Quiet'
    BY <2>1, HandledQuiet
  <2>5. QED
    BY <2>3, <2>4 DEF Kept
<1>8. CASE PrepareShardTransfer(w)
  <2>1. PICK a \in {"ok", "refused", "failed"} :
           /\ m.kind = "prepare" /\ Handled(w, m, a) /\ opened' = opened
           /\ \/ a = "ok" /\ open' = [open EXCEPT ![w] = 0]
              \/ a = "refused" /\ open' = open
    <3>1. CASE open[w] \in {0, m.lease.token}
      <4>1. /\ m.kind = "prepare" /\ Handled(w, m, "ok") /\ opened' = opened
            /\ open' = [open EXCEPT ![w] = 0]
        BY <1>2, <1>3, <1>8, <3>1 DEF PrepareShardTransfer, Receive, Handled,
           durable, control, history
      <4>2. QED
        BY <4>1
    <3>2. CASE open[w] \notin {0, m.lease.token}
      <4>1. /\ m.kind = "prepare" /\ Handled(w, m, "refused") /\ opened' = opened
            /\ open' = open
        BY <1>2, <1>3, <1>8, <3>2 DEF PrepareShardTransfer, Receive, Handled,
           durable, control, history
      <4>2. QED
        BY <4>1
    <3>3. QED
      BY <3>1, <3>2
  <2>2. SpentOK
    BY <1>1, <1>8 DEF PrepareShardTransfer, SpentOK, TypeOK
  <2>3. /\ open' \in [Workers -> Nat] /\ open'[w] \in {open[w], 0}
        /\ \A v \in Workers : v # w => open'[v] = open[v]
        /\ a = "ok" => open'[w] = 0
    BY <1>5, <2>1
  <2>4. IInv'
    BY <1>5, <2>1, <2>2, <2>3, HandledKeeps
  <2>5. Quiet => Quiet'
    BY <2>1, <2>3, HandledQuiet
  <2>6. QED
    BY <2>4, <2>5 DEF Kept
<1>9. QED
  BY <1>6, <1>7, <1>8 DEF Handle

-----------------------------------------------------------------------------
(* Beginning and beginning again *)

\* The control restarts.  A lease comes back that had been given up in memory
\* only; an operation that is in the middle of a hand-over takes it up again, for
\* the others it is noted.
LEMMA RestartKeeps ==
  ASSUME IInv, Restart
  PROVE  Kept
<1>1. TypeOK
  BY DEF IInv
<1>2. /\ op \in [Operations -> OpRecords] /\ store \in Tables
      /\ moved \subseteq Operations \X Tokens /\ opened \subseteq Workers \X Tokens
      /\ revived \subseteq Operations \X Tokens
  BY <1>1 DEF TypeOK
<1>3. ASSUME NEW o \in Operations
      PROVE  /\ op'[o] \in OpRecords /\ op'[o].phase = op[o].phase
             /\ op'[o].target = op[o].target
             /\ op'[o].status = IF op[o].status = "Running" THEN "Waiting" ELSE op[o].status
             /\ exec'[o] = IdleTask
  <2>1. op[o] \in OpRecords /\ exec'[o] = IdleTask
    BY <1>2, <1>3 DEF Restart
  <2>2. CASE op[o].status # "Running"
    BY <2>1, <2>2 DEF Restart
  <2>3. CASE op[o].status = "Running"
    <3>1. op'[o] = Marked(o, "Waiting", op[o].phase)
      BY <2>3 DEF Restart
    <3>2. "Waiting" \in Statuses /\ op[o].phase \in Phases
      BY <2>1, WordsIs DEF OpRecords
    <3>3. QED
      BY <2>1, <2>3, <3>1, <3>2, MarkedIs
  <2>4. QED
    BY <2>2, <2>3
<1>4. op' \in [Operations -> OpRecords] /\ exec' \in [Operations -> Tasks]
  <2>1. DOMAIN op' = Operations /\ op' = [o \in Operations |-> op'[o]]
    BY DEF Restart
  <2>2. QED
    BY <1>3, <2>1, IdleIsTask DEF Restart
<1>5. /\ inbox' \in [Workers -> Seq(Messages)] /\ acks' \in [Workers -> Seq(Answers)]
      /\ open' \in [Workers -> Nat]
  BY Emptied DEF Restart
<1>6. \A w \in Workers : /\ \A i \in DOMAIN inbox'[w] : FALSE
                         /\ \A i \in DOMAIN acks'[w] : FALSE
                         /\ open'[w] = 0
  BY Emptied DEF Restart
<1>7. moved' \subseteq moved /\ opened' \subseteq opened /\ table' = store /\ store' = store
  BY DEF Restart
<1>8. revived \subseteq revived' /\ revived' \subseteq Operations \X Tokens
  <2>1. CASE store.lease \in {Nil, table.lease}
    BY <1>2, <2>1 DEF Restart
  <2>2. CASE store.lease \notin {Nil, table.lease}
    <3>1. store.lease.token \in Tokens
      BY <1>2, <2>2, LeaseFacts DEF Tables
    <3>2. revived' = revived \cup {<<o, store.lease.token>> : o \in MovedOn}
      BY <2>2 DEF Restart
    <3>3. MovedOn \subseteq Operations
      BY DEF MovedOn
    <3>4. QED
      BY <1>2, <3>1, <3>2, <3>3
  <2>3. QED
    BY <2>1, <2>2
<1>9. TypeOK'
  <2>1. SpentOK
    BY <1>1, SpentStep DEF Restart
  <2>2. /\ catalog' \subseteq Workers /\ linked' \subseteq Workers
        /\ dead' \subseteq Workers
    BY DEF Restart
  <2>3. moved' \subseteq Operations \X Tokens /\ opened' \subseteq Workers \X Tokens
    BY <1>2, <1>7
  <2>4. QED
    BY <1>2, <1>4, <1>5, <1>7, <1>8, <2>1, <2>2, <2>3 DEF TypeOK, SpentOK
<1>10. Minting'
  <2>1. \A m \in moved' : m[2] < store.next
    BY DEF Restart
  <2>2. store.next \in Nat
    BY <1>2 DEF Tables
  <2>3. QED
    BY <1>7, <2>1, <2>2 DEF IInv, Minting
<1>11. Truthful' /\ Known'
  BY <1>6 DEF Truthful, Known
<1>12. ASSUME NEW o \in Operations PROVE Fits(o, op[o], exec[o])'
  <2>1. Fits(o, op[o], exec[o]) /\ op[o].status \in Statuses
    BY <1>2 DEF IInv, OpRecords
  <2>2. PICK r \in OpRecords : r = op'[o]
    BY <1>3
  <2>3. /\ r.phase = op[o].phase /\ r.target = op[o].target
        /\ r.status = IF op[o].status = "Running" THEN "Waiting" ELSE op[o].status
    BY <1>3, <2>2
  <2>4. r.status # "Running"
    BY <2>3
  <2>5. IdleTask.at = "idle"
    BY DEF IdleTask
  <2>6. Placed(r, IdleTask)
    <3>1. Placed(op[o], exec[o])
      BY <2>1 DEF Fits
    <3>2. QED
      BY <2>3, <2>5, <3>1 DEF Placed, HasDonor, HasSent, RecipientStage, Terminal
  <2>7. Staged(r, IdleTask)
    BY <2>4, <2>5 DEF Staged
  <2>8. Numbered(IdleTask)'
    BY <2>5 DEF Numbered, HasDonor, HasSent, RecipientStage
  <2>9. /\ r.status = "Pending" => r.phase = "none"
        /\ r.status \in Terminal => r.phase \in {"completed", "failed", "cancelled"}
    BY <2>6 DEF Placed
  <2>10. ASSUME Gave(o, r, store.lease)', r.phase \notin Moving
         PROVE  store.lease = table.lease /\ Gave(o, op[o], table.lease)
    <3>1. /\ store.lease # Nil /\ Owner(store.lease) = r.target
          /\ <<o, store.lease.token>> \in moved /\ <<o, store.lease.token>> \notin revived'
      BY <1>7, <2>10 DEF Gave
    <3>2. o \in MovedOn
      BY <2>3, <2>10 DEF MovedOn, Moving
    <3>3. store.lease = table.lease
      BY <3>1, <3>2 DEF Restart
    <3>4. QED
      BY <1>8, <2>3, <3>1, <3>3 DEF Gave
  <2>11. Uncommitted(r, IdleTask) => ~Gave(o, r, store.lease)'
    <3>1. SUFFICES ASSUME Uncommitted(r, IdleTask), Gave(o, r, store.lease)' PROVE FALSE
      OBVIOUS
    <3>2. \/ r.status \in {"Pending", "Cancelled"}
          \/ r.status = "Waiting" /\ r.phase \in Cancellable
      BY <2>4, <2>5, <3>1 DEF Uncommitted
    <3>3. r.phase \notin Moving
      BY <2>9, <3>2 DEF Moving, Cancellable, Terminal
    <3>4. Uncommitted(op[o], exec[o])
      BY <2>3, <3>2 DEF Uncommitted
    <3>5. QED
      BY <2>1, <2>10, <3>1, <3>3, <3>4 DEF Fits, Backed
  <2>12. r.status = "Succeeded" /\ Gave(o, r, store.lease)'
            => <<r.target, store.lease.token>> \in opened'
    <3>1. SUFFICES ASSUME r.status = "Succeeded", Gave(o, r, store.lease)'
                   PROVE  <<r.target, store.lease.token>> \in opened'
      OBVIOUS
    <3>2. r.phase \notin Moving
      BY <2>9, <3>1 DEF Moving, Terminal
    <3>3. store.lease = table.lease /\ Gave(o, op[o], table.lease)
      BY <2>10, <3>1, <3>2
    <3>4. <<r.target, store.lease.token>> \in opened
      BY <2>1, <2>3, <3>1, <3>3 DEF Fits, Backed
    <3>5. store.lease.token < store.next
      BY <3>3 DEF IInv, Minting, Gave
    <3>6. QED
      BY <3>4, <3>5 DEF Restart
  <2>13. r.status = "Absent" => \A n \in Tokens : <<o, n>> \notin moved'
    BY <1>7, <2>1, <2>3 DEF Fits, Backed
  <2>14. Backed(o, r, IdleTask, table.lease)'
    BY <1>7, <2>5, <2>11, <2>12, <2>13 DEF Backed, RecipientStage, Gave, Uncommitted
  <2>15. exec'[o] = IdleTask /\ op'[o] = r
    BY <1>3, <2>2
  <2>16. QED
    BY <2>6, <2>7, <2>8, <2>14, <2>15 DEF Fits, Placed, Staged, Numbered, Backed, Gave,
       Uncommitted
<1>13. Quiet'
  <2>1. \A o \in Operations : exec'[o].at = "idle"
    BY <1>3 DEF IdleTask
  <2>2. InOrder'
    BY <1>6 DEF InOrder
  <2>3. AnswersHold'
    BY <1>6 DEF AnswersHold
  <2>4. ASSUME NEW o \in Operations PROVE Calm(op[o], exec[o])'
    <3>1. (\A w \in Workers : NoDonorAt(w))'
      BY <1>6 DEF NoDonorAt
    <3>2. QED
      BY <2>1, <3>1 DEF Calm, Cleared, Aimed, Renewed, DonorShut
  <2>5. QED
    BY <2>2, <2>3, <2>4 DEF Quiet
<1>14. QED
  BY <1>9, <1>10, <1>11, <1>12, <1>13 DEF Kept, IInv

\* Both invariants hold at first.
LEMMA InitHolds ==
  ASSUME Init
  PROVE  IInv /\ Quiet
<1>1. PICK w \in Workers :
         /\ table = [lease |-> [worker |-> w, token |-> 1], next |-> 2]
         /\ open = [v \in Workers |-> IF v = w THEN 1 ELSE 0]
         /\ opened = {<<w, 1>>}
  BY DEF Init
<1>2. 1 \in Tokens
  BY TransferConstants DEF Tokens
<1>3. [worker |-> w, token |-> 1] \in Leases
  BY <1>2 DEF Leases
<1>4. /\ table \in Tables /\ table.next = 2
      /\ table.lease.token = 1
  BY <1>1, <1>3 DEF Tables
<1>5. ASSUME NEW o \in Operations
      PROVE  /\ op[o] \in OpRecords /\ op[o].status = "Absent" /\ op[o].phase = "none"
             /\ op[o].target = Nil /\ exec[o] = IdleTask /\ exec[o].at = "idle"
  BY DEF Init, OpRecords, Statuses, Phases, IdleTask
<1>6. \A v \in Workers : inbox[v] = <<>> /\ acks[v] = <<>>
  BY DEF Init
<1>7. \A v \in Workers : /\ \A i \in DOMAIN inbox[v] : FALSE
                         /\ \A i \in DOMAIN acks[v] : FALSE
  BY <1>6, Emptied
<1>8. TypeOK
  <2>1. op \in [Operations -> OpRecords] /\ exec \in [Operations -> Tasks]
    BY <1>5, IdleIsTask DEF Init
  <2>2. inbox \in [Workers -> Seq(Messages)] /\ acks \in [Workers -> Seq(Answers)]
    BY Emptied DEF Init
  <2>3. open \in [Workers -> Nat] /\ opened \subseteq Workers \X Tokens
    BY <1>1, <1>2
  <2>4. spent \in [faults : Nat, errors : Nat, requests : Nat]
    BY DEF Init
  <2>5. /\ store = table /\ catalog \subseteq Workers /\ linked \subseteq Workers
        /\ dead \subseteq Workers
    BY DEF Init
  <2>6. moved \subseteq Operations \X Tokens /\ revived \subseteq Operations \X Tokens
    BY DEF Init
  <2>7. table \in Tables /\ store \in Tables
    BY <1>4, <2>5
  <2>8. QED
    BY <2>6, <2>7, <2>1, <2>2, <2>3, <2>4, <2>5 DEF TypeOK
<1>9. Minting
  BY <1>4 DEF Minting, Init
<1>10. Truthful /\ Known
  BY <1>7 DEF Truthful, Known
<1>11. ASSUME NEW o \in Operations PROVE Fits(o, op[o], exec[o])
  <2>1. Placed(op[o], exec[o])
    BY <1>5 DEF Placed, HasDonor, HasSent, RecipientStage, Terminal
  <2>2. Staged(op[o], exec[o]) /\ Numbered(exec[o])
    BY <1>5 DEF Staged, Numbered, HasDonor, HasSent, RecipientStage
  <2>3. Backed(o, op[o], exec[o], table.lease)
    BY <1>5 DEF Backed, Uncommitted, RecipientStage, Init
  <2>4. QED
    BY <2>1, <2>2, <2>3 DEF Fits
<1>12. Quiet
  <2>1. InOrder /\ AnswersHold /\ \A v \in Workers : NoDonorAt(v)
    BY <1>7 DEF InOrder, AnswersHold, NoDonorAt
  <2>2. QED
    BY <1>5, <2>1 DEF Quiet, Calm, Cleared, Aimed, Renewed, DonorShut
<1>13. QED
  BY <1>8, <1>9, <1>10, <1>11, <1>12 DEF IInv

\* Every step keeps both invariants.
LEMMA NextKeeps ==
  ASSUME IInv, [Next]_vars
  PROVE  Kept
<1>1. CASE UNCHANGED vars
  <2>1. UNCHANGED <<op, exec, table, store, open, inbox, acks, opened, moved, revived,
                    catalog, dead, linked, spent>>
    BY <1>1 DEF vars, durable, control, workers, history
  <2>2. SpentOK /\ catalog' \subseteq Workers /\ dead' \subseteq Workers
          /\ linked' \subseteq Workers
    BY <2>1 DEF IInv, TypeOK, SpentOK
  <2>3. QED
    BY <2>1, <2>2, AsideKept
<1>2. ASSUME NEW o \in Operations,
             \/ \E w \in Workers : MigrateShard(o, w)
             \/ CancelOperation(o)
             \/ TimesOut(o)
      PROVE  Kept
  <2>1. Turn(o) /\ Mailed /\ SpentOK /\ store' = store /\ Elsewhere
    BY <1>2, MigrateShardTurn, CancelTurn, TimesOutTurn
  <2>2. QED
    BY <2>1, TurnKept
<1>3. ASSUME NEW o \in Operations, Execute(o) PROVE Kept
  BY <1>3, ExecuteKeeps
<1>4. ASSUME NEW w \in Workers,
             \/ Handle(w) \/ ShardTransferAck(w) \/ RequestShard(w)
             \/ ConnectionLost(w) \/ OnWorkerDead(w) \/ Register(w)
      PROVE  Kept
  BY <1>4, HandleKeeps, ShardTransferAckKeeps, RequestShardKeeps,
     ConnectionLostKeeps, OnWorkerDeadKeeps, RegisterKeeps
<1>5. CASE Restart
  BY <1>5, RestartKeeps
<1>6. QED
  BY <1>1, <1>2, <1>3, <1>4, <1>5 DEF Next

-----------------------------------------------------------------------------
(* Theorems *)

\* Everything the outcome of an operation rests on holds in every state, for any
\* number of workers and of concurrent operations and any number of faults.
THEOREM TransferInvariant == Spec => []IInv
<1>1. Init => IInv
  BY InitHolds
<1>2. IInv /\ [Next]_vars => IInv'
  BY NextKeeps DEF Kept
<1>3. QED
  BY <1>1, <1>2, PTL DEF Spec

\* Every variable of the migrate operation keeps its type.
THEOREM TransferTypes == Spec => []TypeOK
<1>1. IInv => TypeOK
  BY DEF IInv
<1>2. QED
  BY <1>1, TransferInvariant, PTL

\* The status an operation ends with is true of the lease in force: one that
\* succeeded has had its target open the shard under that very lease, and a
\* cancelled one has not moved the shard, whatever late answers, rollbacks,
\* lost connections and restarts came before.
THEOREM TransferOutcomeIsTrue == Spec => []OutcomeIsTrue
<1>1. IInv => OutcomeIsTrue
  <2>1. SUFFICES ASSUME IInv, NEW o \in Operations
                 PROVE  /\ op[o].status = "Succeeded" /\ InForce(o)
                              => <<op[o].target, table.lease.token>> \in opened
                        /\ op[o].status = "Cancelled" => ~InForce(o)
    BY DEF OutcomeIsTrue, SuccessIsBacked, CancelledKeepsOwner
  <2>2. InForce(o) <=> Gave(o, op[o], table.lease)
    BY DEF InForce, Gave
  <2>3. Backed(o, op[o], exec[o], table.lease)
    BY <2>1 DEF IInv, Fits
  <2>4. QED
    BY <2>2, <2>3 DEF Backed, Uncommitted
<1>2. QED
  BY <1>1, TransferInvariant, PTL

\* With one operation at a time, nothing on its way to or from a worker undoes
\* what the donor has acknowledged.
THEOREM TransferQuiet == OneOperation => (Spec => []Quiet)
<1>1. SUFFICES ASSUME OneOperation PROVE Spec => []Quiet
  OBVIOUS
<1>2. Init => IInv /\ Quiet
  BY InitHolds
<1>3. IInv /\ Quiet /\ [Next]_vars => (IInv /\ Quiet)'
  BY <1>1, NextKeeps DEF Kept
<1>4. QED
  BY <1>2, <1>3, PTL DEF Spec

\* The only operation goes from the transfer to the save by taking the lease away
\* from the owner it had asked to close the shard.
LEMMA OnlyTransferSaves ==
  ASSUME IInv, OneOperation, [Next]_vars, NEW o \in Operations,
         exec[o].at = "transfer", exec'[o].at = "save"
  PROVE  table.lease = exec[o].lease
<1>1. exec \in [Operations -> Tasks] /\ exec'[o] # exec[o] /\ exec' # exec
  BY DEF IInv, TypeOK
<1>2. IdleTask.at = "idle"
  BY DEF IdleTask
<1>3. CASE UNCHANGED vars
  BY <1>1, <1>3 DEF vars, control
<1>4. ASSUME NEW p \in Operations,
             \/ \E w \in Workers : MigrateShard(p, w)
             \/ CancelOperation(p)
      PROVE  FALSE
  BY <1>1, <1>4 DEF MigrateShard, CancelOperation, control
<1>5. ASSUME NEW p \in Operations, TimesOut(p) PROVE FALSE
  <2>1. p = o
    BY DEF OneOperation
  <2>2. QED
    BY <1>5, <2>1 DEF TimesOut, Waiting, RecipientStage
<1>6. ASSUME NEW p \in Operations, Execute(p) PROVE table.lease = exec[o].lease
  <2>1. p = o
    BY DEF OneOperation
  <2>2. TransferIfOwner(o)
    BY <1>6, <2>1 DEF Execute, At, Start, RefuseBusy, Resume, Reclaimed, Reopened,
       BeginValidation, RefuseUnfit, PrepareDonor, DonorAnswered, GivenBack, Approve,
       SaveTransfer, Announce, RecipientAnswered, Rollback, SaveRollback, Returned
  <2>3. CASE StillOwner(exec[o].lease)
    BY <2>3 DEF StillOwner
  <2>4. CASE ~StillOwner(exec[o].lease)
    <3>1. Fail(o)
      BY <2>2, <2>4 DEF TransferIfOwner
    <3>2. exec' = [exec EXCEPT ![o] = IdleTask]
      BY <3>1, LastUpdate DEF Fail, Becomes
    <3>3. QED
      BY <1>1, <1>2, <3>2
  <2>5. QED
    BY <2>3, <2>4
<1>7. ASSUME NEW w \in Workers, ShardTransferAck(w) PROVE FALSE
  <2>1. acks[w] \in Seq(Answers) /\ acks[w] # <<>>
    BY <1>7 DEF IInv, TypeOK, ShardTransferAck
  <2>2. Head(acks[w]) \in Answers
    BY <2>1, Taken1
  <2>3. Head(acks[w]).op = o
    BY <2>2 DEF OneOperation, Answers
  <2>4. Waiting(o)
    BY <1>1, <1>7, <2>3 DEF ShardTransferAck
  <2>5. QED
    BY <2>4 DEF Waiting, RecipientStage
<1>8. ASSUME NEW w \in Workers,
             \/ Handle(w) \/ RequestShard(w) \/ ConnectionLost(w) \/ OnWorkerDead(w)
             \/ Register(w)
      PROVE  FALSE
  BY <1>1, <1>8 DEF Handle, ShardAssigned, OpenFails, PrepareShardTransfer, CloseFails,
     RequestShard, ConnectionLost, OnWorkerDead, Register, control
<1>9. CASE Restart
  <2>1. exec'[o] = IdleTask
    BY <1>9 DEF Restart
  <2>2. QED
    BY <1>2, <2>1
<1>10. QED
  BY <1>3, <1>4, <1>5, <1>6, <1>7, <1>8, <1>9 DEF Next

\* When the executor takes the lease away from its owner, the owner has closed the
\* shard and nothing on its way will make it open it again: for any number of
\* workers and faults, as long as one operation at a time migrates the shard.
THEOREM TransferHandOverIsExclusive == OneOperation => (Spec => HandOverIsExclusive)
<1>1. SUFFICES ASSUME OneOperation PROVE Spec => HandOverIsExclusive
  OBVIOUS
<1>2. ASSUME IInv, Quiet, [Next]_vars, NEW o \in Operations,
             At(o, "transfer"), exec'[o].at = "save"
      PROVE  open[Owner(table.lease)] # table.lease.token
  <2>1. table.lease = exec[o].lease
    BY <1>1, <1>2, OnlyTransferSaves DEF At
  <2>2. exec[o].lease \in Leases /\ op[o].status = "Running"
    BY <1>2 DEF IInv, Fits, Placed, At, HasDonor
  <2>3. ~Doomed(op[o], exec[o])
    BY <1>2, <2>2 DEF Doomed, Terminal, At
  <2>4. Shut(exec[o].lease.worker, exec[o].lease.token)
    BY <1>2, <2>3 DEF Quiet, Calm, DonorShut, At
  <2>5. table.lease # Nil
    BY <2>1, <2>2, TransferConstants DEF Leases, Tokens
  <2>6. QED
    BY <2>1, <2>4, <2>5 DEF Shut, Owner
<1>3. IInv /\ Quiet /\ [Next]_vars =>
        [\A o \in Operations :
            At(o, "transfer") /\ exec'[o].at = "save" =>
                open[Owner(table.lease)] # table.lease.token]_vars
  BY <1>2
<1>4. Spec => []IInv /\ []Quiet
  BY <1>1, TransferInvariant, TransferQuiet, PTL
<1>5. QED
  BY <1>3, <1>4, PTL DEF Spec, HandOverIsExclusive
=============================================================================
