--------------------------- MODULE DataflowProofs ---------------------------
(***************************************************************************)
(* Proofs about the two ends of a pipeline and about a join in it.         *)
(*                                                                         *)
(* SourceToSink: what a restart of the source goes on from is what the     *)
(* log of the view holds, input that was acknowledged stays, and readers   *)
(* of the sink's topic see every row once and in order (the refinement of  *)
(* ExactlyOnceDelivery).  RecoveryInv relates the store to the log: epochs *)
(* grow along the log up to the store's frontier, whose slot of the ring   *)
(* has the store's cursor, and the pipeline in memory is the store's but   *)
(* for what dirty announces.  InputInv adds the input: the log has the     *)
(* records below the cursor, once each, and acknowledgements stay behind.  *)
(* DeliveryInv adds the sink: what the topic shows, with the pending       *)
(* transaction, is the log up to the epoch in the sink's progress.         *)
(*                                                                         *)
(* The last two assume NoLostStash, that no record is stashed over the     *)
(* byte limit or no poll, batch or write fails: the rows before a stashed  *)
(* record are lost when one of them does (SourceToSinkStash.cfg).          *)
(*                                                                         *)
(* IncrementalJoin: the view of a join is the join of its tables.  JoinInv *)
(* says that the memory, the state in the store and the state in the batch *)
(* each belong to the tables they are written with; an epoch's output is   *)
(* then the difference of two joins because the weight of a key is the sum *)
(* over its rows, and zero when there is none.                             *)
(***************************************************************************)
EXTENDS SourceToSink, IncrementalJoin, FiniteSetTheorems, WellFoundedInduction, TLAPS

-----------------------------------------------------------------------------
(* From the source to the sink: the inductive invariant *)

RowSeqs == Seq(Nat)
Offsets == Nat \cup {NoRow}
Checkpoints == [epoch : Nat, offset : Nat]
Entries == [epoch : Nat, rows : RowSeqs]
Transactions == [txn : Int, rows : RowSeqs]
OpenTransactions == [txn : Int, rows : RowSeqs, status : {"none", "open", "committing"}]
Cursors == [snapshot : BOOLEAN, viewEpoch : Nat, transaction : Nat,
            pending : Transactions]
Budgets == [bytes : Nat \ {0}, writes : Nat, acks : Nat, batches : Nat,
            refused : SUBSET Nat, consumer : Nat, broker : Nat,
            envelope : Nat \ {0}, debts : SUBSET Nat, crashes : Nat,
            retries : Nat]

StoreStates == [phase : Phases, cursor : Nat, frontier : Nat, state : RowSeqs,
           committed : [0..(Slots - 1) -> Checkpoints],
           prepared : [0..(Slots - 1) -> Checkpoints]]
Consumers == [position : Nat, pending : Offsets, lastPolled : Offsets]
Runtimes == [epoch : Nat, inFlight : Nat, live : BOOLEAN]
Jobs == [epoch : Nat, offset : Nat, rows : RowSeqs, phase : Phases]
Places == {"start", "intent", "poll", "begin", "prepare", "m3", "ack", "stopped"}

SourceTypeOK ==
    /\ produced \in Nat /\ acked \in Nat
    /\ consumer \in Consumers
    /\ store \in StoreStates
    /\ view \in Seq(Entries)
    /\ runtime \in Runtimes
    /\ pipeline \in RowSeqs
    /\ dirty \in BOOLEAN
    /\ allocated \in Nat
    /\ worker \in Places
    /\ job \in Jobs
    /\ load \in Budgets

SinkTypeOK ==
    /\ progress \in Cursors
    /\ topic \in Seq(Transactions)
    /\ open \in OpenTransactions
    /\ draft \in Cursors
    /\ exporter \in {"down", "idle", "persist", "commit", "clear", "failed"}

\* The rows of the first k members of a log.
RowsOf(log, k) == FlattenSeq([i \in 1..k |-> log[i].rows])
LogPrefix(k) == RowsOf(view, k)

\* Epochs grow along the log and the newest one committed is the frontier;
\* every prefix of the log's epochs is a prefix of its rows.
LogInOrder ==
    /\ \A i \in DOMAIN view : 0 < view[i].epoch /\ view[i].epoch <= store.frontier
    /\ \A i, k \in DOMAIN view : i < k => view[i].epoch < view[k].epoch
    /\ \A k \in 0..Len(view) : 
        /\ LogPrefix(k) \in RowSeqs /\ Len(LogPrefix(k)) <= Len(AppliedRows)
        /\ LogPrefix(k) = SubSeq(AppliedRows, 1, Len(LogPrefix(k)))

\* The pipeline in memory is the store's, but for the batch in flight and for
\* what a failed commit has left in it, which dirty announces.
PipelineFollows ==
    /\ ~dirty => pipeline = store.state
    /\ worker \in {"prepare", "m3"} =>
        /\ dirty /\ pipeline = store.state \o job.rows
        /\ job.epoch > store.frontier
    /\ worker = "ack" => pipeline = store.state
    /\ worker \in {"m3", "ack"} => runtime.inFlight > 0
    /\ runtime.epoch <= store.frontier

\* A slot of the ring holds no checkpoint or one of an epoch that maps to it;
\* the slot of the frontier holds the frontier's.
RingInOrder ==
    /\ \A s \in 0..(Slots - 1) :
        /\ store.committed[s].epoch <= store.frontier
        /\ store.committed[s].epoch = 0 => store.committed[s].offset = 0
        /\ store.committed[s].epoch # 0 => SlotOf(store.committed[s].epoch) = s
    /\ store.committed[SlotOf(store.frontier)].epoch = store.frontier
    /\ store.committed[SlotOf(store.frontier)].offset = store.cursor

RecoveryInv ==
    SourceTypeOK /\ LogInOrder /\ StateMatchesLog /\ PipelineFollows /\ RingInOrder

\* No record is stashed over the byte limit, or nothing between a poll and the
\* end of its commit fails: no poll, no batch and no write.
NoLostStash(l) ==
    \/ l.bytes >= RowLimit
    \/ l.writes = 0 /\ l.batches = 0 /\ l.refused = {}

\* m is what is left of the budgets l.
Left(m, l) ==
    /\ m \in Budgets
    /\ m.bytes = l.bytes /\ m.refused = l.refused
    /\ m.writes <= l.writes /\ m.batches <= l.batches

\* Acknowledgements that failed hold every place of the in-flight count.
Blocked == runtime.inFlight >= MaxInFlight

Numbered(rows, first) == \A i \in 1..Len(rows) : rows[i] = first + i - 1

\* The batch in hand starts at the cursor and ends at its offset.
JobFollows ==
    /\ worker \in {"begin", "prepare", "m3", "ack"} => consumer.lastPolled = job.offset
    /\ (worker \in {"prepare", "m3"} \/ (worker = "begin" /\ ~Blocked))
       => /\ job.offset = store.cursor + Len(job.rows)
          /\ job.offset <= produced
          /\ Numbered(job.rows, store.cursor)
    /\ worker = "ack" => job.offset = store.cursor

\* A consumer that will not seek stands where its last poll ended, or it has
\* the one record it read beyond stashed.
ConsumerFollows ==
    /\ consumer.lastPolled # NoRow =>
        \/ consumer.position <= consumer.lastPolled
        \/ /\ consumer.pending = consumer.lastPolled
           /\ consumer.position <= consumer.lastPolled + 1
    /\ consumer.lastPolled # NoRow => consumer.lastPolled >= store.cursor
    /\ consumer.pending # NoRow =>
        /\ consumer.pending = consumer.lastPolled
        /\ consumer.pending < produced
        /\ load.bytes < RowLimit
        /\ worker # "intent"
        /\ worker = "poll" => consumer.lastPolled = store.cursor \/ Blocked

InputInv ==
    /\ NoLostStash(load)
    /\ Len(AppliedRows) = store.cursor /\ Numbered(AppliedRows, 0)
    /\ acked <= store.cursor /\ store.cursor <= produced
    /\ JobFollows /\ ConsumerFollows

\* rows are those of the epochs up to the cursor e.
RowsUpTo(e, rows) ==
    \E k \in 0..Len(view) :
        /\ \A i \in DOMAIN view : view[i].epoch <= e <=> i <= k
        /\ rows = LogPrefix(k)

\* The transaction the broker holds is txn, if it holds one.
Holds(txn) == open.status # "none" => open.txn = txn.txn /\ open.rows = txn.rows

PendingInOrder ==
    /\ progress.viewEpoch <= store.frontier
    /\ ~progress.snapshot => progress.viewEpoch = 0
    /\ \A i \in DOMAIN topic : topic[i].txn < progress.transaction
    /\ progress.pending # NotPending => progress.pending.txn = progress.transaction - 1
    /\ IF progress.pending = NotPending \/ Delivered(progress.pending)
       THEN RowsUpTo(progress.viewEpoch, DeliveredRows)
       ELSE RowsUpTo(progress.viewEpoch, DeliveredRows \o progress.pending.rows)

\* What the broker may still make visible, and what the sink is about to do,
\* is the pending transaction.
TransactionInOrder ==
    /\ open.status = "committing" =>
        /\ progress.pending # NotPending /\ ~Delivered(progress.pending)
        /\ Holds(progress.pending)
    /\ exporter = "commit" =>
        /\ progress.pending # NotPending /\ ~Delivered(progress.pending)
        /\ open.status # "committing" /\ Holds(progress.pending)
    /\ exporter = "clear" =>
        progress.pending # NotPending /\ Delivered(progress.pending)
    /\ exporter = "persist" =>
        /\ progress.pending = NotPending
        /\ draft.snapshot /\ draft.viewEpoch <= store.frontier
        /\ draft.transaction = progress.transaction + 1
        /\ draft.pending.txn = progress.transaction
        /\ open.status # "committing" /\ Holds(draft.pending)
        /\ RowsUpTo(draft.viewEpoch, DeliveredRows \o draft.pending.rows)

DeliveryInv == SinkTypeOK /\ PendingInOrder /\ TransactionInOrder

-----------------------------------------------------------------------------
(* Flattening.                                                             *)

\* Induction over the numbers, with a set for the predicate.
LEMMA NumberInduction ==
  ASSUME NEW T \in SUBSET Nat, 0 \in T, \A n \in Nat : n \in T => n + 1 \in T
  PROVE  \A n \in Nat : n \in T
<1> DEFINE U == Nat \ T
<1>1. SUFFICES ASSUME U # {} PROVE FALSE
  OBVIOUS
<1>2. \E m \in U : \A y \in U : ~ (<<y, m>> \in OpToRel(<, Nat))
  <2>1. U \subseteq Nat
    OBVIOUS
  <2> HIDE DEF U
  <2>2. QED
    BY <1>1, <2>1, NatLessThanWellFounded, WFMin
<1>3. PICK m \in U : \A y \in U : ~ (<<y, m>> \in OpToRel(<, Nat))
  BY <1>2
<1>4. m \in Nat /\ m # 0 /\ m - 1 \in Nat
  OBVIOUS
<1>5. m - 1 \in U
  BY <1>4
<1>6. <<m - 1, m>> \in OpToRel(<, Nat)
  BY <1>4 DEF OpToRel
<1>7. QED
  BY <1>3, <1>5, <1>6

\* g is the recursive function that flattens the first n members of s.
Flattening(s, n, g) ==
    g = [i \in 1..n |-> IF i = 1 THEN s[i] ELSE g[i - 1] \o s[i]]

\* One value of the recursive function.
LEMMA FlatteningAt ==
  ASSUME NEW s, NEW n, NEW g, Flattening(s, n, g), NEW i \in 1..n
  PROVE  g[i] = IF i = 1 THEN s[i] ELSE g[i - 1] \o s[i]
<1> DEFINE f == [k \in 1..n |-> IF k = 1 THEN s[k] ELSE g[k - 1] \o s[k]]
<1>1. g = f
  BY DEF Flattening
<1>2. f[i] = IF i = 1 THEN s[i] ELSE g[i - 1] \o s[i]
  OBVIOUS
<1> HIDE DEF f
<1>3. QED
  BY <1>1, <1>2

\* The recursive function of a flattening exists.
LEMMA FlatteningExists ==
  ASSUME NEW s, NEW n \in Nat
  PROVE  \E g : Flattening(s, n, g)
<1> DEFINE T == {k \in Nat : \E g : Flattening(s, k, g)}
<1>1. 0 \in T
  <2>1. Flattening(s, 0, [i \in 1..0 |-> s])
    BY DEF Flattening
  <2>2. QED
    BY <2>1
<1>2. ASSUME NEW k \in Nat, k \in T PROVE k + 1 \in T
  <2>1. PICK g : Flattening(s, k, g)
    BY <1>2
  <2> DEFINE h == [i \in 1..(k + 1) |-> IF i = 1 THEN s[i] ELSE g[i - 1] \o s[i]]
  <2>2. ASSUME NEW i \in 1..k PROVE h[i] = g[i]
    <3>1. g[i] = IF i = 1 THEN s[i] ELSE g[i - 1] \o s[i]
      BY <2>1, FlatteningAt
    <3>2. i \in 1..(k + 1)
      OBVIOUS
    <3>3. h[i] = IF i = 1 THEN s[i] ELSE g[i - 1] \o s[i]
      BY <3>2
    <3> HIDE DEF h
    <3>4. QED
      BY <3>1, <3>3
  <2>3. ASSUME NEW i \in 1..(k + 1) PROVE h[i] = IF i = 1 THEN s[i] ELSE h[i - 1] \o s[i]
    <3>1. CASE i = 1
      BY <3>1
    <3>2. CASE i # 1
      <4>1. i - 1 \in 1..k
        BY <3>2
      <4>2. h[i] = g[i - 1] \o s[i]
        BY <3>2
      <4>3. h[i - 1] = g[i - 1]
        BY <2>2, <4>1
      <4> HIDE DEF h
      <4>4. QED
        BY <3>2, <4>2, <4>3
    <3>3. QED
      BY <3>1, <3>2
  <2>4. h = [i \in 1..(k + 1) |-> h[i]]
    OBVIOUS
  <2>5. Flattening(s, k + 1, h)
    <3> HIDE DEF h
    <3>1. QED
      BY <2>3, <2>4 DEF Flattening
  <2>6. QED
    BY <2>5
<1>3. T \in SUBSET Nat
  OBVIOUS
<1>4. n \in T
  <2> HIDE DEF T
  <2>1. QED
    BY <1>1, <1>2, <1>3, NumberInduction
<1>5. QED
  BY <1>4

\* Two flattenings agree as far as the sequences they flatten do.
LEMMA FlatteningAgrees ==
  ASSUME NEW s, NEW t, NEW m \in Nat, NEW n \in Nat, NEW g, NEW h,
         Flattening(s, m, g), Flattening(t, n, h),
         m <= n, \A i \in 1..m : s[i] = t[i]
  PROVE  \A i \in 1..m : g[i] = h[i]
<1> DEFINE T == {i \in Nat : i \in 1..m => g[i] = h[i]}
<1>1. 0 \in T
  OBVIOUS
<1>2. ASSUME NEW i \in Nat, i \in T PROVE i + 1 \in T
  <2>1. SUFFICES ASSUME i + 1 \in 1..m PROVE g[i + 1] = h[i + 1]
    OBVIOUS
  <2>2. i + 1 \in 1..m /\ i + 1 \in 1..n /\ (i + 1) - 1 = i /\ s[i + 1] = t[i + 1]
    BY <2>1
  <2>3. g[i + 1] = IF i + 1 = 1 THEN s[i + 1] ELSE g[i] \o s[i + 1]
    BY <2>2 DEF Flattening
  <2>4. h[i + 1] = IF i + 1 = 1 THEN t[i + 1] ELSE h[i] \o t[i + 1]
    BY <2>2 DEF Flattening
  <2>5. CASE i = 0
    BY <2>2, <2>3, <2>4, <2>5
  <2>6. CASE i # 0
    <3>1. g[i] = h[i]
      BY <1>2, <2>1, <2>6
    <3>2. QED
      BY <2>2, <2>3, <2>4, <3>1
  <2>7. QED
    BY <2>5, <2>6
<1>3. T \in SUBSET Nat
  OBVIOUS
<1>4. \A i \in Nat : i \in T
  <2> HIDE DEF T
  <2>1. QED
    BY <1>1, <1>2, <1>3, NumberInduction
<1>5. QED
  BY <1>4

\* What a flattening holds are rows.
LEMMA FlatteningRows ==
  ASSUME NEW s, NEW m \in Nat, NEW g, Flattening(s, m, g), \A i \in 1..m : s[i] \in RowSeqs
  PROVE  \A i \in 1..m : g[i] \in RowSeqs
<1> DEFINE T == {i \in Nat : i \in 1..m => g[i] \in RowSeqs}
<1>1. 0 \in T
  OBVIOUS
<1>2. ASSUME NEW i \in Nat, i \in T PROVE i + 1 \in T
  <2>1. SUFFICES ASSUME i + 1 \in 1..m PROVE g[i + 1] \in RowSeqs
    OBVIOUS
  <2>2. (i + 1) - 1 = i /\ s[i + 1] \in RowSeqs
    BY <2>1
  <2>3. g[i + 1] = IF i + 1 = 1 THEN s[i + 1] ELSE g[i] \o s[i + 1]
    BY <2>1, <2>2 DEF Flattening
  <2>4. CASE i = 0
    BY <2>2, <2>3, <2>4
  <2>5. CASE i # 0
    <3>1. g[i] \in RowSeqs
      BY <1>2, <2>1, <2>5
    <3>2. g[i] \o s[i + 1] \in RowSeqs
      BY <2>2, <3>1 DEF RowSeqs
    <3>3. QED
      BY <2>2, <2>3, <3>2
  <2>6. QED
    BY <2>4, <2>5
<1>3. T \in SUBSET Nat
  OBVIOUS
<1>4. \A i \in Nat : i \in T
  <2> HIDE DEF T
  <2>1. QED
    BY <1>1, <1>2, <1>3, NumberInduction
<1>5. QED
  BY <1>4

\* FlattenSeq is the last value of the recursive function.
LEMMA FlattenIs ==
  ASSUME NEW s \in Seq(RowSeqs), s # <<>>
  PROVE  \E g : Flattening(s, Len(s), g) /\ FlattenSeq(s) = g[Len(s)]
<1>1. Len(s) \in Nat /\ Len(s) # 0
  OBVIOUS
<1>2. \E g : Flattening(s, Len(s), g)
  BY <1>1, FlatteningExists
<1> DEFINE f == CHOOSE g : Flattening(s, Len(s), g)
<1>3. Flattening(s, Len(s), f)
  BY <1>2
<1>4. FlattenSeq(s) = f[Len(s)]
  BY <1>1 DEF FlattenSeq, Flattening
<1>5. QED
  BY <1>3, <1>4

\* Nothing flattens to nothing.
LEMMA FlattenEmpty == FlattenSeq(<<>>) = <<>>
BY DEF FlattenSeq

\* Flattened rows are rows.
LEMMA FlattenRows ==
  ASSUME NEW s \in Seq(RowSeqs)
  PROVE  FlattenSeq(s) \in RowSeqs
<1>1. CASE s = <<>>
  <2>1. FlattenSeq(s) = <<>>
    BY <1>1, FlattenEmpty
  <2>2. <<>> \in RowSeqs
    BY DEF RowSeqs
  <2>3. QED
    BY <2>1, <2>2
<1>2. CASE s # <<>>
  <2>1. PICK g : Flattening(s, Len(s), g) /\ FlattenSeq(s) = g[Len(s)]
    BY <1>2, FlattenIs
  <2>2. Len(s) \in Nat /\ Len(s) \in 1..Len(s) /\ \A i \in 1..Len(s) : s[i] \in RowSeqs
    BY <1>2
  <2>3. QED
    BY <2>1, <2>2, FlatteningRows
<1>3. QED
  BY <1>1, <1>2

\* Flattening one member more appends it.
LEMMA FlattenAppend ==
  ASSUME NEW s \in Seq(RowSeqs), NEW r \in RowSeqs
  PROVE  FlattenSeq(Append(s, r)) = FlattenSeq(s) \o r
<1> DEFINE t == Append(s, r)
           n == Len(s)
<1>1. t \in Seq(RowSeqs) /\ Len(t) = n + 1 /\ t[n + 1] = r /\ (\A i \in 1..n : s[i] = t[i])
        /\ n \in Nat /\ t # <<>> /\ (s # <<>> => n # 0)
  OBVIOUS
<1>0. n = Len(s)
  OBVIOUS
<1> HIDE DEF t, n
<1>2. PICK h : Flattening(t, n + 1, h) /\ FlattenSeq(t) = h[n + 1]
  BY <1>1, FlattenIs
<1>3. h[n + 1] = IF n + 1 = 1 THEN t[n + 1] ELSE h[(n + 1) - 1] \o t[n + 1]
  <2>1. n + 1 \in 1..(n + 1)
    BY <1>1
  <2>2. QED
    BY <1>2, <2>1, FlatteningAt
<1>4. CASE s = <<>>
  <2>1. n = 0 /\ FlattenSeq(s) = <<>> /\ r = <<>> \o r
    BY <1>0, <1>4, FlattenEmpty DEF RowSeqs
  <2>2. QED
    BY <1>1, <1>2, <1>3, <2>1 DEF t
<1>5. CASE s # <<>>
  <2>1. PICK g : Flattening(s, n, g) /\ FlattenSeq(s) = g[n]
    BY <1>0, <1>5, FlattenIs
  <2>2. n # 0 /\ n \in 1..n /\ (n + 1) - 1 = n /\ n <= n + 1 /\ n <= n /\ n + 1 \in Nat
    BY <1>1, <1>5
  <2>3. g[n] = h[n]
    <3>1. /\ n \in Nat /\ n + 1 \in Nat /\ n <= n /\ n <= n + 1
          /\ Flattening(s, n, g) /\ Flattening(t, n + 1, h)
      BY <1>1, <1>2, <2>1, <2>2
    <3>2. PICK m \in Nat : m = n + 1
      BY <3>1
    <3>3. \A i \in 1..n : s[i] = t[i]
      BY <1>1
    <3>4. \A i \in 1..n : g[i] = h[i]
      BY <3>1, <3>2, <3>3, FlatteningAgrees
    <3>5. QED
      BY <2>2, <3>4
  <2>4. n + 1 # 1
    BY <1>1, <2>2
  <2>5. QED
    BY <1>1, <1>2, <1>3, <2>1, <2>2, <2>3, <2>4 DEF t
<1>6. QED
  BY <1>4, <1>5

\* The empty sequence as a function.
LEMMA EmptyFunction ==
  ASSUME NEW log
  PROVE  [i \in 1..0 |-> log[i].rows] = <<>>
OBVIOUS

\* No members hold no rows.
LEMMA RowsOfNone ==
  ASSUME NEW log
  PROVE  RowsOf(log, 0) = <<>>
BY EmptyFunction, FlattenEmpty DEF RowsOf

\* The rows of a log are rows.
LEMMA RowsOfRows ==
  ASSUME NEW log, NEW k \in Nat, \A i \in 1..k : log[i].rows \in RowSeqs
  PROVE  RowsOf(log, k) \in RowSeqs
<1>1. [i \in 1..k |-> log[i].rows] \in Seq(RowSeqs)
  OBVIOUS
<1>2. QED
  BY <1>1, FlattenRows DEF RowsOf

\* One member more adds its rows.
LEMMA RowsOfStep ==
  ASSUME NEW log, NEW k \in Nat, \A i \in 1..(k + 1) : log[i].rows \in RowSeqs
  PROVE  RowsOf(log, k + 1) = RowsOf(log, k) \o log[k + 1].rows
<1> DEFINE s == [i \in 1..k |-> log[i].rows]
           t == [i \in 1..(k + 1) |-> log[i].rows]
           r == log[k + 1].rows
<1>1. s \in Seq(RowSeqs) /\ r \in RowSeqs /\ Len(s) = k
  OBVIOUS
<1>2. t = Append(s, r)
  <2>1. t \in Seq(RowSeqs) /\ Append(s, r) \in Seq(RowSeqs) /\ Len(t) = k + 1 /\ Len(Append(s, r)) = k + 1
    BY <1>1
  <2>2. ASSUME NEW i \in 1..(k + 1) PROVE t[i] = Append(s, r)[i]
    <3>1. CASE i = k + 1
      BY <1>1, <3>1
    <3>2. CASE i # k + 1
      <4>1. i \in 1..k
        BY <3>2
      <4>2. QED
        BY <1>1, <4>1
    <3>3. QED
      BY <3>1, <3>2
  <2> HIDE DEF s, t, r
  <2>3. QED
    BY <2>1, <2>2
<1> HIDE DEF s, t, r
<1>3. FlattenSeq(t) = FlattenSeq(s) \o r
  BY <1>1, <1>2, FlattenAppend
<1>4. QED
  BY <1>3 DEF RowsOf, s, t, r

\* Logs that agree on their first members agree on the rows of those.
LEMMA RowsOfAgrees ==
  ASSUME NEW log, NEW other, NEW k \in Nat, \A i \in 1..k : log[i].rows = other[i].rows
  PROVE  RowsOf(log, k) = RowsOf(other, k)
<1>1. [i \in 1..k |-> log[i].rows] = [i \in 1..k |-> other[i].rows]
  OBVIOUS
<1>2. QED
  BY <1>1 DEF RowsOf

\* What a member appended to a log does to its rows.
LEMMA RowsOfAppend ==
  ASSUME NEW S, \A e \in S : e.rows \in RowSeqs, NEW log \in Seq(S), NEW e \in S
  PROVE  /\ RowsOf(Append(log, e), Len(Append(log, e))) = RowsOf(log, Len(log)) \o e.rows
         /\ \A k \in 0..Len(log) : RowsOf(Append(log, e), k) = RowsOf(log, k)
<1> DEFINE w == Append(log, e)
           n == Len(log)
<1>1. n \in Nat /\ w \in Seq(S) /\ Len(w) = n + 1 /\ w[n + 1] = e /\ \A i \in 1..n : w[i] = log[i]
  OBVIOUS
<1> HIDE DEF w, n
<1>2. \A i \in 1..(n + 1) : w[i].rows \in RowSeqs
  BY <1>1
<1>3. RowsOf(w, n + 1) = RowsOf(w, n) \o w[n + 1].rows
  BY <1>1, <1>2, RowsOfStep
<1>4. ASSUME NEW k \in 0..n PROVE RowsOf(w, k) = RowsOf(log, k)
  <2>1. k \in Nat /\ \A i \in 1..k : w[i].rows = log[i].rows
    BY <1>1
  <2>2. QED
    BY <2>1, RowsOfAgrees
<1>5. RowsOf(w, n) = RowsOf(log, n)
  BY <1>1, <1>4
<1>6. QED
  BY <1>1, <1>3, <1>4, <1>5 DEF w, n

\* The larger and the smaller of two numbers.
LEMMA MaxOfTwo ==
  ASSUME NEW a \in Int, NEW b \in Int
  PROVE  Max({a, b}) = (IF a >= b THEN a ELSE b)
<1> DEFINE m == IF a >= b THEN a ELSE b
<1>1. m \in {a, b} /\ \A y \in {a, b} : m >= y
  OBVIOUS
<1>2. \A x \in {a, b} : (\A y \in {a, b} : x >= y) => x = m
  OBVIOUS
<1> HIDE DEF m
<1>3. Max({a, b}) = m
  BY <1>1, <1>2 DEF Max
<1>4. QED
  BY <1>3 DEF m

\* The larger and the smaller of two numbers.
LEMMA MinOfTwo ==
  ASSUME NEW a \in Int, NEW b \in Int
  PROVE  Min({a, b}) = (IF a <= b THEN a ELSE b)
<1> DEFINE m == IF a <= b THEN a ELSE b
<1>1. m \in {a, b} /\ \A y \in {a, b} : m =< y
  OBVIOUS
<1>2. \A x \in {a, b} : (\A y \in {a, b} : x =< y) => x = m
  OBVIOUS
<1> HIDE DEF m
<1>3. Min({a, b}) = m
  BY <1>1, <1>2 DEF Min
<1>4. QED
  BY <1>3 DEF m

\* An epoch has a slot.
LEMMA SlotIn ==
  ASSUME NEW e \in Nat
  PROVE  SlotOf(e) \in 0..(Slots - 1)
BY SourceAssumption DEF SlotOf

-----------------------------------------------------------------------------
(* What a restart finds.                                                   *)

\* The rows of the log are rows.
LEMMA LogIsRows ==
  ASSUME view \in Seq(Entries)
  PROVE  AppliedRows \in RowSeqs /\ AppliedRows = LogPrefix(Len(view))
<1>1. \A i \in 1..Len(view) : view[i].rows \in RowSeqs
  <2>1. \A e \in Entries : e.rows \in RowSeqs
    BY DEF Entries
  <2>2. \A i \in 1..Len(view) : view[i] \in Entries
    OBVIOUS
  <2>3. QED
    BY <2>1, <2>2
<1>2. QED
  BY <1>1, RowsOfRows DEF AppliedRows, LogRows, LogPrefix, RowsOf

\* A poll returns rows.
LEMMA PollGivesRows ==
  ASSUME SourceTypeOK, NEW stop \in Nat
  PROVE  /\ SeekFrom(store.cursor) \in Nat
         /\ Accepted(store.cursor, stop) \in RowSeqs
         /\ EndOffset(store.cursor, Accepted(store.cursor, stop)) \in Nat
<1> DEFINE after == store.cursor
           stash == consumer.pending # NoRow /\ consumer.pending >= after
           base == IF stash THEN consumer.pending + 1 ELSE after
           first == Max({SeekFrom(after), base})
           head == IF stash THEN <<consumer.pending>> ELSE << >>
           tail == [i \in 1..Max({0, stop - first}) |-> first + i - 1]
<1>1. after \in Nat /\ consumer.position \in Nat /\ consumer.pending \in Offsets
  BY DEF SourceTypeOK, StoreStates, Consumers
<1>2. SeekFrom(after) \in Nat
  BY <1>1 DEF SeekFrom
<1>3. base \in Nat /\ head \in RowSeqs
  BY <1>1 DEF Offsets, NoRow, RowSeqs
<1>4. first \in Nat
  <2> HIDE DEF base
  <2>1. QED
    BY <1>2, <1>3, MaxOfTwo
<1>5. tail \in RowSeqs
  <2> HIDE DEF first
  <2>1. Max({0, stop - first}) \in Nat
    BY <1>4, MaxOfTwo
  <2> DEFINE m == Max({0, stop - first})
  <2> HIDE DEF m
  <2>2. \A i \in 1..m : first + i - 1 \in Nat
    BY <1>4
  <2>3. m \in Nat
    BY <2>1 DEF m
  <2>4. [i \in 1..m |-> first + i - 1] \in Seq(Nat)
    BY <2>2, <2>3
  <2>5. QED
    BY <2>4 DEF m, RowSeqs
<1>6. Accepted(after, stop) = head \o tail
  BY DEF Accepted
<1> HIDE DEF head, tail, after
<1>7. Accepted(after, stop) \in RowSeqs
  BY <1>3, <1>5, <1>6 DEF RowSeqs
<1>8. EndOffset(after, Accepted(after, stop)) \in Nat
  <2> DEFINE r == Accepted(after, stop)
  <2>1. r \in Seq(Nat)
    BY <1>7 DEF RowSeqs
  <2> HIDE DEF r
  <2>2. EndOffset(after, r) \in Nat
    BY <1>1, <2>1 DEF EndOffset
  <2>3. QED
    BY <2>2 DEF r
<1>9. QED
  BY <1>2, <1>7, <1>8 DEF after

\* A budget spent by one is a budget, with the same byte limit and no more
\* writes and batches to fail.
LEMMA Spent ==
  ASSUME NEW l \in Budgets, NEW b \in {"writes", "acks", "batches", "consumer", "broker", "crashes", "retries"},
         l[b] > 0
  PROVE  Left([l EXCEPT ![b] = @ - 1], l)
<1> USE DEF Left
<1>1. CASE b = "writes"
  BY <1>1 DEF Budgets
<1>2. CASE b = "acks"
  BY <1>2 DEF Budgets
<1>3. CASE b = "consumer"
  BY <1>3 DEF Budgets
<1>4. CASE b = "broker"
  BY <1>4 DEF Budgets
<1>5. CASE b = "crashes"
  BY <1>5 DEF Budgets
<1>6. CASE b = "retries"
  BY <1>6 DEF Budgets
<1>7. CASE b = "batches"
  BY <1>7 DEF Budgets
<1>8. QED
  BY <1>1, <1>2, <1>3, <1>4, <1>5, <1>6, <1>7

\* A budget of which nothing is spent.
LEMMA Unspent == ASSUME NEW l \in Budgets PROVE Left(l, l)
BY DEF Left, Budgets

\* What a write or an acknowledgement spends.
LEMMA OutcomeSpent ==
  ASSUME load \in Budgets, NEW b \in {"writes", "acks"}, NEW o \in Outcomes(b), Spend(b, o)
  PROVE  /\ Left(load', load)
         /\ o \in {"ok", "failed", "late"}
         /\ o # "ok" => load[b] > 0
<1>1. o \in {"ok", "failed", "late"} /\ (o # "ok" => load[b] > 0)
  BY DEF Outcomes
<1>2. CASE o = "ok"
  <2>1. load' = load
    BY <1>2 DEF Spend
  <2>2. QED
    BY <1>1, <2>1, Unspent
<1>3. CASE o # "ok"
  <2>1. load' = [load EXCEPT ![b] = @ - 1] /\ load[b] > 0
    BY <1>1, <1>3 DEF Spend
  <2>2. QED
    BY <1>1, <2>1, Spent
<1>4. QED
  BY <1>2, <1>3

\* A commit_transaction spends one answer of the broker or none.
LEMMA CommitSpent ==
  ASSUME load \in Budgets, NEW t, CommitTransaction(t)
  PROVE  Left(load', load)
<1>1. PICK o \in CommitOutcomes :
         load' = IF o = "ok" THEN load ELSE [load EXCEPT !.broker = @ - 1]
  BY DEF CommitTransaction
<1>2. CASE o = "ok"
  BY <1>1, <1>2, Unspent
<1>3. CASE o # "ok"
  <2>1. load["broker"] > 0
    BY <1>3 DEF CommitOutcomes
  <2>2. QED
    BY <1>1, <1>3, <2>1, Spent
<1>4. QED
  BY <1>2, <1>3

\* Every step keeps the byte limit and spends budgets at most.
LEMMA LoadStep ==
  ASSUME load \in Budgets, [Next]_vars
  PROVE  Left(load', load)
<1>0. ASSUME load' = load PROVE Left(load', load)
  BY <1>0, Unspent
<1>1. CASE Produce \/ StartWorker \/ Poll \/ RefuseBatch \/ BeginCommit
  BY <1>0, <1>1 DEF Produce, StartWorker, Poll, RefuseBatch, BeginCommit
<1>2. CASE PersistIntent \/ Prepare \/ CommitM3
  <2>1. \E o \in Outcomes("writes") : Spend("writes", o)
    BY <1>2 DEF PersistIntent, Prepare, CommitM3
  <2>2. QED
    BY <2>1, OutcomeSpent
<1>3. CASE Acknowledge
  <2>1. \E o \in Outcomes("acks") : Spend("acks", o)
    BY <1>3 DEF Acknowledge
  <2>2. QED
    BY <2>1, OutcomeSpent
<1>4. CASE LifecycleUnreadable \/ Rebalance
  <2>1. load["consumer"] > 0 /\ load' = [load EXCEPT !["consumer"] = @ - 1]
    BY <1>4 DEF LifecycleUnreadable, Rebalance
  <2>2. QED
    BY <2>1, Spent
<1>5. CASE RestoreFails
  <2>1. load["writes"] > 0 /\ load' = [load EXCEPT !["writes"] = @ - 1]
    BY <1>5 DEF RestoreFails
  <2>2. QED
    BY <2>1, Spent
<1>6. CASE Connect \/ Stage \/ TransactionResolves \/ DriverGivesUp
  BY <1>0, <1>6 DEF Connect, Stage, TransactionResolves, DriverGivesUp
<1>7. CASE PersistStaged \/ ClearPending
  <2>1. \E o \in Outcomes("writes") : Spend("writes", o)
    BY <1>7 DEF PersistStaged, ClearPending
  <2>2. QED
    BY <2>1, OutcomeSpent
<1>8. CASE CommitStaged
  <2>1. CommitTransaction(open) \/ load' = load
    BY <1>8 DEF CommitStaged
  <2>2. QED
    BY <1>0, <2>1, CommitSpent
<1>9. CASE Recover
  <2> DEFINE t == [txn |-> progress.pending.txn, rows |-> progress.pending.rows, status |-> "open"]
  <2>1. PICK o \in LookupOutcomes(progress.pending) :
          \/ load' = load
          \/ CommitTransaction(t)
          \/ o = "timeout" /\ load' = [load EXCEPT !["broker"] = @ - 1]
    BY <1>9 DEF Recover
  <2>2. CASE o = "timeout" /\ load' = [load EXCEPT !["broker"] = @ - 1]
    <3>1. load["broker"] > 0
      BY <2>2 DEF LookupOutcomes
    <3>2. QED
      BY <2>2, <3>1, Spent
  <2> HIDE DEF t
  <2>3. QED
    BY <1>0, <2>1, <2>2, CommitSpent
<1>10. CASE TransactionTimesOut
  <2>1. load["broker"] > 0 /\ load' = [load EXCEPT !["broker"] = @ - 1]
    BY <1>10 DEF TransactionTimesOut
  <2>2. QED
    BY <2>1, Spent
<1>11. CASE TryAgain
  <2>1. load["retries"] > 0 /\ load' = [load EXCEPT !["retries"] = @ - 1]
    BY <1>11 DEF TryAgain
  <2>2. QED
    BY <2>1, Spent
<1>12. CASE Crash
  <2>1. load["crashes"] > 0 /\ load' = [load EXCEPT !["crashes"] = @ - 1]
    BY <1>12 DEF Crash
  <2>2. QED
    BY <2>1, Spent
<1>13. CASE UNCHANGED vars
  BY <1>0, <1>13 DEF vars
<1>14. CASE PollFails \/ ProcessFails
  <2>1. load["batches"] > 0 /\ load' = [load EXCEPT !["batches"] = @ - 1]
    BY <1>14 DEF PollFails, ProcessFails
  <2>2. QED
    BY <2>1, Spent
<1>15. QED
  BY <1>1, <1>2, <1>3, <1>4, <1>5, <1>6, <1>7, <1>8, <1>9, <1>10, <1>11, <1>12, <1>13, <1>14
     DEF Next, SourceNext, WorkerStep, SinkNext, ExporterStep

\* A step that leaves the log, the pipeline state, the cursor and the ring.
LEMMA LogKept ==
  ASSUME LogInOrder, StateMatchesLog, RingInOrder, view' = view,
         store'.frontier = store.frontier, store'.cursor = store.cursor,
         store'.state = store.state, store'.committed = store.committed
  PROVE  (LogInOrder /\ StateMatchesLog /\ RingInOrder)'
<1>1. LogInOrder'
  BY DEF LogInOrder, LogPrefix, AppliedRows, LogRows
<1>2. StateMatchesLog'
  BY DEF StateMatchesLog, AppliedRows, LogRows
<1>3. RingInOrder'
  BY DEF RingInOrder
<1>4. QED
  BY <1>1, <1>2, <1>3

\* What the store holds initially.
LEMMA RecoveryInit ==
  ASSUME Init
  PROVE  RecoveryInv
<1> USE SourceAssumption
<1>1. SourceTypeOK
  <2>1. Loads \subseteq Budgets
    BY DEF Budgets
  <2>2. store \in StoreStates
    BY DEF Init, SourceInit, StoreStates, Phases, RowSeqs, Checkpoints, NoCheckpoint
  <2>3. job \in Jobs /\ consumer \in Consumers /\ runtime \in Runtimes
    BY DEF Init, SourceInit, Jobs, NoJob, Phases, RowSeqs, Consumers, Offsets, NoRow, Runtimes
  <2>4. view \in Seq(Entries) /\ pipeline \in RowSeqs /\ load \in Budgets
    BY <2>1 DEF Init, SourceInit, RowSeqs
  <2>5. QED
    BY <2>2, <2>3, <2>4 DEF Init, SourceInit, SourceTypeOK, Places
<1>2. view = <<>> /\ Len(view) = 0 /\ DOMAIN view = {}
  BY DEF Init, SourceInit
<1>3. LogPrefix(0) = <<>> /\ AppliedRows = <<>>
  BY <1>1, <1>2, LogIsRows, RowsOfNone DEF LogPrefix, SourceTypeOK
<1>4. LogInOrder
  <2>1. \A k \in 0..Len(view) : k = 0
    BY <1>2
  <2>2. LogPrefix(0) \in RowSeqs /\ Len(LogPrefix(0)) <= Len(AppliedRows)
          /\ LogPrefix(0) = SubSeq(AppliedRows, 1, Len(LogPrefix(0)))
    <3>0. <<>> \in RowSeqs
      BY DEF RowSeqs
    <3>1. PICK e \in RowSeqs : e = <<>>
      BY <3>0
    <3>2. Len(e) <= Len(e) /\ e = SubSeq(e, 1, Len(e))
      BY <3>1 DEF RowSeqs
    <3>3. LogPrefix(0) = e /\ AppliedRows = e
      BY <1>3, <3>1
    <3>4. QED
      BY <3>2, <3>3, Zenon
  <2>3. QED
    BY <1>2, <2>1, <2>2 DEF LogInOrder
<1>5. StateMatchesLog /\ PipelineFollows
  BY <1>3 DEF Init, SourceInit, StateMatchesLog, PipelineFollows
<1>6. RingInOrder
  <2>1. SlotOf(0) \in 0..(Slots - 1)
    BY SlotIn
  <2>2. QED
    BY <2>1 DEF Init, SourceInit, RingInOrder, NoCheckpoint
<1>7. QED
  BY <1>1, <1>4, <1>5, <1>6 DEF RecoveryInv

\* A step of the sink leaves the source alone.
LEMMA RecoveryFrame ==
  ASSUME RecoveryInv, load' \in Budgets, UNCHANGED sourceVars
  PROVE  RecoveryInv'
<1>1. SourceTypeOK'
  BY DEF RecoveryInv, SourceTypeOK, sourceVars
<1>2. PipelineFollows'
  BY DEF RecoveryInv, PipelineFollows, sourceVars
<1>3. (LogInOrder /\ StateMatchesLog /\ RingInOrder)'
  BY LogKept DEF RecoveryInv, sourceVars
<1>4. QED
  BY <1>1, <1>2, <1>3 DEF RecoveryInv

\* A new process starts from the store.
LEMMA RecoveryRestart ==
  ASSUME RecoveryInv, load' \in Budgets, ProcessRestarts
  PROVE  RecoveryInv'
<1>1. SourceTypeOK'
  <2>1. consumer' \in Consumers /\ runtime' \in Runtimes /\ job' \in Jobs
    BY DEF RecoveryInv, SourceTypeOK, ProcessRestarts, FreshConsumer, Consumers, Runtimes,
           Offsets, NoRow, Jobs, NoJob, Phases, RowSeqs
  <2>2. pipeline' \in RowSeqs /\ allocated' \in Nat /\ worker' \in Places
    BY DEF RecoveryInv, SourceTypeOK, ProcessRestarts, StoreStates, Places
  <2>3. dirty' \in BOOLEAN
    BY Zenon DEF ProcessRestarts
  <2>4. QED
    BY <2>1, <2>2, <2>3 DEF RecoveryInv, SourceTypeOK, ProcessRestarts
<1>2. PipelineFollows'
  BY DEF RecoveryInv, PipelineFollows, ProcessRestarts, SourceTypeOK, StoreStates
<1>3. (LogInOrder /\ StateMatchesLog /\ RingInOrder)'
  BY LogKept DEF RecoveryInv, ProcessRestarts
<1>4. QED
  BY <1>1, <1>2, <1>3 DEF RecoveryInv

\* The checkpoint recovery finds is the one of the frontier.
LEMMA HighestIsFrontier ==
  ASSUME RecoveryInv
  PROVE  HighestCommitted(store) = [epoch |-> store.frontier, offset |-> store.cursor]
<1> DEFINE all == { store.committed[s] : s \in 0..(Slots - 1) }
           f == SlotOf(store.frontier)
           c == store.committed[f]
<1>1. /\ store.frontier \in Nat /\ store.cursor \in Nat
      /\ store.committed \in [0..(Slots - 1) -> Checkpoints]
  BY DEF RecoveryInv, SourceTypeOK, StoreStates
<1>2. f \in 0..(Slots - 1) /\ c \in all
  BY <1>1, SlotIn
<1>3. c \in Checkpoints /\ c.epoch = store.frontier /\ c.offset = store.cursor
  BY <1>1, <1>2 DEF RecoveryInv, RingInOrder
<1>4. c = [epoch |-> store.frontier, offset |-> store.cursor]
  BY <1>3 DEF Checkpoints
<1>5. \A d \in all : d.epoch <= c.epoch
  BY <1>3 DEF RecoveryInv, RingInOrder
<1>6. ASSUME NEW d \in all, \A x \in all : x.epoch <= d.epoch
      PROVE  d = c
  <2>1. PICK s \in 0..(Slots - 1) : d = store.committed[s]
    OBVIOUS
  <2>2. d \in Checkpoints /\ d.epoch \in Nat /\ d.offset \in Nat
    BY <1>1, <2>1 DEF Checkpoints
  <2>3. d.epoch = store.frontier
    <3>1. d.epoch <= c.epoch /\ c.epoch <= d.epoch
      BY <1>2, <1>5, <1>6
    <3>2. QED
      BY <1>1, <1>3, <2>2, <3>1
  <2>4. CASE store.frontier # 0
    BY <2>1, <2>3, <2>4 DEF RecoveryInv, RingInOrder
  <2>5. CASE store.frontier = 0
    <3>1. d.offset = 0
      BY <2>1, <2>3, <2>5 DEF RecoveryInv, RingInOrder
    <3>2. c.offset = 0
      BY <1>2, <1>3, <2>5 DEF RecoveryInv, RingInOrder
    <3>3. QED
      BY <1>3, <2>2, <2>3, <3>1, <3>2 DEF Checkpoints
  <2>6. QED
    BY <2>4, <2>5
<1> HIDE DEF all, c
<1>7. (CHOOSE d \in all : \A x \in all : x.epoch <= d.epoch) = c
  BY <1>2, <1>5, <1>6
<1>8. QED
  BY <1>4, <1>7 DEF HighestCommitted, all

\* What AfterError yields is a place.
LEMMA AfterErrorPlace == AfterError \in {"poll", "stopped"}
BY DEF AfterError

\* No batch in hand.
LEMMA NoJobIsJob == NoJob \in Jobs
BY DEF NoJob, Jobs, Phases, RowSeqs

\* A step of the worker that neither commits nor touches the pipeline, and
\* that does not enter the commit.
Aside ==
    /\ UNCHANGED <<view, store, pipeline, dirty, allocated>>
    /\ produced' \in Nat /\ acked' \in Nat /\ consumer' \in Consumers
    /\ job' \in Jobs
    /\ runtime' \in Runtimes /\ runtime'.epoch <= store.frontier
    /\ \/ worker' \in {"intent", "poll", "begin", "start", "stopped"}
       \/ UNCHANGED <<worker, job, runtime>>

\* Such a step keeps what recovery relies on.
LEMMA RecoveryAside ==
  ASSUME RecoveryInv, load' \in Budgets, Aside
  PROVE  RecoveryInv'
<1>1. SourceTypeOK'
  BY DEF RecoveryInv, SourceTypeOK, Places, Aside
<1>2. PipelineFollows'
  <2>1. CASE worker' \in {"intent", "poll", "begin", "start", "stopped"}
    BY <2>1 DEF RecoveryInv, PipelineFollows, Aside
  <2>2. CASE UNCHANGED <<worker, job, runtime>>
    BY <2>2 DEF RecoveryInv, PipelineFollows, Aside
  <2>3. QED
    BY <2>1, <2>2 DEF Aside
<1>3. (LogInOrder /\ StateMatchesLog /\ RingInOrder)'
  BY LogKept DEF RecoveryInv, Aside
<1>4. QED
  BY <1>1, <1>2, <1>3 DEF RecoveryInv

\* The steps around the commit.
LEMMA RecoveryWorker ==
  ASSUME RecoveryInv, load' \in Budgets,
         \/ Produce \/ StartWorker \/ Poll \/ PollFails \/ RefuseBatch
         \/ LifecycleUnreadable \/ RestoreFails \/ Rebalance
  PROVE  RecoveryInv'
<1>0. SourceTypeOK /\ runtime.epoch <= store.frontier
  BY DEF RecoveryInv, PipelineFollows
<1>1. CASE Produce
  <2>1. Aside
    BY <1>0, <1>1 DEF Aside, Produce, SourceTypeOK
  <2>2. QED
    BY <2>1, RecoveryAside
<1>2. CASE StartWorker
  <2>1. HighestCommitted(store).epoch = store.frontier /\ store.frontier \in Nat
    BY <1>0, HighestIsFrontier DEF SourceTypeOK, StoreStates
  <2>2. (store.phase = "Running") \in BOOLEAN
    OBVIOUS
  <2>3. runtime' \in Runtimes /\ runtime'.epoch <= store.frontier
    BY <1>2, <2>1, <2>2 DEF StartWorker, Runtimes
  <2>4. consumer' \in Consumers
    BY <1>0, <1>2 DEF StartWorker, FreshConsumer, Consumers, Offsets, NoRow, SourceTypeOK
  <2>5. worker' \in {"intent", "poll"}
    BY <1>2 DEF StartWorker
  <2>6. Aside
    BY <1>0, <1>2, <2>3, <2>4, <2>5 DEF Aside, StartWorker, SourceTypeOK, Places
  <2>7. QED
    BY <2>6, RecoveryAside
<1>3. CASE Poll
  <2> DEFINE after == store.cursor
  <2>1. PICK stop \in SeekFrom(after)..Max({SeekFrom(after), produced}) :
          /\ \E p \in {stop, NoRow} :
               consumer' = [position   |-> ReadTo(stop, p),
                            pending    |-> p,
                            lastPolled |-> EndOffset(after, Accepted(after, stop))]
          /\ \/ UNCHANGED <<worker, job>>
             \/ /\ worker' = "begin"
                /\ job' = [epoch |-> 0, offset |-> EndOffset(after, Accepted(after, stop)),
                           rows |-> Accepted(after, stop),
                           phase |-> IF Accepted(after, stop) = << >> \/ runtime.live
                                     THEN "Running" ELSE "CatchingUp"]
    BY <1>3 DEF Poll, Stops, Stashable
  <2>2. SeekFrom(after) \in Nat /\ produced \in Nat
    BY <1>0, PollGivesRows DEF SourceTypeOK
  <2>3. stop \in Nat
    BY <2>1, <2>2, MaxOfTwo
  <2>4. Accepted(after, stop) \in RowSeqs /\ EndOffset(after, Accepted(after, stop)) \in Nat
    BY <1>0, <2>3, PollGivesRows
  <2>5. consumer' \in Consumers
    BY <2>1, <2>3, <2>4 DEF Consumers, Offsets, ReadTo
  <2>6. job' \in Jobs /\ worker' \in Places /\ worker' \in {"poll", "begin"}
    BY <1>0, <1>3, <2>1, <2>4 DEF Jobs, Places, Phases, Poll, SourceTypeOK
  <2>7. UNCHANGED <<produced, acked, store, view, runtime, pipeline, dirty, allocated>>
    BY <1>3 DEF Poll
  <2> HIDE DEF after
  <2>8. Aside
    BY <1>0, <2>5, <2>6, <2>7 DEF Aside, SourceTypeOK
  <2>9. QED
    BY <2>8, RecoveryAside
<1>4. CASE PollFails
  <2>1. SeekFrom(store.cursor) \in Nat /\ produced \in Nat /\ store.cursor \in Nat
    BY <1>0, PollGivesRows DEF SourceTypeOK, StoreStates
  <2>2. Stops(store.cursor) \subseteq Nat
    BY <2>1, MaxOfTwo DEF Stops
  <2>3. consumer' \in Consumers
    <3>1. CASE UNCHANGED consumer
      BY <1>0, <3>1 DEF SourceTypeOK
    <3>2. CASE \E stop \in Stops(store.cursor), sought \in BOOLEAN :
               \E p \in Stashable(store.cursor, stop) :
                 consumer' = [position   |-> IF sought THEN store.cursor ELSE ReadTo(stop, p),
                              pending    |-> p,
                              lastPolled |-> IF sought THEN store.cursor ELSE NoRow]
      <4>1. PICK stop \in Stops(store.cursor), sought \in BOOLEAN :
              \E p \in {stop, NoRow} :
                 consumer' = [position   |-> IF sought THEN store.cursor ELSE ReadTo(stop, p),
                              pending    |-> p,
                              lastPolled |-> IF sought THEN store.cursor ELSE NoRow]
        BY <3>2 DEF Stashable
      <4>2. QED
        BY <2>1, <2>2, <4>1 DEF Consumers, Offsets, ReadTo
    <3>3. QED
      BY <1>4, <3>1, <3>2 DEF PollFails
  <2>4. worker' \in {"poll", "stopped"}
    BY <1>4, AfterErrorPlace DEF PollFails
  <2>5. Aside
    BY <1>0, <1>4, <2>3, <2>4 DEF Aside, PollFails, SourceTypeOK, Places
  <2>6. QED
    BY <2>5, RecoveryAside
<1>5. CASE LifecycleUnreadable
  <2>1. Aside
    BY <1>0, <1>5 DEF Aside, LifecycleUnreadable, SourceTypeOK
  <2>2. QED
    BY <2>1, RecoveryAside
<1>6. CASE RestoreFails
  <2>1. worker' \in {"poll", "stopped"} /\ job' \in Jobs
    BY <1>6, AfterErrorPlace, NoJobIsJob DEF RestoreFails
  <2>2. Aside
    BY <1>0, <1>6, <2>1 DEF Aside, RestoreFails, SourceTypeOK, Places
  <2>3. QED
    BY <2>2, RecoveryAside
<1>7. CASE Rebalance
  <2>1. consumer' \in Consumers
    BY <1>0, <1>7 DEF Rebalance, Consumers, Offsets, SourceTypeOK
  <2>2. Aside
    BY <1>0, <1>7, <2>1 DEF Aside, Rebalance, SourceTypeOK
  <2>3. QED
    BY <2>2, RecoveryAside
<1>8. CASE RefuseBatch
  <2>1. worker' \in {"poll", "stopped"} /\ job' \in Jobs
    BY <1>8, AfterErrorPlace, NoJobIsJob DEF RefuseBatch
  <2>2. Aside
    BY <1>0, <1>8, <2>1 DEF Aside, RefuseBatch, SourceTypeOK, Places
  <2>3. QED
    BY <2>2, RecoveryAside
<1>9. QED
  BY <1>1, <1>2, <1>3, <1>4, <1>5, <1>6, <1>7, <1>8

\* The intent and the prepared record touch nothing recovery reads.
LEMMA RecoveryIntent ==
  ASSUME RecoveryInv, load' \in Budgets, PersistIntent
  PROVE  RecoveryInv'
<1>0. SourceTypeOK
  BY DEF RecoveryInv
<1>1. PICK o \in Outcomes("writes") :
        /\ store' = IF Lands(o) THEN [store EXCEPT !.phase = "Snapshotting"] ELSE store
        /\ worker' = IF o = "ok" THEN "poll" ELSE "stopped"
  BY DEF PersistIntent
<1>2. /\ store' \in StoreStates /\ store'.frontier = store.frontier /\ store'.cursor = store.cursor
      /\ store'.state = store.state /\ store'.committed = store.committed
  BY <1>0, <1>1 DEF SourceTypeOK, StoreStates, Phases
<1>3. SourceTypeOK'
  BY <1>0, <1>1, <1>2 DEF SourceTypeOK, PersistIntent, Places
<1>4. PipelineFollows'
  BY <1>1, <1>2 DEF RecoveryInv, PipelineFollows, PersistIntent
<1>5. (LogInOrder /\ StateMatchesLog /\ RingInOrder)'
  BY <1>2, LogKept DEF RecoveryInv, PersistIntent
<1>6. QED
  BY <1>3, <1>4, <1>5 DEF RecoveryInv

\* The batch runs through a pipeline that has been restored if need be.
LEMMA RecoveryBegin ==
  ASSUME RecoveryInv, load' \in Budgets, BeginCommit
  PROVE  RecoveryInv'
<1> DEFINE epoch == Max({allocated, store.frontier}) + 1
<1>0. SourceTypeOK
  BY DEF RecoveryInv
<1>1. epoch \in Nat /\ epoch > store.frontier
  BY <1>0, MaxOfTwo DEF SourceTypeOK, StoreStates
<1>2. /\ allocated' = epoch /\ dirty' = TRUE
      /\ pipeline' = RestoredPipeline \o job.rows
      /\ \/ worker' = AfterError /\ job' = NoJob
         \/ worker' = "prepare" /\ job' = [job EXCEPT !.epoch = epoch]
      /\ UNCHANGED <<produced, acked, consumer, store, view, runtime, load>>
  BY DEF BeginCommit
<1> HIDE DEF epoch
<1>3. RestoredPipeline = store.state /\ store.state \in RowSeqs /\ job.rows \in RowSeqs
  BY <1>0 DEF RestoredPipeline, RecoveryInv, PipelineFollows, SourceTypeOK, StoreStates, Jobs
<1>4. pipeline' \in RowSeqs
  BY <1>2, <1>3 DEF RowSeqs
<1>5. job' \in Jobs /\ worker' \in Places /\ worker' \notin {"m3", "ack"}
  <2>1. CASE worker' = AfterError /\ job' = NoJob
    BY <2>1, AfterErrorPlace, NoJobIsJob DEF Places
  <2>2. CASE worker' = "prepare" /\ job' = [job EXCEPT !.epoch = epoch]
    BY <1>0, <1>1, <2>2 DEF SourceTypeOK, Jobs, Places
  <2>3. QED
    BY <1>2, <2>1, <2>2
<1>6. dirty' \in BOOLEAN
  BY <1>2, Zenon
<1>7. SourceTypeOK'
  BY <1>0, <1>1, <1>2, <1>4, <1>5, <1>6 DEF SourceTypeOK
<1>8. worker' = "prepare" => job'.epoch = epoch /\ job'.rows = job.rows
  BY <1>0, <1>2, AfterErrorPlace DEF SourceTypeOK, Jobs
<1>9. PipelineFollows'
  BY <1>1, <1>2, <1>3, <1>5, <1>8 DEF RecoveryInv, PipelineFollows
<1>10. (LogInOrder /\ StateMatchesLog /\ RingInOrder)'
  BY <1>2, LogKept DEF RecoveryInv
<1>11. QED
  BY <1>7, <1>9, <1>10 DEF RecoveryInv

\* A batch that fails in the pipeline leaves it as the store has it, or dirty.
LEMMA RecoveryProcess ==
  ASSUME RecoveryInv, load' \in Budgets, ProcessFails
  PROVE  RecoveryInv'
<1> DEFINE epoch == Max({allocated, store.frontier}) + 1
<1>0. SourceTypeOK
  BY DEF RecoveryInv
<1>1. epoch \in Nat
  BY <1>0, MaxOfTwo DEF SourceTypeOK, StoreStates
<1>2. /\ allocated' = epoch
      /\ \/ dirty' = FALSE /\ pipeline' = RestoredPipeline
         \/ dirty' = TRUE /\ pipeline' \in {RestoredPipeline, RestoredPipeline \o job.rows}
      /\ worker' = AfterError /\ job' = NoJob
      /\ UNCHANGED <<produced, acked, consumer, store, view, runtime>>
  BY DEF ProcessFails
<1> HIDE DEF epoch
<1>3. RestoredPipeline = store.state /\ store.state \in RowSeqs /\ job.rows \in RowSeqs
  BY <1>0 DEF RestoredPipeline, RecoveryInv, PipelineFollows, SourceTypeOK, StoreStates, Jobs
<1>4. pipeline' \in RowSeqs
  <2>1. pipeline' \in {RestoredPipeline, RestoredPipeline \o job.rows}
    BY <1>2, Zenon
  <2>2. QED
    <3>1. RestoredPipeline \o job.rows \in RowSeqs
      BY <1>3 DEF RowSeqs
    <3>2. QED
      BY <1>3, <2>1, <3>1
<1>5. job' \in Jobs /\ worker' \in {"poll", "stopped"}
  BY <1>2, AfterErrorPlace, NoJobIsJob
<1>6. dirty' \in BOOLEAN
  BY <1>2, Zenon
<1>7. SourceTypeOK'
  BY <1>0, <1>1, <1>2, <1>4, <1>5, <1>6 DEF SourceTypeOK, Places
<1>8. PipelineFollows'
  <2>1. ~dirty' => pipeline' = store.state
    BY <1>2, <1>3, Zenon
  <2>2. QED
    BY <1>2, <1>5, <2>1 DEF RecoveryInv, PipelineFollows
<1>9. (LogInOrder /\ StateMatchesLog /\ RingInOrder)'
  BY <1>2, LogKept DEF RecoveryInv
<1>10. QED
  BY <1>7, <1>8, <1>9 DEF RecoveryInv

\* A prepared record is not a committed one.
LEMMA RecoveryPrepare ==
  ASSUME RecoveryInv, load' \in Budgets, Prepare
  PROVE  RecoveryInv'
<1>0. SourceTypeOK /\ worker = "prepare"
  BY DEF RecoveryInv, Prepare
<1>1. PICK o \in Outcomes("writes") :
        /\ store' = IF Lands(o) THEN WithPrepared(store, job) ELSE store
        /\ \/ /\ runtime' = [runtime EXCEPT !.inFlight = @ + 1]
              /\ worker' = "m3" /\ job' = job
           \/ worker' = AfterError /\ job' = NoJob /\ runtime' = runtime
  BY DEF Prepare
<1>2. /\ store' \in StoreStates /\ store'.frontier = store.frontier /\ store'.cursor = store.cursor
      /\ store'.state = store.state /\ store'.committed = store.committed
  <2>1. job.epoch \in Nat /\ job.offset \in Nat
    BY <1>0 DEF SourceTypeOK, Jobs
  <2>2. [epoch |-> job.epoch, offset |-> job.offset] \in Checkpoints
    BY <2>1 DEF Checkpoints
  <2>3. QED
    BY <1>0, <1>1, <2>2 DEF SourceTypeOK, StoreStates, WithPrepared
<1>3. job' \in Jobs /\ runtime' \in Runtimes /\ worker' \in {"poll", "stopped", "m3"}
  BY <1>0, <1>1, AfterErrorPlace, NoJobIsJob DEF SourceTypeOK, Runtimes
<1>4. SourceTypeOK'
  BY <1>0, <1>2, <1>3 DEF SourceTypeOK, Prepare, Places
<1>5. /\ runtime'.epoch = runtime.epoch
      /\ worker' = "m3" => runtime'.inFlight > 0 /\ job' = job
  BY <1>0, <1>1, AfterErrorPlace DEF SourceTypeOK, Runtimes
<1>6. PipelineFollows'
  BY <1>0, <1>2, <1>3, <1>5 DEF RecoveryInv, PipelineFollows, Prepare
<1>7. (LogInOrder /\ StateMatchesLog /\ RingInOrder)'
  BY <1>2, LogKept DEF RecoveryInv, Prepare
<1>8. QED
  BY <1>4, <1>6, <1>7 DEF RecoveryInv

\* The acknowledgement touches nothing durable.
LEMMA RecoveryAcknowledge ==
  ASSUME RecoveryInv, load' \in Budgets, Acknowledge
  PROVE  RecoveryInv'
<1>0. SourceTypeOK /\ worker = "ack" /\ runtime.inFlight > 0 /\ pipeline = store.state
  BY DEF RecoveryInv, Acknowledge, PipelineFollows
<1>1. PICK o \in Outcomes("acks") :
        /\ acked' = IF Lands(o) THEN AckOffset ELSE acked
        /\ \/ /\ runtime' = GiveBack(runtime) /\ dirty' = FALSE
              /\ worker' \in {"start", "poll"}
           \/ worker' = AfterError /\ UNCHANGED <<runtime, dirty>>
  BY DEF Acknowledge
<1>2. acked' \in Nat /\ job' \in Jobs /\ worker' \in {"start", "poll", "stopped"}
  BY <1>0, <1>1, AfterErrorPlace, NoJobIsJob DEF AckOffset, Acknowledge, SourceTypeOK, Jobs
<1>3. runtime' \in Runtimes /\ runtime'.epoch = runtime.epoch
  BY <1>0, <1>1 DEF SourceTypeOK, Runtimes, GiveBack
<1>4. dirty' \in BOOLEAN
  BY <1>0, <1>1, Zenon DEF SourceTypeOK
<1>5. SourceTypeOK'
  BY <1>0, <1>2, <1>3, <1>4 DEF SourceTypeOK, Acknowledge, Places
<1>6. PipelineFollows'
  BY <1>0, <1>2, <1>3 DEF RecoveryInv, PipelineFollows, Acknowledge
<1>7. (LogInOrder /\ StateMatchesLog /\ RingInOrder)'
  BY LogKept DEF RecoveryInv, Acknowledge
<1>8. QED
  BY <1>5, <1>6, <1>7 DEF RecoveryInv

\* What one epoch more does to the rows of the log.
LEMMA LogAppended ==
  ASSUME view \in Seq(Entries), NEW e \in Entries, view' = Append(view, e)
  PROVE  /\ AppliedRows' = AppliedRows \o e.rows
         /\ AppliedRows' = RowsOf(view', Len(view) + 1)
         /\ \A k \in 0..Len(view) : RowsOf(view', k) = LogPrefix(k)
         /\ Len(view') = Len(view) + 1 /\ view' \in Seq(Entries)
         /\ view'[Len(view) + 1] = e /\ \A i \in 1..Len(view) : view'[i] = view[i]
<1>1. \A x \in Entries : x.rows \in RowSeqs
  BY DEF Entries
<1>2. /\ Len(view') = Len(view) + 1 /\ view' \in Seq(Entries)
      /\ view'[Len(view) + 1] = e /\ \A i \in 1..Len(view) : view'[i] = view[i]
  OBVIOUS
<1>3. /\ RowsOf(view', Len(view')) = RowsOf(view, Len(view)) \o e.rows
      /\ \A k \in 0..Len(view) : RowsOf(view', k) = RowsOf(view, k)
  BY <1>1, RowsOfAppend, Zenon
<1>4. AppliedRows = RowsOf(view, Len(view)) /\ AppliedRows' = RowsOf(view', Len(view'))
  BY DEF AppliedRows, LogRows, RowsOf
<1>5. QED
  BY <1>2, <1>3, <1>4 DEF LogPrefix

\* A prefix of rows stays one when rows are appended.
LEMMA PrefixKept ==
  ASSUME NEW a \in RowSeqs, NEW b \in RowSeqs, NEW n \in 0..Len(a)
  PROVE  /\ SubSeq(a, 1, n) = SubSeq(a \o b, 1, n)
         /\ Len(a) <= Len(a \o b) /\ SubSeq(a \o b, 1, Len(a)) = a
         /\ a = SubSeq(a, 1, Len(a))
<1>1. a \o b \in Seq(Nat) /\ Len(a \o b) = Len(a) + Len(b) /\ Len(a) \in Nat /\ Len(b) \in Nat
  BY DEF RowSeqs
<1>2. \A i \in 1..Len(a) : (a \o b)[i] = a[i]
  BY DEF RowSeqs
<1>3. SubSeq(a, 1, n) = [i \in 1..n |-> a[i]]
  BY DEF RowSeqs
<1>4. SubSeq(a \o b, 1, n) = [i \in 1..n |-> (a \o b)[i]]
  BY <1>1 DEF RowSeqs
<1>5. SubSeq(a \o b, 1, Len(a)) = [i \in 1..Len(a) |-> (a \o b)[i]]
  BY <1>1 DEF RowSeqs
<1>6. a = [i \in 1..Len(a) |-> a[i]] /\ a = SubSeq(a, 1, Len(a))
  BY DEF RowSeqs
<1>7. [i \in 1..n |-> a[i]] = [i \in 1..n |-> (a \o b)[i]]
  BY <1>1, <1>2
<1>8. [i \in 1..Len(a) |-> a[i]] = [i \in 1..Len(a) |-> (a \o b)[i]]
  BY <1>2
<1>9. QED
  BY <1>1, <1>3, <1>4, <1>5, <1>6, <1>7, <1>8

\* An M3 write that lands: what it leaves in the store.
LEMMA CommittedStore ==
  ASSUME SourceTypeOK, store' = WithCommitted(store, job)
  PROVE  /\ store' \in StoreStates
         /\ store'.frontier = job.epoch /\ store'.cursor = job.offset /\ store'.state = pipeline
         /\ store'.committed = [store.committed EXCEPT ![SlotOf(job.epoch)] =
                                    [epoch |-> job.epoch, offset |-> job.offset]]
<1>1. /\ job.epoch \in Nat /\ job.offset \in Nat /\ job.phase \in Phases /\ pipeline \in RowSeqs
      /\ store \in StoreStates
  BY DEF SourceTypeOK, Jobs
<1>2. [epoch |-> job.epoch, offset |-> job.offset] \in Checkpoints /\ NoCheckpoint \in Checkpoints
  BY <1>1 DEF Checkpoints, NoCheckpoint
<1>3. QED
  BY <1>1, <1>2 DEF StoreStates, WithCommitted

\* The log and the state after an M3 write that lands.
LEMMA CommittedLog ==
  ASSUME RecoveryInv, worker = "m3", store' = WithCommitted(store, job),
         view' = IF job.rows = << >> THEN view
                 ELSE Append(view, [epoch |-> job.epoch, rows |-> job.rows])
  PROVE  view' \in Seq(Entries) /\ (LogInOrder /\ StateMatchesLog)' /\ AppliedRows' = AppliedRows \o job.rows
<1>0. SourceTypeOK /\ view \in Seq(Entries) /\ job.rows \in RowSeqs /\ job.epoch \in Nat /\ store.frontier \in Nat
  BY DEF RecoveryInv, SourceTypeOK, Jobs, StoreStates
<1>1. /\ store'.frontier = job.epoch /\ store'.state = pipeline
      /\ pipeline = store.state \o job.rows /\ job.epoch > store.frontier
      /\ store.state = AppliedRows /\ AppliedRows \in RowSeqs
  BY <1>0, CommittedStore, LogIsRows DEF RecoveryInv, PipelineFollows, StateMatchesLog
<1>2. \A i \in DOMAIN view : view[i].epoch \in Nat
  <2>1. \A x \in Entries : x.epoch \in Nat
    BY DEF Entries
  <2>2. \A i \in DOMAIN view : view[i] \in Entries
    BY <1>0
  <2>3. QED
    BY <2>1, <2>2
<1>3. CASE job.rows = << >>
  <2>1. view' = view /\ AppliedRows' = AppliedRows
    BY <1>3 DEF AppliedRows, LogRows
  <2>2. AppliedRows \o job.rows = AppliedRows
    BY <1>1, <1>3 DEF RowSeqs
  <2>3. \A i \in DOMAIN view : 0 < view[i].epoch /\ view[i].epoch <= job.epoch
    <3>1. \A a, b, c \in Nat : a <= b /\ b < c => a <= c
      OBVIOUS
    <3>2. QED
      BY <1>0, <1>1, <1>2, <3>1 DEF RecoveryInv, LogInOrder
  <2>4. LogInOrder'
    BY <1>1, <2>1, <2>3 DEF RecoveryInv, LogInOrder, LogPrefix
  <2>5. QED
    BY <1>0, <1>1, <2>1, <2>2, <2>4 DEF StateMatchesLog
<1>4. CASE job.rows # << >>
  <2> DEFINE e == [epoch |-> job.epoch, rows |-> job.rows]
             n == Len(view)
  <2>1. e \in Entries /\ e.rows = job.rows /\ e.epoch = job.epoch
    BY <1>0 DEF Entries
  <2>2. view' = Append(view, e)
    BY <1>4
  <2> HIDE DEF e
  <2>3. /\ AppliedRows' = AppliedRows \o job.rows
        /\ AppliedRows' = RowsOf(view', n + 1)
        /\ \A k \in 0..n : RowsOf(view', k) = LogPrefix(k)
        /\ Len(view') = n + 1 /\ view' \in Seq(Entries)
        /\ view'[n + 1] = e /\ \A i \in 1..n : view'[i] = view[i]
    BY <1>0, <2>1, <2>2, LogAppended
  <2>4. n \in Nat /\ DOMAIN view = 1..n /\ DOMAIN view' = 1..(n + 1)
    BY <1>0, <2>3
  <2> HIDE DEF n
  <2>5. ASSUME NEW i \in DOMAIN view' PROVE 0 < view'[i].epoch /\ view'[i].epoch <= store'.frontier
    <3>1. CASE i = n + 1
      BY <1>0, <1>1, <2>1, <2>3, <3>1
    <3>2. CASE i \in 1..n
      <4>1. view'[i] = view[i] /\ 0 < view[i].epoch /\ view[i].epoch <= store.frontier /\ view[i].epoch \in Nat
        BY <1>2, <2>3, <2>4, <3>2 DEF RecoveryInv, LogInOrder
      <4>2. \A a, b, c \in Nat : a <= b /\ b < c => a <= c
        OBVIOUS
      <4>3. QED
        BY <1>0, <1>1, <4>1, <4>2
    <3>3. QED
      BY <2>4, <3>1, <3>2
  <2>6. ASSUME NEW i \in DOMAIN view', NEW k \in DOMAIN view', i < k
        PROVE  view'[i].epoch < view'[k].epoch
    <3>1. i \in 1..n /\ view'[i] = view[i] /\ view[i].epoch <= store.frontier /\ view[i].epoch \in Nat
      <4>1. i \in 1..n
        BY <2>4, <2>6
      <4>2. QED
        BY <1>2, <2>3, <2>4, <4>1 DEF RecoveryInv, LogInOrder
    <3>2. CASE k = n + 1
      <4>1. \A a, b, c \in Nat : a <= b /\ b < c => a < c
        OBVIOUS
      <4>2. QED
        BY <1>0, <1>1, <2>1, <2>3, <3>1, <3>2, <4>1
    <3>3. CASE k \in 1..n
      BY <2>3, <2>4, <2>6, <3>1, <3>3 DEF RecoveryInv, LogInOrder
    <3>4. QED
      BY <2>4, <3>2, <3>3
  <2>7. ASSUME NEW k \in 0..Len(view')
        PROVE  /\ RowsOf(view', k) \in RowSeqs /\ Len(RowsOf(view', k)) <= Len(AppliedRows')
               /\ RowsOf(view', k) = SubSeq(AppliedRows', 1, Len(RowsOf(view', k)))
    <3>1. AppliedRows' \in RowSeqs /\ Len(AppliedRows') \in Nat
      <4>1. \A a, b \in RowSeqs : a \o b \in RowSeqs /\ Len(a \o b) \in Nat
        BY DEF RowSeqs
      <4>2. QED
        BY <1>0, <1>1, <2>3, <4>1
    <3>2. CASE k = n + 1
      <4> DEFINE a == AppliedRows'
      <4>1. RowsOf(view', k) = a /\ a \in RowSeqs
        BY <2>3, <3>1, <3>2
      <4> HIDE DEF a
      <4>2. a \in Seq(Nat) /\ Len(a) <= Len(a) /\ a = SubSeq(a, 1, Len(a))
        BY <4>1 DEF RowSeqs
      <4>3. QED
        BY <4>1, <4>2, Zenon DEF a
    <3>3. CASE k \in 0..n
      <4> DEFINE p == LogPrefix(k)
                 a == AppliedRows
      <4>1. p \in RowSeqs /\ Len(p) <= Len(a) /\ p = SubSeq(a, 1, Len(p))
        BY <3>3 DEF RecoveryInv, LogInOrder, n
      <4>2. RowsOf(view', k) = p /\ AppliedRows' = a \o job.rows /\ a \in RowSeqs
        BY <1>1, <2>3, <3>3
      <4> HIDE DEF p, a
      <4>3. Len(p) \in Nat /\ Len(a) \in Nat
        BY <4>1, <4>2 DEF RowSeqs
      <4>4. Len(p) \in 0..Len(a)
        BY <4>1, <4>3
      <4>5. SubSeq(a, 1, Len(p)) = SubSeq(a \o job.rows, 1, Len(p)) /\ Len(a) <= Len(a \o job.rows)
        BY <1>0, <4>2, <4>4, PrefixKept
      <4>6. Len(p) <= Len(a \o job.rows)
        BY <3>1, <4>1, <4>2, <4>3, <4>5
      <4>7. QED
        BY <4>1, <4>2, <4>5, <4>6
    <3>4. QED
      BY <2>3, <2>4, <3>2, <3>3
  <2>8. LogInOrder'
    BY <2>5, <2>6, <2>7 DEF LogInOrder, LogPrefix
  <2>9. QED
    BY <1>1, <2>3, <2>8 DEF StateMatchesLog
<1>5. QED
  BY <1>3, <1>4

\* The ring after an M3 write that lands.
LEMMA CommittedRing ==
  ASSUME RecoveryInv, worker = "m3", store' = WithCommitted(store, job)
  PROVE  RingInOrder'
<1> DEFINE f == SlotOf(job.epoch)
           c == [epoch |-> job.epoch, offset |-> job.offset]
<1>0. SourceTypeOK /\ job.epoch \in Nat /\ store.frontier \in Nat /\ job.epoch > store.frontier
  BY DEF RecoveryInv, SourceTypeOK, Jobs, StoreStates, PipelineFollows
<1>1. store'.frontier = job.epoch /\ store'.cursor = job.offset
        /\ store'.committed = [store.committed EXCEPT ![f] = c]
  BY <1>0, CommittedStore
<1>2. f \in 0..(Slots - 1)
  BY <1>0, SlotIn
<1>3. store.committed \in [0..(Slots - 1) -> Checkpoints]
  BY <1>0 DEF SourceTypeOK, StoreStates
<1>4. store'.committed[f] = c /\ c.epoch = job.epoch /\ c.offset = job.offset
  BY <1>1, <1>2, <1>3
<1>5. f = SlotOf(store'.frontier)
  BY <1>1
<1> HIDE DEF f, c
<1>6. ASSUME NEW s \in 0..(Slots - 1)
      PROVE  /\ store'.committed[s].epoch <= store'.frontier
             /\ store'.committed[s].epoch = 0 => store'.committed[s].offset = 0
             /\ store'.committed[s].epoch # 0 => SlotOf(store'.committed[s].epoch) = s
  <2>1. CASE s = f
    BY <1>0, <1>1, <1>4, <1>5, <2>1
  <2>2. CASE s # f
    <3>1. store'.committed[s] = store.committed[s] /\ store.committed[s].epoch \in Nat
      BY <1>1, <1>3, <2>2 DEF Checkpoints
    <3>2. store.committed[s].epoch <= store.frontier
      BY DEF RecoveryInv, RingInOrder
    <3>3. \A a, b, d \in Nat : a <= b /\ b < d => a <= d
      OBVIOUS
    <3>4. store.committed[s].epoch <= job.epoch
      BY <1>0, <3>1, <3>2, <3>3
    <3>5. QED
      BY <1>1, <3>1, <3>4 DEF RecoveryInv, RingInOrder
  <2>3. QED
    BY <2>1, <2>2
<1>7. QED
  BY <1>1, <1>4, <1>5, <1>6 DEF RingInOrder

\* The M3 write.
LEMMA RecoveryCommit ==
  ASSUME RecoveryInv, load' \in Budgets, CommitM3
  PROVE  RecoveryInv'
<1>0. SourceTypeOK /\ worker = "m3" /\ runtime.inFlight > 0 /\ runtime.epoch <= store.frontier
        /\ job.epoch > store.frontier /\ job.epoch \in Nat /\ store.frontier \in Nat
        /\ runtime.epoch \in Nat
  BY DEF RecoveryInv, CommitM3, PipelineFollows, SourceTypeOK, Jobs, StoreStates, Runtimes
<1>1. PICK o \in Outcomes("writes") :
        /\ IF Lands(o)
           THEN /\ store' = WithCommitted(store, job)
                /\ view' = IF job.rows = << >> THEN view
                           ELSE Append(view, [epoch |-> job.epoch, rows |-> job.rows])
           ELSE UNCHANGED <<store, view>>
        /\ IF o = "ok"
           THEN /\ runtime' = [runtime EXCEPT !.epoch = job.epoch]
                /\ worker' = "ack"
                /\ UNCHANGED job
           ELSE /\ runtime' = GiveBack(runtime)
                /\ worker' = AfterError
                /\ job' = NoJob
  BY DEF CommitM3
<1>2. /\ runtime' \in Runtimes /\ job' \in Jobs
      /\ worker' \in {"ack", "poll", "stopped"}
      /\ worker' = "ack" => o = "ok" /\ runtime'.inFlight > 0
      /\ runtime'.epoch \in {job.epoch, runtime.epoch}
      /\ o # "ok" => runtime'.epoch = runtime.epoch
  <2>1. CASE o = "ok"
    BY <1>0, <1>1, <2>1 DEF SourceTypeOK, Runtimes
  <2>2. CASE o # "ok"
    <3>1. runtime' \in Runtimes /\ runtime'.epoch = runtime.epoch
      BY <1>0, <1>1, <2>2 DEF SourceTypeOK, Runtimes, GiveBack
    <3>2. QED
      BY <1>1, <2>2, <3>1, AfterErrorPlace, NoJobIsJob
  <2>3. QED
    BY <2>1, <2>2
<1>3. UNCHANGED <<produced, acked, consumer, pipeline, dirty, allocated>>
  BY DEF CommitM3
<1>4. CASE ~Lands(o)
  <2>1. o # "ok" /\ worker' # "ack" /\ UNCHANGED <<store, view>>
    BY <1>1, <1>2, <1>4 DEF Lands
  <2>2. Aside
    BY <1>0, <1>2, <1>3, <2>1 DEF Aside, SourceTypeOK
  <2>3. QED
    BY <2>2, RecoveryAside
<1>5. CASE Lands(o)
  <2>1. /\ store' = WithCommitted(store, job)
        /\ view' = IF job.rows = << >> THEN view
                   ELSE Append(view, [epoch |-> job.epoch, rows |-> job.rows])
    BY <1>1, <1>5
  <2>2. view' \in Seq(Entries) /\ (LogInOrder /\ StateMatchesLog)'
    BY <1>0, <2>1, CommittedLog
  <2>3. RingInOrder'
    BY <1>0, <2>1, CommittedRing
  <2>4. store' \in StoreStates /\ store'.frontier = job.epoch /\ store'.state = pipeline
    BY <1>0, <2>1, CommittedStore
  <2>5. SourceTypeOK'
    BY <1>0, <1>2, <1>3, <2>2, <2>4 DEF SourceTypeOK, Places
  <2>6. runtime'.epoch <= store'.frontier
    BY <1>0, <1>2, <2>4
  <2>7. dirty
    BY <1>0 DEF RecoveryInv, PipelineFollows
  <2>8. PipelineFollows'
    BY <1>2, <1>3, <2>4, <2>6, <2>7 DEF PipelineFollows
  <2>9. QED
    BY <2>2, <2>3, <2>5, <2>8 DEF RecoveryInv
<1>6. QED
  BY <1>4, <1>5

\* Every step keeps what recovery relies on.
LEMMA RecoveryStep ==
  ASSUME RecoveryInv, [Next]_vars
  PROVE  RecoveryInv'
<1>0. load' \in Budgets
  BY LoadStep DEF RecoveryInv, SourceTypeOK, Left
<1>1. CASE SourceNext
  BY <1>0, <1>1, RecoveryWorker, RecoveryIntent, RecoveryBegin, RecoveryProcess, RecoveryPrepare, RecoveryCommit,
     RecoveryAcknowledge DEF SourceNext, WorkerStep
<1>2. CASE UNCHANGED sourceVars
  BY <1>0, <1>2, RecoveryFrame
<1>3. CASE Crash \/ DriverGivesUp
  BY <1>0, <1>3, RecoveryRestart DEF Crash, DriverGivesUp
<1>4. QED
  BY <1>1, <1>2, <1>3 DEF Next, vars

\* Whatever failed and wherever the process stopped, a restart finds a pipeline
\* state, a checkpoint and a cursor that agree with the view's log, for any
\* size of batches, ring and in-flight limit and any faults
\* (recover_pending_views_locked, highest_committed, append_committed).
THEOREM RestartsMatchTheLog == Spec => []RecoveryMatchesLog
<1>1. Init => RecoveryInv
  BY RecoveryInit
<1>2. RecoveryInv /\ [Next]_vars => RecoveryInv'
  BY RecoveryStep
<1>3. RecoveryInv => RecoveryMatchesLog
  <2>1. SUFFICES ASSUME RecoveryInv PROVE CheckpointMatchesCursor
    BY DEF RecoveryInv, RecoveryMatchesLog
  <2>2. HighestCommitted(store) = [epoch |-> store.frontier, offset |-> store.cursor]
    BY <2>1, HighestIsFrontier
  <2>3. QED
    BY <2>2 DEF CheckpointMatchesCursor
<1>4. QED
  BY <1>1, <1>2, <1>3, PTL DEF Spec

-----------------------------------------------------------------------------
(* The input: no row is skipped, none is taken twice.                      *)

\* What a poll returns, and where it ends.
LEMMA PollShape ==
  ASSUME SourceTypeOK, ConsumerFollows, store.cursor <= produced,
         NEW stop \in SeekFrom(store.cursor)..Max({SeekFrom(store.cursor), produced}),
         NEW rows, rows = Accepted(store.cursor, stop),
         NEW end, end = EndOffset(store.cursor, rows)
  PROVE  /\ rows \in RowSeqs /\ end \in Nat /\ stop \in Nat
         /\ stop <= end /\ end <= produced /\ store.cursor <= end
         /\ rows = << >> => end = store.cursor
         /\ consumer.pending = NoRow \/ consumer.pending <= store.cursor
            => end = store.cursor + Len(rows) /\ Numbered(rows, store.cursor)
<1> DEFINE after == store.cursor
           pend == consumer.pending
           stash == pend # NoRow /\ pend >= after
           base == IF stash THEN pend + 1 ELSE after
           seek == SeekFrom(after)
           first == Max({seek, base})
           head == IF stash THEN <<pend>> ELSE << >>
           h == IF stash THEN 1 ELSE 0
           m == Max({0, stop - first})
           tail == [i \in 1..m |-> first + i - 1]
<1>1. /\ after \in Nat /\ consumer.position \in Nat /\ pend \in Offsets /\ produced \in Nat
      /\ consumer.lastPolled \in Offsets
  BY DEF SourceTypeOK, StoreStates, Consumers
<1>2. seek \in Nat /\ seek <= base /\ base \in Nat /\ base >= after /\ base <= produced
  BY <1>1 DEF SeekFrom, ConsumerFollows, Offsets, NoRow
<1>3. first = base
  <2> HIDE DEF base, seek
  <2>1. QED
    BY <1>2, MaxOfTwo
<1>4. stop \in Nat /\ (stop <= seek \/ stop <= produced)
  <2> HIDE DEF seek
  <2>1. stop \in seek..Max({seek, produced})
    BY DEF seek
  <2>2. QED
    BY <1>1, <1>2, <2>1, MaxOfTwo
<1>5. head \in Seq(Nat) /\ Len(head) = h /\ h \in Nat /\ (h = 1 => head[1] = pend) /\ h \in {0, 1}
        /\ (h = 1 <=> stash) /\ (h = 1 => pend \in Nat /\ base = pend + 1) /\ (h = 0 => base = after)
        /\ (h = 1 => pend >= after /\ pend # NoRow)
  BY <1>1 DEF Offsets, NoRow
<1>6. m = (IF stop >= base THEN stop - base ELSE 0) /\ m \in Nat
  <2> HIDE DEF base, first
  <2>1. stop - first \in Int
    BY <1>2, <1>3, <1>4
  <2>2. m = IF 0 >= stop - first THEN 0 ELSE stop - first
    BY <2>1, MaxOfTwo
  <2> HIDE DEF m
  <2>3. QED
    BY <1>2, <1>3, <1>4, <2>2
<1>7. rows = head \o tail
  BY DEF Accepted
<1> HIDE DEF after, pend, stash, base, seek, first, head, h, m
<1>8. tail \in Seq(Nat) /\ Len(tail) = m /\ \A i \in 1..m : tail[i] = base + i - 1
  <2>1. \A i \in 1..m : first + i - 1 \in Nat
    BY <1>2, <1>3
  <2>2. QED
    BY <1>3, <1>6, <2>1
<1> HIDE DEF tail
<1>9. /\ rows \in Seq(Nat) /\ Len(rows) = h + m
      /\ \A i \in 1..(h + m) : rows[i] = IF i <= h THEN head[i] ELSE tail[i - h]
  BY <1>5, <1>6, <1>7, <1>8
<1>10. end = base + m /\ end \in Nat
  <2>1. CASE m # 0
    <3>1. h + m \in 1..(h + m) /\ ~(h + m <= h) /\ (h + m) - h = m /\ m \in 1..m
      BY <1>5, <1>6, <2>1
    <3>2. rows[Len(rows)] = base + m - 1
      BY <1>8, <1>9, <3>1
    <3>3. rows # << >>
      BY <1>9, <3>1
    <3>4. QED
      BY <1>2, <1>6, <3>2, <3>3 DEF EndOffset
  <2>2. CASE m = 0 /\ h = 1
    <3>1. rows # << >> /\ rows[Len(rows)] = pend
      BY <1>5, <1>9, <2>2
    <3>2. QED
      BY <1>2, <1>5, <2>2, <3>1 DEF EndOffset
  <2>3. CASE m = 0 /\ h = 0
    <3>1. rows = << >>
      BY <1>9, <2>3
    <3>2. QED
      BY <1>1, <1>5, <2>3, <3>1 DEF EndOffset, after
  <2>4. QED
    BY <1>5, <2>1, <2>2, <2>3
<1>11. stop <= end /\ end <= produced /\ after <= end
  BY <1>1, <1>2, <1>4, <1>6, <1>10
<1>12. rows = << >> => end = after
  BY DEF EndOffset, after
<1>13. ASSUME pend = NoRow \/ pend <= after
       PROVE  end = after + Len(rows) /\ Numbered(rows, after)
  <2>1. base = after + h
    BY <1>1, <1>5, <1>13
  <2>2. h = 1 => head[1] = after
    BY <1>1, <1>5, <1>13
  <2>3. ASSUME NEW i \in 1..Len(rows) PROVE rows[i] = after + i - 1
    <3>1. i \in 1..(h + m)
      BY <1>9
    <3>2. CASE i <= h
      <4>1. h = 1 /\ i = 1
        BY <1>5, <3>1, <3>2
      <4>2. QED
        BY <1>1, <1>9, <2>2, <3>1, <4>1
    <3>3. CASE ~(i <= h)
      <4>1. i - h \in 1..m
        BY <1>5, <1>6, <3>1, <3>3
      <4>2. rows[i] = base + (i - h) - 1
        BY <1>8, <1>9, <3>1, <3>3, <4>1
      <4>3. QED
        BY <1>1, <1>5, <2>1, <3>1, <4>2
    <3>4. QED
      BY <3>2, <3>3
  <2>4. QED
    BY <1>1, <1>5, <1>6, <1>9, <1>10, <2>1, <2>3 DEF Numbered
<1>14. QED
  BY <1>4, <1>9, <1>10, <1>11, <1>12, <1>13 DEF after, pend, RowSeqs

\* Loads under which no stashed record is lost stay so.
LEMMA StashStep ==
  ASSUME load \in Budgets, NoLostStash(load), [Next]_vars
  PROVE  NoLostStash(load') /\ load'.bytes = load.bytes
<1>1. /\ load' \in Budgets /\ load'.bytes = load.bytes /\ load'.refused = load.refused
      /\ load'.writes <= load.writes /\ load'.batches <= load.batches
  BY LoadStep DEF Left
<1>2. /\ load.writes \in Nat /\ load'.writes \in Nat
      /\ load.batches \in Nat /\ load'.batches \in Nat
  BY <1>1 DEF Budgets
<1>3. QED
  BY <1>1, <1>2 DEF NoLostStash

\* Nothing is stashed when a write, a poll or a batch can fail.
LEMMA NothingStashed ==
  ASSUME RecoveryInv, InputInv, load.writes > 0 \/ load.batches > 0 \/ load.refused # {}
  PROVE  consumer.pending = NoRow /\ load.bytes >= RowLimit
<1>1. /\ load.writes \in Nat /\ load.batches \in Nat
      /\ load.bytes \in Nat /\ RowLimit \in Nat
  BY SourceAssumption DEF RecoveryInv, SourceTypeOK, Budgets
<1>2. QED
  BY <1>1 DEF InputInv, NoLostStash, ConsumerFollows

\* What the input looks like initially.
LEMMA InputInit ==
  ASSUME Init, \A l \in Loads : NoLostStash(l)
  PROVE  InputInv
<1>1. RecoveryInv
  BY RecoveryInit
<1>2. AppliedRows = << >>
  <2>1. view = << >> /\ Len(view) = 0 /\ view \in Seq(Entries)
    BY <1>1 DEF Init, SourceInit, RecoveryInv, SourceTypeOK
  <2>2. QED
    BY <2>1, LogIsRows, RowsOfNone DEF LogPrefix
<1>3. Len(AppliedRows) = 0 /\ Numbered(AppliedRows, 0)
  BY <1>2 DEF Numbered
<1>4. QED
  BY <1>3 DEF Init, SourceInit, InputInv, JobFollows, ConsumerFollows, NoRow

\* A step that leaves the log, the cursor and the upstream topic's end as they
\* are, or moves the end on.
LEMMA InputAside ==
  ASSUME RecoveryInv, InputInv, NoLostStash(load'), view' = view, store'.cursor = store.cursor,
         produced' \in Nat, produced' >= produced, acked' <= store.cursor,
         JobFollows', ConsumerFollows'
  PROVE  InputInv'
<1>1. AppliedRows' = AppliedRows
  BY DEF AppliedRows, LogRows
<1>2. store.cursor <= produced' /\ store.cursor \in Nat
  <2>1. store.cursor \in Nat /\ produced \in Nat /\ store.cursor <= produced
    BY DEF RecoveryInv, SourceTypeOK, StoreStates, InputInv
  <2>2. QED
    BY <2>1
<1>3. QED
  BY <1>1, <1>2 DEF InputInv

\* A step that leaves the source alone.
LEMMA InputFrame ==
  ASSUME RecoveryInv, InputInv, NoLostStash(load'), load'.bytes = load.bytes, UNCHANGED sourceVars
  PROVE  InputInv'
<1>1. JobFollows'
  BY DEF InputInv, JobFollows, Blocked, sourceVars
<1>2. ConsumerFollows'
  BY DEF InputInv, ConsumerFollows, Blocked, sourceVars
<1>3. produced \in Nat /\ produced >= produced
  BY DEF RecoveryInv, SourceTypeOK
<1>4. QED
  BY <1>1, <1>2, <1>3, InputAside DEF InputInv, sourceVars

\* A consumer built anew seeks before it reads.
LEMMA FreshFollows ==
  ASSUME consumer' = FreshConsumer
  PROVE  ConsumerFollows'
BY DEF FreshConsumer, ConsumerFollows

\* A process that starts again.
LEMMA InputRestart ==
  ASSUME RecoveryInv, InputInv, NoLostStash(load'), ProcessRestarts
  PROVE  InputInv'
<1>1. JobFollows'
  BY DEF ProcessRestarts, JobFollows
<1>2. ConsumerFollows'
  BY FreshFollows DEF ProcessRestarts
<1>3. produced \in Nat /\ produced >= produced
  BY DEF RecoveryInv, SourceTypeOK
<1>4. QED
  BY <1>1, <1>2, <1>3, InputAside DEF InputInv, ProcessRestarts

\* A poll continues at the cursor, unless nothing it returns can be committed.
LEMMA InputPoll ==
  ASSUME RecoveryInv, InputInv, NoLostStash(load'), load'.bytes = load.bytes, Poll
  PROVE  InputInv'
<1> DEFINE after == store.cursor
<1>0. SourceTypeOK /\ ConsumerFollows /\ after <= produced /\ worker = "poll"
  BY DEF RecoveryInv, InputInv, Poll
<1>1. PICK stop \in SeekFrom(after)..Max({SeekFrom(after), produced}) :
         LET rows == Accepted(after, stop) IN
         /\ \E p \in Stashable(after, stop) :
              consumer' = [position   |-> ReadTo(stop, p),
                           pending    |-> p,
                           lastPolled |-> EndOffset(after, rows)]
         /\ IF rows = << >> /\ runtime.live
            THEN UNCHANGED <<worker, job>>
            ELSE /\ worker' = "begin"
                 /\ job' = [epoch |-> 0, offset |-> EndOffset(after, rows),
                            rows |-> rows,
                            phase |-> IF rows = << >> \/ runtime.live
                                      THEN "Running" ELSE "CatchingUp"]
  BY DEF Poll, Stops
<1>2. PICK rows : rows = Accepted(after, stop)
  OBVIOUS
<1>3. PICK end : end = EndOffset(after, rows)
  OBVIOUS
<1>4. /\ rows \in RowSeqs /\ end \in Nat /\ stop \in Nat
      /\ stop <= end /\ end <= produced /\ after <= end
      /\ rows = << >> => end = after
      /\ consumer.pending = NoRow \/ consumer.pending <= after
            => end = after + Len(rows) /\ Numbered(rows, after)
  BY <1>0, <1>2, <1>3, PollShape
<1>5. PICK p \in {stop, NoRow} :
        /\ consumer' = [position   |-> IF p = NoRow THEN stop ELSE stop + 1,
                        pending    |-> p, lastPolled |-> end]
        /\ p # NoRow => /\ Len(rows) = load.bytes /\ Len(rows) < RowLimit
                        /\ stop >= end /\ stop < produced
  BY <1>1, <1>2, <1>3 DEF Stashable, ReadTo
<1>6. \/ rows = << >> /\ UNCHANGED <<worker, job>>
      \/ worker' = "begin" /\ job'.offset = end /\ job'.rows = rows
  BY <1>1, <1>2, <1>3
<1>7. UNCHANGED <<produced, acked, store, view, runtime, load>>
  BY DEF Poll
<1>8. consumer'.position = (IF p = NoRow THEN stop ELSE stop + 1)
        /\ consumer'.pending = p /\ consumer'.lastPolled = end
  BY <1>5
<1>9. after \in Nat /\ consumer.pending \in Offsets /\ load.bytes \in Nat \ {0}
  BY <1>0 DEF SourceTypeOK, StoreStates, Consumers, Budgets
<1> HIDE DEF after
<1>10. ConsumerFollows'
  <2>1. p # NoRow => p = stop /\ stop = end /\ load.bytes < RowLimit /\ rows # << >> /\ worker' = "begin"
    <3>1. ASSUME p # NoRow PROVE rows # << >>
      BY <1>5, <1>9, <3>1
    <3>2. QED
      BY <1>4, <1>5, <1>6, <3>1
  <2>2. worker' # "intent"
    BY <1>0, <1>6
  <2>3. CASE p = NoRow
    BY <1>4, <1>7, <1>8, <2>3 DEF ConsumerFollows, after
  <2>4. CASE p # NoRow
    <3>1. stop + 1 <= end + 1 /\ p = end /\ p < produced /\ consumer'.position = stop + 1
      BY <1>4, <1>5, <1>8, <2>1, <2>4
    <3>2. QED
      BY <1>4, <1>7, <1>8, <2>1, <2>2, <2>4, <3>1 DEF ConsumerFollows, after
  <2>5. QED
    BY <2>3, <2>4
<1>11. JobFollows'
  <2>1. CASE rows = << >> /\ UNCHANGED <<worker, job>>
    BY <1>0, <2>1 DEF JobFollows
  <2>2. CASE worker' = "begin" /\ job'.offset = end /\ job'.rows = rows
    <3>1. ASSUME ~Blocked PROVE consumer.pending = NoRow \/ consumer.pending <= after
      <4>1. consumer.pending # NoRow => consumer.pending = after
        BY <1>0, <3>1 DEF ConsumerFollows, after
      <4>2. QED
        BY <1>9, <4>1
    <3>2. Blocked' = Blocked
      BY <1>7 DEF Blocked
    <3>3. QED
      BY <1>4, <1>7, <1>8, <2>2, <3>1, <3>2 DEF JobFollows, after
  <2>3. QED
    BY <1>6, <2>1, <2>2
<1>12. produced' \in Nat /\ produced' >= produced /\ acked' <= store.cursor
  BY <1>0, <1>7 DEF SourceTypeOK, InputInv
<1>13. QED
  BY <1>7, <1>10, <1>11, <1>12, InputAside

\* The other steps outside the commit.
LEMMA InputWorker ==
  ASSUME RecoveryInv, InputInv, NoLostStash(load'), load'.bytes = load.bytes,
         Produce \/ StartWorker \/ PersistIntent \/ PollFails \/ LifecycleUnreadable
           \/ RestoreFails \/ RefuseBatch \/ ProcessFails \/ Rebalance
  PROVE  InputInv'
<1>0. /\ SourceTypeOK /\ produced \in Nat /\ produced >= produced /\ acked <= store.cursor
      /\ acked \in Nat /\ store.cursor \in Nat /\ ConsumerFollows /\ JobFollows
      /\ consumer \in Consumers
  BY DEF RecoveryInv, SourceTypeOK, InputInv, StoreStates
<1>1. CASE Produce
  <2>1. JobFollows'
    <3>1. job.offset \in Nat
      BY <1>0 DEF SourceTypeOK, Jobs
    <3>2. QED
      BY <1>0, <1>1, <3>1 DEF Produce, JobFollows, Blocked
  <2>2. ConsumerFollows'
    <3>1. consumer.pending \in Offsets
      BY <1>0 DEF Consumers
    <3>2. QED
      BY <1>0, <1>1, <3>1 DEF Produce, ConsumerFollows, Blocked, Offsets, NoRow
  <2>3. QED
    BY <1>0, <1>1, <2>1, <2>2, InputAside DEF Produce
<1>2. CASE StartWorker
  <2>1. worker' \in {"intent", "poll"}
    BY <1>2 DEF StartWorker
  <2>2. JobFollows' /\ ConsumerFollows'
    BY <1>2, <2>1, FreshFollows DEF StartWorker, JobFollows
  <2>3. QED
    BY <1>0, <1>2, <2>2, InputAside DEF StartWorker
<1>3. CASE PersistIntent
  <2>1. /\ worker' \in {"poll", "stopped"} /\ store'.cursor = store.cursor /\ worker = "intent"
        /\ UNCHANGED <<produced, acked, consumer, view, runtime>>
    BY <1>0, <1>3 DEF PersistIntent, SourceTypeOK, StoreStates
  <2>2. JobFollows'
    BY <2>1 DEF JobFollows
  <2>3. ConsumerFollows'
    BY <1>0, <2>1 DEF ConsumerFollows, Blocked
  <2>4. QED
    BY <1>0, <2>1, <2>2, <2>3, InputAside
<1>4. CASE PollFails
  <2>1. consumer.pending = NoRow /\ load.bytes >= RowLimit /\ RowLimit \in Nat /\ load.bytes \in Nat
    BY <1>0, <1>4, NothingStashed, SourceAssumption DEF PollFails, SourceTypeOK, Budgets
  <2>2. worker' \in {"poll", "stopped"} /\ UNCHANGED <<produced, acked, store, view>>
    BY <1>4, AfterErrorPlace DEF PollFails
  <2>3. ConsumerFollows'
    <3>1. CASE UNCHANGED consumer
      BY <1>0, <2>1, <2>2, <3>1 DEF ConsumerFollows
    <3>2. CASE \E stop \in Stops(store.cursor), sought \in BOOLEAN :
               \E p \in Stashable(store.cursor, stop) :
                 consumer' = [position   |-> IF sought THEN store.cursor ELSE ReadTo(stop, p),
                              pending    |-> p,
                              lastPolled |-> IF sought THEN store.cursor ELSE NoRow]
      <4>1. PICK stop \in Stops(store.cursor), sought \in BOOLEAN :
              \E p \in {NoRow} :
                 consumer' = [position   |-> IF sought THEN store.cursor ELSE ReadTo(stop, p),
                              pending    |-> p,
                              lastPolled |-> IF sought THEN store.cursor ELSE NoRow]
        BY <2>1, <3>2 DEF Stashable
      <4>2. QED
        BY <1>0, <2>2, <4>1 DEF ConsumerFollows
    <3>3. QED
      BY <1>4, <3>1, <3>2 DEF PollFails
  <2>4. JobFollows'
    BY <2>2 DEF JobFollows
  <2>5. QED
    BY <1>0, <2>2, <2>3, <2>4, InputAside
<1>5. CASE LifecycleUnreadable
  <2>1. JobFollows' /\ ConsumerFollows'
    BY <1>0, <1>5 DEF LifecycleUnreadable, JobFollows, ConsumerFollows
  <2>2. QED
    BY <1>0, <1>5, <2>1, InputAside DEF LifecycleUnreadable
<1>6. CASE RestoreFails
  <2>1. consumer.pending = NoRow
    BY <1>6, NothingStashed DEF RestoreFails
  <2>2. worker' \in {"poll", "stopped"}
    BY <1>6, AfterErrorPlace DEF RestoreFails
  <2>3. JobFollows' /\ ConsumerFollows'
    BY <1>0, <1>6, <2>1, <2>2 DEF RestoreFails, JobFollows, ConsumerFollows
  <2>4. QED
    BY <1>0, <1>6, <2>3, InputAside DEF RestoreFails
<1>7. CASE Rebalance
  <2>1. PICK p \in {consumer.pending, NoRow} :
          consumer' = [consumer EXCEPT !.position = acked, !.pending = p]
    BY <1>7 DEF Rebalance
  <2>2. consumer'.position = acked /\ consumer'.pending = p /\ consumer'.lastPolled = consumer.lastPolled
    BY <1>0, <2>1 DEF Consumers
  <2>3. UNCHANGED <<produced, acked, store, view, runtime, worker, job>>
    BY <1>7 DEF Rebalance
  <2>4. JobFollows'
    BY <1>0, <2>2, <2>3 DEF JobFollows, Blocked
  <2>5. ConsumerFollows'
    <3>1. consumer.lastPolled # NoRow => acked <= consumer.lastPolled
      <4>1. consumer.lastPolled # NoRow => consumer.lastPolled \in Nat /\ consumer.lastPolled >= store.cursor
        BY <1>0 DEF Consumers, Offsets, ConsumerFollows
      <4>2. QED
        BY <1>0, <4>1
    <3>2. QED
      BY <1>0, <2>2, <2>3, <3>1 DEF ConsumerFollows, Blocked
  <2>6. QED
    BY <1>0, <2>3, <2>4, <2>5, InputAside
<1>8. CASE RefuseBatch
  <2>1. load.refused # {}
    BY <1>8 DEF RefuseBatch, Refused
  <2>2. worker' \in {"poll", "stopped"}
    BY <1>8, AfterErrorPlace DEF RefuseBatch
  <2>3. JobFollows' /\ ConsumerFollows'
    BY <1>0, <1>8, <2>1, <2>2, NothingStashed DEF RefuseBatch, JobFollows, ConsumerFollows
  <2>4. QED
    BY <1>0, <1>8, <2>3, InputAside DEF RefuseBatch
<1>9. CASE ProcessFails
  <2>1. consumer.pending = NoRow
    BY <1>9, NothingStashed DEF ProcessFails
  <2>2. worker' \in {"poll", "stopped"}
    BY <1>9, AfterErrorPlace DEF ProcessFails
  <2>3. JobFollows' /\ ConsumerFollows'
    BY <1>0, <1>9, <2>1, <2>2 DEF ProcessFails, JobFollows, ConsumerFollows
  <2>4. QED
    BY <1>0, <1>9, <2>3, InputAside DEF ProcessFails
<1>10. QED
  BY <1>1, <1>2, <1>3, <1>4, <1>5, <1>6, <1>7, <1>8, <1>9

\* A batch that is given up before its M3 write leaves nothing stashed, unless
\* nothing more can be committed.
LEMMA InputBegin ==
  ASSUME RecoveryInv, InputInv, NoLostStash(load'), load'.bytes = load.bytes, BeginCommit
  PROVE  InputInv'
<1> DEFINE epoch == Max({allocated, store.frontier}) + 1
<1>0. /\ SourceTypeOK /\ worker = "begin" /\ produced \in Nat /\ produced >= produced
      /\ acked <= store.cursor /\ ConsumerFollows /\ JobFollows /\ job \in Jobs
  BY DEF RecoveryInv, SourceTypeOK, InputInv, BeginCommit
<1>1. UNCHANGED <<produced, acked, consumer, store, view, runtime, load>>
  BY DEF BeginCommit
<1>2. ~(epoch <= runtime.epoch)
  BY <1>0, MaxOfTwo DEF RecoveryInv, PipelineFollows, SourceTypeOK, StoreStates, Runtimes
<1>3. \/ Blocked /\ worker' = AfterError
      \/ ~Blocked /\ worker' = "prepare" /\ job' = [job EXCEPT !.epoch = epoch]
  BY <1>2 DEF BeginCommit, Blocked
<1>4. Blocked' = Blocked
  BY <1>1 DEF Blocked
<1> HIDE DEF epoch
<1>5. CASE Blocked /\ worker' = AfterError
  <2>1. worker' \in {"poll", "stopped"}
    BY <1>5, AfterErrorPlace
  <2>2. JobFollows'
    BY <2>1 DEF JobFollows
  <2>3. ConsumerFollows'
    BY <1>0, <1>1, <1>4, <1>5, <2>1 DEF ConsumerFollows
  <2>4. QED
    BY <1>0, <1>1, <2>2, <2>3, InputAside
<1>6. CASE ~Blocked /\ worker' = "prepare" /\ job' = [job EXCEPT !.epoch = epoch]
  <2>1. job'.rows = job.rows /\ job'.offset = job.offset
    BY <1>0, <1>6 DEF Jobs
  <2>2. JobFollows'
    BY <1>0, <1>1, <1>6, <2>1 DEF JobFollows
  <2>3. ConsumerFollows'
    BY <1>0, <1>1, <1>6 DEF ConsumerFollows
  <2>4. QED
    BY <1>0, <1>1, <2>2, <2>3, InputAside
<1>7. QED
  BY <1>3, <1>5, <1>6

\* Preparing leaves the cursor alone.
LEMMA InputPrepare ==
  ASSUME RecoveryInv, InputInv, NoLostStash(load'), load'.bytes = load.bytes, Prepare
  PROVE  InputInv'
<1>0. /\ SourceTypeOK /\ worker = "prepare" /\ produced \in Nat /\ produced >= produced
      /\ acked <= store.cursor /\ ConsumerFollows /\ JobFollows /\ store \in StoreStates
      /\ load \in Budgets
  BY DEF RecoveryInv, SourceTypeOK, InputInv, Prepare
<1>1. PICK o \in Outcomes("writes") :
        /\ Spend("writes", o)
        /\ store' = IF Lands(o) THEN WithPrepared(store, job) ELSE store
        /\ IF o = "ok" THEN worker' = "m3" /\ UNCHANGED job ELSE worker' = AfterError
  BY DEF Prepare
<1>2. UNCHANGED <<produced, acked, consumer, view>> /\ store'.cursor = store.cursor
  BY <1>0, <1>1 DEF Prepare, WithPrepared, StoreStates
<1>3. CASE o = "ok"
  <2>1. JobFollows'
    BY <1>0, <1>1, <1>2, <1>3 DEF JobFollows
  <2>2. ConsumerFollows'
    BY <1>0, <1>1, <1>2, <1>3 DEF ConsumerFollows
  <2>3. QED
    BY <1>0, <1>2, <2>1, <2>2, InputAside
<1>4. CASE o # "ok"
  <2>1. load.writes > 0
    BY <1>0, <1>1, <1>4, OutcomeSpent
  <2>2. consumer.pending = NoRow /\ worker' \in {"poll", "stopped"}
    BY <1>1, <1>4, <2>1, NothingStashed, AfterErrorPlace
  <2>3. JobFollows' /\ ConsumerFollows'
    BY <1>0, <1>2, <2>2 DEF JobFollows, ConsumerFollows
  <2>4. QED
    BY <1>0, <1>2, <2>3, InputAside
<1>5. QED
  BY <1>3, <1>4

\* RowSeqs that continue a numbering.
LEMMA NumberedOn ==
  ASSUME NEW a \in RowSeqs, NEW b \in RowSeqs, Numbered(a, 0), Numbered(b, Len(a))
  PROVE  Numbered(a \o b, 0) /\ Len(a \o b) = Len(a) + Len(b) /\ Len(a) \in Nat /\ Len(b) \in Nat
<1>1. Len(a \o b) = Len(a) + Len(b) /\ Len(a) \in Nat /\ Len(b) \in Nat
  BY DEF RowSeqs
<1>2. ASSUME NEW i \in 1..(Len(a) + Len(b)) PROVE (a \o b)[i] = 0 + i - 1
  <2>1. CASE i <= Len(a)
    <3>1. i \in 1..Len(a) /\ (a \o b)[i] = a[i]
      BY <1>1, <2>1 DEF RowSeqs
    <3>2. QED
      BY <3>1 DEF Numbered
  <2>2. CASE ~(i <= Len(a))
    <3>1. i - Len(a) \in 1..Len(b)
      BY <1>1, <2>2
    <3>2. (a \o b)[i] = b[i - Len(a)]
      BY <1>1, <2>2 DEF RowSeqs
    <3>3. b[i - Len(a)] = Len(a) + (i - Len(a)) - 1
      BY <3>1 DEF Numbered
    <3>4. QED
      BY <1>1, <3>2, <3>3
  <2>3. QED
    BY <2>1, <2>2
<1>3. QED
  BY <1>1, <1>2 DEF Numbered

\* The M3 write moves the cursor to the end of the batch.
LEMMA InputCommit ==
  ASSUME RecoveryInv, InputInv, NoLostStash(load'), load'.bytes = load.bytes, CommitM3
  PROVE  InputInv'
<1>0. /\ SourceTypeOK /\ worker = "m3" /\ produced \in Nat /\ produced >= produced
      /\ acked <= store.cursor /\ acked \in Nat /\ store.cursor \in Nat
      /\ ConsumerFollows /\ JobFollows /\ load \in Budgets
      /\ job.rows \in RowSeqs /\ job.offset \in Nat /\ view \in Seq(Entries)
  BY DEF RecoveryInv, SourceTypeOK, InputInv, CommitM3, Jobs, StoreStates
<1>1. PICK o \in Outcomes("writes") :
        /\ Spend("writes", o)
        /\ IF Lands(o)
           THEN /\ store' = WithCommitted(store, job)
                /\ view' = IF job.rows = << >> THEN view
                           ELSE Append(view, [epoch |-> job.epoch, rows |-> job.rows])
           ELSE UNCHANGED <<store, view>>
        /\ IF o = "ok" THEN worker' = "ack" /\ UNCHANGED job ELSE worker' = AfterError
  BY DEF CommitM3
<1>2. UNCHANGED <<produced, acked, consumer>>
  BY DEF CommitM3
<1>3. o # "ok" => consumer.pending = NoRow /\ worker' \in {"poll", "stopped"}
  <2>1. o # "ok" => load.writes > 0
    BY <1>0, <1>1, OutcomeSpent
  <2>2. QED
    BY <1>1, <2>1, NothingStashed, AfterErrorPlace
<1>4. CASE ~Lands(o)
  <2>1. o # "ok" /\ UNCHANGED <<store, view>>
    BY <1>1, <1>4 DEF Lands
  <2>2. JobFollows' /\ ConsumerFollows'
    BY <1>0, <1>2, <1>3, <2>1 DEF JobFollows, ConsumerFollows
  <2>3. QED
    BY <1>0, <1>2, <2>1, <2>2, InputAside
<1>5. CASE Lands(o)
  <2>1. store'.cursor = job.offset /\ AppliedRows' = AppliedRows \o job.rows
    BY <1>0, <1>1, <1>5, CommittedStore, CommittedLog
  <2>2. /\ job.offset = store.cursor + Len(job.rows) /\ job.offset <= produced
        /\ Numbered(job.rows, store.cursor) /\ consumer.lastPolled = job.offset
    BY <1>0 DEF JobFollows
  <2>3. Len(AppliedRows) = store.cursor /\ Numbered(AppliedRows, 0) /\ AppliedRows \in RowSeqs
    BY <1>0, LogIsRows DEF InputInv
  <2>4. Numbered(AppliedRows', 0) /\ Len(AppliedRows') = store'.cursor /\ Len(job.rows) \in Nat
    <3> DEFINE a == AppliedRows
    <3>1. a \in RowSeqs /\ Numbered(a, 0) /\ Numbered(job.rows, Len(a)) /\ AppliedRows' = a \o job.rows
      BY <2>1, <2>2, <2>3
    <3> HIDE DEF a
    <3>2. /\ Numbered(a \o job.rows, 0) /\ Len(a \o job.rows) = Len(a) + Len(job.rows)
          /\ Len(job.rows) \in Nat
      BY <1>0, <3>1, NumberedOn
    <3>3. QED
      BY <2>1, <2>2, <2>3, <3>1, <3>2 DEF a
  <2>5. acked' <= store'.cursor /\ store'.cursor <= produced'
    BY <1>0, <1>2, <2>1, <2>2, <2>4
  <2>6. JobFollows'
    BY <1>0, <1>1, <1>2, <1>3, <2>1, <2>2 DEF JobFollows
  <2>7. ConsumerFollows'
    <3>1. job.offset >= job.offset
      BY <1>0
    <3>2. QED
      BY <1>0, <1>1, <1>2, <1>3, <2>1, <2>2, <3>1 DEF ConsumerFollows
  <2>8. QED
    BY <2>4, <2>5, <2>6, <2>7 DEF InputInv
<1>6. QED
  BY <1>4, <1>5

\* The broker is told the committed offset.
LEMMA InputAcknowledge ==
  ASSUME RecoveryInv, InputInv, NoLostStash(load'), load'.bytes = load.bytes, Acknowledge
  PROVE  InputInv'
<1>0. /\ SourceTypeOK /\ worker = "ack" /\ produced \in Nat /\ produced >= produced
      /\ acked <= store.cursor /\ store.cursor \in Nat /\ ConsumerFollows /\ JobFollows
  BY DEF RecoveryInv, SourceTypeOK, InputInv, Acknowledge, StoreStates
<1>1. job.offset = store.cursor /\ consumer.lastPolled = store.cursor
  BY <1>0 DEF JobFollows
<1>2. acked' \in {acked, job.offset} /\ worker' \in {"start", "poll", "stopped"}
        /\ UNCHANGED <<produced, consumer, store, view>>
  BY AfterErrorPlace DEF Acknowledge, AckOffset
<1>3. JobFollows' /\ ConsumerFollows'
  BY <1>0, <1>1, <1>2 DEF JobFollows, ConsumerFollows
<1>4. acked' <= store.cursor
  BY <1>0, <1>1, <1>2
<1>5. QED
  BY <1>0, <1>2, <1>3, <1>4, InputAside

\* Every step continues the input where it stands.
LEMMA InputStep ==
  ASSUME RecoveryInv, InputInv, [Next]_vars
  PROVE  InputInv'
<1>0. NoLostStash(load') /\ load'.bytes = load.bytes
  BY StashStep DEF RecoveryInv, SourceTypeOK, InputInv
<1>1. CASE SourceNext
  BY <1>0, <1>1, InputWorker, InputPoll, InputBegin, InputPrepare, InputCommit, InputAcknowledge
     DEF SourceNext, WorkerStep
<1>2. CASE UNCHANGED sourceVars
  BY <1>0, <1>2, InputFrame
<1>3. CASE Crash \/ DriverGivesUp
  BY <1>0, <1>3, InputRestart DEF Crash, DriverGivesUp
<1>4. QED
  BY <1>1, <1>2, <1>3 DEF Next, vars

\* Every row the broker was told is consumed is in the view for good, for any
\* size of batches, ring and in-flight limit and any faults, as long as no poll
\* is cut by the byte limit where a write or a poll fails or a batch is given
\* up - the cases in which the source really loses rows
\* (SourceRuntimeCoordinator, KafkaSource::poll_delta).
THEOREM AckedInputStays ==
  ASSUME \A l \in Loads : NoLostStash(l)
  PROVE  Spec => []AckedInputIsCommitted
<1>1. Init => RecoveryInv /\ InputInv
  BY RecoveryInit, InputInit
<1>2. RecoveryInv /\ InputInv /\ [Next]_vars => (RecoveryInv /\ InputInv)'
  BY RecoveryStep, InputStep
<1>3. RecoveryInv /\ InputInv => AckedInputIsCommitted
  <2>1. SUFFICES ASSUME RecoveryInv, InputInv, NEW r \in 0..(acked - 1)
                 PROVE  \E i \in DOMAIN AppliedRows : AppliedRows[i] = r
    BY DEF AckedInputIsCommitted
  <2>2. /\ AppliedRows \in RowSeqs /\ Len(AppliedRows) = store.cursor /\ Numbered(AppliedRows, 0)
        /\ acked <= store.cursor /\ acked \in Nat /\ store.cursor \in Nat
    BY <2>1, LogIsRows DEF RecoveryInv, SourceTypeOK, InputInv, StoreStates
  <2>3. r + 1 \in 1..Len(AppliedRows) /\ 0 + (r + 1) - 1 = r
    BY <2>2
  <2>4. AppliedRows[r + 1] = r
    BY <2>2, <2>3 DEF Numbered
  <2>5. DOMAIN AppliedRows = 1..Len(AppliedRows)
    BY <2>2 DEF RowSeqs
  <2>6. QED
    BY <2>3, <2>4, <2>5
<1>4. QED
  BY <1>1, <1>2, <1>3, PTL DEF Spec

-----------------------------------------------------------------------------
(* The output: a reader sees a prefix of the log.                          *)

\* The epochs up to a cursor, and their rows, stay what they are when the log
\* does, and when a newer epoch is appended to it.
LEMMA UpToKept ==
  ASSUME RecoveryInv, NEW e \in Nat, NEW rows, RowsUpTo(e, rows), e <= store.frontier,
         \/ view' = view
         \/ \E x \in Entries : view' = Append(view, x) /\ x.epoch > store.frontier
  PROVE  \E k \in 0..Len(view') :
            /\ \A i \in DOMAIN view' : view'[i].epoch <= e <=> i <= k
            /\ rows = RowsOf(view', k)
<1>0. view \in Seq(Entries) /\ store.frontier \in Nat
  BY DEF RecoveryInv, SourceTypeOK, StoreStates
<1>1. PICK k \in 0..Len(view) :
        /\ \A i \in DOMAIN view : view[i].epoch <= e <=> i <= k
        /\ rows = RowsOf(view, k)
  BY DEF RowsUpTo, LogPrefix
<1>2. CASE view' = view
  BY <1>1, <1>2
<1>3. CASE \E x \in Entries : view' = Append(view, x) /\ x.epoch > store.frontier
  <2>1. PICK x \in Entries : view' = Append(view, x) /\ x.epoch > store.frontier
    BY <1>3
  <2>2. /\ \A j \in 0..Len(view) : RowsOf(view', j) = LogPrefix(j)
        /\ Len(view') = Len(view) + 1 /\ view' \in Seq(Entries)
        /\ view'[Len(view) + 1] = x /\ \A i \in 1..Len(view) : view'[i] = view[i]
    BY <1>0, <2>1, LogAppended
  <2>3. x.epoch \in Nat /\ ~(x.epoch <= e)
    <3>1. x.epoch \in Nat
      BY DEF Entries
    <3>2. QED
      BY <1>0, <2>1, <3>1
  <2>4. ASSUME NEW i \in DOMAIN view' PROVE view'[i].epoch <= e <=> i <= k
    <3>1. Len(view) \in Nat /\ DOMAIN view' = 1..(Len(view) + 1) /\ DOMAIN view = 1..Len(view)
      BY <1>0, <2>2
    <3>2. CASE i = Len(view) + 1
      BY <2>2, <2>3, <3>1, <3>2
    <3>3. CASE i \in 1..Len(view)
      BY <1>1, <2>2, <3>1, <3>3
    <3>4. QED
      BY <3>1, <3>2, <3>3
  <2>5. rows = RowsOf(view', k) /\ k \in 0..Len(view')
    <3>1. Len(view) \in Nat
      BY <1>0
    <3>2. QED
      BY <1>1, <2>2, <3>1 DEF LogPrefix
  <2>6. QED
    BY <2>4, <2>5
<1>4. QED
  BY <1>2, <1>3

\* What the sink's state is initially.
LEMMA DeliveryInit ==
  ASSUME Init
  PROVE  DeliveryInv
<1>1. SinkTypeOK
  <2>1. NoProgress \in Cursors
    <3>1. NotPending \in Transactions
      BY DEF NotPending, Transactions, RowSeqs
    <3>2. FALSE \in BOOLEAN
      OBVIOUS
    <3>3. QED
      BY <3>1, <3>2 DEF NoProgress, Cursors
  <2>2. NoTxn \in OpenTransactions /\ << >> \in Seq(Transactions)
    BY DEF NoTxn, OpenTransactions, RowSeqs
  <2>3. QED
    BY <2>1, <2>2 DEF Init, SinkInit, SinkTypeOK
<1>2. view = << >> /\ Len(view) = 0 /\ DOMAIN view = {} /\ topic = << >> /\ Len(topic) = 0 /\ DOMAIN topic = {}
  BY DEF Init, SourceInit, SinkInit
<1>3. DeliveredRows = << >>
  BY <1>2, RowsOfNone DEF DeliveredRows, RowsOf
<1>4. RowsUpTo(0, DeliveredRows)
  <2>1. LogPrefix(0) = << >> /\ 0 \in 0..Len(view)
    BY <1>2, RowsOfNone DEF LogPrefix
  <2>2. QED
    BY <1>2, <1>3, <2>1 DEF RowsUpTo
<1>5. progress.pending = NotPending /\ progress.viewEpoch = 0 /\ progress.transaction = 0
        /\ store.frontier = 0 /\ ~progress.snapshot
  BY DEF Init, SourceInit, SinkInit, NoProgress
<1>6. PendingInOrder
  BY <1>2, <1>4, <1>5 DEF PendingInOrder
<1>7. TransactionInOrder
  BY DEF Init, SinkInit, TransactionInOrder, NoTxn
<1>8. QED
  BY <1>1, <1>6, <1>7 DEF DeliveryInv

\* The pending transaction becomes visible.
Shows ==
    /\ progress.pending # NotPending /\ ~Delivered(progress.pending)
    /\ topic' = Append(topic, progress.pending)
    /\ progress' = progress

\* What a reader sees of it.
LEMMA ShowsRows ==
  ASSUME SinkTypeOK, Shows
  PROVE  /\ DeliveredRows' = DeliveredRows \o progress.pending.rows
         /\ topic' \in Seq(Transactions) /\ progress.pending \in Transactions
         /\ \A i \in DOMAIN topic' : (i \in DOMAIN topic /\ topic'[i] = topic[i])
                                       \/ topic'[i] = progress.pending
         /\ \E i \in DOMAIN topic' : topic'[i] = progress.pending
<1> DEFINE p == progress.pending
<1>1. p \in Transactions /\ topic \in Seq(Transactions) /\ topic' = Append(topic, p)
  BY DEF SinkTypeOK, Cursors, Shows
<1> HIDE DEF p
<1>2. \A x \in Transactions : x.rows \in RowSeqs
  BY DEF Transactions
<1>3. RowsOf(topic', Len(topic')) = RowsOf(topic, Len(topic)) \o p.rows
  BY <1>1, <1>2, RowsOfAppend, Zenon
<1>4. DeliveredRows = RowsOf(topic, Len(topic)) /\ DeliveredRows' = RowsOf(topic', Len(topic'))
  BY DEF DeliveredRows, RowsOf
<1>5. /\ topic' \in Seq(Transactions)
      /\ \A i \in DOMAIN topic' : (i \in DOMAIN topic /\ topic'[i] = topic[i]) \/ topic'[i] = p
      /\ Len(topic) + 1 \in DOMAIN topic' /\ topic'[Len(topic) + 1] = p
  BY <1>1
<1>6. QED
  BY <1>1, <1>3, <1>4, <1>5 DEF p

\* The pending transaction becomes visible in its place.
LEMMA ShowsInOrder ==
  ASSUME RecoveryInv, DeliveryInv, Shows, view' = view, store'.frontier = store.frontier
  PROVE  PendingInOrder' /\ Delivered(progress.pending)' /\ topic' \in Seq(Transactions)
<1> DEFINE p == progress.pending
<1>1. /\ DeliveredRows' = DeliveredRows \o p.rows
      /\ topic' \in Seq(Transactions) /\ p \in Transactions
      /\ \A i \in DOMAIN topic' : (i \in DOMAIN topic /\ topic'[i] = topic[i]) \/ topic'[i] = p
      /\ \E i \in DOMAIN topic' : topic'[i] = p
  BY ShowsRows DEF DeliveryInv
<1>2. progress' = progress /\ p # NotPending /\ ~Delivered(p)
  BY DEF Shows
<1>3. Delivered(p)'
  BY <1>1, <1>2 DEF Delivered
<1>4. /\ p.txn = progress.transaction - 1 /\ progress.transaction \in Nat
      /\ RowsUpTo(progress.viewEpoch, DeliveredRows \o p.rows)
  BY <1>2 DEF DeliveryInv, PendingInOrder, SinkTypeOK, Cursors
<1>5. \A i \in DOMAIN topic' : topic'[i].txn < progress.transaction
  BY <1>1, <1>4 DEF DeliveryInv, PendingInOrder
<1>6. RowsUpTo(progress.viewEpoch, DeliveredRows)'
  BY <1>1, <1>2, <1>4 DEF RowsUpTo, LogPrefix
<1>7. PendingInOrder'
  BY <1>2, <1>3, <1>5, <1>6 DEF DeliveryInv, PendingInOrder
<1>8. QED
  BY <1>1, <1>3, <1>7

\* A step that leaves the cursor and the topic in place.
LEMMA PendingKept ==
  ASSUME RecoveryInv, DeliveryInv, progress' = progress, topic' = topic,
         store'.frontier \in Nat, store'.frontier >= store.frontier,
         \/ view' = view
         \/ \E x \in Entries : view' = Append(view, x) /\ x.epoch > store.frontier
  PROVE  PendingInOrder'
<1>1. progress.viewEpoch \in Nat /\ store.frontier \in Nat /\ progress.viewEpoch <= store.frontier
  BY DEF RecoveryInv, DeliveryInv, PendingInOrder, SourceTypeOK, SinkTypeOK, StoreStates, Cursors
<1>2. DeliveredRows' = DeliveredRows
  BY DEF DeliveredRows
<1>3. Delivered(progress.pending)' <=> Delivered(progress.pending)
  BY DEF Delivered
<1>4. ASSUME NEW rows, RowsUpTo(progress.viewEpoch, rows)
      PROVE  \E k \in 0..Len(view') :
                /\ \A i \in DOMAIN view' : view'[i].epoch <= progress.viewEpoch <=> i <= k
                /\ rows = RowsOf(view', k)
  BY <1>1, <1>4, UpToKept
<1>5. progress.viewEpoch <= store'.frontier
  BY <1>1
<1>6. CASE progress.pending = NotPending \/ Delivered(progress.pending)
  <2>1. RowsUpTo(progress.viewEpoch, DeliveredRows)
    BY <1>6 DEF DeliveryInv, PendingInOrder
  <2>2. RowsUpTo(progress.viewEpoch, DeliveredRows)'
    BY <1>2, <1>4, <2>1 DEF RowsUpTo, LogPrefix
  <2>3. QED
    BY <1>3, <1>5, <1>6, <2>2 DEF DeliveryInv, PendingInOrder
<1>7. CASE ~(progress.pending = NotPending \/ Delivered(progress.pending))
  <2>1. RowsUpTo(progress.viewEpoch, DeliveredRows \o progress.pending.rows)
    BY <1>7 DEF DeliveryInv, PendingInOrder
  <2>2. RowsUpTo(progress.viewEpoch, DeliveredRows \o progress.pending.rows)'
    BY <1>2, <1>4, <2>1 DEF RowsUpTo, LogPrefix
  <2>3. QED
    BY <1>3, <1>5, <1>7, <2>2 DEF DeliveryInv, PendingInOrder
<1>8. QED
  BY <1>6, <1>7

\* A step of the source adds at most an epoch beyond the frontier.
LogGrows ==
    /\ store'.frontier \in Nat /\ store'.frontier >= store.frontier
    /\ \/ view' = view
       \/ \E x \in Entries : view' = Append(view, x) /\ x.epoch > store.frontier

\* Every step of the source does.
LEMMA LogGrowsStep ==
  ASSUME RecoveryInv, RecoveryInv', SourceNext
  PROVE  LogGrows
<1>0. /\ store \in StoreStates /\ store.frontier \in Nat /\ store'.frontier \in Nat /\ job \in Jobs
      /\ job.epoch \in Nat /\ job.rows \in RowSeqs
  BY DEF RecoveryInv, SourceTypeOK, StoreStates, Jobs
<1>1. CASE CommitM3
  <2>1. \/ UNCHANGED <<store, view>>
        \/ /\ store' = WithCommitted(store, job)
           /\ view' = IF job.rows = << >> THEN view
                      ELSE Append(view, [epoch |-> job.epoch, rows |-> job.rows])
    BY <1>1 DEF CommitM3
  <2>2. job.epoch > store.frontier
    BY <1>1 DEF CommitM3, RecoveryInv, PipelineFollows
  <2>3. CASE UNCHANGED <<store, view>>
    BY <1>0, <2>3 DEF LogGrows
  <2>4. CASE /\ store' = WithCommitted(store, job)
             /\ view' = IF job.rows = << >> THEN view
                        ELSE Append(view, [epoch |-> job.epoch, rows |-> job.rows])
    <3>1. store'.frontier = job.epoch
      BY <2>4, CommittedStore DEF RecoveryInv
    <3>2. PICK x \in Entries : x = [epoch |-> job.epoch, rows |-> job.rows]
      BY <1>0 DEF Entries
    <3>3. view' = view \/ (view' = Append(view, x) /\ x.epoch = job.epoch)
      BY <2>4, <3>2
    <3>4. QED
      BY <1>0, <2>2, <3>1, <3>3 DEF LogGrows
  <2>5. QED
    BY <2>1, <2>3, <2>4
<1>2. CASE Prepare
  <2>1. store'.frontier = store.frontier /\ view' = view
    BY <1>0, <1>2 DEF Prepare, WithPrepared, StoreStates
  <2>2. QED
    BY <1>0, <2>1 DEF LogGrows
<1>3. CASE PersistIntent
  <2>1. store'.frontier = store.frontier /\ view' = view
    BY <1>0, <1>3 DEF PersistIntent, StoreStates
  <2>2. QED
    BY <1>0, <2>1 DEF LogGrows
<1>4. CASE Produce \/ StartWorker \/ Poll \/ BeginCommit \/ Acknowledge \/ PollFails
             \/ LifecycleUnreadable \/ RestoreFails \/ RefuseBatch \/ ProcessFails \/ Rebalance
  <2>1. store' = store /\ view' = view
    BY <1>4 DEF Produce, StartWorker, Poll, BeginCommit, Acknowledge, PollFails,
                LifecycleUnreadable, RestoreFails, RefuseBatch, ProcessFails, Rebalance
  <2>2. QED
    BY <1>0, <2>1 DEF LogGrows
<1>5. QED
  BY <1>1, <1>2, <1>3, <1>4 DEF SourceNext, WorkerStep

\* A step of the source leaves the sink where it is.
LEMMA DeliverySource ==
  ASSUME RecoveryInv, DeliveryInv, LogGrows, UNCHANGED sinkVars
  PROVE  DeliveryInv'
<1>1. SinkTypeOK'
  BY DEF DeliveryInv, SinkTypeOK, sinkVars
<1>2. PendingInOrder'
  BY PendingKept DEF LogGrows, sinkVars
<1>3. TransactionInOrder'
  <2>1. (Delivered(progress.pending)' <=> Delivered(progress.pending)) /\ DeliveredRows' = DeliveredRows
    BY DEF Delivered, DeliveredRows, sinkVars
  <2>2. ASSUME exporter = "persist"
        PROVE  draft'.viewEpoch <= store'.frontier
                 /\ RowsUpTo(draft.viewEpoch, DeliveredRows \o draft.pending.rows)'
    <3>1. /\ draft.viewEpoch \in Nat /\ draft.viewEpoch <= store.frontier /\ store.frontier \in Nat
          /\ RowsUpTo(draft.viewEpoch, DeliveredRows \o draft.pending.rows) /\ draft' = draft
      BY <2>2 DEF DeliveryInv, SinkTypeOK, Cursors, TransactionInOrder, RecoveryInv, SourceTypeOK,
                  StoreStates, sinkVars
    <3>2. PICK rows : rows = DeliveredRows \o draft.pending.rows
      OBVIOUS
    <3>3. \E k \in 0..Len(view') :
            /\ \A i \in DOMAIN view' : view'[i].epoch <= draft.viewEpoch <=> i <= k
            /\ rows = RowsOf(view', k)
      <4>1. RowsUpTo(draft.viewEpoch, rows)
        BY <3>1, <3>2
      <4>2. \/ view' = view
            \/ \E x \in Entries : view' = Append(view, x) /\ x.epoch > store.frontier
        BY DEF LogGrows
      <4>3. QED
        BY <3>1, <4>1, <4>2, UpToKept
    <3>4. RowsUpTo(draft.viewEpoch, DeliveredRows \o draft.pending.rows)'
      BY <2>1, <3>1, <3>2, <3>3 DEF RowsUpTo, LogPrefix
    <3>5. QED
      BY <3>1, <3>4 DEF LogGrows
  <2>3. UNCHANGED <<progress, open, draft, exporter>>
    BY DEF sinkVars
  <2>4. QED
    BY <2>1, <2>2, <2>3 DEF DeliveryInv, TransactionInOrder, Holds
<1>4. QED
  BY <1>1, <1>2, <1>3 DEF DeliveryInv

\* The broker's transaction is shown as what it holds.
LEMMA ShownIsPending ==
  ASSUME SinkTypeOK, NEW t, t.txn = progress.pending.txn, t.rows = progress.pending.rows
  PROVE  Shown(t) = Append(topic, progress.pending)
<1>1. progress.pending = [txn |-> t.txn, rows |-> t.rows]
  BY DEF SinkTypeOK, Cursors, Transactions
<1>2. QED
  BY <1>1 DEF Shown

\* No transaction at the broker.
LEMMA NoTxnIsOpen == NoTxn \in OpenTransactions /\ NoTxn.status = "none"
BY DEF NoTxn, OpenTransactions, RowSeqs

\* Nothing staged.
LEMMA NoProgressIsCursor == NoProgress \in Cursors /\ NotPending \in Transactions
<1>1. NotPending \in Transactions
  BY DEF NotPending, Transactions, RowSeqs
<1>2. FALSE \in BOOLEAN
  OBVIOUS
<1>3. QED
  BY <1>1, <1>2 DEF NoProgress, Cursors

\* A step of the sink or a restart that leaves the log, the cursor and the
\* draft, and after which the sink stands outside a delivery.
LEMMA DeliveryAside ==
  ASSUME RecoveryInv, DeliveryInv, view' = view, store' = store, progress' = progress,
         draft' \in Cursors, topic' = topic, open' = open \/ open' = NoTxn,
         exporter' \in {"down", "idle", "failed"}
  PROVE  DeliveryInv'
<1>1. SinkTypeOK'
  BY NoTxnIsOpen DEF DeliveryInv, SinkTypeOK
<1>2. PendingInOrder'
  <2>1. store.frontier \in Nat /\ store.frontier >= store.frontier
    BY DEF RecoveryInv, SourceTypeOK, StoreStates
  <2>2. QED
    BY <2>1, PendingKept
<1>3. TransactionInOrder'
  <2>1. Delivered(progress.pending)' <=> Delivered(progress.pending)
    BY DEF Delivered
  <2>2. open'.status = "committing" => open' = open
    BY NoTxnIsOpen
  <2>3. QED
    BY <2>1, <2>2 DEF DeliveryInv, TransactionInOrder, Holds
<1>4. QED
  BY <1>1, <1>2, <1>3 DEF DeliveryInv

\* The pending transaction is shown and the broker holds none any more.
LEMMA DeliveryShown ==
  ASSUME RecoveryInv, DeliveryInv, Shows, view' = view, store' = store,
         draft' \in Cursors, open' = NoTxn,
         exporter' \in {"down", "idle", "failed", "clear"}
  PROVE  DeliveryInv'
<1>1. PendingInOrder' /\ Delivered(progress.pending)' /\ topic' \in Seq(Transactions)
  BY ShowsInOrder
<1>2. progress' = progress /\ progress.pending # NotPending
  BY DEF Shows
<1>3. SinkTypeOK'
  BY <1>1, <1>2, NoTxnIsOpen DEF DeliveryInv, SinkTypeOK
<1>4. TransactionInOrder'
  BY <1>1, <1>2, NoTxnIsOpen DEF TransactionInOrder
<1>5. QED
  BY <1>1, <1>3, <1>4 DEF DeliveryInv

\* commit_transaction of the pending transaction, whatever its outcome.
LEMMA DeliveryCommit ==
  ASSUME RecoveryInv, DeliveryInv, UNCHANGED <<view, store, progress, draft>>,
         progress.pending # NotPending, ~Delivered(progress.pending),
         NEW t \in OpenTransactions, t.txn = progress.pending.txn, t.rows = progress.pending.rows,
         CommitTransaction(t)
  PROVE  DeliveryInv' /\ (topic' = topic \/ Shows)
<1>1. PICK o \in CommitOutcomes :
        /\ topic' = IF o \in {"ok", "committed"} THEN Shown(t) ELSE topic
        /\ open' = IF o \in {"ok", "committed"} THEN NoTxn ELSE [t EXCEPT !.status = o]
        /\ exporter' = IF o = "ok" THEN "clear" ELSE "failed"
  BY DEF CommitTransaction
<1>2. o \in {"ok", "committed", "committing", "open"}
  BY DEF CommitOutcomes
<1>3. draft \in Cursors /\ SinkTypeOK
  BY DEF DeliveryInv, SinkTypeOK
<1>4. CASE o \in {"ok", "committed"}
  <2>1. Shows
    BY <1>1, <1>3, <1>4, ShownIsPending DEF Shows
  <2>2. QED
    BY <1>1, <1>3, <1>4, <2>1, DeliveryShown
<1>5. CASE o \in {"committing", "open"}
  <2>1. open' \in OpenTransactions /\ open'.txn = t.txn /\ open'.rows = t.rows /\ open'.status = o
    BY <1>1, <1>5 DEF OpenTransactions
  <2>2. topic' = topic /\ exporter' = "failed"
    BY <1>1, <1>5
  <2>3. SinkTypeOK'
    BY <1>3, <2>1, <2>2 DEF SinkTypeOK
  <2>4. PendingInOrder'
    <3>1. store.frontier \in Nat /\ store.frontier >= store.frontier
      BY DEF RecoveryInv, SourceTypeOK, StoreStates
    <3>2. QED
      BY <2>2, <3>1, PendingKept
  <2>5. ~Delivered(progress.pending)'
    BY <2>2 DEF Delivered
  <2>6. TransactionInOrder'
    BY <2>1, <2>2, <2>5 DEF TransactionInOrder, Holds
  <2>7. QED
    BY <2>2, <2>3, <2>4, <2>6 DEF DeliveryInv
<1>6. QED
  BY <1>2, <1>4, <1>5

\* What the next transaction takes in: the rows of the log that follow those
\* delivered, up to an epoch of the log.
LEMMA StageContinues ==
  ASSUME RecoveryInv, DeliveryInv, progress.pending = NotPending, ~NothingNew
  PROVE  /\ NextViewEpoch \in Nat /\ NextViewEpoch <= store.frontier /\ StagedRows \in RowSeqs
         /\ RowsUpTo(NextViewEpoch, DeliveredRows \o StagedRows)
<1> DEFINE n == Len(view)
           v == progress.viewEpoch
<1>0. /\ view \in Seq(Entries) /\ n \in Nat /\ DOMAIN view = 1..n /\ store.frontier \in Nat
      /\ v \in Nat /\ progress.snapshot \in BOOLEAN
  BY DEF RecoveryInv, SourceTypeOK, StoreStates, DeliveryInv, SinkTypeOK, Cursors
<1>1. \A i \in 1..n : view[i] \in Entries /\ view[i].epoch \in Nat /\ view[i].rows \in RowSeqs
  <2>1. \A x \in Entries : x.epoch \in Nat /\ x.rows \in RowSeqs
    BY DEF Entries
  <2>2. QED
    BY <1>0, <2>1
<1>2. /\ \A i \in 1..n : 0 < view[i].epoch /\ view[i].epoch <= store.frontier
      /\ \A i, j \in 1..n : i < j => view[i].epoch < view[j].epoch
  BY <1>0 DEF RecoveryInv, LogInOrder
<1>3. AppliedRows \in RowSeqs /\ AppliedRows = LogPrefix(n)
  BY <1>0, LogIsRows
<1>4. PICK k \in 0..n :
        (\A i \in 1..n : view[i].epoch <= v <=> i <= k) /\ DeliveredRows = LogPrefix(k)
  BY <1>0 DEF DeliveryInv, PendingInOrder, RowsUpTo
<1> HIDE DEF n
<1>5. CASE ~progress.snapshot
  <2>1. v = 0
    BY <1>5 DEF DeliveryInv, PendingInOrder
  <2>2. k = 0
    <3>1. SUFFICES ASSUME k # 0 PROVE FALSE
      OBVIOUS
    <3>2. 1 \in 1..n /\ 1 <= k
      BY <1>0, <1>4, <3>1
    <3>3. view[1].epoch <= 0 /\ 0 < view[1].epoch /\ view[1].epoch \in Nat
      BY <1>1, <1>2, <1>4, <2>1, <3>2
    <3>4. QED
      BY <3>3
  <2>3. StagedRows = AppliedRows /\ NextViewEpoch = LastViewEpoch
    BY <1>5 DEF StagedRows, AppliedRows, NextViewEpoch
  <2>4. DeliveredRows \o StagedRows = LogPrefix(n)
    <3>1. LogPrefix(0) = << >>
      BY RowsOfNone DEF LogPrefix
    <3>2. \A r \in RowSeqs : << >> \o r = r
      BY DEF RowSeqs
    <3>3. QED
      BY <1>3, <1>4, <2>2, <2>3, <3>1, <3>2
  <2>5. LastViewEpoch \in Nat /\ LastViewEpoch <= store.frontier
          /\ \A i \in 1..n : view[i].epoch <= LastViewEpoch
    <3>1. CASE n = 0
      <4>1. view = << >>
        BY <1>0, <3>1 DEF n
      <4>2. QED
        BY <1>0, <3>1, <4>1 DEF LastViewEpoch
    <3>2. CASE n # 0
      <4>1. LastViewEpoch = view[n].epoch /\ n \in 1..n
        BY <1>0, <3>2 DEF LastViewEpoch, n
      <4>2. ASSUME NEW i \in 1..n PROVE view[i].epoch <= view[n].epoch
        <5>1. i = n \/ i < n
          BY <1>0
        <5>2. QED
          BY <1>1, <1>2, <4>1, <5>1
      <4>3. QED
        BY <1>1, <1>2, <4>1, <4>2
    <3>3. QED
      BY <3>1, <3>2
  <2>6. RowsUpTo(NextViewEpoch, DeliveredRows \o StagedRows)
    <3>1. n \in 0..Len(view) /\ \A i \in DOMAIN view : view[i].epoch <= NextViewEpoch <=> i <= n
      BY <1>0, <2>3, <2>5 DEF n
    <3>2. QED
      BY <2>4, <3>1 DEF RowsUpTo
  <2>7. QED
    BY <1>3, <2>3, <2>5, <2>6
<1>6. CASE progress.snapshot
  <2>1. LastViewEpoch \in Nat /\ LastViewEpoch > v /\ n # 0 /\ LastViewEpoch = view[n].epoch
    <3>1. ~(LastViewEpoch <= v)
      BY <1>6 DEF NothingNew
    <3>2. n # 0
      <4>1. SUFFICES ASSUME n = 0 PROVE FALSE
        OBVIOUS
      <4>2. view = << >>
        BY <1>0, <4>1 DEF n
      <4>3. QED
        BY <1>0, <3>1, <4>2 DEF LastViewEpoch
    <3>3. LastViewEpoch = view[n].epoch /\ n \in 1..n
      BY <1>0, <3>2 DEF LastViewEpoch, n
    <3>4. QED
      BY <1>0, <1>1, <3>1, <3>2, <3>3
  <2>2. k + 1 \in 1..n /\ k \in Nat
    <3>1. n \in 1..n
      BY <1>0, <2>1
    <3>2. ~(n <= k)
      BY <1>0, <1>1, <1>4, <2>1, <3>1
    <3>3. QED
      BY <1>0, <3>2
  <2>3. FirstBeyond = k + 1
    <3>1. \A i \in 1..n : view[i].epoch > v <=> i > k
      BY <1>0, <1>1, <1>4
    <3>2. view[k + 1].epoch > v /\ \A j \in 1..((k + 1) - 1) : view[j].epoch <= v
      <4>1. k + 1 > k
        BY <2>2
      <4>2. \A j \in 1..((k + 1) - 1) : j \in 1..n /\ j <= k
        BY <1>0, <2>2
      <4>3. QED
        BY <1>4, <2>2, <3>1, <4>1, <4>2
    <3>3. ASSUME NEW i \in 1..n, view[i].epoch > v, \A j \in 1..(i - 1) : view[j].epoch <= v
          PROVE  i = k + 1
      <4>1. i > k
        BY <3>1, <3>3
      <4>2. ASSUME i > k + 1 PROVE FALSE
        <5>1. k + 1 \in 1..(i - 1)
          BY <2>2, <4>2
        <5>2. view[k + 1].epoch <= v
          BY <3>3, <5>1
        <5>3. k + 1 <= k
          BY <1>4, <2>2, <5>2
        <5>4. QED
          BY <2>2, <5>3
      <4>3. QED
        BY <2>2, <4>1, <4>2
    <3>4. QED
      BY <1>0, <2>2, <3>2, <3>3 DEF FirstBeyond
  <2>4. NextViewEpoch = view[k + 1].epoch /\ StagedRows = view[k + 1].rows
    BY <1>6, <2>3 DEF NextViewEpoch, StagedRows
  <2>5. LogPrefix(k + 1) = LogPrefix(k) \o view[k + 1].rows
    <3>1. \A i \in 1..(k + 1) : view[i].rows \in RowSeqs
      BY <1>0, <1>1, <2>2
    <3>2. QED
      BY <2>2, <3>1, RowsOfStep DEF LogPrefix
  <2>6. \A i \in 1..n : view[i].epoch <= view[k + 1].epoch <=> i <= k + 1
    <3>1. SUFFICES ASSUME NEW i \in 1..n PROVE view[i].epoch <= view[k + 1].epoch <=> i <= k + 1
      OBVIOUS
    <3>2. CASE i = k + 1
      BY <1>1, <2>2, <3>2
    <3>3. CASE i < k + 1
      BY <1>1, <1>2, <2>2, <3>3
    <3>4. CASE i > k + 1
      <4>1. view[k + 1].epoch < view[i].epoch
        BY <1>2, <2>2, <3>4
      <4>2. QED
        BY <1>1, <2>2, <3>4, <4>1
    <3>5. QED
      BY <2>2, <3>2, <3>3, <3>4
  <2>7. RowsUpTo(NextViewEpoch, DeliveredRows \o StagedRows)
    <3>1. DeliveredRows \o StagedRows = LogPrefix(k + 1) /\ k + 1 \in 0..Len(view)
      BY <1>0, <1>4, <2>2, <2>4, <2>5 DEF n
    <3>2. \A i \in DOMAIN view : view[i].epoch <= NextViewEpoch <=> i <= k + 1
      BY <1>0, <2>4, <2>6
    <3>3. QED
      BY <3>1, <3>2 DEF RowsUpTo
  <2>8. QED
    BY <1>1, <1>2, <2>2, <2>4, <2>7
<1>7. QED
  BY <1>0, <1>5, <1>6

\* Staging a transaction.
LEMMA DeliveryStage ==
  ASSUME RecoveryInv, DeliveryInv, view' = view, store' = store, Stage
  PROVE  DeliveryInv' /\ topic' = topic
<1>0. SinkTypeOK /\ progress' = progress /\ topic' = topic
  BY DEF DeliveryInv, Stage
<1>1. CASE exporter' = "failed" /\ UNCHANGED <<open, draft>>
  <2>1. draft' \in Cursors
    BY <1>0, <1>1 DEF SinkTypeOK
  <2>2. QED
    BY <1>0, <1>1, <2>1, DeliveryAside
<1>2. CASE /\ open' = [txn |-> progress.transaction, rows |-> StagedRows, status |-> "open"]
           /\ draft' = Advanced(StagedRows)
           /\ exporter' = "persist"
  <2>1. /\ NextViewEpoch \in Nat /\ NextViewEpoch <= store.frontier /\ StagedRows \in RowSeqs
        /\ RowsUpTo(NextViewEpoch, DeliveredRows \o StagedRows) /\ progress.pending = NotPending
    BY StageContinues DEF Stage
  <2>2. progress.transaction \in Nat
    BY <1>0 DEF SinkTypeOK, Cursors
  <2>3. open' \in OpenTransactions /\ open'.txn = progress.transaction /\ open'.rows = StagedRows
          /\ open'.status = "open"
    BY <1>2, <2>1, <2>2 DEF OpenTransactions
  <2>4. /\ draft'.snapshot = TRUE /\ draft'.viewEpoch = NextViewEpoch
        /\ draft'.transaction = progress.transaction + 1
        /\ draft'.pending = [txn |-> progress.transaction, rows |-> StagedRows]
    BY <1>2 DEF Advanced
  <2>5. draft' \in Cursors
    <3>1. [txn |-> progress.transaction, rows |-> StagedRows] \in Transactions
      BY <2>1, <2>2 DEF Transactions
    <3>2. TRUE \in BOOLEAN
      OBVIOUS
    <3>3. QED
      BY <1>2, <2>1, <2>2, <3>1, <3>2 DEF Cursors, Advanced
  <2>6. SinkTypeOK'
    BY <1>0, <1>2, <2>3, <2>5 DEF SinkTypeOK
  <2>7. PendingInOrder'
    <3>1. store.frontier \in Nat /\ store.frontier >= store.frontier
      BY DEF RecoveryInv, SourceTypeOK, StoreStates
    <3>2. QED
      BY <1>0, <3>1, PendingKept
  <2>8. draft'.pending.txn = progress.transaction /\ draft'.pending.rows = StagedRows /\ draft'.snapshot
    BY <2>4
  <2>9. RowsUpTo(draft.viewEpoch, DeliveredRows \o draft.pending.rows)'
    BY <1>0, <2>1, <2>4, <2>8 DEF RowsUpTo, LogPrefix, DeliveredRows
  <2>10. TransactionInOrder'
    BY <1>0, <1>2, <2>1, <2>3, <2>4, <2>8, <2>9 DEF TransactionInOrder, Holds
  <2>11. QED
    BY <1>0, <2>6, <2>7, <2>10 DEF DeliveryInv
<1>3. QED
  BY <1>1, <1>2 DEF Stage

\* The staged transaction becomes pending.
LEMMA DeliveryPersist ==
  ASSUME RecoveryInv, DeliveryInv, view' = view, store' = store, PersistStaged
  PROVE  DeliveryInv' /\ topic' = topic
<1>0. SinkTypeOK /\ exporter = "persist" /\ UNCHANGED <<topic, open>> /\ draft' = NoProgress
  BY DEF DeliveryInv, PersistStaged
<1>1. PICK o : /\ progress' = IF Lands(o) THEN draft ELSE progress
               /\ exporter' = IF o = "ok" THEN "commit" ELSE "failed"
  BY DEF PersistStaged
<1>2. draft' \in Cursors
  BY <1>0, NoProgressIsCursor
<1>3. CASE ~Lands(o)
  <2>1. progress' = progress /\ exporter' = "failed"
    BY <1>1, <1>3 DEF Lands
  <2>2. QED
    BY <1>0, <1>2, <2>1, DeliveryAside
<1>4. CASE Lands(o)
  <2>1. progress' = draft /\ exporter' \in {"commit", "failed"}
    BY <1>1, <1>4
  <2>2. /\ progress.pending = NotPending
        /\ draft.snapshot /\ draft.viewEpoch <= store.frontier
        /\ draft.transaction = progress.transaction + 1
        /\ draft.pending.txn = progress.transaction
        /\ open.status # "committing" /\ Holds(draft.pending)
        /\ RowsUpTo(draft.viewEpoch, DeliveredRows \o draft.pending.rows)
    BY <1>0 DEF DeliveryInv, TransactionInOrder
  <2>3. draft \in Cursors /\ progress.transaction \in Nat
    BY <1>0 DEF SinkTypeOK, Cursors
  <2>4. draft.pending # NotPending
    BY <2>2, <2>3 DEF NotPending
  <2>5. \A i \in DOMAIN topic : topic[i].txn \in Int /\ topic[i].txn < progress.transaction
    <3>1. \A x \in Transactions : x.txn \in Int
      BY DEF Transactions
    <3>2. \A i \in DOMAIN topic : topic[i] \in Transactions
      BY <1>0 DEF SinkTypeOK
    <3>3. QED
      BY <3>1, <3>2 DEF DeliveryInv, PendingInOrder
  <2>6. ~Delivered(draft.pending)
    BY <2>2, <2>3, <2>5 DEF Delivered
  <2>7. \A i \in DOMAIN topic : topic[i].txn < draft.transaction
    BY <2>2, <2>3, <2>5
  <2>8. /\ DeliveredRows' = DeliveredRows
        /\ Delivered(progress.pending)' <=> Delivered(draft.pending)
    BY <1>0, <2>1 DEF DeliveredRows, Delivered
  <2>9. RowsUpTo(progress.viewEpoch, DeliveredRows \o progress.pending.rows)'
    BY <2>1, <2>2, <2>8 DEF RowsUpTo, LogPrefix
  <2>10. PendingInOrder'
    BY <1>0, <2>1, <2>2, <2>3, <2>4, <2>6, <2>7, <2>8, <2>9 DEF PendingInOrder
  <2>11. TransactionInOrder'
    BY <1>0, <2>1, <2>2, <2>4, <2>6, <2>8 DEF TransactionInOrder, Holds
  <2>12. SinkTypeOK'
    BY <1>0, <1>2, <2>1, <2>3 DEF SinkTypeOK
  <2>13. QED
    BY <1>0, <2>10, <2>11, <2>12 DEF DeliveryInv
<1>5. QED
  BY <1>3, <1>4

\* Pending is cleared when the transaction is visible.
LEMMA DeliveryClear ==
  ASSUME RecoveryInv, DeliveryInv, view' = view, store' = store, ClearPending
  PROVE  DeliveryInv' /\ topic' = topic
<1>0. /\ SinkTypeOK /\ exporter = "clear" /\ UNCHANGED <<topic, open, draft>>
      /\ progress \in Cursors /\ draft \in Cursors
  BY DEF DeliveryInv, ClearPending, SinkTypeOK
<1>1. PICK o \in Outcomes("writes") :
        /\ progress' = IF Lands(o) THEN [progress EXCEPT !.pending = NotPending] ELSE progress
        /\ exporter' = IF o = "ok" THEN "idle" ELSE "failed"
  BY DEF ClearPending
<1>2. progress.pending # NotPending /\ Delivered(progress.pending) /\ open.status # "committing"
  BY <1>0 DEF DeliveryInv, TransactionInOrder
<1>3. CASE ~Lands(o)
  <2>1. progress' = progress /\ exporter' = "failed"
    BY <1>1, <1>3 DEF Lands
  <2>2. QED
    BY <1>0, <2>1, DeliveryAside
<1>4. CASE Lands(o)
  <2>1. /\ progress' \in Cursors /\ progress'.pending = NotPending
        /\ progress'.viewEpoch = progress.viewEpoch /\ progress'.snapshot = progress.snapshot
        /\ progress'.transaction = progress.transaction
    BY <1>0, <1>1, <1>4, NoProgressIsCursor DEF Cursors
  <2>2. exporter' \in {"idle", "failed"}
    BY <1>1
  <2>3. SinkTypeOK'
    BY <1>0, <2>1, <2>2 DEF SinkTypeOK
  <2>4. DeliveredRows' = DeliveredRows
    BY <1>0 DEF DeliveredRows
  <2>5. RowsUpTo(progress.viewEpoch, DeliveredRows)
    BY <1>2 DEF DeliveryInv, PendingInOrder
  <2>6. RowsUpTo(progress.viewEpoch, DeliveredRows)'
    BY <2>1, <2>4, <2>5 DEF RowsUpTo, LogPrefix
  <2>7. PendingInOrder'
    BY <1>0, <2>1, <2>6 DEF DeliveryInv, PendingInOrder
  <2>8. TransactionInOrder'
    BY <1>0, <1>2, <2>2 DEF TransactionInOrder
  <2>9. QED
    BY <1>0, <2>3, <2>7, <2>8 DEF DeliveryInv
<1>5. QED
  BY <1>3, <1>4

\* The transaction just staged is committed.
LEMMA DeliveryCommitStaged ==
  ASSUME RecoveryInv, DeliveryInv, view' = view, store' = store, CommitStaged
  PROVE  DeliveryInv' /\ (topic' = topic \/ Shows)
<1>0. SinkTypeOK /\ exporter = "commit" /\ UNCHANGED <<progress, draft>> /\ open \in OpenTransactions
        /\ draft \in Cursors
  BY DEF DeliveryInv, CommitStaged, SinkTypeOK
<1>1. progress.pending # NotPending /\ ~Delivered(progress.pending) /\ Holds(progress.pending)
  BY <1>0 DEF DeliveryInv, TransactionInOrder
<1>2. CASE open.status = "open"
  <2>1. CommitTransaction(open) /\ open.txn = progress.pending.txn /\ open.rows = progress.pending.rows
    BY <1>1, <1>2 DEF CommitStaged, Holds
  <2>2. QED
    BY <1>0, <1>1, <2>1, DeliveryCommit
<1>3. CASE open.status # "open"
  <2>1. exporter' = "failed" /\ UNCHANGED <<topic, open>>
    BY <1>3 DEF CommitStaged
  <2>2. QED
    BY <1>0, <2>1, DeliveryAside
<1>4. QED
  BY <1>2, <1>3

\* A pending transaction is looked up, and sent again only when it is absent.
LEMMA DeliveryRecover ==
  ASSUME RecoveryInv, DeliveryInv, view' = view, store' = store, Recover
  PROVE  DeliveryInv' /\ (topic' = topic \/ Shows)
<1> DEFINE p == progress.pending
           t == [txn |-> p.txn, rows |-> p.rows, status |-> "open"]
<1>0. /\ SinkTypeOK /\ exporter = "idle" /\ UNCHANGED <<progress, draft>> /\ p # NotPending
      /\ draft \in Cursors /\ p \in Transactions
  BY DEF DeliveryInv, Recover, SinkTypeOK, Cursors
<1>1. PICK o \in LookupOutcomes(p) :
        \/ o = "delivered" /\ exporter' = "clear" /\ UNCHANGED <<topic, open>>
        \/ o = "absent" /\ CommitTransaction(t)
        \/ exporter' = "failed" /\ UNCHANGED <<topic, open>>
  BY DEF Recover
<1>2. (o = "delivered" => Delivered(p)) /\ (o = "absent" => ~Delivered(p))
  BY DEF LookupOutcomes
<1>3. CASE o = "delivered" /\ exporter' = "clear" /\ UNCHANGED <<topic, open>>
  <2>1. SinkTypeOK'
    BY <1>0, <1>3 DEF SinkTypeOK
  <2>2. PendingInOrder'
    <3>1. store.frontier \in Nat /\ store.frontier >= store.frontier
      BY DEF RecoveryInv, SourceTypeOK, StoreStates
    <3>2. QED
      BY <1>0, <1>3, <3>1, PendingKept
  <2>3. Delivered(p)' /\ Delivered(p) /\ progress' = progress
    BY <1>0, <1>2, <1>3 DEF Delivered
  <2>4. open.status # "committing"
    BY <2>3 DEF DeliveryInv, TransactionInOrder
  <2>5. TransactionInOrder'
    BY <1>0, <1>3, <2>3, <2>4 DEF TransactionInOrder
  <2>6. QED
    BY <1>3, <2>1, <2>2, <2>5 DEF DeliveryInv
<1>4. CASE o = "absent" /\ CommitTransaction(t)
  <2>1. t \in OpenTransactions /\ t.txn = p.txn /\ t.rows = p.rows
    BY <1>0 DEF OpenTransactions, Transactions
  <2> HIDE DEF t
  <2>2. QED
    BY <1>0, <1>2, <1>4, <2>1, DeliveryCommit
<1>5. CASE exporter' = "failed" /\ UNCHANGED <<topic, open>>
  BY <1>0, <1>5, DeliveryAside
<1>6. QED
  BY <1>1, <1>3, <1>4, <1>5

\* The broker resolves a commit it has accepted.
LEMMA DeliveryResolves ==
  ASSUME RecoveryInv, DeliveryInv, view' = view, store' = store,
         open.status = "committing", topic' = Shown(open), open' = NoTxn, progress' = progress,
         draft' = draft, exporter' = exporter \/ exporter' = "idle"
  PROVE  DeliveryInv' /\ Shows
<1>0. SinkTypeOK /\ draft \in Cursors
  BY DEF DeliveryInv, SinkTypeOK
<1>1. /\ progress.pending # NotPending /\ ~Delivered(progress.pending)
      /\ open.txn = progress.pending.txn /\ open.rows = progress.pending.rows
      /\ exporter \in {"down", "idle", "failed", "clear"}
  BY <1>0 DEF DeliveryInv, TransactionInOrder, Holds, SinkTypeOK
<1>2. Shows
  BY <1>0, <1>1, ShownIsPending DEF Shows
<1>3. QED
  BY <1>0, <1>1, <1>2, DeliveryShown

\* Every step of the sink delivers the pending transaction or nothing.
LEMMA DeliverySink ==
  ASSUME RecoveryInv, DeliveryInv, UNCHANGED sourceVars, SinkNext
  PROVE  DeliveryInv' /\ (topic' = topic \/ Shows)
<1>0. view' = view /\ store' = store /\ SinkTypeOK /\ draft \in Cursors
  BY DEF sourceVars, DeliveryInv, SinkTypeOK
<1>1. CASE Connect
  <2>1. CASE open.status = "committing"
    <3>1. topic' = Shown(open) /\ open' = NoTxn /\ progress' = progress /\ draft' = draft
            /\ exporter' = "idle"
      BY <1>1, <2>1 DEF Connect
    <3>2. QED
      BY <1>0, <2>1, <3>1, DeliveryResolves
  <2>2. CASE open.status # "committing"
    <3>1. topic' = topic /\ open' = NoTxn /\ progress' = progress /\ draft' = draft
            /\ exporter' = "idle"
      BY <1>1, <2>2 DEF Connect
    <3>2. QED
      BY <1>0, <3>1, DeliveryAside
  <2>3. QED
    BY <2>1, <2>2
<1>2. CASE Stage \/ PersistStaged \/ ClearPending
  BY <1>0, <1>2, DeliveryStage, DeliveryPersist, DeliveryClear
<1>3. CASE CommitStaged \/ Recover
  BY <1>0, <1>3, DeliveryCommitStaged, DeliveryRecover
<1>4. CASE TransactionResolves
  <2>1. open.status = "committing" /\ topic' = Shown(open) /\ open' = NoTxn /\ progress' = progress
          /\ draft' = draft /\ exporter' = exporter
    BY <1>4 DEF TransactionResolves
  <2>2. QED
    BY <1>0, <2>1, DeliveryResolves
<1>5. CASE TransactionTimesOut
  <2>1. open' = NoTxn /\ UNCHANGED <<progress, topic, draft, exporter>>
    BY <1>5 DEF TransactionTimesOut
  <2>2. SinkTypeOK'
    BY <1>0, <2>1, NoTxnIsOpen DEF SinkTypeOK
  <2>3. PendingInOrder'
    <3>1. store.frontier \in Nat /\ store.frontier >= store.frontier
      BY DEF RecoveryInv, SourceTypeOK, StoreStates
    <3>2. QED
      BY <1>0, <2>1, <3>1, PendingKept
  <2>4. /\ Delivered(progress.pending)' <=> Delivered(progress.pending)
        /\ RowsUpTo(draft.viewEpoch, DeliveredRows \o draft.pending.rows)'
             <=> RowsUpTo(draft.viewEpoch, DeliveredRows \o draft.pending.rows)
    BY <1>0, <2>1 DEF Delivered, DeliveredRows, RowsUpTo, LogPrefix
  <2>5. TransactionInOrder'
    BY <1>0, <2>1, <2>4, NoTxnIsOpen DEF DeliveryInv, TransactionInOrder, Holds
  <2>6. QED
    BY <2>1, <2>2, <2>3, <2>5 DEF DeliveryInv
<1>6. CASE TryAgain
  <2>1. exporter' = "idle" /\ UNCHANGED <<progress, topic, open, draft>>
    BY <1>6 DEF TryAgain
  <2>2. QED
    BY <1>0, <2>1, DeliveryAside
<1>7. QED
  BY <1>1, <1>2, <1>3, <1>4, <1>5, <1>6 DEF SinkNext, ExporterStep

\* A process that starts again finds the topic and the cursor as they were.
LEMMA DeliveryRestart ==
  ASSUME RecoveryInv, DeliveryInv, ProcessRestarts
  PROVE  DeliveryInv' /\ topic' = topic
<1>1. /\ view' = view /\ store' = store /\ progress' = progress /\ topic' = topic /\ open' = open
      /\ exporter' = "down" /\ draft' \in Cursors
  BY NoProgressIsCursor DEF ProcessRestarts
<1>2. QED
  BY <1>1, DeliveryAside

\* Every step keeps the output in order.
LEMMA DeliveryStep ==
  ASSUME RecoveryInv, RecoveryInv', DeliveryInv, [Next]_vars
  PROVE  DeliveryInv'
<1>1. CASE SourceNext /\ UNCHANGED sinkVars
  BY <1>1, LogGrowsStep, DeliverySource
<1>2. CASE SinkNext /\ UNCHANGED sourceVars
  BY <1>2, DeliverySink
<1>3. CASE Crash \/ DriverGivesUp
  BY <1>3, DeliveryRestart DEF Crash, DriverGivesUp
<1>4. CASE UNCHANGED vars
  <2>1. store.frontier \in Nat /\ store.frontier >= store.frontier
    BY DEF RecoveryInv, SourceTypeOK, StoreStates
  <2>2. LogGrows /\ UNCHANGED sinkVars
    BY <1>4, <2>1 DEF vars, sourceVars, LogGrows
  <2>3. QED
    BY <2>2, DeliverySource
<1>5. QED
  BY <1>1, <1>2, <1>3, <1>4 DEF Next

-----------------------------------------------------------------------------
(* SourceToSink implements ExactlyOnceDelivery.                            *)

\* One epoch applied is the next rows of the upstream topic.
LEMMA PromiseApply ==
  ASSUME RecoveryInv, InputInv, CommitM3, UNCHANGED sinkVars
  PROVE  [Promise!Next]_(Promise!vars)
<1>0. /\ SourceTypeOK /\ worker = "m3" /\ job.rows \in RowSeqs /\ produced \in Nat /\ store.cursor \in Nat
      /\ job.offset \in Nat
  BY DEF RecoveryInv, SourceTypeOK, CommitM3, Jobs, StoreStates
<1>1. produced' = produced /\ DeliveredRows' = DeliveredRows
  BY DEF CommitM3, DeliveredRows, sinkVars
<1>2. \/ UNCHANGED <<store, view>>
      \/ /\ store' = WithCommitted(store, job)
         /\ view' = IF job.rows = << >> THEN view
                    ELSE Append(view, [epoch |-> job.epoch, rows |-> job.rows])
  BY DEF CommitM3
<1>3. CASE UNCHANGED <<store, view>>
  <2>1. AppliedRows' = AppliedRows
    BY <1>3 DEF AppliedRows, LogRows
  <2>2. QED
    BY <1>1, <2>1 DEF Promise!vars
<1>4. CASE /\ store' = WithCommitted(store, job)
           /\ view' = IF job.rows = << >> THEN view
                      ELSE Append(view, [epoch |-> job.epoch, rows |-> job.rows])
  <2>1. AppliedRows' = AppliedRows \o job.rows
    BY <1>0, <1>4, CommittedLog
  <2>2. /\ job.offset = store.cursor + Len(job.rows) /\ job.offset <= produced
        /\ Numbered(job.rows, store.cursor) /\ Len(AppliedRows) = store.cursor /\ AppliedRows \in RowSeqs
    BY <1>0, LogIsRows DEF InputInv, JobFollows, SourceTypeOK
  <2>3. job.rows \in Seq(Nat) /\ Len(job.rows) \in Nat
    BY <1>0 DEF RowSeqs
  <2>4. CASE job.rows = << >>
    <3>1. AppliedRows' = AppliedRows
      BY <1>4, <2>4 DEF AppliedRows, LogRows
    <3>2. QED
      BY <1>1, <3>1 DEF Promise!vars
  <2>5. CASE job.rows # << >>
    <3> DEFINE n == Len(job.rows)
               a == Len(AppliedRows)
    <3>1. n \in 1..(produced - a)
      BY <1>0, <2>2, <2>3, <2>5
    <3>2. job.rows = [i \in 1..n |-> a + i - 1]
      <4>1. job.rows = [i \in 1..n |-> job.rows[i]]
        BY <2>3
      <4>2. \A i \in 1..n : job.rows[i] = a + i - 1
        BY <2>2 DEF Numbered
      <4> HIDE DEF n, a
      <4>3. QED
        BY <4>1, <4>2
    <3>3. Promise!Apply
      BY <1>1, <2>1, <3>1, <3>2 DEF Promise!Apply
    <3>4. QED
      BY <3>3 DEF Promise!Next
  <2>6. QED
    BY <2>4, <2>5
<1>5. QED
  BY <1>2, <1>3, <1>4

\* One transaction shown is more of a prefix of the log.
LEMMA PromiseDeliver ==
  ASSUME RecoveryInv, DeliveryInv, Shows, UNCHANGED sourceVars
  PROVE  [Promise!Next]_(Promise!vars)
<1> DEFINE p == progress.pending
           d == DeliveredRows
<1>1. DeliveredRows' = d \o p.rows /\ p \in Transactions
  BY ShowsRows DEF DeliveryInv
<1>2. RowsUpTo(progress.viewEpoch, d \o p.rows)
  BY DEF Shows, DeliveryInv, PendingInOrder
<1>3. PICK k \in 0..Len(view) : d \o p.rows = LogPrefix(k)
  BY <1>2 DEF RowsUpTo
<1>4. produced' = produced /\ AppliedRows' = AppliedRows
  BY DEF sourceVars, AppliedRows, LogRows
<1>5. d \in RowSeqs /\ p.rows \in RowSeqs
  <2>1. topic \in Seq(Transactions) /\ \A x \in Transactions : x.rows \in RowSeqs
    BY DEF DeliveryInv, SinkTypeOK, Transactions
  <2>2. Len(topic) \in Nat /\ \A i \in 1..Len(topic) : topic[i].rows \in RowSeqs
    BY <2>1
  <2>3. DeliveredRows = RowsOf(topic, Len(topic))
    BY DEF DeliveredRows, RowsOf
  <2>4. QED
    BY <1>1, <2>1, <2>2, <2>3, RowsOfRows
<1> HIDE DEF p, d
<1>6. CASE p.rows = << >>
  <2>1. DeliveredRows' = DeliveredRows
    BY <1>1, <1>5, <1>6 DEF RowSeqs, d
  <2>2. QED
    BY <1>4, <2>1 DEF Promise!vars
<1>7. CASE p.rows # << >>
  <2> DEFINE q == LogPrefix(k)
  <2>1. q \in RowSeqs /\ Len(q) <= Len(AppliedRows) /\ q = SubSeq(AppliedRows, 1, Len(q))
    BY DEF RecoveryInv, LogInOrder
  <2>2. AppliedRows \in RowSeqs
    BY LogIsRows DEF RecoveryInv, SourceTypeOK
  <2> HIDE DEF q
  <2>3. Len(q) \in Nat /\ Len(AppliedRows) \in Nat /\ Len(d) \in Nat
    BY <1>5, <2>1, <2>2 DEF RowSeqs
  <2>4. Len(q) > Len(d)
    <3>1. Len(d \o p.rows) = Len(d) + Len(p.rows) /\ Len(p.rows) \in Nat /\ Len(p.rows) # 0
      BY <1>5, <1>7 DEF RowSeqs
    <3>2. QED
      BY <1>3, <2>3, <3>1 DEF q
  <2>5. Len(q) \in (Len(DeliveredRows) + 1)..Len(AppliedRows)
    BY <2>1, <2>3, <2>4 DEF d
  <2>6. DeliveredRows' = SubSeq(AppliedRows, 1, Len(q))
    BY <1>1, <1>3, <2>1 DEF q
  <2>7. Promise!Deliver
    BY <1>4, <2>5, <2>6 DEF Promise!Deliver
  <2>8. QED
    BY <2>7 DEF Promise!Next
<1>8. QED
  BY <1>6, <1>7

\* Every step is one of the promise, or changes nothing it speaks of.
LEMMA PromiseStep ==
  ASSUME RecoveryInv, InputInv, DeliveryInv, [Next]_vars
  PROVE  [Promise!Next]_(Promise!vars)
<1>0. ASSUME UNCHANGED <<produced, view, topic>> PROVE UNCHANGED Promise!vars
  BY <1>0 DEF Promise!vars, AppliedRows, LogRows, DeliveredRows
<1>1. CASE SourceNext /\ UNCHANGED sinkVars
  <2>1. CASE Produce
    <3>1. AppliedRows' = AppliedRows /\ DeliveredRows' = DeliveredRows
      BY <1>1, <2>1 DEF Produce, AppliedRows, LogRows, DeliveredRows, sinkVars
    <3>2. Promise!Produce
      BY <2>1, <3>1 DEF Produce, Promise!Produce
    <3>3. QED
      BY <3>2 DEF Promise!Next
  <2>2. CASE CommitM3
    BY <1>1, <2>2, PromiseApply
  <2>3. CASE StartWorker \/ PersistIntent \/ Poll \/ BeginCommit \/ Prepare \/ Acknowledge
               \/ PollFails \/ LifecycleUnreadable \/ RestoreFails \/ RefuseBatch
               \/ ProcessFails \/ Rebalance
    <3>1. UNCHANGED <<produced, view, topic>>
      BY <1>1, <2>3 DEF StartWorker, PersistIntent, Poll, BeginCommit, Prepare, Acknowledge,
                        PollFails, LifecycleUnreadable, RestoreFails, RefuseBatch,
                        ProcessFails, Rebalance, sinkVars
    <3>2. QED
      BY <1>0, <3>1
  <2>4. QED
    BY <1>1, <2>1, <2>2, <2>3 DEF SourceNext, WorkerStep
<1>2. CASE SinkNext /\ UNCHANGED sourceVars
  <2>1. topic' = topic \/ Shows
    BY <1>2, DeliverySink
  <2>2. CASE topic' = topic
    BY <1>0, <1>2, <2>2 DEF sourceVars
  <2>3. CASE Shows
    BY <1>2, <2>3, PromiseDeliver
  <2>4. QED
    BY <2>1, <2>2, <2>3
<1>3. CASE Crash \/ DriverGivesUp
  <2>1. UNCHANGED <<produced, view, topic>>
    BY <1>3 DEF Crash, DriverGivesUp, ProcessRestarts
  <2>2. QED
    BY <1>0, <2>1
<1>4. CASE UNCHANGED vars
  BY <1>0, <1>4 DEF vars, sourceVars, sinkVars
<1>5. QED
  BY <1>1, <1>2, <1>3, <1>4 DEF Next

\* The whole pipeline is exactly-once: it implements ExactlyOnceDelivery, for
\* any size of batches, ring and in-flight limit and any faults, as long as no
\* poll is cut by the byte limit where a write or a poll fails or a batch is
\* given up (commit_backfill_epoch, KafkaViewSink::deliver_next,
\* KafkaSink::recover).
THEOREM PipelineIsExactlyOnce ==
  ASSUME \A l \in Loads : NoLostStash(l)
  PROVE  Spec => ExactlyOnce
<1> DEFINE IInv == RecoveryInv /\ InputInv /\ DeliveryInv
<1>1. Init => IInv
  BY RecoveryInit, InputInit, DeliveryInit
<1>2. IInv /\ [Next]_vars => IInv'
  BY RecoveryStep, InputStep, DeliveryStep
<1>3. Init => Promise!Init
  <2>1. SUFFICES ASSUME Init PROVE Promise!Init
    OBVIOUS
  <2>2. view = << >> /\ Len(view) = 0 /\ topic = << >> /\ Len(topic) = 0 /\ produced = 0
    BY <2>1 DEF Init, SourceInit, SinkInit
  <2>3. AppliedRows = RowsOf(view, 0) /\ DeliveredRows = RowsOf(topic, 0)
    BY <2>2 DEF AppliedRows, LogRows, DeliveredRows, RowsOf
  <2>4. QED
    BY <2>2, <2>3, RowsOfNone DEF Promise!Init
<1>4. IInv /\ [Next]_vars => [Promise!Next]_(Promise!vars)
  BY PromiseStep
<1> HIDE DEF IInv
<1>5. QED
  BY <1>1, <1>2, <1>3, <1>4, PTL DEF Spec, ExactlyOnce, Promise!Spec

-----------------------------------------------------------------------------
(* Sums over finite sets *)

\* The element a fold takes next, and the function it is defined by.
Pick(s) == CHOOSE x \in s : TRUE

Sums(w, A, g) ==
    g = [s \in SUBSET A |-> IF s = {} THEN 0 ELSE w[Pick(s)] + g[s \ {Pick(s)}]]

\* The sum of the weights w over A, as SumFunctionOnSet defines it.
Total(w, A) == (CHOOSE g : Sums(w, A, g))[A]

\* Among sets of subsets of a finite set there is a smallest one: what every
\* induction over a finite set below rests on.
LEMMA MinimalSet ==
  ASSUME NEW A, IsFiniteSet(A), NEW T \in SUBSET SUBSET A, T # {}
  PROVE  \E m \in T : \A y \in SUBSET m : y # m => y \notin T
<1>1. IsWellFoundedOn(StrictSubsetOrdering(A), SUBSET A)
  BY FS_StrictSubsetOrderingWellFounded, FS_FiniteSubsetsOfFinite
<1>2. \E m \in T : \A y \in T : <<y, m>> \notin StrictSubsetOrdering(A)
  BY <1>1, WFMin
<1>3. PICK m \in T : \A y \in T : <<y, m>> \notin StrictSubsetOrdering(A)
  BY <1>2
<1>4. ASSUME NEW y \in SUBSET m, y # m, y \in T PROVE FALSE
  <2>1. y \in SUBSET A /\ m \in SUBSET A
    OBVIOUS
  <2>2. <<y, m>> \in StrictSubsetOrdering(A)
    BY <1>4, <2>1 DEF StrictSubsetOrdering
  <2>3. QED
    BY <1>3, <1>4, <2>2
<1>5. QED
  BY <1>4

\* A fold takes an element of the set.
LEMMA PickIn == ASSUME NEW s, s # {} PROVE Pick(s) \in s
  BY DEF Pick

\* The folds over a set and over one of its subsets agree on the subset.
LEMMA SumsAgree ==
  ASSUME NEW w, NEW A, IsFiniteSet(A), NEW B \in SUBSET A, NEW g, NEW h,
         Sums(w, A, g), Sums(w, B, h)
  PROVE  \A s \in SUBSET B : g[s] = h[s]
<1> DEFINE T == {s \in SUBSET B : g[s] # h[s]}
<1>1. SUFFICES ASSUME T # {} PROVE FALSE
  OBVIOUS
<1>2. IsFiniteSet(B)
  BY FS_Subset
<1>3. T \in SUBSET SUBSET B
  OBVIOUS
<1>4. PICK m \in T : \A y \in SUBSET m : y # m => y \notin T
  <2> HIDE DEF T
  <2> QED BY <1>1, <1>2, <1>3, MinimalSet
<1>5. m \in SUBSET B /\ m \in SUBSET A /\ g[m] # h[m]
  OBVIOUS
<1>6. m # {}
  BY <1>5 DEF Sums
<1>7. Pick(m) \in m
  BY <1>6, PickIn
<1>8. g[m \ {Pick(m)}] = h[m \ {Pick(m)}]
  BY <1>4, <1>5, <1>7
<1>9. g[m] = w[Pick(m)] + g[m \ {Pick(m)}] /\ h[m] = w[Pick(m)] + h[m \ {Pick(m)}]
  BY <1>5, <1>6 DEF Sums
<1>10. QED
  BY <1>5, <1>8, <1>9

\* The recursive definition of the fold has a solution on every finite set.
LEMMA SumsExist ==
  ASSUME NEW w, NEW A, IsFiniteSet(A)
  PROVE  \E g : Sums(w, A, g)
<1> DEFINE T == {B \in SUBSET A : ~ \E g : Sums(w, B, g)}
<1>1. SUFFICES ASSUME T # {} PROVE FALSE
  OBVIOUS
<1>2. T \in SUBSET SUBSET A
  OBVIOUS
<1>3. PICK m \in T : \A y \in SUBSET m : y # m => y \notin T
  <2> HIDE DEF T
  <2> QED BY <1>1, <1>2, MinimalSet
<1>4. m \in SUBSET A /\ ~ \E g : Sums(w, m, g)
  OBVIOUS
<1>10. IsFiniteSet(m)
  BY <1>4, FS_Subset
<1>5. \A y \in SUBSET m : y # m => \E g : Sums(w, y, g)
  BY <1>3, <1>4
<1> DEFINE G(y) == CHOOSE g : Sums(w, y, g)
           g == [s \in SUBSET m |-> IF s # m THEN G(s)[s]
                   ELSE IF s = {} THEN 0 ELSE w[Pick(s)] + G(s \ {Pick(s)})[s \ {Pick(s)}]]
<1>6. \A y \in SUBSET m : y # m => Sums(w, y, G(y))
  BY <1>5
<1>7. ASSUME NEW s \in SUBSET m
      PROVE  g[s] = IF s = {} THEN 0 ELSE w[Pick(s)] + g[s \ {Pick(s)}]
  <2>1. CASE s = {}
    <3>1. CASE s = m
      BY <3>1, <2>1
    <3>2. CASE s # m
      <4>1. Sums(w, s, G(s)) /\ g[s] = G(s)[s]
        BY <1>6, <3>2
      <4> HIDE DEF G, g
      <4>2. QED
        BY <4>1, <2>1 DEF Sums
    <3>3. QED
      BY <3>1, <3>2
  <2>2. CASE s # {}
    <3> DEFINE r == s \ {Pick(s)}
    <3>1. Pick(s) \in s /\ r \in SUBSET m /\ r # m /\ r # s /\ r \in SUBSET s
      BY <2>2, PickIn
    <3>2. g[r] = G(r)[r]
      BY <3>1
    <3>3. CASE s = m
      BY <3>3, <3>2, <2>2
    <3>4. CASE s # m
      <4>1. Sums(w, s, G(s)) /\ g[s] = G(s)[s] /\ Sums(w, r, G(r)) /\ IsFiniteSet(s)
        BY <1>6, <3>4, <3>1, <1>10, FS_Subset
      <4> HIDE DEF G, g, r
      <4>2. G(s)[s] = w[Pick(s)] + G(s)[r]
        BY <4>1, <2>2 DEF Sums, r
      <4>3. G(s)[r] = G(r)[r]
        BY <4>1, <3>1, SumsAgree
      <4>4. QED
        BY <4>1, <4>2, <4>3, <3>2, <2>2 DEF r
    <3>5. QED
      BY <3>3, <3>4
  <2>3. QED
    BY <2>1, <2>2
<1>8. Sums(w, m, g)
  <2>1. g = [s \in SUBSET m |-> g[s]]
    OBVIOUS
  <2> HIDE DEF g
  <2>2. QED
    BY <2>1, <1>7 DEF Sums
<1>9. QED
  BY <1>8, <1>4

\* The recursion equation of the sum.
LEMMA TotalStep ==
  ASSUME NEW w, NEW A, IsFiniteSet(A)
  PROVE  Total(w, A) = IF A = {} THEN 0 ELSE w[Pick(A)] + Total(w, A \ {Pick(A)})
<1> DEFINE G(y) == CHOOSE g : Sums(w, y, g)
           r == A \ {Pick(A)}
<1>1. IsFiniteSet(r) /\ r \in SUBSET A
  BY FS_Subset
<1>2. Sums(w, A, G(A)) /\ Sums(w, r, G(r))
  BY <1>1, SumsExist
<1>3. Total(w, A) = G(A)[A] /\ Total(w, r) = G(r)[r]
  BY DEF Total
<1> HIDE DEF G, r
<1>4. G(A)[A] = IF A = {} THEN 0 ELSE w[Pick(A)] + G(A)[r]
  BY <1>2 DEF Sums, r
<1>5. G(A)[r] = G(r)[r]
  BY <1>1, <1>2, SumsAgree
<1>6. QED
  BY <1>3, <1>4, <1>5 DEF r

\* An empty sum.
LEMMA TotalEmpty == ASSUME NEW w PROVE Total(w, {}) = 0
  BY TotalStep, FS_EmptySet

\* A property of the empty sum that one more element does not end holds of all
\* sums: T is the set of the subsets of A that have it.
LEMMA SumInduction ==
  ASSUME NEW A, IsFiniteSet(A), NEW T,
         {} \in T, \A B \in SUBSET A : B # {} /\ B \ {Pick(B)} \in T => B \in T
  PROVE  A \in T
<1> DEFINE F == {B \in SUBSET A : B \notin T}
<1>1. SUFFICES ASSUME A \notin T PROVE FALSE
  OBVIOUS
<1>2. F # {} /\ F \in SUBSET SUBSET A
  BY <1>1
<1>3. PICK m \in F : \A y \in SUBSET m : y # m => y \notin F
  <2> HIDE DEF F
  <2> QED BY <1>2, MinimalSet
<1>4. m # {} /\ Pick(m) \in m
  BY PickIn
<1>5. m \ {Pick(m)} \in T
  BY <1>3, <1>4
<1>6. QED
  BY <1>4, <1>5

\* A sum of integers is an integer.
LEMMA TotalInt ==
  ASSUME NEW A, IsFiniteSet(A), NEW w, \A x \in A : w[x] \in Int
  PROVE  Total(w, A) \in Int
<1> DEFINE T == {B \in SUBSET A : Total(w, B) \in Int}
<1>1. {} \in T
  BY TotalEmpty
<1>2. ASSUME NEW B \in SUBSET A, B # {}, B \ {Pick(B)} \in T PROVE B \in T
  <2>1. IsFiniteSet(B) /\ Pick(B) \in A
    BY <1>2, FS_Subset, PickIn
  <2>2. Total(w, B) = w[Pick(B)] + Total(w, B \ {Pick(B)})
    BY <1>2, <2>1, TotalStep
  <2>3. QED
    BY <1>2, <2>1, <2>2
<1>3. A \in T
  <2> HIDE DEF T
  <2> QED BY <1>1, <1>2, SumInduction
<1>4. QED
  BY <1>3

\* The sum of two weights.
LEMMA TotalAdd ==
  ASSUME NEW A, IsFiniteSet(A), NEW w, NEW d, NEW v,
         \A x \in A : w[x] \in Int /\ d[x] \in Int /\ v[x] = w[x] + d[x]
  PROVE  Total(v, A) = Total(w, A) + Total(d, A)
<1> DEFINE T == {B \in SUBSET A : Total(v, B) = Total(w, B) + Total(d, B)}
<1>1. {} \in T
  BY TotalEmpty
<1>2. ASSUME NEW B \in SUBSET A, B # {}, B \ {Pick(B)} \in T PROVE B \in T
  <2>1. IsFiniteSet(B) /\ Pick(B) \in A /\ IsFiniteSet(B \ {Pick(B)})
    BY <1>2, FS_Subset, PickIn
  <2>2. /\ Total(w, B) = w[Pick(B)] + Total(w, B \ {Pick(B)})
        /\ Total(d, B) = d[Pick(B)] + Total(d, B \ {Pick(B)})
        /\ Total(v, B) = v[Pick(B)] + Total(v, B \ {Pick(B)})
    BY <1>2, <2>1, TotalStep
  <2>3. Total(w, B \ {Pick(B)}) \in Int /\ Total(d, B \ {Pick(B)}) \in Int
    <3>1. \A x \in B \ {Pick(B)} : w[x] \in Int /\ d[x] \in Int
      OBVIOUS
    <3>2. QED
      BY <2>1, <3>1, TotalInt
  <2>4. Total(v, B \ {Pick(B)}) = Total(w, B \ {Pick(B)}) + Total(d, B \ {Pick(B)})
    BY <1>2
  <2>5. QED
    BY <2>1, <2>2, <2>3, <2>4
<1>3. A \in T
  <2> HIDE DEF T
  <2> QED BY <1>1, <1>2, SumInduction
<1>4. QED
  BY <1>3

\* A sum of naturals is zero when all of them are.
LEMMA TotalZero ==
  ASSUME NEW A, IsFiniteSet(A), NEW w, \A x \in A : w[x] \in Nat
  PROVE  Total(w, A) \in Nat /\ (Total(w, A) = 0 <=> \A x \in A : w[x] = 0)
<1> DEFINE T == {B \in SUBSET A : Total(w, B) \in Nat /\ (Total(w, B) = 0 <=> \A x \in B : w[x] = 0)}
<1>1. {} \in T
  BY TotalEmpty
<1>2. ASSUME NEW B \in SUBSET A, B # {}, B \ {Pick(B)} \in T PROVE B \in T
  <2>1. IsFiniteSet(B) /\ Pick(B) \in A /\ Pick(B) \in B
    BY <1>2, FS_Subset, PickIn
  <2>2. Total(w, B) = w[Pick(B)] + Total(w, B \ {Pick(B)})
    BY <1>2, <2>1, TotalStep
  <2> DEFINE rest == Total(w, B \ {Pick(B)})
  <2>3. /\ rest \in Nat /\ (rest = 0 <=> \A x \in B \ {Pick(B)} : w[x] = 0)
        /\ w[Pick(B)] \in Nat
    BY <1>2, <2>1
  <2>4. (\A x \in B : w[x] = 0) <=> w[Pick(B)] = 0 /\ \A x \in B \ {Pick(B)} : w[x] = 0
    BY <2>1
  <2>5. Total(w, B) \in Nat /\ (Total(w, B) = 0 <=> w[Pick(B)] = 0 /\ rest = 0)
    <3> HIDE DEF rest
    <3>1. \A a, b \in Nat : a + b \in Nat /\ (a + b = 0 <=> a = 0 /\ b = 0)
      OBVIOUS
    <3>2. Total(w, B) = w[Pick(B)] + rest
      BY <2>2 DEF rest
    <3>3. QED
      BY <2>3, <3>1, <3>2
  <2>6. QED
    BY <2>3, <2>4, <2>5
<1>3. A \in T
  <2> HIDE DEF T
  <2> QED BY <1>1, <1>2, SumInduction
<1>4. QED
  BY <1>3

\* The sums of the model are these sums.
LEMMA SumUnfold == \A w, A : SumFunctionOnSet(w, A) = Total(w, A)
  BY DEF SumFunctionOnSet, FoldFunctionOnSet, MapThenFoldSet, Total, Sums, Pick

-----------------------------------------------------------------------------
(* What the operator and the store hold of the tables *)

Tables == [Sides -> [Rows -> Nat]]

Memories ==
    [arr : [Sides -> [Rows -> Int]], weight : [Sides -> [Buckets -> Int]],
     total : Int, nulls : Int, dirty : [Sides -> SUBSET Rows],
     lazy : BOOLEAN, loaded : [Sides -> SUBSET Buckets]]

States ==
    [rows : [Sides -> SUBSET Rows], weight : [Sides -> [Buckets -> Int]],
     total : Int, nulls : Int]

JoinTypeOK ==
    /\ kind \in Kinds /\ table \in Tables /\ mem \in Memories /\ db \in States
    /\ batch.table \in Tables /\ batch.state \in States
    /\ batch = [table |-> batch.table, out |-> batch.out, state |-> batch.state]
    /\ phase \in {"idle", "processed", "writing", "pending", "restarted"}
    /\ lost \in BOOLEAN

\* The sides whose rows the operator puts into the output or multiplies.
Multiplied(k, s) == s = "left" \/ k \in {"inner", "left", "right", "full"}

\* A side's weight in a bucket, and the right side's rows, all of them and
\* those with a NULL key.
Weight(t, s, b) == SumFunctionOnSet(t[s], InBucket(s, b))
RightTotal(t) == SumFunctionOnSet(t["right"], Rows)
RightNulls(t) == SumFunctionOnSet(t["right"], NullRows)

\* The weights of x, the memory or the store, are those of the tables t.
Weighs(k, t, x) ==
    /\ \A s \in Tracked(k), b \in Buckets : x.weight[s][b] = Weight(t, s, b)
    /\ k = "nullAware" => x.total = RightTotal(t) /\ x.nulls = RightNulls(t)

\* The store has the rows that are in the tables t.
Stores(k, t, x) ==
    \A s \in Sides : Multiplied(k, s) =>
        x.rows[s] = {r \in Rows : Arranged(k, r) /\ t[s][r] > 0}

\* The memory has the rows of the tables t as often as they do, but for the
\* rows it has not loaded.
Arranges(k, t, m) ==
    \A s \in Sides, r \in Rows : Multiplied(k, s) /\ Arranged(k, r) =>
        \/ m.arr[s][r] = t[s][r]
        \/ m.lazy /\ m.arr[s][r] = 0 /\ Bucket(s, r) \notin m.loaded[s]

Follows(k, t, m) == Weighs(k, t, m) /\ Arranges(k, t, m)

Keeps(k, t, x) == Weighs(k, t, x) /\ Stores(k, t, x)

\* What differs between the store and the memory, with the epoch of m in it,
\* is marked, and the marked rows are loaded.
Marks(k, old, new, x, m) ==
    /\ \A s \in Sides : \A r \in m.dirty[s] : Arranged(k, r)
    /\ \A s \in Sides, r \in Rows : Multiplied(k, s) /\ Arranged(k, r) =>
          IF r \in m.dirty[s] THEN m.arr[s][r] = new[s][r] ELSE new[s][r] = old[s][r]
    /\ \A s \in Tracked(k), b \in Buckets :
          (\A r \in m.dirty[s] : Bucket(s, r) # b) => m.weight[s][b] = x.weight[s][b]

JoinInv ==
    /\ JoinTypeOK
    /\ mem.lazy => kind = "inner"
    /\ mem.lazy /\ phase \in {"idle", "writing"} => mem.dirty = Empty.dirty
    /\ phase = "restarted" => mem = Unrestored
    /\ \A s \in Sides : \A r \in mem.dirty[s] : Arranged(kind, r)
    /\ ~lost =>
         /\ out = SqlJoin(kind, table) /\ Keeps(kind, table, db)
         /\ phase = "idle" => Follows(kind, table, mem)
         /\ phase \in {"processed", "writing"} =>
              Follows(kind, batch.table, mem) /\ batch.out = SqlJoin(kind, batch.table)
         /\ phase = "processed" => Marks(kind, table, batch.table, db, mem)
         /\ phase = "writing" => Keeps(kind, batch.table, batch.state)

-----------------------------------------------------------------------------
(* Keys and weights *)

\* The epoch d leads from the tables t to the tables u.
Leads(t, u, d) ==
    /\ d.rows \in [Sides -> [Rows -> Int]]
    /\ \A s \in Sides, r \in Rows : u[s][r] = t[s][r] + d.rows[s][r]
    /\ \A s \in Sides, b \in Buckets :
          /\ d.key[s][b] \in Int /\ Weight(u, s, b) = Weight(t, s, b) + d.key[s][b]
          /\ (\A r \in InBucket(s, b) : d.rows[s][r] = 0) => d.key[s][b] = 0
    /\ d.key \in [Sides -> [Buckets -> Int]]
    /\ d.total \in Int /\ RightTotal(u) = RightTotal(t) + d.total
    /\ d.nulls \in Int /\ RightNulls(u) = RightNulls(t) + d.nulls

\* The sets that are summed over are finite.
LEMMA SummedRows ==
    /\ IsFiniteSet(Rows) /\ IsFiniteSet(NullRows) /\ NullRows \subseteq Rows
    /\ \A s, b : IsFiniteSet(InBucket(s, b)) /\ InBucket(s, b) \subseteq Rows
<1>1. IsFiniteSet(Rows)
  BY RowsAssumption
<1>2. NullRows \subseteq Rows /\ \A s, b : InBucket(s, b) \subseteq Rows
  BY DEF NullRows, InBucket
<1>3. QED
  BY <1>1, <1>2, FS_Subset

\* The weights of tables are naturals, and zero where there is no row.
LEMMA TableWeights ==
  ASSUME NEW t \in Tables
  PROVE  /\ \A s \in Sides, b \in Buckets :
               /\ Weight(t, s, b) \in Nat
               /\ Weight(t, s, b) = 0 <=> \A r \in InBucket(s, b) : t[s][r] = 0
         /\ RightTotal(t) \in Nat /\ RightNulls(t) \in Nat
         /\ RightTotal(t) = 0 <=> \A r \in Rows : t["right"][r] = 0
         /\ RightNulls(t) = 0 <=> \A r \in NullRows : t["right"][r] = 0
<1>1. \A s \in Sides, r \in Rows : t[s][r] \in Nat
  BY DEF Tables
<1>2. "right" \in Sides
  BY DEF Sides
<1>3. ASSUME NEW s \in Sides, NEW b \in Buckets
      PROVE  /\ Weight(t, s, b) \in Nat
             /\ Weight(t, s, b) = 0 <=> \A r \in InBucket(s, b) : t[s][r] = 0
  <2>1. \A x \in InBucket(s, b) : t[s][x] \in Nat
    BY <1>1, SummedRows
  <2>2. QED
    BY <2>1, SummedRows, TotalZero, SumUnfold DEF Weight
<1>4. RightTotal(t) \in Nat /\ (RightTotal(t) = 0 <=> \A r \in Rows : t["right"][r] = 0)
  BY <1>1, <1>2, SummedRows, TotalZero, SumUnfold DEF RightTotal
<1>5. RightNulls(t) \in Nat /\ (RightNulls(t) = 0 <=> \A r \in NullRows : t["right"][r] = 0)
  <2>1. \A x \in NullRows : t["right"][x] \in Nat
    BY <1>1, <1>2, SummedRows
  <2>2. QED
    BY <2>1, SummedRows, TotalZero, SumUnfold DEF RightNulls
<1>6. QED
  BY <1>3, <1>4, <1>5

\* The contents an epoch may lead to are tables.
LEMMA ContentsAreTables == Contents \subseteq Tables
<1>1. ASSUME NEW s \in Sides, NEW c \in SideContents(s) PROVE c \in [Rows -> Nat]
  <2>1. \A r \in Rows : MaxCopies[s][r] \in Nat
    BY RowsAssumption DEF Sides
  <2>2. UNION {0..MaxCopies[s][r] : r \in Rows} \subseteq Nat
    BY <2>1
  <2>3. QED
    BY <2>2 DEF SideContents
<1>2. ASSUME NEW l \in SideContents("left"), NEW r \in SideContents("right")
      PROVE  [s \in Sides |-> IF s = "left" THEN l ELSE r] \in Tables
  BY <1>1 DEF Tables, Sides
<1>3. QED
  BY <1>2 DEF Contents

\* An epoch of the code leads from tables to tables.
LEMMA DeltaLeads ==
  ASSUME NEW d \in Deltas, table \in Tables
  PROVE  \E u \in Tables : Leads(table, u, d)
<1>1. PICK u \in Contents : d = Delta([s \in Sides |-> [r \in Rows |-> u[s][r] - table[s][r]]])
  BY DEF Deltas
<1>2. u \in Tables
  BY ContentsAreTables
<1> DEFINE c == [s \in Sides |-> [r \in Rows |-> u[s][r] - table[s][r]]]
<1>3. \A s \in Sides, r \in Rows : u[s][r] \in Nat /\ table[s][r] \in Nat
  BY <1>2 DEF Tables
<1>4. /\ c \in [Sides -> [Rows -> Int]]
      /\ \A s \in Sides, r \in Rows : u[s][r] = table[s][r] + c[s][r]
  BY <1>3
<1> HIDE DEF c
<1>5. ASSUME NEW s \in Sides, NEW A \in SUBSET Rows
      PROVE  /\ SumFunctionOnSet(c[s], A) \in Int
             /\ SumFunctionOnSet(u[s], A) = SumFunctionOnSet(table[s], A) + SumFunctionOnSet(c[s], A)
             /\ (\A r \in A : c[s][r] = 0) => SumFunctionOnSet(c[s], A) = 0
  <2>1. IsFiniteSet(A)
    BY SummedRows, FS_Subset
  <2>2. \A x \in A : table[s][x] \in Int /\ c[s][x] \in Int /\ u[s][x] = table[s][x] + c[s][x]
    BY <1>3, <1>4
  <2>3. Total(c[s], A) \in Int
    BY <2>1, <2>2, TotalInt
  <2>4. Total(u[s], A) = Total(table[s], A) + Total(c[s], A)
    BY <2>1, <2>2, TotalAdd
  <2>5. (\A r \in A : c[s][r] = 0) => Total(c[s], A) = 0
    BY <2>1, TotalZero
  <2>6. QED
    BY <2>3, <2>4, <2>5, SumUnfold
<1>6. /\ d.rows = c
      /\ d.key = [s \in Sides |-> [b \in Buckets |-> SumFunctionOnSet(c[s], InBucket(s, b))]]
      /\ d.total = SumFunctionOnSet(c["right"], Rows)
      /\ d.nulls = SumFunctionOnSet(c["right"], NullRows)
  BY <1>1 DEF Delta, c
<1>7. "right" \in Sides /\ Rows \in SUBSET Rows /\ NullRows \in SUBSET Rows
      /\ \A s, b : InBucket(s, b) \in SUBSET Rows
  BY SummedRows DEF Sides
<1>8. \A s \in Sides, b \in Buckets :
          /\ d.key[s][b] \in Int /\ Weight(u, s, b) = Weight(table, s, b) + d.key[s][b]
          /\ (\A r \in InBucket(s, b) : d.rows[s][r] = 0) => d.key[s][b] = 0
  <2> SUFFICES ASSUME NEW s \in Sides, NEW b \in Buckets
               PROVE  /\ d.key[s][b] \in Int /\ Weight(u, s, b) = Weight(table, s, b) + d.key[s][b]
                      /\ (\A r \in InBucket(s, b) : d.rows[s][r] = 0) => d.key[s][b] = 0
    OBVIOUS
  <2>1. d.key[s][b] = SumFunctionOnSet(c[s], InBucket(s, b))
    BY <1>6
  <2>2. InBucket(s, b) \in SUBSET Rows
    BY <1>7
  <2>3. QED
    BY <1>5, <1>6, <2>1, <2>2 DEF Weight
<1>9. d.key \in [Sides -> [Buckets -> Int]]
  BY <1>6, <1>8
<1>10. /\ d.total \in Int /\ RightTotal(u) = RightTotal(table) + d.total
       /\ d.nulls \in Int /\ RightNulls(u) = RightNulls(table) + d.nulls
  BY <1>5, <1>6, <1>7 DEF RightTotal, RightNulls
<1>11. Leads(table, u, d)
  BY <1>4, <1>6, <1>8, <1>9, <1>10 DEF Leads
<1>12. QED
  BY <1>2, <1>11

\* The rows of the two sides that share a bucket share a key that is not NULL.
LEMMA SharedBucket ==
  ASSUME NEW s \in Sides, NEW r \in Rows
  PROVE  /\ Opposite(s) \in Sides /\ Opposite(Opposite(s)) = s
         /\ Bucket(s, r) \in Buckets
         /\ \A q \in Rows : Bucket(Opposite(s), q) = Bucket(s, r) <=> q[1] = r[1] /\ r[1] # NullKey
<1>1. s \in {"left", "right"} /\ s # "key" /\ Opposite(s) # "key" /\ Opposite(s) # s
  BY DEF Sides, Opposite
<1>2. Opposite(s) \in Sides /\ Opposite(Opposite(s)) = s /\ Bucket(s, r) \in Buckets
  BY DEF Sides, Opposite, Buckets
<1>3. ASSUME NEW q \in Rows
      PROVE  Bucket(Opposite(s), q) = Bucket(s, r) <=> q[1] = r[1] /\ r[1] # NullKey
  <2>1. CASE r[1] = NullKey
    <3>1. Bucket(s, r) = <<s, r[1], r[2]>>
      BY <2>1 DEF Bucket
    <3>2. \/ Bucket(Opposite(s), q) = <<Opposite(s), q[1], q[2]>>
          \/ Bucket(Opposite(s), q) = <<"key", q[1], 0>>
      BY DEF Bucket
    <3>3. QED
      BY <1>1, <2>1, <3>1, <3>2
  <2>2. CASE r[1] # NullKey
    <3>1. Bucket(s, r) = <<"key", r[1], 0>>
      BY <2>2 DEF Bucket
    <3>2. CASE q[1] = NullKey
      <4>1. Bucket(Opposite(s), q) = <<Opposite(s), q[1], q[2]>>
        BY <3>2 DEF Bucket
      <4>2. QED
        BY <1>1, <2>2, <3>1, <3>2, <4>1
    <3>3. CASE q[1] # NullKey
      <4>1. Bucket(Opposite(s), q) = <<"key", q[1], 0>>
        BY <3>3 DEF Bucket
      <4>2. QED
        BY <2>2, <3>1, <4>1
    <3>4. QED
      BY <3>2, <3>3
  <2>3. QED
    BY <2>1, <2>2
<1>4. QED
  BY <1>2, <1>3

\* The weight of the other side in a row's bucket says whether it has a match.
LEMMA MatchWeight ==
  ASSUME NEW t \in Tables, NEW s \in Sides, NEW r \in Rows
  PROVE  /\ Weight(t, Opposite(s), Bucket(s, r)) \in Nat
         /\ Weight(t, Opposite(s), Bucket(s, r)) = 0 <=> ~HasMatch(t, s, r)
<1>1. Opposite(s) \in Sides /\ Bucket(s, r) \in Buckets
  BY SharedBucket
<1>2. \A q \in Rows : t[Opposite(s)][q] \in Nat
  BY <1>1 DEF Tables
<1>3. \A q \in Rows : q \in InBucket(Opposite(s), Bucket(s, r)) <=> q[1] = r[1] /\ r[1] # NullKey
  BY SharedBucket DEF InBucket
<1>4. HasMatch(t, s, r) <=> ~ \A q \in InBucket(Opposite(s), Bucket(s, r)) : t[Opposite(s)][q] = 0
  <2>1. InBucket(Opposite(s), Bucket(s, r)) \subseteq Rows
    BY SummedRows
  <2>2. QED
    BY <1>2, <1>3, <2>1 DEF HasMatch
<1>5. QED
  BY <1>1, <1>4, TableWeights

-----------------------------------------------------------------------------
(* The change of the view *)

\* The memory m has, of the tables t, what the output of the epoch d is
\* computed from.
Exact(k, t, m, d) ==
    /\ Weighs(k, t, m)
    /\ k # "inner" =>
          \A s \in Sides, r \in Rows : Multiplied(k, s) => m.arr[s][r] = t[s][r]
    /\ \A l, r \in Rows : Multiplied(k, "right") /\ Matches(l, r) =>
          /\ ProbeRight(m, d, l, r) = d.rows["left"][l] * t["right"][r]
          /\ ProbeLeft(m, d, l, r) = t["left"][l] * d.rows["right"][r]

\* What an epoch's output is computed from and has to come to.
Epoch(k, t, u, m, d) ==
    k \in Kinds /\ t \in Tables /\ u \in Tables /\ Leads(t, u, d) /\ Exact(k, t, m, d)

\* The entries of the tables and the delta.
LEMMA EpochEntries ==
  ASSUME NEW k, NEW t, NEW u, NEW m, NEW d, Epoch(k, t, u, m, d), NEW s \in Sides, NEW r \in Rows
  PROVE  /\ t[s][r] \in Nat /\ u[s][r] \in Nat /\ d.rows[s][r] \in Int
         /\ u[s][r] = t[s][r] + d.rows[s][r]
  BY DEF Epoch, Tables, Leads

\* The pairs: the two probes and the correction make up the product.
LEMMA PairsFollow ==
  ASSUME NEW k, NEW t, NEW u, NEW m, NEW d, Epoch(k, t, u, m, d), Multiplied(k, "right"),
         NEW l \in Rows, NEW r \in Rows
  PROVE  SqlPairs(t, <<l, r>>) + JoinPairs(m, d, l, r) = SqlPairs(u, <<l, r>>)
<1>1. "left" \in Sides /\ "right" \in Sides /\ Opposite("left") = "right" /\ Opposite("right") = "left"
  BY DEF Sides, Opposite
<1>2. Matches(l, r) <=> l[1] = r[1] /\ l[1] # NullKey
  BY <1>1, SharedBucket DEF Matches
<1>3. CASE ~Matches(l, r)
  BY <1>2, <1>3 DEF SqlPairs, JoinPairs
<1>4. CASE Matches(l, r)
  <2>1. JoinPairs(m, d, l, r) = d.rows["left"][l] * t["right"][r] + t["left"][l] * d.rows["right"][r]
                                + d.rows["left"][l] * d.rows["right"][r]
    BY <1>4 DEF Epoch, Exact, JoinPairs, Correction
  <2>2. /\ SqlPairs(t, <<l, r>>) = t["left"][l] * t["right"][r]
        /\ SqlPairs(u, <<l, r>>) = u["left"][l] * u["right"][r]
    BY <1>2, <1>4 DEF SqlPairs
  <2>3. \A a, b, c, e \in Int : a * b + (c * b + a * e + c * e) = (a + c) * (b + e)
    OBVIOUS
  <2>4. /\ t["left"][l] \in Int /\ t["right"][r] \in Int
        /\ d.rows["left"][l] \in Int /\ d.rows["right"][r] \in Int
        /\ u["left"][l] = t["left"][l] + d.rows["left"][l]
        /\ u["right"][r] = t["right"][r] + d.rows["right"][r]
    BY <1>1, EpochEntries
  <2>5. QED
    BY <2>1, <2>2, <2>3, <2>4
<1>5. QED
  BY <1>3, <1>4

\* The weights before and after say which rows have matches before and after.
LEMMA MatchesFollow ==
  ASSUME NEW k, NEW t, NEW u, NEW m, NEW d, Epoch(k, t, u, m, d),
         NEW s \in Sides, Opposite(s) \in Tracked(k), NEW r \in Rows
  PROVE  /\ Old(m, s, r) \in Nat /\ Effective(m, d, s, r) \in Nat
         /\ Old(m, s, r) = 0 <=> ~HasMatch(t, s, r)
         /\ Effective(m, d, s, r) = 0 <=> ~HasMatch(u, s, r)
<1>1. Opposite(s) \in Sides /\ Bucket(s, r) \in Buckets
  BY SharedBucket
<1>2. Old(m, s, r) = Weight(t, Opposite(s), Bucket(s, r))
  BY <1>1 DEF Old, Epoch, Exact, Weighs
<1>3. Effective(m, d, s, r) = Weight(u, Opposite(s), Bucket(s, r))
  BY <1>1, <1>2 DEF Effective, Epoch, Leads
<1>4. t \in Tables /\ u \in Tables
  BY DEF Epoch
<1>5. QED
  BY <1>2, <1>3, <1>4, MatchWeight

\* A row of a side whose rows the operator has.
LEMMA RowsFollow ==
  ASSUME NEW k, NEW t, NEW u, NEW m, NEW d, Epoch(k, t, u, m, d),
         NEW s \in Sides, Multiplied(k, s), k # "inner", NEW r \in Rows
  PROVE  m.arr[s][r] = t[s][r]
  BY DEF Epoch, Exact

\* The padded rows: those without a match.
LEMMA PadsFollow ==
  ASSUME NEW k, NEW t, NEW u, NEW m, NEW d, Epoch(k, t, u, m, d),
         NEW s \in Sides, Opposite(s) \in Tracked(k), Multiplied(k, s), k # "inner", NEW r \in Rows
  PROVE  /\ (IF ~HasMatch(t, s, r) THEN t[s][r] ELSE 0) + Unmatched(m, d, s, r)
              = IF ~HasMatch(u, s, r) THEN u[s][r] ELSE 0
         /\ Unmatched(m, d, s, r) \in Int
<1>1. /\ t[s][r] \in Nat /\ d.rows[s][r] \in Int /\ u[s][r] = t[s][r] + d.rows[s][r]
      /\ m.arr[s][r] = t[s][r]
  BY EpochEntries, RowsFollow
<1>2. /\ Old(m, s, r) = 0 <=> ~HasMatch(t, s, r)
      /\ Effective(m, d, s, r) = 0 <=> ~HasMatch(u, s, r)
  BY MatchesFollow
<1>3. QED
  BY <1>1, <1>2 DEF Unmatched, Transition, NewUnmatched

\* The rows of a semi join: those with a match.
LEMMA MatchedFollow ==
  ASSUME NEW k, NEW t, NEW u, NEW m, NEW d, Epoch(k, t, u, m, d),
         NEW s \in Sides, Opposite(s) \in Tracked(k), Multiplied(k, s), k # "inner", NEW r \in Rows
  PROVE  (IF HasMatch(t, s, r) THEN t[s][r] ELSE 0)
           + (-Transition(m, d, s, r) + (IF Effective(m, d, s, r) # 0 THEN d.rows[s][r] ELSE 0))
           = IF HasMatch(u, s, r) THEN u[s][r] ELSE 0
<1>1. /\ t[s][r] \in Nat /\ d.rows[s][r] \in Int /\ u[s][r] = t[s][r] + d.rows[s][r]
      /\ m.arr[s][r] = t[s][r]
  BY EpochEntries, RowsFollow
<1>2. /\ Old(m, s, r) = 0 <=> ~HasMatch(t, s, r)
      /\ Effective(m, d, s, r) = 0 <=> ~HasMatch(u, s, r)
  BY MatchesFollow
<1>3. QED
  BY <1>1, <1>2 DEF Transition

\* What NOT IN says of a row, in terms of the weights.
LEMMA NotInWeights ==
  ASSUME NEW t \in Tables, NEW l \in Rows
  PROVE  SqlNotIn(t, l) <=> IF l[1] = NullKey THEN RightTotal(t) = 0
                            ELSE RightNulls(t) = 0 /\ ~HasMatch(t, "left", l)
<1>1. \A q \in Rows : t["right"][q] \in Nat
  BY DEF Tables, Sides
<1>2. /\ RightTotal(t) = 0 <=> \A r \in Rows : t["right"][r] = 0
      /\ RightNulls(t) = 0 <=> \A r \in Rows : r[1] = NullKey => t["right"][r] = 0
  BY TableWeights DEF NullRows
<1>3. CASE l[1] = NullKey
  BY <1>1, <1>2, <1>3 DEF SqlNotIn
<1>4. CASE l[1] # NullKey
  <2>1. HasMatch(t, "left", l) <=> \E q \in Rows : q[1] = l[1] /\ t["right"][q] > 0
    BY <1>4 DEF HasMatch, Opposite
  <2>2. SqlNotIn(t, l) <=> \A q \in Rows : t["right"][q] > 0 => q[1] # NullKey /\ l[1] # q[1]
    BY <1>4 DEF SqlNotIn
  <2>3. QED
    BY <1>1, <1>2, <1>4, <2>1, <2>2
<1>5. QED
  BY <1>3, <1>4

\* An output row is a pair of rows or of a row and the padding.
LEMMA OutRowCases ==
  ASSUME NEW p \in OutRows
  PROVE  /\ p[1] # Pad => p[1] \in Rows
         /\ p[2] # Pad => p[2] \in Rows
         /\ p = <<p[1], p[2]>>
  BY DEF OutRows

\* NOT IN shows a row when the right side has neither a NULL nor the row's key,
\* or nothing at all.
LEMMA NotInFollows ==
  ASSUME NEW t, NEW u, NEW m, NEW d, Epoch("nullAware", t, u, m, d),
         NEW p \in OutRows, p[1] # Pad, p[2] = Pad
  PROVE  (IF SqlNotIn(t, p[1]) THEN t["left"][p[1]] ELSE 0) + process_epoch_null_aware_anti(m, d)[p]
           = IF SqlNotIn(u, p[1]) THEN u["left"][p[1]] ELSE 0
<1> DEFINE l == p[1]
<1>1. l \in Rows /\ "left" \in Sides /\ Opposite("left") = "right"
      /\ "right" \in Tracked("nullAware") /\ Multiplied("nullAware", "left")
      /\ t \in Tables /\ u \in Tables
  BY OutRowCases DEF Sides, Opposite, Tracked, Multiplied, Epoch
<1> DEFINE a == t["left"][l]
           c == d.rows["left"][l]
           old == Old(m, "left", l)
           new == Effective(m, d, "left", l)
<1>2. a \in Nat /\ c \in Int /\ u["left"][l] = a + c /\ m.arr["left"][l] = a
  <2> HIDE DEF l
  <2> QED BY <1>1, EpochEntries, RowsFollow
<1>3. (old = 0 <=> ~HasMatch(t, "left", l)) /\ (new = 0 <=> ~HasMatch(u, "left", l))
  <2> HIDE DEF l
  <2> QED BY <1>1, MatchesFollow
<1>4. /\ m.total = RightTotal(t) /\ m.nulls = RightNulls(t)
      /\ m.total + d.total = RightTotal(u) /\ m.nulls + d.nulls = RightNulls(u)
  BY DEF Epoch, Exact, Weighs, Leads
<1>5. /\ RightTotal(t) \in Nat /\ RightNulls(t) \in Nat
      /\ RightTotal(u) \in Nat /\ RightNulls(u) \in Nat
  BY <1>1, TableWeights
<1>6. /\ SqlNotIn(t, l) <=> IF l[1] = NullKey THEN RightTotal(t) = 0
                            ELSE RightNulls(t) = 0 /\ old = 0
      /\ SqlNotIn(u, l) <=> IF l[1] = NullKey THEN RightTotal(u) = 0
                            ELSE RightNulls(u) = 0 /\ new = 0
  <2> HIDE DEF l
  <2> QED BY <1>1, <1>3, NotInWeights
<1> DEFINE oldNull == m.nulls > 0
           newNull == m.nulls + d.nulls > 0
           oldEmpty == m.total = 0
           newEmpty == m.total + d.total = 0
           was == IF l[1] = NullKey THEN oldEmpty ELSE ~oldNull /\ old = 0
           now == IF l[1] = NullKey THEN newEmpty ELSE ~newNull /\ new = 0
           oldRows == IF oldNull # newNull \/ oldEmpty # newEmpty
                      THEN IF was = now THEN 0 ELSE IF now THEN m.arr["left"][l] ELSE -m.arr["left"][l]
                      ELSE IF oldNull \/ l[1] = NullKey THEN 0 ELSE Transition(m, d, "left", l)
           newRows == IF ~newNull /\ (IF l[1] = NullKey THEN newEmpty ELSE new = 0) THEN c ELSE 0
<1>7. process_epoch_null_aware_anti(m, d)[p] = oldRows + newRows
  BY DEF process_epoch_null_aware_anti, LeftOnly
<1>8. Transition(m, d, "left", l) =
        IF (old = 0) = (new = 0) THEN 0 ELSE IF old = 0 THEN -a ELSE a
  BY <1>2 DEF Transition
<1>9. (oldNull <=> RightNulls(t) # 0) /\ (newNull <=> RightNulls(u) # 0)
      /\ (oldEmpty <=> RightTotal(t) = 0) /\ (newEmpty <=> RightTotal(u) = 0)
  BY <1>4, <1>5
<1>10. RightNulls(u) # 0 => RightTotal(u) # 0
  <2>1. \A r \in NullRows : r \in Rows
    BY DEF NullRows
  <2>2. QED
    BY <1>1, <2>1, TableWeights
<1>11. (was <=> SqlNotIn(t, l)) /\ (now <=> SqlNotIn(u, l))
  BY <1>6, <1>9
<1>12. newRows = IF now THEN c ELSE 0
  BY <1>9, <1>10
<1>13. oldRows = IF was = now THEN 0 ELSE IF now THEN a ELSE -a
  <2>1. CASE oldNull # newNull \/ oldEmpty # newEmpty
    BY <2>1, <1>2
  <2>2. CASE oldNull = newNull /\ oldEmpty = newEmpty /\ (oldNull \/ l[1] = NullKey)
    BY <2>2
  <2>3. CASE oldNull = newNull /\ oldEmpty = newEmpty /\ ~oldNull /\ l[1] # NullKey
    BY <2>3, <1>8
  <2>4. QED
    BY <2>1, <2>2, <2>3
<1> HIDE DEF oldRows, newRows, was, now, a, c, l
<1>14. (IF was THEN a ELSE 0) + (oldRows + newRows) = IF now THEN a + c ELSE 0
  BY <1>2, <1>12, <1>13 DEF was, now
<1>15. QED
  BY <1>2, <1>7, <1>11, <1>14 DEF l, a

\* What SQL says of each sort of output row.
LEMMA SqlRows ==
  ASSUME NEW k, NEW t, NEW p \in OutRows
  PROVE  /\ p[1] # Pad /\ p[2] # Pad => SqlJoin(k, t)[p] =
              IF k \in {"inner", "left", "right", "full"} THEN SqlPairs(t, p) ELSE 0
         /\ p[1] # Pad /\ p[2] = Pad => SqlJoin(k, t)[p] =
              IF SqlLeftAlone(k, t, p[1]) THEN t["left"][p[1]] ELSE 0
         /\ p[1] = Pad /\ p[2] # Pad => SqlJoin(k, t)[p] =
              IF k \in {"right", "full"} /\ ~HasMatch(t, "right", p[2]) THEN t["right"][p[2]] ELSE 0
         /\ p[1] = Pad /\ p[2] = Pad => SqlJoin(k, t)[p] = 0
  BY DEF SqlJoin

\* The pairs of the joins that have both sides' columns.
LEMMA InnerFollows ==
  ASSUME NEW k, NEW t, NEW u, NEW m, NEW d, Epoch(k, t, u, m, d), Multiplied(k, "right"),
         NEW p \in OutRows, p[1] # Pad, p[2] # Pad
  PROVE  SqlJoin(k, t)[p] + Inner(m, d, p) = SqlJoin(k, u)[p]
<1>1. p[1] \in Rows /\ p[2] \in Rows /\ p = <<p[1], p[2]>>
  BY OutRowCases
<1>2. k \in {"inner", "left", "right", "full"}
  BY DEF Multiplied
<1>3. SqlJoin(k, t)[p] = SqlPairs(t, p) /\ SqlJoin(k, u)[p] = SqlPairs(u, p)
  BY <1>2, SqlRows
<1>4. Inner(m, d, p) = JoinPairs(m, d, p[1], p[2])
  BY DEF Inner
<1>5. SqlPairs(t, <<p[1], p[2]>>) + JoinPairs(m, d, p[1], p[2]) = SqlPairs(u, <<p[1], p[2]>>)
  BY <1>1, PairsFollow
<1>6. QED
  BY <1>1, <1>3, <1>4, <1>5

\* The padded left rows of the joins that have them.
LEMMA LeftFollows ==
  ASSUME NEW k \in {"left", "full", "anti"}, NEW t, NEW u, NEW m, NEW d, Epoch(k, t, u, m, d),
         NEW p \in OutRows, p[1] # Pad, p[2] = Pad
  PROVE  /\ SqlJoin(k, t)[p] + Unmatched(m, d, "left", p[1]) = SqlJoin(k, u)[p]
         /\ SqlJoin(k, t)[p] + LeftPads(m, d, p) = SqlJoin(k, u)[p]
         /\ LeftPads(m, d, p) \in Int
<1>1. p[1] \in Rows /\ "left" \in Sides /\ Opposite("left") \in Tracked(k) /\ Multiplied(k, "left")
      /\ k # "inner"
  BY OutRowCases DEF Sides, Opposite, Tracked, Multiplied
<1>2. \A v : SqlJoin(k, v)[p] = IF ~HasMatch(v, "left", p[1]) THEN v["left"][p[1]] ELSE 0
  BY SqlRows DEF SqlLeftAlone
<1>3. QED
  BY <1>1, <1>2, PadsFollow DEF LeftPads

\* The padded right rows of the joins that have them.
LEMMA RightFollows ==
  ASSUME NEW k \in {"right", "full"}, NEW t, NEW u, NEW m, NEW d, Epoch(k, t, u, m, d),
         NEW p \in OutRows, p[1] = Pad, p[2] # Pad
  PROVE  SqlJoin(k, t)[p] + RightPads(m, d, p) = SqlJoin(k, u)[p] /\ RightPads(m, d, p) \in Int
<1>1. p[2] \in Rows /\ "right" \in Sides /\ Opposite("right") \in Tracked(k) /\ Multiplied(k, "right")
      /\ k # "inner"
  BY OutRowCases DEF Sides, Opposite, Tracked, Multiplied
<1>2. \A v : SqlJoin(k, v)[p] = IF ~HasMatch(v, "right", p[2]) THEN v["right"][p[2]] ELSE 0
  BY SqlRows
<1>3. QED
  BY <1>1, <1>2, PadsFollow DEF RightPads

\* The left rows of a semi join.
LEMMA SemiFollows ==
  ASSUME NEW t, NEW u, NEW m, NEW d, Epoch("semi", t, u, m, d),
         NEW p \in OutRows, p[1] # Pad, p[2] = Pad
  PROVE  SqlJoin("semi", t)[p] + process_epoch_semi(m, d)[p] = SqlJoin("semi", u)[p]
<1>1. p[1] \in Rows /\ "left" \in Sides /\ Opposite("left") \in Tracked("semi")
      /\ Multiplied("semi", "left") /\ "semi" # "inner"
  BY OutRowCases DEF Sides, Opposite, Tracked, Multiplied
<1>2. \A v : SqlJoin("semi", v)[p] = IF HasMatch(v, "left", p[1]) THEN v["left"][p[1]] ELSE 0
  BY SqlRows DEF SqlLeftAlone
<1>3. process_epoch_semi(m, d)[p] =
        -Transition(m, d, "left", p[1])
        + (IF Effective(m, d, "left", p[1]) # 0 THEN d.rows["left"][p[1]] ELSE 0)
  BY DEF process_epoch_semi, LeftOnly
<1>4. QED
  BY <1>1, <1>2, <1>3, MatchedFollow

\* A value of the join is an integer.
LEMMA SqlIntegers ==
  ASSUME NEW k, NEW t \in Tables, NEW p \in OutRows
  PROVE  SqlJoin(k, t)[p] \in Int
<1>1. (p[1] # Pad => p[1] \in Rows) /\ (p[2] # Pad => p[2] \in Rows)
  BY OutRowCases
<1>2. \A s \in Sides, r \in Rows : t[s][r] \in Int
  BY DEF Tables
<1>3. "left" \in Sides /\ "right" \in Sides
  BY DEF Sides
<1>4. p[1] # Pad /\ p[2] # Pad => SqlPairs(t, p) \in Int
  BY <1>1, <1>2, <1>3 DEF SqlPairs
<1>5. QED
  BY <1>1, <1>2, <1>3, <1>4, SqlRows

\* The output of an epoch is the change of the join.
LEMMA OutputFollows ==
  ASSUME NEW k, NEW t, NEW u, NEW m, NEW d, Epoch(k, t, u, m, d), NEW p \in OutRows
  PROVE  SqlJoin(k, t)[p] + process_epoch(k, m, d)[p] = SqlJoin(k, u)[p]
<1>1. k \in {"inner", "left", "right", "full", "semi", "anti", "nullAware"}
      /\ t \in Tables /\ u \in Tables
  BY KindsAssumption DEF Epoch
<1>2. SqlJoin(k, t)[p] \in Int /\ SqlJoin(k, u)[p] \in Int
  BY <1>1, SqlIntegers
<1> DEFINE A == p[1] # Pad /\ p[2] # Pad
           L == p[1] # Pad /\ p[2] = Pad
           R == p[1] = Pad /\ p[2] # Pad
           N == p[1] = Pad /\ p[2] = Pad
<1>3. /\ ~A => Inner(m, d, p) = 0
      /\ ~L => LeftPads(m, d, p) = 0
      /\ ~R => RightPads(m, d, p) = 0
  BY DEF Inner, LeftPads, RightPads
<1>4. k \in {"inner", "left", "right", "full"} /\ A =>
        SqlJoin(k, t)[p] + Inner(m, d, p) = SqlJoin(k, u)[p] /\ Inner(m, d, p) \in Int
  <2> SUFFICES ASSUME k \in {"inner", "left", "right", "full"}, A
               PROVE  SqlJoin(k, t)[p] + Inner(m, d, p) = SqlJoin(k, u)[p] /\ Inner(m, d, p) \in Int
    OBVIOUS
  <2>1. SqlJoin(k, t)[p] + Inner(m, d, p) = SqlJoin(k, u)[p]
    BY InnerFollows DEF Multiplied
  <2>2. Inner(m, d, p) \in Int
    <3>1. p[1] \in Rows /\ p[2] \in Rows /\ "left" \in Sides /\ "right" \in Sides
      BY OutRowCases DEF Sides
    <3>2. Matches(p[1], p[2]) =>
            /\ ProbeRight(m, d, p[1], p[2]) = d.rows["left"][p[1]] * t["right"][p[2]]
            /\ ProbeLeft(m, d, p[1], p[2]) = t["left"][p[1]] * d.rows["right"][p[2]]
      BY <3>1 DEF Epoch, Exact, Multiplied
    <3>3. /\ t["left"][p[1]] \in Int /\ t["right"][p[2]] \in Int
          /\ d.rows["left"][p[1]] \in Int /\ d.rows["right"][p[2]] \in Int
      BY <3>1, EpochEntries
    <3>4. JoinPairs(m, d, p[1], p[2]) \in Int
      BY <3>2, <3>3 DEF JoinPairs, Correction
    <3>5. QED
      BY <3>4 DEF Inner
  <2>3. QED
    BY <2>1, <2>2
<1>5. (k \notin {"right", "full"} /\ (R \/ N)) \/ N => SqlJoin(k, t)[p] = 0 /\ SqlJoin(k, u)[p] = 0
  BY SqlRows
<1>6. CASE k = "inner"
  <2>1. process_epoch(k, m, d)[p] = Inner(m, d, p)
    BY <1>6 DEF process_epoch
  <2>2. L => SqlJoin(k, t)[p] = 0 /\ SqlJoin(k, u)[p] = 0
    BY <1>6, SqlRows DEF SqlLeftAlone
  <2>3. QED
    BY <1>2, <1>3, <1>4, <1>5, <1>6, <2>1, <2>2
<1>7. k \in {"left", "full"} /\ L =>
        SqlJoin(k, t)[p] + LeftPads(m, d, p) = SqlJoin(k, u)[p] /\ LeftPads(m, d, p) \in Int
  BY LeftFollows
<1>8. k \in {"right", "full"} /\ R =>
        SqlJoin(k, t)[p] + RightPads(m, d, p) = SqlJoin(k, u)[p] /\ RightPads(m, d, p) \in Int
  BY RightFollows
<1>9. A \/ L \/ R \/ N
  OBVIOUS
<1>10. k = "right" /\ L => SqlJoin(k, t)[p] = 0 /\ SqlJoin(k, u)[p] = 0
  BY SqlRows DEF SqlLeftAlone
<1>11. CASE k = "left"
  <2>1. process_epoch(k, m, d)[p] = Inner(m, d, p) + LeftPads(m, d, p)
    BY <1>11 DEF process_epoch, process_epoch_left
  <2>2. QED
    BY <1>2, <1>3, <1>4, <1>5, <1>7, <1>11, <2>1
<1>12. CASE k = "right"
  <2>1. process_epoch(k, m, d)[p] = Inner(m, d, p) + RightPads(m, d, p)
    BY <1>12 DEF process_epoch, process_epoch_right
  <2>2. QED
    BY <1>2, <1>3, <1>4, <1>5, <1>8, <1>10, <1>12, <2>1
<1>13. CASE k = "full"
  <2>1. process_epoch(k, m, d)[p] = Inner(m, d, p) + LeftPads(m, d, p) + RightPads(m, d, p)
    BY <1>13 DEF process_epoch, process_epoch_full
  <2>2. CASE A
    BY <1>2, <1>3, <1>4, <1>13, <2>1, <2>2
  <2>3. CASE L
    BY <1>2, <1>3, <1>7, <1>13, <2>1, <2>3
  <2>4. CASE R
    BY <1>2, <1>3, <1>8, <1>13, <2>1, <2>4
  <2>5. CASE N
    BY <1>2, <1>3, <1>5, <2>1, <2>5
  <2>6. QED
    BY <1>9, <2>2, <2>3, <2>4, <2>5
<1>14. CASE k \in {"semi", "anti", "nullAware"}
  <2>1. ~L => SqlJoin(k, t)[p] = 0 /\ SqlJoin(k, u)[p] = 0
    BY <1>14, SqlRows
  <2>2. CASE k = "semi"
    <3>1. process_epoch(k, m, d) = process_epoch_semi(m, d)
      BY <2>2 DEF process_epoch
    <3>2. ~L => process_epoch_semi(m, d)[p] = 0
      BY DEF process_epoch_semi, LeftOnly
    <3>3. QED
      BY <2>1, <2>2, <3>1, <3>2, SemiFollows
  <2>3. CASE k = "anti"
    <3>1. process_epoch(k, m, d) = process_epoch_anti(m, d)
      BY <2>3 DEF process_epoch
    <3>2. process_epoch_anti(m, d)[p] = IF L THEN Unmatched(m, d, "left", p[1]) ELSE 0
      BY DEF process_epoch_anti, LeftOnly
    <3>3. QED
      BY <2>1, <2>3, <3>1, <3>2, LeftFollows
  <2>4. CASE k = "nullAware"
    <3>1. process_epoch(k, m, d) = process_epoch_null_aware_anti(m, d)
      BY <2>4 DEF process_epoch
    <3>2. ~L => process_epoch_null_aware_anti(m, d)[p] = 0
      BY DEF process_epoch_null_aware_anti, LeftOnly
    <3>3. L => \A v : SqlJoin(k, v)[p] = IF SqlNotIn(v, p[1]) THEN v["left"][p[1]] ELSE 0
      BY <2>4, SqlRows DEF SqlLeftAlone
    <3>4. L => SqlJoin(k, t)[p] + process_epoch_null_aware_anti(m, d)[p] = SqlJoin(k, u)[p]
      BY <2>4, <3>3, NotInFollows
    <3>5. QED
      BY <2>1, <3>1, <3>2, <3>4
  <2>5. QED
    BY <1>14, <2>2, <2>3, <2>4
<1>15. QED
  BY <1>1, <1>6, <1>11, <1>12, <1>13, <1>14

-----------------------------------------------------------------------------
(* The memory *)

\* Loading keys gives a memory, with the same marks and weights.
LEMMA LoadedType ==
  ASSUME NEW d, mem \in Memories, NEW m, m = load_arrangement_keys(mem, d)
  PROVE  /\ m \in Memories /\ m.lazy = mem.lazy /\ m.dirty = mem.dirty /\ m.weight = mem.weight
         /\ m.total = mem.total /\ m.nulls = mem.nulls
         /\ ~mem.lazy => m = mem
         /\ mem.lazy => \A s \in Sides :
              /\ m.loaded[s] = mem.loaded[s] \cup KeysToLoad(mem, d, s)
              /\ \A r \in Rows : m.arr[s][r] = IF r \in RowsToLoad(mem, d, s) THEN 1 ELSE mem.arr[s][r]
<1>1. CASE ~mem.lazy
  BY <1>1 DEF load_arrangement_keys
<1>2. CASE mem.lazy
  <2>1. \A s \in Sides : KeysToLoad(mem, d, s) \subseteq Buckets
    <3>1. \A s \in Sides, r \in Rows : Bucket(Opposite(s), r) \in Buckets
      BY DEF Buckets, Sides, Opposite
    <3>2. QED
      BY <3>1 DEF KeysToLoad
  <2> DEFINE a == [s \in Sides |-> [r \in Rows |->
                     IF r \in RowsToLoad(mem, d, s) THEN 1 ELSE mem.arr[s][r]]]
             l == [s \in Sides |-> mem.loaded[s] \cup KeysToLoad(mem, d, s)]
  <2>2. a \in [Sides -> [Rows -> Int]] /\ l \in [Sides -> SUBSET Buckets]
    BY <2>1 DEF Memories
  <2>3. m = [mem EXCEPT !.arr = a, !.loaded = l]
    BY <1>2 DEF load_arrangement_keys
  <2>4. /\ \A s \in Sides : l[s] = mem.loaded[s] \cup KeysToLoad(mem, d, s)
        /\ \A s \in Sides, r \in Rows :
              a[s][r] = IF r \in RowsToLoad(mem, d, s) THEN 1 ELSE mem.arr[s][r]
    OBVIOUS
  <2> HIDE DEF a, l
  <2>5. /\ m \in Memories /\ m.arr = a /\ m.loaded = l /\ m.lazy = mem.lazy /\ m.dirty = mem.dirty
        /\ m.weight = mem.weight /\ m.total = mem.total /\ m.nulls = mem.nulls
    BY <2>2, <2>3 DEF Memories
  <2>6. QED
    BY <1>2, <2>4, <2>5
<1>3. QED
  BY <1>1, <1>2

\* Every key of the other side's delta is loaded, the rows a loaded key has are
\* in memory as often as in the table, unless a row is there several times.
LEMMA LoadedFollows ==
  ASSUME JoinTypeOK, NEW d, NEW u \in Tables, Leads(table, u, d),
         Follows(kind, table, mem), Keeps(kind, table, db),
         mem.lazy => kind = "inner" /\ mem.dirty = Empty.dirty,
         NEW m, m = load_arrangement_keys(mem, d),
         mem.lazy => \A s \in Sides : \A r \in RowsToLoad(mem, d, s) : ~Repeated(s, r)
  PROVE  Follows(kind, table, m) /\ Exact(kind, table, m, d)
<1>1. /\ m.lazy = mem.lazy /\ m.weight = mem.weight /\ m.total = mem.total /\ m.nulls = mem.nulls
      /\ ~mem.lazy => m = mem
      /\ mem.lazy => \A s \in Sides :
              /\ m.loaded[s] = mem.loaded[s] \cup KeysToLoad(mem, d, s)
              /\ \A r \in Rows : m.arr[s][r] = IF r \in RowsToLoad(mem, d, s) THEN 1 ELSE mem.arr[s][r]
  BY LoadedType DEF JoinTypeOK
<1>2. Weighs(kind, table, m)
  BY <1>1 DEF Follows, Weighs
<1>3. Arranges(kind, table, m)
  <2>1. CASE ~mem.lazy
    BY <1>1, <2>1 DEF Follows
  <2>2. CASE mem.lazy
    <3> SUFFICES ASSUME NEW s \in Sides, NEW r \in Rows, Multiplied(kind, s), Arranged(kind, r)
                 PROVE  \/ m.arr[s][r] = table[s][r]
                        \/ m.lazy /\ m.arr[s][r] = 0 /\ Bucket(s, r) \notin m.loaded[s]
      BY DEF Arranges
    <3>1. \/ mem.arr[s][r] = table[s][r]
          \/ mem.arr[s][r] = 0 /\ Bucket(s, r) \notin mem.loaded[s]
      BY DEF Follows, Arranges
    <3>2. r \in db.rows[s] <=> table[s][r] > 0
      BY DEF Keeps, Stores
    <3>3. table[s][r] \in Nat
      BY DEF JoinTypeOK, Tables
    <3>4. r \notin mem.dirty[s]
      BY <2>2 DEF Empty
    <3>5. CASE r \in RowsToLoad(mem, d, s)
      <4>1. r \in db.rows[s] /\ ~Repeated(s, r)
        BY <2>2, <3>5 DEF RowsToLoad
      <4>2. table[s][r] = 1
        BY <3>2, <3>3, <4>1 DEF Repeated, Multiplied
      <4>3. QED
        BY <1>1, <2>2, <3>5, <4>2
    <3>6. CASE r \notin RowsToLoad(mem, d, s)
      <4>1. m.arr[s][r] = mem.arr[s][r]
        BY <1>1, <2>2, <3>6
      <4>2. CASE mem.arr[s][r] = table[s][r]
        BY <4>1, <4>2
      <4>3. CASE mem.arr[s][r] # table[s][r]
        <5>1. mem.arr[s][r] = 0 /\ Bucket(s, r) \notin mem.loaded[s] /\ r \in db.rows[s]
          BY <3>1, <3>2, <3>3, <4>3
        <5>2. Bucket(s, r) \notin KeysToLoad(mem, d, s)
          BY <3>4, <3>6, <5>1 DEF RowsToLoad
        <5>3. QED
          BY <1>1, <2>2, <4>1, <5>1, <5>2
      <4>4. QED
        BY <4>2, <4>3
    <3>7. QED
      BY <3>5, <3>6
  <2>3. QED
    BY <2>1, <2>2
<1>4. kind # "inner" =>
        \A s \in Sides, r \in Rows : Multiplied(kind, s) => m.arr[s][r] = table[s][r]
  BY <1>1, <1>3 DEF Arranges, Arranged
<1>5. ASSUME NEW s \in Sides, Multiplied(kind, s), NEW r \in Rows, NEW q \in Rows,
             Bucket(Opposite(s), q) = Bucket(s, r), d.rows[Opposite(s)][q] # 0
      PROVE  m.arr[s][r] = table[s][r]
  <2>1. q[1] = r[1] /\ r[1] # NullKey
    BY <1>5, SharedBucket
  <2>2. Arranged(kind, r)
    BY <2>1 DEF Arranged
  <2>3. CASE ~mem.lazy
    BY <1>1, <1>3, <1>5, <2>2, <2>3 DEF Arranges
  <2>4. CASE mem.lazy
    <3>1. Bucket(s, r) \in m.loaded[s]
      BY <1>1, <1>5, <2>1, <2>4 DEF KeysToLoad
    <3>2. QED
      BY <1>3, <1>5, <2>2, <3>1 DEF Arranges
  <2>5. QED
    BY <2>3, <2>4
<1>6. ASSUME NEW l \in Rows, NEW r \in Rows, Multiplied(kind, "right"), Matches(l, r)
      PROVE  /\ ProbeRight(m, d, l, r) = d.rows["left"][l] * table["right"][r]
             /\ ProbeLeft(m, d, l, r) = table["left"][l] * d.rows["right"][r]
  <2>1. "left" \in Sides /\ "right" \in Sides /\ Multiplied(kind, "left")
        /\ Opposite("left") = "right" /\ Opposite("right") = "left"
    BY DEF Sides, Multiplied, Opposite
  <2>2. d.rows["left"][l] = 0 \/ m.arr["right"][r] = table["right"][r]
    BY <1>5, <1>6, <2>1 DEF Matches
  <2>3. d.rows["right"][r] = 0 \/ m.arr["left"][l] = table["left"][l]
    BY <1>5, <1>6, <2>1 DEF Matches
  <2>4. m.arr["left"][l] \in Int /\ m.arr["right"][r] \in Int
    BY <2>1, LoadedType DEF JoinTypeOK, Memories
  <2>5. table["left"][l] \in Int /\ table["right"][r] \in Int
    BY <2>1 DEF JoinTypeOK, Tables
  <2>6. \A x \in Int : 0 * x = 0 /\ x * 0 = 0
    OBVIOUS
  <2>7. QED
    BY <2>2, <2>3, <2>4, <2>5, <2>6 DEF ProbeRight, ProbeLeft
<1>7. QED
  BY <1>2, <1>3, <1>4, <1>6 DEF Follows, Exact

\* The memory n is m with the delta d in it.
TakesIn(k, m, d, n) ==
    /\ n.lazy = m.lazy /\ n.loaded = m.loaded
    /\ \A s \in Sides, r \in Rows :
          n.arr[s][r] = m.arr[s][r] + IF Arranged(k, r) THEN d.rows[s][r] ELSE 0
    /\ \A s \in Sides, b \in Buckets :
          n.weight[s][b] = m.weight[s][b] + IF s \in Tracked(k) THEN d.key[s][b] ELSE 0
    /\ n.total = m.total + (IF k = "nullAware" THEN d.total ELSE 0)
    /\ n.nulls = m.nulls + (IF k = "nullAware" THEN d.nulls ELSE 0)
    /\ \A s \in Sides, r \in Rows :
          r \in n.dirty[s] <=> r \in m.dirty[s] \/ (Arranged(k, r) /\ d.rows[s][r] # 0)

\* An epoch's delta goes into the arrangements and weights and is marked.
LEMMA StagedType ==
  ASSUME NEW k, NEW m \in Memories, NEW t, NEW u, NEW d, Leads(t, u, d),
         NEW n, n = commit_staged(k, m, d)
  PROVE  n \in Memories /\ TakesIn(k, m, d, n)
<1> DEFINE a == [s \in Sides |-> [r \in Rows |->
                   m.arr[s][r] + IF Arranged(k, r) THEN d.rows[s][r] ELSE 0]]
           w == [s \in Sides |-> [b \in Buckets |->
                   m.weight[s][b] + IF s \in Tracked(k) THEN d.key[s][b] ELSE 0]]
           x == [s \in Sides |-> m.dirty[s] \cup {r \in Rows : Arranged(k, r) /\ d.rows[s][r] # 0}]
           o == m.total + IF k = "nullAware" THEN d.total ELSE 0
           z == m.nulls + IF k = "nullAware" THEN d.nulls ELSE 0
<1>1. a \in [Sides -> [Rows -> Int]]
  BY DEF Memories, Leads
<1>2. w \in [Sides -> [Buckets -> Int]]
  BY DEF Memories, Leads
<1>3. x \in [Sides -> SUBSET Rows] /\ o \in Int /\ z \in Int
  BY DEF Memories, Leads
<1>4. n = [m EXCEPT !.arr = a, !.weight = w, !.total = o, !.nulls = z, !.dirty = x]
  BY DEF commit_staged
<1>5. /\ \A s \in Sides, r \in Rows : a[s][r] = m.arr[s][r] + IF Arranged(k, r) THEN d.rows[s][r] ELSE 0
      /\ \A s \in Sides, b \in Buckets :
            w[s][b] = m.weight[s][b] + IF s \in Tracked(k) THEN d.key[s][b] ELSE 0
      /\ \A s \in Sides, r \in Rows :
            r \in x[s] <=> r \in m.dirty[s] \/ (Arranged(k, r) /\ d.rows[s][r] # 0)
  OBVIOUS
<1> HIDE DEF a, w, x
<1>6. /\ n \in Memories /\ n.lazy = m.lazy /\ n.loaded = m.loaded /\ n.arr = a /\ n.weight = w
      /\ n.total = o /\ n.nulls = z /\ n.dirty = x
  BY <1>1, <1>2, <1>3, <1>4 DEF Memories
<1>7. QED
  BY <1>5, <1>6 DEF TakesIn

\* The sides with weights are sides, and no row is left out with them.
LEMMA TrackedSides ==
  ASSUME NEW k, NEW s \in Tracked(k)
  PROVE  s \in Sides /\ k # "inner" /\ \A r \in Rows : Arranged(k, r)
<1>1. CASE k = "inner"
  BY <1>1 DEF Tracked
<1>2. CASE k # "inner"
  BY <1>2 DEF Tracked, Sides, Arranged
<1>3. QED
  BY <1>1, <1>2

\* The memory follows the tables through an epoch, and what changes is marked.
LEMMA StagedFollows ==
  ASSUME JoinTypeOK, NEW m \in Memories, NEW u \in Tables, NEW d, Leads(table, u, d),
         Follows(kind, table, m), Keeps(kind, table, db), ~ChangesUnloaded(m, d),
         m.lazy => m.dirty = Empty.dirty, \A s \in Sides : \A r \in m.dirty[s] : Arranged(kind, r),
         NEW n, n = commit_staged(kind, m, d)
  PROVE  Follows(kind, u, n) /\ Marks(kind, table, u, db, n)
<1>1. /\ n.lazy = m.lazy /\ n.loaded = m.loaded
      /\ \A s \in Sides, r \in Rows :
            n.arr[s][r] = m.arr[s][r] + IF Arranged(kind, r) THEN d.rows[s][r] ELSE 0
      /\ \A s \in Sides, b \in Buckets :
            n.weight[s][b] = m.weight[s][b] + IF s \in Tracked(kind) THEN d.key[s][b] ELSE 0
      /\ n.total = m.total + (IF kind = "nullAware" THEN d.total ELSE 0)
      /\ n.nulls = m.nulls + (IF kind = "nullAware" THEN d.nulls ELSE 0)
      /\ \A s \in Sides, r \in Rows :
            r \in n.dirty[s] <=> r \in m.dirty[s] \/ (Arranged(kind, r) /\ d.rows[s][r] # 0)
      /\ \A s \in Sides : n.dirty[s] \in SUBSET Rows
  <2>1. n \in Memories /\ TakesIn(kind, m, d, n)
    BY StagedType
  <2>2. QED
    BY <2>1 DEF Memories, TakesIn
<1>2. Weighs(kind, u, n)
  <2>1. ASSUME NEW s \in Tracked(kind), NEW b \in Buckets PROVE n.weight[s][b] = Weight(u, s, b)
    <3>1. s \in Sides
      BY TrackedSides
    <3>2. m.weight[s][b] = Weight(table, s, b)
      BY DEF Follows, Weighs
    <3>3. QED
      BY <1>1, <3>1, <3>2 DEF Leads
  <2>2. kind = "nullAware" => n.total = RightTotal(u) /\ n.nulls = RightNulls(u)
    BY <1>1 DEF Follows, Weighs, Leads
  <2>3. QED
    BY <2>1, <2>2 DEF Weighs
<1>3. ASSUME NEW s \in Sides, NEW r \in Rows, Multiplied(kind, s), Arranged(kind, r)
      PROVE  /\ \/ n.arr[s][r] = u[s][r]
                \/ n.lazy /\ n.arr[s][r] = 0 /\ Bucket(s, r) \notin n.loaded[s]
             /\ IF r \in n.dirty[s] THEN n.arr[s][r] = u[s][r] ELSE u[s][r] = table[s][r]
  <2>1. /\ d.rows[s][r] \in Int /\ u[s][r] = table[s][r] + d.rows[s][r]
        /\ table[s][r] \in Nat
    BY DEF Leads, JoinTypeOK, Tables
  <2>2. n.arr[s][r] = m.arr[s][r] + d.rows[s][r]
    BY <1>1, <1>3
  <2>3. r \in n.dirty[s] <=> r \in m.dirty[s] \/ d.rows[s][r] # 0
    BY <1>1, <1>3 DEF Arranged
  <2>4. CASE m.arr[s][r] = table[s][r]
    BY <2>1, <2>2, <2>3, <2>4
  <2>5. CASE m.arr[s][r] # table[s][r]
    <3>1. m.lazy /\ m.arr[s][r] = 0 /\ Bucket(s, r) \notin m.loaded[s]
      BY <1>3, <2>5 DEF Follows, Arranges
    <3>2. r \in db.rows[s]
      <4>1. table[s][r] > 0
        BY <2>1, <2>5, <3>1
      <4>2. QED
        BY <1>3, <4>1 DEF Keeps, Stores
    <3>3. d.rows[s][r] = 0
      BY <3>1, <3>2 DEF ChangesUnloaded
    <3>4. r \notin m.dirty[s]
      BY <3>1 DEF Empty
    <3>5. QED
      BY <1>1, <2>1, <2>2, <2>3, <3>1, <3>3, <3>4
  <2>6. QED
    BY <2>4, <2>5
<1>4. ASSUME NEW s \in Tracked(kind), NEW b \in Buckets, \A r \in n.dirty[s] : Bucket(s, r) # b
      PROVE  n.weight[s][b] = db.weight[s][b]
  <2>1. s \in Sides /\ \A r \in Rows : Arranged(kind, r)
    BY TrackedSides
  <2>2. \A r \in InBucket(s, b) : d.rows[s][r] = 0
    BY <1>1, <1>4, <2>1 DEF InBucket
  <2>3. d.key[s][b] = 0
    BY <2>1, <2>2 DEF Leads
  <2>4. m.weight[s][b] = Weight(table, s, b) /\ db.weight[s][b] = Weight(table, s, b)
    BY DEF Follows, Keeps, Weighs
  <2>5. m.weight[s][b] \in Int
    BY <2>1 DEF Memories
  <2>6. QED
    BY <1>1, <2>1, <2>3, <2>4, <2>5
<1>5. QED
  BY <1>1, <1>2, <1>3, <1>4 DEF Follows, Arranges, Marks

\* The state that joins the batch is that of the tables after the epoch.
LEMMA AppendedKeeps ==
  ASSUME JoinTypeOK, NEW u \in Tables, Follows(kind, u, mem), Keeps(kind, table, db),
         Marks(kind, table, u, db, mem), NEW x, x = append_state(kind, mem)
  PROVE  Keeps(kind, u, x)
<1>1. /\ \A s \in Sides : x.rows[s] = StoredRows(mem, s)
      /\ \A s \in Sides, b \in Buckets :
            x.weight[s][b] = IF s \in Tracked(kind) /\ \E r \in mem.dirty[s] : Bucket(s, r) = b
                             THEN mem.weight[s][b] ELSE db.weight[s][b]
      /\ x.total = mem.total /\ x.nulls = IF mem.total > 0 THEN mem.nulls ELSE 0
  BY DEF append_state
<1>2. ASSUME NEW s \in Tracked(kind), NEW b \in Buckets PROVE x.weight[s][b] = Weight(u, s, b)
  <2>1. s \in Sides /\ mem.weight[s][b] = Weight(u, s, b)
    BY TrackedSides DEF Follows, Weighs
  <2>2. QED
    BY <1>1, <2>1 DEF Marks
<1>3. ASSUME kind = "nullAware" PROVE x.total = RightTotal(u) /\ x.nulls = RightNulls(u)
  <2>1. mem.total = RightTotal(u) /\ mem.nulls = RightNulls(u)
    BY <1>3 DEF Follows, Weighs
  <2>2. RightTotal(u) \in Nat /\ (RightTotal(u) = 0 => RightNulls(u) = 0)
    <3>1. \A r \in NullRows : r \in Rows
      BY DEF NullRows
    <3>2. QED
      BY <3>1, TableWeights
  <2>3. QED
    BY <1>1, <2>1, <2>2
<1>4. ASSUME NEW s \in Sides, Multiplied(kind, s)
      PROVE  x.rows[s] = {r \in Rows : Arranged(kind, r) /\ u[s][r] > 0}
  <2>1. db.rows[s] = {r \in Rows : Arranged(kind, r) /\ table[s][r] > 0}
    BY <1>4 DEF Keeps, Stores
  <2>2. mem.dirty[s] \in SUBSET Rows
    BY DEF JoinTypeOK, Memories
  <2>3. \A r \in Rows : Arranged(kind, r) =>
          IF r \in mem.dirty[s] THEN mem.arr[s][r] = u[s][r] ELSE u[s][r] = table[s][r]
    BY <1>4 DEF Marks
  <2>4. \A r \in mem.dirty[s] : Arranged(kind, r)
    BY <1>4 DEF Marks
  <2>5. QED
    BY <1>1, <2>1, <2>2, <2>3, <2>4 DEF StoredRows
<1>5. QED
  BY <1>2, <1>3, <1>4 DEF Keeps, Weighs, Stores

\* A restored memory is that of the tables, unless a row is there several times.
LEMMA RestoredFollows ==
  ASSUME JoinTypeOK, Keeps(kind, table, db), \A s \in Sides, r \in Rows : ~Repeated(s, r),
         NEW m, m = restore_in_place(mem)
  PROVE  Follows(kind, table, m)
<1>1. /\ \A s \in Sides, r \in Rows : m.arr[s][r] = IF r \in db.rows[s] THEN 1 ELSE 0
      /\ m.weight = db.weight /\ m.total = db.total /\ m.nulls = db.nulls
  BY DEF restore_in_place, JoinTypeOK, Memories
<1>2. Weighs(kind, table, m)
  BY <1>1 DEF Keeps, Weighs
<1>3. ASSUME NEW s \in Sides, NEW r \in Rows, Multiplied(kind, s), Arranged(kind, r)
      PROVE  m.arr[s][r] = table[s][r]
  <2>1. r \in db.rows[s] <=> table[s][r] > 0
    BY <1>3 DEF Keeps, Stores
  <2>2. table[s][r] \in Nat
    BY DEF JoinTypeOK, Tables
  <2>3. r \in db.rows[s] => ~(table[s][r] > 1)
    BY <1>3 DEF Repeated, Multiplied
  <2>4. QED
    BY <1>1, <2>1, <2>2, <2>3
<1>4. QED
  BY <1>2, <1>3 DEF Follows, Arranges

-----------------------------------------------------------------------------
(* The steps *)

\* The constants of the model are of their types.
LEMMA EmptyTypes ==
    /\ Empty \in Memories /\ Unrestored \in Memories /\ Nothing \in States
    /\ Empty.arr \in Tables /\ NoBatch.table \in Tables /\ NoBatch.state \in States
    /\ NoBatch = [table |-> NoBatch.table, out |-> NoBatch.out, state |-> NoBatch.state]
<1>1. Empty \in Memories /\ Empty.arr \in Tables /\ Empty.weight \in [Sides -> [Buckets -> Int]]
  BY DEF Empty, Memories, Tables
<1>2. (kind = "inner") \in BOOLEAN
  OBVIOUS
<1>3. Unrestored \in Memories
  BY <1>1, <1>2 DEF Unrestored, Memories
<1>4. Nothing \in States
  BY <1>1 DEF Nothing, States
<1>5. QED
  BY <1>1, <1>3, <1>4 DEF NoBatch

\* The join of empty tables is empty.
LEMMA EmptyJoin == ASSUME NEW k PROVE SqlJoin(k, Empty.arr) = NoBatch.out
<1>1. Empty.arr = [s \in Sides |-> [r \in Rows |-> 0]] /\ "left" \in Sides /\ "right" \in Sides
  BY DEF Empty, Sides
<1> DEFINE t == Empty.arr
<1>2. \A r \in Rows : t["left"][r] = 0 /\ t["right"][r] = 0
  BY <1>1
<1> HIDE DEF t
<1>3. ASSUME NEW p \in OutRows PROVE SqlJoin(k, t)[p] = 0
  <2>1. (p[1] # Pad => p[1] \in Rows) /\ (p[2] # Pad => p[2] \in Rows)
    BY OutRowCases
  <2>2. p[1] # Pad /\ p[2] # Pad => SqlPairs(t, p) = 0
    BY <1>2, <2>1 DEF SqlPairs
  <2>3. QED
    BY <1>2, <2>1, <2>2, SqlRows
<1>4. SqlJoin(k, t) = [p \in OutRows |-> SqlJoin(k, t)[p]]
  BY DEF SqlJoin
<1>5. QED
  BY <1>3, <1>4 DEF NoBatch, t

\* The empty memory and the empty store are those of empty tables.
LEMMA EmptyFollows ==
  ASSUME NEW k
  PROVE  /\ Follows(k, Empty.arr, Empty) /\ Keeps(k, Empty.arr, Nothing)
         /\ Weighs(k, Empty.arr, Empty)
<1> DEFINE t == Empty.arr
<1>1. t \in Tables
  BY EmptyTypes
<1>2. /\ \A s \in Sides, r \in Rows : t[s][r] = 0
      /\ \A s \in Sides, b \in Buckets : Empty.weight[s][b] = 0
      /\ Empty.total = 0 /\ Empty.nulls = 0
      /\ Nothing.weight = Empty.weight /\ Nothing.total = 0 /\ Nothing.nulls = 0
      /\ \A s \in Sides : Nothing.rows[s] = {}
  BY DEF Empty, Nothing
<1>3. t["right"] = t["right"] /\ "right" \in Sides /\ NullRows \subseteq Rows
  BY SummedRows DEF Sides
<1> HIDE DEF t
<1>4. /\ \A s \in Sides, b \in Buckets : Weight(t, s, b) = 0
      /\ RightTotal(t) = 0 /\ RightNulls(t) = 0
  BY <1>1, <1>2, <1>3, SummedRows, TableWeights
<1>5. Weighs(k, t, Empty) /\ Weighs(k, t, Nothing)
  BY <1>2, <1>4, TrackedSides DEF Weighs
<1>6. Arranges(k, t, Empty)
  BY <1>2 DEF Arranges, t
<1>7. Stores(k, t, Nothing)
  BY <1>2 DEF Stores
<1>8. QED
  BY <1>5, <1>6, <1>7 DEF Follows, Keeps, t

\* A lazy memory has nothing to say of an inner join's rows it has not loaded.
LEMMA UnrestoredFollows ==
  ASSUME NEW t, kind = "inner"
  PROVE  Follows(kind, t, Unrestored)
<1>1. /\ Unrestored.lazy = TRUE
      /\ \A s \in Sides : Unrestored.loaded[s] = {}
      /\ \A s \in Sides, r \in Rows : Unrestored.arr[s][r] = 0
  BY DEF Unrestored, Empty
<1>2. Weighs(kind, t, Unrestored)
  BY TrackedSides DEF Weighs
<1>3. QED
  BY <1>1, <1>2 DEF Follows, Arranges

\* A fresh memory has no marks, and loads by key in an inner join only.
LEMMA EmptyFields ==
    /\ ~Empty.lazy /\ \A s \in Sides : Empty.dirty[s] = {}
    /\ Unrestored.dirty = Empty.dirty
    /\ Unrestored.lazy => kind = "inner"
<1>1. ~Empty.lazy /\ (\A s \in Sides : Empty.dirty[s] = {}) /\ Unrestored.dirty = Empty.dirty
  BY DEF Empty, Unrestored
<1>2. CASE kind = "inner"
  BY <1>1, <1>2
<1>3. CASE kind # "inner"
  <2>1. (kind = "inner") = FALSE
    BY <1>3
  <2>2. Unrestored.lazy = FALSE
    BY <2>1 DEF Unrestored, Empty
  <2>3. QED
    BY <1>1, <2>2
<1>4. QED
  BY <1>2, <1>3

\* Initially nothing is stored, arranged or shown.
LEMMA JoinInitially == JoinInit => JoinInv
<1>1. SUFFICES ASSUME JoinInit PROVE JoinInv
  OBVIOUS
<1>2. JoinTypeOK
  BY <1>1, EmptyTypes DEF JoinInit, JoinTypeOK
<1>3. /\ mem.lazy => kind = "inner"
      /\ mem.dirty = Empty.dirty
      /\ \A s \in Sides : mem.dirty[s] = {}
  BY <1>1, EmptyFields DEF JoinInit
<1>4. out = SqlJoin(kind, table) /\ Keeps(kind, table, db)
  BY <1>1, EmptyJoin, EmptyFollows DEF JoinInit
<1>5. Follows(kind, table, mem)
  <2>1. CASE mem = Empty
    BY <1>1, <2>1, EmptyFollows DEF JoinInit
  <2>2. CASE kind = "inner" /\ mem = Unrestored
    BY <2>2, UnrestoredFollows
  <2>3. CASE kind # "inner" /\ mem = Unrestored
    <3>1. mem = Empty
      BY <2>3 DEF Unrestored, Empty
    <3>2. QED
      BY <2>1, <3>1
  <2>4. QED
    BY <1>1, <2>1, <2>2, <2>3 DEF JoinInit
<1>6. phase = "idle"
  BY <1>1 DEF JoinInit
<1>7. QED
  BY <1>2, <1>3, <1>4, <1>5, <1>6 DEF JoinInv

\* An epoch is processed: its output is the change of the join.
LEMMA CommitKeeps ==
  ASSUME JoinInv, Commit
  PROVE  JoinInv'
<1>1. PICK d \in Deltas : Process(d)
  BY DEF Commit
<1>2. phase = "idle" /\ ~lost /\ JoinTypeOK
  BY DEF Commit, JoinInv
<1>3. PICK u \in Tables : Leads(table, u, d)
  BY <1>2, DeltaLeads DEF JoinTypeOK
<1>4. PICK m : m = load_arrangement_keys(mem, d)
  OBVIOUS
<1>5. /\ mem' = commit_staged(kind, m, d) /\ phase' = "processed"
      /\ kind' = kind /\ table' = table /\ out' = out /\ db' = db
      /\ batch' = [table |-> [s \in Sides |-> [r \in Rows |-> table[s][r] + d.rows[s][r]]],
                   out |-> [p \in OutRows |-> out[p] + process_epoch(kind, m, d)[p]],
                   state |-> Nothing]
      /\ lost' = \/ ChangesUnloaded(m, d)
                 \/ mem.lazy /\ \E s \in Sides : \E r \in RowsToLoad(mem, d, s) : Repeated(s, r)
  BY <1>1, <1>4 DEF Process
<1>6. /\ m \in Memories /\ m.lazy = mem.lazy /\ m.dirty = mem.dirty
  BY <1>2, <1>4, LoadedType DEF JoinTypeOK
<1>7. mem' \in Memories /\ TakesIn(kind, m, d, mem')
  BY <1>3, <1>5, <1>6, StagedType
<1>8. batch'.table = u
  <2>1. batch'.table = [s \in Sides |-> [r \in Rows |-> table[s][r] + d.rows[s][r]]]
    BY <1>5
  <2>2. u = [s \in Sides |-> [r \in Rows |-> u[s][r]]]
    BY DEF Tables
  <2>3. \A s \in Sides, r \in Rows : u[s][r] = table[s][r] + d.rows[s][r]
    BY <1>3 DEF Leads
  <2>4. QED
    BY <2>1, <2>2, <2>3
<1>9. lost' \in BOOLEAN
  BY <1>5 DEF ChangesUnloaded
<1>10. JoinTypeOK'
  <2>1. batch'.state = Nothing /\ batch' = [table |-> batch'.table, out |-> batch'.out, state |-> batch'.state]
    BY <1>5
  <2>2. QED
    BY <1>2, <1>3, <1>5, <1>7, <1>8, <1>9, <2>1, EmptyTypes DEF JoinTypeOK
<1>11. /\ mem'.lazy = mem.lazy
       /\ \A s \in Sides : \A r \in mem'.dirty[s] : Arranged(kind, r)
  <2>1. mem'.lazy = mem.lazy
    BY <1>6, <1>7 DEF TakesIn
  <2>2. \A s \in Sides : mem'.dirty[s] \in SUBSET Rows
    BY <1>7 DEF Memories
  <2>3. \A s \in Sides, r \in Rows : r \in mem'.dirty[s] => r \in mem.dirty[s] \/ Arranged(kind, r)
    BY <1>6, <1>7 DEF TakesIn
  <2>4. \A s \in Sides : \A r \in mem.dirty[s] : Arranged(kind, r)
    BY DEF JoinInv
  <2>5. QED
    BY <2>1, <2>2, <2>3, <2>4
<1>12. ASSUME ~lost'
       PROVE  /\ out' = SqlJoin(kind', table') /\ Keeps(kind', table', db')
              /\ Follows(kind', batch'.table, mem') /\ batch'.out = SqlJoin(kind', batch'.table)
              /\ Marks(kind', table', batch'.table, db', mem')
  <2>1. /\ out = SqlJoin(kind, table) /\ Keeps(kind, table, db) /\ Follows(kind, table, mem)
        /\ mem.lazy => kind = "inner" /\ mem.dirty = Empty.dirty
        /\ \A s \in Sides : \A r \in mem.dirty[s] : Arranged(kind, r)
    BY <1>2 DEF JoinInv
  <2>2. ~ChangesUnloaded(m, d)
    BY <1>5, <1>12
  <2>3. mem.lazy => \A s \in Sides : \A r \in RowsToLoad(mem, d, s) : ~Repeated(s, r)
    BY <1>5, <1>12
  <2>4. Follows(kind, table, m) /\ Exact(kind, table, m, d)
    BY <1>2, <1>3, <1>4, <2>1, <2>3, LoadedFollows
  <2>5. Follows(kind, u, mem') /\ Marks(kind, table, u, db, mem')
    <3>1. m.lazy => m.dirty = Empty.dirty
      BY <1>6, <2>1
    <3>2. \A s \in Sides : \A r \in m.dirty[s] : Arranged(kind, r)
      BY <1>6, <2>1
    <3>3. QED
      BY <1>2, <1>3, <1>5, <1>6, <2>1, <2>2, <2>4, <3>1, <3>2, StagedFollows
  <2>6. Epoch(kind, table, u, m, d)
    BY <1>2, <1>3, <2>4 DEF Epoch, JoinTypeOK
  <2>7. \A p \in OutRows : SqlJoin(kind, table)[p] + process_epoch(kind, m, d)[p] = SqlJoin(kind, u)[p]
    BY <2>6, OutputFollows
  <2>8. batch'.out = [p \in OutRows |-> SqlJoin(kind, u)[p]]
    BY <1>5, <2>1, <2>7
  <2>9. batch'.out = SqlJoin(kind, u)
    BY <2>8 DEF SqlJoin
  <2>10. QED
    BY <1>5, <1>8, <2>1, <2>5, <2>9
<1>13. mem'.lazy => kind' = "inner"
  BY <1>5, <1>11 DEF JoinInv
<1>14. QED
  BY <1>5, <1>10, <1>11, <1>12, <1>13 DEF JoinInv

\* The output cannot be written: the operator is to be restored.
LEMMA OutputFailsKeeps ==
  ASSUME JoinInv, OutputFails
  PROVE  JoinInv'
<1>1. /\ phase' = "pending" /\ UNCHANGED <<kind, table, out, mem, db, batch, lost>>
  BY DEF OutputFails
<1>2. JoinTypeOK'
  BY <1>1 DEF JoinInv, JoinTypeOK
<1>3. QED
  BY <1>1, <1>2 DEF JoinInv

\* The changed state joins the batch.
LEMMA AppendKeeps ==
  ASSUME JoinInv, AppendState
  PROVE  JoinInv'
<1>1. /\ phase = "processed" /\ phase' = "writing" /\ JoinTypeOK
      /\ UNCHANGED <<kind, table, out, db, lost>>
      /\ batch' = [batch EXCEPT !.state = append_state(kind, mem)]
      /\ mem' = [mem EXCEPT !.dirty = Empty.dirty]
  BY DEF AppendState, JoinInv
<1>2. PICK x : x = append_state(kind, mem)
  OBVIOUS
<1>3. batch'.table = batch.table /\ batch'.out = batch.out /\ batch'.state = x
      /\ batch' = [table |-> batch'.table, out |-> batch'.out, state |-> batch'.state]
  BY <1>1, <1>2 DEF JoinTypeOK
<1>4. x \in States
  <2>1. \A s \in Sides : StoredRows(mem, s) \in SUBSET Rows
    BY <1>1 DEF StoredRows, JoinTypeOK, Memories, States
  <2>2. \A s \in Sides, b \in Buckets : mem.weight[s][b] \in Int /\ db.weight[s][b] \in Int
    BY <1>1 DEF JoinTypeOK, Memories, States
  <2>3. mem.total \in Int /\ mem.nulls \in Int
    BY <1>1 DEF JoinTypeOK, Memories
  <2> DEFINE y == [s \in Sides |-> StoredRows(mem, s)]
             w == [s \in Sides |-> [b \in Buckets |->
                     IF s \in Tracked(kind) /\ \E r \in mem.dirty[s] : Bucket(s, r) = b
                     THEN mem.weight[s][b] ELSE db.weight[s][b]]]
             z == IF mem.total > 0 THEN mem.nulls ELSE 0
  <2>4. y \in [Sides -> SUBSET Rows]
    BY <2>1
  <2>5. w \in [Sides -> [Buckets -> Int]]
    BY <2>2
  <2>6. z \in Int
    BY <2>3
  <2>7. x = [rows |-> y, weight |-> w, total |-> mem.total, nulls |-> z]
    BY <1>2 DEF append_state
  <2> HIDE DEF y, w, z
  <2>8. QED
    BY <2>3, <2>4, <2>5, <2>6, <2>7 DEF States
<1>5. /\ mem' \in Memories /\ mem'.arr = mem.arr /\ mem'.weight = mem.weight /\ mem'.total = mem.total
      /\ mem'.nulls = mem.nulls /\ mem'.lazy = mem.lazy /\ mem'.loaded = mem.loaded
      /\ mem'.dirty = Empty.dirty
  <2>1. Empty.dirty \in [Sides -> SUBSET Rows]
    BY EmptyTypes DEF Memories
  <2>2. QED
    BY <1>1, <2>1 DEF JoinTypeOK, Memories
<1>6. JoinTypeOK'
  BY <1>1, <1>3, <1>4, <1>5 DEF JoinTypeOK
<1>7. \A s \in Sides : \A r \in mem'.dirty[s] : Arranged(kind, r)
  BY <1>5, EmptyFields
<1>8. ASSUME ~lost
      PROVE  /\ Follows(kind, batch.table, mem') /\ Keeps(kind, batch.table, x)
             /\ out = SqlJoin(kind, table) /\ Keeps(kind, table, db)
             /\ batch.out = SqlJoin(kind, batch.table)
  <2>1. /\ out = SqlJoin(kind, table) /\ Keeps(kind, table, db)
        /\ Follows(kind, batch.table, mem) /\ batch.out = SqlJoin(kind, batch.table)
        /\ Marks(kind, table, batch.table, db, mem)
    BY <1>1, <1>8 DEF JoinInv
  <2>2. batch.table \in Tables
    BY <1>1 DEF JoinTypeOK
  <2>3. Keeps(kind, batch.table, x)
    BY <1>1, <1>2, <2>1, <2>2, AppendedKeeps
  <2>4. Follows(kind, batch.table, mem')
    BY <1>5, <2>1 DEF Follows, Weighs, Arranges
  <2>5. QED
    BY <2>1, <2>3, <2>4
<1>9. mem'.lazy => kind' = "inner"
  BY <1>1, <1>5 DEF JoinInv
<1>10. QED
  BY <1>1, <1>3, <1>5, <1>6, <1>7, <1>8, <1>9 DEF JoinInv

\* The batch becomes durable as a whole.
LEMMA WriteLandsKeeps ==
  ASSUME JoinInv, NEW reported \in BOOLEAN, WriteLands(reported)
  PROVE  JoinInv'
<1>1. /\ phase = "writing" /\ phase' \in {"idle", "pending"} /\ JoinTypeOK
      /\ table' = batch.table /\ out' = batch.out /\ db' = batch.state /\ batch' = NoBatch
      /\ UNCHANGED <<kind, mem, lost>>
  BY DEF WriteLands, JoinInv
<1>2. JoinTypeOK'
  BY <1>1, EmptyTypes DEF JoinTypeOK
<1>3. ~lost => /\ Follows(kind, batch.table, mem) /\ batch.out = SqlJoin(kind, batch.table)
               /\ Keeps(kind, batch.table, batch.state)
  BY <1>1 DEF JoinInv
<1>4. mem.lazy => mem.dirty = Empty.dirty
  BY <1>1 DEF JoinInv
<1>5. QED
  BY <1>1, <1>2, <1>3, <1>4 DEF JoinInv

\* Nothing of the batch becomes durable.
LEMMA WriteFailsKeeps ==
  ASSUME JoinInv, WriteFails
  PROVE  JoinInv'
<1>1. /\ phase' = "pending" /\ batch' = NoBatch /\ UNCHANGED <<kind, table, out, mem, db, lost>>
  BY DEF WriteFails
<1>2. JoinTypeOK'
  BY <1>1, EmptyTypes DEF JoinInv, JoinTypeOK
<1>3. QED
  BY <1>1, <1>2 DEF JoinInv

\* The operator is restored from the store.
LEMMA RestoreKeeps ==
  ASSUME JoinInv, Restore
  PROVE  JoinInv'
<1>1. /\ mem' = restore_in_place(mem) /\ batch' = NoBatch /\ phase' = "idle" /\ JoinTypeOK
      /\ lost' = (lost \/ \E s \in Sides, r \in Rows : Repeated(s, r))
      /\ UNCHANGED <<kind, table, out, db>>
  BY DEF Restore, JoinInv
<1>2. mem' \in Memories /\ mem'.lazy = FALSE /\ mem'.dirty = mem.dirty
  <2> DEFINE a == [s \in Sides |-> [r \in Rows |-> IF r \in db.rows[s] THEN 1 ELSE 0]]
  <2>1. a \in [Sides -> [Rows -> Int]] /\ Empty.loaded \in [Sides -> SUBSET Buckets]
    BY EmptyTypes DEF Memories
  <2>2. /\ db.weight \in [Sides -> [Buckets -> Int]] /\ db.total \in Int /\ db.nulls \in Int
        /\ mem \in Memories
    BY <1>1 DEF JoinTypeOK, States
  <2>3. mem' = [mem EXCEPT !.arr = a, !.weight = db.weight, !.total = db.total, !.nulls = db.nulls,
                           !.lazy = FALSE, !.loaded = Empty.loaded]
    BY <1>1 DEF restore_in_place
  <2> HIDE DEF a
  <2>4. QED
    BY <2>1, <2>2, <2>3 DEF Memories
<1>3. lost' \in BOOLEAN
  BY <1>1 DEF JoinTypeOK
<1>4. JoinTypeOK'
  BY <1>1, <1>2, <1>3, EmptyTypes DEF JoinTypeOK
<1>5. ASSUME ~lost'
      PROVE  out = SqlJoin(kind, table) /\ Keeps(kind, table, db) /\ Follows(kind, table, mem')
  <2>1. ~lost /\ \A s \in Sides, r \in Rows : ~Repeated(s, r)
    BY <1>1, <1>5
  <2>2. out = SqlJoin(kind, table) /\ Keeps(kind, table, db)
    BY <2>1 DEF JoinInv
  <2>3. QED
    BY <1>1, <2>1, <2>2, RestoredFollows
<1>6. \A s \in Sides : \A r \in mem'.dirty[s] : Arranged(kind, r)
  BY <1>2 DEF JoinInv
<1>7. QED
  BY <1>1, <1>2, <1>4, <1>5, <1>6 DEF JoinInv

\* The operator goes on without a restore and loads by key.
LEMMA OpenKeeps ==
  ASSUME JoinInv, OpenUnrestored
  PROVE  JoinInv'
<1>1. /\ phase = "restarted" /\ kind = "inner" /\ phase' = "idle" /\ mem = Unrestored
      /\ UNCHANGED <<kind, table, out, mem, db, batch, lost>>
  BY DEF OpenUnrestored, JoinInv
<1>2. JoinTypeOK'
  BY <1>1 DEF JoinInv, JoinTypeOK
<1>3. Follows(kind, table, mem) /\ mem.dirty = Empty.dirty
  BY <1>1, UnrestoredFollows, EmptyFields
<1>4. ~lost => out = SqlJoin(kind, table) /\ Keeps(kind, table, db)
  BY DEF JoinInv
<1>5. \A s \in Sides : \A r \in mem.dirty[s] : Arranged(kind, r)
  BY DEF JoinInv
<1>6. QED
  BY <1>1, <1>2, <1>3, <1>4, <1>5 DEF JoinInv

\* The process stops and the view is compiled anew.
LEMMA CrashKeeps ==
  ASSUME JoinInv, JoinCrash
  PROVE  JoinInv'
<1>1. /\ mem' = Unrestored /\ batch' = NoBatch /\ phase' = "restarted"
      /\ UNCHANGED <<kind, table, out, db, lost>>
  BY DEF JoinCrash
<1>2. JoinTypeOK'
  BY <1>1, EmptyTypes DEF JoinInv, JoinTypeOK
<1>3. Unrestored' = Unrestored
  BY <1>1 DEF Unrestored
<1>4. ~lost => out = SqlJoin(kind, table) /\ Keeps(kind, table, db)
  BY DEF JoinInv
<1>5. /\ mem'.lazy => kind = "inner"
      /\ \A s \in Sides : \A r \in mem'.dirty[s] : Arranged(kind, r)
  BY <1>1, EmptyFields
<1>6. QED
  BY <1>1, <1>2, <1>3, <1>4, <1>5 DEF JoinInv

\* Nothing of the model changes.
LEMMA JoinStutters ==
  ASSUME JoinInv, UNCHANGED joinVars
  PROVE  JoinInv'
<1>1. UNCHANGED <<kind, table, out, mem, db, batch, phase, lost>>
  BY DEF joinVars
<1>2. JoinTypeOK'
  BY <1>1 DEF JoinInv, JoinTypeOK
<1>3. Unrestored' = Unrestored
  BY <1>1 DEF Unrestored
<1>4. QED
  BY <1>1, <1>2, <1>3 DEF JoinInv

\* The invariant is inductive.
LEMMA JoinInductive == JoinInv /\ [JoinNext]_joinVars => JoinInv'
  BY CommitKeeps, OutputFailsKeeps, AppendKeeps, WriteLandsKeeps, WriteFailsKeeps, RestoreKeeps,
     OpenKeeps, CrashKeeps, JoinStutters DEF JoinNext

\* The view a compiled join shows is the join of its tables, for every kind of
\* join, any rows and any number of copies of them, whatever epochs change
\* both sides, fail, or are cut off by crashes (JoinOp, OuterJoinOp and the
\* commits of JoinPipeline), up to the first loss of a row's copies.
THEOREM ViewsAreJoins == JoinSpec => []ViewIsTheJoin
<1>1. JoinInit => JoinInv
  BY JoinInitially
<1>2. JoinInv /\ [JoinNext]_joinVars => JoinInv'
  BY JoinInductive
<1>3. JoinInv => ViewIsTheJoin
  BY DEF JoinInv, ViewIsTheJoin
<1>4. QED
  BY <1>1, <1>2, <1>3, PTL DEF JoinSpec

-----------------------------------------------------------------------------
(* Tables without repeated rows *)

\* No side has a row twice, and nothing was lost.
Distinct ==
    /\ ~lost
    /\ \A s \in Sides, r \in Rows : table[s][r] <= 1 /\ batch.table[s][r] <= 1

\* Where no row may be there twice, nothing is ever lost.
LEMMA DistinctKeeps ==
  ASSUME \A s \in Sides, r \in Rows : MaxCopies[s][r] <= 1, "inner" \notin Kinds,
         JoinInv, Distinct, [JoinNext]_joinVars
  PROVE  Distinct'
<1>1. ~mem.lazy /\ JoinTypeOK
  BY DEF JoinInv, JoinTypeOK
<1>2. \A s \in Sides, r \in Rows : NoBatch.table[s][r] <= 1
  BY DEF NoBatch, Empty
<1>3. CASE Commit
  <2>1. PICK d \in Deltas : Process(d)
    BY <1>3 DEF Commit
  <2>2. PICK u \in Contents : d = Delta([s \in Sides |-> [r \in Rows |-> u[s][r] - table[s][r]]])
    BY DEF Deltas
  <2>3. u \in Tables
    BY ContentsAreTables
  <2>4. \A s \in Sides, r \in Rows : u[s][r] <= 1
    <3>1. \A s \in Sides : \A c \in SideContents(s) : \A r \in Rows : c[r] <= MaxCopies[s][r]
      BY DEF SideContents
    <3>2. \A s \in Sides : u[s] \in SideContents(s)
      BY <2>2 DEF Contents, Sides
    <3>3. \A s \in Sides, r \in Rows : MaxCopies[s][r] \in Nat /\ u[s][r] \in Nat
      BY <2>3, RowsAssumption DEF Sides, Tables
    <3>4. QED
      BY <3>1, <3>2, <3>3
  <2>5. \A s \in Sides, r \in Rows : batch'.table[s][r] = u[s][r]
    <3>1. d.rows = [s \in Sides |-> [r \in Rows |-> u[s][r] - table[s][r]]]
      BY <2>2 DEF Delta
    <3>2. batch'.table = [s \in Sides |-> [r \in Rows |-> table[s][r] + d.rows[s][r]]]
      BY <2>1 DEF Process
    <3>3. \A s \in Sides, r \in Rows : table[s][r] \in Int /\ u[s][r] \in Int
      BY <1>1, <2>3 DEF JoinTypeOK, Tables
    <3>4. QED
      BY <3>1, <3>2, <3>3
  <2>6. table' = table
    BY <2>1 DEF Process
  <2>7. ~lost'
    <3>1. load_arrangement_keys(mem, d) = mem
      BY <1>1 DEF load_arrangement_keys
    <3>2. ~ChangesUnloaded(mem, d)
      BY <1>1 DEF ChangesUnloaded
    <3>3. QED
      BY <1>1, <2>1, <3>1, <3>2 DEF Process
  <2>8. QED
    BY <2>4, <2>5, <2>6, <2>7 DEF Distinct
<1>4. CASE Restore
  <2>1. \A s \in Sides, r \in Rows : ~Repeated(s, r)
    <3>1. \A s \in Sides, r \in Rows : table[s][r] \in Nat /\ table[s][r] <= 1
      BY <1>1 DEF JoinTypeOK, Tables, Distinct
    <3>2. QED
      BY <3>1 DEF Repeated
  <2>2. QED
    BY <1>2, <1>4, <2>1 DEF Restore, Distinct
<1>5. CASE AppendState
  <2>1. batch'.table = batch.table
    BY <1>1, <1>5 DEF AppendState, JoinTypeOK
  <2>2. QED
    BY <1>5, <2>1 DEF AppendState, Distinct
<1>6. CASE \E reported \in BOOLEAN : WriteLands(reported)
  BY <1>2, <1>6 DEF WriteLands, Distinct
<1>7. CASE OutputFails \/ OpenUnrestored
  BY <1>7 DEF OutputFails, OpenUnrestored, Distinct
<1>8. CASE WriteFails \/ JoinCrash
  BY <1>2, <1>8 DEF WriteFails, JoinCrash, Distinct
<1>9. CASE UNCHANGED joinVars
  BY <1>9 DEF joinVars, Distinct
<1>10. QED
  BY <1>3, <1>4, <1>5, <1>6, <1>7, <1>8, <1>9 DEF JoinNext

\* An outer, semi, anti or NOT IN view over tables that have no row twice is
\* the join of its tables always: neither a failed commit nor a crash can make
\* the operator restore less than the tables have (restore_in_place).
THEOREM DistinctRowsAreExact ==
  ASSUME \A s \in Sides, r \in Rows : MaxCopies[s][r] <= 1, "inner" \notin Kinds
  PROVE  JoinSpec => [](out = SqlJoin(kind, table))
<1>1. JoinInit => JoinInv /\ Distinct
  <2>1. JoinInit => Distinct
    BY DEF JoinInit, Distinct, NoBatch, Empty
  <2>2. QED
    BY <2>1, JoinInitially
<1>2. JoinInv /\ Distinct /\ [JoinNext]_joinVars => (JoinInv /\ Distinct)'
  BY JoinInductive, DistinctKeeps
<1>3. JoinInv /\ Distinct => out = SqlJoin(kind, table)
  BY DEF JoinInv, Distinct
<1>4. QED
  BY <1>1, <1>2, <1>3, PTL DEF JoinSpec
=============================================================================
