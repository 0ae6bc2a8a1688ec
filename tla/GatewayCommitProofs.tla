------------------------ MODULE GatewayCommitProofs ------------------------
(***************************************************************************)
(* Proofs about GatewayCommit: idempotency keys, the compiled view, and    *)
(* the subscriber.                                                         *)
(*                                                                         *)
(* The model folds over write buffers and over the replay log, and counts  *)
(* rows. The first sections turn FoldLeft into a fold over a step function *)
(* and derive what the folds give by induction over index sets; rows are   *)
(* counted over the filled ones, of which there are finitely many.         *)
(***************************************************************************)
EXTENDS GatewayCommit, FiniteSetTheorems, SequenceTheorems, WellFoundedInduction, TLAPS

-----------------------------------------------------------------------------
(* Folds over sequences *)

\* Among sets of subsets of a finite set there is a smallest one.
LEMMA SmallestSet ==
  ASSUME NEW A, IsFiniteSet(A), NEW T \in SUBSET SUBSET A, T # {}
  PROVE  \E m \in T : \A y \in SUBSET m : y # m => y \notin T
<1>1. IsWellFoundedOn(StrictSubsetOrdering(A), SUBSET A)
  BY FS_StrictSubsetOrderingWellFounded, FS_FiniteSubsetsOfFinite
<1>2. PICK m \in T : \A y \in T : <<y, m>> \notin StrictSubsetOrdering(A)
  <2>1. \E m \in T : \A y \in T : <<y, m>> \notin StrictSubsetOrdering(A)
    BY <1>1, WFMin
  <2>2. QED
    BY <2>1
<1>3. ASSUME NEW y \in SUBSET m, y # m, y \in T PROVE FALSE
  <2>1. <<y, m>> \in StrictSubsetOrdering(A)
    BY <1>3 DEF StrictSubsetOrdering
  <2>2. QED
    BY <1>2, <1>3, <2>1
<1>4. QED
  BY <1>3

\* A finite set of numbers has a largest element.
LEMMA MaxIn ==
  ASSUME NEW A \in SUBSET Nat, IsFiniteSet(A), A # {}
  PROVE  Max(A) \in A /\ \A y \in A : y <= Max(A)
<1> DEFINE Has(s) == \E x \in s : \A y \in s : x >= y
           T == {s \in SUBSET A : s # {} /\ ~Has(s)}
<1>1. ASSUME T # {} PROVE FALSE
  <2>1. T \in SUBSET SUBSET A
    OBVIOUS
  <2>2. PICK m \in T : \A y \in SUBSET m : y # m => y \notin T
    <3> HIDE DEF T
    <3> QED BY <1>1, <2>1, SmallestSet
  <2>3. PICK x \in m : TRUE
    OBVIOUS
  <2>4. m \ {x} # {}
    OBVIOUS
  <2>5. Has(m \ {x})
    <3> HIDE DEF Has
    <3> QED BY <2>2, <2>4
  <2>6. PICK z \in m \ {x} : \A y \in m \ {x} : z >= y
    BY <2>5
  <2>7. x \in Nat /\ z \in Nat /\ \A y \in m : y \in Nat
    OBVIOUS
  <2>8. CASE z >= x
    <3>1. \A y \in m : z >= y
      BY <2>6, <2>8
    <3>2. QED
      BY <3>1
  <2>9. CASE ~(z >= x)
    <3>1. \A y \in m : x >= y
      BY <2>6, <2>7, <2>9
    <3>2. QED
      BY <3>1
  <2>10. QED
    BY <2>8, <2>9
<1>2. Has(A)
  BY <1>1
<1>3. QED
  BY <1>2 DEF Max

\* A finite set of numbers has a smallest element.
LEMMA MinIn ==
  ASSUME NEW A \in SUBSET Nat, IsFiniteSet(A), A # {}
  PROVE  Min(A) \in A /\ \A y \in A : Min(A) <= y
<1> DEFINE Has(s) == \E x \in s : \A y \in s : x =< y
           T == {s \in SUBSET A : s # {} /\ ~Has(s)}
<1>1. ASSUME T # {} PROVE FALSE
  <2>1. T \in SUBSET SUBSET A
    OBVIOUS
  <2>2. PICK m \in T : \A y \in SUBSET m : y # m => y \notin T
    <3> HIDE DEF T
    <3> QED BY <1>1, <2>1, SmallestSet
  <2>3. PICK x \in m : TRUE
    OBVIOUS
  <2>4. m \ {x} # {}
    OBVIOUS
  <2>5. Has(m \ {x})
    <3> HIDE DEF Has
    <3> QED BY <2>2, <2>4
  <2>6. PICK z \in m \ {x} : \A y \in m \ {x} : z =< y
    BY <2>5
  <2>7. x \in Nat /\ z \in Nat /\ \A y \in m : y \in Nat
    OBVIOUS
  <2>8. CASE z =< x
    <3>1. \A y \in m : z =< y
      BY <2>6, <2>8
    <3>2. QED
      BY <3>1
  <2>9. CASE ~(z =< x)
    <3>1. \A y \in m : x =< y
      BY <2>6, <2>7, <2>9
    <3>2. QED
      BY <3>1
  <2>10. QED
    BY <2>8, <2>9
<1>2. Has(A)
  BY <1>1
<1>3. QED
  BY <1>2 DEF Min

\* Induction along a fold: what holds of the empty set and comes with the
\* largest element holds of every set of indices.
LEMMA FoldInduction ==
  ASSUME NEW D \in SUBSET Nat, IsFiniteSet(D), NEW T \in SUBSET SUBSET D,
         {} \in T,
         \A s \in SUBSET D : s # {} /\ s \ {Max(s)} \in T => s \in T
  PROVE  T = SUBSET D
<1> DEFINE U == {s \in SUBSET D : s \notin T}
<1>1. SUFFICES ASSUME U # {} PROVE FALSE
  OBVIOUS
<1>2. PICK m \in U : \A y \in SUBSET m : y # m => y \notin U
  <2>1. U \in SUBSET SUBSET D
    OBVIOUS
  <2> HIDE DEF U
  <2>2. QED
    BY <1>1, <2>1, SmallestSet
<1>3. m # {} /\ IsFiniteSet(m) /\ m \in SUBSET Nat
  BY FS_Subset
<1>4. Max(m) \in m
  BY <1>3, MaxIn
<1>5. m \ {Max(m)} \notin U
  BY <1>2, <1>4
<1>6. QED
  BY <1>3, <1>5

\* g is the recursive function of a fold with the step st, on the indices D.
Folding(st, base, seq, D, g) ==
    g = [s \in SUBSET D |->
            IF s = {} THEN base ELSE st[<<g[s \ {Max(s)}], seq[Max(s)]>>]]

\* What FoldLeft computes when its operator is the function st.
Fold(st, base, seq) == (CHOOSE g : Folding(st, base, seq, DOMAIN seq, g))[DOMAIN seq]

\* The largest element of a set is the largest of the subsets that hold it.
LEMMA MaxOfPart ==
  ASSUME NEW A \in SUBSET Nat, IsFiniteSet(A), NEW t \in SUBSET A, Max(A) \in t
  PROVE  Max(t) = Max(A)
<1>1. IsFiniteSet(t) /\ t \in SUBSET Nat /\ t # {} /\ A # {}
  BY FS_Subset
<1>2. Max(t) \in t /\ (\A y \in t : y <= Max(t)) /\ (\A y \in A : y <= Max(A)) /\ Max(A) \in A
  BY <1>1, MaxIn
<1>3. Max(t) <= Max(A) /\ Max(A) <= Max(t) /\ Max(t) \in Nat /\ Max(A) \in Nat
  BY <1>2
<1>4. QED
  BY <1>3

\* Every fold over finitely many indices has its recursive function.
LEMMA FoldingExists ==
  ASSUME NEW st, NEW base, NEW seq, NEW D \in SUBSET Nat, IsFiniteSet(D)
  PROVE  \E g : Folding(st, base, seq, D, g)
<1> DEFINE T == {B \in SUBSET D : \E g : Folding(st, base, seq, B, g)}
<1>1. {} \in T
  <2> DEFINE g == [s \in SUBSET {} |-> base]
  <2>1. Folding(st, base, seq, {}, g)
    BY DEF Folding
  <2>2. QED
    BY <2>1
<1>2. ASSUME NEW s \in SUBSET D, s # {}, s \ {Max(s)} \in T PROVE s \in T
  <2> DEFINE x == Max(s)
  <2>1. PICK g : Folding(st, base, seq, s \ {x}, g)
    BY <1>2
  <2>2. IsFiniteSet(s) /\ s \in SUBSET Nat
    BY FS_Subset
  <2>3. x \in s
    BY <1>2, <2>2, MaxIn
  <2> DEFINE h == [t \in SUBSET s |-> IF x \in t THEN st[<<g[t \ {x}], seq[x]>>] ELSE g[t]]
  <2>4. ASSUME NEW t \in SUBSET s
        PROVE  h[t] = IF t = {} THEN base ELSE st[<<h[t \ {Max(t)}], seq[Max(t)]>>]
    <3>1. CASE x \in t
      <4>1. Max(t) = x
        BY <2>2, <3>1, MaxOfPart
      <4>2. t \ {x} \in SUBSET s /\ h[t \ {x}] = g[t \ {x}] /\ t # {}
        BY <3>1
      <4>3. h[t] = st[<<g[t \ {x}], seq[x]>>]
        BY <3>1
      <4> HIDE DEF h, x
      <4>4. QED
        BY <4>1, <4>2, <4>3
    <3>2. CASE x \notin t
      <4>1. t \in SUBSET (s \ {x}) /\ t \ {Max(t)} \in SUBSET (s \ {x})
        BY <3>2
      <4>2. h[t] = g[t] /\ h[t \ {Max(t)}] = g[t \ {Max(t)}]
        BY <3>2
      <4> HIDE DEF h, x
      <4>3. g[t] = IF t = {} THEN base ELSE st[<<g[t \ {Max(t)}], seq[Max(t)]>>]
        BY <2>1, <4>1 DEF Folding
      <4>4. QED
        BY <4>2, <4>3
    <3>3. QED
      BY <3>1, <3>2
  <2>5. h = [t \in SUBSET s |-> h[t]]
    OBVIOUS
  <2>6. Folding(st, base, seq, s, h)
    <3> HIDE DEF h
    <3>1. QED
      BY <2>4, <2>5 DEF Folding
  <2>7. QED
    BY <2>6
<1>3. T = SUBSET D
  <2>1. T \in SUBSET SUBSET D
    OBVIOUS
  <2> HIDE DEF T
  <2>2. QED
    BY <1>1, <1>2, <2>1, FoldInduction
<1>4. D \in T
  BY <1>3
<1>5. QED
  BY <1>4

\* On shared indices with the same elements, folds agree.
LEMMA FoldingAgrees ==
  ASSUME NEW st, NEW base, NEW seq, NEW sec, NEW D \in SUBSET Nat, IsFiniteSet(D),
         NEW E \in SUBSET D, \A i \in E : seq[i] = sec[i],
         NEW g, NEW h, Folding(st, base, seq, D, g), Folding(st, base, sec, E, h)
  PROVE  g[E] = h[E]
<1> DEFINE T == {s \in SUBSET E : g[s] = h[s]}
<1>1. IsFiniteSet(E) /\ E \in SUBSET Nat
  BY FS_Subset
<1>2. {} \in T
  <2>1. {} \in SUBSET D /\ {} \in SUBSET E
    OBVIOUS
  <2>2. QED
    BY <2>1 DEF Folding
<1>3. ASSUME NEW s \in SUBSET E, s # {}, s \ {Max(s)} \in T PROVE s \in T
  <2>1. IsFiniteSet(s) /\ s \in SUBSET Nat
    BY <1>1, FS_Subset
  <2>2. Max(s) \in s
    BY <1>3, <2>1, MaxIn
  <2>3. g[s] = st[<<g[s \ {Max(s)}], seq[Max(s)]>>] /\ h[s] = st[<<h[s \ {Max(s)}], sec[Max(s)]>>]
    <3>1. s \in SUBSET D
      OBVIOUS
    <3>2. QED
      BY <1>3, <3>1 DEF Folding
  <2>4. g[s \ {Max(s)}] = h[s \ {Max(s)}] /\ seq[Max(s)] = sec[Max(s)]
    BY <1>3, <2>2
  <2>5. QED
    BY <2>3, <2>4
<1>4. T = SUBSET E
  <2>1. T \in SUBSET SUBSET E
    OBVIOUS
  <2> HIDE DEF T
  <2>2. QED
    BY <1>1, <1>2, <1>3, <2>1, FoldInduction
<1>5. E \in T
  BY <1>4
<1>6. QED
  BY <1>5

\* Two recursive functions that step alike from equal values are equal.
LEMMA FoldUnique ==
  ASSUME NEW D \in SUBSET Nat, IsFiniteSet(D), NEW g, NEW h, g[{}] = h[{}],
         \A s \in SUBSET D : s # {} /\ g[s \ {Max(s)}] = h[s \ {Max(s)}] => g[s] = h[s]
  PROVE  g[D] = h[D]
<1> DEFINE T == {s \in SUBSET D : g[s] = h[s]}
<1>1. {} \in T
  OBVIOUS
<1>2. \A s \in SUBSET D : s # {} /\ s \ {Max(s)} \in T => s \in T
  OBVIOUS
<1>3. T \in SUBSET SUBSET D
  OBVIOUS
<1>4. T = SUBSET D
  <2> HIDE DEF T
  <2>1. QED
    BY <1>1, <1>2, <1>3, FoldInduction
<1>5. D \in T
  BY <1>4
<1>6. QED
  BY <1>5

\* What the base has and every step keeps holds of all values of a fold.
LEMMA FoldingIn ==
  ASSUME NEW st, NEW base, NEW O, NEW seq \in Seq(O), NEW g, NEW I,
         Folding(st, base, seq, DOMAIN seq, g), base \in I,
         \A r \in I : \A o \in O : st[<<r, o>>] \in I
  PROVE  \A s \in SUBSET DOMAIN seq : g[s] \in I
<1> DEFINE D == DOMAIN seq
           T == {s \in SUBSET D : g[s] \in I}
<1>1. D = 1..Len(seq) /\ D \in SUBSET Nat /\ IsFiniteSet(D)
  BY FS_Interval
<1>2. {} \in T
  BY DEF Folding
<1>3. ASSUME NEW s \in SUBSET D, s # {}, s \ {Max(s)} \in T PROVE s \in T
  <2>1. Max(s) \in s
    <3>1. IsFiniteSet(s) /\ s \in SUBSET Nat
      BY <1>1, FS_Subset
    <3>2. QED
      BY <1>3, <3>1, MaxIn
  <2>2. g[s] = st[<<g[s \ {Max(s)}], seq[Max(s)]>>]
    BY <1>3 DEF Folding
  <2>3. seq[Max(s)] \in O /\ g[s \ {Max(s)}] \in I
    BY <1>1, <1>3, <2>1
  <2>4. QED
    BY <2>2, <2>3
<1>4. T \in SUBSET SUBSET D
  OBVIOUS
<1>5. T = SUBSET D
  <2> HIDE DEF T, D
  <2>1. QED
    BY <1>1, <1>2, <1>3, <1>4, FoldInduction
<1>6. QED
  BY <1>5

\* The indices of a sequence.
LEMMA Indices ==
  ASSUME NEW O, NEW seq \in Seq(O)
  PROVE  DOMAIN seq = 1..Len(seq) /\ DOMAIN seq \in SUBSET Nat /\ IsFiniteSet(DOMAIN seq)
  BY FS_Interval

\* The recursive function of a fold, by name.
LEMMA FoldingChosen ==
  ASSUME NEW st, NEW base, NEW O, NEW seq \in Seq(O)
  PROVE  \E g : Folding(st, base, seq, DOMAIN seq, g) /\ Fold(st, base, seq) = g[DOMAIN seq]
<1>1. \E g : Folding(st, base, seq, DOMAIN seq, g)
  BY Indices, FoldingExists
<1>2. Folding(st, base, seq, DOMAIN seq, CHOOSE g : Folding(st, base, seq, DOMAIN seq, g))
  BY <1>1
<1>3. QED
  BY <1>2 DEF Fold

\* What the base has and every step keeps holds of the result.
LEMMA FoldIn ==
  ASSUME NEW st, NEW base, NEW O, NEW seq \in Seq(O), NEW I, base \in I,
         \A r \in I : \A o \in O : st[<<r, o>>] \in I
  PROVE  Fold(st, base, seq) \in I
<1>1. PICK g : Folding(st, base, seq, DOMAIN seq, g) /\ Fold(st, base, seq) = g[DOMAIN seq]
  BY FoldingChosen
<1>2. \A s \in SUBSET DOMAIN seq : g[s] \in I
  BY <1>1, FoldingIn
<1>3. QED
  BY <1>1, <1>2

\* A fold over no elements.
LEMMA FoldEmpty ==
  ASSUME NEW st, NEW base
  PROVE  Fold(st, base, <<>>) = base
<1>1. <<>> \in Seq({}) /\ DOMAIN <<>> = {}
  OBVIOUS
<1>2. PICK g : Folding(st, base, <<>>, DOMAIN <<>>, g) /\ Fold(st, base, <<>>) = g[DOMAIN <<>>]
  BY <1>1, FoldingChosen
<1>3. g[{}] = base
  BY <1>1, <1>2 DEF Folding
<1>4. QED
  BY <1>1, <1>2, <1>3

\* A fold over one more element takes one more step.
LEMMA FoldAppend ==
  ASSUME NEW st, NEW base, NEW O, NEW seq \in Seq(O), NEW e \in O
  PROVE  Fold(st, base, Append(seq, e)) = st[<<Fold(st, base, seq), e>>]
<1> DEFINE sec == Append(seq, e)
           n == Len(seq) + 1
<1>1. sec \in Seq(O) /\ Len(sec) = n /\ sec[n] = e /\ \A i \in 1..Len(seq) : sec[i] = seq[i]
  OBVIOUS
<1>2. DOMAIN sec = 1..n /\ DOMAIN seq = 1..Len(seq) /\ Len(seq) \in Nat /\ IsFiniteSet(DOMAIN sec)
  <2> HIDE DEF sec
  <2>1. QED
    BY <1>1, Indices
<1>3. PICK g : Folding(st, base, sec, DOMAIN sec, g) /\ Fold(st, base, sec) = g[DOMAIN sec]
  BY <1>1, FoldingChosen
<1>4. PICK h : Folding(st, base, seq, DOMAIN seq, h) /\ Fold(st, base, seq) = h[DOMAIN seq]
  BY FoldingChosen
<1>5. Max(DOMAIN sec) = n
  <2> HIDE DEF sec, n
  <2>1. n \in DOMAIN sec /\ DOMAIN sec \in SUBSET Nat /\ \A i \in DOMAIN sec : i <= n
    BY <1>2 DEF n
  <2>2. Max(DOMAIN sec) \in DOMAIN sec /\ \A i \in DOMAIN sec : i <= Max(DOMAIN sec)
    BY <1>2, <2>1, MaxIn
  <2>3. n <= Max(DOMAIN sec) /\ Max(DOMAIN sec) <= n /\ Max(DOMAIN sec) \in Nat /\ n \in Nat
    BY <2>1, <2>2
  <2>4. QED
    BY <2>3
<1>6. DOMAIN sec \ {n} = DOMAIN seq /\ DOMAIN sec # {}
  <2> HIDE DEF sec
  <2>1. QED
    BY <1>2
<1> HIDE DEF sec, n
<1>7. g[DOMAIN sec] = st[<<g[DOMAIN seq], e>>]
  <2>1. g[DOMAIN sec] = st[<<g[DOMAIN sec \ {Max(DOMAIN sec)}], sec[Max(DOMAIN sec)]>>]
    BY <1>3, <1>6 DEF Folding
  <2>2. QED
    BY <1>1, <1>5, <1>6, <2>1
<1>8. g[DOMAIN seq] = h[DOMAIN seq]
  <2>1. DOMAIN seq \in SUBSET DOMAIN sec /\ DOMAIN sec \in SUBSET Nat /\ \A i \in DOMAIN seq : sec[i] = seq[i]
    BY <1>1, <1>2 DEF n
  <2> DEFINE D == DOMAIN sec
             E == DOMAIN seq
  <2>2. /\ D \in SUBSET Nat /\ IsFiniteSet(D) /\ E \in SUBSET D /\ \A i \in E : sec[i] = seq[i]
        /\ Folding(st, base, sec, D, g) /\ Folding(st, base, seq, E, h)
    BY <1>2, <1>3, <1>4, <2>1
  <2> HIDE DEF D, E
  <2>3. g[E] = h[E]
    BY <2>2, FoldingAgrees
  <2>4. QED
    BY <2>3 DEF E
<1>9. QED
  BY <1>3, <1>4, <1>7, <1>8 DEF sec

-----------------------------------------------------------------------------
(* The inductive invariant *)

Images == Vals \cup {NoRow}
Tables == [RowKeys -> Images]
Weights == [Vals -> Int]
Operations == [key : RowKeys, old : Images, to : RowKeys, new : Images]
Epochs == [epoch : Nat, delta : Weights, size : Nat]
Keys == IdemKeys \cup {NoKey}
Sessions == [blk : {"idle", "open", "failed"}, buf : Seq(Operations), key : Keys,
             pc : {"idle", "commit", "queued", "writing", "flush"}, ops : Seq(Operations),
             pub : Epochs, lost : BOOLEAN]
Stores == [rows : Tables, out : Weights, state : Weights, idem : SUBSET IdemKeys, epoch : Nat,
           applied : [IdemKeys -> Nat]]
Histories == [acked : SUBSET Keys, overlap : SUBSET IdemKeys, dropped : SUBSET Keys,
              early : SUBSET Keys, emptied : SUBSET Keys, spoiled : BOOLEAN]
Logs == [entries : Seq(Epochs), floor : Nat, latest : Nat]
Clients == [st : {"off", "live", "away"}, acc : Weights, last : Nat, gap : BOOLEAN]

\* Finitely many rows are in a table.
Filled(rows) == {k \in RowKeys : rows[k] # NoRow}

TypeOK ==
    /\ store \in Stores
    /\ IsFiniteSet(Filled(store.rows))
    /\ durable \in Stores
    /\ IsFiniteSet(Filled(durable.rows))
    /\ view \in {"none", "registered", "written", "ready", "broken", "dropped"}
    /\ arr \in Weights
    /\ pending \in BOOLEAN
    /\ epochs \in [last : Nat, alloc : Nat]
    /\ queue \in Seq(Conns)
    /\ conn \in [Conns -> Sessions]
    /\ hist \in Histories
    /\ log \in Logs
    /\ sub \in Clients

\* Some COMMIT of c is past the check of its key.
Pushed(c) == conn[c].pc \in {"queued", "writing", "flush"}

\* The keys in a store are the applied ones, and one that was applied twice
\* overlapped.
Once(s) ==
    \A k \in IdemKeys :
        /\ s.applied[k] > 0 <=> k \in s.idem
        /\ s.applied[k] > 1 => k \in hist.overlap

\* A key that was answered COMMIT for no durable batch.
Excused(k) == k \in hist.dropped \/ k \in hist.early \/ k \in hist.emptied

\* Keys are applied once, and answered when they are durable; a COMMIT that is
\* applied while its key is known overlapped with another.
KeysAreKept ==
    /\ Once(store) /\ Once(durable)
    /\ durable.idem \subseteq store.idem
    /\ \A k \in IdemKeys : k \in hist.acked => k \in durable.idem \/ Excused(k)
    /\ \A c \in Conns : conn[c].pc \in {"writing", "flush"} /\ conn[c].key # NoKey
                            => conn[c].key \in store.idem
    /\ \A c \in Conns : conn[c].pc = "queued" /\ conn[c].key \in store.idem
                            => conn[c].key \in hist.overlap
    /\ \A c, d \in Conns :
          c # d /\ Pushed(c) /\ Pushed(d) /\ conn[c].key = conn[d].key /\ conn[c].key # NoKey
              => conn[c].key \in hist.overlap

\* The output of DISTINCT over a table.
Distinct(rows) == [v \in Vals |-> IF Counts(rows)[v] > 0 THEN 1 ELSE 0]

\* A store holds the view of its rows.
Refreshed(s) == s.state = Counts(s.rows) /\ s.out = Distinct(s.rows)

\* Where CREATE VIEW and the refreshes have got to.
ViewFollows ==
    ~hist.spoiled =>
        /\ Building => durable = store
        /\ view = "registered" => arr = Zero /\ store.out = Zero /\ store.state = Zero
        /\ view = "written" =>
              /\ arr = Counts(store.rows) /\ store.out = Distinct(store.rows)
              /\ store.state = Zero
        /\ view = "ready" =>
              /\ Refreshed(store) /\ Refreshed(durable)
              /\ (~pending \/ LockHeld) => arr = Counts(store.rows)

\* The COMMIT that writes or flushes is at the head of the queue for the lock,
\* and its batch is durable before the flush.
LockIsHeld ==
    /\ \A c \in Conns : conn[c].pc \in {"writing", "flush"} => queue # <<>> /\ Head(queue) = c
    /\ \A c \in Conns : conn[c].pc = "flush" => durable = store

\* Epochs are allocated, written, made durable and published in this order, ...
EpochsInOrder ==
    /\ epochs.last <= durable.epoch /\ durable.epoch <= store.epoch
    /\ store.epoch <= epochs.alloc
    /\ log.latest <= epochs.last /\ sub.last <= epochs.last
    /\ \A c \in Conns : conn[c].pc = "writing" =>
          conn[c].pub.epoch = store.epoch /\ epochs.last < store.epoch
    /\ \A c \in Conns : conn[c].pc = "flush" =>
          /\ conn[c].pub.epoch = epochs.last
          /\ log.latest < conn[c].pub.epoch /\ sub.last < conn[c].pub.epoch

\* ... and the log holds the newest of them.
InOrder(l) ==
    /\ l.floor <= l.latest + 1
    /\ \A i \in DOMAIN l.entries : l.entries[i].epoch <= l.latest
    /\ \A i, j \in DOMAIN l.entries : i < j => l.entries[i].epoch < l.entries[j].epoch
    /\ l.entries # <<>> => l.entries[Len(l.entries)].epoch = l.latest

\* The epoch that is written and about to be published, if there is one.
Writing == \E c \in Conns : conn[c].pc = "writing"
Flushing == \E c \in Conns : conn[c].pc = "flush"
Unpublished == IF LockHeld THEN conn[Head(queue)].pub.delta ELSE Zero
Published == IF Flushing THEN conn[Head(queue)].pub.epoch - 1 ELSE epochs.last

\* What a client would sum up to if it were sent the rest of the log.
Summed(l, s) == FoldLeft(LAMBDA a, e : Plus(a, e.delta), s.acc, Since(l, s.last + 1))

\* A client that has missed an epoch, and will be told.
Stale ==
    \/ sub.st = "live" /\ sub.last + 1 < log.floor
    \/ /\ sub.st = "away"
       /\ IF log.entries = <<>> THEN sub.last < Published
          ELSE sub.last + 1 < EarliestEpoch(log)

\* The table a restart would find is the one the client knows of.
Survives ==
    IF Writing THEN durable = store \/ Summed(log, sub) = Counts(durable.rows)
    ELSE durable.rows = store.rows

\* What the client has, what the log owes it and what is being flushed make up
\* the table, unless it will be told to start again.
ClientFollows ==
    sub.st # "off" /\ ~sub.gap =>
        \/ Stale
        \/ Plus(Summed(log, sub), Unpublished) = Counts(store.rows) /\ Survives

-----------------------------------------------------------------------------
(* The folds of the model *)

\* A step of Committed, ...
Keep(r, op) ==
    IF ~Valid(r.rows, op) THEN r
    ELSE [rows |-> Effect(r.rows, op), ops |-> Append(r.ops, op),
          over |-> r.over \/ (op.to # op.key /\ r.rows[op.to] # NoRow)]
Keeping == [rows : Tables, ops : Seq(Operations), over : BOOLEAN]
KeepStep == [p \in Keeping \X Operations |-> Keep(p[1], p[2])]
Unchecked(rows) == [rows |-> rows, ops |-> <<>>, over |-> FALSE]

\* ... of Image, ...
EffectStep == [p \in Tables \X Operations |-> Effect(p[1], p[2])]

\* ... of Since and of Polled.
Select(epoch, s, e) == IF e.epoch >= epoch THEN Append(s, e) ELSE s
SelectStep(epoch) == [p \in Seq(Epochs) \X Epochs |-> Select(epoch, p[1], p[2])]
PlusStep == [p \in Weights \X Epochs |-> Plus(p[1], p[2].delta)]

\* An operation turns a table into a table.
LEMMA EffectType ==
  ASSUME NEW rows \in Tables, NEW op \in Operations
  PROVE  Effect(rows, op) \in Tables /\ EffectStep[<<rows, op>>] = Effect(rows, op)
<1>1. op.key \in RowKeys /\ op.to \in RowKeys /\ op.new \in Images /\ NoRow \in Images
  BY DEF Operations, Images
<1>2. Effect(rows, op) \in Tables
  BY <1>1 DEF Effect, Tables
<1>3. QED
  BY <1>2 DEF EffectStep

\* A step of Committed is one of its type.
LEMMA KeepType ==
  ASSUME NEW r \in Keeping, NEW op \in Operations
  PROVE  Keep(r, op) \in Keeping /\ KeepStep[<<r, op>>] = Keep(r, op)
<1>1. r.rows \in Tables /\ r.ops \in Seq(Operations) /\ r.over \in BOOLEAN
  BY DEF Keeping
<1>2. Effect(r.rows, op) \in Tables /\ Append(r.ops, op) \in Seq(Operations)
  <2>1. Effect(r.rows, op) \in Tables
    BY <1>1, EffectType, Zenon
  <2>2. QED
    BY <1>1, <2>1
<1>3. (r.over \/ (op.to # op.key /\ r.rows[op.to] # NoRow)) \in BOOLEAN
  BY <1>1, Zenon
<1>4. Keep(r, op) \in Keeping
  BY <1>2, <1>3 DEF Keep, Keeping
<1>5. QED
  BY <1>4 DEF KeepStep

\* Selecting keeps a sequence of epochs.
LEMMA SelectType ==
  ASSUME NEW epoch \in Nat, NEW s \in Seq(Epochs), NEW e \in Epochs
  PROVE  /\ Select(epoch, s, e) \in Seq(Epochs)
         /\ SelectStep(epoch)[<<s, e>>] = Select(epoch, s, e)
<1>1. Select(epoch, s, e) \in Seq(Epochs)
  BY DEF Select
<1>2. QED
  BY <1>1 DEF SelectStep

\* Sums of weights are weights.
LEMMA PlusType ==
  ASSUME NEW f \in Weights, NEW g \in Weights
  PROVE  Plus(f, g) \in Weights /\ \A v \in Vals : Plus(f, g)[v] = f[v] + g[v]
  BY DEF Plus, Weights

\* A client's step is one of weights.
LEMMA PlusStepType ==
  ASSUME NEW f \in Weights, NEW e \in Epochs
  PROVE  Plus(f, e.delta) \in Weights /\ PlusStep[<<f, e>>] = Plus(f, e.delta)
<1>1. e.delta \in Weights
  BY DEF Epochs
<1>2. QED
  BY <1>1, PlusType DEF PlusStep

\* committed_dml_ops is the fold of its step.
LEMMA CommittedIsFold ==
  ASSUME NEW rows \in Tables, NEW ops \in Seq(Operations)
  PROVE  Committed(rows, ops) = Fold(KeepStep, Unchecked(rows), ops)
<1> DEFINE D == DOMAIN ops
           Steps(g) == g = [s \in SUBSET D |-> IF s = {} THEN Unchecked(rows)
                                               ELSE Keep(g[s \ {Max(s)}], ops[Max(s)])]
           f == CHOOSE g : Steps(g)
<1>1. Committed(rows, ops) = f[D]
  BY DEF Committed, Unchecked, Keep, FoldLeft, MapThenFoldSet
<1>2. D \in SUBSET Nat /\ IsFiniteSet(D) /\ D = 1..Len(ops)
  BY Indices
<1>3. PICK h : Folding(KeepStep, Unchecked(rows), ops, D, h) /\ Fold(KeepStep, Unchecked(rows), ops) = h[D]
  BY FoldingChosen
<1>4. \A s \in SUBSET D : h[s] \in Keeping
  <2>1. Unchecked(rows) \in Keeping
    BY DEF Unchecked, Keeping
  <2>2. \A r \in Keeping : \A o \in Operations : KeepStep[<<r, o>>] \in Keeping
    BY KeepType
  <2> HIDE DEF D
  <2>3. QED
    BY <1>3, <2>1, <2>2, FoldingIn DEF D
<1>5. ASSUME NEW s \in SUBSET D
      PROVE  h[s] = IF s = {} THEN Unchecked(rows) ELSE Keep(h[s \ {Max(s)}], ops[Max(s)])
  <2>1. CASE s = {}
    BY <1>3, <2>1 DEF Folding
  <2>2. CASE s # {}
    <3>1. Max(s) \in s
      <4>1. IsFiniteSet(s) /\ s \in SUBSET Nat
        BY <1>2, FS_Subset
      <4>2. QED
        BY <2>2, <4>1, MaxIn
    <3>2. ops[Max(s)] \in Operations /\ h[s \ {Max(s)}] \in Keeping
      BY <1>2, <1>4, <3>1
    <3>3. h[s] = KeepStep[<<h[s \ {Max(s)}], ops[Max(s)]>>]
      BY <1>3, <2>2 DEF Folding
    <3>4. QED
      BY <2>2, <3>2, <3>3, KeepType
  <2>3. QED
    BY <2>1, <2>2
<1>6. Steps(h)
  <2>1. h = [s \in SUBSET D |-> h[s]]
    BY <1>3 DEF Folding
  <2> HIDE DEF D
  <2>2. QED
    BY <1>5, <2>1
<1>7. Steps(f)
  <2> HIDE DEF Steps
  <2>1. QED
    BY <1>6
<1>8. f[{}] = h[{}]
  BY <1>6, <1>7
<1>9. \A s \in SUBSET D : s # {} /\ f[s \ {Max(s)}] = h[s \ {Max(s)}] => f[s] = h[s]
  BY <1>6, <1>7
<1>10. f[D] = h[D]
  <2> HIDE DEF f, D
  <2>1. QED
    BY <1>2, <1>8, <1>9, FoldUnique
<1>11. QED
  BY <1>1, <1>3, <1>10

\* What a session sees is the fold of its buffer.
LEMMA EffectsAreFold ==
  ASSUME NEW rows \in Tables, NEW ops \in Seq(Operations)
  PROVE  FoldLeft(Effect, rows, ops) = Fold(EffectStep, rows, ops)
<1> DEFINE D == DOMAIN ops
           Steps(g) == g = [s \in SUBSET D |-> IF s = {} THEN rows
                                               ELSE Effect(g[s \ {Max(s)}], ops[Max(s)])]
           f == CHOOSE g : Steps(g)
<1>1. FoldLeft(Effect, rows, ops) = f[D]
  BY DEF EffectStep, FoldLeft, MapThenFoldSet
<1>2. D \in SUBSET Nat /\ IsFiniteSet(D) /\ D = 1..Len(ops)
  BY Indices
<1>3. PICK h : Folding(EffectStep, rows, ops, D, h) /\ Fold(EffectStep, rows, ops) = h[D]
  BY FoldingChosen
<1>4. \A s \in SUBSET D : h[s] \in Tables
  <2>1. rows \in Tables
    OBVIOUS
  <2>2. \A r \in Tables : \A o \in Operations : EffectStep[<<r, o>>] \in Tables
    BY EffectType
  <2> HIDE DEF D
  <2>3. QED
    BY <1>3, <2>1, <2>2, FoldingIn DEF D
<1>5. ASSUME NEW s \in SUBSET D
      PROVE  h[s] = IF s = {} THEN rows ELSE Effect(h[s \ {Max(s)}], ops[Max(s)])
  <2>1. CASE s = {}
    BY <1>3, <2>1 DEF Folding
  <2>2. CASE s # {}
    <3>1. Max(s) \in s
      <4>1. IsFiniteSet(s) /\ s \in SUBSET Nat
        BY <1>2, FS_Subset
      <4>2. QED
        BY <2>2, <4>1, MaxIn
    <3>2. ops[Max(s)] \in Operations /\ h[s \ {Max(s)}] \in Tables
      BY <1>2, <1>4, <3>1
    <3>3. h[s] = EffectStep[<<h[s \ {Max(s)}], ops[Max(s)]>>]
      BY <1>3, <2>2 DEF Folding
    <3>4. QED
      BY <2>2, <3>2, <3>3, EffectType
  <2>3. QED
    BY <2>1, <2>2
<1>6. Steps(h)
  <2>1. h = [s \in SUBSET D |-> h[s]]
    BY <1>3 DEF Folding
  <2> HIDE DEF D
  <2>2. QED
    BY <1>5, <2>1
<1>7. Steps(f)
  <2> HIDE DEF Steps
  <2>1. QED
    BY <1>6
<1>8. f[{}] = h[{}]
  BY <1>6, <1>7
<1>9. \A s \in SUBSET D : s # {} /\ f[s \ {Max(s)}] = h[s \ {Max(s)}] => f[s] = h[s]
  BY <1>6, <1>7
<1>10. f[D] = h[D]
  <2> HIDE DEF f, D
  <2>1. QED
    BY <1>2, <1>8, <1>9, FoldUnique
<1>11. QED
  BY <1>1, <1>3, <1>10

\* since_epoch is the fold of its filter.
LEMMA SinceIsFold ==
  ASSUME NEW epoch \in Nat, NEW l, l.entries \in Seq(Epochs)
  PROVE  Since(l, epoch) = Fold(SelectStep(epoch), <<>>, l.entries)
<1> DEFINE D == DOMAIN l.entries
           Steps(g) == g = [s \in SUBSET D |-> IF s = {} THEN <<>>
                                               ELSE Select(epoch, g[s \ {Max(s)}], l.entries[Max(s)])]
           f == CHOOSE g : Steps(g)
<1>1. Since(l, epoch) = f[D]
  BY DEF Since, Select, FoldLeft, MapThenFoldSet
<1>2. D \in SUBSET Nat /\ IsFiniteSet(D) /\ D = 1..Len(l.entries)
  BY Indices
<1>3. PICK h : Folding(SelectStep(epoch), <<>>, l.entries, D, h) /\ Fold(SelectStep(epoch), <<>>, l.entries) = h[D]
  BY FoldingChosen
<1>4. \A s \in SUBSET D : h[s] \in Seq(Epochs)
  <2>1. <<>> \in Seq(Epochs)
    OBVIOUS
  <2>2. \A r \in Seq(Epochs) : \A o \in Epochs : SelectStep(epoch)[<<r, o>>] \in Seq(Epochs)
    BY SelectType
  <2> HIDE DEF D
  <2>3. QED
    BY <1>3, <2>1, <2>2, FoldingIn DEF D
<1>5. ASSUME NEW s \in SUBSET D
      PROVE  h[s] = IF s = {} THEN <<>> ELSE Select(epoch, h[s \ {Max(s)}], l.entries[Max(s)])
  <2>1. CASE s = {}
    BY <1>3, <2>1 DEF Folding
  <2>2. CASE s # {}
    <3>1. Max(s) \in s
      <4>1. IsFiniteSet(s) /\ s \in SUBSET Nat
        BY <1>2, FS_Subset
      <4>2. QED
        BY <2>2, <4>1, MaxIn
    <3>2. l.entries[Max(s)] \in Epochs /\ h[s \ {Max(s)}] \in Seq(Epochs)
      BY <1>2, <1>4, <3>1
    <3>3. h[s] = SelectStep(epoch)[<<h[s \ {Max(s)}], l.entries[Max(s)]>>]
      BY <1>3, <2>2 DEF Folding
    <3>4. QED
      BY <2>2, <3>2, <3>3, SelectType
  <2>3. QED
    BY <2>1, <2>2
<1>6. Steps(h)
  <2>1. h = [s \in SUBSET D |-> h[s]]
    BY <1>3 DEF Folding
  <2> HIDE DEF D
  <2>2. QED
    BY <1>5, <2>1
<1>7. Steps(f)
  <2> HIDE DEF Steps
  <2>1. QED
    BY <1>6
<1>8. f[{}] = h[{}]
  BY <1>6, <1>7
<1>9. \A s \in SUBSET D : s # {} /\ f[s \ {Max(s)}] = h[s \ {Max(s)}] => f[s] = h[s]
  BY <1>6, <1>7
<1>10. f[D] = h[D]
  <2> HIDE DEF f, D
  <2>1. QED
    BY <1>2, <1>8, <1>9, FoldUnique
<1>11. QED
  BY <1>1, <1>3, <1>10

\* What a client sums up is a fold.
LEMMA SumIsFold ==
  ASSUME NEW acc \in Weights, NEW seq \in Seq(Epochs)
  PROVE  FoldLeft(LAMBDA a, e : Plus(a, e.delta), acc, seq) = Fold(PlusStep, acc, seq)
<1> DEFINE D == DOMAIN seq
           Steps(g) == g = [s \in SUBSET D |-> IF s = {} THEN acc
                                               ELSE Plus(g[s \ {Max(s)}], seq[Max(s)].delta)]
           f == CHOOSE g : Steps(g)
<1>1. FoldLeft(LAMBDA a, e : Plus(a, e.delta), acc, seq) = f[D]
  BY DEF PlusStep, FoldLeft, MapThenFoldSet
<1>2. D \in SUBSET Nat /\ IsFiniteSet(D) /\ D = 1..Len(seq)
  BY Indices
<1>3. PICK h : Folding(PlusStep, acc, seq, D, h) /\ Fold(PlusStep, acc, seq) = h[D]
  BY FoldingChosen
<1>4. \A s \in SUBSET D : h[s] \in Weights
  <2>1. acc \in Weights
    OBVIOUS
  <2>2. \A r \in Weights : \A o \in Epochs : PlusStep[<<r, o>>] \in Weights
    BY PlusStepType
  <2> HIDE DEF D
  <2>3. QED
    BY <1>3, <2>1, <2>2, FoldingIn DEF D
<1>5. ASSUME NEW s \in SUBSET D
      PROVE  h[s] = IF s = {} THEN acc ELSE Plus(h[s \ {Max(s)}], seq[Max(s)].delta)
  <2>1. CASE s = {}
    BY <1>3, <2>1 DEF Folding
  <2>2. CASE s # {}
    <3>1. Max(s) \in s
      <4>1. IsFiniteSet(s) /\ s \in SUBSET Nat
        BY <1>2, FS_Subset
      <4>2. QED
        BY <2>2, <4>1, MaxIn
    <3>2. seq[Max(s)] \in Epochs /\ h[s \ {Max(s)}] \in Weights
      BY <1>2, <1>4, <3>1
    <3>3. h[s] = PlusStep[<<h[s \ {Max(s)}], seq[Max(s)]>>]
      BY <1>3, <2>2 DEF Folding
    <3>4. QED
      BY <2>2, <3>2, <3>3, PlusStepType
  <2>3. QED
    BY <2>1, <2>2
<1>6. Steps(h)
  <2>1. h = [s \in SUBSET D |-> h[s]]
    BY <1>3 DEF Folding
  <2> HIDE DEF D
  <2>2. QED
    BY <1>5, <2>1
<1>7. Steps(f)
  <2> HIDE DEF Steps
  <2>1. QED
    BY <1>6
<1>8. f[{}] = h[{}]
  BY <1>6, <1>7
<1>9. \A s \in SUBSET D : s # {} /\ f[s \ {Max(s)}] = h[s \ {Max(s)}] => f[s] = h[s]
  BY <1>6, <1>7
<1>10. f[D] = h[D]
  <2> HIDE DEF f, D
  <2>1. QED
    BY <1>2, <1>8, <1>9, FoldUnique
<1>11. QED
  BY <1>1, <1>3, <1>10

-----------------------------------------------------------------------------
(* Rows, changes and weights *)

One(b) == IF b THEN 1 ELSE 0

\* Splitting an element off a finite set.
LEMMA CountOne ==
  ASSUME NEW A, IsFiniteSet(A), NEW x
  PROVE  /\ Cardinality(A) \in Nat /\ Cardinality(A \ {x}) \in Nat /\ IsFiniteSet(A \ {x})
         /\ Cardinality(A) = Cardinality(A \ {x}) + One(x \in A)
<1>1. IsFiniteSet(A \ {x}) /\ Cardinality(A) \in Nat /\ Cardinality(A \ {x}) \in Nat
  BY FS_Subset, FS_CardinalityType
<1>2. CASE x \in A
  <2>1. Cardinality(A \ {x}) = Cardinality(A) - 1
    BY <1>2, FS_RemoveElement
  <2>2. QED
    BY <1>1, <1>2, <2>1 DEF One
<1>3. CASE x \notin A
  <2>1. A \ {x} = A
    BY <1>3
  <2>2. Cardinality(A \ {x}) = Cardinality(A) /\ One(x \in A) = 0
    BY <1>3, <2>1 DEF One
  <2>3. QED
    BY <1>1, <2>2
<1>4. QED
  BY <1>2, <1>3

\* The rows of a value are some of the rows of the table.
LEMMA RowsOfValue ==
  ASSUME NEW rows \in Tables, IsFiniteSet(Filled(rows)), NEW v \in Vals
  PROVE  /\ IsFiniteSet({k \in RowKeys : rows[k] = v})
         /\ Counts(rows)[v] = Cardinality({k \in RowKeys : rows[k] = v})
         /\ Counts(rows)[v] \in Nat
<1>1. v # NoRow
  BY RowsAssumption DEF NoRow
<1>2. {k \in RowKeys : rows[k] = v} \in SUBSET Filled(rows)
  BY <1>1 DEF Filled
<1>3. IsFiniteSet({k \in RowKeys : rows[k] = v})
  BY <1>2, FS_Subset
<1>4. Counts(rows)[v] = Cardinality({k \in RowKeys : rows[k] = v})
  BY DEF Counts
<1>5. QED
  BY <1>3, <1>4, FS_CardinalityType

\* The table as a Z-set has weights.
LEMMA CountsType ==
  ASSUME NEW rows \in Tables, IsFiniteSet(Filled(rows))
  PROVE  Counts(rows) \in Weights /\ \A v \in Vals : Counts(rows)[v] \in Nat
<1>1. \A v \in Vals : Counts(rows)[v] \in Nat
  BY RowsOfValue
<1>2. Counts(rows) = [v \in Vals |-> Counts(rows)[v]]
  BY DEF Counts
<1>3. QED
  BY <1>1, <1>2 DEF Weights

\* An operation fills one place at most.
LEMMA EffectFills ==
  ASSUME NEW rows \in Tables, IsFiniteSet(Filled(rows)), NEW op \in Operations
  PROVE  IsFiniteSet(Filled(Effect(rows, op)))
<1>1. Filled(Effect(rows, op)) \in SUBSET (Filled(rows) \cup {op.to})
  BY DEF Filled, Effect, Tables
<1>2. IsFiniteSet(Filled(rows) \cup {op.to})
  BY FS_AddElement
<1>3. QED
  BY <1>1, <1>2, FS_Subset

\* An operation that takes no other row's place changes the table by what it
\* says.
LEMMA EffectCounts ==
  ASSUME NEW rows \in Tables, IsFiniteSet(Filled(rows)), NEW op \in Operations,
         Valid(rows, op), op.to = op.key \/ rows[op.to] = NoRow, NEW v \in Vals
  PROVE  Counts(Effect(rows, op))[v] = Counts(rows)[v] + One(op.new = v) - One(op.old = v)
<1> DEFINE R == {k \in RowKeys : rows[k] = v}
           S == {k \in RowKeys : Effect(rows, op)[k] = v}
<1>1. op.key \in RowKeys /\ op.to \in RowKeys
  BY DEF Operations
<1>2. v # NoRow
  BY RowsAssumption DEF NoRow
<1>3. \A k \in RowKeys : Effect(rows, op)[k] = IF k = op.to THEN op.new
                                               ELSE IF k = op.key THEN NoRow ELSE rows[k]
  BY <1>1 DEF Effect, Tables
<1>4. S \ {op.to} = R \ {op.key}
  BY <1>1, <1>2, <1>3
<1>5. op.to \in S <=> op.new = v
  BY <1>1, <1>3
<1>6. op.key \in R <=> op.old = v
  BY <1>1 DEF Valid
<1>7. IsFiniteSet(R) /\ Counts(rows)[v] = Cardinality(R)
  BY RowsOfValue
<1>8. IsFiniteSet(S) /\ Counts(Effect(rows, op))[v] = Cardinality(S)
  BY EffectType, EffectFills, RowsOfValue
<1> HIDE DEF R, S
<1>9. /\ Cardinality(R) = Cardinality(R \ {op.key}) + One(op.key \in R)
      /\ Cardinality(R \ {op.key}) \in Nat
  BY <1>7, CountOne
<1>10. Cardinality(S) = Cardinality(S \ {op.to}) + One(op.to \in S)
  BY <1>8, CountOne
<1>11. Cardinality(S) = Cardinality(R \ {op.key}) + One(op.new = v)
  BY <1>4, <1>5, <1>10 DEF One
<1>12. Cardinality(R) = Cardinality(R \ {op.key}) + One(op.old = v)
  BY <1>6, <1>9 DEF One
<1>13. QED
  BY <1>7, <1>8, <1>9, <1>11, <1>12 DEF One

\* The changes of an epoch are weights.
LEMMA DeltaType ==
  ASSUME NEW ops \in Seq(Operations)
  PROVE  Delta(ops) \in Weights
<1>1. DOMAIN ops = 1..Len(ops) /\ IsFiniteSet(DOMAIN ops)
  BY Indices
<1>2. ASSUME NEW v \in Vals
      PROVE  /\ Cardinality({i \in DOMAIN ops : ops[i].new = v}) \in Nat
             /\ Cardinality({i \in DOMAIN ops : ops[i].old = v}) \in Nat
  <2>1. /\ IsFiniteSet({i \in DOMAIN ops : ops[i].new = v})
        /\ IsFiniteSet({i \in DOMAIN ops : ops[i].old = v})
    BY <1>1, FS_Subset
  <2>2. QED
    BY <2>1, FS_CardinalityType
<1>3. QED
  BY <1>2 DEF Delta, Weights

\* One more operation changes the weights by what it says.
LEMMA DeltaAppend ==
  ASSUME NEW ops \in Seq(Operations), NEW op \in Operations, NEW v \in Vals
  PROVE  Delta(Append(ops, op))[v] = Delta(ops)[v] + One(op.new = v) - One(op.old = v)
<1> DEFINE sec == Append(ops, op)
           n == Len(ops) + 1
           N == {i \in DOMAIN ops : ops[i].new = v}
           O == {i \in DOMAIN ops : ops[i].old = v}
           NN == {i \in DOMAIN sec : sec[i].new = v}
           OO == {i \in DOMAIN sec : sec[i].old = v}
<1>1. sec \in Seq(Operations) /\ Len(sec) = n /\ sec[n] = op /\ \A i \in 1..Len(ops) : sec[i] = ops[i]
  OBVIOUS
<1>2. Delta(sec)[v] = Cardinality(NN) - Cardinality(OO) /\ Delta(ops)[v] = Cardinality(N) - Cardinality(O)
  BY DEF Delta
<1> HIDE DEF sec
<1>3. DOMAIN sec = 1..n /\ DOMAIN ops = 1..Len(ops) /\ Len(ops) \in Nat
  BY <1>1
<1>4. IsFiniteSet(DOMAIN sec) /\ IsFiniteSet(DOMAIN ops)
  BY <1>1, Indices
<1>5. NN \ {n} = N /\ OO \ {n} = O /\ (n \in NN <=> op.new = v) /\ (n \in OO <=> op.old = v)
  BY <1>1, <1>3
<1>6. IsFiniteSet(NN) /\ IsFiniteSet(OO)
  BY <1>4, FS_Subset
<1> HIDE DEF N, O, NN, OO, n
<1>7. Cardinality(NN) = Cardinality(N) + One(op.new = v) /\ Cardinality(N) \in Nat
  <2>1. Cardinality(NN) = Cardinality(NN \ {n}) + One(n \in NN) /\ Cardinality(NN \ {n}) \in Nat
    BY <1>6, CountOne
  <2>2. QED
    BY <1>5, <2>1 DEF One
<1>8. Cardinality(OO) = Cardinality(O) + One(op.old = v) /\ Cardinality(O) \in Nat
  <2>1. Cardinality(OO) = Cardinality(OO \ {n}) + One(n \in OO) /\ Cardinality(OO \ {n}) \in Nat
    BY <1>6, CountOne
  <2>2. QED
    BY <1>5, <2>1 DEF One
<1>9. QED
  BY <1>2, <1>7, <1>8 DEF One, sec

\* The weights of no operations.
LEMMA DeltaEmpty == ASSUME NEW v \in Vals PROVE Delta(<<>>)[v] = 0
<1>1. {i \in DOMAIN <<>> : <<>>[i].new = v} = {} /\ {i \in DOMAIN <<>> : <<>>[i].old = v} = {}
  OBVIOUS
<1>2. Delta(<<>>)[v] = Cardinality({}) - Cardinality({})
  BY <1>1 DEF Delta
<1>3. QED
  BY <1>2, FS_EmptySet

\* What a COMMIT keeps of its operations: a table, and unless a moved row took
\* the place of another, the change of the table is the one that is published.
LEMMA CommittedFacts ==
  ASSUME NEW rows \in Tables, IsFiniteSet(Filled(rows)), NEW ops \in Seq(Operations)
  PROVE  /\ Committed(rows, ops) \in Keeping
         /\ IsFiniteSet(Filled(Committed(rows, ops).rows))
         /\ ~Committed(rows, ops).over =>
               Counts(Committed(rows, ops).rows) = Plus(Counts(rows), Delta(Committed(rows, ops).ops))
<1> DEFINE Balanced(r) == \A v \in Vals : Counts(r.rows)[v] = Counts(rows)[v] + Delta(r.ops)[v]
           I == {r \in Keeping : IsFiniteSet(Filled(r.rows)) /\ (~r.over => Balanced(r))}
<1>1. Unchecked(rows) \in I
  <2>1. Unchecked(rows) \in Keeping /\ Unchecked(rows).rows = rows /\ Unchecked(rows).ops = <<>>
    BY DEF Unchecked, Keeping
  <2>2. \A v \in Vals : Counts(rows)[v] \in Nat
    BY CountsType
  <2>3. Balanced(Unchecked(rows))
    BY <2>1, <2>2, DeltaEmpty
  <2>4. QED
    BY <2>1, <2>3
<1>2. ASSUME NEW r \in I, NEW op \in Operations PROVE KeepStep[<<r, op>>] \in I
  <2>1. r \in Keeping /\ IsFiniteSet(Filled(r.rows)) /\ r.rows \in Tables /\ r.ops \in Seq(Operations)
    BY DEF Keeping
  <2>2. KeepStep[<<r, op>>] = Keep(r, op) /\ Keep(r, op) \in Keeping
    BY <2>1, KeepType
  <2>3. CASE ~Valid(r.rows, op)
    BY <2>2, <2>3 DEF Keep
  <2>4. CASE Valid(r.rows, op)
    <3>1. /\ Keep(r, op).rows = Effect(r.rows, op) /\ Keep(r, op).ops = Append(r.ops, op)
          /\ Keep(r, op).over = (r.over \/ (op.to # op.key /\ r.rows[op.to] # NoRow))
      BY <2>4 DEF Keep
    <3>2. IsFiniteSet(Filled(Keep(r, op).rows))
      <4>1. IsFiniteSet(Filled(Effect(r.rows, op)))
        BY <2>1, EffectFills
      <4>2. QED
        BY <3>1, <4>1
    <3>3. ASSUME ~Keep(r, op).over PROVE Balanced(Keep(r, op))
      <4>1. ~r.over /\ (op.to = op.key \/ r.rows[op.to] = NoRow)
        BY <3>1, <3>3
      <4>2. Balanced(r)
        BY <4>1
      <4>3. ASSUME NEW v \in Vals
            PROVE  Counts(Keep(r, op).rows)[v] = Counts(rows)[v] + Delta(Keep(r, op).ops)[v]
        <5>1. Counts(Effect(r.rows, op))[v] = Counts(r.rows)[v] + One(op.new = v) - One(op.old = v)
          BY <2>1, <2>4, <4>1, EffectCounts
        <5>2. Delta(Append(r.ops, op))[v] = Delta(r.ops)[v] + One(op.new = v) - One(op.old = v)
          BY <2>1, DeltaAppend
        <5>3. Counts(rows)[v] \in Nat /\ Delta(r.ops)[v] \in Int
          <6>1. Delta(r.ops) \in Weights
            BY <2>1, DeltaType
          <6>2. Counts(rows)[v] \in Nat
            BY CountsType
          <6>3. QED
            BY <6>1, <6>2 DEF Weights
        <5>4. One(op.new = v) \in Int /\ One(op.old = v) \in Int
          BY DEF One
        <5>5. Counts(r.rows)[v] = Counts(rows)[v] + Delta(r.ops)[v]
          BY <4>2
        <5>6. QED
          BY <3>1, <5>1, <5>2, <5>3, <5>4, <5>5
      <4>4. QED
        BY <4>3
    <3>4. QED
      BY <2>2, <3>2, <3>3
  <2>5. QED
    BY <2>3, <2>4
<1>3. Fold(KeepStep, Unchecked(rows), ops) \in I
  <2> HIDE DEF I
  <2>1. QED
    BY <1>1, <1>2, FoldIn
<1>4. Committed(rows, ops) \in I
  BY <1>3, CommittedIsFold
<1>5. ASSUME Balanced(Committed(rows, ops))
      PROVE  Counts(Committed(rows, ops).rows) = Plus(Counts(rows), Delta(Committed(rows, ops).ops))
  <2>1. Counts(Committed(rows, ops).rows) = [v \in Vals |-> Counts(Committed(rows, ops).rows)[v]]
    BY DEF Counts
  <2>2. QED
    BY <1>5, <2>1 DEF Plus
<1>6. QED
  BY <1>4, <1>5

\* The session sees a table.
LEMMA ImageType ==
  ASSUME NEW rows \in Tables, NEW ops \in Seq(Operations)
  PROVE  FoldLeft(Effect, rows, ops) \in Tables
<1>1. \A r \in Tables : \A o \in Operations : EffectStep[<<r, o>>] \in Tables
  BY EffectType
<1>2. Fold(EffectStep, rows, ops) \in Tables
  BY <1>1, FoldIn
<1>3. QED
  BY <1>2, EffectsAreFold

-----------------------------------------------------------------------------
(* Typing *)

\* A step of a session that is not at the lock: nothing but its own state.
Statement(c) ==
    /\ ~Pushed(c)
    /\ \E r \in Sessions : r.pc \in {"idle", "commit"} /\ conn' = [conn EXCEPT ![c] = r]
    /\ UNCHANGED <<store, durable, view, arr, pending, epochs, queue, hist, log, sub>>

\* The fields of a session.
LEMMA SessionFields ==
  ASSUME NEW r \in Sessions
  PROVE  /\ r.blk \in {"idle", "open", "failed"} /\ r.buf \in Seq(Operations) /\ r.key \in Keys
         /\ r.pc \in {"idle", "commit", "queued", "writing", "flush"} /\ r.ops \in Seq(Operations)
         /\ r.pub \in Epochs /\ r.lost \in BOOLEAN
         /\ r = [blk |-> r.blk, buf |-> r.buf, key |-> r.key, pc |-> r.pc, ops |-> r.ops,
                 pub |-> r.pub, lost |-> r.lost]
  BY DEF Sessions

\* A new session, and the epoch of one that publishes nothing.
LEMMA FreshType == FreshConn \in Sessions /\ FreshConn.pub \in Epochs /\ Zero \in Weights
<1>1. Zero \in Weights
  BY DEF Zero, Weights
<1>2. <<>> \in Seq(Operations) /\ NoKey \in Keys
  BY DEF Keys
<1>3. [epoch |-> 0, delta |-> Zero, size |-> 0] \in Epochs
  BY <1>1 DEF Epochs
<1>4. QED
  BY <1>1, <1>2, <1>3 DEF FreshConn, Sessions

\* A session that was answered or refused.
LEMMA AnswerTypes ==
  ASSUME NEW c \in Conns, conn[c] \in Sessions
  PROVE  /\ Answered(c) \in Sessions /\ Answered(c).pc = "idle" /\ Answered(c).key = conn[c].key
         /\ Refused(c) \in Sessions /\ Refused(c).pc = "idle" /\ Refused(c).key = conn[c].key
<1>1. PICK r \in Sessions : r = conn[c]
  OBVIOUS
<1>2. <<>> \in Seq(Operations) /\ FreshConn.pub \in Epochs
  BY FreshType
<1>3. QED
  BY <1>1, <1>2, SessionFields DEF Answered, Refused, Sessions

\* Buffering an operation is a statement.
LEMMA BufferIsStatement ==
  ASSUME TypeOK, NEW c \in Conns, NEW op \in Operations, Buffer(c, op)
  PROVE  Statement(c)
<1>1. PICK r \in Sessions : r = conn[c]
  BY DEF TypeOK
<1> DEFINE q == [r EXCEPT !.buf = Append(@, op),
                          !.pc = IF r.blk = "open" THEN "idle" ELSE "commit"]
<1>2. Append(r.buf, op) \in Seq(Operations)
  BY SessionFields
<1>3. q \in Sessions /\ q.pc \in {"idle", "commit"}
  BY <1>2, SessionFields DEF Sessions
<1>4. conn' = [conn EXCEPT ![c] = q]
  BY <1>1 DEF Buffer, TypeOK
<1>5. ~Pushed(c)
  BY DEF Buffer, Ready, Dispatched, Pushed
<1> HIDE DEF q
<1>6. QED
  BY <1>3, <1>4, <1>5 DEF Statement, Buffer

\* The operations of the statements are typed.
LEMMA DmlIsStatement ==
  ASSUME TypeOK, NEW c \in Conns, NEW k \in RowKeys, NEW to \in RowKeys, NEW v \in Vals,
         Insert(c, k, v) \/ Update(c, k, to, v) \/ Delete(c, k)
  PROVE  Statement(c)
<1>1. store.rows \in Tables /\ conn[c].buf \in Seq(Operations)
  BY SessionFields DEF TypeOK, Stores
<1>2. Image(c) \in Tables
  BY <1>1, ImageType DEF Image
<1>3. Image(c)[k] \in Images /\ v \in Images /\ NoRow \in Images
  BY <1>2 DEF Tables, Images
<1>4. CASE Insert(c, k, v)
  <2>1. [key |-> k, old |-> NoRow, to |-> k, new |-> v] \in Operations
    BY <1>3 DEF Operations
  <2>2. QED
    BY <1>4, <2>1, BufferIsStatement DEF Insert
<1>5. CASE Update(c, k, to, v)
  <2>1. [key |-> k, old |-> Image(c)[k], to |-> to, new |-> v] \in Operations
    BY <1>3 DEF Operations
  <2>2. QED
    BY <1>5, <2>1, BufferIsStatement DEF Update
<1>6. CASE Delete(c, k)
  <2>1. [key |-> k, old |-> Image(c)[k], to |-> k, new |-> NoRow] \in Operations
    BY <1>3 DEF Operations
  <2>2. QED
    BY <1>6, <2>1, BufferIsStatement DEF Delete
<1>7. QED
  BY <1>4, <1>5, <1>6

\* So are the other steps of a session before the lock.
LEMMA SessionIsStatement ==
  ASSUME TypeOK, NEW c \in Conns, NEW k \in Keys,
         \/ Begin(c) \/ StatementFails(c) \/ Rollback(c) \/ SetIdempotencyKey(c, k)
         \/ KeyUnreadable(c)
  PROVE  Statement(c)
<1>1. PICK r \in Sessions : r = conn[c]
  BY DEF TypeOK
<1>2. conn \in [Conns -> Sessions] /\ <<>> \in Seq(Operations)
  BY DEF TypeOK
<1>3. ASSUME ~Pushed(c), NEW q \in Sessions, q.pc \in {"idle", "commit"}, conn' = [conn EXCEPT ![c] = q],
             UNCHANGED <<store, durable, view, arr, pending, epochs, queue, hist, log, sub>>
      PROVE  Statement(c)
  BY <1>3 DEF Statement
<1>4. CASE Begin(c)
  <2> DEFINE q == [r EXCEPT !.blk = "open"]
  <2>1. q \in Sessions /\ q.pc = "idle" /\ ~Pushed(c)
    BY <1>1, <1>4, SessionFields DEF Sessions, Begin, Ready, Dispatched, Pushed
  <2>2. conn' = [conn EXCEPT ![c] = q]
    BY <1>1, <1>2, <1>4 DEF Begin
  <2> HIDE DEF q
  <2>3. QED
    BY <1>3, <1>4, <2>1, <2>2 DEF Begin
<1>5. CASE StatementFails(c)
  <2> DEFINE q == [r EXCEPT !.blk = "failed"]
  <2>1. q \in Sessions /\ q.pc = "idle" /\ ~Pushed(c)
    BY <1>1, <1>5, SessionFields DEF Sessions, StatementFails, Ready, Dispatched, Pushed
  <2>2. conn' = [conn EXCEPT ![c] = q]
    BY <1>1, <1>2, <1>5 DEF StatementFails
  <2> HIDE DEF q
  <2>3. QED
    BY <1>3, <1>5, <2>1, <2>2 DEF StatementFails
<1>6. CASE Rollback(c)
  <2> DEFINE q == [r EXCEPT !.blk = "idle", !.buf = <<>>, !.lost = FALSE]
  <2>1. q \in Sessions /\ q.pc = "idle" /\ ~Pushed(c)
    BY <1>1, <1>2, <1>6, SessionFields DEF Sessions, Rollback, Dispatched, Pushed
  <2>2. conn' = [conn EXCEPT ![c] = q]
    BY <1>1, <1>2, <1>6 DEF Rollback
  <2> HIDE DEF q
  <2>3. QED
    BY <1>3, <1>6, <2>1, <2>2 DEF Rollback
<1>7. CASE SetIdempotencyKey(c, k)
  <2> DEFINE q == [r EXCEPT !.key = k]
  <2>1. q \in Sessions /\ q.pc = "idle" /\ ~Pushed(c)
    BY <1>1, <1>7, SessionFields DEF Sessions, SetIdempotencyKey, Ready, Dispatched, Pushed
  <2>2. conn' = [conn EXCEPT ![c] = q]
    BY <1>1, <1>2, <1>7 DEF SetIdempotencyKey
  <2> HIDE DEF q
  <2>3. QED
    BY <1>3, <1>7, <2>1, <2>2 DEF SetIdempotencyKey
<1>8. CASE KeyUnreadable(c)
  <2> DEFINE q == [r EXCEPT !.pc = "idle"]
  <2>1. q \in Sessions /\ q.pc = "idle" /\ ~Pushed(c)
    BY <1>1, <1>8, SessionFields DEF Sessions, KeyUnreadable, Committing, Ready, Dispatched, Pushed
  <2>2. conn' = [conn EXCEPT ![c] = q]
    BY <1>1, <1>2, <1>8 DEF KeyUnreadable
  <2> HIDE DEF q
  <2>3. QED
    BY <1>3, <1>8, <2>1, <2>2 DEF KeyUnreadable
<1>9. QED
  BY <1>4, <1>5, <1>6, <1>7, <1>8

\* The kinds of steps there are.
LEMMA StepKinds ==
  ASSUME TypeOK, [Next]_vars
  PROVE  \/ UNCHANGED vars
         \/ \E c \in Conns :
              \/ Statement(c) \/ CommitEmpty(c) \/ CommitReplayed(c) \/ Enqueue(c)
              \/ RecoveryFails(c) \/ RowsUnreadable(c) \/ CommitNothing(c)
              \/ WriteFails(c) \/ WriteVisible(c) \/ WriteDurable(c) \/ AwaitFails(c)
              \/ FlushSucceeds(c) \/ FlushFails(c)
         \/ WalFlush \/ EnsureViewConsistency \/ CreateView \/ Populate \/ PersistView \/ PopulateFails
         \/ DropView \/ Subscribe \/ Restart
         \/ Follow /\ UNCHANGED <<gatewayVars, hist>>
<1>1. ASSUME NEW c \in Conns, NEW k \in Keys,
             \/ Begin(c) \/ StatementFails(c) \/ Rollback(c) \/ SetIdempotencyKey(c, k)
             \/ KeyUnreadable(c)
      PROVE  Statement(c)
  BY <1>1, SessionIsStatement
<1>2. \A c \in Conns : \A k \in RowKeys : \A to \in RowKeys : \A v \in Vals :
         Insert(c, k, v) \/ Update(c, k, to, v) => Statement(c)
  BY DmlIsStatement
<1>3. ASSUME NEW c \in Conns, NEW k \in RowKeys, Delete(c, k) PROVE Statement(c)
  <2>1. conn[c] \in Sessions /\ store.rows \in Tables
    BY DEF TypeOK, Stores
  <2>2. Image(c) \in Tables
    BY <2>1, SessionFields, ImageType DEF Image
  <2>3. [key |-> k, old |-> Image(c)[k], to |-> k, new |-> NoRow] \in Operations
    BY <2>2 DEF Operations, Tables, Images
  <2>4. QED
    BY <1>3, <2>3, BufferIsStatement DEF Delete
<1>4. NoKey \in Keys
  BY DEF Keys
<1>5. CASE UNCHANGED vars
  BY <1>5
<1>6. CASE Next
  <2> DEFINE Own(c) == \/ Begin(c) \/ StatementFails(c) \/ Rollback(c)
                       \/ \E k \in IdemKeys \cup {NoKey} : SetIdempotencyKey(c, k)
                       \/ KeyUnreadable(c)
             Dml(c) == \E k \in RowKeys :
                          \/ Delete(c, k)
                          \/ \E v \in Vals : Insert(c, k, v) \/ \E to \in RowKeys : Update(c, k, to, v)
             Locked(c) == \/ CommitEmpty(c) \/ CommitReplayed(c) \/ Enqueue(c)
                          \/ RecoveryFails(c) \/ RowsUnreadable(c) \/ CommitNothing(c)
                          \/ WriteFails(c) \/ WriteVisible(c) \/ WriteDurable(c) \/ AwaitFails(c)
                          \/ FlushSucceeds(c) \/ FlushFails(c)
             Others == \/ WalFlush \/ EnsureViewConsistency \/ CreateView \/ Populate \/ PersistView
                       \/ PopulateFails \/ DropView \/ Subscribe \/ Restart
                       \/ Follow /\ UNCHANGED <<gatewayVars, hist>>
  <2>1. (\E c \in Conns : Own(c) \/ Dml(c) \/ Locked(c)) \/ Others
    BY <1>6 DEF Next
  <2>2. ASSUME NEW c \in Conns, Own(c) PROVE Statement(c)
    <3>1. CASE \E k \in Keys : SetIdempotencyKey(c, k)
      BY <1>1, <3>1
    <3>2. CASE \/ Begin(c) \/ StatementFails(c) \/ Rollback(c)
               \/ KeyUnreadable(c)
      BY <1>1, <1>4, <3>2
    <3>3. QED
      BY <2>2, <3>1, <3>2 DEF Keys
  <2>3. \A c \in Conns : Dml(c) => Statement(c)
    BY <1>2, <1>3
  <2>4. (\E c \in Conns : Statement(c) \/ Locked(c)) \/ Others
    <3> HIDE DEF Own, Dml, Locked, Others
    <3>1. QED
      BY <2>1, <2>2, <2>3
  <2>5. QED
    BY <2>4
<1>7. QED
  BY <1>5, <1>6

\* The weights of the operator, restored and processed.
LEMMA WeightTypes ==
  ASSUME TypeOK
  PROVE  /\ Recovered \in Weights /\ Restored \in Weights
         /\ \A f, g \in Weights : Crossing(f, g) \in Weights
         /\ \A e, f, g \in Weights : Persisted(e, f, g) \in Weights
<1>1. store.state \in Weights /\ arr \in Weights
  BY DEF TypeOK, Stores
<1>2. QED
  BY <1>1 DEF Recovered, Restored, Crossing, Persisted, Weights

\* What a COMMIT keeps, and the weights it leads to.
LEMMA KeptTypes ==
  ASSUME TypeOK, NEW c \in Conns
  PROVE  /\ Committed(store.rows, conn[c].ops).rows \in Tables
         /\ IsFiniteSet(Filled(Committed(store.rows, conn[c].ops).rows))
         /\ Committed(store.rows, conn[c].ops).ops \in Seq(Operations)
         /\ Committed(store.rows, conn[c].ops).over \in BOOLEAN
         /\ Delta(Committed(store.rows, conn[c].ops).ops) \in Weights
         /\ Processed(c) \in Weights
<1>1. store.rows \in Tables /\ IsFiniteSet(Filled(store.rows)) /\ conn[c] \in Sessions
  BY DEF TypeOK, Stores
<1>2. conn[c].ops \in Seq(Operations)
  BY <1>1, SessionFields
<1>3. Committed(store.rows, conn[c].ops) \in Keeping /\ IsFiniteSet(Filled(Committed(store.rows, conn[c].ops).rows))
  BY <1>1, <1>2, CommittedFacts
<1>4. Committed(store.rows, conn[c].ops).ops \in Seq(Operations)
  BY <1>3 DEF Keeping
<1>5. Delta(Committed(store.rows, conn[c].ops).ops) \in Weights
  BY <1>4, DeltaType
<1>6. Processed(c) \in Weights
  BY <1>5, WeightTypes, PlusType DEF Processed
<1>7. QED
  BY <1>3, <1>5, <1>6 DEF Keeping

\* The fields of a batch.
LEMMA BatchTypes ==
  ASSUME TypeOK, NEW c \in Conns
  PROVE  /\ Batch(c) \in Stores
         /\ IsFiniteSet(Filled(Batch(c).rows))
         /\ Batch(c).rows = Committed(store.rows, conn[c].ops).rows
         /\ Batch(c).idem = store.idem \cup ({conn[c].key} \ {NoKey})
         /\ Batch(c).epoch = epochs.alloc + 1
         /\ \A k \in IdemKeys :
               Batch(c).applied[k] = IF k = conn[c].key THEN store.applied[k] + 1 ELSE store.applied[k]
<1> DEFINE a == [k \in IdemKeys |-> store.applied[k] + IF k = conn[c].key THEN 1 ELSE 0]
<1>0. /\ a \in [IdemKeys -> Nat]
      /\ \A k \in IdemKeys : a[k] = IF k = conn[c].key THEN store.applied[k] + 1 ELSE store.applied[k]
  <2>1. store.applied \in [IdemKeys -> Nat]
    BY DEF TypeOK, Stores
  <2>2. QED
    BY <2>1
<1>1. store.out \in Weights /\ store.state \in Weights /\ store.idem \in SUBSET IdemKeys
  BY DEF TypeOK, Stores
<1>2. conn[c].key \in IdemKeys \cup {NoKey} /\ epochs.alloc + 1 \in Nat
  <2>1. conn[c] \in Sessions /\ epochs \in [last : Nat, alloc : Nat]
    BY DEF TypeOK
  <2>2. QED
    BY <2>1, SessionFields DEF Keys
<1>3. Crossing(Recovered, Processed(c)) \in Weights /\ Persisted(store.state, Recovered, Processed(c)) \in Weights
  BY <1>1, KeptTypes, WeightTypes
<1>4. Plus(store.out, Crossing(Recovered, Processed(c))) \in Weights
  BY <1>1, <1>3, PlusType
<1>5. /\ Committed(store.rows, conn[c].ops).rows \in Tables
      /\ IsFiniteSet(Filled(Committed(store.rows, conn[c].ops).rows))
  BY KeptTypes
<1>6. store.idem \cup ({conn[c].key} \ {NoKey}) \in SUBSET IdemKeys
  BY <1>1, <1>2
<1> HIDE DEF a
<1>7. Batch(c).applied = a
  BY DEF Batch, a
<1>8. QED
  BY <1>0, <1>1, <1>2, <1>3, <1>4, <1>5, <1>6, <1>7 DEF Batch, Stores

\* The size of an epoch.
LEMMA EntriesType ==
  ASSUME NEW ops \in Seq(Operations)
  PROVE  Entries(ops) \in Nat
<1>1. IsFiniteSet(DOMAIN ops)
  BY Indices
<1>2. IsFiniteSet({i \in DOMAIN ops : ops[i].new # NoRow}) /\ IsFiniteSet({i \in DOMAIN ops : ops[i].old # NoRow})
  BY <1>1, FS_Subset
<1>3. /\ Cardinality({i \in DOMAIN ops : ops[i].new # NoRow}) \in Nat
      /\ Cardinality({i \in DOMAIN ops : ops[i].old # NoRow}) \in Nat
  BY <1>2, FS_CardinalityType
<1>4. QED
  BY <1>3 DEF Entries

\* A sum over no entries.
LEMMA SizeEmpty == Size(<<>>) = 0
<1> DEFINE D == DOMAIN <<>>
           Steps(g) == g = [s \in SUBSET D |-> IF s = {} THEN 0 ELSE g[s \ {Max(s)}] + <<>>[Max(s)].size]
           f == CHOOSE g : Steps(g)
           h == [s \in SUBSET {} |-> 0]
<1>1. Size(<<>>) = f[D]
  BY DEF Size, FoldLeft, MapThenFoldSet
<1>2. D = {}
  OBVIOUS
<1>3. Steps(h)
  BY <1>2
<1>4. Steps(f)
  <2> HIDE DEF Steps, h
  <2>1. QED
    BY <1>3
<1>5. QED
  BY <1>1, <1>2, <1>4

\* Some oldest epochs are discarded: the rest is the end of the log.
LEMMA RetainedIsEnd ==
  ASSUME NEW entries \in Seq(Epochs), NEW size \in Nat, size <= LogLimit
  PROVE  \E k \in 0..Len(entries) : Retained(entries, size) = SubSeq(entries, k + 1, Len(entries))
<1> DEFINE fits == {i \in 1..(Len(entries) + 1) : Size(SubSeq(entries, i, Len(entries))) + size <= LogLimit}
<1>1. Len(entries) \in Nat
  OBVIOUS
<1>2. SubSeq(entries, Len(entries) + 1, Len(entries)) = <<>>
  BY <1>1
<1>3. Len(entries) + 1 \in fits
  <2>1. Size(SubSeq(entries, Len(entries) + 1, Len(entries))) = 0
    BY <1>2, SizeEmpty
  <2>2. 0 + size <= LogLimit /\ Len(entries) + 1 \in 1..(Len(entries) + 1)
    BY <1>1
  <2>3. QED
    BY <2>1, <2>2
<1>4. fits \in SUBSET Nat /\ fits \in SUBSET (1..(Len(entries) + 1))
  BY <1>1
<1>5. Min(fits) \in fits
  <2> HIDE DEF fits
  <2>1. IsFiniteSet(fits)
    <3>1. 1 \in Int /\ Len(entries) + 1 \in Int
      BY <1>1
    <3>2. IsFiniteSet(1..(Len(entries) + 1))
      BY <3>1, FS_Interval
    <3>3. QED
      BY <1>4, <3>2, FS_Subset
  <2>2. QED
    BY <1>3, <1>4, <2>1, MinIn
<1>6. Retained(entries, size) = SubSeq(entries, Min(fits), Len(entries))
  BY DEF Retained
<1> HIDE DEF fits
<1>7. Min(fits) \in 1..(Len(entries) + 1)
  BY <1>4, <1>5
<1>8. Min(fits) - 1 \in 0..Len(entries) /\ (Min(fits) - 1) + 1 = Min(fits)
  BY <1>1, <1>7
<1>9. QED
  BY <1>6, <1>8

\* What since_epoch returns: epochs of the log, none when all are older, and
\* otherwise ending with the last one that is not.
LEMMA SinceFacts ==
  ASSUME NEW l \in Logs, NEW epoch \in Nat
  PROVE  /\ Since(l, epoch) \in Seq(Epochs)
         /\ Since(l, epoch) = <<>> => \A i \in DOMAIN l.entries : l.entries[i].epoch < epoch
         /\ Since(l, epoch) # <<>> =>
               \E i \in DOMAIN l.entries :
                  /\ Since(l, epoch)[Len(Since(l, epoch))] = l.entries[i]
                  /\ l.entries[i].epoch >= epoch
                  /\ \A j \in DOMAIN l.entries : l.entries[j].epoch >= epoch => j <= i
<1> DEFINE ent == l.entries
           D == DOMAIN ent
<1>1. ent \in Seq(Epochs) /\ \A i \in D : ent[i] \in Epochs /\ ent[i].epoch \in Nat
  <2>1. ent \in Seq(Epochs)
    BY DEF Logs
  <2> HIDE DEF ent
  <2>2. \A i \in D : ent[i] \in Epochs
    BY <2>1
  <2>3. \A e \in Epochs : e.epoch \in Nat
    BY DEF Epochs
  <2>4. QED
    BY <2>1, <2>2, <2>3
<1>2. D \in SUBSET Nat /\ IsFiniteSet(D)
  BY <1>1, Indices
<1>3. Since(l, epoch) = Fold(SelectStep(epoch), <<>>, ent)
  BY <1>1, SinceIsFold
<1>4. PICK g : Folding(SelectStep(epoch), <<>>, ent, D, g) /\ Fold(SelectStep(epoch), <<>>, ent) = g[D]
  BY <1>1, FoldingChosen
<1> DEFINE Newest(s, q) == \E i \in s : /\ q[Len(q)] = ent[i] /\ ent[i].epoch >= epoch
                                        /\ \A j \in s : ent[j].epoch >= epoch => j <= i
           Good(s, q) == /\ q \in Seq(Epochs)
                         /\ q = <<>> => \A i \in s : ent[i].epoch < epoch
                         /\ q # <<>> => Newest(s, q)
           T == {s \in SUBSET D : Good(s, g[s])}
<1>5. {} \in T
  <2>1. g[{}] = <<>>
    BY <1>4 DEF Folding
  <2>2. Good({}, <<>>)
    OBVIOUS
  <2> HIDE DEF Good
  <2>3. QED
    BY <2>1, <2>2
<1>6. ASSUME NEW s \in SUBSET D, s # {}, s \ {Max(s)} \in T PROVE s \in T
  <2> DEFINE m == Max(s)
             q == g[s \ {m}]
  <2>1. m \in s /\ \A i \in s : i <= m
    <3>1. IsFiniteSet(s) /\ s \in SUBSET Nat
      BY <1>2, FS_Subset
    <3>2. QED
      BY <1>6, <3>1, MaxIn
  <2>2. Good(s \ {m}, q)
    BY <1>6
  <2>3. ent[m] \in Epochs /\ ent[m].epoch \in Nat
    BY <1>1, <2>1
  <2>4. g[s] = Select(epoch, q, ent[m])
    <3>1. g[s] = SelectStep(epoch)[<<q, ent[m]>>]
      BY <1>4, <1>6 DEF Folding
    <3>2. SelectStep(epoch)[<<q, ent[m]>>] = Select(epoch, q, ent[m])
      BY <2>2, <2>3, SelectType
    <3>3. QED
      BY <3>1, <3>2
  <2> HIDE DEF m, q
  <2>5. CASE ent[m].epoch >= epoch
    <3>1. g[s] = Append(q, ent[m])
      BY <2>4, <2>5 DEF Select
    <3>2. g[s] \in Seq(Epochs) /\ g[s] # <<>> /\ g[s][Len(g[s])] = ent[m]
      BY <2>2, <2>3, <3>1
    <3>3. Newest(s, g[s])
      BY <2>1, <2>5, <3>2
    <3>4. QED
      BY <3>2, <3>3
  <2>6. CASE ~(ent[m].epoch >= epoch)
    <3>1. g[s] = q
      BY <2>4, <2>6 DEF Select
    <3>2. CASE q = <<>>
      <4>1. \A i \in s : ent[i].epoch < epoch
        BY <2>2, <2>3, <2>6, <3>2
      <4>2. QED
        BY <2>2, <3>1, <3>2, <4>1
    <3>3. CASE q # <<>>
      <4>1. PICK i \in s \ {m} : /\ q[Len(q)] = ent[i] /\ ent[i].epoch >= epoch
                                 /\ \A j \in s \ {m} : ent[j].epoch >= epoch => j <= i
        BY <2>2, <3>3
      <4>2. \A j \in s : ent[j].epoch >= epoch => j <= i
        BY <2>6, <4>1
      <4>3. Newest(s, q)
        BY <4>1, <4>2
      <4>4. QED
        BY <2>2, <3>1, <3>3, <4>3
    <3>4. QED
      BY <3>2, <3>3
  <2>7. QED
    BY <2>5, <2>6
<1>7. T = SUBSET D
  <2>1. T \in SUBSET SUBSET D
    OBVIOUS
  <2> HIDE DEF T, D
  <2>2. QED
    BY <1>2, <1>5, <1>6, <2>1, FoldInduction
<1>8. Good(D, Since(l, epoch))
  <2>1. D \in T
    BY <1>7
  <2>2. QED
    BY <1>3, <1>4, <2>1
<1>9. QED
  BY <1>8

\* The last element of a sequence.
LEMMA LastOf ==
  ASSUME NEW S, NEW seq \in Seq(S), seq # <<>>
  PROVE  Last(seq) = seq[Len(seq)] /\ Last(seq) \in S
  BY DEF Last

\* What a client sums up to is a Z-set.
LEMMA SumType ==
  ASSUME NEW acc \in Weights, NEW seq \in Seq(Epochs)
  PROVE  FoldLeft(LAMBDA a, e : Plus(a, e.delta), acc, seq) \in Weights
<1>1. \A r \in Weights : \A o \in Epochs : PlusStep[<<r, o>>] \in Weights
  BY PlusStepType
<1>2. Fold(PlusStep, acc, seq) \in Weights
  BY <1>1, FoldIn
<1>3. QED
  BY <1>2, SumIsFold

\* poll, from a client that is not stale: nothing new, or up to the last of
\* the log; otherwise the client is turned away.
LEMMA PolledFacts ==
  ASSUME NEW l \in Logs, NEW s \in Clients
  PROVE  /\ Polled(l, s) \in Clients
         /\ \/ Polled(l, s) = NoSub
            \/ Polled(l, s) = s /\ s.last + 1 >= l.floor
            \/ /\ s.last + 1 >= l.floor /\ Since(l, s.last + 1) # <<>>
               /\ Polled(l, s) = [s EXCEPT !.acc = Summed(l, s),
                                           !.last = Last(Since(l, s.last + 1)).epoch]
<1>1. s.last \in Nat /\ s.last + 1 \in Nat /\ s.acc \in Weights /\ l.floor \in Nat
  BY DEF Clients, Logs
<1>2. Since(l, s.last + 1) \in Seq(Epochs)
  BY <1>1, SinceFacts
<1>3. Summed(l, s) \in Weights
  BY <1>1, <1>2, SumType DEF Summed
<1>4. NoSub \in Clients
  BY FreshType DEF NoSub, Clients
<1>5. CASE TooSlow(l, s.last)
  BY <1>4, <1>5 DEF Polled
<1>6. CASE ~TooSlow(l, s.last)
  <2>1. s.last + 1 >= l.floor
    BY <1>1, <1>6 DEF TooSlow
  <2>2. CASE Since(l, s.last + 1) = <<>>
    BY <1>6, <2>1, <2>2 DEF Polled
  <2>3. CASE Since(l, s.last + 1) # <<>>
    <3>1. Last(Since(l, s.last + 1)).epoch \in Nat
      <4>1. \A e \in Epochs : e.epoch \in Nat
        BY DEF Epochs
      <4>2. QED
        BY <1>2, <2>3, <4>1, LastOf
    <3>2. Polled(l, s) = [s EXCEPT !.acc = Summed(l, s), !.last = Last(Since(l, s.last + 1)).epoch]
      BY <1>6, <2>3 DEF Polled, Summed
    <3>3. Polled(l, s) \in Clients
      BY <1>3, <3>1, <3>2 DEF Clients
    <3>4. QED
      BY <2>1, <2>3, <3>2, <3>3
  <2>4. QED
    BY <2>2, <2>3
<1>7. QED
  BY <1>5, <1>6

\* The first k epochs of the log are discarded and the new one is appended.
Evicts(l, e, k) ==
    [entries |-> Append(SubSeq(l.entries, k + 1, Len(l.entries)), e),
     floor |-> IF k = 0 THEN l.floor ELSE Larger(l.floor, l.entries[k].epoch + 1),
     latest |-> e.epoch]

Overflows(e) == [entries |-> <<>>, floor |-> e.epoch + 1, latest |-> e.epoch]

\* push_epoch with a newer epoch.
LEMMA PushCases ==
  ASSUME NEW l \in Logs, NEW e \in Epochs, e.epoch > l.latest
  PROVE  PushEpoch(l, e) = Overflows(e) \/ \E k \in 0..Len(l.entries) : PushEpoch(l, e) = Evicts(l, e, k)
<1>1. e.epoch \in Nat /\ l.latest \in Nat /\ e.size \in Nat /\ l.entries \in Seq(Epochs)
  BY DEF Epochs, Logs
<1>2. ~(e.epoch <= l.latest)
  BY <1>1
<1>3. CASE e.size > LogLimit
  BY <1>2, <1>3 DEF PushEpoch, Overflows
<1>4. CASE ~(e.size > LogLimit)
  <2>1. e.size <= LogLimit
    BY <1>1, <1>4, LogLimitAssumption
  <2>2. PICK k \in 0..Len(l.entries) : Retained(l.entries, e.size) = SubSeq(l.entries, k + 1, Len(l.entries))
    BY <1>1, <2>1, RetainedIsEnd
  <2> DEFINE kept == SubSeq(l.entries, k + 1, Len(l.entries))
             n == Len(l.entries)
  <2>3. n \in Nat /\ k \in Nat /\ k <= n
    BY <1>1
  <2>4. Len(kept) = n - k
    BY <1>1, <2>3
  <2>5. FloorAfter(l, kept) = IF k = 0 THEN l.floor ELSE Larger(l.floor, l.entries[k].epoch + 1)
    <3> HIDE DEF kept
    <3>1. Len(kept) = n <=> k = 0
      BY <2>3, <2>4
    <3>2. n - Len(kept) = k
      BY <2>3, <2>4
    <3>3. QED
      BY <3>1, <3>2 DEF FloorAfter
  <2>6. PushEpoch(l, e) = [entries |-> Append(kept, e), floor |-> FloorAfter(l, kept), latest |-> e.epoch]
    BY <1>2, <1>4, <2>2 DEF PushEpoch
  <2>7. PushEpoch(l, e) = Evicts(l, e, k)
    BY <2>5, <2>6 DEF Evicts
  <2>8. QED
    BY <2>7
<1>5. QED
  BY <1>3, <1>4

\* The entries of a log.
LEMMA LogEntries ==
  ASSUME NEW l \in Logs
  PROVE  /\ l.entries \in Seq(Epochs) /\ l.floor \in Nat /\ l.latest \in Nat
         /\ Len(l.entries) \in Nat /\ DOMAIN l.entries = 1..Len(l.entries)
         /\ \A i \in DOMAIN l.entries : /\ l.entries[i] \in Epochs /\ l.entries[i].epoch \in Nat
                                        /\ l.entries[i].delta \in Weights
<1>1. l.entries \in Seq(Epochs) /\ l.floor \in Nat /\ l.latest \in Nat
  BY DEF Logs
<1>2. \A e \in Epochs : e.epoch \in Nat /\ e.delta \in Weights
  BY DEF Epochs
<1>3. \A i \in DOMAIN l.entries : l.entries[i] \in Epochs
  BY <1>1
<1>4. QED
  BY <1>1, <1>2, <1>3

\* The log stays a log.
LEMMA PushType ==
  ASSUME NEW l \in Logs, NEW e \in Epochs
  PROVE  PushEpoch(l, e) \in Logs
<1>1. e.epoch \in Nat /\ l.latest \in Nat /\ l.floor \in Nat
  BY DEF Epochs, Logs
<1>2. CASE e.epoch <= l.latest
  BY <1>2 DEF PushEpoch
<1>3. CASE ~(e.epoch <= l.latest)
  <2>1. e.epoch > l.latest
    BY <1>1, <1>3
  <2>2. CASE PushEpoch(l, e) = Overflows(e)
    BY <1>1, <2>2 DEF Overflows, Logs
  <2>3. ASSUME NEW k \in 0..Len(l.entries), PushEpoch(l, e) = Evicts(l, e, k) PROVE PushEpoch(l, e) \in Logs
    <3>1. l.entries \in Seq(Epochs) /\ Len(l.entries) \in Nat /\ DOMAIN l.entries = 1..Len(l.entries)
      BY LogEntries
    <3>2. SubSeq(l.entries, k + 1, Len(l.entries)) \in Seq(Epochs)
      BY <3>1
    <3>3. k # 0 => l.entries[k].epoch \in Nat
      BY <3>1, LogEntries
    <3>4. (IF k = 0 THEN l.floor ELSE Larger(l.floor, l.entries[k].epoch + 1)) \in Nat
      BY <1>1, <3>3 DEF Larger
    <3>5. Append(SubSeq(l.entries, k + 1, Len(l.entries)), e) \in Seq(Epochs)
      BY <3>2
    <3>6. Evicts(l, e, k) \in Logs
      BY <1>1, <3>4, <3>5 DEF Evicts, Logs
    <3>7. QED
      BY <2>3, <3>6
  <2>4. QED
    BY <2>1, <2>2, <2>3, PushCases
<1>4. QED
  BY <1>2, <1>3

\* The types hold in the initial state.
LEMMA InitTypes == Init => TypeOK
<1> SUFFICES ASSUME Init PROVE TypeOK
  OBVIOUS
<1>1. [k \in RowKeys |-> NoRow] \in Tables
  BY DEF Tables, Images
<1>2. Filled([k \in RowKeys |-> NoRow]) = {}
  BY DEF Filled
<1>3. IsFiniteSet(Filled(store.rows))
  BY <1>2, FS_EmptySet DEF Init
<1>4. log \in Logs /\ sub \in Clients
  BY FreshType DEF Init, EmptyLog, NoSub, Logs, Clients
<1>5. [k \in IdemKeys |-> 0] \in [IdemKeys -> Nat]
  OBVIOUS
<1>6. hist \in Histories
  <2>1. FALSE \in BOOLEAN
    BY Zenon
  <2>2. QED
    BY <2>1 DEF Init, Histories
<1>7. pending \in BOOLEAN
  BY Zenon DEF Init
<1>8. conn \in [Conns -> Sessions] /\ queue \in Seq(Conns)
  BY FreshType DEF Init
<1>9. store \in Stores /\ durable = store
  BY <1>1, <1>5, FreshType DEF Init, Stores
<1>10. view \in {"none", "registered", "written", "ready", "broken", "dropped"} /\ arr \in Weights
       /\ epochs \in [last : Nat, alloc : Nat]
  BY FreshType DEF Init
<1>11. QED
  BY <1>3, <1>4, <1>6, <1>7, <1>8, <1>9, <1>10 DEF TypeOK

\* The parts of the state.
LEMMA StateFields ==
  ASSUME TypeOK
  PROVE  /\ store.rows \in Tables /\ IsFiniteSet(Filled(store.rows)) /\ store.out \in Weights
         /\ store.state \in Weights /\ store.idem \in SUBSET IdemKeys /\ store.epoch \in Nat
         /\ arr \in Weights /\ pending \in BOOLEAN /\ epochs.last \in Nat /\ epochs.alloc \in Nat
         /\ store.applied \in [IdemKeys -> Nat]
         /\ durable.rows \in Tables /\ IsFiniteSet(Filled(durable.rows)) /\ durable.out \in Weights
         /\ durable.state \in Weights /\ durable.idem \in SUBSET IdemKeys /\ durable.epoch \in Nat
         /\ durable.applied \in [IdemKeys -> Nat]
         /\ hist.acked \in SUBSET Keys
         /\ hist.overlap \in SUBSET IdemKeys /\ hist.dropped \in SUBSET Keys
         /\ hist.early \in SUBSET Keys /\ hist.emptied \in SUBSET Keys
         /\ hist.spoiled \in BOOLEAN
         /\ sub.st \in {"off", "live", "away"} /\ sub.acc \in Weights /\ sub.last \in Nat
         /\ sub.gap \in BOOLEAN /\ log \in Logs
  BY DEF TypeOK, Stores, Histories, Clients

\* A session that changes stays one.
LEMMA ConnUpdate ==
  ASSUME TypeOK, NEW c \in Conns, NEW r \in Sessions
  PROVE  /\ [conn EXCEPT ![c] = r] \in [Conns -> Sessions]
         /\ \A d \in Conns : [conn EXCEPT ![c] = r][d] = IF d = c THEN r ELSE conn[d]
  BY DEF TypeOK

\* The COMMIT at the head of the queue leaves it.
LEMMA QueueTail ==
  ASSUME TypeOK, queue # <<>>
  PROVE  Tail(queue) \in Seq(Conns)
  BY DEF TypeOK

\* What the history becomes.
LEMMA HistUpdates ==
  ASSUME TypeOK, NEW c \in Conns, NEW b \in BOOLEAN
  PROVE  /\ [hist EXCEPT !.acked = @ \cup {conn[c].key}] \in Histories
         /\ [hist EXCEPT !.acked = @ \cup {conn[c].key}, !.emptied = @ \cup {conn[c].key}] \in Histories
         /\ [hist EXCEPT !.acked = @ \cup {conn[c].key},
                         !.early = IF conn[c].key \in durable.idem THEN @
                                   ELSE @ \cup {conn[c].key}] \in Histories
         /\ [hist EXCEPT !.spoiled = b] \in Histories
         /\ [hist EXCEPT !.acked = @ \cup {conn[c].key}, !.dropped = @ \cup {conn[c].key},
                         !.spoiled = b] \in Histories
         /\ conn[c].key # NoKey =>
               [hist EXCEPT !.overlap = @ \cup {conn[c].key}] \in Histories
<1>1. conn[c] \in Sessions /\ hist \in Histories
  BY DEF TypeOK
<1>2. conn[c].key \in Keys
  BY <1>1, SessionFields
<1>3. conn[c].key # NoKey => conn[c].key \in IdemKeys
  BY <1>2 DEF Keys
<1>4. QED
  BY <1>1, <1>2, <1>3 DEF Histories

\* The history after a batch is written.
LEMMA AppliedType ==
  ASSUME TypeOK, NEW c \in Conns
  PROVE  (hist.spoiled \/ Building \/ (HasView /\ Committed(store.rows, conn[c].ops).over)) \in BOOLEAN
  BY StateFields, KeptTypes, Zenon DEF Building, HasView

\* What recovering the views leaves durable.
LEMMA FlushedType ==
  ASSUME TypeOK
  PROVE  Flushed \in {store, durable} /\ (~pending => Flushed = durable)
  BY DEF Flushed

\* A client that misses an epoch.
LEMMA MissedType ==
  ASSUME TypeOK
  PROVE  /\ Missed \in Clients /\ Missed.st = sub.st /\ Missed.last = sub.last /\ Missed.acc = sub.acc
         /\ (sub.st # "off" => Missed.gap)
<1>1. sub \in Clients
  BY DEF TypeOK
<1>2. (sub.gap \/ sub.st # "off") \in BOOLEAN
  BY Zenon
<1>3. QED
  BY <1>1, <1>2 DEF Missed, Clients

\* The client side of the model: nothing of the gateway changes.
LEMMA FollowTypes ==
  ASSUME TypeOK, Follow
  PROVE  log' = log /\ sub' \in Clients
<1>1. log \in Logs /\ sub \in Clients
  BY DEF TypeOK
<1>2. CASE Poll
  BY <1>1, <1>2, PolledFacts DEF Poll
<1>3. CASE Disconnect
  BY <1>1, <1>3 DEF Disconnect, Clients
<1>4. CASE Resume
  <2>1. NoSub \in Clients
    BY FreshType DEF NoSub, Clients
  <2>2. [sub EXCEPT !.st = "live"] \in Clients
    BY <1>1 DEF Clients
  <2>3. Polled(log, [sub EXCEPT !.st = "live"]) \in Clients
    BY <1>1, <2>2, PolledFacts
  <2>4. QED
    BY <1>4, <2>1, <2>3 DEF Resume
<1>5. QED
  BY <1>2, <1>3, <1>4 DEF Follow

\* Every step keeps the types.
LEMMA TypeStep ==
  ASSUME TypeOK, LockIsHeld, [Next]_vars
  PROVE  TypeOK'
<1> DEFINE Views == {"none", "registered", "written", "ready", "broken", "dropped"}
<1>0. ASSUME store' \in Stores, IsFiniteSet(Filled(store'.rows)),
             durable' \in {store, durable, store'}, view' \in Views, arr' \in Weights,
             pending' \in BOOLEAN, epochs' \in [last : Nat, alloc : Nat], queue' \in Seq(Conns),
             conn' \in [Conns -> Sessions], hist' \in Histories, log' \in Logs, sub' \in Clients
      PROVE  TypeOK'
  <2>1. durable' \in Stores /\ IsFiniteSet(Filled(durable'.rows))
    BY <1>0 DEF TypeOK
  <2>2. QED
    BY <1>0, <2>1 DEF TypeOK, Filled
<1>1. /\ store \in Stores /\ IsFiniteSet(Filled(store.rows)) /\ view \in Views /\ arr \in Weights
      /\ Flushed \in {store, durable}
      /\ pending \in BOOLEAN /\ epochs \in [last : Nat, alloc : Nat] /\ queue \in Seq(Conns)
      /\ conn \in [Conns -> Sessions] /\ hist \in Histories /\ log \in Logs /\ sub \in Clients
  BY FlushedType DEF TypeOK
<1>2. /\ TRUE \in BOOLEAN /\ FALSE \in BOOLEAN /\ HasView \in BOOLEAN
      /\ (hist.spoiled \/ Building) \in BOOLEAN
      /\ (hist.spoiled \/ (pending /\ Building)) \in BOOLEAN
  <2>1. TRUE \in BOOLEAN /\ FALSE \in BOOLEAN
    BY Zenon
  <2>2. HasView \in BOOLEAN
    BY DEF HasView
  <2>3. (hist.spoiled \/ Building) \in BOOLEAN
    BY Zenon
  <2>4. (hist.spoiled \/ (pending /\ Building)) \in BOOLEAN
    BY Zenon
  <2>5. QED
    BY <2>1, <2>2, <2>3, <2>4
<1>3. Recovered \in Weights /\ Restored \in Weights
  BY WeightTypes
<1>4. ASSUME NEW c \in Conns
      PROVE  Answered(c) \in Sessions /\ Refused(c) \in Sessions
  <2>1. conn[c] \in Sessions
    BY <1>1
  <2>2. QED
    BY <2>1, AnswerTypes
<1>5. ASSUME NEW c \in Conns, NEW r \in Sessions, conn' = [conn EXCEPT ![c] = r]
      PROVE  conn' \in [Conns -> Sessions]
  BY <1>5, ConnUpdate
<1>6. queue # <<>> => Tail(queue) \in Seq(Conns)
  BY QueueTail
<1>7. [epochs EXCEPT !.alloc = @ + 1] \in [last : Nat, alloc : Nat]
  BY <1>1
<1>10. CASE UNCHANGED vars
  BY <1>0, <1>1, <1>10 DEF vars, gatewayVars
<1>11. ASSUME NEW c \in Conns, Statement(c) PROVE TypeOK'
  BY <1>0, <1>1, <1>5, <1>11 DEF Statement
<1>12. ASSUME NEW c \in Conns, CommitReplayed(c) PROVE TypeOK'
  <2>1. hist' \in Histories
    BY <1>2, <1>12, HistUpdates DEF CommitReplayed
  <2>2. conn' \in [Conns -> Sessions]
    BY <1>4, <1>5, <1>12 DEF CommitReplayed
  <2>3. QED
    BY <1>0, <1>1, <1>12, <2>1, <2>2 DEF CommitReplayed
<1>32. ASSUME NEW c \in Conns, CommitEmpty(c) PROVE TypeOK'
  <2>1. hist' \in Histories
    BY <1>1, <1>2, <1>32, HistUpdates DEF CommitEmpty
  <2>2. conn' \in [Conns -> Sessions]
    BY <1>4, <1>5, <1>32 DEF CommitEmpty
  <2>3. QED
    BY <1>0, <1>1, <1>32, <2>1, <2>2 DEF CommitEmpty
<1>13. ASSUME NEW c \in Conns, Enqueue(c) PROVE TypeOK'
  <2>1. hist' \in Histories
    <3>1. CASE conn[c].key # NoKey /\ InFlight(conn[c].key)
      BY <1>2, <1>13, <3>1, HistUpdates DEF Enqueue
    <3>2. CASE ~(conn[c].key # NoKey /\ InFlight(conn[c].key))
      BY <1>1, <1>13, <3>2 DEF Enqueue, Histories
    <3>3. QED
      BY <3>1, <3>2
  <2>2. conn' \in [Conns -> Sessions]
    <3>1. PICK r \in Sessions : r = conn[c]
      BY <1>1
    <3> DEFINE q == [r EXCEPT !.ops = r.buf, !.buf = <<>>, !.pc = "queued"]
    <3>2. q \in Sessions
      <4>1. r.buf \in Seq(Operations) /\ <<>> \in Seq(Operations)
        BY SessionFields
      <4>2. QED
        BY <4>1 DEF Sessions
    <3>3. conn' = [conn EXCEPT ![c] = q]
      BY <1>1, <1>13, <3>1 DEF Enqueue
    <3> HIDE DEF q
    <3>4. QED
      BY <1>5, <3>2, <3>3
  <2>3. queue' \in Seq(Conns)
    BY <1>1, <1>13 DEF Enqueue
  <2>4. QED
    BY <1>0, <1>1, <1>13, <2>1, <2>2, <2>3 DEF Enqueue
<1>14. ASSUME NEW c \in Conns, RecoveryFails(c) PROVE TypeOK'
  <2>1. conn' \in [Conns -> Sessions]
    BY <1>4, <1>5, <1>14 DEF RecoveryFails
  <2>2. QED
    BY <1>0, <1>1, <1>6, <1>14, <2>1 DEF RecoveryFails, Holder
<1>15. ASSUME NEW c \in Conns, RowsUnreadable(c) PROVE TypeOK'
  <2>1. conn' \in [Conns -> Sessions]
    BY <1>4, <1>5, <1>15 DEF RowsUnreadable
  <2>2. hist' \in Histories /\ pending' \in BOOLEAN
    BY <1>2, <1>15, HistUpdates DEF RowsUnreadable
  <2>3. QED
    BY <1>0, <1>1, <1>3, <1>6, <1>15, <2>1, <2>2 DEF RowsUnreadable, Holder
<1>16. ASSUME NEW c \in Conns, CommitNothing(c) PROVE TypeOK'
  <2>1. conn' \in [Conns -> Sessions]
    BY <1>4, <1>5, <1>16 DEF CommitNothing
  <2>2. hist' \in Histories /\ pending' \in BOOLEAN
    BY <1>2, <1>16, HistUpdates DEF CommitNothing
  <2>3. QED
    BY <1>0, <1>1, <1>3, <1>6, <1>16, <2>1, <2>2 DEF CommitNothing, Holder
<1>17. ASSUME NEW c \in Conns, WriteFails(c) PROVE TypeOK'
  <2>1. conn' \in [Conns -> Sessions]
    BY <1>4, <1>5, <1>17 DEF WriteFails
  <2>2. hist' \in Histories
    BY <1>2, <1>17, HistUpdates DEF WriteFails
  <2>3. arr' \in Weights /\ pending' \in BOOLEAN
    BY <1>1, <1>2, <1>3, <1>17, KeptTypes DEF WriteFails
  <2>4. QED
    BY <1>0, <1>1, <1>6, <1>7, <1>17, <2>1, <2>2, <2>3 DEF WriteFails, Writes, Holder
<1>18. ASSUME NEW c \in Conns, AwaitFails(c) PROVE TypeOK'
  <2>1. conn' \in [Conns -> Sessions]
    BY <1>4, <1>5, <1>18 DEF AwaitFails
  <2>2. hist' \in Histories /\ sub' \in Clients /\ pending' \in BOOLEAN
    BY <1>1, <1>2, <1>18, HistUpdates, MissedType DEF AwaitFails
  <2>3. queue # <<>>
    BY <1>18 DEF AwaitFails, LockIsHeld
  <2>4. arr' \in Weights /\ durable' \in {store, durable}
    BY <1>1, <1>3, <1>18 DEF AwaitFails
  <2>5. QED
    BY <1>0, <1>1, <1>6, <1>18, <2>1, <2>2, <2>3, <2>4 DEF AwaitFails
<1>33. ASSUME NEW c \in Conns, WriteDurable(c) PROVE TypeOK'
  <2>1. conn' \in [Conns -> Sessions]
    <3>1. PICK r \in Sessions : r = conn[c]
      BY <1>1
    <3> DEFINE q == [r EXCEPT !.pc = "flush"]
    <3>2. conn' = [conn EXCEPT ![c] = q]
      BY <1>1, <1>33, <3>1 DEF WriteDurable
    <3>3. q \in Sessions
      BY SessionFields DEF Sessions
    <3> HIDE DEF q
    <3>4. QED
      BY <1>5, <3>2, <3>3
  <2>2. epochs' \in [last : Nat, alloc : Nat]
    <3>1. conn[c] \in Sessions
      BY <1>1
    <3>2. conn[c].pub.epoch \in Nat
      BY <3>1, SessionFields DEF Epochs
    <3>3. QED
      BY <1>1, <1>33, <3>2 DEF WriteDurable
  <2>3. QED
    BY <1>0, <1>1, <1>33, <2>1, <2>2 DEF WriteDurable
<1>34. CASE WalFlush
  BY <1>0, <1>1, <1>34 DEF WalFlush
<1>19. ASSUME NEW c \in Conns, WriteVisible(c) PROVE TypeOK'
  <2>1. conn' \in [Conns -> Sessions]
    <3>1. PICK r \in Sessions : r = conn[c]
      BY <1>1
    <3> DEFINE kept == Committed(store.rows, conn[c].ops)
               p == [epoch |-> epochs.alloc + 1, delta |-> Delta(kept.ops), size |-> Entries(kept.ops)]
               q == [r EXCEPT !.pc = "writing", !.pub = p]
    <3>2. p \in Epochs
      <4>1. Delta(kept.ops) \in Weights /\ Entries(kept.ops) \in Nat
        BY KeptTypes, EntriesType
      <4>2. epochs.alloc + 1 \in Nat
        BY <1>1
      <4> HIDE DEF kept
      <4>3. QED
        BY <4>1, <4>2 DEF Epochs
    <3>3. conn' = [conn EXCEPT ![c] = q]
      BY <1>1, <1>19, <3>1 DEF WriteVisible
    <3>4. q \in Sessions
      <4> HIDE DEF p
      <4>1. QED
        BY <3>2, SessionFields DEF Sessions
    <3> HIDE DEF q
    <3>5. QED
      BY <1>5, <3>3, <3>4
  <2>2. hist' \in Histories /\ sub' \in Clients /\ pending' \in BOOLEAN
    BY <1>1, <1>2, <1>19, AppliedType, HistUpdates, MissedType DEF WriteVisible
  <2>3. Batch(c) \in Stores /\ IsFiniteSet(Filled(Batch(c).rows))
    BY BatchTypes
  <2>4. epochs' \in [last : Nat, alloc : Nat]
    BY <1>1, <1>19 DEF WriteVisible
  <2>5. QED
    BY <1>0, <1>1, <1>19, <2>1, <2>2, <2>3, <2>4, KeptTypes DEF WriteVisible
<1>20. ASSUME NEW c \in Conns, FlushSucceeds(c) PROVE TypeOK'
  <2>1. conn' \in [Conns -> Sessions]
    BY <1>4, <1>5, <1>20 DEF FlushSucceeds
  <2>2. hist' \in Histories /\ pending' \in BOOLEAN
    BY <1>2, <1>20, HistUpdates DEF FlushSucceeds
  <2>3. conn[c] \in Sessions
    BY <1>1
  <2>4. log' \in Logs
    BY <1>1, <1>20, <2>3, SessionFields, PushType DEF FlushSucceeds
  <2>5. queue # <<>>
    BY <1>20 DEF FlushSucceeds, LockIsHeld
  <2>6. QED
    BY <1>0, <1>1, <1>6, <1>20, <2>1, <2>2, <2>4, <2>5 DEF FlushSucceeds
<1>21. ASSUME NEW c \in Conns, FlushFails(c) PROVE TypeOK'
  <2>1. conn' \in [Conns -> Sessions]
    BY <1>4, <1>5, <1>21 DEF FlushFails
  <2>2. sub' \in Clients
    BY <1>21, MissedType DEF FlushFails
  <2>3. queue # <<>>
    BY <1>21 DEF FlushFails, LockIsHeld
  <2>4. QED
    BY <1>0, <1>1, <1>6, <1>21, <2>1, <2>2, <2>3 DEF FlushFails
<1>22. CASE EnsureViewConsistency
  <2>1. hist' \in Histories /\ pending' \in BOOLEAN
    BY <1>1, <1>2, <1>22 DEF EnsureViewConsistency, Histories
  <2>2. QED
    BY <1>0, <1>1, <1>3, <1>22, <2>1 DEF EnsureViewConsistency
<1>23. CASE CreateView
  <2>1. hist' \in Histories
    <3>1. (store.state # Zero) \in BOOLEAN
      BY Zenon
    <3>2. QED
      BY <1>1, <1>23, <3>1 DEF CreateView, Histories
  <2>2. store' \in Stores /\ store'.rows = store.rows
    BY <1>1, <1>23, FreshType DEF CreateView, Stores
  <2>3. arr' \in Weights
    BY <1>23, FreshType DEF CreateView
  <2>4. QED
    BY <1>0, <1>1, <1>23, <2>1, <2>2, <2>3 DEF CreateView
<1>24. CASE Populate
  <2>1. Counts(store.rows) \in Weights
    BY StateFields, CountsType
  <2>2. arr' \in Weights
    BY <1>1, <1>24, <2>1, PlusType DEF Populate
  <2>3. Plus(store.out, Crossing(arr, arr')) \in Weights
    BY <1>1, <2>2, StateFields, WeightTypes, PlusType
  <2>4. store' \in Stores /\ store'.rows = store.rows
    BY <1>1, <1>24, <2>3 DEF Populate, Stores
  <2>5. view' \in Views
    BY <1>24 DEF Populate
  <2>6. QED
    BY <1>0, <1>1, <1>24, <2>2, <2>4, <2>5 DEF Populate
<1>25. CASE PersistView
  <2>1. Persisted(store.state, Zero, arr) \in Weights
    BY <1>1, StateFields, WeightTypes, FreshType
  <2>2. store' \in Stores /\ store'.rows = store.rows
    BY <1>1, <1>25, <2>1 DEF PersistView, Stores
  <2>3. QED
    BY <1>0, <1>1, <1>25, <2>2 DEF PersistView
<1>26. CASE PopulateFails
  BY <1>0, <1>1, <1>26 DEF PopulateFails
<1>27. CASE DropView
  BY <1>0, <1>1, <1>27 DEF DropView
<1>28. CASE Subscribe
  <2>1. hist' \in Histories /\ pending' \in BOOLEAN
    BY <1>1, <1>2, <1>28 DEF Subscribe, Histories
  <2>2. Counts(store.rows) \in Weights /\ epochs.last \in Nat
    BY StateFields, CountsType
  <2>3. sub' \in Clients
    <3>1. (Flushed.rows # store.rows) \in BOOLEAN
      BY Zenon
    <3>2. QED
      BY <1>28, <2>2, <3>1 DEF Subscribe, Clients
  <2>4. QED
    BY <1>0, <1>1, <1>3, <1>28, <2>1, <2>3 DEF Subscribe
<1>29. CASE Restart
  <2>1. view' \in Views /\ pending' \in BOOLEAN
    BY <1>1, <1>2, <1>29 DEF Restart
  <2>2. epochs' \in [last : Nat, alloc : Nat]
    BY <1>29, StateFields DEF Restart
  <2>3. conn' \in [Conns -> Sessions] /\ queue' \in Seq(Conns)
    BY <1>29, FreshType DEF Restart
  <2>4. log' \in Logs
    BY <1>29 DEF Restart, EmptyLog, Logs
  <2>5. sub' \in Clients
    BY <1>1, <1>29 DEF Restart, Clients
  <2>6. QED
    BY <1>0, <1>1, <1>29, <2>1, <2>2, <2>3, <2>4, <2>5, StateFields DEF Restart, TypeOK
<1>30. CASE Follow /\ UNCHANGED <<gatewayVars, hist>>
  BY <1>0, <1>1, <1>30, FollowTypes DEF gatewayVars
<1>31. QED
  BY <1>10, <1>11, <1>12, <1>13, <1>14, <1>15, <1>16, <1>17, <1>18, <1>19, <1>20, <1>21, <1>22,
     <1>23, <1>24, <1>25, <1>26, <1>27, <1>28, <1>29, <1>30, <1>32, <1>33, <1>34, StepKinds

\* The COMMIT at the lock stays at the head, no other one writes or flushes,
\* and nothing is written behind the one that flushes.
LEMMA LockStep ==
  ASSUME TypeOK, LockIsHeld, [Next]_vars
  PROVE  LockIsHeld'
<1>1. /\ conn \in [Conns -> Sessions] /\ queue \in Seq(Conns)
      /\ Flushed \in {store, durable}
  BY FlushedType DEF TypeOK
<1>2. ASSUME NEW c \in Conns, NEW r \in Sessions, r.pc \notin {"writing", "flush"},
             conn' = [conn EXCEPT ![c] = r], queue' = queue, UNCHANGED <<store, durable>>
      PROVE  LockIsHeld'
  BY <1>1, <1>2 DEF LockIsHeld
<1>3. ASSUME NEW c \in Conns, NEW r \in Sessions, r.pc \notin {"writing", "flush"},
             conn' = [conn EXCEPT ![c] = r],
             Holder(c) \/ conn[c].pc \in {"writing", "flush"}
      PROVE  LockIsHeld'
  BY <1>1, <1>3 DEF LockIsHeld, Holder
<1>4. ASSUME UNCHANGED <<conn, queue>>, durable' = store' \/ UNCHANGED <<store, durable>>
      PROVE  LockIsHeld'
  BY <1>4 DEF LockIsHeld
<1>5. ASSUME NEW c \in Conns
      PROVE  /\ Answered(c) \in Sessions /\ Answered(c).pc = "idle"
             /\ Refused(c) \in Sessions /\ Refused(c).pc = "idle"
  <2>1. conn[c] \in Sessions
    BY <1>1
  <2>2. QED
    BY <2>1, AnswerTypes
<1>6. ASSUME NEW c \in Conns, Statement(c) \/ CommitEmpty(c) \/ CommitReplayed(c) PROVE LockIsHeld'
  BY <1>2, <1>5, <1>6 DEF Statement, CommitEmpty, CommitReplayed
<1>7. ASSUME NEW c \in Conns, Enqueue(c) PROVE LockIsHeld'
  <2>1. queue' = Append(queue, c) /\ UNCHANGED <<store, durable>>
    BY <1>7 DEF Enqueue
  <2>2. \A d \in Conns : conn'[d].pc \in {"writing", "flush"} => conn[d].pc = conn'[d].pc
    BY <1>1, <1>7 DEF Enqueue
  <2>3. queue # <<>> => queue' # <<>> /\ Head(queue') = Head(queue)
    BY <1>1, <2>1
  <2>4. QED
    BY <2>1, <2>2, <2>3 DEF LockIsHeld
<1>8. ASSUME NEW c \in Conns,
             \/ RecoveryFails(c) \/ RowsUnreadable(c) \/ CommitNothing(c) \/ WriteFails(c)
             \/ AwaitFails(c) \/ FlushSucceeds(c) \/ FlushFails(c)
      PROVE  LockIsHeld'
  <2>1. Holder(c) \/ conn[c].pc \in {"writing", "flush"}
    BY <1>8 DEF RecoveryFails, RowsUnreadable, CommitNothing, WriteFails, AwaitFails, Writes,
                FlushSucceeds, FlushFails
  <2>2. conn' = [conn EXCEPT ![c] = Answered(c)] \/ conn' = [conn EXCEPT ![c] = Refused(c)]
    BY <1>8 DEF RecoveryFails, RowsUnreadable, CommitNothing, WriteFails, AwaitFails,
                FlushSucceeds, FlushFails
  <2>3. QED
    BY <1>3, <1>5, <2>1, <2>2
<1>9. ASSUME NEW c \in Conns, WriteVisible(c) PROVE LockIsHeld'
  <2>1. queue' = queue /\ queue # <<>> /\ Head(queue) = c /\ conn[c].pc = "queued"
    BY <1>9 DEF WriteVisible, Writes, Holder
  <2>2. /\ \A d \in Conns : d # c => conn'[d] = conn[d]
        /\ conn'[c].pc = "writing"
    BY <1>1, <1>9 DEF WriteVisible
  <2>3. QED
    BY <2>1, <2>2 DEF LockIsHeld
<1>13. ASSUME NEW c \in Conns, WriteDurable(c) PROVE LockIsHeld'
  <2>1. queue' = queue /\ queue # <<>> /\ Head(queue) = c /\ durable' = store'
    BY <1>13 DEF WriteDurable, LockIsHeld
  <2>2. \A d \in Conns : d # c => conn'[d] = conn[d]
    BY <1>1, <1>13 DEF WriteDurable
  <2>3. QED
    BY <2>1, <2>2 DEF LockIsHeld
<1>10. CASE Restart
  BY <1>10 DEF Restart, FreshConn, LockIsHeld
<1>11. CASE \/ WalFlush \/ EnsureViewConsistency \/ CreateView \/ Populate \/ PersistView
            \/ PopulateFails \/ DropView \/ Subscribe
            \/ Follow /\ UNCHANGED <<gatewayVars, hist>>
            \/ UNCHANGED vars
  BY <1>1, <1>4, <1>11
     DEF WalFlush, EnsureViewConsistency, CreateView, Populate, PersistView, PopulateFails, DropView,
         Subscribe, vars, gatewayVars
<1>12. QED
  BY <1>6, <1>7, <1>8, <1>9, <1>10, <1>11, <1>13, StepKinds

-----------------------------------------------------------------------------
(* Idempotency keys *)

\* Two stores with the same keys.
SameKeys(s, t) == s.idem = t.idem /\ s.applied = t.applied

\* A COMMIT that writes is the only one of its key, or its key is known and
\* overlaps with another.
LEMMA KeysStep ==
  ASSUME TypeOK, TypeOK', LockIsHeld, KeysAreKept, [Next]_vars
  PROVE  KeysAreKept'
<1>1. conn \in [Conns -> Sessions] /\ \A c \in Conns : conn[c].key \in Keys
  <2>1. conn \in [Conns -> Sessions]
    BY DEF TypeOK
  <2>2. QED
    BY <2>1, SessionFields
<1>2. /\ store.applied \in [IdemKeys -> Nat] /\ store.idem \in SUBSET IdemKeys /\ NoKey \notin IdemKeys
      /\ Flushed \in {store, durable}
  BY StateFields, RowsAssumption, FlushedType
<1>3. ASSUME NEW c \in Conns
      PROVE  /\ Answered(c) \in Sessions /\ Answered(c).pc = "idle"
             /\ Refused(c) \in Sessions /\ Refused(c).pc = "idle"
  <2>1. conn[c] \in Sessions
    BY <1>1
  <2>2. QED
    BY <2>1, AnswerTypes
\* The keys stay in the store, and may become durable.
<1>7. ASSUME SameKeys(store', store), SameKeys(durable', durable) \/ SameKeys(durable', store),
             hist'.overlap = hist.overlap
      PROVE  /\ Once(store)' /\ Once(durable)' /\ durable'.idem \subseteq store'.idem
             /\ durable.idem \subseteq durable'.idem
  <2>1. /\ Once(store) /\ Once(durable) /\ durable.idem \subseteq store.idem
    BY DEF KeysAreKept
  <2>2. Once(store)'
    BY <1>7, <2>1 DEF Once, SameKeys
  <2>3. Once(durable)'
    BY <1>7, <2>1 DEF Once, SameKeys
  <2>4. QED
    BY <1>7, <2>1, <2>2, <2>3 DEF SameKeys
\* A COMMIT that ends, or has not begun, without a change of the store.
<1>4. ASSUME NEW c \in Conns, NEW r \in Sessions, r.pc \in {"idle", "commit"},
             conn' = [conn EXCEPT ![c] = r], store' = store, durable' \in {durable, store},
             hist'.overlap = hist.overlap,
             hist'.acked \subseteq hist.acked \cup {conn[c].key},
             hist.dropped \subseteq hist'.dropped, hist.early \subseteq hist'.early,
             hist.emptied \subseteq hist'.emptied,
             \/ hist'.acked = hist.acked
             \/ conn[c].key \in durable.idem \cup {NoKey}
             \/ conn[c].key \in hist'.dropped \/ conn[c].key \in hist'.early
             \/ conn[c].key \in hist'.emptied
      PROVE  KeysAreKept'
  <2>1. \A d \in Conns : conn'[d] = IF d = c THEN r ELSE conn[d]
    BY <1>1, <1>4
  <2>2. /\ Once(store)' /\ Once(durable)' /\ durable'.idem \subseteq store'.idem
        /\ durable.idem \subseteq durable'.idem
    BY <1>4, <1>7 DEF SameKeys
  <2>3. ASSUME NEW d \in Conns, NEW e \in Conns, d # e, Pushed(d)', Pushed(e)',
               conn'[d].key = conn'[e].key, conn'[d].key # NoKey
        PROVE  conn'[d].key \in hist'.overlap
    BY <1>4, <2>1, <2>3 DEF KeysAreKept, Pushed
  <2>4. \A d \in Conns : conn'[d].pc \in {"writing", "flush"} /\ conn'[d].key # NoKey
                            => conn'[d].key \in store'.idem
    BY <1>4, <2>1 DEF KeysAreKept
  <2>5. \A d \in Conns : conn'[d].pc = "queued" /\ conn'[d].key \in store'.idem
                            => conn'[d].key \in hist'.overlap
    BY <1>4, <2>1 DEF KeysAreKept
  <2>6. ASSUME NEW k \in IdemKeys, k \in hist'.acked PROVE k \in durable'.idem \/ Excused(k)'
    <3>1. CASE k \in hist.acked
      BY <1>4, <2>2, <3>1 DEF KeysAreKept, Excused
    <3>2. CASE k \notin hist.acked
      <4>1. k = conn[c].key /\ hist'.acked # hist.acked /\ k # NoKey
        BY <1>2, <1>4, <2>6, <3>2
      <4>2. QED
        BY <1>4, <2>2, <4>1 DEF Excused
    <3>3. QED
      BY <3>1, <3>2
  <2>7. QED
    BY <2>2, <2>3, <2>4, <2>5, <2>6 DEF KeysAreKept
\* Steps that neither the keys nor the COMMITs take part in.
<1>5. ASSUME UNCHANGED conn, SameKeys(store', store),
             SameKeys(durable', durable) \/ SameKeys(durable', store),
             hist'.overlap = hist.overlap, hist'.acked = hist.acked, hist'.dropped = hist.dropped,
             hist'.early = hist.early, hist'.emptied = hist.emptied
      PROVE  KeysAreKept'
  <2>1. /\ Once(store)' /\ Once(durable)' /\ durable'.idem \subseteq store'.idem
        /\ durable.idem \subseteq durable'.idem /\ store'.idem = store.idem
    BY <1>5, <1>7 DEF SameKeys
  <2>2. \A k \in IdemKeys : k \in hist'.acked => k \in durable'.idem \/ Excused(k)'
    BY <1>5, <2>1 DEF KeysAreKept, Excused
  <2>3. \A d, e \in Conns :
           d # e /\ Pushed(d)' /\ Pushed(e)' /\ conn'[d].key = conn'[e].key /\ conn'[d].key # NoKey
               => conn'[d].key \in hist'.overlap
    BY <1>5 DEF KeysAreKept, Pushed
  <2>4. QED
    BY <1>5, <2>1, <2>2, <2>3 DEF KeysAreKept
\* A batch is written with its key.
<1>6. ASSUME NEW c \in Conns, conn[c].pc = "queued", NEW r \in Sessions, r.pc = "writing",
             r.key = conn[c].key, conn' = [conn EXCEPT ![c] = r], store' = Batch(c),
             durable' \in {durable, store}, hist'.overlap = hist.overlap, hist'.acked = hist.acked,
             hist'.dropped = hist.dropped, hist'.early = hist.early, hist'.emptied = hist.emptied
      PROVE  KeysAreKept'
  <2>1. \A d \in Conns : conn'[d] = IF d = c THEN r ELSE conn[d]
    BY <1>1, <1>6
  <2>2. store'.idem = store.idem \cup ({conn[c].key} \ {NoKey})
    BY <1>6, BatchTypes
  <2>3. \A k \in IdemKeys : store'.applied[k] = IF k = conn[c].key THEN store.applied[k] + 1 ELSE store.applied[k]
    BY <1>6, BatchTypes
  <2>4. \A k \in IdemKeys : /\ store.applied[k] \in Nat /\ (store.applied[k] > 0 <=> k \in store.idem)
                            /\ (store.applied[k] > 1 => k \in hist.overlap)
    BY <1>2 DEF KeysAreKept, Once
  <2>5. \A k \in IdemKeys : store'.applied[k] > 0 <=> k \in store'.idem
    BY <1>2, <2>2, <2>3, <2>4
  <2>6. \A d \in Conns : conn'[d].pc \in {"writing", "flush"} /\ conn'[d].key # NoKey
                            => conn'[d].key \in store'.idem
    BY <1>6, <2>1, <2>2 DEF KeysAreKept
  <2>7. ASSUME NEW d \in Conns, conn'[d].pc = "queued", conn'[d].key \in store'.idem
        PROVE  conn'[d].key \in hist'.overlap
    <3>1. d # c /\ conn'[d] = conn[d]
      BY <1>6, <2>1, <2>7
    <3>2. CASE conn[d].key \in store.idem
      BY <1>6, <2>7, <3>1, <3>2 DEF KeysAreKept
    <3>3. CASE conn[d].key \notin store.idem
      <4>1. conn[d].key = conn[c].key /\ conn[c].key # NoKey
        BY <2>2, <2>7, <3>1, <3>3
      <4>2. Pushed(c) /\ Pushed(d)
        BY <1>6, <2>7, <3>1 DEF Pushed
      <4>3. QED
        BY <1>6, <3>1, <4>1, <4>2 DEF KeysAreKept
    <3>4. QED
      BY <3>2, <3>3
  <2>8. ASSUME NEW d \in Conns, NEW e \in Conns, d # e, Pushed(d)', Pushed(e)',
               conn'[d].key = conn'[e].key, conn'[d].key # NoKey
        PROVE  conn'[d].key \in hist'.overlap
    <3>1. Pushed(d) /\ Pushed(e) /\ conn[d].key = conn[e].key /\ conn[d].key = conn'[d].key
      BY <1>6, <2>1, <2>8 DEF Pushed
    <3>2. QED
      BY <1>6, <2>8, <3>1 DEF KeysAreKept
  <2>9. ASSUME NEW k \in IdemKeys, store'.applied[k] > 1 PROVE k \in hist'.overlap
    <3>1. CASE store.applied[k] > 1
      BY <1>6, <2>4, <3>1
    <3>2. CASE ~(store.applied[k] > 1)
      <4>1. k = conn[c].key /\ store.applied[k] > 0
        BY <2>3, <2>4, <2>9, <3>2
      <4>2. k \in store.idem
        BY <2>4, <4>1
      <4>3. QED
        BY <1>6, <4>1, <4>2 DEF KeysAreKept
    <3>3. QED
      BY <3>1, <3>2
  <2>10. Once(store)'
    BY <2>5, <2>9 DEF Once
  <2>11. Once(durable)' /\ durable'.idem \subseteq store'.idem /\ durable.idem \subseteq durable'.idem
    <3>1. Once(store) /\ Once(durable) /\ durable.idem \subseteq store.idem
      BY DEF KeysAreKept
    <3>2. Once(durable)'
      BY <1>6, <3>1 DEF Once
    <3>3. QED
      BY <1>6, <2>2, <3>1, <3>2
  <2>12. \A k \in IdemKeys : k \in hist'.acked => k \in durable'.idem \/ Excused(k)'
    BY <1>6, <2>11 DEF KeysAreKept, Excused
  <2>13. QED
    BY <2>6, <2>7, <2>8, <2>10, <2>11, <2>12 DEF KeysAreKept
<1>10. CASE UNCHANGED vars
  BY <1>5, <1>10 DEF vars, gatewayVars, SameKeys
<1>11. ASSUME NEW c \in Conns, Statement(c) PROVE KeysAreKept'
  BY <1>4, <1>11 DEF Statement
<1>12. ASSUME NEW c \in Conns, CommitReplayed(c) PROVE KeysAreKept'
  <2>1. /\ hist'.acked = hist.acked \cup {conn[c].key}
        /\ hist'.overlap = hist.overlap /\ hist'.dropped = hist.dropped
        /\ hist'.emptied = hist.emptied /\ hist.early \subseteq hist'.early
        /\ conn[c].key \in durable.idem \/ conn[c].key \in hist'.early
    BY <1>12 DEF CommitReplayed, TypeOK, Histories
  <2>2. QED
    BY <1>3, <1>4, <1>12, <2>1 DEF CommitReplayed
<1>22. ASSUME NEW c \in Conns, CommitEmpty(c) PROVE KeysAreKept'
  <2>1. /\ hist'.overlap = hist.overlap /\ hist'.dropped = hist.dropped
        /\ hist'.early = hist.early /\ hist.emptied \subseteq hist'.emptied
        /\ hist'.acked \subseteq hist.acked \cup {conn[c].key}
        /\ hist'.acked = hist.acked \/ conn[c].key \in hist'.emptied
    BY <1>22 DEF CommitEmpty, TypeOK, Histories
  <2>2. QED
    BY <1>3, <1>4, <1>22, <2>1 DEF CommitEmpty
<1>13. ASSUME NEW c \in Conns, Enqueue(c) PROVE KeysAreKept'
  <2>1. conn[c].key \notin store.idem /\ store' = store /\ durable' = durable
    BY <1>13 DEF Enqueue, KnownKey
  <2>2. \A d \in Conns : /\ conn'[d].key = conn[d].key
                         /\ conn'[d].pc = IF d = c THEN "queued" ELSE conn[d].pc
    <3>1. conn[c] \in Sessions
      BY <1>1
    <3>2. QED
      BY <1>1, <1>13, <3>1, SessionFields DEF Enqueue
  <2>3. /\ hist'.acked = hist.acked /\ hist'.dropped = hist.dropped
        /\ hist'.early = hist.early /\ hist'.emptied = hist.emptied
        /\ hist.overlap \subseteq hist'.overlap
        /\ conn[c].key # NoKey /\ InFlight(conn[c].key) => conn[c].key \in hist'.overlap
    BY <1>13 DEF Enqueue, TypeOK, Histories
  <2>4. ASSUME NEW d \in Conns, NEW e \in Conns, d # e, Pushed(d)', Pushed(e)',
               conn'[d].key = conn'[e].key, conn'[d].key # NoKey
        PROVE  conn'[d].key \in hist'.overlap
    <3>1. CASE d # c /\ e # c
      BY <2>2, <2>3, <2>4, <3>1 DEF KeysAreKept, Pushed
    <3>2. CASE d = c
      <4>1. InFlight(conn[c].key)
        BY <2>2, <2>4, <3>2 DEF InFlight, Pushed
      <4>2. QED
        BY <2>2, <2>3, <2>4, <3>2, <4>1
    <3>3. CASE e = c
      <4>1. InFlight(conn[c].key)
        BY <2>2, <2>4, <3>3 DEF InFlight, Pushed
      <4>2. QED
        BY <2>2, <2>3, <2>4, <3>3, <4>1
    <3>4. QED
      BY <3>1, <3>2, <3>3
  <2>5. \A d \in Conns : conn'[d].pc \in {"writing", "flush"} /\ conn'[d].key # NoKey
                            => conn'[d].key \in store'.idem
    BY <2>1, <2>2 DEF KeysAreKept
  <2>6. \A d \in Conns : conn'[d].pc = "queued" /\ conn'[d].key \in store'.idem
                            => conn'[d].key \in hist'.overlap
    BY <2>1, <2>2, <2>3 DEF KeysAreKept
  <2>7. Once(store)' /\ Once(durable)' /\ durable'.idem \subseteq store'.idem
    BY <2>1, <2>3 DEF KeysAreKept, Once
  <2>8. \A k \in IdemKeys : k \in hist'.acked => k \in durable'.idem \/ Excused(k)'
    BY <2>1, <2>3 DEF KeysAreKept, Excused
  <2>9. QED
    BY <2>4, <2>5, <2>6, <2>7, <2>8 DEF KeysAreKept
<1>14. ASSUME NEW c \in Conns,
              \/ RecoveryFails(c) \/ RowsUnreadable(c) \/ WriteFails(c) \/ AwaitFails(c) \/ FlushFails(c)
       PROVE  KeysAreKept'
  <2>1. /\ conn' = [conn EXCEPT ![c] = Refused(c)] /\ store' = store
        /\ durable' \in {durable, store}
    BY <1>2, <1>14 DEF RecoveryFails, RowsUnreadable, WriteFails, AwaitFails, FlushFails
  <2>2. /\ hist'.acked = hist.acked /\ hist'.overlap = hist.overlap /\ hist'.dropped = hist.dropped
        /\ hist'.early = hist.early /\ hist'.emptied = hist.emptied
    BY <1>14 DEF RecoveryFails, RowsUnreadable, WriteFails, AwaitFails, FlushFails, TypeOK, Histories
  <2>3. QED
    BY <1>3, <1>4, <2>1, <2>2
<1>15. ASSUME NEW c \in Conns, CommitNothing(c) PROVE KeysAreKept'
  <2>1. /\ conn' = [conn EXCEPT ![c] = Answered(c)] /\ store' = store
        /\ durable' \in {durable, store}
    BY <1>2, <1>15 DEF CommitNothing
  <2>2. /\ hist'.acked = hist.acked \cup {conn[c].key} /\ hist'.overlap = hist.overlap
        /\ hist'.dropped = hist.dropped \cup {conn[c].key}
        /\ hist'.early = hist.early /\ hist'.emptied = hist.emptied
    BY <1>15 DEF CommitNothing, TypeOK, Histories
  <2>3. QED
    BY <1>3, <1>4, <2>1, <2>2
<1>16. ASSUME NEW c \in Conns, FlushSucceeds(c) PROVE KeysAreKept'
  <2>1. /\ conn' = [conn EXCEPT ![c] = Answered(c)] /\ UNCHANGED <<store, durable>>
        /\ conn[c].pc = "flush"
    BY <1>16 DEF FlushSucceeds
  <2>2. /\ hist'.acked = hist.acked \cup {conn[c].key} /\ hist'.overlap = hist.overlap
        /\ hist'.dropped = hist.dropped /\ hist'.early = hist.early /\ hist'.emptied = hist.emptied
    BY <1>16 DEF FlushSucceeds, TypeOK, Histories
  <2>3. conn[c].key \in durable.idem \cup {NoKey}
    BY <2>1 DEF KeysAreKept, LockIsHeld
  <2>4. QED
    BY <1>3, <1>4, <2>1, <2>2, <2>3
<1>17. ASSUME NEW c \in Conns, WriteDurable(c) PROVE KeysAreKept'
  <2>1. UNCHANGED <<store, durable, hist>> /\ conn[c].pc = "writing"
    BY <1>17 DEF WriteDurable
  <2>2. \A d \in Conns : /\ conn'[d].key = conn[d].key
                         /\ conn'[d].pc = IF d = c THEN "flush" ELSE conn[d].pc
    <3>1. conn[c] \in Sessions
      BY <1>1
    <3>2. QED
      BY <1>1, <1>17, <3>1, SessionFields DEF WriteDurable
  <2>3. \A d \in Conns : Pushed(d)' = Pushed(d)
    BY <2>1, <2>2 DEF Pushed
  <2>4. Once(store)' /\ Once(durable)' /\ durable'.idem \subseteq store'.idem
    BY <2>1 DEF KeysAreKept, Once
  <2>5. \A k \in IdemKeys : k \in hist'.acked => k \in durable'.idem \/ Excused(k)'
    BY <2>1 DEF KeysAreKept, Excused
  <2>6. QED
    BY <2>1, <2>2, <2>3, <2>4, <2>5 DEF KeysAreKept
<1>18. ASSUME NEW c \in Conns, WriteVisible(c) PROVE KeysAreKept'
  <2>1. conn[c] \in Sessions /\ conn[c].pc = "queued"
    BY <1>1, <1>18 DEF WriteVisible, Writes, Holder
  <2>2. PICK r : r = conn'[c]
    OBVIOUS
  <2>3. r \in Sessions
    BY <2>2 DEF TypeOK
  <2>4. conn' = [conn EXCEPT ![c] = r] /\ r.pc = "writing" /\ r.key = conn[c].key
    <3>1. PICK p : conn' = [conn EXCEPT ![c].pc = "writing", ![c].pub = p]
      BY <1>18 DEF WriteVisible
    <3>2. conn[c] = [blk |-> conn[c].blk, buf |-> conn[c].buf, key |-> conn[c].key, pc |-> conn[c].pc,
                     ops |-> conn[c].ops, pub |-> conn[c].pub, lost |-> conn[c].lost]
      BY <2>1, SessionFields
    <3>3. r = [conn[c] EXCEPT !.pc = "writing", !.pub = p]
      BY <1>1, <2>2, <3>1
    <3>4. conn' = [conn EXCEPT ![c] = r]
      BY <1>1, <3>1, <3>3
    <3>5. r.pc = "writing" /\ r.key = conn[c].key
      BY <3>2, <3>3
    <3>6. QED
      BY <3>4, <3>5
  <2>5. /\ hist'.acked = hist.acked /\ hist'.overlap = hist.overlap /\ hist'.dropped = hist.dropped
        /\ hist'.early = hist.early /\ hist'.emptied = hist.emptied
    BY <1>18 DEF WriteVisible, TypeOK, Histories
  <2>6. store' = Batch(c) /\ durable' \in {durable, store}
    BY <1>2, <1>18 DEF WriteVisible
  <2>7. QED
    BY <1>6, <2>1, <2>3, <2>4, <2>5, <2>6
<1>19. CASE \/ WalFlush \/ EnsureViewConsistency \/ CreateView \/ Populate \/ PersistView
            \/ PopulateFails \/ DropView \/ Subscribe
  <2>1. UNCHANGED conn /\ SameKeys(store', store)
    BY <1>19 DEF WalFlush, EnsureViewConsistency, CreateView, Populate, PersistView, PopulateFails,
                 DropView, Subscribe, TypeOK, Stores, SameKeys
  <2>2. durable' \in {durable, store, store'}
    BY <1>2, <1>19 DEF WalFlush, EnsureViewConsistency, CreateView, Populate, PersistView, PopulateFails,
                       DropView, Subscribe
  <2>3. SameKeys(durable', durable) \/ SameKeys(durable', store)
    BY <2>1, <2>2 DEF SameKeys
  <2>4. /\ hist'.acked = hist.acked /\ hist'.overlap = hist.overlap /\ hist'.dropped = hist.dropped
        /\ hist'.early = hist.early /\ hist'.emptied = hist.emptied
    BY <1>19 DEF WalFlush, EnsureViewConsistency, CreateView, Populate, PersistView, PopulateFails,
                 DropView, Subscribe, TypeOK, Histories
  <2>5. QED
    BY <1>5, <2>1, <2>3, <2>4
<1>20. CASE Restart
  <2>1. \A c \in Conns : conn'[c].pc = "idle"
    BY <1>20 DEF Restart, FreshConn
  <2>2. UNCHANGED <<durable, hist>> /\ store' = durable
    BY <1>20 DEF Restart
  <2>3. Once(store)' /\ Once(durable)'
    BY <2>2 DEF KeysAreKept, Once
  <2>4. \A k \in IdemKeys : k \in hist'.acked => k \in durable'.idem \/ Excused(k)'
    BY <2>2 DEF KeysAreKept, Excused
  <2>5. QED
    BY <2>1, <2>2, <2>3, <2>4 DEF KeysAreKept, Pushed
<1>21. CASE Follow /\ UNCHANGED <<gatewayVars, hist>>
  BY <1>5, <1>21 DEF gatewayVars, SameKeys
<1>23. QED
  BY <1>10, <1>11, <1>12, <1>13, <1>14, <1>15, <1>16, <1>17, <1>18, <1>19, <1>20, <1>21, <1>22, StepKinds

\* Keys that are kept are applied once.
LEMMA KeysAreRight ==
  ASSUME TypeOK, KeysAreKept
  PROVE  ExactlyOncePerKey
<1>1. SUFFICES ASSUME NEW k \in IdemKeys
               PROVE  /\ store.applied[k] > 1 => k \in hist.overlap
                      /\ k \in hist.acked =>
                            store.applied[k] > 0 \/ k \in hist.dropped \cup hist.early \cup hist.emptied
  BY DEF ExactlyOncePerKey
<1>2. QED
  BY <1>1 DEF KeysAreKept, Once, Excused

-----------------------------------------------------------------------------
(* The compiled view *)

\* The operator's state follows the weights it has processed.
LEMMA PersistedIs ==
  ASSUME NEW f \in Weights, NEW g \in Weights
  PROVE  Persisted(f, f, g) = g
<1>1. \A v \in Vals : Persisted(f, f, g)[v] = g[v]
  BY DEF Persisted, Weights
<1>2. Persisted(f, f, g) = [v \in Vals |-> Persisted(f, f, g)[v]] /\ g = [v \in Vals |-> g[v]]
  BY DEF Persisted, Weights
<1>3. QED
  BY <1>1, <1>2

\* The output of DISTINCT follows the crossings.
LEMMA CrossingIs ==
  ASSUME NEW rows \in Tables, IsFiniteSet(Filled(rows)), NEW sec \in Tables, IsFiniteSet(Filled(sec))
  PROVE  /\ Plus(Distinct(rows), Crossing(Counts(rows), Counts(sec))) = Distinct(sec)
         /\ Plus(Zero, Crossing(Zero, Counts(sec))) = Distinct(sec)
         /\ Plus(Zero, Counts(sec)) = Counts(sec)
<1>1. \A v \in Vals : Counts(rows)[v] \in Nat /\ Counts(sec)[v] \in Nat
  BY CountsType
<1>2. ASSUME NEW v \in Vals
      PROVE  /\ Distinct(rows)[v] + Crossing(Counts(rows), Counts(sec))[v] = Distinct(sec)[v]
             /\ Zero[v] + Crossing(Zero, Counts(sec))[v] = Distinct(sec)[v]
             /\ Zero[v] + Counts(sec)[v] = Counts(sec)[v]
  <2>1. PICK m \in Nat : m = Counts(rows)[v]
    BY <1>1
  <2>2. PICK n \in Nat : n = Counts(sec)[v]
    BY <1>1
  <2>3. Distinct(rows)[v] = (IF m > 0 THEN 1 ELSE 0) /\ Distinct(sec)[v] = IF n > 0 THEN 1 ELSE 0
    BY <2>1, <2>2 DEF Distinct
  <2>4. Crossing(Counts(rows), Counts(sec))[v] = IF m <= 0 /\ n > 0 THEN 1
                                                 ELSE IF m > 0 /\ n <= 0 THEN -1 ELSE 0
    BY <2>1, <2>2 DEF Crossing
  <2>5. Crossing(Zero, Counts(sec))[v] = (IF n > 0 THEN 1 ELSE 0) /\ Zero[v] = 0
    BY <2>2 DEF Crossing, Zero
  <2>6. QED
    BY <2>2, <2>3, <2>4, <2>5
<1>3. Counts(sec) = [v \in Vals |-> Counts(sec)[v]] /\ Distinct(sec) = [v \in Vals |-> Distinct(sec)[v]]
  BY DEF Counts, Distinct
<1>4. QED
  BY <1>2, <1>3 DEF Plus

\* A refresh from the weights of the table gives the weights and the output
\* of the new table.
LEMMA RefreshIs ==
  ASSUME TypeOK, NEW c \in Conns, HasView, ~Committed(store.rows, conn[c].ops).over,
         Recovered = Counts(store.rows), store.state = Counts(store.rows),
         store.out = Distinct(store.rows)
  PROVE  /\ Processed(c) = Counts(Batch(c).rows)
         /\ Batch(c).state = Counts(Batch(c).rows)
         /\ Batch(c).out = Distinct(Batch(c).rows)
<1> DEFINE kept == Committed(store.rows, conn[c].ops)
<1>1. store.rows \in Tables /\ IsFiniteSet(Filled(store.rows)) /\ conn[c].ops \in Seq(Operations)
  <2>1. conn[c] \in Sessions
    BY DEF TypeOK
  <2>2. QED
    BY <2>1, StateFields, SessionFields
<1>2. Counts(kept.rows) = Plus(Counts(store.rows), Delta(kept.ops))
  BY <1>1, CommittedFacts
<1>3. Processed(c) = Counts(kept.rows)
  BY <1>2 DEF Processed
<1>4. kept.rows \in Tables /\ IsFiniteSet(Filled(kept.rows))
  BY KeptTypes
<1>5. Batch(c).rows = kept.rows
  BY DEF Batch
<1>6. /\ Batch(c).state = Persisted(store.state, Recovered, Processed(c))
      /\ Batch(c).out = Plus(store.out, Crossing(Recovered, Processed(c)))
  BY DEF Batch
<1> HIDE DEF kept
<1>7. Persisted(store.state, Recovered, Processed(c)) = Counts(kept.rows)
  <2>1. Counts(store.rows) \in Weights /\ Counts(kept.rows) \in Weights
    BY <1>1, <1>4, CountsType
  <2>2. Persisted(Counts(store.rows), Counts(store.rows), Counts(kept.rows)) = Counts(kept.rows)
    BY <2>1, PersistedIs
  <2>3. QED
    BY <1>3, <2>2
<1>8. Plus(store.out, Crossing(Recovered, Processed(c))) = Distinct(kept.rows)
  <2>1. Plus(Distinct(store.rows), Crossing(Counts(store.rows), Counts(kept.rows))) = Distinct(kept.rows)
    BY <1>1, <1>4, CrossingIs
  <2>2. QED
    BY <1>3, <2>1
<1>9. QED
  BY <1>3, <1>5, <1>6, <1>7, <1>8

\* Where the view has got to is kept by every step.
LEMMA ViewStep ==
  ASSUME TypeOK, LockIsHeld, ViewFollows, [Next]_vars
  PROVE  ViewFollows'
<1>1. /\ store.rows \in Tables /\ IsFiniteSet(Filled(store.rows)) /\ store.state \in Weights
      /\ arr \in Weights /\ Counts(store.rows) \in Weights /\ Flushed \in {store, durable}
  BY StateFields, CountsType, FlushedType
<1>2. hist \in Histories /\ store \in Stores /\ conn \in [Conns -> Sessions]
  BY DEF TypeOK
<1>3. ASSUME NEW c \in Conns
      PROVE  /\ Answered(c) \in Sessions /\ Answered(c).pc = "idle"
             /\ Refused(c) \in Sessions /\ Refused(c).pc = "idle"
  <2>1. conn[c] \in Sessions
    BY <1>2
  <2>2. QED
    BY <2>1, AnswerTypes
\* The lock is not taken by a session that is told something.
<1>4. ASSUME NEW c \in Conns, NEW r \in Sessions, r.pc \notin {"writing", "flush"},
             conn' = [conn EXCEPT ![c] = r]
      PROVE  /\ LockHeld' => LockHeld
             /\ Holder(c) => ~LockHeld /\ ~LockHeld'
             /\ conn[c].pc \in {"writing", "flush"} => ~LockHeld'
  <2>1. \A d \in Conns : conn'[d].pc \in {"writing", "flush"} => conn[d].pc \in {"writing", "flush"} /\ d # c
    BY <1>2, <1>4
  <2>2. Holder(c) => ~LockHeld
    BY DEF Holder, LockHeld, LockIsHeld
  <2>3. conn[c].pc \in {"writing", "flush"} => \A d \in Conns : conn[d].pc \in {"writing", "flush"} => d = c
    BY DEF LockIsHeld
  <2>4. QED
    BY <2>1, <2>2, <2>3 DEF LockHeld
\* The table, the output and the state stay; a restoration spoils a view
\* that is being built.
<1>5. ASSUME store' = store, durable' \in {durable, store}, view' = view, ~hist'.spoiled => ~hist.spoiled,
             \/ arr' = arr /\ ((~pending' \/ LockHeld') => (~pending \/ LockHeld))
             \/ arr' = Restored /\ (Building => hist'.spoiled)
             \/ arr' = Recovered /\ (pending /\ Building => hist'.spoiled)
             \/ pending' /\ ~LockHeld' /\ (Building => hist'.spoiled)
      PROVE  ViewFollows'
  <2>1. SUFFICES ASSUME ~hist'.spoiled
                 PROVE  /\ view = "registered" => arr' = Zero /\ store.out = Zero /\ store.state = Zero
                        /\ view = "written" =>
                              /\ arr' = Counts(store.rows) /\ store.out = Distinct(store.rows)
                              /\ store.state = Zero
                        /\ view = "ready" =>
                              /\ Refreshed(store)
                              /\ (~pending' \/ LockHeld') => arr' = Counts(store.rows)
    <3>1. ~hist'.spoiled => /\ Building => durable = store
                            /\ view = "ready" => Refreshed(store) /\ Refreshed(durable)
      BY <1>5 DEF ViewFollows
    <3>2. ~hist'.spoiled => /\ Building => durable' = store'
                            /\ view = "ready" => Refreshed(store') /\ Refreshed(durable')
      BY <1>5, <3>1
    <3>3. Building' = Building
      BY <1>5 DEF Building
    <3>4. Counts(store'.rows) = Counts(store.rows) /\ Distinct(store'.rows) = Distinct(store.rows)
      BY <1>5
    <3>5. QED
      BY <1>5, <3>2, <3>3, <3>4 DEF ViewFollows, Refreshed, Distinct, Counts
  <2>2. CASE arr' = arr /\ ((~pending' \/ LockHeld') => (~pending \/ LockHeld))
    BY <1>5, <2>1, <2>2 DEF ViewFollows
  <2>3. CASE arr' = Restored /\ (Building => hist'.spoiled)
    BY <1>5, <2>1, <2>3 DEF ViewFollows, Restored, Refreshed, Building
  <2>4. CASE arr' = Recovered /\ (pending /\ Building => hist'.spoiled)
    BY <1>5, <2>1, <2>4 DEF ViewFollows, Restored, Recovered, Refreshed, Building
  <2>5. CASE pending' /\ ~LockHeld' /\ (Building => hist'.spoiled)
    BY <1>5, <2>1, <2>5 DEF ViewFollows, Building
  <2>6. QED
    BY <1>5, <2>2, <2>3, <2>4, <2>5
\* A batch is written.
<1>6. ASSUME NEW c \in Conns, store' = Batch(c), durable' \in {durable, store}, view' = view,
             hist'.spoiled = (hist.spoiled \/ Building
                               \/ (HasView /\ Committed(store.rows, conn[c].ops).over)),
             arr' = Processed(c) \/ ~HasView
      PROVE  ViewFollows'
  <2>1. SUFFICES ASSUME ~hist'.spoiled, view \in {"registered", "written", "ready"}
                 PROVE  ViewFollows'
    BY <1>6 DEF ViewFollows, Building
  <2>2. HasView
    BY <2>1 DEF HasView
  <2>3. ~hist.spoiled /\ ~Building /\ ~Committed(store.rows, conn[c].ops).over
    BY <1>6, <2>1, <2>2
  <2>4. view = "ready"
    BY <2>1, <2>3 DEF Building
  <2>5. /\ Recovered = Counts(store.rows) /\ store.state = Counts(store.rows)
        /\ store.out = Distinct(store.rows) /\ Refreshed(store) /\ Refreshed(durable)
    BY <2>3, <2>4 DEF ViewFollows, Recovered, Restored, Refreshed
  <2>6. /\ Processed(c) = Counts(Batch(c).rows) /\ Batch(c).state = Counts(Batch(c).rows)
        /\ Batch(c).out = Distinct(Batch(c).rows)
    BY <2>2, <2>3, <2>5, RefreshIs
  <2>7. arr' = Counts(Batch(c).rows)
    BY <1>6, <2>2, <2>6
  <2>8. Refreshed(durable') /\ ~Building'
    BY <1>6, <2>3, <2>5 DEF Building
  <2>9. QED
    BY <1>6, <2>4, <2>6, <2>7, <2>8 DEF ViewFollows, Refreshed, Counts, Distinct
<1>10. CASE UNCHANGED vars
  BY <1>5, <1>10 DEF vars, gatewayVars, LockHeld
<1>11. ASSUME NEW c \in Conns, Statement(c) PROVE ViewFollows'
  <2>1. LockHeld' => LockHeld
    BY <1>4, <1>11 DEF Statement
  <2>2. QED
    BY <1>5, <1>11, <2>1 DEF Statement
<1>12. ASSUME NEW c \in Conns, CommitReplayed(c) PROVE ViewFollows'
  <2>1. LockHeld' => LockHeld
    BY <1>3, <1>4, <1>12 DEF CommitReplayed
  <2>2. hist'.spoiled = hist.spoiled
    BY <1>2, <1>12 DEF CommitReplayed, Histories
  <2>3. QED
    BY <1>5, <1>12, <2>1, <2>2 DEF CommitReplayed
<1>28. ASSUME NEW c \in Conns, CommitEmpty(c) PROVE ViewFollows'
  <2>1. LockHeld' => LockHeld
    BY <1>3, <1>4, <1>28 DEF CommitEmpty
  <2>2. hist'.spoiled = hist.spoiled
    BY <1>2, <1>28 DEF CommitEmpty, Histories
  <2>3. QED
    BY <1>5, <1>28, <2>1, <2>2 DEF CommitEmpty
<1>13. ASSUME NEW c \in Conns, Enqueue(c) PROVE ViewFollows'
  <2>1. LockHeld' => LockHeld
    BY <1>2, <1>13 DEF Enqueue, LockHeld
  <2>2. hist'.spoiled = hist.spoiled
    BY <1>2, <1>13 DEF Enqueue, Histories
  <2>3. QED
    BY <1>5, <1>13, <2>1, <2>2 DEF Enqueue
<1>14. ASSUME NEW c \in Conns, RecoveryFails(c) PROVE ViewFollows'
  <2>1. LockHeld' => LockHeld
    BY <1>3, <1>4, <1>14 DEF RecoveryFails
  <2>2. QED
    BY <1>5, <1>14, <2>1 DEF RecoveryFails
<1>15. ASSUME NEW c \in Conns, RowsUnreadable(c) \/ CommitNothing(c) PROVE ViewFollows'
  <2>1. hist'.spoiled = (hist.spoiled \/ (pending /\ Building))
    BY <1>2, <1>15 DEF RowsUnreadable, CommitNothing, Histories
  <2>2. QED
    BY <1>1, <1>5, <1>15, <2>1 DEF RowsUnreadable, CommitNothing
<1>16. ASSUME NEW c \in Conns, WriteFails(c) PROVE ViewFollows'
  <2>1. hist'.spoiled = (hist.spoiled \/ Building)
    BY <1>2, <1>16 DEF WriteFails, Histories
  <2>2. ~LockHeld'
    BY <1>3, <1>4, <1>16 DEF WriteFails, Writes
  <2>3. CASE HasView
    BY <1>1, <1>5, <1>16, <2>1, <2>2, <2>3 DEF WriteFails
  <2>4. CASE ~HasView
    BY <1>16, <2>4 DEF WriteFails, HasView, Building, ViewFollows
  <2>5. QED
    BY <2>3, <2>4
<1>17. ASSUME NEW c \in Conns, WriteVisible(c) PROVE ViewFollows'
  <2>1. hist'.spoiled = (hist.spoiled \/ Building
                          \/ (HasView /\ Committed(store.rows, conn[c].ops).over))
    BY <1>2, <1>17 DEF WriteVisible, Histories
  <2>2. QED
    BY <1>1, <1>6, <1>17, <2>1 DEF WriteVisible
<1>29. ASSUME NEW c \in Conns, WriteDurable(c) PROVE ViewFollows'
  <2>1. LockHeld
    BY <1>29 DEF WriteDurable, LockHeld
  <2>2. QED
    BY <1>5, <1>29, <2>1 DEF WriteDurable
<1>30. ASSUME NEW c \in Conns, AwaitFails(c) PROVE ViewFollows'
  <2>1. hist'.spoiled = (hist.spoiled \/ (pending /\ Building))
    BY <1>2, <1>30 DEF AwaitFails, Histories
  <2>2. LockHeld /\ (~pending' \/ LockHeld' => ~pending \/ LockHeld)
    BY <1>30 DEF AwaitFails, LockHeld
  <2>3. CASE arr' = Recovered /\ durable' = Flushed
    BY <1>1, <1>5, <1>30, <2>1, <2>3 DEF AwaitFails
  <2>4. CASE UNCHANGED <<arr, durable, pending>>
    BY <1>5, <1>30, <2>1, <2>2, <2>4 DEF AwaitFails
  <2>5. QED
    BY <1>30, <2>3, <2>4 DEF AwaitFails
<1>31. CASE WalFlush
  <2>1. LockHeld' = LockHeld
    BY <1>31 DEF WalFlush, LockHeld
  <2>2. QED
    BY <1>5, <1>31, <2>1 DEF WalFlush
<1>18. ASSUME NEW c \in Conns, FlushSucceeds(c) \/ FlushFails(c) PROVE ViewFollows'
  <2>1. LockHeld
    BY <1>18 DEF FlushSucceeds, FlushFails, LockHeld
  <2>2. hist'.spoiled = hist.spoiled
    BY <1>2, <1>18 DEF FlushSucceeds, FlushFails, Histories
  <2>3. QED
    BY <1>5, <1>18, <2>1, <2>2 DEF FlushSucceeds, FlushFails
<1>19. CASE EnsureViewConsistency
  <2>1. hist'.spoiled = (hist.spoiled \/ Building)
    BY <1>2, <1>19 DEF EnsureViewConsistency, Histories
  <2>2. QED
    BY <1>5, <1>19, <2>1 DEF EnsureViewConsistency
<1>20. CASE CreateView
  <2>1. hist'.spoiled = (store.state # Zero)
    BY <1>2, <1>20 DEF CreateView, Histories
  <2>2. store'.out = Zero /\ store'.state = store.state
    BY <1>2, <1>20 DEF CreateView, Stores
  <2>3. QED
    BY <1>20, <2>1, <2>2 DEF CreateView, ViewFollows, Zero
<1>21. CASE Populate
  <2>1. SUFFICES ASSUME ~hist.spoiled PROVE ViewFollows'
    BY <1>21 DEF Populate, ViewFollows
  <2>2. arr = Zero /\ store.out = Zero /\ store.state = Zero
    BY <1>21, <2>1 DEF Populate, ViewFollows
  <2>3. arr' = Counts(store.rows)
    BY <1>1, <1>21, <2>2, CrossingIs DEF Populate
  <2>4. /\ store'.out = Distinct(store.rows) /\ store'.state = Zero /\ store'.rows = store.rows
    <3>1. Plus(Zero, Crossing(Zero, Counts(store.rows))) = Distinct(store.rows)
      BY <1>1, CrossingIs
    <3>2. /\ store'.out = Plus(store.out, Crossing(arr, arr')) /\ store'.state = store.state
          /\ store'.rows = store.rows
      BY <1>2, <1>21 DEF Populate, Stores
    <3>3. QED
      BY <2>2, <2>3, <3>1, <3>2
  <2>5. view' = "written" \/ (view' = "ready" /\ Counts(store.rows) = Zero)
    BY <1>21 DEF Populate
  <2>6. Counts(store'.rows) = Counts(store.rows) /\ Distinct(store'.rows) = Distinct(store.rows)
    BY <2>4
  <2>7. durable' = store'
    <3>1. durable = store
      BY <1>21, <2>1 DEF Populate, ViewFollows, Building
    <3>2. QED
      BY <1>21, <3>1 DEF Populate
  <2>8. view' = "ready" => Refreshed(store') /\ Refreshed(durable')
    BY <2>4, <2>5, <2>6, <2>7 DEF Refreshed
  <2>9. QED
    BY <2>3, <2>4, <2>5, <2>6, <2>7, <2>8 DEF ViewFollows, Refreshed, Counts, Distinct, Zero
<1>22. CASE PersistView
  <2>1. SUFFICES ASSUME ~hist.spoiled PROVE ViewFollows'
    BY <1>22 DEF PersistView, ViewFollows
  <2>2. arr = Counts(store.rows) /\ store.out = Distinct(store.rows) /\ store.state = Zero
    BY <1>22, <2>1 DEF PersistView, ViewFollows
  <2>3. /\ store'.state = Persisted(store.state, Zero, arr) /\ store'.out = store.out
        /\ store'.rows = store.rows /\ view' = "ready" /\ arr' = arr /\ durable' = store'
    BY <1>2, <1>22 DEF PersistView, Stores
  <2>4. store'.state = Counts(store.rows)
    BY <1>1, <2>2, <2>3, PersistedIs, FreshType
  <2>5. Refreshed(store') /\ Refreshed(durable') /\ ~Building'
    BY <2>2, <2>3, <2>4 DEF Refreshed, Building
  <2>6. arr' = Counts(store'.rows)
    BY <2>2, <2>3
  <2>7. QED
    BY <2>3, <2>5, <2>6 DEF ViewFollows, Refreshed, Counts, Distinct
<1>23. CASE PopulateFails \/ DropView
  BY <1>23 DEF PopulateFails, DropView, ViewFollows, Building
<1>24. CASE Subscribe
  <2>1. hist'.spoiled = (hist.spoiled \/ (pending /\ Building))
    BY <1>2, <1>24 DEF Subscribe, Histories
  <2>2. QED
    BY <1>1, <1>5, <1>24, <2>1 DEF Subscribe
<1>25. CASE Restart
  <2>1. /\ store' = durable /\ durable' = durable /\ arr' = durable.state /\ hist' = hist
        /\ view' = IF Building THEN "broken" ELSE view
    BY <1>25 DEF Restart
  <2>2. ~Building' /\ view' # "registered" /\ view' # "written"
    BY <2>1 DEF Building
  <2>3. view' = "ready" /\ ~hist.spoiled => Refreshed(durable)
    BY <2>1 DEF ViewFollows
  <2>4. QED
    BY <2>1, <2>2, <2>3 DEF ViewFollows, Refreshed, Counts, Distinct
<1>26. CASE Follow /\ UNCHANGED <<gatewayVars, hist>>
  BY <1>5, <1>26 DEF gatewayVars, LockHeld
<1>27. QED
  BY <1>10, <1>11, <1>12, <1>13, <1>14, <1>15, <1>16, <1>17, <1>18, <1>19, <1>20, <1>21, <1>22, <1>23,
     <1>24, <1>25, <1>26, <1>28, <1>29, <1>30, <1>31, StepKinds

\* A view that follows the table is the query over it.
LEMMA ViewIsRight ==
  ASSUME TypeOK, ViewFollows
  PROVE  ViewMatchesTable
<1>1. SUFFICES ASSUME view = "ready", ~hist.spoiled, NEW v \in Vals
               PROVE  /\ store.state[v] = Counts(store.rows)[v]
                      /\ store.out[v] = IF Counts(store.rows)[v] > 0 THEN 1 ELSE 0
  BY DEF ViewMatchesTable
<1>2. store.state = Counts(store.rows) /\ store.out = Distinct(store.rows)
  BY <1>1 DEF ViewFollows, Refreshed
<1>3. QED
  BY <1>1, <1>2 DEF Distinct

-----------------------------------------------------------------------------
(* The replay log *)

\* The largest element of a set of numbers that has one.
LEMMA MaxIs ==
  ASSUME NEW A \in SUBSET Nat, NEW x \in A, \A y \in A : y <= x
  PROVE  Max(A) = x
<1>1. \A y \in A : x >= y
  OBVIOUS
<1>2. Max(A) \in A /\ \A y \in A : Max(A) >= y
  BY <1>1 DEF Max
<1>3. x \in Nat /\ Max(A) \in Nat /\ Max(A) >= x /\ Max(A) <= x
  BY <1>2
<1>4. QED
  BY <1>3

\* The indices of the rest of a sequence, in the whole of it.
Shift(k, s) == (1..k) \cup {j + k : j \in s}

\* Epochs that are older than the one asked for may be discarded.
LEMMA FoldDrop ==
  ASSUME NEW epoch \in Nat, NEW seq \in Seq(Epochs), NEW k \in 0..Len(seq),
         \A i \in 1..k : seq[i].epoch < epoch
  PROVE  Fold(SelectStep(epoch), <<>>, SubSeq(seq, k + 1, Len(seq))) = Fold(SelectStep(epoch), <<>>, seq)
<1> DEFINE kept == SubSeq(seq, k + 1, Len(seq))
           n == Len(seq)
           st == SelectStep(epoch)
<1>1. n \in Nat /\ k \in Nat /\ k <= n /\ \A i \in 1..n : seq[i] \in Epochs /\ seq[i].epoch \in Nat
  <2>1. n \in Nat /\ k \in Nat /\ k <= n /\ \A i \in 1..n : seq[i] \in Epochs
    OBVIOUS
  <2>2. \A e \in Epochs : e.epoch \in Nat
    BY DEF Epochs
  <2>3. QED
    BY <2>1, <2>2
<1>2. kept \in Seq(Epochs) /\ Len(kept) = n - k /\ \A i \in 1..(n - k) : kept[i] = seq[i + k]
  BY <1>1
<1> HIDE DEF kept, st
<1>3. DOMAIN kept = 1..(n - k) /\ DOMAIN seq = 1..n
  BY <1>2
<1>4. PICK g : Folding(st, <<>>, seq, DOMAIN seq, g) /\ Fold(st, <<>>, seq) = g[DOMAIN seq]
  BY FoldingChosen
<1>5. PICK h : Folding(st, <<>>, kept, DOMAIN kept, h) /\ Fold(st, <<>>, kept) = h[DOMAIN kept]
  BY <1>2, FoldingChosen
<1>6. /\ \A s \in SUBSET (1..n) : g[s] = IF s = {} THEN <<>> ELSE st[<<g[s \ {Max(s)}], seq[Max(s)]>>]
      /\ \A s \in SUBSET (1..(n - k)) : h[s] = IF s = {} THEN <<>> ELSE st[<<h[s \ {Max(s)}], kept[Max(s)]>>]
  BY <1>3, <1>4, <1>5 DEF Folding
<1>7. /\ 1..n \in SUBSET Nat /\ IsFiniteSet(1..n)
      /\ 1..(n - k) \in SUBSET Nat /\ IsFiniteSet(1..(n - k))
      /\ 1..k \in SUBSET Nat /\ IsFiniteSet(1..k) /\ 1..k \in SUBSET (1..n)
  <2>1. 1 \in Int /\ n \in Int /\ n - k \in Int /\ k \in Int
    BY <1>1
  <2>2. IsFiniteSet(1..n) /\ IsFiniteSet(1..(n - k)) /\ IsFiniteSet(1..k)
    BY <2>1, FS_Interval
  <2>3. QED
    BY <1>1, <2>2
<1>8. g[1..k] = <<>>
  <2> DEFINE T == {s \in SUBSET (1..k) : g[s] = <<>>}
  <2>1. {} \in T
    BY <1>6
  <2>2. ASSUME NEW s \in SUBSET (1..k), s # {}, s \ {Max(s)} \in T PROVE s \in T
    <3>1. Max(s) \in s
      <4>1. s \in SUBSET Nat /\ IsFiniteSet(s)
        BY <1>7, FS_Subset
      <4>2. QED
        BY <2>2, <4>1, MaxIn
    <3>2. seq[Max(s)] \in Epochs /\ seq[Max(s)].epoch < epoch /\ seq[Max(s)].epoch \in Nat
      BY <1>1, <1>7, <3>1
    <3>3. g[s] = st[<<<<>>, seq[Max(s)]>>]
      BY <1>6, <1>7, <2>2
    <3>4. st[<<<<>>, seq[Max(s)]>>] = Select(epoch, <<>>, seq[Max(s)])
      <4>1. <<>> \in Seq(Epochs)
        OBVIOUS
      <4>2. QED
        BY <3>2, <4>1, SelectType DEF st
    <3>5. Select(epoch, <<>>, seq[Max(s)]) = <<>>
      BY <3>2 DEF Select
    <3>6. QED
      BY <3>3, <3>4, <3>5
  <2>3. T \in SUBSET SUBSET (1..k)
    OBVIOUS
  <2>4. T = SUBSET (1..k)
    <3> HIDE DEF T
    <3>1. QED
      BY <1>7, <2>1, <2>2, <2>3, FoldInduction
  <2>5. 1..k \in T
    BY <2>4
  <2>6. QED
    BY <2>5
<1> DEFINE T == {s \in SUBSET (1..(n - k)) : h[s] = g[Shift(k, s)]}
<1>9. {} \in T
  <2>1. Shift(k, {}) = 1..k
    BY DEF Shift
  <2>2. h[{}] = <<>>
    BY <1>6
  <2>3. QED
    BY <1>8, <2>1, <2>2
<1>10. ASSUME NEW s \in SUBSET (1..(n - k)), s # {}, s \ {Max(s)} \in T PROVE s \in T
  <2> DEFINE m == Max(s)
  <2>1. m \in s /\ (\A y \in s : y <= m) /\ m \in 1..(n - k)
    <3>1. s \in SUBSET Nat /\ IsFiniteSet(s)
      BY <1>7, FS_Subset
    <3>2. QED
      BY <1>10, <3>1, MaxIn
  <2> HIDE DEF m
  <2>2. Shift(k, s) \in SUBSET (1..n) /\ m + k \in Shift(k, s) /\ \A y \in Shift(k, s) : y <= m + k
    BY <1>1, <2>1 DEF Shift
  <2>3. Max(Shift(k, s)) = m + k
    <3> DEFINE A == Shift(k, s)
               x == m + k
    <3>1. A \in SUBSET Nat /\ x \in A /\ \A y \in A : y <= x
      BY <1>7, <2>2
    <3> HIDE DEF A, x
    <3>2. Max(A) = x
      BY <3>1, MaxIs
    <3>3. QED
      BY <3>2 DEF A, x
  <2>4. Shift(k, s) \ {m + k} = Shift(k, s \ {m})
    <3>1. m \in Nat /\ m >= 1 /\ k \in Nat /\ s \in SUBSET Nat /\ m + k \notin 1..k
      BY <1>1, <1>7, <2>1
    <3>2. \A j \in s : j + k = m + k <=> j = m
      BY <3>1
    <3>3. {j + k : j \in s} \ {m + k} = {j + k : j \in s \ {m}}
      BY <3>2
    <3>4. QED
      BY <3>1, <3>3 DEF Shift
  <2>5. g[Shift(k, s)] = st[<<g[Shift(k, s \ {m})], seq[m + k]>>]
    <3>1. Shift(k, s) # {}
      BY <2>2
    <3>2. QED
      BY <1>6, <2>2, <2>3, <2>4, <3>1
  <2>6. h[s] = st[<<h[s \ {m}], kept[m]>>]
    BY <1>6, <1>10 DEF m
  <2>7. kept[m] = seq[m + k] /\ h[s \ {m}] = g[Shift(k, s \ {m})]
    BY <1>2, <1>10, <2>1 DEF m
  <2>8. QED
    BY <2>5, <2>6, <2>7
<1>11. T = SUBSET (1..(n - k))
  <2>1. T \in SUBSET SUBSET (1..(n - k))
    OBVIOUS
  <2> HIDE DEF T
  <2>2. QED
    BY <1>7, <1>9, <1>10, <2>1, FoldInduction
<1>12. h[1..(n - k)] = g[Shift(k, 1..(n - k))]
  <2>1. 1..(n - k) \in T
    BY <1>11
  <2>2. QED
    BY <2>1
<1>13. Shift(k, 1..(n - k)) = 1..n
  <2>1. \A i \in 1..n : i \in 1..k \/ \E j \in 1..(n - k) : i = j + k
    <3>1. ASSUME NEW i \in 1..n, i \notin 1..k PROVE i - k \in 1..(n - k) /\ i = (i - k) + k
      BY <1>1, <3>1
    <3>2. QED
      BY <3>1
  <2>2. \A j \in 1..(n - k) : j + k \in 1..n
    BY <1>1
  <2>3. QED
    BY <1>7, <2>1, <2>2 DEF Shift
<1>14. QED
  BY <1>3, <1>4, <1>5, <1>12, <1>13 DEF kept, st

\* What the client has summed up and will still be sent is a weight for each
\* value.
LEMMA SummedType ==
  ASSUME NEW l \in Logs, NEW s \in Clients
  PROVE  Summed(l, s) \in Weights /\ s.last + 1 \in Nat /\ s.acc \in Weights /\ s.last \in Nat
<1>1. s.acc \in Weights /\ s.last + 1 \in Nat /\ s.last \in Nat
  BY DEF Clients
<1>2. Since(l, s.last + 1) \in Seq(Epochs)
  BY <1>1, SinceFacts
<1> DEFINE seq == Since(l, s.last + 1)
<1> HIDE DEF seq
<1>3. FoldLeft(LAMBDA a, e : Plus(a, e.delta), s.acc, seq) \in Weights
  BY <1>1, <1>2, SumType DEF seq
<1>4. QED
  BY <1>1, <1>3 DEF Summed, seq

\* poll has nothing to send to a client that has seen every retained epoch.
LEMMA NothingOwed ==
  ASSUME NEW l \in Logs, NEW s \in Clients, \A i \in DOMAIN l.entries : l.entries[i].epoch <= s.last
  PROVE  Since(l, s.last + 1) = <<>> /\ Summed(l, s) = s.acc
<1>1. s.acc \in Weights /\ s.last + 1 \in Nat /\ s.last \in Nat
  BY DEF Clients
<1>2. \A i \in DOMAIN l.entries : l.entries[i].epoch \in Nat
  BY LogEntries
<1>3. Since(l, s.last + 1) = <<>>
  <2>1. SUFFICES ASSUME Since(l, s.last + 1) # <<>> PROVE FALSE
    OBVIOUS
  <2>2. PICK i \in DOMAIN l.entries : l.entries[i].epoch >= s.last + 1
    BY <1>1, <2>1, SinceFacts
  <2>3. QED
    BY <1>1, <1>2, <2>2
<1>4. <<>> \in Seq(Epochs)
  OBVIOUS
<1>5. FoldLeft(LAMBDA a, e : Plus(a, e.delta), s.acc, <<>>) = Fold(PlusStep, s.acc, <<>>)
  BY <1>1, <1>4, SumIsFold
<1>6. Fold(PlusStep, s.acc, <<>>) = s.acc
  BY FoldEmpty
<1>7. QED
  BY <1>3, <1>5, <1>6 DEF Summed

\* push_epoch owes the client one epoch more, when none of those it evicts is
\* owed to it.
LEMMA OneMoreOwed ==
  ASSUME NEW l \in Logs, NEW s \in Clients, NEW e \in Epochs, NEW k \in 0..Len(l.entries),
         s.last < e.epoch, \A i \in 1..k : l.entries[i].epoch <= s.last,
         Evicts(l, e, k) \in Logs
  PROVE  Summed(Evicts(l, e, k), s) = Plus(Summed(l, s), e.delta)
<1> DEFINE n == s.last + 1
           m == Evicts(l, e, k)
           cut == SubSeq(l.entries, k + 1, Len(l.entries))
<1>1. s.acc \in Weights /\ n \in Nat /\ s.last \in Nat /\ e.epoch \in Nat /\ e.epoch >= n
  BY DEF Clients, Epochs
<1>2. /\ l.entries \in Seq(Epochs) /\ Len(l.entries) \in Nat /\ DOMAIN l.entries = 1..Len(l.entries)
      /\ \A i \in DOMAIN l.entries : l.entries[i].epoch \in Nat
  BY LogEntries
<1>3. cut \in Seq(Epochs)
  BY <1>2
<1>4. m \in Logs /\ m.entries = Append(cut, e) /\ m.entries \in Seq(Epochs)
  <2>1. m.entries = Append(cut, e)
    BY DEF Evicts
  <2>2. QED
    BY <1>3, <2>1
<1>5. Fold(SelectStep(n), <<>>, cut) = Fold(SelectStep(n), <<>>, l.entries)
  <2>1. \A i \in 1..k : l.entries[i].epoch < n
    BY <1>1, <1>2
  <2> HIDE DEF n
  <2>2. QED
    BY <1>1, <1>2, <2>1, FoldDrop
<1>6. Since(l, n) = Fold(SelectStep(n), <<>>, l.entries) /\ Since(l, n) \in Seq(Epochs)
  <2> HIDE DEF n
  <2>1. QED
    BY <1>1, <1>2, SinceIsFold, SinceFacts
<1>7. Since(m, n) = Append(Since(l, n), e)
  <2> HIDE DEF n, m, cut
  <2>1. Since(m, n) = Fold(SelectStep(n), <<>>, Append(cut, e))
    BY <1>1, <1>4, SinceIsFold
  <2>2. Fold(SelectStep(n), <<>>, Append(cut, e)) = SelectStep(n)[<<Fold(SelectStep(n), <<>>, cut), e>>]
    BY <1>3, FoldAppend
  <2>3. SelectStep(n)[<<Since(l, n), e>>] = Select(n, Since(l, n), e)
    BY <1>1, <1>6, SelectType
  <2>4. Select(n, Since(l, n), e) = Append(Since(l, n), e)
    BY <1>1 DEF Select
  <2>5. QED
    BY <1>5, <1>6, <2>1, <2>2, <2>3, <2>4
<1> DEFINE owed == Since(l, n)
<1>8. owed \in Seq(Epochs) /\ Append(owed, e) \in Seq(Epochs)
  BY <1>6
<1>9. FoldLeft(LAMBDA a, x : Plus(a, x.delta), s.acc, Append(owed, e))
        = Plus(FoldLeft(LAMBDA a, x : Plus(a, x.delta), s.acc, owed), e.delta)
  <2> HIDE DEF owed
  <2>1. FoldLeft(LAMBDA a, x : Plus(a, x.delta), s.acc, Append(owed, e)) = Fold(PlusStep, s.acc, Append(owed, e))
    BY <1>1, <1>8, SumIsFold
  <2>2. Fold(PlusStep, s.acc, Append(owed, e)) = PlusStep[<<Fold(PlusStep, s.acc, owed), e>>]
    BY <1>8, FoldAppend
  <2>3. FoldLeft(LAMBDA a, x : Plus(a, x.delta), s.acc, owed) = Fold(PlusStep, s.acc, owed)
    BY <1>1, <1>8, SumIsFold
  <2>4. FoldLeft(LAMBDA a, x : Plus(a, x.delta), s.acc, owed) \in Weights
    BY <1>1, <1>8, SumType
  <2>5. PlusStep[<<Fold(PlusStep, s.acc, owed), e>>] = Plus(Fold(PlusStep, s.acc, owed), e.delta)
    BY <2>3, <2>4, PlusStepType
  <2>6. QED
    BY <2>1, <2>2, <2>3, <2>5
<1>10. Summed(m, s) = FoldLeft(LAMBDA a, x : Plus(a, x.delta), s.acc, Append(owed, e))
  BY <1>7 DEF Summed
<1>11. Summed(l, s) = FoldLeft(LAMBDA a, x : Plus(a, x.delta), s.acc, owed)
  BY DEF Summed
<1>12. QED
  BY <1>9, <1>10, <1>11

\* What is left of the log after an eviction, entry by entry.
LEMMA EvictedEntries ==
  ASSUME NEW l \in Logs, NEW e \in Epochs, NEW k \in 0..Len(l.entries)
  PROVE  LET s == Evicts(l, e, k).entries
             n == Len(l.entries) - k
         IN /\ n \in Nat /\ s \in Seq(Epochs) /\ Len(s) = n + 1 /\ DOMAIN s = 1..(n + 1)
            /\ s[n + 1] = e /\ \A i \in 1..n : s[i] = l.entries[i + k]
<1> DEFINE n == Len(l.entries) - k
           cut == SubSeq(l.entries, k + 1, Len(l.entries))
<1>1. l.entries \in Seq(Epochs) /\ Len(l.entries) \in Nat /\ n \in Nat /\ k \in Nat
  BY LogEntries
<1>2. cut \in Seq(Epochs) /\ Len(cut) = n /\ \A i \in 1..n : cut[i] = l.entries[i + k]
  BY <1>1
<1>3. Evicts(l, e, k).entries = Append(cut, e)
  BY DEF Evicts
<1> HIDE DEF n, cut
<1>4. /\ Append(cut, e) \in Seq(Epochs) /\ Len(Append(cut, e)) = n + 1
      /\ DOMAIN Append(cut, e) = 1..(n + 1)
      /\ Append(cut, e)[n + 1] = e /\ \A i \in 1..n : Append(cut, e)[i] = cut[i]
  BY <1>1, <1>2
<1>5. QED
  BY <1>1, <1>2, <1>3, <1>4 DEF n

\* push_epoch keeps the log in order.
LEMMA PushOrder ==
  ASSUME NEW l \in Logs, NEW e \in Epochs, e.epoch > l.latest, InOrder(l)
  PROVE  InOrder(PushEpoch(l, e)) /\ PushEpoch(l, e).latest = e.epoch
<1>1. /\ l.floor \in Nat /\ l.latest \in Nat /\ e.epoch \in Nat
      /\ Len(l.entries) \in Nat /\ DOMAIN l.entries = 1..Len(l.entries)
      /\ \A i \in DOMAIN l.entries : l.entries[i].epoch \in Nat
  BY LogEntries DEF Epochs
<1>2. CASE PushEpoch(l, e) = Overflows(e)
  BY <1>1, <1>2 DEF Overflows, InOrder
<1>3. ASSUME NEW k \in 0..Len(l.entries), PushEpoch(l, e) = Evicts(l, e, k)
      PROVE  InOrder(PushEpoch(l, e)) /\ PushEpoch(l, e).latest = e.epoch
  <2> DEFINE m == Evicts(l, e, k)
             n == Len(l.entries) - k
  <2>1. /\ n \in Nat /\ m.entries \in Seq(Epochs) /\ Len(m.entries) = n + 1
        /\ DOMAIN m.entries = 1..(n + 1)
        /\ m.entries[n + 1] = e /\ \A i \in 1..n : m.entries[i] = l.entries[i + k]
    BY EvictedEntries
  <2>2. m.latest = e.epoch /\ m.floor <= e.epoch + 1
    <3>1. m.latest = e.epoch /\ m.floor = IF k = 0 THEN l.floor ELSE Larger(l.floor, l.entries[k].epoch + 1)
      BY DEF Evicts
    <3>2. l.floor <= l.latest + 1
      BY DEF InOrder
    <3>3. k # 0 => l.entries[k].epoch \in Nat /\ l.entries[k].epoch <= l.latest
      <4>1. k # 0 => k \in DOMAIN l.entries
        BY <1>1
      <4>2. QED
        BY <1>1, <4>1 DEF InOrder
    <3> HIDE DEF m
    <3>4. QED
      BY <1>1, <3>1, <3>2, <3>3 DEF Larger
  <2>3. \A i \in 1..n : i + k \in DOMAIN l.entries
    BY <1>1
  <2> HIDE DEF m, n
  <2>4. ASSUME NEW i \in 1..n PROVE m.entries[i].epoch < e.epoch /\ m.entries[i].epoch \in Nat
    <3>1. m.entries[i] = l.entries[i + k] /\ i + k \in DOMAIN l.entries
      BY <2>1, <2>3
    <3>2. l.entries[i + k].epoch <= l.latest /\ l.entries[i + k].epoch \in Nat
      BY <1>1, <3>1 DEF InOrder
    <3>3. QED
      BY <1>1, <3>1, <3>2
  <2>5. ASSUME NEW i \in 1..n, NEW j \in 1..n, i < j PROVE m.entries[i].epoch < m.entries[j].epoch
    <3>1. m.entries[i] = l.entries[i + k] /\ i + k \in DOMAIN l.entries
      BY <2>1, <2>3
    <3>2. m.entries[j] = l.entries[j + k] /\ j + k \in DOMAIN l.entries
      BY <2>1, <2>3
    <3>3. i + k < j + k
      BY <2>1, <2>5
    <3>4. QED
      BY <3>1, <3>2, <3>3 DEF InOrder
  <2>6. \A i \in 1..(n + 1) : i \in 1..n \/ i = n + 1
    BY <2>1
  <2>7. \A i \in DOMAIN m.entries : m.entries[i].epoch <= m.latest
    BY <1>1, <2>1, <2>2, <2>4, <2>6
  <2>8. \A i, j \in DOMAIN m.entries : i < j => m.entries[i].epoch < m.entries[j].epoch
    BY <1>1, <2>1, <2>4, <2>5, <2>6
  <2>9. InOrder(m)
    BY <2>1, <2>2, <2>7, <2>8 DEF InOrder
  <2>10. QED
    BY <1>3, <2>2, <2>9 DEF m
<1>4. QED
  BY <1>2, <1>3, PushCases

\* The connection that holds the lock is the only one.
LEMMA HolderAlone ==
  ASSUME LockIsHeld, NEW c \in Conns
  PROVE  /\ Holder(c) => ~LockHeld
         /\ conn[c].pc \in {"writing", "flush"} =>
               /\ Head(queue) = c
               /\ \A d \in Conns : conn[d].pc \in {"writing", "flush"} => d = c
BY DEF LockIsHeld, Holder, LockHeld

\* The last epoch that poll sends is the newest of the log.
LEMMA OwedUpToLatest ==
  ASSUME NEW l \in Logs, InOrder(l), NEW n \in Nat, Since(l, n) # <<>>
  PROVE  Last(Since(l, n)).epoch = l.latest
<1>1. Since(l, n) \in Seq(Epochs)
  BY SinceFacts
<1>2. PICK i \in DOMAIN l.entries :
         /\ Since(l, n)[Len(Since(l, n))] = l.entries[i] /\ l.entries[i].epoch >= n
         /\ \A j \in DOMAIN l.entries : l.entries[j].epoch >= n => j <= i
  BY SinceFacts
<1>3. Last(Since(l, n)) = l.entries[i]
  <2> DEFINE s == Since(l, n)
  <2> HIDE DEF s
  <2>1. Last(s) = s[Len(s)]
    BY <1>1, LastOf DEF s
  <2>2. QED
    BY <1>2, <2>1 DEF s
<1>4. /\ Len(l.entries) \in Nat /\ DOMAIN l.entries = 1..Len(l.entries) /\ l.entries \in Seq(Epochs)
      /\ \A j \in DOMAIN l.entries : l.entries[j].epoch \in Nat
  BY LogEntries
<1>5. Len(l.entries) \in DOMAIN l.entries /\ i <= Len(l.entries) /\ l.entries # <<>>
  BY <1>4
<1>6. CASE i = Len(l.entries)
  BY <1>3, <1>5, <1>6 DEF InOrder
<1>7. CASE i < Len(l.entries)
  <2>1. l.entries[i].epoch < l.entries[Len(l.entries)].epoch
    BY <1>5, <1>7 DEF InOrder
  <2>2. l.entries[Len(l.entries)].epoch >= n
    BY <1>2, <1>4, <1>5, <2>1
  <2>3. Len(l.entries) <= i
    BY <1>2, <1>5, <2>2
  <2>4. QED
    BY <1>4, <1>7, <2>3
<1>8. QED
  BY <1>4, <1>5, <1>6, <1>7

\* Reading the log brings the client no further than the log.
LEMMA FollowOrder ==
  ASSUME TypeOK, InOrder(log), Follow
  PROVE  log' = log /\ (sub'.last = 0 \/ sub'.last = sub.last \/ sub'.last = log.latest)
<1>1. log \in Logs /\ sub \in Clients
  BY DEF TypeOK
<1>2. NoSub.last = 0
  BY DEF NoSub
<1>3. ASSUME NEW s \in Clients, s.last = sub.last
      PROVE  Polled(log, s).last = 0 \/ Polled(log, s).last = sub.last \/ Polled(log, s).last = log.latest
  <2>1. CASE Polled(log, s) = NoSub
    BY <1>2, <2>1
  <2>2. CASE Polled(log, s) = s
    BY <1>3, <2>2
  <2>3. CASE /\ Since(log, s.last + 1) # <<>>
             /\ Polled(log, s) = [s EXCEPT !.acc = Summed(log, s),
                                           !.last = Last(Since(log, s.last + 1)).epoch]
    <3>1. s.last + 1 \in Nat /\ s \in [st : {"off", "live", "away"}, acc : Weights, last : Nat, gap : BOOLEAN]
      BY DEF Clients
    <3>2. Last(Since(log, s.last + 1)).epoch = log.latest
      BY <1>1, <2>3, <3>1, OwedUpToLatest
    <3>3. Polled(log, s).last = Last(Since(log, s.last + 1)).epoch
      BY <2>3, <3>1
    <3>4. QED
      BY <3>2, <3>3
  <2>4. QED
    BY <1>1, <2>1, <2>2, <2>3, PolledFacts
<1>4. CASE Poll
  BY <1>1, <1>3, <1>4 DEF Poll
<1>5. CASE Disconnect
  BY <1>1, <1>5 DEF Disconnect, Clients
<1>6. CASE Resume
  <2>1. [sub EXCEPT !.st = "live"] \in Clients /\ [sub EXCEPT !.st = "live"].last = sub.last
    BY <1>1 DEF Clients
  <2>2. sub' = Polled(log, [sub EXCEPT !.st = "live"]) \/ sub' = NoSub
    BY <1>6 DEF Resume
  <2>3. log' = log
    BY <1>6 DEF Resume
  <2>4. QED
    BY <1>2, <1>3, <2>1, <2>2, <2>3
<1>7. QED
  BY <1>4, <1>5, <1>6 DEF Follow

\* Epochs are published in the order in which they were written.
LEMMA OrderStep ==
  ASSUME TypeOK, TypeOK', LockIsHeld, EpochsInOrder, InOrder(log), [Next]_vars
  PROVE  (EpochsInOrder /\ InOrder(log))'
<1>1. /\ conn \in [Conns -> Sessions] /\ log \in Logs /\ sub \in Clients
      /\ epochs.last \in Nat /\ epochs.alloc \in Nat /\ store.epoch \in Nat /\ log.latest \in Nat
      /\ durable.epoch \in Nat /\ Flushed \in {store, durable}
      /\ sub.last \in Nat /\ epochs \in [last : Nat, alloc : Nat]
  BY LogEntries, StateFields, FlushedType DEF TypeOK
<1>2. \A c \in Conns : conn[c] \in Sessions /\ conn[c].pub \in Epochs /\ conn[c].pub.epoch \in Nat
  <2>1. \A c \in Conns : conn[c].pub \in Epochs
    BY <1>1, SessionFields
  <2>2. QED
    BY <1>1, <2>1 DEF Epochs
<1>3. ASSUME log' = log, sub'.last \in {0, sub.last, log.latest}, epochs'.last = epochs.last,
             store'.epoch = store.epoch, durable'.epoch \in {durable.epoch, store.epoch},
             epochs'.alloc \in {epochs.alloc, epochs.alloc + 1},
             \A c \in Conns : conn'[c].pc \in {"writing", "flush"} =>
                 conn[c].pc = conn'[c].pc /\ conn'[c].pub = conn[c].pub
      PROVE  (EpochsInOrder /\ InOrder(log))'
  <2>1. InOrder(log)'
    BY <1>3 DEF InOrder
  <2>2. /\ epochs'.last <= durable'.epoch /\ durable'.epoch <= store'.epoch
        /\ store'.epoch <= epochs'.alloc
        /\ log'.latest <= epochs'.last /\ sub'.last <= epochs'.last
    BY <1>1, <1>3 DEF EpochsInOrder
  <2>3. \A c \in Conns : conn'[c].pc = "writing" =>
           conn'[c].pub.epoch = store'.epoch /\ epochs'.last < store'.epoch
    BY <1>1, <1>2, <1>3 DEF EpochsInOrder
  <2>4. \A c \in Conns : conn'[c].pc = "flush" =>
           /\ conn'[c].pub.epoch = epochs'.last
           /\ log'.latest < conn'[c].pub.epoch /\ sub'.last < conn'[c].pub.epoch
    BY <1>1, <1>2, <1>3 DEF EpochsInOrder
  <2>5. QED
    BY <2>1, <2>2, <2>3, <2>4 DEF EpochsInOrder
<1>4. ASSUME NEW c \in Conns, NEW r \in Sessions, r.pc \notin {"writing", "flush"},
             conn' = [conn EXCEPT ![c] = r]
      PROVE  \A d \in Conns : conn'[d].pc \in {"writing", "flush"} =>
                 conn[d].pc = conn'[d].pc /\ conn'[d].pub = conn[d].pub
  BY <1>1, <1>4
<1>5. ASSUME NEW c \in Conns
      PROVE  /\ Answered(c) \in Sessions /\ Answered(c).pc \notin {"writing", "flush"}
             /\ Refused(c) \in Sessions /\ Refused(c).pc \notin {"writing", "flush"}
             /\ Missed.last = sub.last
  BY <1>2, AnswerTypes, MissedType
<1>6. ASSUME NEW c \in Conns,
             \/ Statement(c) \/ CommitEmpty(c) \/ CommitReplayed(c) \/ RecoveryFails(c)
             \/ RowsUnreadable(c) \/ CommitNothing(c)
      PROVE  (EpochsInOrder /\ InOrder(log))'
  <2>1. UNCHANGED <<log, sub, epochs, store>> /\ durable' \in {durable, store}
    BY <1>1, <1>6 DEF Statement, CommitEmpty, CommitReplayed, RecoveryFails, RowsUnreadable, CommitNothing
  <2>2. \E r \in Sessions : r.pc \notin {"writing", "flush"} /\ conn' = [conn EXCEPT ![c] = r]
    BY <1>5, <1>6 DEF Statement, CommitEmpty, CommitReplayed, RecoveryFails, RowsUnreadable, CommitNothing
  <2>3. \A d \in Conns : conn'[d].pc \in {"writing", "flush"} =>
           conn[d].pc = conn'[d].pc /\ conn'[d].pub = conn[d].pub
    BY <1>4, <2>2
  <2>4. QED
    BY <1>3, <2>1, <2>3
<1>7. ASSUME NEW c \in Conns, Enqueue(c) PROVE (EpochsInOrder /\ InOrder(log))'
  <2>1. UNCHANGED <<log, sub, epochs, store, durable>>
    BY <1>7 DEF Enqueue
  <2>2. \A d \in Conns : conn'[d].pc \in {"writing", "flush"} =>
           conn[d].pc = conn'[d].pc /\ conn'[d].pub = conn[d].pub
    BY <1>1, <1>7 DEF Enqueue
  <2>3. QED
    BY <1>3, <2>1, <2>2
<1>8. ASSUME NEW c \in Conns, WriteFails(c) \/ AwaitFails(c) \/ FlushFails(c)
      PROVE  (EpochsInOrder /\ InOrder(log))'
  <2>1. /\ log' = log /\ sub'.last = sub.last /\ epochs'.last = epochs.last
        /\ epochs'.alloc \in {epochs.alloc, epochs.alloc + 1}
        /\ store' = store /\ durable' \in {durable, store}
    BY <1>1, <1>5, <1>8 DEF WriteFails, AwaitFails, FlushFails
  <2>2. conn' = [conn EXCEPT ![c] = Refused(c)]
    BY <1>8 DEF WriteFails, AwaitFails, FlushFails
  <2>3. \A d \in Conns : conn'[d].pc \in {"writing", "flush"} =>
           conn[d].pc = conn'[d].pc /\ conn'[d].pub = conn[d].pub
    BY <1>4, <1>5, <2>2
  <2>4. QED
    BY <1>3, <2>1, <2>3
<1>9. ASSUME NEW c \in Conns, WriteVisible(c) PROVE (EpochsInOrder /\ InOrder(log))'
  <2>1. log' = log /\ sub'.last = sub.last
    BY <1>5, <1>9 DEF WriteVisible
  <2>2. /\ store'.epoch = epochs.alloc + 1 /\ epochs'.last = epochs.last
        /\ epochs'.alloc = epochs.alloc + 1 /\ durable' \in {durable, store}
    BY <1>1, <1>9, BatchTypes DEF WriteVisible
  <2>3. Holder(c)
    BY <1>9 DEF WriteVisible, Writes
  <2>4. \A d \in Conns : conn[d].pc \notin {"writing", "flush"}
    BY <2>3, HolderAlone DEF LockHeld
  <2>5. \A d \in Conns : IF d = c THEN conn'[d].pub.epoch = epochs.alloc + 1 /\ conn'[d].pc = "writing"
                         ELSE conn'[d] = conn[d]
    BY <1>1, <1>9 DEF WriteVisible
  <2>6. /\ epochs'.last <= durable'.epoch /\ durable'.epoch <= store'.epoch
        /\ store'.epoch <= epochs'.alloc
        /\ log'.latest <= epochs'.last /\ sub'.last <= epochs'.last /\ epochs'.last < store'.epoch
    BY <1>1, <2>1, <2>2 DEF EpochsInOrder
  <2>7. EpochsInOrder'
    BY <2>2, <2>4, <2>5, <2>6 DEF EpochsInOrder
  <2>8. QED
    BY <2>1, <2>7 DEF InOrder
<1>16. ASSUME NEW c \in Conns, WriteDurable(c) PROVE (EpochsInOrder /\ InOrder(log))'
  <2>1. /\ UNCHANGED <<log, sub, store, durable>> /\ durable = store /\ conn[c].pc = "writing"
        /\ epochs'.last = conn[c].pub.epoch /\ epochs'.alloc = epochs.alloc
    BY <1>1, <1>16 DEF WriteDurable
  <2>2. /\ conn[c].pub.epoch = store.epoch /\ epochs.last < store.epoch
        /\ log.latest < store.epoch /\ sub.last < store.epoch
    BY <1>1, <2>1 DEF EpochsInOrder
  <2>3. \A d \in Conns : d # c => conn[d].pc \notin {"writing", "flush"}
    BY <2>1, HolderAlone
  <2>4. \A d \in Conns : IF d = c THEN conn'[d].pub = conn[c].pub /\ conn'[d].pc = "flush"
                         ELSE conn'[d] = conn[d]
    BY <1>1, <1>2, <1>16, SessionFields DEF WriteDurable
  <2>5. EpochsInOrder'
    BY <1>1, <2>1, <2>2, <2>3, <2>4 DEF EpochsInOrder
  <2>6. QED
    BY <2>1, <2>5 DEF InOrder
<1>10. ASSUME NEW c \in Conns, FlushSucceeds(c) PROVE (EpochsInOrder /\ InOrder(log))'
  <2>1. /\ conn[c].pc = "flush" /\ log' = PushEpoch(log, conn[c].pub)
        /\ UNCHANGED <<store, durable, epochs, sub>>
        /\ conn' = [conn EXCEPT ![c] = Answered(c)]
    BY <1>10 DEF FlushSucceeds
  <2>2. conn[c].pub.epoch = epochs.last /\ conn[c].pub.epoch > log.latest
    BY <1>1, <1>2, <2>1 DEF EpochsInOrder
  <2> DEFINE e == conn[c].pub
  <2> HIDE DEF e
  <2>3. InOrder(PushEpoch(log, e)) /\ PushEpoch(log, e).latest = e.epoch
    BY <1>1, <1>2, <2>2, PushOrder DEF e
  <2>4. log'.latest = epochs.last /\ InOrder(log')
    BY <2>1, <2>2, <2>3 DEF e
  <2>5. \A d \in Conns : conn'[d].pc \notin {"writing", "flush"}
    BY <1>1, <1>5, <2>1, HolderAlone
  <2>6. EpochsInOrder'
    BY <1>1, <2>1, <2>4, <2>5 DEF EpochsInOrder
  <2>7. QED
    BY <2>4, <2>6
<1>11. CASE Subscribe
  <2>1. /\ UNCHANGED <<store, epochs, conn, log>> /\ sub'.last = epochs.last /\ ~LockHeld
        /\ durable' \in {durable, store}
    BY <1>1, <1>11 DEF Subscribe
  <2>2. EpochsInOrder'
    BY <1>1, <2>1 DEF EpochsInOrder, LockHeld
  <2>3. QED
    BY <2>1, <2>2 DEF InOrder
<1>12. CASE Restart
  <2>1. /\ epochs'.last = durable.epoch /\ epochs'.alloc = durable.epoch
        /\ store' = durable /\ durable' = durable
        /\ log' = EmptyLog /\ sub'.last = sub.last /\ \A c \in Conns : conn'[c].pc = "idle"
    BY <1>1, <1>12 DEF Restart, FreshConn
  <2>2. EpochsInOrder'
    BY <1>1, <2>1 DEF EpochsInOrder, EmptyLog
  <2>3. InOrder(EmptyLog)
    BY DEF InOrder, EmptyLog
  <2>4. QED
    BY <2>1, <2>2, <2>3
<1>13. CASE Follow /\ UNCHANGED <<gatewayVars, hist>>
  <2>1. log' = log /\ sub'.last \in {0, sub.last, log.latest} /\ UNCHANGED <<store, durable, epochs, conn>>
    BY <1>13, FollowOrder DEF gatewayVars
  <2>2. QED
    BY <1>3, <2>1
<1>14. CASE \/ WalFlush \/ EnsureViewConsistency \/ CreateView \/ Populate \/ PersistView
            \/ PopulateFails \/ DropView \/ UNCHANGED vars
  <2>1. UNCHANGED <<log, sub, epochs, conn>>
    BY <1>14 DEF WalFlush, EnsureViewConsistency, CreateView, Populate, PersistView, PopulateFails,
                 DropView, vars, gatewayVars
  <2>2. store' = store \/ (\E f : store' = [store EXCEPT !.out = f]) \/ \E f : store' = [store EXCEPT !.state = f]
    BY <1>14 DEF WalFlush, EnsureViewConsistency, CreateView, Populate, PersistView, PopulateFails,
                 DropView, vars, gatewayVars
  <2>3. store'.epoch = store.epoch
    BY <2>2 DEF TypeOK, Stores
  <2>4. durable' \in {durable, store, store'}
    BY <1>14 DEF WalFlush, EnsureViewConsistency, CreateView, Populate, PersistView, PopulateFails,
                 DropView, vars, gatewayVars
  <2>5. QED
    BY <1>3, <2>1, <2>3, <2>4
<1>15. QED
  BY <1>6, <1>7, <1>8, <1>9, <1>10, <1>11, <1>12, <1>13, <1>14, <1>16, StepKinds

-----------------------------------------------------------------------------
(* The subscriber *)

\* An empty change leaves the weights as they are.
LEMMA PlusZero ==
  ASSUME NEW f \in Weights
  PROVE  Plus(f, Zero) = f
BY DEF Plus, Zero, Weights

\* The connection at the lock tells what is written and not published.
LEMMA AtTheLock ==
  ASSUME TypeOK, LockIsHeld, EpochsInOrder
  PROVE  /\ \A c \in Conns : conn[c].pc = "flush" =>
               /\ LockHeld /\ ~Writing /\ Unpublished = conn[c].pub.delta
               /\ Published = conn[c].pub.epoch - 1 /\ conn[c].pub.epoch = epochs.last
               /\ conn[c].pub \in Epochs /\ sub.last < epochs.last /\ log.latest < epochs.last
         /\ \A c \in Conns : conn[c].pc = "writing" =>
               /\ LockHeld /\ Writing /\ Unpublished = conn[c].pub.delta
               /\ Published = epochs.last /\ conn[c].pub.epoch = store.epoch
               /\ conn[c].pub \in Epochs /\ epochs.last < store.epoch
         /\ ~LockHeld => Unpublished = Zero /\ Published = epochs.last /\ ~Writing
         /\ Unpublished \in Weights /\ Published \in Int
         /\ log.latest <= Published /\ Published <= epochs.last
<1>1. conn \in [Conns -> Sessions] /\ epochs.last \in Nat /\ log.latest \in Nat /\ sub.last \in Nat
  BY LogEntries, StateFields DEF TypeOK
<1>2. ASSUME NEW c \in Conns
      PROVE  conn[c].pub \in Epochs /\ conn[c].pub.delta \in Weights
  <2>1. conn[c].pub \in Epochs
    BY <1>1, SessionFields
  <2>2. QED
    BY <2>1 DEF Epochs
<1>3. ASSUME NEW c \in Conns, conn[c].pc \in {"writing", "flush"}
      PROVE  /\ LockHeld /\ Head(queue) = c /\ Unpublished = conn[c].pub.delta
             /\ \A d \in Conns : conn[d].pc \in {"writing", "flush"} => d = c
  BY <1>3, HolderAlone DEF LockHeld, Unpublished
<1>4. ASSUME NEW c \in Conns, conn[c].pc = "flush"
      PROVE  /\ Flushing /\ ~Writing /\ Published = conn[c].pub.epoch - 1
             /\ conn[c].pub.epoch = epochs.last /\ sub.last < epochs.last /\ log.latest < epochs.last
  <2>1. Flushing /\ ~Writing
    BY <1>3, <1>4 DEF Flushing, Writing
  <2>2. conn[c].pub.epoch = epochs.last /\ sub.last < epochs.last /\ log.latest < epochs.last
    BY <1>4 DEF EpochsInOrder
  <2>3. QED
    BY <1>3, <1>4, <2>1, <2>2 DEF Published
<1>5. ASSUME NEW c \in Conns, conn[c].pc = "writing"
      PROVE  /\ Writing /\ ~Flushing /\ Published = epochs.last
             /\ conn[c].pub.epoch = store.epoch /\ epochs.last < store.epoch
  <2>1. Writing /\ ~Flushing
    BY <1>3, <1>5 DEF Flushing, Writing
  <2>2. QED
    BY <1>5, <2>1 DEF Published, EpochsInOrder
<1>6. log.latest <= epochs.last
  BY DEF EpochsInOrder
<1>7. CASE \E c \in Conns : conn[c].pc = "flush"
  <2>1. PICK c \in Conns : conn[c].pc = "flush"
    BY <1>7
  <2>2. Published = epochs.last - 1 /\ log.latest < epochs.last /\ Unpublished \in Weights
    BY <1>2, <1>3, <1>4, <2>1
  <2>3. Published \in Int /\ log.latest <= Published /\ Published <= epochs.last
    BY <1>1, <2>2
  <2>4. LockHeld
    BY <1>3, <2>1
  <2>5. QED
    BY <1>2, <1>3, <1>4, <1>5, <2>2, <2>3, <2>4
<1>8. CASE \E c \in Conns : conn[c].pc = "writing"
  <2>1. PICK c \in Conns : conn[c].pc = "writing"
    BY <1>8
  <2>2. Published = epochs.last /\ Unpublished \in Weights /\ LockHeld
    BY <1>2, <1>3, <1>5, <2>1
  <2>3. QED
    BY <1>1, <1>2, <1>3, <1>4, <1>5, <1>6, <2>2
<1>9. CASE \A c \in Conns : conn[c].pc \notin {"writing", "flush"}
  <2>1. ~LockHeld /\ ~Writing /\ ~Flushing
    BY <1>9 DEF LockHeld, Writing, Flushing
  <2>2. Unpublished = Zero /\ Published = epochs.last /\ Zero \in Weights
    BY <2>1, FreshType DEF Unpublished, Published
  <2>3. QED
    BY <1>1, <1>6, <1>9, <2>1, <2>2
<1>10. QED
  BY <1>7, <1>8, <1>9

\* A step that leaves the lock's holder alone publishes nothing.
LEMMA SameLock ==
  ASSUME LockIsHeld, LockIsHeld', epochs'.last = epochs.last,
         \A d \in Conns : conn'[d].pc \in {"writing", "flush"} \/ conn[d].pc \in {"writing", "flush"}
                             => conn'[d].pc = conn[d].pc /\ conn'[d].pub = conn[d].pub
  PROVE  /\ Unpublished' = Unpublished /\ Published' = Published /\ Writing' = Writing
         /\ LockHeld' = LockHeld
<1>1. LockHeld' = LockHeld /\ Writing' = Writing /\ Flushing' = Flushing
  BY DEF LockHeld, Writing, Flushing
<1>2. CASE LockHeld
  <2>1. PICK d \in Conns : conn[d].pc \in {"writing", "flush"}
    BY <1>2 DEF LockHeld
  <2>2. Head(queue) = d /\ Head(queue') = d
    BY <2>1 DEF LockIsHeld
  <2>3. conn'[Head(queue')].pub = conn[Head(queue)].pub
    BY <2>1, <2>2
  <2>4. QED
    BY <1>1, <1>2, <2>2, <2>3 DEF Unpublished, Published
<1>3. CASE ~LockHeld
  <2>1. ~Flushing
    BY <1>3 DEF LockHeld, Flushing
  <2>2. QED
    BY <1>1, <1>3, <2>1 DEF Unpublished, Published
<1>4. QED
  BY <1>2, <1>3

\* The earliest epoch that can be replayed.
LEMMA Earliest ==
  ASSUME NEW l \in Logs, InOrder(l)
  PROVE  /\ EarliestEpoch(l) \in Nat /\ l.floor \in Nat /\ l.latest \in Nat
         /\ l.floor <= EarliestEpoch(l) /\ EarliestEpoch(l) <= l.latest + 1 /\ l.floor <= l.latest + 1
         /\ l.entries # <<>> => EarliestEpoch(l) = Larger(l.entries[1].epoch, l.floor)
<1>1. /\ l.entries \in Seq(Epochs) /\ l.floor \in Nat /\ l.latest \in Nat /\ Len(l.entries) \in Nat
      /\ DOMAIN l.entries = 1..Len(l.entries) /\ l.floor <= l.latest + 1
      /\ \A i \in DOMAIN l.entries : l.entries[i].epoch \in Nat
  BY LogEntries DEF InOrder
<1>2. CASE l.entries = <<>>
  BY <1>1, <1>2 DEF EarliestEpoch
<1>3. CASE l.entries # <<>>
  <2>1. 1 \in DOMAIN l.entries /\ Head(l.entries) = l.entries[1]
    BY <1>1, <1>3
  <2>2. l.entries[1].epoch \in Nat /\ l.entries[1].epoch <= l.latest
    BY <1>1, <2>1 DEF InOrder
  <2>3. EarliestEpoch(l) = Larger(l.entries[1].epoch, l.floor)
    BY <1>3, <2>1 DEF EarliestEpoch
  <2>4. QED
    BY <1>1, <2>2, <2>3 DEF Larger
<1>4. QED
  BY <1>2, <1>3

\* A client that has seen everything published has missed nothing.
LEMMA UpToDate ==
  ASSUME TypeOK, LockIsHeld, EpochsInOrder, InOrder(log), sub.last >= Published
  PROVE  ~Stale
<1>1. log \in Logs /\ sub.last \in Nat /\ Published \in Int /\ log.latest <= Published
  BY AtTheLock, StateFields
<1>2. /\ EarliestEpoch(log) \in Nat /\ log.floor \in Nat /\ log.latest \in Nat
      /\ EarliestEpoch(log) <= log.latest + 1 /\ log.floor <= log.latest + 1
  BY <1>1, Earliest
<1>3. /\ ~(sub.last + 1 < log.floor) /\ ~(sub.last + 1 < EarliestEpoch(log)) /\ ~(sub.last < Published)
  BY <1>1, <1>2
<1>4. QED
  BY <1>3 DEF Stale

\* An eviction only moves the earliest epoch forward, past the evicted ones.
LEMMA EvictionBounds ==
  ASSUME NEW l \in Logs, InOrder(l), NEW e \in Epochs, e.epoch > l.latest, NEW k \in 0..Len(l.entries),
         Evicts(l, e, k) \in Logs, InOrder(Evicts(l, e, k))
  PROVE  LET m == Evicts(l, e, k)
         IN /\ m.entries # <<>> /\ l.floor <= m.floor
            /\ k # 0 => l.entries[k].epoch + 1 <= m.floor
            /\ IF l.entries = <<>> THEN e.epoch <= EarliestEpoch(m)
               ELSE EarliestEpoch(l) <= EarliestEpoch(m)
<1> DEFINE m == Evicts(l, e, k)
           n == Len(l.entries) - k
<1>1. /\ l.entries \in Seq(Epochs) /\ Len(l.entries) \in Nat /\ DOMAIN l.entries = 1..Len(l.entries)
      /\ \A i \in DOMAIN l.entries : l.entries[i].epoch \in Nat
  BY LogEntries
<1>2. /\ n \in Nat /\ m.entries \in Seq(Epochs) /\ Len(m.entries) = n + 1
      /\ m.entries[n + 1] = e /\ \A i \in 1..n : m.entries[i] = l.entries[i + k]
  BY EvictedEntries
<1>3. l.floor \in Nat /\ l.latest \in Nat /\ e.epoch \in Nat /\ m.floor \in Nat
  BY LogEntries DEF Epochs
<1>4. m.entries # <<>>
  BY <1>2
<1>5. l.floor <= m.floor /\ (k # 0 => l.entries[k].epoch + 1 <= m.floor)
  <2>1. m.floor = IF k = 0 THEN l.floor ELSE Larger(l.floor, l.entries[k].epoch + 1)
    BY DEF Evicts
  <2>2. k # 0 => l.entries[k].epoch \in Nat
    BY <1>1
  <2> HIDE DEF m
  <2>3. QED
    BY <1>3, <2>1, <2>2 DEF Larger
<1>6. EarliestEpoch(m) = Larger(m.entries[1].epoch, m.floor)
  BY <1>4, Earliest
<1>7. CASE l.entries = <<>>
  <2>1. n = 0
    BY <1>1, <1>7
  <2>2. m.entries[1] = e
    BY <1>2, <2>1
  <2>3. e.epoch <= EarliestEpoch(m)
    <3> HIDE DEF m
    <3>1. QED
      BY <1>3, <1>6, <2>2 DEF Larger
  <2>4. QED
    BY <1>4, <1>5, <1>7, <2>3
<1>8. CASE l.entries # <<>>
  <2>1. EarliestEpoch(l) = Larger(l.entries[1].epoch, l.floor)
    BY <1>8, Earliest
  <2>2. 1 \in DOMAIN l.entries /\ l.entries[1].epoch \in Nat
    BY <1>1, <1>8
  <2>3. m.entries[1].epoch \in Nat /\ l.entries[1].epoch <= m.entries[1].epoch
    <3>1. CASE n = 0
      <4>1. m.entries[1] = e
        BY <1>2, <3>1
      <4>2. l.entries[1].epoch <= l.latest
        BY <2>2 DEF InOrder
      <4>3. QED
        BY <1>3, <2>2, <4>1, <4>2
    <3>2. CASE n # 0
      <4>1. 1 \in 1..n /\ 1 + k \in DOMAIN l.entries /\ k \in Nat
        BY <1>1, <1>2, <3>2
      <4>2. m.entries[1] = l.entries[1 + k] /\ l.entries[1 + k].epoch \in Nat
        BY <1>1, <1>2, <4>1
      <4>3. l.entries[1].epoch <= l.entries[1 + k].epoch
        <5>1. CASE k = 0
          BY <1>1, <2>2, <5>1
        <5>2. CASE 1 < 1 + k
          <6>1. l.entries[1].epoch < l.entries[1 + k].epoch
            BY <2>2, <4>1, <5>2 DEF InOrder
          <6>2. QED
            BY <2>2, <4>2, <6>1
        <5>3. QED
          BY <4>1, <5>1, <5>2
      <4>4. QED
        BY <4>2, <4>3
    <3>3. QED
      BY <3>1, <3>2
  <2>4. EarliestEpoch(l) <= EarliestEpoch(m)
    <3> HIDE DEF m
    <3>1. QED
      BY <1>3, <1>5, <1>6, <2>1, <2>2, <2>3 DEF Larger
  <2>5. QED
    BY <1>4, <1>5, <1>8, <2>4
<1>9. QED
  BY <1>7, <1>8

\* A step that changes neither the rows, the log, the client nor what is about
\* to be published leaves the client where it was.
LEMMA ClientKept ==
  ASSUME LockIsHeld, LockIsHeld', ClientFollows, log' = log, sub' = sub,
         epochs'.last = epochs.last, store'.rows = store.rows,
         durable' = store' \/ UNCHANGED <<store, durable>>,
         \A d \in Conns : conn'[d].pc \in {"writing", "flush"} \/ conn[d].pc \in {"writing", "flush"}
                             => conn'[d].pc = conn[d].pc /\ conn'[d].pub = conn[d].pub
  PROVE  ClientFollows'
<1>1. Unpublished' = Unpublished /\ Published' = Published /\ Writing' = Writing
  BY SameLock
<1>2. Stale' = Stale
  BY <1>1 DEF Stale
<1>3. Survives => Survives'
  <2>1. CASE durable' = store'
    BY <2>1 DEF Survives
  <2>2. CASE UNCHANGED <<store, durable>>
    BY <1>1, <2>2 DEF Survives
  <2>3. QED
    BY <2>1, <2>2
<1>4. QED
  BY <1>1, <1>2, <1>3 DEF ClientFollows

\* A client that will not be told about an epoch is excepted.
LEMMA ClientMissed ==
  ASSUME TypeOK, sub' = Missed
  PROVE  ClientFollows'
BY MissedType DEF ClientFollows

\* What a COMMIT writes is what it is about to publish.
LEMMA ClientWhenWritten ==
  ASSUME TypeOK, TypeOK', LockIsHeld, LockIsHeld', EpochsInOrder, EpochsInOrder', InOrder(log),
         ClientFollows, NEW c \in Conns, WriteVisible(c)
  PROVE  ClientFollows'
<1> DEFINE kept == Committed(store.rows, conn[c].ops)
<1>1. /\ Holder(c) /\ log' = log /\ store'.rows = kept.rows
      /\ sub' = IF kept.over THEN Missed ELSE sub
      /\ epochs'.last = epochs.last /\ durable' \in {durable, store}
      /\ conn' = [conn EXCEPT ![c].pc = "writing",
                              ![c].pub = [epoch |-> epochs.alloc + 1, delta |-> Delta(kept.ops),
                                          size |-> Entries(kept.ops)]]
  <2>1. Flushed \in {store, durable} /\ epochs \in [last : Nat, alloc : Nat]
    BY FlushedType DEF TypeOK
  <2>2. QED
    BY <2>1 DEF WriteVisible, Writes, Batch
<1>2. CASE kept.over
  BY <1>1, <1>2, ClientMissed
<1>3. CASE ~kept.over
  <2>1. sub' = sub
    BY <1>1, <1>3
  <2>2. ~LockHeld /\ ~Writing /\ Unpublished = Zero /\ Published = epochs.last
    BY <1>1, AtTheLock, HolderAlone
  <2>3. conn'[c].pc = "writing" /\ conn'[c].pub.delta = Delta(kept.ops)
    BY <1>1 DEF TypeOK, Sessions
  <2>4. Writing' /\ Unpublished' = Delta(kept.ops) /\ Published' = epochs.last
    <3>1. LockHeld' /\ Writing' /\ Head(queue') = c
      BY <2>3 DEF LockHeld, Writing, LockIsHeld
    <3>2. ~Flushing'
      BY <2>3 DEF Flushing, LockIsHeld
    <3>3. QED
      BY <1>1, <2>3, <3>1, <3>2 DEF Unpublished, Published
  <2>5. store.rows \in Tables /\ IsFiniteSet(Filled(store.rows)) /\ conn[c].ops \in Seq(Operations)
    BY StateFields, SessionFields DEF TypeOK
  <2>6. Counts(kept.rows) = Plus(Counts(store.rows), Delta(kept.ops)) /\ Counts(store.rows) \in Weights
    BY <1>3, <2>5, CommittedFacts, CountsType
  <2>7. SUFFICES ASSUME sub.st # "off", ~sub.gap, ~Stale
                 PROVE  /\ Plus(Summed(log, sub), Delta(kept.ops)) = Counts(kept.rows)
                        /\ Summed(log, sub) = Counts(durable'.rows)
    <3>1. Stale' = Stale
      BY <1>1, <2>1, <2>2, <2>4 DEF Stale
    <3>2. Summed(log, sub) = Counts(durable'.rows) => Survives'
      BY <1>1, <2>1, <2>4 DEF Survives, Counts
    <3>3. Plus(Summed(log, sub), Delta(kept.ops)) = Counts(kept.rows) =>
             (Plus(Summed(log, sub), Unpublished) = Counts(store.rows))'
      BY <1>1, <2>1, <2>4 DEF Counts
    <3>4. QED
      BY <1>1, <2>1, <3>1, <3>2, <3>3 DEF ClientFollows
  <2>8. Plus(Summed(log, sub), Zero) = Counts(store.rows) /\ Survives
    BY <2>2, <2>7 DEF ClientFollows
  <2>9. Summed(log, sub) \in Weights
    BY SummedType DEF TypeOK
  <2>10. Summed(log, sub) = Counts(store.rows)
    <3> DEFINE f == Summed(log, sub)
    <3> HIDE DEF f
    <3>1. f \in Weights /\ Plus(f, Zero) = Counts(store.rows)
      BY <2>8, <2>9 DEF f
    <3>2. Plus(f, Zero) = f
      BY <3>1, PlusZero
    <3>3. QED
      BY <3>1, <3>2 DEF f
  <2>11. durable'.rows = store.rows
    BY <1>1, <2>2, <2>8 DEF Survives
  <2>12. QED
    BY <2>6, <2>10, <2>11
<1>4. QED
  BY <1>2, <1>3

\* The batch is durable: a client that was far behind stays so.
LEMMA ClientWhenDurable ==
  ASSUME TypeOK, TypeOK', LockIsHeld, LockIsHeld', EpochsInOrder, EpochsInOrder', InOrder(log),
         ClientFollows, NEW c \in Conns, WriteDurable(c)
  PROVE  ClientFollows'
<1>1. /\ conn[c].pc = "writing" /\ UNCHANGED <<log, sub, store, durable>> /\ durable = store
      /\ epochs'.last = conn[c].pub.epoch
  BY DEF WriteDurable, TypeOK
<1>2. conn'[c].pc = "flush" /\ conn'[c].pub = conn[c].pub
  BY DEF WriteDurable, TypeOK, Sessions
<1>3. /\ Unpublished = conn[c].pub.delta /\ Published = epochs.last /\ conn[c].pub.epoch = store.epoch
      /\ epochs.last < store.epoch
  BY <1>1, AtTheLock
<1>4. Unpublished' = conn[c].pub.delta /\ Published' = store.epoch - 1 /\ ~Writing'
  <2>1. LockHeld' /\ Flushing' /\ Head(queue') = c /\ ~Writing'
    BY <1>2 DEF LockHeld, Flushing, Writing, LockIsHeld
  <2>2. QED
    BY <1>2, <1>3, <2>1 DEF Unpublished, Published
<1>5. sub.last \in Nat /\ epochs.last \in Nat /\ store.epoch \in Nat
  BY StateFields
<1>6. sub.last < Published => sub.last < Published'
  BY <1>3, <1>4, <1>5
<1>7. Stale => Stale'
  BY <1>1, <1>6 DEF Stale
<1>8. Survives'
  BY <1>1, <1>4 DEF Survives
<1>9. QED
  BY <1>1, <1>3, <1>4, <1>7, <1>8 DEF ClientFollows

\* Publishing an epoch hands it to the client, or leaves the client stale when
\* the log let go of one that it still owed.
LEMMA ClientWhenPublished ==
  ASSUME TypeOK, TypeOK', LockIsHeld, LockIsHeld', EpochsInOrder, EpochsInOrder',
         InOrder(log), InOrder(log'), ClientFollows, NEW c \in Conns, FlushSucceeds(c)
  PROVE  ClientFollows'
<1> DEFINE e == conn[c].pub
<1>1. /\ conn[c].pc = "flush" /\ log' = PushEpoch(log, e) /\ sub' = sub /\ store' = store
      /\ epochs' = epochs /\ conn' = [conn EXCEPT ![c] = Answered(c)] /\ durable' = store
  BY DEF FlushSucceeds, LockIsHeld
<1>2. /\ Unpublished = e.delta /\ Published = e.epoch - 1 /\ e.epoch = epochs.last /\ e \in Epochs
      /\ sub.last < e.epoch /\ log.latest < e.epoch
  BY <1>1, AtTheLock
<1>3. /\ e.epoch \in Nat /\ e.delta \in Weights /\ sub.last \in Nat /\ log \in Logs /\ log' \in Logs
      /\ sub \in Clients /\ log.latest \in Nat /\ log.floor \in Nat /\ log'.floor \in Nat
      /\ e.epoch > log.latest
  <2>1. log \in Logs /\ log' \in Logs /\ sub \in Clients
    BY DEF TypeOK
  <2>2. QED
    BY <1>2, <2>1, LogEntries, StateFields DEF Epochs
<1>4. ~LockHeld' /\ ~Flushing' /\ ~Writing'
  <2>1. Answered(c).pc = "idle"
    BY AnswerTypes DEF TypeOK
  <2>2. \A d \in Conns : conn'[d].pc \notin {"writing", "flush"}
    BY <1>1, <2>1, HolderAlone DEF TypeOK
  <2>3. QED
    BY <2>2 DEF LockHeld, Flushing, Writing
<1>5. Unpublished' = Zero /\ Published' = e.epoch /\ Survives'
  BY <1>1, <1>2, <1>4 DEF Unpublished, Published, Survives
<1> HIDE DEF e
<1>6. SUFFICES ASSUME sub.st # "off", ~sub.gap, ~Stale'
               PROVE  Plus(Summed(log', sub), Zero) = Counts(store.rows)
  BY <1>1, <1>5 DEF ClientFollows
<1>7. sub.st = "live" \/ sub.st = "away"
  BY <1>6, StateFields
<1>8. EarliestEpoch(log') \in Nat /\ log'.floor <= EarliestEpoch(log')
  BY <1>3, Earliest
<1>9. CASE log' = Overflows(e)
  <2>1. log'.entries = <<>> /\ log'.floor = e.epoch + 1
    BY <1>9 DEF Overflows
  <2>2. sub.last + 1 < log'.floor /\ sub.last < Published'
    BY <1>2, <1>3, <1>5, <2>1
  <2>3. Stale'
    BY <1>1, <1>7, <2>1, <2>2 DEF Stale
  <2>4. QED
    BY <1>6, <2>3
<1>10. ASSUME NEW k \in 0..Len(log.entries), log' = Evicts(log, e, k)
       PROVE  Plus(Summed(log', sub), Zero) = Counts(store.rows)
  <2>1. /\ log'.entries # <<>> /\ log.floor <= log'.floor
        /\ k # 0 => log.entries[k].epoch + 1 <= log'.floor
        /\ IF log.entries = <<>> THEN e.epoch <= EarliestEpoch(log')
           ELSE EarliestEpoch(log) <= EarliestEpoch(log')
    BY <1>2, <1>3, <1>10, EvictionBounds
  <2>2. EarliestEpoch(log) \in Nat
    BY <1>3, Earliest
  <2>3. /\ sub.st = "live" => ~(sub.last + 1 < log'.floor)
        /\ sub.st = "away" => ~(sub.last + 1 < EarliestEpoch(log'))
    BY <1>1, <1>6, <2>1 DEF Stale
  <2>4. log'.floor <= sub.last + 1
    BY <1>3, <1>7, <1>8, <2>3
  <2>5. ~Stale
    <3>1. CASE sub.st = "live"
      BY <1>3, <2>1, <2>4, <3>1 DEF Stale
    <3>2. CASE sub.st = "away"
      <4>1. EarliestEpoch(log') <= sub.last + 1
        BY <1>3, <1>8, <2>3, <3>2
      <4>2. CASE log.entries = <<>>
        <5>1. ~(sub.last < Published)
          BY <1>2, <1>3, <1>8, <2>1, <4>1, <4>2
        <5>2. QED
          BY <3>2, <4>2, <5>1 DEF Stale
      <4>3. CASE log.entries # <<>>
        <5>1. ~(sub.last + 1 < EarliestEpoch(log))
          BY <1>3, <1>8, <2>1, <2>2, <4>1, <4>3
        <5>2. QED
          BY <3>2, <4>3, <5>1 DEF Stale
      <4>4. QED
        BY <4>2, <4>3
    <3>3. QED
      BY <1>7, <3>1, <3>2
  <2>6. \A i \in 1..k : log.entries[i].epoch <= sub.last
    <3>1. SUFFICES ASSUME NEW i \in 1..k PROVE log.entries[i].epoch <= sub.last
      OBVIOUS
    <3>2. /\ Len(log.entries) \in Nat /\ DOMAIN log.entries = 1..Len(log.entries)
          /\ \A j \in DOMAIN log.entries : log.entries[j].epoch \in Nat
      BY <1>3, LogEntries
    <3>3. i \in DOMAIN log.entries /\ k \in DOMAIN log.entries /\ k # 0 /\ i <= k
      BY <3>1, <3>2
    <3>4. log.entries[i].epoch \in Nat /\ log.entries[k].epoch \in Nat
      BY <3>2, <3>3
    <3>5. log.entries[k].epoch + 1 <= log'.floor
      BY <2>1, <3>3
    <3>6. log.entries[i].epoch <= log.entries[k].epoch
      <4>1. CASE i = k
        BY <3>4, <4>1
      <4>2. CASE i < k
        <5>1. log.entries[i].epoch < log.entries[k].epoch
          BY <3>3, <4>2 DEF InOrder
        <5>2. QED
          BY <3>4, <5>1
      <4>3. QED
        BY <3>1, <3>2, <3>3, <4>1, <4>2
    <3>7. \A a, b, f, n \in Nat : a <= b /\ b + 1 <= f /\ f <= n + 1 => a <= n
      OBVIOUS
    <3>8. log'.floor \in Nat /\ sub.last \in Nat
      BY <1>3
    <3>9. QED
      BY <2>4, <3>4, <3>5, <3>6, <3>7, <3>8
  <2>7. Summed(log', sub) = Plus(Summed(log, sub), e.delta)
    BY <1>2, <1>3, <1>10, <2>6, OneMoreOwed
  <2>8. Plus(Summed(log, sub), e.delta) = Counts(store.rows)
    BY <1>2, <1>6, <2>5 DEF ClientFollows
  <2>9. Summed(log', sub) \in Weights
    BY <1>3, SummedType
  <2> DEFINE f == Summed(log', sub)
  <2> HIDE DEF f
  <2>10. Plus(f, Zero) = f
    BY <2>9, PlusZero DEF f
  <2>11. QED
    BY <2>7, <2>8, <2>10 DEF f
<1>11. QED
  <2>1. PushEpoch(log, e) = Overflows(e) \/ \E k \in 0..Len(log.entries) : PushEpoch(log, e) = Evicts(log, e, k)
    BY <1>2, <1>3, PushCases
  <2>2. QED
    BY <1>1, <1>9, <1>10, <2>1

\* A snapshot is the table as of its epoch, which is past every retained one.
LEMMA ClientAtSnapshot ==
  ASSUME TypeOK, TypeOK', LockIsHeld, LockIsHeld', EpochsInOrder, EpochsInOrder', InOrder(log),
         Subscribe
  PROVE  ClientFollows'
<1>1. /\ ~LockHeld /\ UNCHANGED <<store, epochs, queue, conn, log>>
      /\ sub' = [st |-> "live", acc |-> Counts(store.rows), last |-> epochs.last,
                 gap |-> Flushed.rows # store.rows]
      /\ durable' = Flushed
  BY DEF Subscribe
<1>2. log \in Logs /\ sub' \in Clients /\ epochs.last \in Nat /\ log.latest <= epochs.last /\ log.latest \in Nat
  BY LogEntries, StateFields DEF TypeOK, EpochsInOrder
<1>3. sub'.acc = Counts(store.rows) /\ sub'.last = epochs.last
  BY <1>1
<1>4. \A i \in DOMAIN log.entries : log.entries[i].epoch <= sub'.last
  <2>1. \A i \in DOMAIN log.entries : log.entries[i].epoch \in Nat
    BY <1>2, LogEntries
  <2>2. QED
    BY <1>2, <1>3, <2>1 DEF InOrder
<1>5. Summed(log, sub') = Counts(store.rows)
  <2>1. Summed(log, sub') = sub'.acc
    BY <1>2, <1>4, NothingOwed
  <2>2. QED
    BY <1>3, <2>1
<1>6. Unpublished' = Zero /\ ~Writing'
  BY <1>1 DEF Unpublished, LockHeld, Writing
<1>7. Plus(Counts(store.rows), Zero) = Counts(store.rows)
  BY StateFields, CountsType, PlusZero
<1>8. ~sub'.gap => Survives'
  BY <1>1, <1>6 DEF Survives
<1>9. QED
  BY <1>1, <1>5, <1>6, <1>7, <1>8 DEF ClientFollows

\* A restart empties the log: a client that has not seen the last durable
\* epoch has to start again, the others have the table.
LEMMA ClientAtRestart ==
  ASSUME TypeOK, TypeOK', LockIsHeld, LockIsHeld', EpochsInOrder, EpochsInOrder', InOrder(log),
         ClientFollows, Restart
  PROVE  ClientFollows'
<1>1. /\ store' = durable /\ durable' = durable /\ log' = EmptyLog /\ epochs'.last = durable.epoch
      /\ sub' = IF sub.st = "live" THEN [sub EXCEPT !.st = "away"] ELSE sub
      /\ \A c \in Conns : conn'[c].pc = "idle"
  BY DEF Restart, FreshConn
<1>2. /\ log \in Logs /\ log' \in Logs /\ sub \in Clients /\ sub' \in Clients /\ epochs.last \in Nat
      /\ durable.epoch \in Nat /\ sub.last \in Nat /\ sub.last <= epochs.last
      /\ epochs.last <= durable.epoch
      /\ sub.st \in {"off", "live", "away"}
  BY StateFields DEF TypeOK, EpochsInOrder
<1>3. /\ sub'.st = (IF sub.st = "live" THEN "away" ELSE sub.st)
      /\ sub'.acc = sub.acc /\ sub'.last = sub.last /\ sub'.gap = sub.gap
  BY <1>1, <1>2 DEF Clients
<1>4. Unpublished' = Zero /\ Published' = durable.epoch /\ Survives'
  <2>1. ~LockHeld' /\ ~Flushing' /\ ~Writing'
    BY <1>1 DEF LockHeld, Flushing, Writing
  <2>2. QED
    BY <1>1, <2>1 DEF Unpublished, Published, Survives
<1>5. log'.entries = <<>>
  BY <1>1 DEF EmptyLog
<1>6. SUFFICES ASSUME sub.st # "off", ~sub.gap, ~Stale'
               PROVE  Plus(Summed(log', sub'), Zero) = Counts(durable.rows)
  BY <1>1, <1>3, <1>4 DEF ClientFollows
<1>7. sub'.st = "away"
  BY <1>2, <1>3, <1>6
<1>8. ~(sub.last < durable.epoch)
  BY <1>3, <1>4, <1>5, <1>6, <1>7 DEF Stale
<1>9. sub.last = epochs.last /\ durable.epoch = epochs.last
  BY <1>2, <1>8
<1>10. Published = epochs.last
  <2>1. \A c \in Conns : conn[c].pc = "flush" => sub.last < epochs.last
    BY AtTheLock
  <2>2. \A c \in Conns : conn[c].pc # "flush"
    BY <1>2, <1>9, <2>1
  <2>3. QED
    BY <2>2 DEF Published, Flushing
<1>11. ~Stale
  BY <1>2, <1>9, <1>10, UpToDate
<1>16. Plus(Summed(log, sub), Unpublished) = Counts(store.rows) /\ Survives
  BY <1>6, <1>11 DEF ClientFollows
<1>17. Summed(log, sub) \in Weights
  BY <1>2, SummedType
<1>12. Summed(log, sub) = Counts(durable.rows)
  <2>1. CASE Writing
    <3>1. PICK c \in Conns : conn[c].pc = "writing"
      BY <2>1 DEF Writing
    <3>2. epochs.last < store.epoch /\ store.epoch \in Nat
      BY <3>1, AtTheLock, StateFields
    <3>3. durable # store
      BY <1>2, <1>9, <3>2
    <3>4. QED
      BY <1>16, <2>1, <3>3 DEF Survives
  <2>2. CASE ~Writing
    <3>1. \A c \in Conns : conn[c].pc = "flush" => sub.last < epochs.last
      BY AtTheLock
    <3>2. ~LockHeld
      BY <1>2, <1>9, <2>2, <3>1 DEF LockHeld, Writing
    <3>3. Unpublished = Zero /\ durable.rows = store.rows
      BY <1>16, <2>2, <3>2, AtTheLock DEF Survives
    <3> DEFINE f == Summed(log, sub)
    <3> HIDE DEF f
    <3>4. f \in Weights /\ Plus(f, Zero) = Counts(durable.rows)
      BY <1>16, <1>17, <3>3 DEF f
    <3>5. Plus(f, Zero) = f
      BY <3>4, PlusZero
    <3>6. QED
      BY <3>4, <3>5 DEF f
  <2>3. QED
    BY <2>1, <2>2
<1>13. Summed(log, sub) = sub.acc
  <2>1. log.latest \in Nat /\ log.latest <= epochs.last /\ \A i \in DOMAIN log.entries : log.entries[i].epoch \in Nat
    BY <1>2, LogEntries DEF EpochsInOrder
  <2>2. \A i \in DOMAIN log.entries : log.entries[i].epoch <= sub.last
    BY <1>2, <1>9, <2>1 DEF InOrder
  <2>3. QED
    BY <1>2, <2>2, NothingOwed
<1>14. Summed(log', sub') = sub'.acc
  <2>1. \A i \in DOMAIN log'.entries : log'.entries[i].epoch <= sub'.last
    BY <1>5
  <2>2. QED
    BY <1>2, <2>1, NothingOwed
<1>15. Plus(sub.acc, Zero) = sub.acc
  BY StateFields, PlusZero
<1>18. QED
  BY <1>3, <1>12, <1>13, <1>14, <1>15

\* What poll sends is what was owed: nothing is sent twice, nothing left out.
LEMMA ClientWhenPolled ==
  ASSUME NEW l \in Logs, InOrder(l), NEW s \in Clients
  PROVE  \/ Polled(l, s) = NoSub
         \/ /\ Polled(l, s).st = s.st /\ Polled(l, s).gap = s.gap
            /\ Summed(l, Polled(l, s)) = Summed(l, s) /\ s.last + 1 >= l.floor
<1>1. CASE Polled(l, s) = s /\ s.last + 1 >= l.floor
  BY <1>1
<1>2. CASE /\ s.last + 1 >= l.floor /\ Since(l, s.last + 1) # <<>>
           /\ Polled(l, s) = [s EXCEPT !.acc = Summed(l, s),
                                       !.last = Last(Since(l, s.last + 1)).epoch]
  <2>1. s \in [st : {"off", "live", "away"}, acc : Weights, last : Nat, gap : BOOLEAN] /\ s.last + 1 \in Nat
    BY DEF Clients
  <2>2. Last(Since(l, s.last + 1)).epoch = l.latest
    BY <1>2, <2>1, OwedUpToLatest
  <2> DEFINE t == Polled(l, s)
  <2>3. t.st = s.st /\ t.gap = s.gap /\ t.acc = Summed(l, s) /\ t.last = l.latest
    BY <1>2, <2>1, <2>2
  <2>4. t \in Clients
    BY PolledFacts
  <2> HIDE DEF t
  <2>5. \A i \in DOMAIN l.entries : l.entries[i].epoch <= t.last
    BY <2>3 DEF InOrder
  <2>6. Summed(l, t) = t.acc
    BY <2>4, <2>5, NothingOwed
  <2>7. QED
    BY <1>2, <2>3, <2>6 DEF t
<1>3. QED
  BY <1>1, <1>2, PolledFacts

\* The client polls, disconnects and resumes; the gateway does not move.
LEMMA ClientWhenFollowing ==
  ASSUME TypeOK, TypeOK', LockIsHeld, LockIsHeld', EpochsInOrder, EpochsInOrder', InOrder(log),
         ClientFollows, Follow, UNCHANGED <<gatewayVars, hist>>
  PROVE  ClientFollows'
<1>1. log' = log /\ UNCHANGED <<store, durable, epochs, queue, conn>>
  BY FollowTypes DEF gatewayVars
<1>2. Unpublished' = Unpublished /\ Published' = Published /\ Writing' = Writing
  BY <1>1, SameLock
<1>3. /\ log \in Logs /\ sub \in Clients /\ sub.last \in Nat /\ log.floor \in Nat /\ log.latest \in Nat
      /\ EarliestEpoch(log) \in Nat /\ log.floor <= EarliestEpoch(log) /\ log.floor <= log.latest + 1
      /\ log.latest <= Published /\ Published \in Int
  <2>1. log \in Logs /\ sub \in Clients
    BY DEF TypeOK
  <2>2. QED
    BY <2>1, AtTheLock, Earliest, StateFields
<1>4. NoSub.st = "off"
  BY DEF NoSub
<1>5. ASSUME sub'.st # "off" => sub.st # "off" /\ sub'.gap = sub.gap,
             sub'.st # "off" => Stale' \/ (~Stale /\ Summed(log, sub') = Summed(log, sub))
      PROVE  ClientFollows'
  <2>1. Summed(log, sub') = Summed(log, sub) /\ Survives => Survives'
    BY <1>1, <1>2 DEF Survives
  <2>2. QED
    BY <1>1, <1>2, <1>5, <2>1 DEF ClientFollows
<1>6. CASE Poll
  <2>1. sub.st = "live" /\ sub' = Polled(log, sub)
    BY <1>6 DEF Poll
  <2>2. CASE sub' = NoSub
    BY <1>4, <1>5, <2>2
  <2>3. CASE /\ sub'.st = sub.st /\ sub'.gap = sub.gap
             /\ Summed(log, sub') = Summed(log, sub) /\ sub.last + 1 >= log.floor
    <3>1. ~Stale
      BY <1>3, <2>1, <2>3 DEF Stale
    <3>2. QED
      BY <1>5, <2>1, <2>3, <3>1
  <2>4. QED
    BY <1>3, <2>1, <2>2, <2>3, ClientWhenPolled
<1>7. CASE Resume
  <2> DEFINE s == [sub EXCEPT !.st = "live"]
  <2>1. /\ s \in Clients /\ s.st = "live" /\ s.acc = sub.acc /\ s.last = sub.last /\ s.gap = sub.gap
    BY <1>3 DEF Clients
  <2>2. sub.st = "away" /\ sub' = IF CheckReplayStart(log, sub.last + 1) THEN Polled(log, s) ELSE NoSub
    BY <1>7 DEF Resume
  <2> HIDE DEF s
  <2>3. CASE sub' = NoSub
    BY <1>4, <1>5, <2>3
  <2>4. CASE sub' # NoSub
    <3>1. CheckReplayStart(log, sub.last + 1) /\ sub' = Polled(log, s)
      BY <2>2, <2>4
    <3>2. ~Stale
      BY <1>3, <2>2, <3>1 DEF Stale, CheckReplayStart
    <3>3. sub'.gap = s.gap /\ Summed(log, sub') = Summed(log, s)
      BY <1>3, <2>1, <2>4, <3>1, ClientWhenPolled
    <3>4. Summed(log, s) = Summed(log, sub)
      BY <2>1 DEF Summed
    <3>5. QED
      BY <1>5, <2>1, <2>2, <3>2, <3>3, <3>4
  <2>5. QED
    BY <2>3, <2>4
<1>8. CASE Disconnect
  <2>1. /\ sub.st = "live" /\ sub'.st = "away" /\ sub'.acc = sub.acc /\ sub'.last = sub.last
        /\ sub'.gap = sub.gap
    BY <1>3, <1>8 DEF Disconnect, Clients
  <2>2. Summed(log, sub') = Summed(log, sub)
    BY <2>1 DEF Summed
  <2>3. CASE ~Stale
    BY <1>5, <2>1, <2>2, <2>3
  <2>4. CASE Stale
    <3>1. sub.last + 1 < log.floor
      BY <2>1, <2>4 DEF Stale
    <3>2. sub.last < Published /\ sub.last + 1 < EarliestEpoch(log)
      BY <1>3, <3>1
    <3>3. Stale'
      BY <1>1, <1>2, <2>1, <3>2 DEF Stale
    <3>4. QED
      BY <1>5, <2>1, <3>3
  <2>5. QED
    BY <2>3, <2>4
<1>9. QED
  BY <1>6, <1>7, <1>8 DEF Follow

\* Every step keeps the client's account of the table.
LEMMA ClientStep ==
  ASSUME TypeOK, TypeOK', LockIsHeld, LockIsHeld', EpochsInOrder, EpochsInOrder',
         InOrder(log), InOrder(log'), ClientFollows, [Next]_vars
  PROVE  ClientFollows'
<1>1. /\ conn \in [Conns -> Sessions] /\ store \in Stores /\ epochs \in [last : Nat, alloc : Nat]
      /\ Flushed \in {store, durable}
  BY FlushedType DEF TypeOK
<1>2. ASSUME NEW c \in Conns, NEW r \in Sessions, conn[c].pc \notin {"writing", "flush"},
             r.pc \notin {"writing", "flush"}, conn' = [conn EXCEPT ![c] = r]
      PROVE  \A d \in Conns :
                conn'[d].pc \in {"writing", "flush"} \/ conn[d].pc \in {"writing", "flush"}
                    => conn'[d].pc = conn[d].pc /\ conn'[d].pub = conn[d].pub
  BY <1>1, <1>2
<1>3. ASSUME NEW c \in Conns
      PROVE  /\ Answered(c) \in Sessions /\ Answered(c).pc \notin {"writing", "flush"}
             /\ Refused(c) \in Sessions /\ Refused(c).pc \notin {"writing", "flush"}
  <2>1. conn[c] \in Sessions
    BY <1>1
  <2>2. QED
    BY <2>1, AnswerTypes
<1>4. ASSUME NEW c \in Conns,
             \/ Statement(c) \/ CommitEmpty(c) \/ CommitReplayed(c) \/ RecoveryFails(c)
             \/ RowsUnreadable(c) \/ CommitNothing(c) \/ WriteFails(c)
      PROVE  ClientFollows'
  <2>1. UNCHANGED <<log, sub, store>> /\ durable' \in {durable, store}
    BY <1>1, <1>4 DEF Statement, CommitEmpty, CommitReplayed, RecoveryFails, RowsUnreadable,
                      CommitNothing, WriteFails
  <2>2. epochs'.last = epochs.last
    BY <1>1, <1>4 DEF Statement, CommitEmpty, CommitReplayed, RecoveryFails, RowsUnreadable,
                      CommitNothing, WriteFails
  <2>3. conn[c].pc \notin {"writing", "flush"}
    BY <1>4 DEF Statement, Pushed, CommitEmpty, CommitReplayed, Committing, Ready, Dispatched,
                RecoveryFails, RowsUnreadable, CommitNothing, WriteFails, Writes, Holder
  <2>4. \E r \in Sessions : r.pc \notin {"writing", "flush"} /\ conn' = [conn EXCEPT ![c] = r]
    BY <1>3, <1>4 DEF Statement, CommitEmpty, CommitReplayed, RecoveryFails, RowsUnreadable,
                      CommitNothing, WriteFails
  <2>5. \A d \in Conns :
           conn'[d].pc \in {"writing", "flush"} \/ conn[d].pc \in {"writing", "flush"}
               => conn'[d].pc = conn[d].pc /\ conn'[d].pub = conn[d].pub
    BY <1>2, <2>3, <2>4
  <2>6. QED
    BY <2>1, <2>2, <2>5, ClientKept
<1>5. ASSUME NEW c \in Conns, Enqueue(c) PROVE ClientFollows'
  <2>1. UNCHANGED <<log, sub, store, durable, epochs>> /\ conn[c].pc \notin {"writing", "flush"}
    BY <1>5 DEF Enqueue, Committing, Ready, Dispatched
  <2>2. \A d \in Conns : IF d = c THEN conn'[d].pc = "queued" ELSE conn'[d] = conn[d]
    BY <1>1, <1>5 DEF Enqueue
  <2>3. \A d \in Conns :
           conn'[d].pc \in {"writing", "flush"} \/ conn[d].pc \in {"writing", "flush"}
               => conn'[d].pc = conn[d].pc /\ conn'[d].pub = conn[d].pub
    BY <2>1, <2>2
  <2>4. QED
    BY <2>1, <2>3, ClientKept
<1>6. ASSUME NEW c \in Conns, AwaitFails(c) \/ FlushFails(c) PROVE ClientFollows'
  BY <1>6, ClientMissed DEF AwaitFails, FlushFails
<1>7. CASE \/ WalFlush \/ EnsureViewConsistency \/ CreateView \/ Populate \/ PersistView
           \/ PopulateFails \/ DropView \/ UNCHANGED vars
  <2>1. UNCHANGED <<log, sub, epochs, conn>>
    BY <1>7 DEF WalFlush, EnsureViewConsistency, CreateView, Populate, PersistView, PopulateFails,
                DropView, vars, gatewayVars
  <2>2. store' = store \/ (\E f : store' = [store EXCEPT !.out = f]) \/ \E f : store' = [store EXCEPT !.state = f]
    BY <1>7 DEF WalFlush, EnsureViewConsistency, CreateView, Populate, PersistView, PopulateFails,
                DropView, vars, gatewayVars
  <2>3. store'.rows = store.rows
    BY <1>1, <2>2 DEF Stores
  <2>4. durable' = store' \/ UNCHANGED <<store, durable>>
    BY <1>7 DEF WalFlush, EnsureViewConsistency, CreateView, Populate, PersistView, PopulateFails,
                DropView, vars, gatewayVars
  <2>5. QED
    BY <2>1, <2>3, <2>4, ClientKept
<1>8. QED
  BY <1>4, <1>5, <1>6, <1>7, ClientWhenWritten, ClientWhenDurable, ClientWhenPublished,
     ClientAtSnapshot, ClientAtRestart, ClientWhenFollowing, StepKinds

\* A connected client that has read everything has the table.
LEMMA ClientIsRight ==
  ASSUME TypeOK, LockIsHeld, EpochsInOrder, InOrder(log), ClientFollows
  PROVE  SubscriberIsExact
<1>1. SUFFICES ASSUME sub.st = "live", ~sub.gap, sub.last >= log.latest, ~LockHeld
               PROVE  sub.acc = Counts(store.rows)
  BY DEF SubscriberIsExact
<1>2. /\ log \in Logs /\ sub \in Clients /\ sub.last \in Nat /\ log.floor \in Nat /\ log.latest \in Nat
      /\ log.floor <= log.latest + 1
  BY LogEntries, StateFields DEF TypeOK, InOrder
<1>3. ~Stale
  BY <1>1, <1>2 DEF Stale
<1>4. Unpublished = Zero
  BY <1>1 DEF Unpublished
<1>5. Plus(Summed(log, sub), Zero) = Counts(store.rows)
  BY <1>1, <1>3, <1>4 DEF ClientFollows
<1>6. Summed(log, sub) = sub.acc
  <2>1. \A i \in DOMAIN log.entries : log.entries[i].epoch \in Nat
    BY <1>2, LogEntries
  <2>2. \A i \in DOMAIN log.entries : log.entries[i].epoch <= sub.last
    BY <1>1, <1>2, <2>1 DEF InOrder
  <2>3. QED
    BY <1>2, <2>2, NothingOwed
<1>7. Plus(sub.acc, Zero) = sub.acc
  BY StateFields, PlusZero
<1>8. QED
  BY <1>5, <1>6, <1>7

-----------------------------------------------------------------------------
(* The theorems *)

\* The inductive invariant.
IInv ==
    /\ TypeOK
    /\ LockIsHeld
    /\ KeysAreKept
    /\ ViewFollows
    /\ EpochsInOrder
    /\ InOrder(log)
    /\ ClientFollows

\* An empty database with no sessions and no subscriber.
LEMMA InitInvariant == Init => IInv
<1>1. SUFFICES ASSUME Init PROVE IInv
  OBVIOUS
<1>2. TypeOK
  BY <1>1, InitTypes
<1>3. \A c \in Conns : conn[c].pc = "idle"
  BY <1>1 DEF Init, FreshConn
<1>4. LockIsHeld
  BY <1>3 DEF LockIsHeld
<1>5. KeysAreKept
  <2>1. durable = store /\ store.idem = {} /\ hist.acked = {} /\ \A k \in IdemKeys : store.applied[k] = 0
    BY <1>1 DEF Init
  <2>2. QED
    BY <1>3, <2>1 DEF KeysAreKept, Once, Pushed
<1>7. ViewFollows
  BY <1>1 DEF Init, ViewFollows
<1>8. EpochsInOrder
  BY <1>1, <1>3 DEF Init, EpochsInOrder, EmptyLog, NoSub
<1>9. InOrder(log)
  BY <1>1 DEF Init, InOrder, EmptyLog
<1>10. ClientFollows
  BY <1>1 DEF Init, ClientFollows, NoSub
<1>11. QED
  BY <1>2, <1>4, <1>5, <1>7, <1>8, <1>9, <1>10 DEF IInv

\* Every step of the gateway and of its client keeps the invariant.
LEMMA InvariantStep == IInv /\ [Next]_vars => IInv'
<1>1. SUFFICES ASSUME TypeOK, LockIsHeld, KeysAreKept, ViewFollows, EpochsInOrder,
                      InOrder(log), ClientFollows, [Next]_vars
               PROVE  IInv'
  BY DEF IInv
<1>2. TypeOK' /\ LockIsHeld'
  BY <1>1, TypeStep, LockStep
<1>3. KeysAreKept'
  BY <1>1, <1>2, KeysStep
<1>4. ViewFollows'
  BY <1>1, ViewStep
<1>5. (EpochsInOrder /\ InOrder(log))'
  BY <1>1, <1>2, OrderStep
<1>6. ClientFollows'
  BY <1>1, <1>2, <1>5, ClientStep
<1>7. QED
  BY <1>2, <1>3, <1>4, <1>5, <1>6 DEF IInv

\* The invariant holds throughout, for any numbers of connections, rows, keys
\* and values, any log limit, and any work and faults.
THEOREM GatewayInvariant == Spec => []IInv
<1>1. QED
  BY InitInvariant, InvariantStep, PTL DEF Spec

\* A transaction that is sent again under its idempotency key is applied at most
\* once, and one that was answered COMMIT is applied and stays so across every
\* restart, the cases the property names excepted: the key travels with the rows
\* it guards in one batch (server.rs:10365), and the answer waits until that
\* batch is durable.
THEOREM KeysAreAppliedOnce == Spec => []ExactlyOncePerKey
<1>1. IInv => ExactlyOncePerKey
  BY KeysAreRight DEF IInv
<1>2. QED
  BY <1>1, GatewayInvariant, PTL

\* A confirmed view is the query over the table across failed writes, failed
\* flushes, restorations and restarts: the weights in memory are those of the
\* last durable batch whenever a COMMIT may use them (server.rs:3022).
THEOREM ViewsMatchTheTable == Spec => []ViewMatchesTable
<1>1. IInv => ViewMatchesTable
  BY ViewIsRight DEF IInv
<1>2. QED
  BY <1>1, GatewayInvariant, PTL

\* A subscriber that has read everything published sums up to the table: what
\* it has, what the log still owes it and what is being flushed always make up
\* the table, or the next poll or resumption tells it to start again
\* (subscribe_handler.rs:170, 377).
THEOREM SubscribersAreExact == Spec => []SubscriberIsExact
<1>1. IInv => SubscriberIsExact
  BY ClientIsRight DEF IInv
<1>2. QED
  BY <1>1, GatewayInvariant, PTL
=============================================================================
