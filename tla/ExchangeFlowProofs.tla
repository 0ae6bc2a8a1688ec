------------------------- MODULE ExchangeFlowProofs -------------------------
(***************************************************************************)
(* Proofs about ExchangeFlow: the charges of the flow controller are exact *)
(* and within its limits, no waiter sleeps through a wake-up, a notifier   *)
(* stays with its waiters, and late acknowledgements are inert, for any    *)
(* number of calls, channels and exchanges.                                *)
(***************************************************************************)
EXTENDS ExchangeFlow, FiniteSetTheorems, WellFoundedInduction, TLAPS

-----------------------------------------------------------------------------
(* Sums over finite sets *)

\* The element a fold takes next, and the function it is defined by.
Pick(s) == CHOOSE x \in s : TRUE

Sums(w, A, g) ==
    g = [s \in SUBSET A |-> IF s = {} THEN 0 ELSE w[Pick(s)] + g[s \ {Pick(s)}]]

\* The sum of the weights w over A, as MapThenSumSet defines it.
Total(w, A) == (CHOOSE g : Sums(w, A, g))[A]

\* Among sets of subsets of a finite set there is a smallest one: what every
\* induction over a finite set below rests on.
LEMMA MinimalSet ==
  ASSUME NEW A, IsFiniteSet(A), NEW T \in SUBSET SUBSET A, T # {}
  PROVE  \E m \in T : \A y \in SUBSET m : y # m => y \notin T
<1>1. IsWellFoundedOn(StrictSubsetOrdering(A), SUBSET A)
  BY FS_StrictSubsetOrderingWellFounded, FS_FiniteSubsetsOfFinite
<1>2. \E m \in T : \A y \in T : <<y, m>> \notin StrictSubsetOrdering(A)
  BY <1>1, WFMin
<1>3. PICK m \in T : \A y \in T : <<y, m>> \notin StrictSubsetOrdering(A)
  BY <1>2
<1>4. ASSUME NEW y \in SUBSET m, y # m, y \in T PROVE FALSE
  <2>1. y \in SUBSET A /\ m \in SUBSET A
    OBVIOUS
  <2>2. <<y, m>> \in StrictSubsetOrdering(A)
    BY <1>4, <2>1 DEF StrictSubsetOrdering
  <2>3. QED
    BY <1>3, <1>4, <2>2
<1>5. QED
  BY <1>4

\* A fold takes an element of the set.
LEMMA PickIn == ASSUME NEW s, s # {} PROVE Pick(s) \in s
  BY DEF Pick

\* The folds over a set and over one of its subsets agree on the subset.
LEMMA SumsAgree ==
  ASSUME NEW w, NEW A, IsFiniteSet(A), NEW B \in SUBSET A, NEW g, NEW h,
         Sums(w, A, g), Sums(w, B, h)
  PROVE  \A s \in SUBSET B : g[s] = h[s]
<1> DEFINE T == {s \in SUBSET B : g[s] # h[s]}
<1>1. SUFFICES ASSUME T # {} PROVE FALSE
  OBVIOUS
<1>2. IsFiniteSet(B)
  BY FS_Subset
<1>3. T \in SUBSET SUBSET B
  OBVIOUS
<1>4. PICK m \in T : \A y \in SUBSET m : y # m => y \notin T
  <2> HIDE DEF T
  <2> QED BY <1>1, <1>2, <1>3, MinimalSet
<1>5. m \in SUBSET B /\ m \in SUBSET A /\ g[m] # h[m]
  OBVIOUS
<1>6. m # {}
  BY <1>5 DEF Sums
<1>7. Pick(m) \in m
  BY <1>6, PickIn
<1>8. g[m \ {Pick(m)}] = h[m \ {Pick(m)}]
  BY <1>4, <1>5, <1>7
<1>9. g[m] = w[Pick(m)] + g[m \ {Pick(m)}] /\ h[m] = w[Pick(m)] + h[m \ {Pick(m)}]
  BY <1>5, <1>6 DEF Sums
<1>10. QED
  BY <1>5, <1>8, <1>9

\* The recursive definition of the fold has a solution on every finite set.
LEMMA SumsExist ==
  ASSUME NEW w, NEW A, IsFiniteSet(A)
  PROVE  \E g : Sums(w, A, g)
<1> DEFINE T == {B \in SUBSET A : ~ \E g : Sums(w, B, g)}
<1>1. SUFFICES ASSUME T # {} PROVE FALSE
  OBVIOUS
<1>2. T \in SUBSET SUBSET A
  OBVIOUS
<1>3. PICK m \in T : \A y \in SUBSET m : y # m => y \notin T
  <2> HIDE DEF T
  <2> QED BY <1>1, <1>2, MinimalSet
<1>4. m \in SUBSET A /\ ~ \E g : Sums(w, m, g)
  OBVIOUS
<1>10. IsFiniteSet(m)
  BY <1>4, FS_Subset
<1>5. \A y \in SUBSET m : y # m => \E g : Sums(w, y, g)
  BY <1>3, <1>4
<1> DEFINE G(y) == CHOOSE g : Sums(w, y, g)
           g == [s \in SUBSET m |-> IF s # m THEN G(s)[s]
                   ELSE IF s = {} THEN 0 ELSE w[Pick(s)] + G(s \ {Pick(s)})[s \ {Pick(s)}]]
<1>6. \A y \in SUBSET m : y # m => Sums(w, y, G(y))
  BY <1>5
<1>7. ASSUME NEW s \in SUBSET m
      PROVE  g[s] = IF s = {} THEN 0 ELSE w[Pick(s)] + g[s \ {Pick(s)}]
  <2>1. CASE s = {}
    <3>1. CASE s = m
      BY <3>1, <2>1
    <3>2. CASE s # m
      <4>1. Sums(w, s, G(s)) /\ g[s] = G(s)[s]
        BY <1>6, <3>2
      <4> HIDE DEF G, g
      <4>2. QED
        BY <4>1, <2>1 DEF Sums
    <3>3. QED
      BY <3>1, <3>2
  <2>2. CASE s # {}
    <3> DEFINE r == s \ {Pick(s)}
    <3>1. Pick(s) \in s /\ r \in SUBSET m /\ r # m /\ r # s /\ r \in SUBSET s
      BY <2>2, PickIn
    <3>2. g[r] = G(r)[r]
      BY <3>1
    <3>3. CASE s = m
      BY <3>3, <3>2, <2>2
    <3>4. CASE s # m
      <4>1. Sums(w, s, G(s)) /\ g[s] = G(s)[s] /\ Sums(w, r, G(r)) /\ IsFiniteSet(s)
        BY <1>6, <3>4, <3>1, <1>10, FS_Subset
      <4> HIDE DEF G, g, r
      <4>2. G(s)[s] = w[Pick(s)] + G(s)[r]
        BY <4>1, <2>2 DEF Sums, r
      <4>3. G(s)[r] = G(r)[r]
        BY <4>1, <3>1, SumsAgree
      <4>4. QED
        BY <4>1, <4>2, <4>3, <3>2, <2>2 DEF r
    <3>5. QED
      BY <3>3, <3>4
  <2>3. QED
    BY <2>1, <2>2
<1>8. Sums(w, m, g)
  <2>1. g = [s \in SUBSET m |-> g[s]]
    OBVIOUS
  <2> HIDE DEF g
  <2>2. QED
    BY <2>1, <1>7 DEF Sums
<1>9. QED
  BY <1>8, <1>4

\* The recursion equation of the sum.
LEMMA TotalStep ==
  ASSUME NEW w, NEW A, IsFiniteSet(A)
  PROVE  Total(w, A) = IF A = {} THEN 0 ELSE w[Pick(A)] + Total(w, A \ {Pick(A)})
<1> DEFINE G(y) == CHOOSE g : Sums(w, y, g)
           r == A \ {Pick(A)}
<1>1. IsFiniteSet(r) /\ r \in SUBSET A
  BY FS_Subset
<1>2. Sums(w, A, G(A)) /\ Sums(w, r, G(r))
  BY <1>1, SumsExist
<1>3. Total(w, A) = G(A)[A] /\ Total(w, r) = G(r)[r]
  BY DEF Total
<1> HIDE DEF G, r
<1>4. G(A)[A] = IF A = {} THEN 0 ELSE w[Pick(A)] + G(A)[r]
  BY <1>2 DEF Sums, r
<1>5. G(A)[r] = G(r)[r]
  BY <1>1, <1>2, SumsAgree
<1>6. QED
  BY <1>3, <1>4, <1>5 DEF r

\* An empty sum.
LEMMA TotalEmpty == ASSUME NEW w PROVE Total(w, {}) = 0
  BY TotalStep, FS_EmptySet

\* A sum of naturals is a natural.
LEMMA TotalNat ==
  ASSUME NEW U, NEW w \in [U -> Nat], NEW A \in SUBSET U, IsFiniteSet(A)
  PROVE  Total(w, A) \in Nat
<1> DEFINE T == {B \in SUBSET A : Total(w, B) \notin Nat}
<1>1. SUFFICES ASSUME T # {} PROVE FALSE
  OBVIOUS
<1>2. T \in SUBSET SUBSET A
  OBVIOUS
<1>3. PICK m \in T : \A y \in SUBSET m : y # m => y \notin T
  <2> HIDE DEF T
  <2> QED BY <1>1, <1>2, MinimalSet
<1>4. m \in SUBSET A /\ Total(w, m) \notin Nat /\ IsFiniteSet(m)
  BY FS_Subset
<1>5. m # {} /\ Pick(m) \in m
  <2>1. m # {}
    BY <1>4, TotalEmpty
  <2>2. QED
    BY <2>1, PickIn
<1>6. Total(w, m \ {Pick(m)}) \in Nat
  BY <1>3, <1>4, <1>5
<1>7. w[Pick(m)] \in Nat /\ Total(w, m) = w[Pick(m)] + Total(w, m \ {Pick(m)})
  BY <1>4, <1>5, TotalStep
<1>8. QED
  BY <1>4, <1>6, <1>7

\* The order does not matter: any element may be split off.
LEMMA TotalRemove ==
  ASSUME NEW U, NEW w \in [U -> Nat], NEW A \in SUBSET U, IsFiniteSet(A), NEW t \in A
  PROVE  Total(w, A) = w[t] + Total(w, A \ {t})
<1> DEFINE T == {B \in SUBSET A : \E u \in B : Total(w, B) # w[u] + Total(w, B \ {u})}
<1>1. SUFFICES ASSUME T # {} PROVE FALSE
  OBVIOUS
<1>2. T \in SUBSET SUBSET A
  OBVIOUS
<1>3. PICK m \in T : \A y \in SUBSET m : y # m => y \notin T
  <2> HIDE DEF T
  <2> QED BY <1>1, <1>2, MinimalSet
<1>4. m \in SUBSET A /\ IsFiniteSet(m) /\ m # {} /\ Pick(m) \in m
  BY FS_Subset, PickIn
<1>5. PICK u \in m : Total(w, m) # w[u] + Total(w, m \ {u})
  OBVIOUS
<1> DEFINE x == Pick(m)
<1>6. Total(w, m) = w[x] + Total(w, m \ {x})
  BY <1>4, TotalStep
<1>7. x # u
  BY <1>5, <1>6
<1>8. \A y \in SUBSET m : y # m => \A v \in y : Total(w, y) = w[v] + Total(w, y \ {v})
  BY <1>3, <1>4
<1>9. Total(w, m \ {x}) = w[u] + Total(w, (m \ {x}) \ {u})
  BY <1>4, <1>7, <1>8
<1>10. Total(w, m \ {u}) = w[x] + Total(w, (m \ {u}) \ {x})
  BY <1>4, <1>7, <1>8
<1>11. (m \ {x}) \ {u} = (m \ {u}) \ {x} /\ (m \ {u}) \ {x} \in SUBSET U /\ IsFiniteSet((m \ {u}) \ {x})
  BY <1>4, FS_Subset
<1>12. Total(w, (m \ {u}) \ {x}) \in Nat /\ w[x] \in Nat /\ w[u] \in Nat
  BY <1>4, <1>11, TotalNat
<1> HIDE DEF x
<1>13. QED
  BY <1>5, <1>6, <1>9, <1>10, <1>11, <1>12

\* Splitting off a whole subset.
LEMMA TotalDifference ==
  ASSUME NEW U, NEW w \in [U -> Nat], NEW A \in SUBSET U, IsFiniteSet(A), NEW D \in SUBSET A
  PROVE  Total(w, A \ D) = Total(w, A) - Total(w, D)
<1> DEFINE T == {B \in SUBSET D : Total(w, A \ B) # Total(w, A) - Total(w, B)}
<1>0. IsFiniteSet(D)
  BY FS_Subset
<1>1. SUFFICES ASSUME T # {} PROVE FALSE
  OBVIOUS
<1>2. T \in SUBSET SUBSET D
  OBVIOUS
<1>3. PICK m \in T : \A y \in SUBSET m : y # m => y \notin T
  <2> HIDE DEF T
  <2> QED BY <1>0, <1>1, <1>2, MinimalSet
<1>4. m \in SUBSET D /\ IsFiniteSet(m) /\ IsFiniteSet(A \ m)
  BY FS_Subset
<1>5. Total(w, A) \in Nat /\ Total(w, m) \in Nat /\ Total(w, A \ m) \in Nat
  BY <1>4, TotalNat
<1>6. m # {}
  <2>1. A \ {} = A /\ Total(w, A \ m) # Total(w, A) - Total(w, m)
    OBVIOUS
  <2> HIDE DEF T
  <2>2. QED
    BY <1>5, <2>1, TotalEmpty
<1>7. PICK t \in m : TRUE
  BY <1>6
<1>8. t \in A /\ t \in A \ (m \ {t}) /\ (A \ (m \ {t})) \ {t} = A \ m /\ IsFiniteSet(A \ (m \ {t})) /\ IsFiniteSet(m \ {t})
  BY <1>4, FS_Subset
<1>9. Total(w, A \ (m \ {t})) = Total(w, A) - Total(w, m \ {t})
  BY <1>3, <1>4
<1>10. Total(w, A \ (m \ {t})) = w[t] + Total(w, A \ m)
  BY <1>8, TotalRemove
<1>11. Total(w, m) = w[t] + Total(w, m \ {t})
  BY <1>4, TotalRemove
<1>12. Total(w, m \ {t}) \in Nat /\ w[t] \in Nat
  BY <1>4, <1>8, TotalNat
<1>13. Total(w, A \ m) # Total(w, A) - Total(w, m)
  OBVIOUS
<1>14. QED
  BY <1>5, <1>9, <1>10, <1>11, <1>12, <1>13
-----------------------------------------------------------------------------
(* The inductive invariant *)

Places == {"unused", "idle", "admitted", "enabled", "trying", "rejected", "waiting", "reserved", "held",
           "awaiting", "acking", "granted", "done", "failed", "reclaimed"}

SendKeys == {KeyOf[t] : t \in Sends}

ChannelState ==
    [delivered : BOOLEAN, avail : Nat, max : Nat, rows : Nat, batches : Nat]

\* The counters are naturals because the charges are exact: see Charges.
TypeOK ==
    /\ maxPending \in Nat \ {0} /\ budget \in Nat \ {0} /\ changes \in Nat
    /\ seen \in [Sends -> Nat] /\ stale \in SUBSET Keys
    /\ live \in SUBSET Keys /\ retired \in SUBSET Keys
    /\ chan \in [Keys -> ChannelState] /\ gen \in [Keys -> Nat]
    /\ bytes \in Int /\ pending \in Int /\ queued \in Int
    /\ noteId \in [Keys -> Nat] /\ noteWaiters \in [Keys -> Nat]
    /\ at \in [Calls -> Places] /\ own \in [Calls -> Nat]
    /\ slots \in SUBSET Calls /\ woken \in SUBSET Calls
    /\ due \in [Keys -> Nat] /\ tearing \in SUBSET Exchanges /\ budgetDue \in BOOLEAN
    /\ wire \in SUBSET Sends /\ acks \in SUBSET Sends /\ breaks \in Nat

\* A charge is of the channel its key has now, or of one that was torn down.
Owned ==
    \A t \in Charged : /\ own[t] <= gen[KeyOf[t]]
                       /\ own[t] = gen[KeyOf[t]] => KeyOf[t] \in live

\* An attempt holds a budget that admits it, and a wake-up is due if another
\* has replaced it since.
Trying ==
    \A t \in Sends : at[t] = "trying" =>
        /\ Bytes[t] <= MaxBatchBytes /\ Bytes[t] <= MaxBytes /\ Rows[t] <= seen[t]
        /\ t \notin woken /\ seen[t] # budget => budgetDue

\* A delivered reservation is in the list of a channel that is in use, ...
Delivered ==
    \A t \in Sends : at[t] = "awaiting" => SameOwner(t) /\ chan[KeyOf[t]].delivered

\* ... so that the teardown that takes it back retires the key.
TakenBack == \A t \in Sends : at[t] = "reclaimed" => KeyOf[t] \in retired

Charges == ChargesExact /\ Owned /\ Delivered /\ TakenBack

\* The row calls that are registered with the notifier k has now.
Waiters(k) == {r \in RowCalls : KeyOf[r] = k /\ r \in slots /\ own[r] = noteId[k]}

\* A row call has a slot while it waits, of the notifier of its time.
Slots ==
    /\ \A r \in RowCalls :
          /\ r \in slots <=> at[r] \in {"reserved", "enabled", "waiting"}
          /\ r \in slots => own[r] <= noteId[KeyOf[r]]
    /\ \A k \in Keys : noteWaiters[k] = Cardinality(Waiters(k))

IInv == TypeOK /\ Trying /\ Charges /\ Slots /\ NoLostWakeup

-----------------------------------------------------------------------------
(* Typing *)

\* What the assumptions say of a call, and of a channel entry.
LEMMA CallFacts ==
    /\ IsFiniteSet(Sends) /\ IsFiniteSet(RowCalls)
    /\ Sends \subseteq Calls /\ RowCalls \subseteq Calls
    /\ \A c \in Calls : KeyOf[c] \in Keys /\ Rows[c] \in Nat \ {0}
    /\ \A t \in Sends : Bytes[t] \in Nat
    /\ \A k \in Keys : ExchangeOf[k] \in Exchanges
    /\ Rows \in [Calls -> Nat] /\ Bytes \in [Sends -> Nat]
  BY ExchangeCallsAssumption DEF Calls

\* The entry of a key, existing or fresh, is a channel state.
LEMMA ChannelType ==
  ASSUME TypeOK, NEW k \in Keys
  PROVE  Channel(k) \in ChannelState /\ \A n \in Nat : ChannelWith(k, n) \in ChannelState
  BY DEF TypeOK, Channel, ChannelWith, FreshChannel, ChannelState

\* The sums of the model are sums of the section above.
LEMMA SumUnfold ==
    \A S : BytesOf(S) = Total(Bytes, S) /\ RowsOf(S) = Total(Rows, S)
  BY DEF BytesOf, RowsOf, Total, Sums, Pick, MapThenSumSet, MapThenFoldSet

\* What a teardown takes back is a finite set of sends.
LEMMA TeardownTypes ==
  ASSUME NEW x
  PROVE  /\ BytesOf(Reclaimed(x)) \in Nat /\ Cardinality(Reclaimed(x)) \in Nat
         /\ IsFiniteSet(Reclaimed(x))
<1>1. Reclaimed(x) \in SUBSET Sends
  BY DEF Reclaimed
<1>2. QED
  BY <1>1, CallFacts, SumUnfold, TotalNat, FS_Subset, FS_CardinalityType

\* What the operations make of a channel entry is one.
LEMMA ChannelUpdates ==
  ASSUME NEW c \in ChannelState, NEW n \in Nat
  PROVE  /\ c.avail >= n =>
             /\ [c EXCEPT !.avail = @ - n, !.rows = @ + n, !.batches = @ + 1] \in ChannelState
             /\ [c EXCEPT !.avail = @ - n, !.rows = @ + n, !.delivered = TRUE] \in ChannelState
         /\ Credited(c, n) \in ChannelState /\ StrayCredits(c, n) \in ChannelState
         /\ [c EXCEPT !.rows = SaturatingSub(c.rows, n), !.batches = SaturatingSub(@, 1),
                      !.avail = SaturatingSub(c.max, SaturatingSub(c.rows, n))] \in ChannelState
         /\ [c EXCEPT !.delivered = TRUE] \in ChannelState
         /\ [c EXCEPT !.avail = n, !.max = IF n = 0 THEN 1 ELSE n] \in ChannelState
         /\ [c EXCEPT !.max = n, !.avail = SaturatingSub(n, c.rows)] \in ChannelState
<1>1. \A a, b \in Nat : SaturatingSub(a, b) \in Nat
  BY DEF SaturatingSub
<1>2. Credited(c, n) \in ChannelState
  BY <1>1 DEF ChannelState, Credited
<1>3. StrayCredits(c, n) \in ChannelState
  BY <1>2 DEF StrayCredits
<1>4. [c EXCEPT !.rows = SaturatingSub(c.rows, n), !.batches = SaturatingSub(@, 1),
                !.avail = SaturatingSub(c.max, SaturatingSub(c.rows, n))] \in ChannelState
  BY <1>1 DEF ChannelState
<1>5. ASSUME c.avail >= n
      PROVE  /\ [c EXCEPT !.avail = @ - n, !.rows = @ + n, !.batches = @ + 1] \in ChannelState
             /\ [c EXCEPT !.avail = @ - n, !.rows = @ + n, !.delivered = TRUE] \in ChannelState
  <2>1. c.avail - n \in Nat /\ c.rows + n \in Nat /\ c.batches + 1 \in Nat
    BY <1>5 DEF ChannelState
  <2>2. QED
    BY <2>1 DEF ChannelState
<1>6. [c EXCEPT !.max = n, !.avail = SaturatingSub(n, c.rows)] \in ChannelState
  BY <1>1 DEF ChannelState
<1>7. [c EXCEPT !.avail = n, !.max = IF n = 0 THEN 1 ELSE n] \in ChannelState
  BY DEF ChannelState
<1>8. [c EXCEPT !.delivered = TRUE] \in ChannelState
  BY DEF ChannelState
<1>9. QED
  BY <1>2, <1>3, <1>4, <1>5, <1>6, <1>7, <1>8

\* A channel update keeps the registry well typed.
LEMMA PutType ==
  ASSUME TypeOK, NEW k \in Keys, NEW c \in ChannelState, Put(k, c)
  PROVE  live' \in SUBSET Keys /\ chan' \in [Keys -> ChannelState]
  BY DEF TypeOK, Put

\* release_batch_permit keeps the registry and the counters well typed.
LEMMA ReleaseType ==
  ASSUME TypeOK, NEW t \in Sends, ReleaseBatchPermit(t)
  PROVE  /\ chan' \in [Keys -> ChannelState] /\ due' \in [Keys -> Nat]
         /\ bytes' \in Int /\ pending' \in Int
         /\ live' = live /\ gen' = gen /\ retired' = retired
<1>1. KeyOf[t] \in Keys /\ Rows[t] \in Nat /\ Bytes[t] \in Nat
  BY CallFacts
<1>2. chan[KeyOf[t]] \in ChannelState
  BY <1>1 DEF TypeOK
<1>3. chan' \in [Keys -> ChannelState]
  BY <1>1, <1>2, ChannelUpdates DEF TypeOK, ReleaseBatchPermit
<1>4. QED
  BY <1>1, <1>3 DEF TypeOK, ReleaseBatchPermit, SaturatingSub

\* The initial state has the types.
LEMMA TypeInit == Init => TypeOK
<1> SUFFICES ASSUME Init PROVE TypeOK
  OBVIOUS
<1>1. NoChannel \in ChannelState /\ changes \in Nat /\ seen \in [Sends -> Nat] /\ stale \in SUBSET Keys
  BY DEF Init, NoChannel, ChannelState
<1>2. at \in [Calls -> Places]
  BY DEF Init, Places
<1>3. maxPending \in Nat \ {0} /\ budget \in Nat \ {0}
  BY ExchangeLimitsAssumption DEF Init
<1>4. /\ live \in SUBSET Keys /\ retired \in SUBSET Keys
      /\ chan \in [Keys -> ChannelState] /\ gen \in [Keys -> Nat]
      /\ noteId \in [Keys -> Nat] /\ noteWaiters \in [Keys -> Nat]
      /\ due \in [Keys -> Nat] /\ own \in [Calls -> Nat]
  BY <1>1 DEF Init
<1>5. /\ slots \in SUBSET Calls /\ woken \in SUBSET Calls /\ tearing \in SUBSET Exchanges
      /\ wire \in SUBSET Sends /\ acks \in SUBSET Sends
      /\ bytes \in Int /\ pending \in Int /\ queued \in Int /\ breaks \in Nat
  BY DEF Init
<1>6. budgetDue \in BOOLEAN
  BY Zenon DEF Init
<1>7. QED
  BY <1>1, <1>2, <1>3, <1>4, <1>5, <1>6 DEF TypeOK

\* Every step keeps the types.
LEMMA TypeNext == TypeOK /\ Trying /\ [Next]_vars => TypeOK'
<1> SUFFICES ASSUME TypeOK, Trying, [Next]_vars PROVE TypeOK'
  OBVIOUS
<1> USE CallFacts
<1>1. ASSUME NEW t \in Sends, Begin(t) PROVE TypeOK'
  BY <1>1 DEF TypeOK, ChannelState, Places, Begin, Enable, Move, limits, chanVars, counters, waiting, notices, stream, attempts
<1>2. ASSUME NEW t \in Sends, Refuse(t) PROVE TypeOK'
  BY <1>2 DEF TypeOK, ChannelState, Places, Refuse, Move, DropSlot, limits, chanVars, counters, waiting, notices, stream, attempts
<1>3. ASSUME NEW t \in Sends, Acquire(t) PROVE TypeOK'
  <2>1. live' \in SUBSET Keys /\ chan' \in [Keys -> ChannelState]
    <3>1. ChannelWith(KeyOf[t], seen[t]) \in ChannelState
      BY ChannelType DEF TypeOK
    <3>2. ChannelWith(KeyOf[t], seen[t]).avail >= Rows[t]
      BY <1>3, <3>1 DEF Acquire, Trying, ChannelFull, ChannelState, ChannelWith, FreshChannel, TypeOK
    <3>3. QED
      BY <1>3, <3>1, <3>2, ChannelUpdates, PutType DEF Acquire
  <2>2. QED
    BY <1>3, <2>1 DEF TypeOK, Places, Acquire, Move, DropSlot, limits, chanVars, counters, waiting, notices, stream, attempts
<1>4. ASSUME NEW t \in Sends, Exhausted(t) PROVE TypeOK'
  BY <1>4 DEF TypeOK, Places, Exhausted, Move, limits, chanVars, counters, waiting, notices, stream, attempts
<1>5. ASSUME NEW t \in Sends, Park(t) PROVE TypeOK'
  BY <1>5 DEF TypeOK, ChannelState, Places, Park, TakeSlot, Await, Move, limits, chanVars, counters, waiting, notices, stream, attempts
<1>6. ASSUME NEW t \in Sends, NoSlot(t) PROVE TypeOK'
  BY <1>6 DEF TypeOK, ChannelState, Places, NoSlot, Move, limits, chanVars, counters, waiting, notices, stream, attempts
<1>7. ASSUME NEW t \in Sends, Wake(t) PROVE TypeOK'
  BY <1>7 DEF TypeOK, ChannelState, Places, Wake, Enable, Move, limits, chanVars, counters, waiting, notices, stream, attempts
<1>8. ASSUME NEW t \in Sends, Handoff(t) PROVE TypeOK'
  <2>1. live' \in SUBSET Keys /\ chan' \in [Keys -> ChannelState]
    BY <1>8, ChannelUpdates DEF Handoff, TypeOK
  <2>2. QED
    BY <1>8, <2>1 DEF TypeOK, Places, Handoff, Move, limits, chanVars, counters, waiting, notices, stream, attempts
<1>9. ASSUME NEW t \in Sends, HandoffTooLate(t) PROVE TypeOK'
  BY <1>9, ReleaseType DEF TypeOK, Places, HandoffTooLate, Move, limits, chanVars, counters, waiting, notices, stream, attempts
<1>10. ASSUME NEW t \in Sends, DropPermit(t) PROVE TypeOK'
  BY <1>10, ReleaseType DEF TypeOK, Places, DropPermit, Move, limits, chanVars, counters, waiting, notices, stream, attempts
<1>11. ASSUME NEW t \in Sends, CancelWait(t) PROVE TypeOK'
  BY <1>11 DEF TypeOK, ChannelState, Places, CancelWait, Move, DropSlot, limits, chanVars, counters, waiting, notices, stream, attempts
<1>12. ASSUME NEW t \in Sends, Receive(t) PROVE TypeOK'
  BY <1>12 DEF TypeOK, ChannelState, Places, Receive, limits, chanVars, counters, waiting, notices, stream, attempts
<1>13. ASSUME NEW t \in Sends, AckReservation(t) PROVE TypeOK'
  BY <1>13 DEF TypeOK, ChannelState, Places, AckReservation, Reservations, Move, limits, chanVars, counters, waiting, notices, stream, attempts
<1>14. ASSUME NEW t \in Sends, AckUnmatched(t) PROVE TypeOK'
  <2>1. live' \in SUBSET Keys /\ chan' \in [Keys -> ChannelState]
    BY <1>14, ChannelType, ChannelUpdates, PutType DEF AckUnmatched
  <2>2. due' \in [Keys -> Nat] /\ acks' \in SUBSET Sends
    BY <1>14 DEF TypeOK, AckUnmatched
  <2>3. QED
    BY <1>14, <2>1, <2>2 DEF TypeOK, AckUnmatched, limits, chanVars, counters, waiting, notices, stream, attempts
<1>15. ASSUME NEW t \in Sends, AckRetired(t) PROVE TypeOK'
  BY <1>15 DEF TypeOK, ChannelState, Places, AckRetired, limits, chanVars, counters, waiting, notices, stream, attempts
<1>16. ASSUME NEW t \in Sends, ReleaseAcked(t) PROVE TypeOK'
  BY <1>16, ReleaseType DEF TypeOK, Places, ReleaseAcked, Move, limits, chanVars, counters, waiting, notices, stream, attempts
<1>17. ASSUME NEW r \in RowCalls, AcquireRows(r) PROVE TypeOK'
  <2>1. live' \in SUBSET Keys /\ chan' \in [Keys -> ChannelState]
    BY <1>17, ChannelType, ChannelUpdates, PutType DEF AcquireRows, TakeRows
  <2>2. QED
    BY <1>17, <2>1 DEF TypeOK, Places, AcquireRows, Move, LeaveQueue, DropNotifier, Registered, DropSlot, limits, chanVars, counters, waiting, notices, stream, attempts
<1>18. ASSUME NEW r \in RowCalls, RejectRows(r) PROVE TypeOK'
  <2>1. live' \in SUBSET Keys /\ chan' \in [Keys -> ChannelState]
    BY <1>18, ChannelType, PutType DEF RejectRows, FindNoRows
  <2>2. QED
    BY <1>18, <2>1 DEF TypeOK, Places, RejectRows, Move, Await, limits, chanVars, counters, waiting, notices, stream, attempts
<1>19. ASSUME NEW r \in RowCalls, RefuseRows(r) PROVE TypeOK'
  BY <1>19 DEF TypeOK, ChannelState, Places, RefuseRows, Move, LeaveQueue, DropNotifier, Registered, DropSlot, limits, chanVars, counters, waiting, notices, stream, attempts
<1>20. ASSUME NEW r \in RowCalls, ReserveChannelWaiter(r) PROVE TypeOK'
  BY <1>20 DEF TypeOK, ChannelState, Places, ReserveChannelWaiter, TakeSlot, Move, limits, chanVars, counters, waiting, notices, stream, attempts
<1>21. ASSUME NEW r \in RowCalls, NoSlot(r) PROVE TypeOK'
  BY <1>21 DEF TypeOK, ChannelState, Places, NoSlot, Move, limits, chanVars, counters, waiting, notices, stream, attempts
<1>22. ASSUME NEW r \in RowCalls, EnableRows(r) PROVE TypeOK'
  BY <1>22 DEF TypeOK, ChannelState, Places, EnableRows, Enable, Move, limits, chanVars, counters, waiting, notices, stream, attempts
<1>23. ASSUME NEW r \in RowCalls, ParkRows(r) PROVE TypeOK'
  <2>1. live' \in SUBSET Keys /\ chan' \in [Keys -> ChannelState]
    BY <1>23, ChannelType, PutType DEF ParkRows, FindNoRows
  <2>2. QED
    BY <1>23, <2>1 DEF TypeOK, Places, ParkRows, Move, Await, limits, chanVars, counters, waiting, notices, stream, attempts
<1>24. ASSUME NEW r \in RowCalls, Wake(r) PROVE TypeOK'
  BY <1>24 DEF TypeOK, ChannelState, Places, Wake, Enable, Move, limits, chanVars, counters, waiting, notices, stream, attempts
<1>25. ASSUME NEW r \in RowCalls, ReturnRows(r) PROVE TypeOK'
  <2>1. live' \in SUBSET Keys /\ chan' \in [Keys -> ChannelState]
    BY <1>25, ChannelType, ChannelUpdates, PutType DEF ReturnRows, TypeOK
  <2>2. QED
    BY <1>25, <2>1 DEF TypeOK, Places, ReturnRows, Move, limits, chanVars, counters, waiting, notices, stream, attempts
<1>26. ASSUME NEW r \in RowCalls, CancelRows(r) PROVE TypeOK'
  BY <1>26 DEF TypeOK, ChannelState, Places, CancelRows, Move, LeaveQueue, DropNotifier, Registered, DropSlot, limits, chanVars, counters, waiting, notices, stream, attempts
<1>27. ASSUME NEW k \in Keys, NEW n \in Budgets \cup {0}, SetCredits(k, n) PROVE TypeOK'
  <2>1. live' \in SUBSET Keys /\ chan' \in [Keys -> ChannelState]
    BY <1>27, ExchangeLimitsAssumption, ChannelType, ChannelUpdates, PutType DEF SetCredits
  <2>2. QED
    BY <1>27, <2>1 DEF TypeOK, Places, SetCredits, limits, chanVars, counters, waiting, notices, stream, attempts
<1>28. ASSUME NEW n \in Budgets, SetRowBudget(n) PROVE TypeOK'
  <2>1. live' \in SUBSET Keys /\ chan' \in [Keys -> ChannelState]
    BY <1>28, ExchangeLimitsAssumption, ChannelUpdates DEF SetRowBudget, TypeOK
  <2>2. budget' \in Nat \ {0} /\ changes' \in Nat /\ stale' \in SUBSET Keys
    <3>1. budget' = n /\ changes' = changes + 1 /\ stale' = {}
      BY <1>28 DEF SetRowBudget
    <3>2. changes \in Nat /\ n \in Nat \ {0}
      BY ExchangeLimitsAssumption DEF TypeOK
    <3>3. QED
      BY <3>1, <3>2
  <2>3. QED
    BY <1>28, <2>1, <2>2 DEF TypeOK, Places, SetRowBudget, limits, chanVars, counters, waiting, notices, stream, attempts
<1>29. ASSUME NEW x \in Exchanges, Teardown(x) PROVE TypeOK'
  BY <1>29, TeardownTypes DEF TypeOK, ChannelState, Places, Teardown, NoChannel, NewlyRetired, KeysOf, Reclaimed, limits, chanVars, counters, waiting, notices, stream, attempts
<1>30. ASSUME NEW k \in Keys, NotifyWaiters(k) PROVE TypeOK'
  BY <1>30 DEF TypeOK, ChannelState, Places, NotifyWaiters, Listening, ListeningOn, limits, chanVars, counters, waiting, notices, stream, attempts
<1>31. ASSUME NotifyBudget PROVE TypeOK'
  BY <1>31 DEF TypeOK, ChannelState, Places, NotifyBudget, Listening, ListeningOn, limits, chanVars, counters, waiting, notices, stream, attempts
<1>32. ASSUME NEW x \in Exchanges, TeardownNotify(x) PROVE TypeOK'
  BY <1>32 DEF TypeOK, ChannelState, Places, TeardownNotify, Listening, ListeningOn, KeysOf, limits, chanVars, counters, waiting, notices, stream, attempts
<1>33. ASSUME Break PROVE TypeOK'
  BY <1>33 DEF TypeOK, ChannelState, Places, Break, limits, chanVars, counters, waiting, notices, stream, attempts
<1>35. ASSUME NEW t \in Sends, ReadBudget(t) PROVE TypeOK'
  BY <1>35 DEF TypeOK, ChannelState, Places, ReadBudget, Move, limits, chanVars, counters, waiting, notices, stream, attempts
<1>36. ASSUME NEW r \in RowCalls, AdmitRows(r) PROVE TypeOK'
  BY <1>36 DEF TypeOK, ChannelState, Places, AdmitRows, Move, limits, chanVars, counters, waiting, notices, stream, attempts
<1>34. CASE UNCHANGED vars
  BY <1>34 DEF TypeOK, vars, limits, chanVars, counters, waiting, notices, stream, attempts
<1> QED
  BY <1>1, <1>2, <1>3, <1>4, <1>5, <1>6, <1>7, <1>8, <1>9, <1>10, <1>11, <1>12, <1>13, <1>14, <1>15, <1>16, <1>17, <1>18, <1>19, <1>20, <1>21, <1>22, <1>23, <1>24, <1>25, <1>26, <1>27, <1>28, <1>29, <1>30, <1>31, <1>32, <1>33, <1>34, <1>35, <1>36 DEF Next, SendStep, StreamStep, RowStep, Notify

-----------------------------------------------------------------------------
(* Charges *)

ChargedPlaces == {"held", "awaiting", "acking"}

\* The sets that are counted are finite, and their sums are naturals.
LEMMA ChargedFinite ==
  ASSUME NEW S \in SUBSET Sends
  PROVE  /\ IsFiniteSet(S) /\ Cardinality(S) \in Nat
         /\ BytesOf(S) \in Nat /\ RowsOf(S) \in Nat
<1>1. IsFiniteSet(S) /\ S \in SUBSET Calls
  BY CallFacts, FS_Subset
<1>2. QED
  BY <1>1, CallFacts, SumUnfold, TotalNat, FS_CardinalityType

\* Counting without one of the calls.
LEMMA ChargedWithout ==
  ASSUME NEW S \in SUBSET Sends, NEW t \in S
  PROVE  /\ Cardinality(S \ {t}) = Cardinality(S) - 1
         /\ BytesOf(S \ {t}) = BytesOf(S) - Bytes[t]
         /\ RowsOf(S \ {t}) = RowsOf(S) - Rows[t]
<1>1. S \ {t} \in SUBSET Sends /\ S \in SUBSET Calls /\ Bytes[t] \in Nat /\ Rows[t] \in Nat
  BY CallFacts
<1>2. BytesOf(S) = Bytes[t] + BytesOf(S \ {t})
  BY ChargedFinite, CallFacts, SumUnfold, TotalRemove
<1>3. RowsOf(S) = Rows[t] + RowsOf(S \ {t})
  BY <1>1, ChargedFinite, CallFacts, SumUnfold, TotalRemove
<1>4. Cardinality(S \ {t}) = Cardinality(S) - 1
  BY ChargedFinite, FS_RemoveElement
<1>5. QED
  BY <1>1, <1>2, <1>3, <1>4, ChargedFinite

\* Nothing is charged for no calls.
LEMMA ChargedNone == Cardinality({}) = 0 /\ BytesOf({}) = 0 /\ RowsOf({}) = 0
  BY SumUnfold, TotalEmpty, FS_EmptySet

\* Nothing is charged to the next channel of a key that has none.
LEMMA UnusedUncharged ==
  ASSUME Charges, NEW k, k \notin live
  PROVE  ChargedTo(k) = {}
  BY DEF Charges, Owned, ChargedTo

\* A new controller has no charges.
LEMMA ChargesInit == Init => Charges
<1> SUFFICES ASSUME Init PROVE Charges
  OBVIOUS
<1>1. /\ Charged = {} /\ live = {} /\ bytes = 0 /\ pending = 0
      /\ \A t \in Sends : at[t] \in {"idle", "unused"}
  BY CallFacts DEF Init, Charged
<1>2. pending <= maxPending /\ bytes <= MaxBytes
  BY <1>1, ExchangeLimitsAssumption DEF Init
<1>3. ChargesExact
  BY <1>1, <1>2, ChargedNone DEF ChargesExact
<1>4. QED
  BY <1>1, <1>3 DEF Charges, Owned, Delivered, TakenBack

\* A step that neither charges nor releases, and at most creates channels.
LEMMA QuietStep ==
  ASSUME TypeOK, Charges,
         budget' = budget, maxPending' = maxPending, bytes' = bytes, pending' = pending,
         gen' = gen, retired' = retired, live \subseteq live',
         \A t \in Sends : /\ own'[t] = own[t]
                          /\ at'[t] \in ChargedPlaces <=> at[t] \in ChargedPlaces
                          /\ at'[t] = "awaiting" => at[t] = "awaiting"
                          /\ at'[t] = "reclaimed" => at[t] = "reclaimed",
         \A k \in SendKeys : /\ k \in live => chan'[k] = chan[k]
                             /\ k \in live' \ live => chan'[k] = FreshChannel(budget),
         stale \subseteq stale'
  PROVE  Charges'
<1>1. Charged' = Charged /\ \A k : ChargedTo(k)' = ChargedTo(k)
  BY DEF Charged, ChargedTo, ChargedPlaces
<1>2. \A k \in live' \cap SendKeys :
         /\ chan'[k].batches = Cardinality(ChargedTo(k))
         /\ chan'[k].rows = RowsOf(ChargedTo(k))
         /\ chan'[k].avail = SaturatingSub(chan'[k].max, chan'[k].rows)
         /\ k \notin stale => chan'[k].max = budget
  <2> SUFFICES ASSUME NEW k \in live' \cap SendKeys
               PROVE  /\ chan'[k].batches = Cardinality(ChargedTo(k))
                      /\ chan'[k].rows = RowsOf(ChargedTo(k))
                      /\ chan'[k].avail = SaturatingSub(chan'[k].max, chan'[k].rows)
                      /\ k \notin stale => chan'[k].max = budget
    OBVIOUS
  <2>1. CASE k \in live
    BY <2>1 DEF Charges, ChargesExact, SendKeys
  <2>2. CASE k \notin live
    <3>1. chan'[k] = FreshChannel(budget) /\ ChargedTo(k) = {}
      BY <2>2, UnusedUncharged
    <3>2. FreshChannel(budget).avail = SaturatingSub(budget, 0)
      BY DEF FreshChannel, SaturatingSub, TypeOK
    <3>3. QED
      BY <3>1, <3>2, ChargedNone DEF FreshChannel
  <2>3. QED
    BY <2>1, <2>2
<1>3. ChargesExact'
  <2>1. /\ pending' <= maxPending' /\ bytes' <= MaxBytes
        /\ pending' = Cardinality(Charged') /\ bytes' = BytesOf(Charged')
    BY <1>1 DEF Charges, ChargesExact
  <2>2. QED
    BY <1>1, <1>2, <2>1 DEF ChargesExact, SendKeys
<1>4. Owned'
  BY <1>1 DEF Charges, Owned, Charged
<1>6. Delivered' /\ TakenBack'
  BY DEF Charges, Delivered, TakenBack, SameOwner, SendKeys
<1>7. QED
  BY <1>3, <1>4, <1>6 DEF Charges

\* release_batch_permit gives back what its permit had taken, and to the
\* channel only if it is still the one the permit was for.
LEMMA ReleaseStep ==
  ASSUME TypeOK, TypeOK', Charges, NEW t \in Charged, NEW place \in {"done", "failed"},
         ReleaseBatchPermit(t), Move(t, place), UNCHANGED <<limits, own, stale>>
  PROVE  Charges'
<1> DEFINE k == KeyOf[t]
           rows == SaturatingSub(chan[k].rows, Rows[t])
<1>1. t \in Sends /\ t \in Calls /\ k \in Keys /\ Rows[t] \in Nat /\ Bytes[t] \in Nat
  BY CallFacts DEF Charged
<1>2. /\ Charged \in SUBSET Sends
      /\ \A j : ChargedTo(j) \in SUBSET Sends
  BY DEF Charged, ChargedTo
<1>3. Charged' = Charged \ {t} /\ \A j : ChargedTo(j)' = ChargedTo(j) \ {t}
  BY <1>1 DEF Charged, ChargedTo, Move, TypeOK, ReleaseBatchPermit, limits
<1>4. /\ pending' = Cardinality(Charged') /\ bytes' = BytesOf(Charged')
      /\ pending' <= maxPending' /\ bytes' <= MaxBytes
  <2>1. /\ Cardinality(Charged') = Cardinality(Charged) - 1
        /\ BytesOf(Charged') = BytesOf(Charged) - Bytes[t]
        /\ Cardinality(Charged') \in Nat /\ BytesOf(Charged') \in Nat
    BY <1>2, <1>3, ChargedWithout, ChargedFinite
  <2>2. /\ pending = Cardinality(Charged) /\ bytes = BytesOf(Charged)
        /\ pending <= maxPending /\ bytes <= MaxBytes
    BY DEF Charges, ChargesExact
  <2>3. pending' = pending - 1 /\ bytes' = bytes - Bytes[t]
    BY <1>1, <2>1, <2>2 DEF ReleaseBatchPermit, SaturatingSub, TypeOK
  <2>4. maxPending' = maxPending /\ MaxBytes \in Nat /\ maxPending \in Nat /\ pending \in Int /\ bytes \in Int
    BY ExchangeLimitsAssumption DEF limits, TypeOK
  <2>5. QED
    BY <1>1, <2>1, <2>2, <2>3, <2>4
<1>5. ASSUME NEW j \in live \cap SendKeys
      PROVE  /\ chan'[j].batches = Cardinality(ChargedTo(j)')
             /\ chan'[j].rows = RowsOf(ChargedTo(j)')
             /\ chan'[j].avail = SaturatingSub(chan'[j].max, chan'[j].rows)
             /\ chan'[j].max = chan[j].max /\ chan'[j].delivered = chan[j].delivered
  <2>1. /\ chan[j].batches = Cardinality(ChargedTo(j))
        /\ chan[j].rows = RowsOf(ChargedTo(j))
        /\ chan[j].avail = SaturatingSub(chan[j].max, chan[j].rows)
    BY DEF Charges, ChargesExact, SendKeys
  <2>2. CASE t \in ChargedTo(j)
    <3>1. j = k /\ ReleaseMatches(t)
      BY <2>2 DEF ChargedTo, ReleaseMatches, SameOwner
    <3>2. chan[j] \in ChannelState /\ j \in Keys
      BY <1>1, <3>1 DEF TypeOK
    <3>3. chan'[j] = [chan[j] EXCEPT !.rows = rows, !.batches = SaturatingSub(@, 1),
                                     !.avail = SaturatingSub(chan[j].max, rows)]
      BY <3>1, <3>2 DEF ReleaseBatchPermit, TypeOK
    <3>4. /\ Cardinality(ChargedTo(j)') = Cardinality(ChargedTo(j)) - 1
          /\ RowsOf(ChargedTo(j)') = RowsOf(ChargedTo(j)) - Rows[t]
          /\ Cardinality(ChargedTo(j)') \in Nat /\ RowsOf(ChargedTo(j)') \in Nat
      BY <1>2, <1>3, <2>2, ChargedWithout, ChargedFinite
    <3>5. rows = RowsOf(ChargedTo(j)') /\ SaturatingSub(chan[j].batches, 1) = Cardinality(ChargedTo(j)')
      BY <1>1, <1>2, <2>1, <3>1, <3>4, ChargedFinite DEF SaturatingSub
    <3>6. /\ chan'[j].rows = rows /\ chan'[j].batches = SaturatingSub(chan[j].batches, 1)
          /\ chan'[j].avail = SaturatingSub(chan[j].max, rows)
          /\ chan'[j].max = chan[j].max /\ chan'[j].delivered = chan[j].delivered
      BY <3>2, <3>3 DEF ChannelState
    <3>7. QED
      BY <2>1, <3>5, <3>6
  <2>3. CASE t \notin ChargedTo(j)
    <3>1. chan'[j] = chan[j]
      <4>1. CASE j = k
        <5>1. ~ReleaseMatches(t)
          BY <2>3, <4>1 DEF ChargedTo, ReleaseMatches, SameOwner
        <5>2. QED
          BY <5>1 DEF ReleaseBatchPermit
      <4>2. CASE j # k
        BY <4>2, <1>1 DEF ReleaseBatchPermit, TypeOK
      <4>3. QED
        BY <4>1, <4>2
    <3>2. ChargedTo(j)' = ChargedTo(j)
      BY <1>3, <2>3
    <3>3. QED
      BY <2>1, <3>1, <3>2
  <2>4. QED
    BY <2>2, <2>3
<1>6. live' = live /\ gen' = gen /\ retired' = retired /\ budget' = budget /\ own' = own /\ stale' = stale
  BY DEF ReleaseBatchPermit, limits
<1>7. ChargesExact'
  BY <1>4, <1>5, <1>6 DEF Charges, ChargesExact, SendKeys
<1>8. Owned'
  BY <1>3, <1>5, <1>6 DEF Charges, Owned
<1>9. Delivered' /\ TakenBack'
  <2>1. \A u \in Sends : at'[u] \in {"awaiting", "reclaimed"} => at'[u] = at[u]
    BY <1>1 DEF Move, TypeOK
  <2>2. QED
    BY <1>5, <1>6, <2>1 DEF Charges, Delivered, TakenBack, SameOwner, SendKeys
<1>10. QED
  BY <1>7, <1>8, <1>9 DEF Charges

\* A permit is charged in full, within every limit.
LEMMA AcquireStep ==
  ASSUME TypeOK, TypeOK', Trying, Charges, NEW t \in Sends, Acquire(t)
  PROVE  Charges'
<1> DEFINE k == KeyOf[t]
           c == ChannelWith(k, seen[t])
<1>1. /\ t \in Calls /\ k \in Keys /\ k \in SendKeys /\ Rows[t] \in Nat /\ Bytes[t] \in Nat
      /\ c \in ChannelState /\ k \in live' /\ live' = live \cup {k}
  BY CallFacts, ChannelType DEF Acquire, Put, SendKeys, TypeOK
<1>2. chan'[k] = [c EXCEPT !.avail = @ - Rows[t], !.rows = @ + Rows[t], !.batches = @ + 1]
  BY <1>1 DEF Acquire, Put, TypeOK
<1>3. /\ chan'[k].avail = c.avail - Rows[t] /\ chan'[k].rows = c.rows + Rows[t]
      /\ chan'[k].batches = c.batches + 1 /\ chan'[k].max = c.max
      /\ chan'[k].delivered = c.delivered
  BY <1>1, <1>2 DEF ChannelState
<1>4. \A j \in Keys : j # k => chan'[j] = chan[j]
  BY <1>1 DEF Acquire, Put, TypeOK
<1>5. /\ Charged' = Charged \cup {t} /\ t \notin Charged
      /\ ChargedTo(k)' = ChargedTo(k) \cup {t} /\ t \notin ChargedTo(k)
      /\ \A j : j # k => ChargedTo(j)' = ChargedTo(j)
  BY <1>1 DEF Acquire, Charged, ChargedTo, Move, TypeOK, Put
<1>6. Charged' \in SUBSET Sends /\ \A j : ChargedTo(j)' \in SUBSET Sends
  BY DEF Charged, ChargedTo
<1>7. /\ Cardinality(Charged') = Cardinality(Charged) + 1
      /\ BytesOf(Charged') = BytesOf(Charged) + Bytes[t]
      /\ Cardinality(ChargedTo(k)') = Cardinality(ChargedTo(k)) + 1
      /\ RowsOf(ChargedTo(k)') = RowsOf(ChargedTo(k)) + Rows[t]
  <2>1. /\ t \in Charged' /\ Charged' \ {t} = Charged
        /\ t \in ChargedTo(k)' /\ ChargedTo(k)' \ {t} = ChargedTo(k)
    BY <1>5
  <2>2. /\ Cardinality(Charged') \in Nat /\ BytesOf(Charged') \in Nat
        /\ Cardinality(ChargedTo(k)') \in Nat /\ RowsOf(ChargedTo(k)') \in Nat
    BY <1>6, ChargedFinite
  <2>3. /\ Cardinality(Charged) = Cardinality(Charged') - 1
        /\ BytesOf(Charged) = BytesOf(Charged') - Bytes[t]
    BY <1>6, <2>1, ChargedWithout
  <2>4. /\ Cardinality(ChargedTo(k)) = Cardinality(ChargedTo(k)') - 1
        /\ RowsOf(ChargedTo(k)) = RowsOf(ChargedTo(k)') - Rows[t]
    BY <1>6, <2>1, ChargedWithout
  <2>5. QED
    BY <1>1, <2>2, <2>3, <2>4
<1>8. /\ c.batches = Cardinality(ChargedTo(k)) /\ c.rows = RowsOf(ChargedTo(k))
      /\ c.avail = SaturatingSub(c.max, c.rows) /\ (k \notin stale' => c.max = budget)
      /\ stale \subseteq stale'
  <2>1. CASE k \in live
    BY <2>1, <1>1 DEF Charges, ChargesExact, SendKeys, ChannelWith, Acquire
  <2>2. CASE k \notin live
    <3>1. /\ c = FreshChannel(seen[t]) /\ ChargedTo(k) = {}
          /\ stale \subseteq stale' /\ (k \notin stale' => seen[t] = budget)
      BY <2>2, UnusedUncharged DEF ChannelWith, Acquire
    <3>2. FreshChannel(seen[t]).avail = SaturatingSub(seen[t], 0)
      BY DEF FreshChannel, SaturatingSub, TypeOK
    <3>3. QED
      BY <3>1, <3>2, ChargedNone DEF FreshChannel
  <2>3. QED
    BY <2>1, <2>2
<1>9. c.avail >= Rows[t] /\ pending < maxPending /\ bytes + Bytes[t] <= MaxBytes
  BY <1>1, ExchangeLimitsAssumption DEF Acquire, Trying, ChannelFull, Saturated, TypeOK, ChannelState, ChannelWith, FreshChannel
<1>10. chan'[k].avail = SaturatingSub(chan'[k].max, chan'[k].rows)
  BY <1>1, <1>3, <1>8, <1>9 DEF SaturatingSub, ChannelState, TypeOK
<1>11. /\ bytes' = bytes + Bytes[t] /\ pending' = pending + 1 /\ own'[t] = gen[k]
       /\ maxPending' = maxPending /\ budget' = budget /\ gen' = gen /\ retired' = retired
       /\ \A u \in Sends : u # t => own'[u] = own[u] /\ at'[u] = at[u]
       /\ at'[t] = "held"
  BY <1>1 DEF Acquire, limits, Move, TypeOK
<1>12. ChargesExact'
  <2>1. /\ pending' <= maxPending' /\ bytes' <= MaxBytes
        /\ pending' = Cardinality(Charged') /\ bytes' = BytesOf(Charged')
    BY <1>7, <1>9, <1>11 DEF Charges, ChargesExact, TypeOK
  <2>2. ASSUME NEW j \in live' \cap SendKeys
        PROVE  /\ chan'[j].batches = Cardinality(ChargedTo(j)')
               /\ chan'[j].rows = RowsOf(ChargedTo(j)')
               /\ chan'[j].avail = SaturatingSub(chan'[j].max, chan'[j].rows)
               /\ j \notin stale' => chan'[j].max = budget'
    <3>1. CASE j = k
      BY <3>1, <1>3, <1>7, <1>8, <1>10, <1>11
    <3>2. CASE j # k
      <4>1. j \in live /\ j \in Keys /\ chan'[j] = chan[j] /\ ChargedTo(j)' = ChargedTo(j)
        BY <3>2, <1>1, <1>4, <1>5 DEF TypeOK
      <4>2. QED
        BY <4>1, <1>8, <1>11 DEF Charges, ChargesExact, SendKeys
    <3>3. QED
      BY <3>1, <3>2
  <2>3. QED
    BY <2>1, <2>2 DEF ChargesExact, SendKeys
<1>13. Owned'
  <2>1. own'[t] <= gen'[k]
    BY <1>1, <1>11 DEF TypeOK
  <2>2. \A u \in Charged : u # t /\ own'[u] = own[u]
    BY <1>5, <1>11 DEF Charged
  <2>3. QED
    BY <1>1, <1>5, <1>11, <2>1, <2>2 DEF Charges, Owned
<1>15. Delivered' /\ TakenBack'
  <2>1. \A u \in Sends : at'[u] \in {"awaiting", "reclaimed"} => at'[u] = at[u] /\ own'[u] = own[u]
    BY <1>11
  <2>2. \A j \in live : j \in Keys /\ chan'[j].delivered = chan[j].delivered
    BY <1>1, <1>3, <1>4 DEF ChannelWith, TypeOK
  <2>3. QED
    BY <1>1, <1>11, <2>1, <2>2 DEF Charges, Delivered, TakenBack, SameOwner
<1>16. QED
  BY <1>12, <1>13, <1>15 DEF Charges

\* FlowPermit::handoff makes the permit a delivered reservation of its channel.
LEMMA HandoffStep ==
  ASSUME TypeOK, Charges, NEW t \in Sends, Handoff(t)
  PROVE  Charges'
<1> DEFINE k == KeyOf[t]
<1>1. t \in Calls /\ k \in Keys /\ SameOwner(t) /\ k \in live /\ chan[k] \in ChannelState
  BY CallFacts DEF Handoff, SameOwner, TypeOK
<1>2. /\ \A j \in Keys : j # k => chan'[j] = chan[j]
      /\ chan'[k] = [chan[k] EXCEPT !.delivered = TRUE]
  BY <1>1 DEF Handoff, TypeOK
<1>3. \A j \in Keys : /\ chan'[j].max = chan[j].max /\ chan'[j].rows = chan[j].rows
                      /\ chan'[j].batches = chan[j].batches /\ chan'[j].avail = chan[j].avail
                      /\ chan[j].delivered => chan'[j].delivered
  BY <1>1, <1>2 DEF ChannelState
<1>4. chan'[k].delivered
  BY <1>1, <1>2 DEF ChannelState
<1>5. /\ \A u \in Sends : u # t => at'[u] = at[u]
      /\ at'[t] = "awaiting" /\ at[t] = "held"
      /\ live' = live /\ gen' = gen /\ retired' = retired /\ own' = own
      /\ bytes' = bytes /\ pending' = pending /\ budget' = budget /\ maxPending' = maxPending
      /\ stale' = stale
  BY <1>1 DEF Handoff, Move, TypeOK, counters, limits, attempts
<1>6. Charged' = Charged /\ \A j : ChargedTo(j)' = ChargedTo(j)
  BY <1>5 DEF Charged, ChargedTo
<1>7. \A j \in live : j \in Keys
  BY DEF TypeOK
<1>8. ChargesExact'
  BY <1>3, <1>5, <1>6, <1>7 DEF Charges, ChargesExact
<1>9. Owned'
  BY <1>5, <1>6 DEF Charges, Owned
<1>10. Delivered'
  <2>1. \A u \in Sends : KeyOf[u] \in Keys
    BY CallFacts
  <2>2. QED
    BY <1>1, <1>3, <1>4, <1>5, <2>1 DEF Charges, Delivered, SameOwner
<1>11. TakenBack'
  BY <1>5 DEF Charges, TakenBack
<1>12. QED
  BY <1>8, <1>9, <1>10, <1>11 DEF Charges

\* set_row_budget changes what is free, not what is charged.
LEMMA BudgetStep ==
  ASSUME TypeOK, Charges, NEW n \in Budgets, SetRowBudget(n)
  PROVE  Charges'
<1>1. /\ live' = live /\ gen' = gen /\ retired' = retired /\ own' = own /\ at' = at
      /\ bytes' = bytes /\ pending' = pending /\ budget' = n /\ maxPending' = maxPending
  BY DEF SetRowBudget, counters
<1>2. \A j \in live : /\ j \in Keys /\ chan[j] \in ChannelState
                      /\ chan'[j] = [chan[j] EXCEPT !.max = n, !.avail = SaturatingSub(n, chan[j].rows)]
  BY DEF SetRowBudget, TypeOK
<1>3. \A j \in live : /\ chan'[j].max = n /\ chan'[j].rows = chan[j].rows
                      /\ chan'[j].batches = chan[j].batches
                      /\ chan'[j].avail = SaturatingSub(n, chan[j].rows)
                      /\ chan'[j].delivered = chan[j].delivered
  BY <1>2 DEF ChannelState
<1>4. Charged' = Charged /\ \A j : ChargedTo(j)' = ChargedTo(j)
  BY <1>1 DEF Charged, ChargedTo
<1>5. ChargesExact'
  BY <1>1, <1>3, <1>4 DEF Charges, ChargesExact
<1>6. Owned'
  BY <1>1, <1>4 DEF Charges, Owned
<1>7. Delivered' /\ TakenBack'
  BY <1>1, <1>3 DEF Charges, Delivered, TakenBack, SameOwner
<1>8. QED
  BY <1>5, <1>6, <1>7 DEF Charges

\* teardown_exchange takes back the delivered reservations of its channels and
\* nothing else; what stays charged to a channel that went is no longer of the
\* channel its key gets next.
LEMMA TeardownStep ==
  ASSUME TypeOK, TypeOK', Charges, NEW x \in Exchanges, Teardown(x)
  PROVE  Charges'
<1> DEFINE D == Reclaimed(x)
<1>1. D \in SUBSET Charged /\ Charged \in SUBSET Sends /\ D \in SUBSET Sends
  BY DEF Reclaimed, Charged
<1>2. /\ \A u \in Sends : at'[u] = IF u \in D THEN "reclaimed" ELSE at[u]
      /\ own' = own /\ budget' = budget /\ maxPending' = maxPending /\ stale' = stale \ KeysOf(x)
      /\ live' = live \ KeysOf(x) /\ retired' = retired \cup NewlyRetired(x)
      /\ bytes' = bytes - BytesOf(D) /\ pending' = pending - Cardinality(D)
      /\ \A j \in Keys : j \notin KeysOf(x) => chan'[j] = chan[j] /\ gen'[j] = gen[j]
      /\ \A j \in Keys : gen'[j] = IF j \in live \cap KeysOf(x) THEN gen[j] + 1 ELSE gen[j]
  BY CallFacts DEF Teardown, limits
<1>3. Charged' = Charged \ D
  BY <1>1, <1>2 DEF Charged, Reclaimed
<1>4. \A u \in D : u \in Sends /\ KeyOf[u] \in KeysOf(x) /\ KeyOf[u] \in Keys /\ KeyOf[u] \in live
  BY CallFacts DEF Reclaimed, KeysOf, SameOwner
<1>5. \A j \in live' : /\ j \in Keys /\ j \in live /\ j \notin KeysOf(x)
                       /\ ChargedTo(j)' = ChargedTo(j)
  <2> SUFFICES ASSUME NEW j \in live'
               PROVE  /\ j \in Keys /\ j \in live /\ j \notin KeysOf(x)
                      /\ ChargedTo(j)' = ChargedTo(j)
    OBVIOUS
  <2>1. j \in Keys /\ j \in live /\ j \notin KeysOf(x)
    BY <1>2 DEF TypeOK
  <2>2. gen'[j] = gen[j] /\ \A u \in D : KeyOf[u] # j
    BY <2>1, <1>2, <1>4
  <2> HIDE DEF D
  <2>3. QED
    BY <2>1, <2>2, <1>2, <1>3 DEF ChargedTo
<1>6. /\ pending' = Cardinality(Charged') /\ bytes' = BytesOf(Charged')
      /\ pending' <= maxPending' /\ bytes' <= MaxBytes
  <2> HIDE DEF D
  <2>1. /\ IsFiniteSet(Charged) /\ Cardinality(Charged) \in Nat /\ BytesOf(Charged) \in Nat
        /\ IsFiniteSet(D) /\ Cardinality(D) \in Nat /\ BytesOf(D) \in Nat
    BY <1>1, ChargedFinite
  <2>2. BytesOf(Charged') = BytesOf(Charged) - BytesOf(D)
    BY <1>1, <1>3, <2>1, CallFacts, SumUnfold, TotalDifference
  <2>3. Cardinality(Charged \ D) = Cardinality(Charged) - Cardinality(Charged \cap D)
    BY <2>1, FS_Difference
  <2>4. Charged \cap D = D
    BY <1>1
  <2>5. Cardinality(Charged') = Cardinality(Charged) - Cardinality(D)
    BY <1>3, <2>3, <2>4
  <2>6. /\ pending = Cardinality(Charged) /\ bytes = BytesOf(Charged)
        /\ pending <= maxPending /\ bytes <= MaxBytes
    BY DEF Charges, ChargesExact
  <2>7. MaxBytes \in Nat /\ maxPending \in Nat
    BY ExchangeLimitsAssumption DEF TypeOK
  <2>8. QED
    BY <1>2, <2>1, <2>2, <2>5, <2>6, <2>7
<1>7. ChargesExact'
  BY <1>2, <1>5, <1>6 DEF Charges, ChargesExact
<1>9. Owned'
  <2> SUFFICES ASSUME NEW u \in Charged'
               PROVE  own'[u] <= gen'[KeyOf[u]] /\ (own'[u] = gen'[KeyOf[u]] => KeyOf[u] \in live')
    BY DEF Owned
  <2>1. u \in Charged /\ u \in Sends /\ u \in Calls /\ KeyOf[u] \in Keys
    BY <1>1, <1>3, CallFacts
  <2>2. own[u] <= gen[KeyOf[u]] /\ (own[u] = gen[KeyOf[u]] => KeyOf[u] \in live)
    BY <2>1 DEF Charges, Owned
  <2>3. own[u] \in Nat /\ gen[KeyOf[u]] \in Nat
    BY <2>1 DEF TypeOK
  <2>4. CASE KeyOf[u] \in live \cap KeysOf(x)
    BY <1>2, <2>1, <2>2, <2>3, <2>4
  <2>5. CASE KeyOf[u] \notin live \cap KeysOf(x)
    BY <1>2, <2>1, <2>2, <2>3, <2>5
  <2>6. QED
    BY <2>4, <2>5
<1>10. Delivered'
  <2> SUFFICES ASSUME NEW u \in Sends, at'[u] = "awaiting"
               PROVE  SameOwner(u)' /\ chan'[KeyOf[u]].delivered
    BY DEF Delivered
  <2>1. at[u] = "awaiting" /\ u \notin D /\ KeyOf[u] \in Keys
    BY <1>2, CallFacts
  <2>2. SameOwner(u) /\ chan[KeyOf[u]].delivered
    BY <2>1 DEF Charges, Delivered
  <2>3. KeyOf[u] \notin KeysOf(x)
    BY <2>1, <2>2 DEF Reclaimed, KeysOf
  <2>4. QED
    BY <1>2, <2>1, <2>2, <2>3 DEF SameOwner
<1>11. TakenBack'
  <2> SUFFICES ASSUME NEW u \in Sends, at'[u] = "reclaimed"
               PROVE  KeyOf[u] \in retired'
    BY DEF TakenBack
  <2>1. CASE u \in D
    <3>1. KeyOf[u] \in live \cap KeysOf(x) /\ at[u] = "awaiting"
      BY <2>1, <1>4 DEF Reclaimed
    <3>2. chan[KeyOf[u]].delivered
      BY <3>1 DEF Charges, Delivered
    <3>3. QED
      BY <3>1, <3>2, <1>2 DEF NewlyRetired
  <2>2. CASE u \notin D
    BY <2>2, <1>2 DEF Charges, TakenBack
  <2>3. QED
    BY <2>1, <2>2
<1>12. QED
  BY <1>7, <1>9, <1>10, <1>11 DEF Charges

\* An idle channel of senders has no rows to give back.
LEMMA StrayIsNothing ==
  ASSUME TypeOK, Charges, NEW k \in SendKeys \cap Keys, NEW n \in Nat
  PROVE  StrayCredits(Channel(k), n) = Channel(k)
<1> DEFINE c == Channel(k)
<1>1. c \in ChannelState
  BY ChannelType
<1>2. CASE c.batches # 0
  BY <1>2 DEF StrayCredits
<1>3. CASE c.batches = 0
  <2>1. c.rows = 0 /\ c.avail = c.max /\ c.max \in Nat
    <3>1. CASE k \in live
      <4>1. /\ c = chan[k] /\ c.batches = Cardinality(ChargedTo(k)) /\ c.rows = RowsOf(ChargedTo(k))
            /\ c.avail = SaturatingSub(c.max, c.rows) /\ c.max \in Nat
        BY <1>1, <3>1 DEF Charges, ChargesExact, SendKeys, Channel, ChannelWith, ChannelState
      <4>2. ChargedTo(k) \in SUBSET Sends
        BY DEF ChargedTo, Charged
      <4>3. ChargedTo(k) = {}
        BY <1>3, <4>1, <4>2, ChargedFinite, FS_EmptySet
      <4>4. QED
        BY <4>1, <4>3, ChargedNone DEF SaturatingSub, TypeOK
    <3>2. CASE k \notin live
      BY <3>2 DEF Channel, ChannelWith, FreshChannel, TypeOK
    <3>3. QED
      BY <3>1, <3>2
  <2>2. SaturatingSub(c.rows, n) = c.rows /\ SaturatingSub(c.max, c.rows) = c.avail
    BY <2>1 DEF SaturatingSub, TypeOK
  <2>3. QED
    BY <1>1, <1>3, <2>2 DEF StrayCredits, Credited, ChannelState
<1>4. QED
  BY <1>2, <1>3

\* Creating an entry, or changing one of the row interface, is no charge.
LEMMA PutQuiet ==
  ASSUME TypeOK, NEW k \in Keys, NEW c, Put(k, c), k \in SendKeys => c = Channel(k)
  PROVE  /\ live \subseteq live'
         /\ \A j \in SendKeys : /\ j \in live => chan'[j] = chan[j]
                                /\ j \in live' \ live => chan'[j] = FreshChannel(budget)
<1>1. /\ live' = live \cup {k} /\ chan'[k] = c
      /\ \A j \in live : j # k => chan'[j] = chan[j]
  BY DEF Put, TypeOK
<1>2. QED
  BY <1>1 DEF Channel, ChannelWith

\* A row call's channel is not one of senders, and a row call is not a send.
LEMMA RowKeys ==
  \A r \in RowCalls : r \in Calls /\ r \notin Sends /\ KeyOf[r] \in Keys /\ KeyOf[r] \notin SendKeys
  BY CallFacts, ExchangeCallsAssumption, ExchangeKeysAssumption DEF SendKeys

\* Every step keeps the charges exact.
LEMMA ChargesNext == TypeOK /\ TypeOK' /\ Trying /\ Charges /\ [Next]_vars => Charges'
<1> SUFFICES ASSUME TypeOK, TypeOK', Trying, Charges, [Next]_vars PROVE Charges'
  OBVIOUS
<1> USE CallFacts DEF ChargedPlaces
<1>1. ASSUME NEW t \in Sends, Begin(t) \/ Refuse(t) \/ ReadBudget(t) \/ Exhausted(t) \/ Park(t) \/ NoSlot(t) \/ Wake(t) \/ CancelWait(t)
      PROVE  Charges'
  <2>1. /\ UNCHANGED <<limits, chanVars, counters, stale, own>>
        /\ at[t] \in {"idle", "enabled", "trying", "rejected", "waiting"}
        /\ \E place \in {"enabled", "trying", "failed", "rejected", "waiting"} : Move(t, place)
    BY <1>1 DEF attempts, Begin, Refuse, ReadBudget, Exhausted, Park, NoSlot, Wake, CancelWait, Enable, Await
  <2>2. \A u \in Sends : /\ at'[u] \in ChargedPlaces <=> at[u] \in ChargedPlaces
                         /\ at'[u] = "awaiting" => at[u] = "awaiting"
                         /\ at'[u] = "reclaimed" => at[u] = "reclaimed"
    BY <2>1 DEF Move, TypeOK
  <2>3. /\ budget' = budget /\ stale' = stale /\ maxPending' = maxPending /\ bytes' = bytes /\ pending' = pending
        /\ gen' = gen /\ retired' = retired /\ live' = live /\ chan' = chan /\ own' = own
    BY <2>1 DEF limits, chanVars, counters, attempts
  <2>4. QED
    BY <2>2, <2>3, QuietStep
<1>2. ASSUME NEW t \in Sends, Acquire(t) PROVE Charges'
  BY <1>2, AcquireStep
<1>4. ASSUME NEW t \in Sends, Handoff(t) PROVE Charges'
  BY <1>4, HandoffStep
<1>5. ASSUME NEW t \in Sends, HandoffTooLate(t) \/ DropPermit(t) \/ ReleaseAcked(t) PROVE Charges'
  <2>1. /\ t \in Charged /\ ReleaseBatchPermit(t) /\ UNCHANGED <<limits, own, stale>>
        /\ \E place \in {"done", "failed"} : Move(t, place)
    BY <1>5 DEF HandoffTooLate, DropPermit, ReleaseAcked, Charged, attempts
  <2>2. QED
    BY <2>1, ReleaseStep
<1>6. ASSUME NEW t \in Sends, Receive(t) \/ AckRetired(t) PROVE Charges'
  <2>1. /\ budget' = budget /\ stale' = stale /\ maxPending' = maxPending /\ bytes' = bytes /\ pending' = pending
        /\ gen' = gen /\ retired' = retired /\ live' = live /\ chan' = chan /\ own' = own /\ at' = at
    BY <1>6 DEF Receive, AckRetired, limits, chanVars, counters, attempts
  <2>2. QED
    BY <2>1, QuietStep
<1>7. ASSUME NEW t \in Sends, AckReservation(t) PROVE Charges'
  <2>1. /\ budget' = budget /\ stale' = stale /\ maxPending' = maxPending /\ bytes' = bytes /\ pending' = pending
        /\ gen' = gen /\ retired' = retired /\ live' = live /\ chan' = chan /\ own' = own
    BY <1>7 DEF AckReservation, limits, chanVars, counters, attempts
  <2>2. \A u \in Sends : /\ at'[u] \in ChargedPlaces <=> at[u] \in ChargedPlaces
                         /\ at'[u] = "awaiting" => at[u] = "awaiting"
                         /\ at'[u] = "reclaimed" => at[u] = "reclaimed"
    BY <1>7 DEF AckReservation, Reservations, Move, TypeOK
  <2>3. QED
    BY <2>1, <2>2, QuietStep
<1>8. ASSUME NEW t \in Sends, AckUnmatched(t) PROVE Charges'
  <2>1. /\ budget' = budget /\ stale' = stale /\ maxPending' = maxPending /\ bytes' = bytes /\ pending' = pending
        /\ gen' = gen /\ retired' = retired /\ own' = own /\ at' = at
    BY <1>8 DEF AckUnmatched, limits, counters, attempts
  <2>2. KeyOf[t] \in SendKeys \cap Keys /\ Rows[t] \in Nat
    BY DEF SendKeys
  <2>3. Put(KeyOf[t], Channel(KeyOf[t]))
    BY <1>8, <2>2, StrayIsNothing DEF AckUnmatched
  <2>4. /\ live \subseteq live'
        /\ \A j \in SendKeys : /\ j \in live => chan'[j] = chan[j]
                               /\ j \in live' \ live => chan'[j] = FreshChannel(budget)
    BY <2>2, <2>3, PutQuiet
  <2>5. QED
    BY <2>1, <2>4, QuietStep
<1>9. ASSUME NEW r \in RowCalls, RowStep(r) \/ CancelRows(r) PROVE Charges'
  <2>1. /\ budget' = budget /\ stale' = stale /\ maxPending' = maxPending /\ bytes' = bytes /\ pending' = pending
        /\ gen' = gen /\ retired' = retired
    BY <1>9 DEF RowStep, CancelRows, AdmitRows, AcquireRows, RejectRows, RefuseRows, ReserveChannelWaiter, NoSlot,
                EnableRows, ParkRows, Wake, ReturnRows, limits, chanVars, counters, attempts
  <2>2. \A u \in Sends : own'[u] = own[u]
    BY <1>9, RowKeys
       DEF RowStep, CancelRows, AdmitRows, AcquireRows, RejectRows, RefuseRows, ReserveChannelWaiter, NoSlot,
           EnableRows, ParkRows, Wake, ReturnRows, TypeOK
  <2>3. \A u \in Sends : at'[u] = at[u]
    <3>1. \E place : Move(r, place)
      BY <1>9 DEF RowStep, CancelRows, AdmitRows, AcquireRows, RejectRows, RefuseRows, ReserveChannelWaiter, NoSlot,
                  EnableRows, ParkRows, Wake, ReturnRows, Enable, Await
    <3>2. QED
      BY <3>1, RowKeys DEF Move, TypeOK
  <2>4. \/ live' = live /\ chan' = chan
        \/ \E c : Put(KeyOf[r], c)
    BY <1>9 DEF RowStep, CancelRows, AdmitRows, AcquireRows, RejectRows, RefuseRows, ReserveChannelWaiter, NoSlot,
                EnableRows, ParkRows, Wake, ReturnRows, TakeRows, FindNoRows, chanVars
  <2>5. /\ live \subseteq live'
        /\ \A j \in SendKeys : /\ j \in live => chan'[j] = chan[j]
                               /\ j \in live' \ live => chan'[j] = FreshChannel(budget)
    BY <2>4, RowKeys, PutQuiet
  <2>6. QED
    BY <2>1, <2>2, <2>3, <2>5, QuietStep
<1>10. ASSUME NEW k \in Keys, NEW n \in Budgets \cup {0}, SetCredits(k, n) PROVE Charges'
  <2>1. /\ budget' = budget /\ stale' = stale /\ maxPending' = maxPending /\ bytes' = bytes /\ pending' = pending
        /\ gen' = gen /\ retired' = retired /\ own' = own /\ at' = at
    BY <1>10 DEF SetCredits, limits, counters, attempts
  <2>2. k \notin SendKeys
    BY <1>10, RowKeys DEF SetCredits
  <2>3. /\ live \subseteq live'
        /\ \A j \in SendKeys : /\ j \in live => chan'[j] = chan[j]
                               /\ j \in live' \ live => chan'[j] = FreshChannel(budget)
    BY <1>10, <2>2, PutQuiet DEF SetCredits
  <2>4. QED
    BY <2>1, <2>3, QuietStep
<1>11. ASSUME NEW n \in Budgets, SetRowBudget(n) PROVE Charges'
  BY <1>11, BudgetStep
<1>12. ASSUME NEW x \in Exchanges, Teardown(x) PROVE Charges'
  BY <1>12, TeardownStep
<1>13. CASE Notify \/ Break \/ UNCHANGED vars
  <2>1. /\ budget' = budget /\ stale' = stale /\ maxPending' = maxPending /\ bytes' = bytes /\ pending' = pending
        /\ gen' = gen /\ retired' = retired /\ live' = live /\ chan' = chan /\ own' = own /\ at' = at
    BY <1>13 DEF Notify, Break, NotifyWaiters, NotifyBudget, TeardownNotify, vars, limits, chanVars, counters, attempts
  <2>2. QED
    BY <2>1, QuietStep
<1>14. QED
  BY <1>1, <1>2, <1>4, <1>5, <1>6, <1>7, <1>8, <1>9, <1>10, <1>11, <1>12, <1>13
     DEF Next, SendStep, StreamStep

-----------------------------------------------------------------------------
(* Waiter slots and notifiers *)

\* What NotifierKept says of one step.
KeptHere ==
    \A r \in RowCalls :
         /\ r \in slots /\ own[r] = noteId[KeyOf[r]]
         /\ r \in slots' /\ own'[r] # noteId'[KeyOf[r]]
         => ExchangeOf[KeyOf[r]] \in tearing \ tearing'

Slotted == {"reserved", "enabled", "waiting"}

\* The waiters of a notifier are finitely many, and none is counted twice.
LEMMA WaitersFinite ==
  \A k : /\ IsFiniteSet(Waiters(k)) /\ Cardinality(Waiters(k)) \in Nat
         /\ \A r \in Waiters(k) : Cardinality(Waiters(k) \ {r}) = Cardinality(Waiters(k)) - 1
<1> SUFFICES ASSUME NEW k
             PROVE  /\ IsFiniteSet(Waiters(k)) /\ Cardinality(Waiters(k)) \in Nat
                    /\ \A r \in Waiters(k) : Cardinality(Waiters(k) \ {r}) = Cardinality(Waiters(k)) - 1
  OBVIOUS
<1>1. IsFiniteSet(Waiters(k))
  BY CallFacts, FS_Subset DEF Waiters
<1>2. QED
  BY <1>1, FS_CardinalityType, FS_RemoveElement

\* A row call that holds a slot of the notifier its key has now is registered.
LEMMA RegisteredWaiter ==
  ASSUME TypeOK, Slots, NEW r \in RowCalls, r \in slots
  PROVE  Registered(r) <=> r \in Waiters(KeyOf[r])
<1>1. KeyOf[r] \in Keys
  BY CallFacts
<1>2. noteWaiters[KeyOf[r]] = Cardinality(Waiters(KeyOf[r]))
  BY <1>1 DEF Slots
<1>3. r \in Waiters(KeyOf[r]) => Cardinality(Waiters(KeyOf[r])) > 0
  BY WaitersFinite, FS_EmptySet
<1>4. QED
  BY <1>2, <1>3 DEF Registered, Waiters

\* A step that leaves the row calls' slots alone.
LEMMA SlotsQuiet ==
  ASSUME Slots, noteId' = noteId, noteWaiters' = noteWaiters,
         \A r \in RowCalls : /\ own'[r] = own[r]
                             /\ r \in slots' <=> r \in slots
                             /\ at'[r] \in Slotted <=> at[r] \in Slotted
  PROVE  Slots' /\ KeptHere
<1>1. \A k : Waiters(k)' = Waiters(k)
  BY DEF Waiters
<1>2. QED
  BY <1>1 DEF Slots, Slotted, KeptHere

\* ChannelWaiterSlot::drop: one waiter less, and a new notifier after the last.
LEMMA LeaveStep ==
  ASSUME TypeOK, TypeOK', Slots, NEW r \in RowCalls, r \in slots, LeaveQueue(r),
         own' = own, at'[r] \notin Slotted, \A q \in RowCalls : q # r => at'[q] = at[q]
  PROVE  Slots' /\ KeptHere
<1> DEFINE k == KeyOf[r]
<1>1. k \in Keys /\ r \in Calls /\ noteWaiters[k] \in Nat /\ noteId[k] \in Nat
  BY CallFacts DEF TypeOK
<1>2. slots' = slots \ {r}
  BY DEF LeaveQueue, DropSlot
<1>3. \A q \in RowCalls : /\ q \in slots => own[q] <= noteId[KeyOf[q]]
                          /\ own[q] \in Nat /\ KeyOf[q] \in Keys
                          /\ noteId[KeyOf[q]] \in Nat
  BY CallFacts DEF TypeOK, Slots
<1>4. CASE ~Registered(r)
  <2>1. noteId' = noteId /\ noteWaiters' = noteWaiters
    BY <1>4 DEF LeaveQueue, DropNotifier
  <2>2. r \notin Waiters(k)
    BY <1>4, RegisteredWaiter
  <2>3. \A j : Waiters(j)' = Waiters(j)
    BY <1>2, <2>1, <2>2 DEF Waiters
  <2>4. QED
    BY <1>2, <2>1, <2>3 DEF Slots, KeptHere, Slotted
<1>5. CASE Registered(r) /\ noteWaiters[k] # 1
  <2>1. /\ noteId' = noteId
        /\ noteWaiters'[k] = noteWaiters[k] - 1
        /\ \A j \in Keys : j # k => noteWaiters'[j] = noteWaiters[j]
    BY <1>1, <1>5 DEF LeaveQueue, DropNotifier, TypeOK
  <2>2. r \in Waiters(k)
    BY <1>5, RegisteredWaiter
  <2>3. \A j : Waiters(j)' = Waiters(j) \ {r}
    BY <1>2, <2>1 DEF Waiters
  <2>4. \A j : j # k => Waiters(j)' = Waiters(j)
    BY <2>3 DEF Waiters
  <2>5. Cardinality(Waiters(k)') = noteWaiters'[k]
    BY <1>1, <2>1, <2>2, <2>3, WaitersFinite DEF Slots
  <2>6. QED
    BY <1>2, <2>1, <2>4, <2>5 DEF Slots, KeptHere, Slotted
<1>6. CASE Registered(r) /\ noteWaiters[k] = 1
  <2>1. /\ noteId'[k] = noteId[k] + 1 /\ noteWaiters'[k] = 0
        /\ \A j \in Keys : j # k => noteWaiters'[j] = noteWaiters[j] /\ noteId'[j] = noteId[j]
    BY <1>1, <1>6 DEF LeaveQueue, DropNotifier, TypeOK
  <2>2. Waiters(k)' = {}
    BY <1>2, <1>3, <2>1 DEF Waiters
  <2>3. \A j \in Keys : j # k => Waiters(j)' = Waiters(j)
    BY <1>2, <2>1 DEF Waiters
  <2>4. Waiters(k) = {r}
    <3>1. r \in Waiters(k) /\ Cardinality(Waiters(k)) = 1
      BY <1>1, <1>6, RegisteredWaiter DEF Slots
    <3>2. Waiters(k) \ {r} = {}
      <4>1. Cardinality(Waiters(k) \ {r}) = 0
        BY <3>1, WaitersFinite
      <4>2. IsFiniteSet(Waiters(k) \ {r})
        BY WaitersFinite, FS_Subset
      <4>3. QED
        BY <4>1, <4>2, FS_EmptySet
    <3>3. QED
      BY <3>1, <3>2
  <2>5. \A j \in Keys : noteWaiters'[j] = Cardinality(Waiters(j)')
    BY <2>1, <2>2, <2>3, FS_EmptySet DEF Slots
  <2>6. \A q \in RowCalls : /\ q \in slots' <=> at'[q] \in Slotted
                            /\ q \in slots' => own'[q] <= noteId'[KeyOf[q]]
    BY <1>1, <1>2, <1>3, <2>1 DEF Slots, Slotted
  <2>7. KeptHere
    BY <1>2, <1>3, <2>1, <2>4 DEF KeptHere, Waiters
  <2>8. QED
    BY <2>5, <2>6, <2>7 DEF Slots, Slotted
<1>7. QED
  BY <1>4, <1>5, <1>6

\* reserve_channel_waiter: one waiter more, of the notifier of its key.
LEMMA ReserveStep ==
  ASSUME TypeOK, TypeOK', Slots, NEW r \in RowCalls, ReserveChannelWaiter(r)
  PROVE  Slots' /\ KeptHere
<1> DEFINE k == KeyOf[r]
<1>1. /\ k \in Keys /\ r \in Calls /\ r \notin slots
      /\ noteWaiters[k] \in Nat /\ noteId[k] \in Nat
  BY CallFacts DEF TypeOK, Slots, ReserveChannelWaiter
<1>2. /\ slots' = slots \cup {r} /\ noteId' = noteId /\ own'[r] = noteId[k] /\ at'[r] = "reserved"
      /\ noteWaiters'[k] = noteWaiters[k] + 1
      /\ \A j \in Keys : j # k => noteWaiters'[j] = noteWaiters[j]
      /\ \A q \in RowCalls : q # r => own'[q] = own[q] /\ at'[q] = at[q]
  BY <1>1, CallFacts DEF ReserveChannelWaiter, TakeSlot, Move, TypeOK
<1>3. /\ Waiters(k)' = Waiters(k) \cup {r} /\ r \notin Waiters(k)
      /\ \A j : j # k => Waiters(j)' = Waiters(j)
  BY <1>1, <1>2 DEF Waiters
<1>4. Cardinality(Waiters(k)') = Cardinality(Waiters(k)) + 1
  BY <1>3, WaitersFinite, FS_AddElement
<1>5. ASSUME NEW j \in Keys PROVE noteWaiters'[j] = Cardinality(Waiters(j)')
  <2>1. noteWaiters[j] = Cardinality(Waiters(j))
    BY DEF Slots
  <2>2. CASE j = k
    BY <1>2, <1>4, <2>1, <2>2
  <2>3. CASE j # k
    BY <1>2, <1>3, <2>1, <2>3
  <2>4. QED
    BY <2>2, <2>3
<1>6. \A q \in RowCalls : /\ q \in slots' <=> at'[q] \in Slotted
                          /\ q \in slots' => own'[q] <= noteId'[KeyOf[q]]
  BY <1>1, <1>2 DEF Slots, Slotted
<1>7. KeptHere
  BY <1>1, <1>2 DEF KeptHere
<1>8. QED
  BY <1>5, <1>6, <1>7 DEF Slots, Slotted

\* The second half of a teardown takes the notifiers of its exchange away.
LEMMA TeardownNotifyStep ==
  ASSUME TypeOK, TypeOK', Slots, NEW x \in Exchanges, TeardownNotify(x)
  PROVE  Slots' /\ KeptHere
<1>1. slots' = slots /\ own' = own /\ at' = at /\ tearing' = tearing \ {x} /\ x \in tearing
  BY DEF TeardownNotify
<1>2. /\ \A j \in Keys : noteWaiters'[j] = IF j \in KeysOf(x) THEN 0 ELSE noteWaiters[j]
      /\ \A j \in Keys : noteId'[j] = IF j \in KeysOf(x) /\ noteWaiters[j] > 0
                                      THEN noteId[j] + 1 ELSE noteId[j]
  BY DEF TeardownNotify
<1>3. \A j \in Keys : noteWaiters[j] \in Nat /\ noteId[j] \in Nat
  BY DEF TypeOK
<1>4. \A q \in RowCalls : /\ q \in slots => own[q] <= noteId[KeyOf[q]]
                          /\ own[q] \in Nat /\ KeyOf[q] \in Keys
  BY CallFacts DEF TypeOK, Slots
<1>5. ASSUME NEW j \in Keys PROVE noteWaiters'[j] = Cardinality(Waiters(j)')
  <2>1. CASE j \notin KeysOf(x)
    <3>1. noteWaiters'[j] = noteWaiters[j] /\ noteId'[j] = noteId[j]
      BY <1>2, <2>1
    <3>2. Waiters(j)' = Waiters(j)
      BY <1>1, <3>1 DEF Waiters
    <3>3. QED
      BY <3>1, <3>2 DEF Slots
  <2>2. CASE j \in KeysOf(x) /\ noteWaiters[j] = 0
    <3>1. noteWaiters'[j] = noteWaiters[j] /\ noteId'[j] = noteId[j]
      BY <1>2, <2>2
    <3>2. Waiters(j)' = Waiters(j)
      BY <1>1, <3>1 DEF Waiters
    <3>3. QED
      BY <3>1, <3>2 DEF Slots
  <2>3. CASE j \in KeysOf(x) /\ noteWaiters[j] # 0
    <3>1. noteWaiters'[j] = 0 /\ noteId'[j] = noteId[j] + 1
      BY <1>2, <1>3, <2>3
    <3>2. Waiters(j)' = {}
      BY <1>1, <1>3, <1>4, <3>1 DEF Waiters
    <3>3. QED
      BY <3>1, <3>2, FS_EmptySet
  <2>4. QED
    BY <2>1, <2>2, <2>3
<1>6. \A q \in RowCalls : /\ q \in slots' <=> at'[q] \in Slotted
                          /\ q \in slots' => own'[q] <= noteId'[KeyOf[q]]
  BY <1>1, <1>2, <1>3, <1>4 DEF Slots, Slotted
<1>7. KeptHere
  BY <1>1, <1>2, <1>4 DEF KeptHere, KeysOf
<1>8. QED
  BY <1>5, <1>6, <1>7 DEF Slots, Slotted

\* Every step keeps the slots, and the notifiers of those who hold one.
LEMMA SlotsNext == TypeOK /\ TypeOK' /\ Slots /\ [Next]_vars => Slots' /\ KeptHere
<1> SUFFICES ASSUME TypeOK, TypeOK', Slots, [Next]_vars PROVE Slots' /\ KeptHere
  OBVIOUS
<1> USE CallFacts
<1>1. ASSUME NEW t \in Sends, SendStep(t) \/ CancelWait(t) \/ StreamStep(t) PROVE Slots' /\ KeptHere
  <2>1. noteId' = noteId /\ noteWaiters' = noteWaiters
    BY <1>1 DEF SendStep, CancelWait, StreamStep, Begin, Refuse, ReadBudget, Acquire, Exhausted, Park, NoSlot, Wake,
           Handoff, HandoffTooLate, DropPermit, Receive, AckReservation, AckUnmatched, AckRetired,
           ReleaseAcked, waiting
  <2>2. own' = own \/ own' = [own EXCEPT ![t] = gen[KeyOf[t]]]
    BY <1>1 DEF SendStep, CancelWait, StreamStep, Begin, Refuse, ReadBudget, Acquire, Exhausted, Park, NoSlot, Wake,
           Handoff, HandoffTooLate, DropPermit, Receive, AckReservation, AckUnmatched, AckRetired,
           ReleaseAcked
  <2>3. slots' = slots \/ slots' = slots \ {t} \/ slots' = slots \cup {t}
    BY <1>1 DEF SendStep, CancelWait, StreamStep, Begin, Refuse, ReadBudget, Acquire, Exhausted, Park, NoSlot, Wake,
           Handoff, HandoffTooLate, DropPermit, Receive, AckReservation, AckUnmatched, AckRetired,
           ReleaseAcked, waiting, TakeSlot, DropSlot
  <2>4. at' = at \/ \E u \in Sends : \E place : Move(u, place)
    BY <1>1 DEF SendStep, CancelWait, StreamStep, Begin, Refuse, ReadBudget, Acquire, Exhausted, Park, NoSlot, Wake,
           Handoff, HandoffTooLate, DropPermit, Receive, AckReservation, AckUnmatched, AckRetired,
           ReleaseAcked, Enable, Await, Reservations
  <2>5. \A r \in RowCalls : own'[r] = own[r] /\ at'[r] = at[r] /\ (r \in slots' <=> r \in slots)
    BY <2>2, <2>3, <2>4, RowKeys DEF Move, TypeOK
  <2>6. QED
    BY <2>1, <2>5, SlotsQuiet
<1>2. ASSUME NEW r \in RowCalls, AdmitRows(r) \/ RejectRows(r) \/ NoSlot(r) \/ EnableRows(r) \/ ParkRows(r) \/ Wake(r) \/ ReturnRows(r)
      PROVE  Slots' /\ KeptHere
  <2>1. noteId' = noteId /\ noteWaiters' = noteWaiters /\ own' = own /\ slots' = slots
    BY <1>2 DEF AdmitRows, RejectRows, NoSlot, EnableRows, ParkRows, Wake, ReturnRows, waiting
  <2>2. \E place \in Places : Move(r, place) /\ (place \in Slotted <=> at[r] \in Slotted)
    BY <1>2 DEF AdmitRows, RejectRows, NoSlot, EnableRows, ParkRows, Wake, ReturnRows, Enable, Await, Slotted, Places
  <2>3. \A q \in RowCalls : at'[q] \in Slotted <=> at[q] \in Slotted
    BY <2>2 DEF Move, TypeOK
  <2>4. QED
    BY <2>1, <2>3, SlotsQuiet
<1>3. ASSUME NEW r \in RowCalls, AcquireRows(r) \/ RefuseRows(r) \/ CancelRows(r)
      PROVE  Slots' /\ KeptHere
  <2>1. /\ own' = own
        /\ \E place \in {"granted", "failed"} : Move(r, place)
        /\ \/ at[r] \notin Slotted /\ UNCHANGED waiting
           \/ at[r] \in Slotted /\ LeaveQueue(r)
    BY <1>3 DEF AcquireRows, RefuseRows, CancelRows, Slotted
  <2>2. at'[r] \notin Slotted /\ \A q \in RowCalls : q # r => at'[q] = at[q]
    BY <2>1 DEF Move, TypeOK, Slotted
  <2>3. CASE at[r] \notin Slotted /\ UNCHANGED waiting
    <3>1. noteId' = noteId /\ noteWaiters' = noteWaiters /\ slots' = slots /\ at[r] \notin Slotted
      BY <2>3 DEF waiting, Slotted
    <3>2. QED
      BY <2>1, <2>2, <3>1, SlotsQuiet
  <2>4. CASE at[r] \in Slotted /\ LeaveQueue(r)
    <3>1. r \in slots
      BY <2>4 DEF Slots, Slotted
    <3>2. QED
      BY <2>1, <2>2, <2>4, <3>1, LeaveStep
  <2>5. QED
    BY <2>1, <2>3, <2>4
<1>4. ASSUME NEW r \in RowCalls, ReserveChannelWaiter(r) PROVE Slots' /\ KeptHere
  BY <1>4, ReserveStep
<1>5. ASSUME NEW x \in Exchanges, TeardownNotify(x) PROVE Slots' /\ KeptHere
  BY <1>5, TeardownNotifyStep
<1>6. ASSUME NEW x \in Exchanges, Teardown(x) PROVE Slots' /\ KeptHere
  <2>1. noteId' = noteId /\ noteWaiters' = noteWaiters /\ own' = own /\ slots' = slots
    BY <1>6 DEF Teardown, waiting
  <2>2. \A q \in RowCalls : at'[q] = at[q]
    BY <1>6, RowKeys DEF Teardown, Reclaimed
  <2>3. QED
    BY <2>1, <2>2, SlotsQuiet
<1>7. CASE \/ \E k \in Keys, n \in Budgets \cup {0} : SetCredits(k, n)
           \/ \E n \in Budgets : SetRowBudget(n)
           \/ \E k \in Keys : NotifyWaiters(k)
           \/ NotifyBudget \/ Break \/ UNCHANGED vars
  <2>1. noteId' = noteId /\ noteWaiters' = noteWaiters /\ own' = own /\ slots' = slots /\ at' = at
    BY <1>7 DEF SetCredits, SetRowBudget, NotifyWaiters, NotifyBudget, Break, vars, waiting
  <2>2. QED
    BY <2>1, SlotsQuiet
<1>8. QED
  BY <1>1, <1>2, <1>3, <1>4, <1>5, <1>6, <1>7 DEF Next, RowStep, Notify

-----------------------------------------------------------------------------
(* Wake-ups *)

\* The two halves of NoLostWakeup, for the senders and for the row calls.
Servable(t) ==
    \/ ~Saturated(t) /\ ~ChannelFull(t)
    \/ KeyOf[t] \in retired \/ Inadmissible(t)

Sleeping(t) == at[t] \in {"rejected", "waiting"} /\ t \notin woken

SendersWoken == \A t \in Sends : Sleeping(t) /\ Servable(t) => NoticeComing

RowServable(r) == Channel(KeyOf[r]).avail >= Rows[r] \/ KeyOf[r] \in retired

RowSleeping(r) == at[r] = "waiting" /\ r \notin woken /\ own[r] = noteId[KeyOf[r]]

RowNotice(r) == due[KeyOf[r]] > 0 \/ ExchangeOf[KeyOf[r]] \in tearing \/ budgetDue

RowsWoken == \A r \in RowCalls : RowSleeping(r) /\ RowServable(r) => RowNotice(r)

\* The two halves together are NoLostWakeup.
LEMMA WakeupHalves == NoLostWakeup <=> SendersWoken /\ RowsWoken
  BY DEF NoLostWakeup, SendersWoken, RowsWoken, Servable, Sleeping, RowServable, RowSleeping, RowNotice

\* What a channel update does to the entry of each key.
LEMMA PutChannel ==
  ASSUME TypeOK, NEW k \in Keys, NEW c, Put(k, c), budget' = budget
  PROVE  Channel(k)' = c /\ \A j \in Keys : j # k => Channel(j)' = Channel(j)
  BY DEF Put, TypeOK, Channel, ChannelWith, FreshChannel

\* A step leaves the entry of k, or its absence, alone.
SameEntry(k) == (k \in live' <=> k \in live) /\ (k \in live => chan'[k] = chan[k])

\* A channel update leaves the other entries alone.
LEMMA PutSame ==
  ASSUME TypeOK, NEW k \in Keys, NEW c, Put(k, c)
  PROVE  \A j \in Keys : j # k => SameEntry(j)
  BY DEF Put, TypeOK, SameEntry

\* A step that makes no sleeper servable and takes no notice away.
LEMMA SendersQuiet ==
  ASSUME TypeOK, SendersWoken, pending' = pending, bytes' = bytes, retired' = retired,
         maxPending' = maxPending, budget' = budget,
         \A t \in Sends : SameEntry(KeyOf[t]),
         \A t \in Sends : Sleeping(t)' /\ Servable(t) => Sleeping(t),
         NoticeComing => NoticeComing'
  PROVE  SendersWoken'
<1>1. \A t \in Sends : Servable(t)' = Servable(t)
  BY DEF Servable, Saturated, ChannelFull, Inadmissible, SameEntry
<1>2. QED
  BY <1>1 DEF SendersWoken

\* The same for the row calls.
LEMMA RowsQuiet ==
  ASSUME TypeOK, RowsWoken, 
         \A r \in RowCalls : RowSleeping(r)' /\ RowServable(r)' => RowSleeping(r) /\ RowServable(r),
         \A r \in RowCalls : RowNotice(r) => RowNotice(r)'
  PROVE  RowsWoken'
  BY DEF RowsWoken

\* A step of a sender leaves the row channels, and the row calls, alone.
LEMMA RowsApart ==
  ASSUME TypeOK, TypeOK', RowsWoken, NEW t \in Sends,
         SendStep(t) \/ CancelWait(t) \/ StreamStep(t)
  PROVE  RowsWoken'
<1> USE CallFacts
<1>0. KeyOf[t] \in Keys /\ \A r \in RowCalls : KeyOf[r] # KeyOf[t] /\ KeyOf[r] \in Keys
  BY RowKeys, ExchangeKeysAssumption
<1>1. noteId' = noteId /\ retired' = retired /\ budget' = budget /\ tearing' = tearing /\ budgetDue' = budgetDue
  BY DEF SendStep, CancelWait, StreamStep, Begin, Refuse, ReadBudget, Acquire, Exhausted, Park, NoSlot, Wake,
         Handoff, HandoffTooLate, DropPermit, Receive, AckReservation, AckUnmatched, AckRetired,
         ReleaseAcked, waiting, chanVars, limits, notices, ReleaseBatchPermit
<1>2. own' = own \/ own' = [own EXCEPT ![t] = gen[KeyOf[t]]]
  BY DEF SendStep, CancelWait, StreamStep, Begin, Refuse, ReadBudget, Acquire, Exhausted, Park, NoSlot, Wake,
         Handoff, HandoffTooLate, DropPermit, Receive, AckReservation, AckUnmatched, AckRetired,
         ReleaseAcked
<1>3. woken' = woken \/ woken' = woken \ {t}
  BY DEF SendStep, CancelWait, StreamStep, Begin, Refuse, ReadBudget, Acquire, Exhausted, Park, NoSlot, Wake,
         Handoff, HandoffTooLate, DropPermit, Receive, AckReservation, AckUnmatched, AckRetired,
         ReleaseAcked, Enable, Await
<1>4. at' = at \/ \E u \in Sends : \E place : Move(u, place)
  BY DEF SendStep, CancelWait, StreamStep, Begin, Refuse, ReadBudget, Acquire, Exhausted, Park, NoSlot, Wake,
         Handoff, HandoffTooLate, DropPermit, Receive, AckReservation, AckUnmatched, AckRetired,
         ReleaseAcked, Enable, Await, Reservations
<1>5. due' = due \/ due' = [due EXCEPT ![KeyOf[t]] = @ + 1]
  BY DEF SendStep, CancelWait, StreamStep, Begin, Refuse, ReadBudget, Acquire, Exhausted, Park, NoSlot, Wake,
         Handoff, HandoffTooLate, DropPermit, Receive, AckReservation, AckUnmatched, AckRetired,
         ReleaseAcked, ReleaseBatchPermit, notices
<1>6. \/ live' = live /\ chan' = chan
      \/ live' = live /\ \E c : chan' = [chan EXCEPT ![KeyOf[t]] = c]
      \/ \E c : Put(KeyOf[t], c)
  <2>1. CASE SendStep(t) \/ CancelWait(t)
    BY <2>1 DEF SendStep, CancelWait, Begin, Refuse, ReadBudget, Acquire, Exhausted, Park, NoSlot, Wake,
         Handoff, HandoffTooLate, DropPermit, ReleaseBatchPermit, chanVars
  <2>2. CASE StreamStep(t)
    BY <2>2 DEF StreamStep, Receive, AckReservation, AckUnmatched, AckRetired,
         ReleaseAcked, ReleaseBatchPermit, chanVars
  <2>3. QED
    BY <2>1, <2>2
<1>7. \A r \in RowCalls : Channel(KeyOf[r])' = Channel(KeyOf[r])
  BY <1>0, <1>1, <1>6 DEF Channel, ChannelWith, FreshChannel, Put, TypeOK
<1>8. \A r \in RowCalls : /\ own'[r] = own[r] /\ at'[r] = at[r] /\ (r \in woken' <=> r \in woken)
                          /\ due'[KeyOf[r]] = due[KeyOf[r]]
  BY <1>0, <1>2, <1>3, <1>4, <1>5, RowKeys DEF Move, TypeOK
<1>9. QED
  BY <1>1, <1>7, <1>8 DEF RowsWoken, RowSleeping, RowServable, RowNotice

\* Every step keeps the senders' half.
LEMMA SendersNext == TypeOK /\ TypeOK' /\ Trying /\ SendersWoken /\ [Next]_vars => SendersWoken'
<1> SUFFICES ASSUME TypeOK, TypeOK', Trying, SendersWoken, [Next]_vars PROVE SendersWoken'
  OBVIOUS
<1> USE CallFacts
<1>0. \A t \in Sends : t \in Calls /\ KeyOf[t] \in Keys
  OBVIOUS
<1>1. ASSUME NEW t \in Sends, Begin(t) \/ Refuse(t) \/ ReadBudget(t) \/ NoSlot(t) \/ Wake(t) \/ CancelWait(t) \/ Park(t)
      PROVE  SendersWoken'
  <2>1. /\ pending' = pending /\ bytes' = bytes /\ retired' = retired /\ live' = live /\ chan' = chan
        /\ maxPending' = maxPending /\ budget' = budget /\ due' = due /\ tearing' = tearing /\ budgetDue' = budgetDue
    BY <1>1 DEF Begin, Refuse, ReadBudget, NoSlot, Wake, CancelWait, Park, limits, counters, chanVars, notices
  <2>2. \/ \E place \in {"enabled", "trying", "failed"} : Move(t, place) /\ (woken' = woken \/ woken' = woken \ {t})
        \/ at[t] = "rejected" /\ Move(t, "waiting") /\ woken' = woken
    BY <1>1 DEF Begin, Refuse, ReadBudget, NoSlot, Wake, CancelWait, Park, Enable, Await
  <2>3. \A u \in Sends : Sleeping(u)' => Sleeping(u)
    BY <2>2 DEF Sleeping, Move, TypeOK
  <2>4. \A u \in Sends : SameEntry(KeyOf[u])
    BY <2>1 DEF SameEntry
  <2>5. NoticeComing => NoticeComing'
    BY <2>1 DEF NoticeComing
  <2>6. QED
    BY <2>1, <2>3, <2>4, <2>5, SendersQuiet
<1>2. ASSUME NEW t \in Sends, Acquire(t) PROVE SendersWoken'
  <2>1. /\ pending' = pending + 1 /\ bytes' = bytes + Bytes[t] /\ retired' = retired
        /\ maxPending' = maxPending /\ budget' = budget /\ due' = due /\ tearing' = tearing
        /\ budgetDue' = budgetDue /\ woken' = woken
    BY <1>2 DEF Acquire, limits, notices
  <2>2. Rows[t] \in Nat /\ Bytes[t] \in Nat
    OBVIOUS
  <2>5. \A u \in Sends : ChannelFull(u) => ChannelFull(u)'
    <3> SUFFICES ASSUME NEW u \in Sends, ChannelFull(u) PROVE ChannelFull(u)'
      OBVIOUS
    <3>1. CASE KeyOf[u] = KeyOf[t]
      <4>1. Rows[u] \in Nat /\ MaxBatches \in Nat
        BY ExchangeLimitsAssumption
      <4>2. KeyOf[t] \in live /\ chan[KeyOf[t]] \in ChannelState
        BY <1>0, <3>1 DEF ChannelFull, TypeOK
      <4>3. chan'[KeyOf[t]] = [chan[KeyOf[t]] EXCEPT !.avail = @ - Rows[t], !.rows = @ + Rows[t],
                                                     !.batches = @ + 1]
        BY <1>0, <1>2, <4>2 DEF Acquire, ChannelWith, Put, TypeOK
      <4>4. /\ chan'[KeyOf[t]].avail = chan[KeyOf[t]].avail - Rows[t]
            /\ chan'[KeyOf[t]].batches = chan[KeyOf[t]].batches + 1
            /\ KeyOf[t] \in live'
        BY <1>2, <4>2, <4>3 DEF ChannelState, Acquire, Put
      <4>5. chan[KeyOf[t]].avail \in Nat /\ chan[KeyOf[t]].batches \in Nat
        BY <4>2 DEF ChannelState
      <4>6. QED
        BY <2>2, <3>1, <4>1, <4>4, <4>5 DEF ChannelFull
    <3>2. CASE KeyOf[u] # KeyOf[t]
      BY <1>0, <1>2, <3>2 DEF Acquire, Put, ChannelFull, TypeOK
    <3>3. QED
      BY <3>1, <3>2
  <2>6. \A u \in Sends : Saturated(u) => Saturated(u)'
    BY <2>1, <2>2, ExchangeLimitsAssumption DEF Saturated, TypeOK
  <2>7. \A u \in Sends : Servable(u)' => Servable(u)
    BY <2>1, <2>5, <2>6 DEF Servable, Inadmissible
  <2>8. \A u \in Sends : Sleeping(u)' => Sleeping(u)
    BY <1>2, <2>1 DEF Acquire, Sleeping, Move, TypeOK
  <2>9. QED
    BY <2>1, <2>7, <2>8 DEF SendersWoken, NoticeComing
<1>3. ASSUME NEW t \in Sends, Exhausted(t) PROVE SendersWoken'
  <2>1. /\ pending' = pending /\ bytes' = bytes /\ retired' = retired /\ woken' = woken
        /\ live' = live /\ chan' = chan
        /\ maxPending' = maxPending /\ budget' = budget /\ due' = due /\ tearing' = tearing /\ budgetDue' = budgetDue
    BY <1>3 DEF Exhausted, limits, counters, chanVars, notices
  <2>2. \A u \in Sends : Servable(u)' = Servable(u)
    BY <2>1 DEF Servable, Saturated, ChannelFull, Inadmissible
  <2>3. t \notin woken /\ Servable(t) => budgetDue
    <3>1. /\ Bytes[t] <= MaxBatchBytes /\ Bytes[t] <= MaxBytes /\ Rows[t] <= seen[t]
          /\ t \notin woken /\ seen[t] # budget => budgetDue
      BY <1>3 DEF Exhausted, Trying
    <3>2. Servable(t) => seen[t] # budget
      BY <1>3, <3>1, ExchangeLimitsAssumption DEF Exhausted, Servable, Inadmissible, TypeOK
    <3>3. QED
      BY <3>1, <3>2
  <2>4. \A u \in Sends : u # t /\ Sleeping(u)' => Sleeping(u)
    BY <1>3, <2>1 DEF Exhausted, Sleeping, Move, TypeOK
  <2>5. QED
    BY <2>1, <2>2, <2>3, <2>4 DEF SendersWoken, Sleeping, NoticeComing
<1>4. ASSUME NEW t \in Sends, Handoff(t) PROVE SendersWoken'
  <2>1. /\ pending' = pending /\ bytes' = bytes /\ retired' = retired /\ woken' = woken /\ live' = live
        /\ maxPending' = maxPending /\ budget' = budget /\ due' = due /\ tearing' = tearing /\ budgetDue' = budgetDue
    BY <1>4 DEF Handoff, limits, counters, notices
  <2>2. \A j \in Keys : chan'[j].avail = chan[j].avail /\ chan'[j].batches = chan[j].batches
    <3>1. chan' = [chan EXCEPT ![KeyOf[t]] = [chan[KeyOf[t]] EXCEPT !.delivered = TRUE]]
      BY <1>0, <1>4 DEF Handoff, TypeOK
    <3>2. \A j \in Keys : chan[j] \in ChannelState
      BY DEF TypeOK
    <3>3. QED
      BY <1>0, <3>1, <3>2 DEF ChannelState, TypeOK
  <2>3. \A u \in Sends : Servable(u)' = Servable(u)
    BY <1>0, <2>1, <2>2 DEF Servable, Saturated, ChannelFull, Inadmissible
  <2>4. \A u \in Sends : Sleeping(u)' => Sleeping(u)
    BY <1>4, <2>1 DEF Handoff, Sleeping, Move, TypeOK
  <2>5. QED
    BY <2>1, <2>3, <2>4 DEF SendersWoken, NoticeComing
<1>5. ASSUME NEW t \in Sends, HandoffTooLate(t) \/ DropPermit(t) \/ ReleaseAcked(t) \/ AckUnmatched(t)
      PROVE  SendersWoken'
  <2>1. due' = [due EXCEPT ![KeyOf[t]] = @ + 1]
    BY <1>5 DEF HandoffTooLate, DropPermit, ReleaseAcked, AckUnmatched, ReleaseBatchPermit
  <2>2. due'[KeyOf[t]] > 0
    BY <1>0, <2>1 DEF TypeOK
  <2>3. QED
    BY <1>0, <2>2 DEF SendersWoken, NoticeComing
<1>6. ASSUME NEW t \in Sends, Receive(t) \/ AckRetired(t) \/ AckReservation(t) PROVE SendersWoken'
  <2>1. /\ pending' = pending /\ bytes' = bytes /\ retired' = retired /\ live' = live /\ chan' = chan /\ woken' = woken
        /\ maxPending' = maxPending /\ budget' = budget /\ due' = due /\ tearing' = tearing /\ budgetDue' = budgetDue
    BY <1>6 DEF Receive, AckRetired, AckReservation, limits, counters, chanVars, notices
  <2>2. at' = at \/ \E u \in Sends : Move(u, "acking")
    BY <1>6 DEF Receive, AckRetired, AckReservation, Reservations
  <2>3. \A u \in Sends : Sleeping(u)' => Sleeping(u)
    BY <2>1, <2>2 DEF Sleeping, Move, TypeOK
  <2>4. \A u \in Sends : SameEntry(KeyOf[u])
    BY <2>1 DEF SameEntry
  <2>5. NoticeComing => NoticeComing'
    BY <2>1 DEF NoticeComing
  <2>6. QED
    BY <2>1, <2>3, <2>4, <2>5, SendersQuiet
<1>7. ASSUME NEW r \in RowCalls, RowStep(r) \/ CancelRows(r) PROVE SendersWoken'
  <2>1. /\ pending' = pending /\ bytes' = bytes /\ retired' = retired
        /\ maxPending' = maxPending /\ budget' = budget /\ tearing' = tearing /\ budgetDue' = budgetDue
    BY <1>7 DEF RowStep, CancelRows, AdmitRows, AcquireRows, RejectRows, RefuseRows, ReserveChannelWaiter, NoSlot,
           EnableRows, ParkRows, Wake, ReturnRows, limits, counters, chanVars, notices
  <2>2. due' = due \/ due' = [due EXCEPT ![KeyOf[r]] = @ + 1]
    BY <1>7 DEF RowStep, CancelRows, AdmitRows, AcquireRows, RejectRows, RefuseRows, ReserveChannelWaiter, NoSlot,
           EnableRows, ParkRows, Wake, ReturnRows, notices
  <2>3. NoticeComing => NoticeComing'
    <3>1. \A j \in Keys : due[j] > 0 => due'[j] > 0
      BY <2>2 DEF TypeOK
    <3>2. QED
      BY <2>1, <3>1 DEF NoticeComing
  <2>4. woken' = woken \/ woken' = woken \ {r}
    BY <1>7 DEF RowStep, CancelRows, AdmitRows, AcquireRows, RejectRows, RefuseRows, ReserveChannelWaiter, NoSlot,
           EnableRows, ParkRows, Wake, ReturnRows, Enable, Await
  <2>5. \E place : Move(r, place)
    BY <1>7 DEF RowStep, CancelRows, AdmitRows, AcquireRows, RejectRows, RefuseRows, ReserveChannelWaiter, NoSlot,
           EnableRows, ParkRows, Wake, ReturnRows, Enable, Await
  <2>6. \A u \in Sends : Sleeping(u)' => Sleeping(u)
    BY <2>4, <2>5, RowKeys DEF Sleeping, Move, TypeOK
  <2>7. (live' = live /\ chan' = chan) \/ \E c : Put(KeyOf[r], c)
    BY <1>7 DEF RowStep, CancelRows, AdmitRows, AcquireRows, RejectRows, RefuseRows, ReserveChannelWaiter, NoSlot,
           EnableRows, ParkRows, Wake, ReturnRows, TakeRows, FindNoRows, chanVars
  <2>8. \A u \in Sends : KeyOf[u] # KeyOf[r]
    BY ExchangeKeysAssumption
  <2>9. \A u \in Sends : SameEntry(KeyOf[u])
    <3>1. CASE live' = live /\ chan' = chan
      BY <3>1 DEF SameEntry
    <3>2. CASE \E c : Put(KeyOf[r], c)
      BY <1>0, <2>1, <2>8, <3>2, RowKeys, PutSame
    <3>3. QED
      BY <2>7, <3>1, <3>2
  <2>10. QED
    BY <2>1, <2>3, <2>6, <2>9, SendersQuiet
<1>8. ASSUME NEW k \in Keys, NEW n \in Budgets \cup {0}, SetCredits(k, n) PROVE SendersWoken'
  <2>1. /\ pending' = pending /\ bytes' = bytes /\ retired' = retired /\ woken' = woken /\ at' = at
        /\ maxPending' = maxPending /\ budget' = budget /\ due' = due /\ tearing' = tearing /\ budgetDue' = budgetDue
    BY <1>8 DEF SetCredits, limits, counters, notices
  <2>2. \A u \in Sends : KeyOf[u] # k
    BY <1>8, ExchangeKeysAssumption DEF SetCredits
  <2>3. \A u \in Sends : SameEntry(KeyOf[u])
    BY <1>0, <1>8, <2>1, <2>2, PutSame DEF SetCredits
  <2>4. NoticeComing => NoticeComing'
    BY <2>1 DEF NoticeComing
  <2>5. \A u \in Sends : Sleeping(u)' => Sleeping(u)
    BY <2>1 DEF Sleeping
  <2>6. QED
    BY <2>1, <2>3, <2>4, <2>5, SendersQuiet
<1>9. CASE (\E n \in Budgets : SetRowBudget(n)) \/ (\E x \in Exchanges : Teardown(x))
  BY <1>9 DEF SetRowBudget, Teardown, SendersWoken, NoticeComing
<1>10. CASE Notify
  <2>1. at' = at /\ Listening \subseteq woken'
    BY <1>10 DEF Notify, NotifyWaiters, NotifyBudget, TeardownNotify
  <2>2. QED
    BY <2>1 DEF SendersWoken, Sleeping, Listening
<1>11. CASE Break \/ UNCHANGED vars
  <2>1. /\ pending' = pending /\ bytes' = bytes /\ retired' = retired /\ live' = live /\ chan' = chan /\ woken' = woken
        /\ maxPending' = maxPending /\ budget' = budget /\ due' = due /\ tearing' = tearing /\ budgetDue' = budgetDue
        /\ at' = at
    BY <1>11 DEF Break, vars, limits, counters, chanVars, notices
  <2>2. \A u \in Sends : SameEntry(KeyOf[u]) /\ (Sleeping(u)' => Sleeping(u))
    BY <2>1 DEF SameEntry, Sleeping
  <2>3. NoticeComing => NoticeComing'
    BY <2>1 DEF NoticeComing
  <2>4. QED
    BY <2>1, <2>2, <2>3, SendersQuiet
<1>12. QED
  BY <1>1, <1>2, <1>3, <1>4, <1>5, <1>6, <1>7, <1>8, <1>9, <1>10, <1>11
     DEF Next, SendStep, StreamStep

\* Every step keeps what an attempt has read fit for it.
LEMMA TryingNext == TypeOK /\ TypeOK' /\ Trying /\ [Next]_vars => Trying'
<1> SUFFICES ASSUME TypeOK, TypeOK', Trying, [Next]_vars PROVE Trying'
  OBVIOUS
<1> USE CallFacts
<1>0. \A t \in Sends : t \in Calls
  OBVIOUS
<1>1. ASSUME NEW t \in Sends, ReadBudget(t) PROVE Trying'
  <2>1. /\ \A u \in Sends : u # t => at'[u] = at[u] /\ seen'[u] = seen[u]
        /\ seen'[t] = budget /\ budget' = budget /\ woken' = woken /\ budgetDue' = budgetDue
    BY <1>0, <1>1 DEF ReadBudget, Move, limits, notices, TypeOK
  <2>2. Bytes[t] <= MaxBatchBytes /\ Bytes[t] <= MaxBytes /\ Rows[t] <= budget
    BY <1>1, ExchangeLimitsAssumption DEF ReadBudget, Inadmissible, TypeOK
  <2>3. QED
    BY <2>1, <2>2 DEF Trying
<1>2. ASSUME \A t \in Sends : at'[t] = "trying" => at[t] = "trying" /\ seen'[t] = seen[t] /\ (t \in woken => t \in woken'),
             \/ budget' = budget /\ budgetDue' = budgetDue
             \/ budgetDue'
             \/ budget' = budget /\ Listening \subseteq woken'
      PROVE  Trying'
  <2>1. SUFFICES ASSUME NEW t \in Sends, at'[t] = "trying"
                 PROVE  /\ Bytes[t] <= MaxBatchBytes /\ Bytes[t] <= MaxBytes /\ Rows[t] <= seen'[t]
                        /\ t \notin woken' /\ seen'[t] # budget' => budgetDue'
    BY DEF Trying
  <2>2. at[t] = "trying" /\ seen'[t] = seen[t] /\ (t \in woken => t \in woken')
    BY <1>2, <2>1, Zenon
  <2>3. /\ Bytes[t] <= MaxBatchBytes /\ Bytes[t] <= MaxBytes /\ Rows[t] <= seen'[t]
        /\ t \notin woken /\ seen[t] # budget => budgetDue
    BY <2>2 DEF Trying
  <2>4. t \in Listening
    BY <2>2 DEF Listening
  <2>5. t \notin woken' /\ seen'[t] # budget' => budgetDue'
    BY <1>2, <2>2, <2>3, <2>4, Zenon
  <2>6. QED
    BY <2>3, <2>5
<1>3. ASSUME NEW t \in Sends, SendStep(t) \/ CancelWait(t) \/ StreamStep(t), ~ReadBudget(t) PROVE Trying'
  <2>1. budget' = budget /\ budgetDue' = budgetDue
    BY <1>3 DEF SendStep, CancelWait, StreamStep, Begin, Refuse, Acquire, Exhausted, Park, NoSlot, Wake,
         Handoff, HandoffTooLate, DropPermit, Receive, AckReservation, AckUnmatched, AckRetired,
         ReleaseAcked, limits, notices, ReleaseBatchPermit
  <2>2. \/ at' = at
        \/ \E u \in Sends : \E place \in Places \ {"trying"} : Move(u, place)
    BY <1>3 DEF SendStep, CancelWait, StreamStep, Begin, Refuse, Acquire, Exhausted, Park, NoSlot, Wake,
         Handoff, HandoffTooLate, DropPermit, Receive, AckReservation, AckUnmatched, AckRetired,
         ReleaseAcked, Enable, Await, Reservations, Places
  <2>3. \/ seen' = seen
        \/ seen' = [seen EXCEPT ![t] = 0] /\ at'[t] # "trying"
    BY <1>0, <1>3 DEF SendStep, CancelWait, StreamStep, Begin, Refuse, Acquire, Exhausted, Park, NoSlot, Wake,
         Handoff, HandoffTooLate, DropPermit, Receive, AckReservation, AckUnmatched, AckRetired,
         ReleaseAcked, attempts, Move, TypeOK
  <2>4. \/ woken' = woken
        \/ woken' = woken \ {t} /\ at'[t] # "trying"
    BY <1>0, <1>3 DEF SendStep, CancelWait, StreamStep, Begin, Refuse, Acquire, Exhausted, Park, NoSlot, Wake,
         Handoff, HandoffTooLate, DropPermit, Receive, AckReservation, AckUnmatched, AckRetired,
         ReleaseAcked, Enable, Await, Move, TypeOK
  <2>5. \A u \in Sends : at'[u] = "trying" => at[u] = "trying"
    BY <1>0, <2>2 DEF Move, TypeOK
  <2>6. QED
    BY <1>2, <2>1, <2>3, <2>4, <2>5 DEF TypeOK
<1>4. ASSUME NEW r \in RowCalls, RowStep(r) \/ CancelRows(r) PROVE Trying'
  <2>1. budget' = budget /\ budgetDue' = budgetDue /\ seen' = seen /\ (woken' = woken \/ woken' = woken \ {r})
    BY <1>4 DEF RowStep, CancelRows, AdmitRows, AcquireRows, RejectRows, RefuseRows, ReserveChannelWaiter, NoSlot,
           EnableRows, ParkRows, Wake, ReturnRows, Enable, Await, limits, notices, attempts
  <2>2. \E place : Move(r, place)
    BY <1>4 DEF RowStep, CancelRows, AdmitRows, AcquireRows, RejectRows, RefuseRows, ReserveChannelWaiter, NoSlot,
           EnableRows, ParkRows, Wake, ReturnRows, Enable, Await
  <2>3. \A u \in Sends : u # r /\ at'[u] = at[u]
    BY <2>2, RowKeys DEF Move, TypeOK
  <2>4. QED
    BY <1>2, <2>1, <2>3
<1>5. CASE \/ \E k \in Keys, n \in Budgets \cup {0} : SetCredits(k, n)
           \/ \E n \in Budgets : SetRowBudget(n)
           \/ Notify \/ Break \/ UNCHANGED vars
  <2>1. /\ at' = at /\ seen' = seen /\ woken \subseteq woken'
        /\ \/ budget' = budget /\ budgetDue' = budgetDue
           \/ budgetDue'
           \/ budget' = budget /\ Listening \subseteq woken'
    BY <1>5 DEF SetCredits, SetRowBudget, Notify, NotifyWaiters, NotifyBudget, TeardownNotify, Break, vars,
                limits, notices, attempts
  <2>2. QED
    BY <1>2, <2>1
<1>6. ASSUME NEW x \in Exchanges, Teardown(x) PROVE Trying'
  <2>1. /\ seen' = seen /\ woken' = woken /\ budget' = budget /\ budgetDue' = budgetDue
        /\ \A u \in Sends : at'[u] = "trying" => at[u] = "trying"
    BY <1>0, <1>6 DEF Teardown, Reclaimed, limits
  <2>2. QED
    BY <1>2, <2>1
<1>7. QED
  BY <1>1, <1>3, <1>4, <1>5, <1>6 DEF Next

\* A waiting row call of the notifier after a step was one of the same
\* notifier before it: identities only grow.
LEMMA NotifierGrows ==
  ASSUME TypeOK, Slots, NEW q \in RowCalls, at[q] = "waiting",
         own[q] = noteId'[KeyOf[q]],
         noteId'[KeyOf[q]] = noteId[KeyOf[q]] \/ noteId'[KeyOf[q]] = noteId[KeyOf[q]] + 1
  PROVE  own[q] = noteId[KeyOf[q]]
<1>1. q \in slots /\ own[q] <= noteId[KeyOf[q]] /\ own[q] \in Nat /\ noteId[KeyOf[q]] \in Nat
  BY CallFacts DEF Slots, TypeOK
<1>2. QED
  BY <1>1

\* The row calls a notify_waiters call is for are the registered ones.
LEMMA RowListening ==
  ASSUME TypeOK, Slots, NEW r \in RowCalls, RowSleeping(r), NEW K, KeyOf[r] \in K
  PROVE  r \in ListeningOn(K)
<1>1. r \in slots
  BY DEF RowSleeping, Slots
<1>2. Registered(r)
  BY <1>1, RegisteredWaiter DEF RowSleeping, Waiters
<1>3. QED
  BY <1>2 DEF RowSleeping, ListeningOn

\* A row call's own step.
LEMMA RowOwnStep ==
  ASSUME TypeOK, TypeOK', Slots, RowsWoken, NEW r \in RowCalls, RowStep(r) \/ CancelRows(r)
  PROVE  RowsWoken'
<1> USE CallFacts
<1>0. KeyOf[r] \in Keys /\ r \in Calls /\ Rows[r] \in Nat /\ \A q \in RowCalls : q \in Calls /\ KeyOf[q] \in Keys
  OBVIOUS
<1>1. /\ retired' = retired /\ budget' = budget /\ tearing' = tearing /\ budgetDue' = budgetDue
      /\ (due' = due \/ due' = [due EXCEPT ![KeyOf[r]] = @ + 1])
  BY DEF RowStep, CancelRows, AdmitRows, AcquireRows, RejectRows, RefuseRows, ReserveChannelWaiter, NoSlot,
         EnableRows, ParkRows, Wake, ReturnRows, limits, chanVars, notices
<1>2. \A q \in RowCalls : RowNotice(q) => RowNotice(q)'
  <2>1. \A q \in RowCalls : due[KeyOf[q]] > 0 => due'[KeyOf[q]] > 0
    BY <1>0, <1>1 DEF TypeOK
  <2>2. QED
    BY <1>1, <2>1 DEF RowNotice
<1>3. \A q \in RowCalls : q # r => /\ at'[q] = at[q] /\ own'[q] = own[q]
                                   /\ q \in woken' <=> q \in woken
  <2>1. \E place : Move(r, place)
    BY DEF RowStep, CancelRows, AdmitRows, AcquireRows, RejectRows, RefuseRows, ReserveChannelWaiter, NoSlot,
           EnableRows, ParkRows, Wake, ReturnRows, Enable, Await
  <2>2. woken' = woken \/ woken' = woken \ {r}
    BY DEF RowStep, CancelRows, AdmitRows, AcquireRows, RejectRows, RefuseRows, ReserveChannelWaiter, NoSlot,
           EnableRows, ParkRows, Wake, ReturnRows, Enable, Await
  <2>3. own' = own \/ own' = [own EXCEPT ![r] = noteId[KeyOf[r]]]
    BY DEF RowStep, CancelRows, AdmitRows, AcquireRows, RejectRows, RefuseRows, ReserveChannelWaiter, NoSlot,
           EnableRows, ParkRows, Wake, ReturnRows
  <2>4. QED
    BY <2>1, <2>2, <2>3 DEF Move, TypeOK
<1>4. \A q \in RowCalls : \/ noteId'[KeyOf[q]] = noteId[KeyOf[q]]
                          \/ noteId'[KeyOf[q]] = noteId[KeyOf[q]] + 1
  <2>1. noteId' = noteId \/ LeaveQueue(r)
    BY DEF RowStep, CancelRows, AdmitRows, AcquireRows, RejectRows, RefuseRows, ReserveChannelWaiter, NoSlot,
           EnableRows, ParkRows, Wake, ReturnRows, waiting
  <2>2. QED
    BY <1>0, <2>1 DEF LeaveQueue, DropNotifier, TypeOK
<1>5. \A q \in RowCalls : q # r /\ RowSleeping(q)' => RowSleeping(q)
  BY <1>3, <1>4, NotifierGrows DEF RowSleeping
<1>6. CASE ReturnRows(r) /\ KeyOf[r] \notin retired
  <2>1. due' = [due EXCEPT ![KeyOf[r]] = @ + 1] /\ Put(KeyOf[r], Credited(Channel(KeyOf[r]), Rows[r]))
    BY <1>6 DEF ReturnRows
  <2>2. due'[KeyOf[r]] > 0
    BY <1>0, <2>1 DEF TypeOK
  <2>3. \A j \in Keys : j # KeyOf[r] => Channel(j)' = Channel(j)
    BY <1>0, <1>1, <2>1, PutChannel
  <2>4. \A q \in RowCalls : KeyOf[q] # KeyOf[r] => RowServable(q)' = RowServable(q)
    BY <1>0, <1>1, <2>3 DEF RowServable
  <2>5. \A q \in RowCalls : KeyOf[q] = KeyOf[r] => RowNotice(q)'
    BY <2>2 DEF RowNotice
  <2>6. QED
    BY <1>2, <1>5, <2>4, <2>5 DEF RowsWoken
<1>7. CASE ~(ReturnRows(r) /\ KeyOf[r] \notin retired)
  <2>1. \/ AcquireRows(r)
        \/ live' = live /\ chan' = chan
        \/ FindNoRows(r)
    BY <1>7 DEF RowStep, CancelRows, AdmitRows, RejectRows, RefuseRows, ReserveChannelWaiter, NoSlot,
           EnableRows, ParkRows, Wake, ReturnRows, chanVars
  <2>2. \A j \in Keys : Channel(j)'.avail >= 0 /\ Channel(j).avail >= Channel(j)'.avail
    <3>0. \A j \in Keys : Channel(j) \in ChannelState
      BY ChannelType
    <3>1. CASE AcquireRows(r)
      <4>1. /\ Channel(KeyOf[r])' = [Channel(KeyOf[r]) EXCEPT !.avail = @ - Rows[r], !.rows = @ + Rows[r],
                                                              !.delivered = TRUE]
            /\ \A j \in Keys : j # KeyOf[r] => Channel(j)' = Channel(j)
            /\ Channel(KeyOf[r]).avail >= Rows[r]
        BY <1>0, <1>1, <3>1, PutChannel DEF AcquireRows, TakeRows
      <4>2. Channel(KeyOf[r])'.avail = Channel(KeyOf[r]).avail - Rows[r]
        BY <1>0, <3>0, <4>1 DEF ChannelState
      <4>3. \A j \in Keys : Channel(j).avail \in Nat
        BY <3>0 DEF ChannelState
      <4>4. ASSUME NEW j \in Keys PROVE Channel(j)'.avail >= 0 /\ Channel(j).avail >= Channel(j)'.avail
        <5>1. CASE j = KeyOf[r]
          <6>1. /\ Channel(KeyOf[r])'.avail >= 0
                /\ Channel(KeyOf[r]).avail >= Channel(KeyOf[r])'.avail
            <7>1. Channel(KeyOf[r]).avail \in Nat
              BY <1>0, <4>3
            <7>2. QED
              BY <1>0, <4>1, <4>2, <7>1
          <6>2. QED
            BY <5>1, <6>1
        <5>2. CASE j # KeyOf[r]
          BY <4>1, <4>3, <5>2
        <5>3. QED
          BY <5>1, <5>2
      <4>5. QED
        BY <4>4
    <3>2. CASE (live' = live /\ chan' = chan) \/ FindNoRows(r)
      <4>1. \A j \in Keys : Channel(j)' = Channel(j)
        <5>1. CASE live' = live /\ chan' = chan
          BY <1>1, <5>1 DEF Channel, ChannelWith, FreshChannel
        <5>2. CASE FindNoRows(r)
          BY <1>0, <1>1, <5>2, PutChannel DEF FindNoRows
        <5>3. QED
          BY <3>2, <5>1, <5>2
      <4>2. QED
        BY <3>0, <4>1 DEF ChannelState
    <3>3. QED
      BY <2>1, <3>1, <3>2
  <2>3. \A q \in RowCalls : RowServable(q)' => RowServable(q)
    <3>1. \A j \in Keys : Channel(j)'.avail \in Int /\ Channel(j).avail \in Int
      <4>1. \A j \in Keys : Channel(j) \in ChannelState
        BY ChannelType
      <4>2. \A j \in Keys : Channel(j)' \in ChannelState
        BY DEF TypeOK, Channel, ChannelWith, FreshChannel, ChannelState
      <4>3. QED
        BY <4>1, <4>2 DEF ChannelState
    <3>2. QED
      BY <1>0, <1>1, <2>2, <3>1 DEF RowServable
  <2>4. RowSleeping(r)' => ~RowServable(r)
    <3>1. at'[r] = "waiting" => ParkRows(r)
      BY <1>0 DEF RowStep, CancelRows, AdmitRows, AcquireRows, RejectRows, RefuseRows, ReserveChannelWaiter, NoSlot,
         EnableRows, ParkRows, Wake, ReturnRows, Enable, Move, TypeOK
    <3>2. Channel(KeyOf[r]).avail \in Nat
      BY <1>0, ChannelType DEF ChannelState
    <3>3. QED
      BY <1>0, <3>1, <3>2 DEF ParkRows, FindNoRows, RowSleeping, RowServable
  <2>5. \A q \in RowCalls : RowSleeping(q)' /\ RowServable(q)' => RowSleeping(q) /\ RowServable(q)
    BY <1>5, <2>3, <2>4
  <2>6. QED
    BY <1>2, <2>5, RowsQuiet
<1>8. QED
  BY <1>6, <1>7

\* Every step keeps the row calls' half.
LEMMA RowsNext == TypeOK /\ TypeOK' /\ Slots /\ RowsWoken /\ [Next]_vars => RowsWoken'
<1> SUFFICES ASSUME TypeOK, TypeOK', Slots, RowsWoken, [Next]_vars PROVE RowsWoken'
  OBVIOUS
<1> USE CallFacts
<1>0. \A q \in RowCalls : q \in Calls /\ KeyOf[q] \in Keys /\ ExchangeOf[KeyOf[q]] \in Exchanges
  OBVIOUS
<1>1. ASSUME NEW t \in Sends, SendStep(t) \/ CancelWait(t) \/ StreamStep(t) PROVE RowsWoken'
  BY <1>1, RowsApart
<1>2. ASSUME NEW r \in RowCalls, RowStep(r) \/ CancelRows(r) PROVE RowsWoken'
  BY <1>2, RowOwnStep
<1>3. ASSUME NEW k \in Keys, NEW n \in Budgets \cup {0}, SetCredits(k, n) PROVE RowsWoken'
  <2>1. /\ retired' = retired /\ woken' = woken /\ at' = at /\ own' = own /\ noteId' = noteId
        /\ budget' = budget /\ due' = due /\ tearing' = tearing /\ budgetDue' = budgetDue
    BY <1>3 DEF SetCredits, limits, waiting, notices
  <2>2. \A q \in RowCalls : KeyOf[q] = k => at[q] # "waiting"
    BY <1>3 DEF SetCredits
  <2>3. \A j \in Keys : j # k => Channel(j)' = Channel(j)
    BY <1>3, <2>1, PutChannel DEF SetCredits
  <2>4. QED
    BY <1>0, <2>1, <2>2, <2>3 DEF RowsWoken, RowSleeping, RowServable, RowNotice
<1>4. ASSUME NEW n \in Budgets, SetRowBudget(n) PROVE RowsWoken'
  BY <1>4 DEF SetRowBudget, RowsWoken, RowNotice
<1>5. ASSUME NEW x \in Exchanges, Teardown(x) PROVE RowsWoken'
  <2>1. /\ woken' = woken /\ own' = own /\ noteId' = noteId /\ budget' = budget /\ due' = due
        /\ budgetDue' = budgetDue /\ tearing' = tearing \cup {x}
        /\ \A q \in RowCalls : at'[q] = at[q]
    BY <1>5, RowKeys DEF Teardown, Reclaimed, limits, waiting
  <2>2. \A j \in Keys : ExchangeOf[j] # x => Channel(j)' = Channel(j) /\ (j \in retired' <=> j \in retired)
    BY <1>5, <2>1 DEF Teardown, KeysOf, NewlyRetired, Channel, ChannelWith, FreshChannel
  <2>3. ASSUME NEW q \in RowCalls, RowSleeping(q)', RowServable(q)' PROVE RowNotice(q)'
    <3>1. CASE ExchangeOf[KeyOf[q]] = x
      BY <2>1, <3>1 DEF RowNotice
    <3>2. CASE ExchangeOf[KeyOf[q]] # x
      BY <1>0, <2>1, <2>2, <2>3, <3>2 DEF RowsWoken, RowSleeping, RowServable, RowNotice
    <3>3. QED
      BY <3>1, <3>2
  <2>4. QED
    BY <2>3 DEF RowsWoken
<1>6. ASSUME NEW k \in Keys, NotifyWaiters(k) PROVE RowsWoken'
  <2>1. /\ retired' = retired /\ live' = live /\ chan' = chan /\ at' = at /\ own' = own /\ noteId' = noteId
        /\ budget' = budget /\ tearing' = tearing /\ budgetDue' = budgetDue
        /\ woken' = woken \cup Listening \cup ListeningOn({k})
        /\ \A j \in Keys : j # k => due'[j] = due[j]
    BY <1>6 DEF NotifyWaiters, limits, chanVars, waiting, TypeOK
  <2>2. ASSUME NEW q \in RowCalls, RowSleeping(q)', RowServable(q)' PROVE RowNotice(q)'
    <3>1. RowSleeping(q) /\ RowServable(q)
      BY <2>1, <2>2 DEF RowSleeping, RowServable, Channel, ChannelWith, FreshChannel
    <3>2. KeyOf[q] # k
      BY <2>1, <2>2, <3>1, RowListening DEF RowSleeping
    <3>3. QED
      BY <1>0, <2>1, <3>1, <3>2 DEF RowsWoken, RowNotice
  <2>3. QED
    BY <2>2 DEF RowsWoken
<1>7. ASSUME NotifyBudget PROVE RowsWoken'
  <2>1. /\ retired' = retired /\ live' = live /\ chan' = chan /\ at' = at /\ own' = own /\ noteId' = noteId
        /\ budget' = budget
        /\ woken' = woken \cup Listening \cup ListeningOn(Keys)
    BY <1>7 DEF NotifyBudget, limits, chanVars, waiting
  <2>2. ASSUME NEW q \in RowCalls, RowSleeping(q)' PROVE FALSE
    <3>1. RowSleeping(q)
      BY <2>1, <2>2 DEF RowSleeping
    <3>2. QED
      BY <1>0, <2>1, <2>2, <3>1, RowListening DEF RowSleeping
  <2>3. QED
    BY <2>2 DEF RowsWoken
<1>8. ASSUME NEW x \in Exchanges, TeardownNotify(x) PROVE RowsWoken'
  <2>1. /\ retired' = retired /\ live' = live /\ chan' = chan /\ at' = at /\ own' = own
        /\ budget' = budget /\ due' = due /\ budgetDue' = budgetDue /\ tearing' = tearing \ {x}
        /\ woken' = woken \cup Listening \cup ListeningOn(KeysOf(x))
        /\ \A j \in Keys : noteId'[j] = noteId[j] \/ noteId'[j] = noteId[j] + 1
    BY <1>8 DEF TeardownNotify, limits, chanVars
  <2>2. ASSUME NEW q \in RowCalls, RowSleeping(q)', RowServable(q)' PROVE RowNotice(q)'
    <3>1. RowSleeping(q)
      BY <1>0, <2>1, <2>2, NotifierGrows DEF RowSleeping
    <3>2. RowServable(q)
      BY <2>1, <2>2 DEF RowServable, Channel, ChannelWith, FreshChannel
    <3>3. ExchangeOf[KeyOf[q]] # x
      BY <1>0, <2>1, <2>2, <3>1, RowListening DEF RowSleeping, KeysOf
    <3>4. QED
      BY <2>1, <3>1, <3>2, <3>3 DEF RowsWoken, RowNotice
  <2>3. QED
    BY <2>2 DEF RowsWoken
<1>9. CASE Break \/ UNCHANGED vars
  <2>1. /\ retired' = retired /\ live' = live /\ chan' = chan /\ at' = at /\ own' = own /\ noteId' = noteId
        /\ budget' = budget /\ due' = due /\ budgetDue' = budgetDue /\ tearing' = tearing /\ woken' = woken
    BY <1>9 DEF Break, vars, limits, chanVars, waiting, notices
  <2>2. QED
    BY <2>1 DEF RowsWoken, RowSleeping, RowServable, RowNotice, Channel, ChannelWith, FreshChannel
<1>10. QED
  BY <1>1, <1>2, <1>3, <1>4, <1>5, <1>6, <1>7, <1>8, <1>9 DEF Next, Notify

-----------------------------------------------------------------------------
(* The theorems *)

\* The invariant holds at first, ...
LEMMA InvInit == Init => IInv
<1> SUFFICES ASSUME Init PROVE IInv
  OBVIOUS
<1>1. TypeOK /\ Charges /\ Trying
  BY TypeInit, ChargesInit, CallFacts DEF Init, Trying
<1>2. /\ \A c \in Calls : at[c] \in {"idle", "unused"}
      /\ slots = {} /\ noteWaiters = [k \in Keys |-> 0]
  BY DEF Init
<1>3. Slots
  <2>1. \A k : Waiters(k) = {}
    BY <1>2 DEF Waiters
  <2>2. QED
    BY <1>2, <2>1, CallFacts, FS_EmptySet DEF Slots
<1>4. NoLostWakeup
  BY <1>2, CallFacts DEF NoLostWakeup
<1>5. QED
  BY <1>1, <1>3, <1>4 DEF IInv

\* ... every step keeps it, ...
LEMMA InvNext == IInv /\ [Next]_vars => IInv'
<1> SUFFICES ASSUME IInv, [Next]_vars PROVE IInv'
  OBVIOUS
<1>1. TypeOK /\ Trying /\ Charges /\ Slots /\ NoLostWakeup /\ SendersWoken /\ RowsWoken
  BY WakeupHalves DEF IInv
<1>2. TypeOK'
  BY <1>1, TypeNext
<1>3. Charges' /\ Trying' /\ Slots' /\ SendersWoken' /\ RowsWoken'
  BY <1>1, <1>2, ChargesNext, TryingNext, SlotsNext, SendersNext, RowsNext
<1>4. NoLostWakeup'
  BY <1>3 DEF NoLostWakeup, SendersWoken, RowsWoken, Servable, Sleeping, RowServable, RowSleeping, RowNotice
<1>5. QED
  BY <1>2, <1>3, <1>4 DEF IInv

\* ... and so it is an invariant of the controller.
THEOREM FlowInvariant == Spec => []IInv
  BY InvInit, InvNext, PTL DEF Spec

\* Every variable of the controller keeps its type, whatever calls are made.
THEOREM FlowTypes == Spec => []TypeOK
<1>1. IInv => TypeOK
  BY DEF IInv
<1>2. QED
  BY <1>1, FlowInvariant, PTL

\* The controller neither leaks a charge nor returns one twice, and stays
\* within its limits, for any number of senders, channels and teardowns.
THEOREM FlowChargesExact == Spec => []ChargesExact
<1>1. IInv => ChargesExact
  BY DEF IInv, Charges
<1>2. QED
  BY <1>1, FlowInvariant, PTL

\* No waiter that could be served sleeps without a wake-up on its way.
THEOREM FlowNoLostWakeup == Spec => []NoLostWakeup
<1>1. IInv => NoLostWakeup
  BY DEF IInv
<1>2. QED
  BY <1>1, FlowInvariant, PTL

\* Only a teardown takes the notifier of a registered waiter away.
THEOREM FlowNotifierKept == Spec => NotifierKept
<1>1. IInv /\ IInv' /\ [Next]_vars => [KeptHere]_vars
  BY SlotsNext DEF IInv
<1>2. QED
  BY <1>1, FlowInvariant, PTL DEF Spec, NotifierKept, KeptHere

\* What LateAcksAreInert says of one step.
InertHere ==
    \A t \in Sends :
         t \in acks /\ t \notin acks' /\ at[t] = "reclaimed"
         => /\ UNCHANGED <<bytes, pending, live, chan>>
            /\ \A u \in Sends : at[u] = "awaiting" => at'[u] = "awaiting"

\* The acknowledgement of a frame whose reservation was taken back finds its
\* key retired, so handle_ack returns at once.
LEMMA InertStep == IInv /\ [Next]_vars => [InertHere]_vars
<1> SUFFICES ASSUME IInv, Next, NEW t \in Sends, t \in acks, t \notin acks', at[t] = "reclaimed"
             PROVE  /\ UNCHANGED <<bytes, pending, live, chan>>
                    /\ \A u \in Sends : at[u] = "awaiting" => at'[u] = "awaiting"
  BY DEF InertHere
<1>1. KeyOf[t] \in retired
  BY DEF IInv, Charges, TakenBack
<1>2. Break \/ \E u \in Sends : AckReservation(u) \/ AckUnmatched(u) \/ AckRetired(u)
  BY DEF Next, SendStep, StreamStep, RowStep, Notify, Begin, Refuse, ReadBudget, Acquire, Exhausted, Park, NoSlot, Wake,
         Handoff, HandoffTooLate, DropPermit, CancelWait, Receive, ReleaseAcked, CancelRows, AdmitRows, AcquireRows,
         RejectRows, RefuseRows, ReserveChannelWaiter, EnableRows, ParkRows, ReturnRows, SetCredits,
         SetRowBudget, Teardown, NotifyWaiters, NotifyBudget, TeardownNotify, stream
<1>3. CASE Break
  BY <1>3 DEF Break, counters, chanVars
<1>4. ASSUME NEW u \in Sends, AckReservation(u) \/ AckUnmatched(u) PROVE FALSE
  <2>1. u = t
    BY <1>4 DEF AckReservation, AckUnmatched
  <2>2. QED
    BY <1>1, <1>4, <2>1 DEF AckReservation, AckUnmatched
<1>5. ASSUME NEW u \in Sends, AckRetired(u)
      PROVE  /\ UNCHANGED <<bytes, pending, live, chan>>
             /\ \A v \in Sends : at[v] = "awaiting" => at'[v] = "awaiting"
  BY <1>5 DEF AckRetired, counters, chanVars
<1>6. QED
  BY <1>2, <1>3, <1>4, <1>5

\* A late acknowledgement releases nothing, not even a retransmission.
THEOREM FlowLateAcksAreInert == Spec => LateAcksAreInert
  BY InertStep, FlowInvariant, PTL DEF Spec, LateAcksAreInert, InertHere
=============================================================================
