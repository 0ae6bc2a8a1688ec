------------------------ MODULE BucketMigrationProofs ------------------------
(***************************************************************************)
(* Proofs about BucketMigration: the record is never lost, the copy is     *)
(* complete, no row is deleted that the recipient lacks, and the stored    *)
(* record implements BucketOwnership, for any number of rows, routers,     *)
(* epochs, failures and crashes.                                           *)
(***************************************************************************)
EXTENDS BucketMigration, FiniteSetTheorems, WellFoundedInduction, TLAPS

-----------------------------------------------------------------------------
(* The inductive invariant *)

Early == {"Planned", "Snapshotting", "Copying"}

\* What apply_write_at_epoch still has to write.
TargetLists == {<<"donor">>, <<"recipient">>, <<"donor", "recipient">>}
Writes == [key : Keys, epoch : Epochs, targets : TargetLists]
Routings == [state : States, cutover : Epochs \cup {None}]

TypeOK ==
    /\ active \in Record \cup {NoRecord} /\ history \in Record \cup {NoRecord}
    /\ rec \in Record \cup {NoRecord} /\ pc \in Calls
    /\ handle \in Contents /\ seen \in Contents /\ committed \in Epochs
    /\ donor \in Contents /\ recipient \in Contents
    /\ router \in [Routers -> Routings] /\ observed \in [Routers -> BOOLEAN]
    /\ \A r \in Routers : write[r] \in Writes \cup {NoWrite}
    /\ DOMAIN write = Routers
    /\ issued \in SUBSET Keys /\ acked \in SUBSET Keys
    /\ frontier \in Epochs /\ consumer \in Epochs

\* Where the driver is, by the state of the record it drives.
Places ==
    [s \in States |->
        CASE s = "Planned"      -> {"idle"}
          [] s = "Snapshotting" -> {"idle", "snapshotting", "pinning", "created", "pinned"}
          [] s = "Copying"      -> {"idle", "copying", "page", "batch", "cursor", "copied"}
          [] s = "Cutover"      -> {"idle", "observing", "ready"}
          [] s = "Verifying"    -> {"idle", "verify", "scan", "compare", "verified"}
          [] s = "GcEligible"   -> {"idle", "cleaning", "deleting"}
          [] s = "Done"         -> {"idle", "archive", "unlink"}
          [] OTHER              -> {"idle"}]

\* The driver's copy is the stored record, and fits the call under way.
Driven ==
    /\ pc \notin {"down", "closed"} =>
         /\ rec = active /\ active # NoRecord
         /\ pc \in Places[active.state]
         /\ pc \in {"batch", "cursor"} => active.cursor < Cardinality(Held(active.snapshot))
         /\ pc = "cursor" => recipient[Page(active.snapshot, active.cursor)] # Absent
         /\ pc = "copied" => Copied(active)
         /\ pc \in {"scan", "compare"} => active.progress = 0
         /\ pc = "verified" => active.progress = 100
         /\ pc \in {"cleaning", "deleting"} => active.cleanup
         /\ pc = "unlink" => history # NoRecord
    /\ pc = "closed" => active = NoRecord

\* What a stored record says of the migration is consistent.
Coherent(r) ==
    /\ r.state \in {"Planned", "Snapshotting"} => r.cursor = 0
    /\ r.progress = 100 => r.state \in {"Verifying", "GcEligible", "Done"}
    /\ r.state \in {"GcEligible", "Done"} => r.progress = 100
    /\ r.cleanup => r.state \in {"GcEligible", "Done"}
    /\ r.state = "Done" => r.cleanup
    /\ r.cutover <= frontier
    /\ r.state \in CutStates => PlannedFrontier <= frontier

Consistent ==
    /\ active # NoRecord => Coherent(active)
    /\ history # NoRecord => Coherent(history)
    /\ committed <= frontier

\* The map version is asked for before the donor is left for good.
VersionsAsked ==
    \/ active = NoRecord \/ active.state \in {"Verifying", "GcEligible", "Done"} \/ pc = "ready"
    => AllObserved

\* A router's record is one the migration had, and not newer than the stored.
Routed ==
    \A r \in Routers :
       /\ router[r].state \in DualStates \cup CutStates \/ observed[r] =>
             active = NoRecord \/ active.state \notin Early
       /\ router[r].state = "Aborted" => active # NoRecord /\ active.state = "Aborted"
       /\ observed[r] => router[r].state \in DualStates \cup CutStates \cup {"Aborted"}
       /\ router[r].cutover <= frontier
       /\ router[r].state \in CutStates => PlannedFrontier <= frontier

\* A write in flight goes where its router sends it, and its epoch is open.
Flying ==
    \A r \in Routers :
       write[r] # NoWrite =>
          /\ frontier <= write[r].epoch
          /\ router[r].state \in DualStates \cup CutStates => observed[r]
          /\ write[r].targets # <<"donor">> => router[r].state \in DualStates \cup CutStates
          /\ write[r].targets = <<"donor">> =>
                \/ router[r].state \notin DualStates \cup CutStates
                \/ router[r].state \in DualStates /\ write[r].epoch < PlannedFrontier
                \/ router[r].state \in CutStates /\ write[r].epoch < router[r].cutover

\* The rows the recipient has once the shards have been compared.
Safe ==
    /\ \A k \in Seeded : recipient[k] # Absent
    /\ \A k \in acked : recipient[k] = New

\* Acknowledged and seeded rows: on the donor at first, on either shard while
\* both are written, and on the recipient from the comparison on.
Kept ==
    /\ ~Deleting => /\ \A k \in Seeded : donor[k] # Absent
                    /\ \A k \in acked : New \in {donor[k], recipient[k]}
    /\ active # NoRecord /\ active.state \in Early => \A k \in acked : donor[k] = New
    /\ active = NoRecord \/ active.progress = 100 => Safe
    /\ pc = "compare" => /\ \A k \in Seeded : seen[k] # Absent
                         /\ \A k \in acked : New \in {seen[k], recipient[k]}

IInv ==
    /\ TypeOK /\ Driven /\ Consistent /\ RecordNeverLost /\ CopyIsComplete
    /\ VersionsAsked /\ Routed /\ Flying /\ Kept

-----------------------------------------------------------------------------
(* Scans *)

\* A set of rows that is not empty has a first one.
LEMMA FirstRow ==
  ASSUME NEW S \in SUBSET Nat, S # {}
  PROVE  \E x \in S : \A y \in S : x <= y
<1>1. IsWellFoundedOn(OpToRel(<, Nat), Nat)
  BY NatLessThanWellFounded
<1>2. \E x \in S : \A y \in S : <<y, x>> \notin OpToRel(<, Nat)
  BY <1>1, WFMin
<1>3. PICK x \in S : \A y \in S : <<y, x>> \notin OpToRel(<, Nat)
  BY <1>2
<1>4. \A y \in S : ~(y < x)
  BY <1>3 DEF OpToRel
<1>5. QED
  BY <1>4

\* Among sets of subsets of a finite set there is a smallest one.
LEMMA MinimalSet ==
  ASSUME NEW A, IsFiniteSet(A), NEW T \in SUBSET SUBSET A, T # {}
  PROVE  \E m \in T : \A y \in SUBSET m : y # m => y \notin T
<1>1. IsWellFoundedOn(StrictSubsetOrdering(A), SUBSET A)
  BY FS_StrictSubsetOrderingWellFounded, FS_FiniteSubsetsOfFinite
<1>2. \E m \in T : \A y \in T : <<y, m>> \notin StrictSubsetOrdering(A)
  BY <1>1, WFMin
<1>3. PICK m \in T : \A y \in T : <<y, m>> \notin StrictSubsetOrdering(A)
  BY <1>2
<1>4. ASSUME NEW y \in SUBSET m, y # m, y \in T PROVE FALSE
  <2>1. y \in SUBSET A /\ m \in SUBSET A
    OBVIOUS
  <2>2. <<y, m>> \in StrictSubsetOrdering(A)
    BY <1>4, <2>1 DEF StrictSubsetOrdering
  <2>3. QED
    BY <1>3, <1>4, <2>2
<1>5. QED
  BY <1>4

\* The rows of S before k.
Below(S, k) == {j \in S : j < k}

\* A scan of n rows or more comes upon one after n others.
LEMMA RankExists ==
  ASSUME NEW A \in SUBSET Nat, IsFiniteSet(A), NEW n \in Nat, n < Cardinality(A)
  PROVE  \E k \in A : Cardinality(Below(A, k)) = n
<1> DEFINE T == {B \in SUBSET A : \E i \in Nat : i < Cardinality(B) /\ \A k \in B : Cardinality(Below(B, k)) # i}
<1>1. SUFFICES ASSUME T # {} PROVE FALSE
  OBVIOUS
<1>2. T \in SUBSET SUBSET A
  OBVIOUS
<1>3. PICK m \in T : \A y \in SUBSET m : y # m => y \notin T
  <2> HIDE DEF T
  <2> QED BY <1>1, <1>2, MinimalSet
<1>4. PICK i \in Nat : i < Cardinality(m) /\ \A k \in m : Cardinality(Below(m, k)) # i
  BY <1>3
<1>5. m \in SUBSET A /\ m \in SUBSET Nat /\ IsFiniteSet(m) /\ Cardinality(m) \in Nat
  BY FS_Subset, FS_CardinalityType
<1>6. m # {}
  BY <1>4, <1>5, FS_EmptySet
<1>7a. \E x \in m : \A z \in m : x <= z
  <2> HIDE DEF T
  <2> QED BY <1>5, <1>6, FirstRow
<1>7. PICK x \in m : \A z \in m : x <= z
  BY <1>7a
<1>8. Below(m, x) = {}
  <2>1. \A z \in m : z \in Nat /\ x \in Nat /\ x <= z
    BY <1>5, <1>7
  <2> HIDE DEF T
  <2>2. \A z \in m : ~(z < x)
    BY <2>1
  <2>3. QED
    BY <2>2 DEF Below
<1>9. i # 0
  BY <1>4, <1>8, FS_EmptySet
<1> DEFINE y == m \ {x}
<1>10. /\ y \in SUBSET m /\ y # m /\ y \in SUBSET A /\ IsFiniteSet(y)
       /\ Cardinality(y) = Cardinality(m) - 1
  BY <1>5, FS_RemoveElement, FS_Subset
<1>11. \A j \in Nat : j < Cardinality(y) => \E k \in y : Cardinality(Below(y, k)) = j
  BY <1>3, <1>10
<1>12. i - 1 \in Nat /\ i - 1 < Cardinality(y)
  BY <1>4, <1>5, <1>9, <1>10
<1>13. PICK k \in y : Cardinality(Below(y, k)) = i - 1
  BY <1>11, <1>12
<1>14. k \in m /\ x < k
  BY <1>5, <1>7
<1>15. Below(m, k) = Below(y, k) \cup {x} /\ x \notin Below(y, k)
  BY <1>14 DEF Below
<1>16. IsFiniteSet(Below(y, k))
  <2>1. Below(y, k) \in SUBSET y
    BY DEF Below
  <2> HIDE DEF y
  <2>2. QED
    BY <1>10, <2>1, FS_Subset
<1>17. Cardinality(Below(m, k)) = i
  <2>1. Cardinality(Below(y, k) \cup {x}) = Cardinality(Below(y, k)) + 1
    BY <1>15, <1>16, FS_AddElement
  <2>2. QED
    BY <1>13, <1>15, <2>1
<1>18. QED
  BY <1>4, <1>14, <1>17

\* No two rows come after the same number of others.
LEMMA RankUnique ==
  ASSUME NEW A \in SUBSET Nat, IsFiniteSet(A), NEW j \in A, NEW k \in A, j < k
  PROVE  Cardinality(Below(A, j)) < Cardinality(Below(A, k))
<1>1. IsFiniteSet(Below(A, k)) /\ IsFiniteSet(Below(A, j))
  <2>1. Below(A, k) \in SUBSET A /\ Below(A, j) \in SUBSET A
    BY DEF Below
  <2>2. QED
    BY <2>1, FS_Subset
<1>a. \A z \in A : z \in Nat
  OBVIOUS
<1>b. \A z \in A : z < j => z < k
  BY <1>a
<1>c. ~(j < j)
  BY <1>a
<1>2. Below(A, j) \in SUBSET Below(A, k) /\ j \in Below(A, k) /\ j \notin Below(A, j)
  BY <1>b, <1>c DEF Below
<1>3. QED
  BY <1>1, <1>2, FS_Subset, FS_CardinalityType

\* The page a scan comes upon next is a row, and the only one at its place.
LEMMA NextPage ==
  ASSUME NEW contents, NEW n \in Nat, n < Cardinality(Held(contents))
  PROVE  /\ Page(contents, n) \in Held(contents)
         /\ Cardinality(Before(contents, Page(contents, n))) = n
         /\ \A k \in Held(contents) : Cardinality(Before(contents, k)) = n => k = Page(contents, n)
<1> DEFINE A == Held(contents)
<1>1. A \in SUBSET Nat /\ IsFiniteSet(A)
  BY BucketAssumption, FS_Subset DEF Held
<1>2. \A k : Before(contents, k) = Below(A, k)
  BY DEF Before, Below
<1>3. \E k \in A : Cardinality(Before(contents, k)) = n
  <2> HIDE DEF A
  <2> QED BY <1>1, <1>2, RankExists DEF A
<1>4. Page(contents, n) \in A /\ Cardinality(Before(contents, Page(contents, n))) = n
  BY <1>3 DEF Page
<1>5. ASSUME NEW k \in A, Cardinality(Before(contents, k)) = n PROVE k = Page(contents, n)
  <2> DEFINE p == Page(contents, n)
  <2> HIDE DEF A, p
  <2>1. k \in Nat /\ p \in Nat /\ p \in A
    BY <1>1, <1>4 DEF p
  <2>2. k < p => n < n
    BY <1>1, <1>2, <1>4, <1>5, <2>1, RankUnique DEF p
  <2>3. p < k => n < n
    BY <1>1, <1>2, <1>4, <1>5, <2>1, RankUnique DEF p
  <2>4. QED
    BY <2>1, <2>2, <2>3 DEF p
<1>6. QED
  BY <1>4, <1>5

\* What is held is counted, and is no more than the keys.
LEMMA HeldCount ==
  \A contents : Cardinality(Held(contents)) \in Nat /\ Cardinality(Held(contents)) <= Cardinality(Keys)
<1>1. ASSUME NEW contents
      PROVE  Cardinality(Held(contents)) \in Nat /\ Cardinality(Held(contents)) <= Cardinality(Keys)
  <2>1. Held(contents) \in SUBSET Keys /\ IsFiniteSet(Keys)
    BY BucketAssumption DEF Held
  <2>2. QED
    BY <2>1, FS_Subset, FS_CardinalityType
<1>2. QED
  BY <1>1

\* Fewer rows come before a row than a scan comes upon.
LEMMA BeforeCount ==
  ASSUME NEW contents, NEW k \in Held(contents)
  PROVE  /\ Cardinality(Before(contents, k)) \in Nat
         /\ Cardinality(Before(contents, k)) < Cardinality(Held(contents))
<1>1. IsFiniteSet(Held(contents)) /\ Held(contents) \in SUBSET Nat
  <2>1. Held(contents) \in SUBSET Keys
    BY DEF Held
  <2>2. QED
    BY <2>1, BucketAssumption, FS_Subset
<1>2. ~(k < k)
  BY <1>1
<1>3. Before(contents, k) \in SUBSET Held(contents) /\ k \notin Before(contents, k)
  BY <1>2 DEF Before
<1>4. QED
  BY <1>1, <1>3, FS_Subset, FS_CardinalityType

-----------------------------------------------------------------------------
(* Records *)

\* What the fields of a record are.
LEMMA RecordFields ==
  ASSUME NEW r \in Record
  PROVE  /\ r.state \in States /\ r.pinning \in BOOLEAN /\ r.pinned \in BOOLEAN
         /\ r.snapshot \in Contents /\ r.copying \in BOOLEAN
         /\ r.cursor \in 0..Cardinality(Keys) /\ r.cutover \in Epochs \cup {None}
         /\ r.progress \in {None, 0, 100} /\ r.cleanup \in BOOLEAN
         /\ r # NoRecord
<1>1. r.state \in States
  BY DEF Record
<1>2. "none" \notin States
  BY DEF States
<1>3. r # NoRecord
  BY <1>1, <1>2 DEF NoRecord
<1>4. QED
  BY <1>3 DEF Record

\* The place of a record that is none.
LEMMA NoRecordState == NoRecord.state = "none" /\ "none" \notin States
BY DEF NoRecord, States

\* The bounds of the counters are numbers.
LEMMA Bounds ==
  /\ Cardinality(Keys) \in Nat /\ Epochs \in SUBSET Nat /\ PlannedFrontier \in Epochs
  /\ Empty \in Contents /\ 0 \in Epochs /\ None \in Int
<1>1. Cardinality(Keys) \in Nat
  BY BucketAssumption, FS_CardinalityType
<1>2. Empty \in Contents
  BY DEF Empty, Contents
<1>3. QED
  BY <1>1, <1>2, BucketAssumption DEF Epochs, None

\* Epochs are numbers, and so is the epoch that is none.
LEMMA EpochNumbers ==
  /\ \A e \in Epochs : e \in Int
  /\ \A e \in Epochs \cup {None} : e \in Int
BY BucketAssumption DEF Epochs, None

\* apply_transition leaves a record.
LEMMA MovedRecord ==
  ASSUME NEW r \in Record, NEW next \in States
  PROVE  /\ Moved(r, next) \in Record
         /\ Moved(r, next).state = next
         /\ Moved(r, next).snapshot = r.snapshot /\ Moved(r, next).cursor = r.cursor
         /\ Moved(r, next).progress = r.progress /\ Moved(r, next).cleanup = r.cleanup
         /\ Moved(r, next).cutover \in {r.cutover, PlannedFrontier}
         /\ next # "Cutover" => Moved(r, next).cutover = r.cutover
BY Bounds DEF Moved, Record

-----------------------------------------------------------------------------
(* Steps of the driver that leave the rows, the routers and the frontiers *)

\* What the driver does between two effects.
Aside ==
    /\ UNCHANGED <<rows, writers, frontiers>>
    /\ handle' \in Contents /\ seen' \in Contents
    /\ committed' \in Epochs /\ committed' <= frontier

Driving == pc \notin {"down", "closed"}

\* A driver that has a record has the stored one.
LEMMA DrivingRecord ==
  ASSUME IInv, Driving
  PROVE  /\ rec = active /\ active \in Record /\ active # NoRecord
         /\ pc \in Places[active.state]
         /\ Coherent(active)
BY DEF IInv, TypeOK, Driven, Consistent, Driving

\* The stored record stays, and the driver is at a call that fits it.
Placed(next) ==
    /\ next \in Places[active.state]
    /\ next \notin {"ready", "cursor", "verified", "unlink"}
    /\ next = "batch" => active.cursor < Cardinality(Held(active.snapshot))
    /\ next = "copied" => Copied(active)
    /\ next \in {"scan", "compare"} => active.progress = 0
    /\ next \in {"cleaning", "deleting"} => active.cleanup
    /\ next = "compare" => seen' = donor

\* No place is one where there is no record.
LEMMA PlacesAreCalls ==
  ASSUME NEW s \in States
  PROVE  Places[s] \in SUBSET Calls /\ "down" \notin Places[s] /\ "closed" \notin Places[s]
BY DEF Places, States, Calls

\* A step of the driver that stores nothing keeps the invariant.
LEMMA GoStep ==
  ASSUME IInv, Driving, Aside, UNCHANGED <<durable, rec>>, Placed(pc')
  PROVE  IInv'
<1>1. rec = active /\ active \in Record /\ active # NoRecord /\ active.state \in States
  BY DrivingRecord, RecordFields
<1>2. pc' \in Calls /\ pc' \notin {"down", "closed"}
  BY <1>1, PlacesAreCalls DEF Placed
<1>3. TypeOK'
  BY <1>1, <1>2 DEF IInv, TypeOK, Aside, durable, rows, writers, frontiers
<1>4. Driven'
  BY <1>1, <1>2 DEF Driven, Placed, durable, Copied
<1>5. Consistent'
  BY DEF IInv, Consistent, Coherent, Aside, durable, frontiers
<1>6. RecordNeverLost'
  BY DEF IInv, RecordNeverLost, durable
<1>7. CopyIsComplete'
  BY DEF IInv, CopyIsComplete, Aside, durable, rows
<1>8. VersionsAsked'
  BY DEF IInv, VersionsAsked, AllObserved, Placed, Aside, durable, writers
<1>9. Routed'
  BY DEF IInv, Routed, Aside, durable, writers, frontiers
<1>10. Flying'
  BY DEF IInv, Flying, Aside, writers, frontiers
<1>11. Kept'
  <2>1. ~active.cleanup \/ pc' # "compare"
    BY <1>1, DrivingRecord DEF Placed, Coherent
  <2>2. Safe' <=> Safe
    BY DEF Safe, Aside, rows, writers
  <2>3. Deleting' <=> Deleting
    BY DEF Deleting, durable
  <2>4. pc' = "compare" => (\A k \in Seeded : seen'[k] # Absent) /\ \A k \in acked : New \in {seen'[k], recipient[k]}
    BY <1>1, <2>1 DEF IInv, Kept, Deleting, Placed
  <2>5. QED
    BY <2>2, <2>3, <2>4 DEF IInv, Kept, Aside, durable, rows, writers
<1>12. QED
  BY <1>3, <1>4, <1>5, <1>6, <1>7, <1>8, <1>9, <1>10, <1>11 DEF IInv

\* A call that fails leaves the record as it is, and the driver idle.
LEMMA ReturnStep ==
  ASSUME IInv, Driving, Aside, UNCHANGED <<durable, rec>>, pc' = "idle"
  PROVE  IInv'
<1>1. active.state \in States
  BY DrivingRecord, RecordFields
<1>2. "idle" \in Places[active.state]
  BY <1>1 DEF Places, States
<1>3. QED
  BY <1>2, GoStep DEF Placed

\* What a record must be for the driver to store it and go on at `next`.
Storable(r, next) ==
    /\ r \in Record /\ Coherent(r)
    /\ next \in Places[r.state]
    /\ next \notin {"cursor", "copied", "compare", "deleting", "unlink"}
    /\ next = "batch" => r.cursor < Cardinality(Held(r.snapshot))
    /\ next = "scan" => r.progress = 0
    /\ next = "verified" => r.progress = 100
    /\ next = "cleaning" => r.cleanup
    /\ \A k \in Held(r.snapshot) :
          r.state \in DualStates \cup CutStates \/ Cardinality(Before(r.snapshot, k)) < r.cursor
             => recipient[k] # Absent
    /\ r.state \in {"Verifying", "GcEligible", "Done"} \/ next = "ready" => AllObserved
    /\ r.state \in Early => active.state \in Early
    /\ active.state = "Aborted" => r.state = "Aborted"
    /\ active.cleanup => r.cleanup
    /\ r.progress = 100 => Safe

\* A step of the driver that stores such a record keeps the invariant.
LEMMA StoreStep ==
  ASSUME IInv, Driving, Aside, NEW r, NEW next, Save(r, next), Storable(r, next)
  PROVE  IInv'
<1>1. CASE UNCHANGED <<durable, rec>> /\ pc' = "idle"
  BY <1>1, ReturnStep
<1>2. CASE active' = r /\ rec' = r /\ pc' = next /\ UNCHANGED history
  <2>1. /\ active \in Record /\ active # NoRecord /\ r \in Record /\ r # NoRecord
        /\ r.state \in States /\ r.cleanup \in BOOLEAN
    BY DrivingRecord, RecordFields DEF Storable
  <2>2. next \in Calls /\ next \notin {"down", "closed"}
    BY <2>1, PlacesAreCalls DEF Storable
  <2>3. TypeOK'
    BY <1>2, <2>1, <2>2 DEF IInv, TypeOK, Aside, rows, writers, frontiers
  <2>4. Driven'
    BY <1>2, <2>1, <2>2 DEF Driven, Storable
  <2>5. Consistent'
    BY <1>2, <2>1 DEF IInv, Consistent, Coherent, Aside, frontiers, Storable
  <2>6. RecordNeverLost'
    BY <1>2, <2>1 DEF IInv, RecordNeverLost
  <2>7. CopyIsComplete'
    BY <1>2, <2>1 DEF CopyIsComplete, Aside, rows, Storable
  <2>8. VersionsAsked'
    BY <1>2, <2>1 DEF VersionsAsked, AllObserved, Storable, Aside, writers
  <2>9. Routed'
    BY <1>2, <2>1 DEF IInv, Routed, Aside, writers, frontiers, Storable
  <2>10. Flying'
    BY DEF IInv, Flying, Aside, writers, frontiers
  <2>11. Kept'
    <3>1. Safe' <=> Safe
      BY DEF Safe, Aside, rows, writers
    <3>2. ~Deleting' => ~Deleting
      BY <1>2, <2>1 DEF Deleting, Storable
    <3>3. pc' # "compare"
      BY <1>2 DEF Storable
    <3>4. active'.state \in Early => active.state \in Early
      BY <1>2 DEF Storable
    <3>5. active'.progress = 100 => Safe
      BY <1>2 DEF Storable
    <3>6. QED
      BY <1>2, <2>1, <3>1, <3>2, <3>3, <3>4, <3>5 DEF IInv, Kept, Aside, rows, writers
  <2>12. QED
    BY <2>3, <2>4, <2>5, <2>6, <2>7, <2>8, <2>9, <2>10, <2>11 DEF IInv
<1>3. QED
  BY <1>1, <1>2 DEF Save

\* What is known of the record when the driver moves it to another state.
LEMMA Movable ==
  ASSUME IInv, Driving, NEW next \in States \ {"Cutover"}
  PROVE  LET r == Moved(rec, next) IN
         /\ r \in Record /\ r.state = next /\ r.snapshot = active.snapshot
         /\ r.cursor = active.cursor /\ r.progress = active.progress
         /\ r.cleanup = active.cleanup /\ r.cutover = active.cutover
BY DrivingRecord, MovedRecord

\* What is stored may be stored again in a state that asks for no more.
LEMMA Steady ==
  ASSUME IInv, Driving
  PROVE  /\ \A k \in Held(active.snapshot) :
               \/ active.state \in DualStates \cup CutStates
               \/ Cardinality(Before(active.snapshot, k)) < active.cursor
               => recipient[k] # Absent
         /\ active.state \in {"Verifying", "GcEligible", "Done"} \/ pc = "ready" => AllObserved
         /\ active.progress = 100 => Safe
         /\ active.state \in CutStates => PlannedFrontier <= frontier
         /\ active.cutover <= frontier
<1>1. active # NoRecord /\ Coherent(active)
  BY DrivingRecord
<1>2. QED
  BY <1>1 DEF IInv, CopyIsComplete, VersionsAsked, Kept, Coherent

\* A call that only stores a record leaves everything else.
LEMMA AsideKept ==
  ASSUME IInv, UNCHANGED <<handle, seen, committed, rows, writers, frontiers>>
  PROVE  Aside
BY DEF IInv, TypeOK, Consistent, Aside

\* Storing the record with a mark changed leaves what the others read of it.
LEMMA MarkedRecord ==
  ASSUME NEW r \in Record
  PROVE  /\ [r EXCEPT !.pinning = TRUE] \in Record
         /\ [r EXCEPT !.copying = TRUE] \in Record
         /\ \A b \in {0, 100} : [r EXCEPT !.progress = b] \in Record
         /\ [r EXCEPT !.cleanup = TRUE] \in Record
         /\ \A e \in Epochs : [r EXCEPT !.cutover = e] \in Record
         /\ \A c \in Contents :
               [r EXCEPT !.pinning = FALSE, !.pinned = TRUE, !.snapshot = c] \in Record
         /\ r.cursor + 1 <= Cardinality(Keys) =>
               [r EXCEPT !.copying = FALSE, !.cursor = @ + 1] \in Record
<1>1. r.cursor \in Nat
  BY RecordFields, Bounds
<1>2. r.cursor + 1 <= Cardinality(Keys) => r.cursor + 1 \in 0..Cardinality(Keys)
  BY <1>1, Bounds
<1>3. \A n \in 0..Cardinality(Keys) : [r EXCEPT !.copying = FALSE, !.cursor = n] \in Record
  BY DEF Record
<1>4. /\ [r EXCEPT !.pinning = TRUE] \in Record /\ [r EXCEPT !.copying = TRUE] \in Record
      /\ [r EXCEPT !.cleanup = TRUE] \in Record
  BY DEF Record
<1>5. \A b \in {0, 100} : [r EXCEPT !.progress = b] \in Record
  BY DEF Record
<1>6. \A e \in Epochs : [r EXCEPT !.cutover = e] \in Record
  BY DEF Record
<1>7. \A c \in Contents : [r EXCEPT !.pinning = FALSE, !.pinned = TRUE, !.snapshot = c] \in Record
  BY DEF Record
<1>8. [r EXCEPT !.copying = FALSE, !.cursor = @ + 1] = [r EXCEPT !.copying = FALSE, !.cursor = r.cursor + 1]
  BY DEF Record
<1>9. QED
  BY <1>2, <1>3, <1>4, <1>5, <1>6, <1>7, <1>8

\* When the driver may move its record to `state` and go on at `next`.
Enterable(state, next) ==
    /\ state \in States \ {"Cutover"} /\ next \in Places[state]
    /\ next \in {"idle", "snapshotting", "copying", "verify", "archive"}
    /\ state \in {"Planned", "Snapshotting"} => active.cursor = 0
    /\ active.progress = 100 => state \in {"Verifying", "GcEligible", "Done"}
    /\ state \in {"GcEligible", "Done"} => active.progress = 100
    /\ active.cleanup => state \in {"GcEligible", "Done"}
    /\ state = "Done" => active.cleanup
    /\ state \in CutStates => active.state \in CutStates
    /\ state \in DualStates => active.state \in DualStates \cup CutStates \/ Copied(active)
    /\ state \in {"Verifying", "GcEligible", "Done"} => AllObserved
    /\ state \in Early => active.state \in Early
    /\ active.state # "Aborted"

\* Such a transition keeps the invariant.
LEMMA MoveStep ==
  ASSUME IInv, Driving, Aside, NEW state, NEW next,
         Transition(state, next), Enterable(state, next)
  PROVE  IInv'
<1>1. rec = active /\ active \in Record /\ Coherent(active)
  BY DrivingRecord
<1> DEFINE r == Moved(rec, state)
<1>2. /\ r \in Record /\ r.state = state /\ r.snapshot = active.snapshot
      /\ r.cursor = active.cursor /\ r.progress = active.progress
      /\ r.cleanup = active.cleanup /\ r.cutover = active.cutover
  BY Movable DEF Enterable
<1>3. Save(r, next)
  BY DEF Transition
<1> HIDE DEF r
<1>4. Coherent(r)
  BY <1>1, <1>2 DEF Coherent, Enterable
<1>5. \A k \in Held(active.snapshot) :
         state \in DualStates \cup CutStates \/ Cardinality(Before(active.snapshot, k)) < active.cursor
            => recipient[k] # Absent
  <2>1. CASE active.state \in DualStates \cup CutStates
    BY <2>1, Steady
  <2>2. CASE Copied(active)
    BY <2>2, Steady, BeforeCount DEF Copied
  <2>3. CASE state \notin DualStates \cup CutStates
    BY <2>3, Steady
  <2>4. QED
    BY <2>1, <2>2, <2>3 DEF Enterable
<1>6. Storable(r, next)
  BY <1>2, <1>4, <1>5, Steady DEF Storable, Enterable
<1>7. QED
  BY <1>3, <1>6, StoreStep

-----------------------------------------------------------------------------
(* drive_planned_to_copying *)

\* Snapshotting is entered.
LEMMA DrivePlannedStep ==
  ASSUME IInv, DrivePlanned
  PROVE  IInv'
<1>1. Driving /\ Aside
  BY AsideKept DEF DrivePlanned, Resumes, Driving
<1>2. active.state \in {"Planned", "Snapshotting"} /\ Coherent(active)
  BY <1>1, DrivingRecord DEF DrivePlanned, Resumes
<1>3. Enterable("Snapshotting", "snapshotting")
  BY <1>2 DEF Enterable, Coherent, Places, States, CutStates, DualStates, Early
<1>4. QED
  BY <1>1, <1>3, MoveStep DEF DrivePlanned

\* Where the driver is tells the state of its record.
LEMMA PlaceOf ==
  ASSUME IInv, Driving
  PROVE  /\ pc \in {"snapshotting", "pinning", "created", "pinned"} => active.state = "Snapshotting"
         /\ pc \in {"copying", "page", "batch", "cursor", "copied"} => active.state = "Copying"
         /\ pc \in {"observing", "ready"} => active.state = "Cutover"
         /\ pc \in {"verify", "scan", "compare", "verified"} => active.state = "Verifying"
         /\ pc \in {"cleaning", "deleting"} => active.state = "GcEligible"
         /\ pc \in {"archive", "unlink"} => active.state = "Done"
<1>1. active.state \in States /\ pc \in Places[active.state]
  BY DrivingRecord, RecordFields
<1>2. QED
  BY <1>1 DEF Places, States

\* A phase before the checkpoint or before the copy times out.
LEMMA PhaseTimesOutStep ==
  ASSUME IInv, PhaseTimesOut
  PROVE  IInv'
<1>1. Driving /\ Aside
  BY AsideKept DEF PhaseTimesOut, TimedPhases, Driving
<1>2. active.state \in {"Snapshotting", "Copying"} /\ Coherent(active)
  BY <1>1, PlaceOf, DrivingRecord DEF PhaseTimesOut, TimedPhases
<1>3. Enterable("Aborted", "idle")
  BY <1>2 DEF Enterable, Coherent, Places, States, CutStates, DualStates, Early
<1>4. QED
  BY <1>1, <1>3, MoveStep DEF PhaseTimesOut

\* The checkpoint round begins.
LEMMA BeginCheckpointStep ==
  ASSUME IInv, BeginCheckpoint
  PROVE  IInv'
<1>1. Driving /\ Aside
  BY AsideKept DEF BeginCheckpoint, Driving
<1>2. /\ active.state = "Snapshotting" /\ Coherent(active)
      /\ rec = active /\ active \in Record /\ rec.pinned \in BOOLEAN
  BY <1>1, PlaceOf, DrivingRecord, RecordFields DEF BeginCheckpoint
<1>3. CASE rec.pinned
  <2>1. Save(rec, "pinned") /\ "pinned" \in Places[rec.state]
    BY <1>2, <1>3 DEF BeginCheckpoint, Places, States
  <2>2. Storable(rec, "pinned")
    BY <1>1, <1>2, <2>1, Steady DEF Storable
  <2>3. QED
    BY <1>1, <2>1, <2>2, StoreStep
<1>4. CASE ~rec.pinned
  <2> DEFINE r == [rec EXCEPT !.pinning = TRUE]
  <2>1. /\ r \in Record /\ r.state = active.state /\ r.snapshot = active.snapshot
        /\ r.cursor = active.cursor /\ r.progress = active.progress
        /\ r.cleanup = active.cleanup /\ r.cutover = active.cutover
    <3>1. r \in Record
      BY <1>2, MarkedRecord
    <3>2. QED
      BY <1>2, <3>1 DEF Record
  <2>2. Save(r, "pinning")
    BY <1>4 DEF BeginCheckpoint
  <2> HIDE DEF r
  <2>3. Coherent(r) /\ "pinning" \in Places[r.state]
    BY <1>2, <2>1 DEF Coherent, Places, States
  <2>4. Storable(r, "pinning")
    BY <1>1, <1>2, <2>1, <2>3, Steady DEF Storable
  <2>5. QED
    BY <1>1, <2>2, <2>4, StoreStep
<1>5. QED
  BY <1>2, <1>3, <1>4

\* The checkpoint pins what the donor holds.
LEMMA CreateCheckpointStep ==
  ASSUME IInv, CreateCheckpoint
  PROVE  IInv'
<1>1. Driving /\ Aside
  BY DEF CreateCheckpoint, Driving, Aside, IInv, TypeOK, Consistent
<1>2. active.state = "Snapshotting"
  BY <1>1, PlaceOf DEF CreateCheckpoint
<1>3. Placed(pc')
  BY <1>2 DEF CreateCheckpoint, Placed, Places, States
<1>4. QED
  BY <1>1, <1>3, GoStep DEF CreateCheckpoint

\* The checkpoint is recorded; no page of it has been copied.
LEMMA SaveCheckpointStep ==
  ASSUME IInv, SaveCheckpoint
  PROVE  IInv'
<1>1. Driving /\ Aside /\ handle \in Contents
  BY Bounds DEF SaveCheckpoint, Driving, Aside, IInv, TypeOK, Consistent
<1>2. /\ active.state = "Snapshotting" /\ Coherent(active)
      /\ rec = active /\ active \in Record
  BY <1>1, PlaceOf, DrivingRecord DEF SaveCheckpoint
<1> DEFINE r == [rec EXCEPT !.pinning = FALSE, !.pinned = TRUE, !.snapshot = handle]
<1>3. /\ r \in Record /\ r.state = active.state /\ r.snapshot = handle
      /\ r.cursor = active.cursor /\ r.progress = active.progress
      /\ r.cleanup = active.cleanup /\ r.cutover = active.cutover
  <2>1. r \in Record
    BY <1>1, <1>2, MarkedRecord
  <2>2. QED
    BY <1>2, <2>1 DEF Record
<1>4. Save(r, "pinned")
  BY DEF SaveCheckpoint
<1> HIDE DEF r
<1>5. Coherent(r) /\ "pinned" \in Places[r.state] /\ r.cursor = 0
  BY <1>2, <1>3 DEF Coherent, Places, States
<1>6. \A k \in Held(r.snapshot) : ~(Cardinality(Before(r.snapshot, k)) < r.cursor)
  BY <1>5, BeforeCount
<1>7. r.state \notin DualStates \cup CutStates
  BY <1>2, <1>3 DEF DualStates, CutStates
<1>8. Storable(r, "pinned")
  BY <1>1, <1>2, <1>3, <1>5, <1>6, <1>7, Steady DEF Storable
<1>9. QED
  BY <1>1, <1>4, <1>8, StoreStep

\* Copying is entered.
LEMMA EnterCopyingStep ==
  ASSUME IInv, EnterCopying
  PROVE  IInv'
<1>1. Driving /\ Aside
  BY AsideKept DEF EnterCopying, Driving
<1>2. active.state = "Snapshotting" /\ Coherent(active)
  BY <1>1, PlaceOf, DrivingRecord DEF EnterCopying
<1>3. Enterable("Copying", "copying")
  BY <1>2 DEF Enterable, Coherent, Places, States, CutStates, DualStates, Early
<1>4. QED
  BY <1>1, <1>3, MoveStep DEF EnterCopying

-----------------------------------------------------------------------------
(* copy_bounded_chunks *)

\* The copy starts, or starts again from the stored cursor.
LEMMA StartCopyStep ==
  ASSUME IInv, StartCopy
  PROVE  IInv'
<1>1. Driving /\ Aside
  BY AsideKept DEF StartCopy, Driving, Resumes
<1>2. active.state = "Copying"
  BY <1>1, PlaceOf, DrivingRecord DEF StartCopy, Resumes
<1>3. Placed(pc')
  BY <1>2 DEF StartCopy, Placed, Places, States
<1>4. QED
  BY <1>1, <1>3, GoStep DEF StartCopy

\* The page is announced.
LEMMA CopyIntentStep ==
  ASSUME IInv, CopyIntent
  PROVE  IInv'
<1>1. Driving /\ Aside
  BY AsideKept DEF CopyIntent, Driving
<1>2. /\ active.state = "Copying" /\ Coherent(active)
      /\ rec = active /\ active \in Record
  BY <1>1, PlaceOf, DrivingRecord DEF CopyIntent
<1> DEFINE r == [rec EXCEPT !.copying = TRUE]
<1>3. r \in Record
  BY <1>2, MarkedRecord
<1>4. /\ r.state = active.state /\ r.snapshot = active.snapshot
      /\ r.cursor = active.cursor /\ r.progress = active.progress
      /\ r.cleanup = active.cleanup /\ r.cutover = active.cutover
  BY <1>2 DEF Record
<1>5. Save(r, "batch") /\ active.cursor < Cardinality(Held(active.snapshot))
  BY <1>2 DEF CopyIntent
<1> HIDE DEF r
<1>6. Coherent(r) /\ "batch" \in Places[r.state]
  BY <1>2, <1>4 DEF Coherent, Places, States
<1>7. Storable(r, "batch")
  BY <1>1, <1>2, <1>3, <1>4, <1>5, <1>6, Steady DEF Storable
<1>8. QED
  BY <1>1, <1>5, <1>7, StoreStep

\* The page is written to the recipient.  It may overwrite a later write
\* there, which the donor still has: nobody writes past the donor before
\* DualWriting.
LEMMA CopyBatchStep ==
  ASSUME IInv, CopyBatch
  PROVE  IInv'
<1>1. Driving
  BY DEF CopyBatch, Driving
<1>2. /\ active.state = "Copying" /\ Coherent(active)
      /\ rec = active /\ active \in Record /\ active # NoRecord
      /\ active.snapshot \in Contents /\ active.cursor \in Nat /\ active.cleanup \in BOOLEAN
  BY <1>1, PlaceOf, DrivingRecord, RecordFields DEF CopyBatch
<1>3. active.cursor < Cardinality(Held(active.snapshot))
  BY <1>1, <1>2 DEF CopyBatch, IInv, Driven, Driving
<1> DEFINE k == Page(active.snapshot, active.cursor)
<1>4. k \in Held(active.snapshot)
  BY <1>2, <1>3, NextPage
<1>5. recipient' = [recipient EXCEPT ![k] = active.snapshot[k]]
  BY <1>2 DEF CopyBatch
<1> HIDE DEF k
<1>6. k \in Keys /\ active.snapshot[k] # Absent /\ active.snapshot[k] \in {Absent, Seed, New}
  BY <1>2, <1>4 DEF Held, Contents
<1>7. recipient \in Contents /\ recipient' \in Contents
  BY <1>5, <1>6 DEF IInv, TypeOK, Contents
<1>8. \A j \in Keys : recipient[j] # Absent => recipient'[j] # Absent
  BY <1>5, <1>6, <1>7 DEF Contents
<1>9. recipient'[k] # Absent
  BY <1>5, <1>6, <1>7 DEF Contents
<1>10. TypeOK'
  BY <1>7 DEF CopyBatch, IInv, TypeOK, Calls, durable, writers, frontiers
<1>11. Driven'
  <2>1. "cursor" \in Places[active.state]
    BY <1>2 DEF Places, States
  <2>2. QED
    BY <1>2, <1>3, <1>9, <2>1 DEF CopyBatch, Driven, durable, k
<1>12. Consistent'
  BY DEF CopyBatch, IInv, Consistent, Coherent, durable, frontiers
<1>13. RecordNeverLost'
  BY DEF CopyBatch, IInv, RecordNeverLost, durable
<1>14. CopyIsComplete'
  <2>1. Held(active.snapshot) \in SUBSET Keys
    BY DEF Held
  <2>2. active' = active
    BY DEF CopyBatch, durable
  <2>3. QED
    BY <1>8, <2>1, <2>2 DEF IInv, CopyIsComplete
<1>15. VersionsAsked'
  BY DEF CopyBatch, IInv, VersionsAsked, AllObserved, durable, writers
<1>16. Routed'
  BY DEF CopyBatch, IInv, Routed, durable, writers, frontiers
<1>17. Flying'
  BY DEF CopyBatch, IInv, Flying, writers, frontiers
<1>18. Kept'
  <2>1. \A j \in acked : donor[j] = New
    BY <1>2 DEF IInv, Kept, Early
  <2>2. active.progress # 100 /\ ~active.cleanup
    BY <1>2 DEF Coherent
  <2>3. ~Deleting
    BY <1>2, <2>2 DEF Deleting
  <2>4. QED
    BY <1>2, <2>1, <2>2, <2>3 DEF CopyBatch, IInv, Kept, durable, writers
<1>19. QED
  BY <1>10, <1>11, <1>12, <1>13, <1>14, <1>15, <1>16, <1>17, <1>18 DEF IInv

\* The cursor passes over the page, which the recipient has.
LEMMA CopyCursorStep ==
  ASSUME IInv, CopyCursor
  PROVE  IInv'
<1>1. Driving /\ Aside
  BY AsideKept DEF CopyCursor, Driving
<1>2. /\ active.state = "Copying" /\ Coherent(active)
      /\ rec = active /\ active \in Record
      /\ active.cursor \in Nat
  BY <1>1, PlaceOf, DrivingRecord, RecordFields DEF CopyCursor
<1>3. /\ active.cursor < Cardinality(Held(active.snapshot))
      /\ recipient[Page(active.snapshot, active.cursor)] # Absent
  BY <1>1, <1>2 DEF CopyCursor, IInv, Driven, Driving
<1> DEFINE r == [rec EXCEPT !.copying = FALSE, !.cursor = @ + 1]
<1>4. active.cursor + 1 <= Cardinality(Keys)
  BY <1>2, <1>3, HeldCount, Bounds
<1>5. r \in Record
  BY <1>2, <1>4, MarkedRecord
<1>6. /\ r.state = active.state /\ r.snapshot = active.snapshot
      /\ r.cursor = active.cursor + 1 /\ r.progress = active.progress
      /\ r.cleanup = active.cleanup /\ r.cutover = active.cutover
  BY <1>2 DEF Record
<1>7. Save(r, "page")
  BY <1>2 DEF CopyCursor
<1> HIDE DEF r
<1>8. Coherent(r) /\ "page" \in Places[r.state]
  BY <1>2, <1>6 DEF Coherent, Places, States
<1>9. ASSUME NEW k \in Held(r.snapshot), Cardinality(Before(r.snapshot, k)) < r.cursor
      PROVE  recipient[k] # Absent
  <2>1. Cardinality(Before(active.snapshot, k)) \in Nat
    BY <1>6, <1>9, BeforeCount
  <2>2. CASE Cardinality(Before(active.snapshot, k)) = active.cursor
    BY <1>2, <1>3, <1>6, <1>9, <2>2, NextPage
  <2>3. CASE Cardinality(Before(active.snapshot, k)) < active.cursor
    BY <1>1, <1>6, <1>9, <2>3, Steady
  <2>4. QED
    BY <1>2, <1>6, <1>9, <2>1, <2>2, <2>3
<1>10. r.state \notin DualStates \cup CutStates
  BY <1>2, <1>6 DEF DualStates, CutStates
<1>11. Storable(r, "page")
  BY <1>1, <1>2, <1>5, <1>6, <1>8, <1>9, <1>10, Steady DEF Storable
<1>12. QED
  BY <1>1, <1>7, <1>11, StoreStep

\* The last page has been copied.
LEMMA CopyEndsStep ==
  ASSUME IInv, CopyEnds
  PROVE  IInv'
<1>1. Driving /\ Aside
  BY AsideKept DEF CopyEnds, Driving
<1>2. active.state = "Copying" /\ rec = active
  BY <1>1, PlaceOf, DrivingRecord DEF CopyEnds
<1>3. Placed(pc')
  BY <1>2 DEF CopyEnds, Placed, Places, States
<1>4. QED
  BY <1>1, <1>3, GoStep DEF CopyEnds

-----------------------------------------------------------------------------
(* From the copy to the cut-over *)

\* DualWriting is entered with the whole snapshot copied.
LEMMA BeginDualWritingStep ==
  ASSUME IInv, BeginDualWriting
  PROVE  IInv'
<1>1. Driving /\ Aside
  BY AsideKept DEF BeginDualWriting, Driving
<1>2. active.state = "Copying" /\ Coherent(active)
  BY <1>1, PlaceOf, DrivingRecord DEF BeginDualWriting
<1>3. Copied(active)
  BY <1>1 DEF BeginDualWriting, IInv, Driven, Driving
<1>4. Enterable("DualWriting", "idle")
  BY <1>2, <1>3 DEF Enterable, Coherent, Places, States, CutStates, DualStates, Early
<1>5. QED
  BY <1>1, <1>4, MoveStep DEF BeginDualWriting

\* CatchingUp is entered.
LEMMA AdvanceToCatchingUpStep ==
  ASSUME IInv, AdvanceToCatchingUp
  PROVE  IInv'
<1>1. Driving /\ Aside
  BY AsideKept DEF AdvanceToCatchingUp, Driving, Resumes
<1>2. active.state = "DualWriting" /\ Coherent(active)
  BY <1>1, DrivingRecord DEF AdvanceToCatchingUp, Resumes
<1>3. Enterable("CatchingUp", "idle")
  BY <1>2 DEF Enterable, Coherent, Places, States, CutStates, DualStates, Early
<1>4. QED
  BY <1>1, <1>3, MoveStep DEF AdvanceToCatchingUp

\* FencingOld is entered.
LEMMA AdvanceToFencingOldStep ==
  ASSUME IInv, AdvanceToFencingOld
  PROVE  IInv'
<1>1. Driving /\ Aside
  BY AsideKept DEF AdvanceToFencingOld, Driving, Resumes
<1>2. active.state = "CatchingUp" /\ Coherent(active)
  BY <1>1, DrivingRecord DEF AdvanceToFencingOld, Resumes
<1>3. Enterable("FencingOld", "idle")
  BY <1>2 DEF Enterable, Coherent, Places, States, CutStates, DualStates, Early
<1>4. QED
  BY <1>1, <1>3, MoveStep DEF AdvanceToFencingOld

\* Cutover is entered at or above the planned frontier.
LEMMA AwaitCutoverStep ==
  ASSUME IInv, AwaitCutover
  PROVE  IInv'
<1>1. Driving /\ frontier \in Nat /\ PlannedFrontier \in Nat /\ PlannedFrontier <= frontier
  BY Bounds DEF AwaitCutover, Driving, Resumes, IInv, TypeOK
<1>2. Aside
  BY <1>1 DEF AwaitCutover, Aside, IInv, TypeOK
<1>3. CASE Resumes({"FencingOld"}) /\ Transition("Cutover", "observing")
  <2>1. /\ active.state = "FencingOld" /\ Coherent(active)
        /\ rec = active /\ active \in Record
    BY <1>1, <1>3, DrivingRecord DEF Resumes
  <2> DEFINE r == Moved(rec, "Cutover")
  <2>2. /\ r \in Record /\ r.state = "Cutover" /\ r.snapshot = active.snapshot
        /\ r.cursor = active.cursor /\ r.progress = active.progress
        /\ r.cleanup = active.cleanup /\ r.cutover \in {active.cutover, PlannedFrontier}
    BY <2>1, MovedRecord DEF States
  <2>3. Save(r, "observing")
    BY <1>3 DEF Transition
  <2> HIDE DEF r
  <2>4. Coherent(r) /\ "observing" \in Places[r.state]
    BY <1>1, <2>1, <2>2 DEF Coherent, Places, States
  <2>5. active.state \in DualStates
    BY <2>1 DEF DualStates
  <2>6. r.state \notin Early
    BY <2>2 DEF Early
  <2>7. Storable(r, "observing")
    BY <1>1, <2>1, <2>2, <2>4, <2>5, <2>6, Steady DEF Storable
  <2>8. QED
    BY <1>1, <1>2, <2>3, <2>7, StoreStep
<1>4. CASE /\ Resumes({"Cutover"}) /\ pc' = "observing"
           /\ UNCHANGED <<durable, rec, faults>>
  <2>1. active.state = "Cutover"
    BY <1>1, <1>4, DrivingRecord DEF Resumes
  <2>2. Placed(pc')
    BY <1>4, <2>1 DEF Placed, Places, States
  <2>3. QED
    BY <1>1, <1>2, <1>4, <2>2, GoStep
<1>5. QED
  BY <1>3, <1>4 DEF AwaitCutover

\* Everybody has reported: the cut-over epoch is recorded.
LEMMA CutoverReadyStep ==
  ASSUME IInv, CutoverReady
  PROVE  IInv'
<1>1. Driving /\ frontier \in Nat /\ committed \in Epochs /\ committed <= frontier
  BY Bounds DEF CutoverReady, Driving, IInv, TypeOK, Consistent
<1>2. Aside
  BY <1>1, Bounds DEF CutoverReady, Aside, IInv, TypeOK
<1>3. /\ active.state = "Cutover" /\ Coherent(active)
      /\ rec = active /\ active \in Record
  BY <1>1, PlaceOf, DrivingRecord DEF CutoverReady
<1> DEFINE r == [rec EXCEPT !.cutover = committed]
<1>4. r \in Record
  BY <1>1, <1>3, MarkedRecord
<1>5. /\ r.state = active.state /\ r.snapshot = active.snapshot
      /\ r.cursor = active.cursor /\ r.progress = active.progress
      /\ r.cleanup = active.cleanup /\ r.cutover = committed
  BY <1>3 DEF Record
<1>6. Save(r, "ready") /\ AllObserved
  BY DEF CutoverReady
<1> HIDE DEF r
<1>7. Coherent(r) /\ "ready" \in Places[r.state]
  BY <1>1, <1>3, <1>5 DEF Coherent, Places, States
<1>8. Storable(r, "ready")
  BY <1>1, <1>3, <1>4, <1>5, <1>6, <1>7, Steady DEF Storable
<1>9. QED
  BY <1>1, <1>2, <1>6, <1>8, StoreStep

\* Somebody has not reported.
LEMMA CutoverNotReadyStep ==
  ASSUME IInv, CutoverNotReady
  PROVE  IInv'
<1>1. Driving /\ Aside
  BY Bounds DEF CutoverNotReady, Driving, Aside, IInv, TypeOK
<1>2. active.state = "Cutover" /\ Coherent(active)
  BY <1>1, PlaceOf, DrivingRecord DEF CutoverNotReady
<1>3. CASE pc' = "idle" /\ UNCHANGED <<durable, rec, faults>>
  BY <1>1, <1>3, ReturnStep
<1>4. CASE Transition("Aborted", "idle")
  <2>1. Enterable("Aborted", "idle")
    BY <1>2 DEF Enterable, Coherent, Places, States, CutStates, DualStates, Early
  <2>2. QED
    BY <1>1, <1>4, <2>1, MoveStep
<1>5. QED
  BY <1>3, <1>4 DEF CutoverNotReady

-----------------------------------------------------------------------------
(* verify_or_rollback *)

\* Verifying is entered once everybody has reported.
LEMMA EnterVerifyingStep ==
  ASSUME IInv, EnterVerifying
  PROVE  IInv'
<1>1. Driving /\ Aside
  BY AsideKept DEF EnterVerifying, Driving
<1>2. active.state = "Cutover" /\ Coherent(active) /\ AllObserved
  BY <1>1, PlaceOf, DrivingRecord, Steady DEF EnterVerifying
<1>3. Enterable("Verifying", "verify")
  BY <1>2 DEF Enterable, Coherent, Places, States, CutStates, DualStates, Early
<1>4. QED
  BY <1>1, <1>3, MoveStep DEF EnterVerifying

\* The verification begins.
LEMMA BeginVerificationStep ==
  ASSUME IInv, BeginVerification
  PROVE  IInv'
<1>1. Driving /\ Aside
  BY AsideKept DEF BeginVerification, Driving, Resumes
<1>2. /\ active.state = "Verifying" /\ Coherent(active)
      /\ rec = active /\ active \in Record
  BY <1>1, PlaceOf, DrivingRecord DEF BeginVerification, Resumes
<1> DEFINE r == [rec EXCEPT !.progress = 0]
<1>3. r \in Record
  BY <1>2, MarkedRecord
<1>4. /\ r.state = active.state /\ r.snapshot = active.snapshot
      /\ r.cursor = active.cursor /\ r.progress = 0
      /\ r.cleanup = active.cleanup /\ r.cutover = active.cutover
  BY <1>2 DEF Record
<1>5. Save(r, "scan")
  BY DEF BeginVerification
<1> HIDE DEF r
<1>6. Coherent(r) /\ "scan" \in Places[r.state]
  BY <1>2, <1>4 DEF Coherent, Places, States
<1>7. Storable(r, "scan")
  BY <1>1, <1>2, <1>3, <1>4, <1>6, Steady DEF Storable
<1>8. QED
  BY <1>1, <1>5, <1>7, StoreStep

\* The donor is scanned.
LEMMA ScanDonorStep ==
  ASSUME IInv, ScanDonor
  PROVE  IInv'
<1>1. Driving /\ Aside
  BY DEF ScanDonor, Driving, Aside, IInv, TypeOK, Consistent
<1>2. active.state = "Verifying"
  BY <1>1, PlaceOf DEF ScanDonor
<1>3. active.progress = 0
  BY <1>1 DEF ScanDonor, IInv, Driven, Driving
<1>4. Placed(pc')
  BY <1>2, <1>3 DEF ScanDonor, Placed, Places, States
<1>5. QED
  BY <1>1, <1>4, GoStep DEF ScanDonor

\* The scans agree, and so every row is on the recipient, or the migration
\* goes back to DualWriting.
LEMMA CompareEntriesStep ==
  ASSUME IInv, CompareEntries
  PROVE  IInv'
<1>1. Driving /\ Aside
  BY Bounds DEF CompareEntries, Driving, Aside, IInv, TypeOK, Consistent
<1>2. /\ active.state = "Verifying" /\ Coherent(active)
      /\ rec = active /\ active \in Record
  BY <1>1, PlaceOf, DrivingRecord DEF CompareEntries
<1>3. CASE Agree
  <2> DEFINE r == [rec EXCEPT !.progress = 100]
  <2>1. r \in Record
    BY <1>2, MarkedRecord
  <2>2. /\ r.state = active.state /\ r.snapshot = active.snapshot
        /\ r.cursor = active.cursor /\ r.progress = 100
        /\ r.cleanup = active.cleanup /\ r.cutover = active.cutover
    BY <1>2 DEF Record
  <2>3. Save(r, "verified")
    BY <1>3 DEF CompareEntries
  <2> HIDE DEF r
  <2>4. Coherent(r) /\ "verified" \in Places[r.state]
    BY <1>2, <2>2 DEF Coherent, Places, States
  <2>5. Safe
    BY <1>3 DEF CompareEntries, IInv, Kept, Safe, Agree
  <2>6. Storable(r, "verified")
    BY <1>1, <1>2, <2>1, <2>2, <2>4, <2>5, Steady DEF Storable
  <2>7. QED
    BY <1>1, <2>3, <2>6, StoreStep
<1>4. CASE ~Agree
  <2>1. active.progress = 0
    BY <1>1 DEF CompareEntries, IInv, Driven, Driving
  <2>2. Enterable("DualWriting", "idle")
    BY <1>2, <2>1 DEF Enterable, Coherent, Places, States, CutStates, DualStates, Early
  <2>3. QED
    BY <1>1, <1>4, <2>2, MoveStep DEF CompareEntries
<1>5. QED
  BY <1>3, <1>4

\* The bucket is too large.
LEMMA VerifyWindowFullStep ==
  ASSUME IInv, VerifyWindowFull
  PROVE  IInv'
<1>1. Driving /\ Aside
  BY Bounds DEF VerifyWindowFull, Driving, Aside, IInv, TypeOK, Consistent
<1>2. QED
  BY <1>1, ReturnStep DEF VerifyWindowFull

\* A shard fails, or the checkpoint coordinator does.
LEMMA StorageFailsStep ==
  ASSUME IInv, StorageFails
  PROVE  IInv'
<1>1. Driving /\ Aside
  BY Bounds DEF StorageFails, Driving, Aside, IInv, TypeOK, Consistent
<1>2. QED
  BY <1>1, ReturnStep DEF StorageFails

-----------------------------------------------------------------------------
(* Clean-up and archive *)

\* GcEligible is entered after a comparison that agreed.
LEMMA MaybeEnterGcEligibleStep ==
  ASSUME IInv, MaybeEnterGcEligible
  PROVE  IInv'
<1>1. Driving /\ Aside
  BY AsideKept DEF MaybeEnterGcEligible, Driving, Resumes
<1>2. active.state = "Verifying" /\ Coherent(active) /\ AllObserved
  BY <1>1, PlaceOf, DrivingRecord, Steady DEF MaybeEnterGcEligible, Resumes
<1>3. active.progress = 100
  BY <1>1, DrivingRecord DEF MaybeEnterGcEligible, IInv, Driven, Driving
<1>4. Enterable("GcEligible", "idle")
  BY <1>2, <1>3 DEF Enterable, Coherent, Places, States, CutStates, DualStates, Early
<1>5. QED
  BY <1>1, <1>4, MoveStep DEF MaybeEnterGcEligible

\* The clean-up is announced.
LEMMA FinishDoneStep ==
  ASSUME IInv, FinishDone
  PROVE  IInv'
<1>1. Driving /\ Aside
  BY AsideKept DEF FinishDone, Driving, Resumes
<1>2. /\ active.state = "GcEligible" /\ Coherent(active)
      /\ rec = active /\ active \in Record
  BY <1>1, DrivingRecord DEF FinishDone, Resumes
<1> DEFINE r == [rec EXCEPT !.cleanup = TRUE]
<1>3. r \in Record
  BY <1>2, MarkedRecord
<1>4. /\ r.state = active.state /\ r.snapshot = active.snapshot
      /\ r.cursor = active.cursor /\ r.progress = active.progress
      /\ r.cleanup = TRUE /\ r.cutover = active.cutover
  BY <1>2 DEF Record
<1>5. Save(r, "cleaning")
  BY DEF FinishDone
<1> HIDE DEF r
<1>6. Coherent(r) /\ "cleaning" \in Places[r.state]
  BY <1>2, <1>4 DEF Coherent, Places, States
<1>7. Storable(r, "cleaning")
  BY <1>1, <1>2, <1>3, <1>4, <1>6, Steady DEF Storable
<1>8. QED
  BY <1>1, <1>5, <1>7, StoreStep

\* The donor is scanned for what to delete.
LEMMA ScanForCleanupStep ==
  ASSUME IInv, ScanForCleanup
  PROVE  IInv'
<1>1. Driving /\ Aside
  BY DEF ScanForCleanup, Driving, Aside, IInv, TypeOK, Consistent
<1>2. active.state = "GcEligible" /\ active.cleanup
  BY <1>1, PlaceOf DEF ScanForCleanup, IInv, Driven, Driving
<1>3. Placed(pc')
  BY <1>2 DEF ScanForCleanup, Placed, Places, States
<1>4. QED
  BY <1>1, <1>3, GoStep DEF ScanForCleanup

\* A row of the donor is deleted; the recipient has been found to hold all.
LEMMA DeletePageStep ==
  ASSUME IInv, DeletePage
  PROVE  IInv'
<1>1. Driving
  BY DEF DeletePage, Driving
<1>2. active.state = "GcEligible" /\ active.cleanup /\ active # NoRecord
  BY <1>1, PlaceOf, DrivingRecord DEF DeletePage, IInv, Driven, Driving
<1>3. Cardinality(Held(seen)) \in Nat /\ 0 < Cardinality(Held(seen))
  <2>1. IsFiniteSet(Held(seen))
    <3>1. Held(seen) \in SUBSET Keys
      BY DEF Held
    <3>2. QED
      BY <3>1, BucketAssumption, FS_Subset
  <2>2. Cardinality(Held(seen)) # 0
    BY <2>1, FS_EmptySet DEF DeletePage
  <2>3. QED
    BY <2>1, <2>2, FS_CardinalityType
<1> DEFINE k == Page(seen, 0)
<1>4. k \in Keys
  BY <1>3, NextPage DEF Held
<1>5. donor' = [donor EXCEPT ![k] = Absent] /\ seen' = [seen EXCEPT ![k] = Absent]
  BY DEF DeletePage
<1> HIDE DEF k
<1>6. donor' \in Contents /\ seen' \in Contents
  BY <1>4, <1>5 DEF IInv, TypeOK, Contents
<1>7. TypeOK'
  BY <1>6 DEF DeletePage, IInv, TypeOK, durable, writers, frontiers
<1>8. Driven'
  BY DEF DeletePage, IInv, Driven, durable, Copied
<1>9. Consistent'
  BY DEF DeletePage, IInv, Consistent, Coherent, durable, frontiers
<1>10. RecordNeverLost'
  BY DEF DeletePage, IInv, RecordNeverLost, durable
<1>11. CopyIsComplete'
  BY DEF DeletePage, IInv, CopyIsComplete, durable
<1>12. VersionsAsked'
  BY DEF DeletePage, IInv, VersionsAsked, AllObserved, durable, writers
<1>13. Routed'
  BY DEF DeletePage, IInv, Routed, durable, writers, frontiers
<1>14. Flying'
  BY DEF DeletePage, IInv, Flying, writers, frontiers
<1>15. Kept'
  <2>1. Deleting' /\ active' = active /\ pc' # "compare" /\ active.state \notin Early
    BY <1>2 DEF DeletePage, Deleting, durable, Early
  <2>2. Safe' <=> Safe
    BY DEF DeletePage, Safe, writers
  <2>3. QED
    BY <1>2, <2>1, <2>2 DEF IInv, Kept
<1>16. QED
  BY <1>7, <1>8, <1>9, <1>10, <1>11, <1>12, <1>13, <1>14, <1>15 DEF IInv

\* Done is entered.
LEMMA EnterDoneStep ==
  ASSUME IInv, EnterDone
  PROVE  IInv'
<1>1. Driving /\ Aside
  BY AsideKept DEF EnterDone, Driving
<1>2. active.state = "GcEligible" /\ Coherent(active) /\ AllObserved /\ active.cleanup
  BY <1>1, PlaceOf, DrivingRecord, Steady DEF EnterDone, IInv, Driven, Driving
<1>3. Enterable("Done", "archive")
  BY <1>2 DEF Enterable, Coherent, Places, States, CutStates, DualStates, Early
<1>4. QED
  BY <1>1, <1>3, MoveStep DEF EnterDone

\* The history record is stored.
LEMMA ArchivePutStep ==
  ASSUME IInv, ArchivePut
  PROVE  IInv'
<1>1. Driving /\ Aside
  BY AsideKept DEF ArchivePut, Driving, Resumes
<1>2. /\ active.state = "Done" /\ Coherent(active)
      /\ rec = active /\ active \in Record /\ active # NoRecord
  BY <1>1, PlaceOf, DrivingRecord DEF ArchivePut, Resumes
<1>3. CASE pc' = "idle" /\ UNCHANGED history
  BY <1>1, <1>3, ReturnStep DEF ArchivePut, durable
<1>4. CASE history' = rec /\ pc' = "unlink"
  <2>1. active' = active /\ rec' = rec /\ history' = active
    BY <1>2, <1>4 DEF ArchivePut
  <2>2. TypeOK'
    BY <1>2, <1>4, <2>1 DEF ArchivePut, IInv, TypeOK, Calls, rows, writers, frontiers
  <2>3. Driven'
    <3>1. "unlink" \in Places[active.state]
      BY <1>2 DEF Places, States
    <3>2. QED
      BY <1>2, <1>4, <2>1, <3>1 DEF Driven
  <2>4. Consistent'
    BY <1>2, <2>1 DEF ArchivePut, IInv, Consistent, Coherent, frontiers
  <2>5. RecordNeverLost'
    BY <1>2, <2>1 DEF RecordNeverLost, Coherent
  <2>6. CopyIsComplete'
    BY <2>1 DEF ArchivePut, IInv, CopyIsComplete, rows
  <2>7. VersionsAsked'
    BY <1>4, <2>1 DEF ArchivePut, IInv, VersionsAsked, AllObserved, writers
  <2>8. Routed'
    BY <2>1 DEF ArchivePut, IInv, Routed, writers, frontiers
  <2>9. Flying'
    BY DEF ArchivePut, IInv, Flying, writers, frontiers
  <2>10. Kept'
    <3>1. Safe' <=> Safe
      BY DEF ArchivePut, Safe, rows, writers
    <3>2. Deleting' <=> Deleting
      BY <2>1 DEF Deleting
    <3>3. QED
      BY <1>4, <2>1, <3>1, <3>2 DEF ArchivePut, IInv, Kept, rows, writers
  <2>11. QED
    BY <2>2, <2>3, <2>4, <2>5, <2>6, <2>7, <2>8, <2>9, <2>10 DEF IInv
<1>5. QED
  BY <1>3, <1>4 DEF ArchivePut

\* The active record is deleted after the history record was stored.
LEMMA ArchiveDeleteStep ==
  ASSUME IInv, ArchiveDelete
  PROVE  IInv'
<1>1. Driving /\ Aside
  BY AsideKept DEF ArchiveDelete, Driving
<1>2. /\ active.state = "Done" /\ Coherent(active) /\ active # NoRecord
      /\ history # NoRecord /\ AllObserved
  BY <1>1, PlaceOf, DrivingRecord, Steady DEF ArchiveDelete, IInv, Driven, Driving
<1>3. CASE pc' = "idle" /\ UNCHANGED active
  BY <1>1, <1>3, ReturnStep DEF ArchiveDelete, durable
<1>4. CASE active' = NoRecord /\ pc' = "closed"
  <2>1. Safe
    BY <1>2 DEF IInv, Kept, Coherent
  <2>2. TypeOK'
    BY <1>4 DEF ArchiveDelete, IInv, TypeOK, Calls, rows, writers, frontiers
  <2>3. Driven'
    BY <1>4 DEF Driven
  <2>4. Consistent'
    BY <1>4 DEF ArchiveDelete, IInv, Consistent, Coherent, frontiers
  <2>5. RecordNeverLost'
    BY <1>2, <1>4 DEF ArchiveDelete, IInv, RecordNeverLost
  <2>6. CopyIsComplete'
    BY <1>4 DEF CopyIsComplete
  <2>7. VersionsAsked'
    BY <1>2 DEF ArchiveDelete, VersionsAsked, AllObserved, writers
  <2>8. Routed'
    BY <1>2, <1>4 DEF ArchiveDelete, IInv, Routed, writers, frontiers
  <2>9. Flying'
    BY DEF ArchiveDelete, IInv, Flying, writers, frontiers
  <2>10. Kept'
    <3>1. Safe'
      BY <2>1 DEF ArchiveDelete, Safe, rows, writers
    <3>2. QED
      BY <1>4, <3>1 DEF Kept, Deleting
  <2>11. QED
    BY <2>2, <2>3, <2>4, <2>5, <2>6, <2>7, <2>8, <2>9, <2>10 DEF IInv
<1>5. QED
  BY <1>3, <1>4 DEF ArchiveDelete

-----------------------------------------------------------------------------
(* The control process *)

\* The control process stops: the driver's copy is lost.
LEMMA CrashStep ==
  ASSUME IInv, Crash
  PROVE  IInv'
<1>1. active' = active /\ history' = history /\ pc' = "down"
  BY DEF Crash, durable
<1>2. TypeOK'
  BY <1>1, Bounds DEF Crash, IInv, TypeOK, Calls, rows, writers, frontiers
<1>3. Driven'
  BY <1>1 DEF Driven
<1>4. Consistent'
  BY <1>1, Bounds DEF Crash, IInv, TypeOK, Consistent, Coherent, frontiers
<1>5. RecordNeverLost'
  BY <1>1 DEF IInv, RecordNeverLost
<1>6. CopyIsComplete'
  BY <1>1 DEF Crash, IInv, CopyIsComplete, rows
<1>7. VersionsAsked'
  BY <1>1 DEF Crash, IInv, VersionsAsked, AllObserved, writers
<1>8. Routed'
  BY <1>1 DEF Crash, IInv, Routed, writers, frontiers
<1>9. Flying'
  BY DEF Crash, IInv, Flying, writers, frontiers
<1>10. Kept'
  <2>1. Safe' <=> Safe
    BY DEF Crash, Safe, rows, writers
  <2>2. Deleting' <=> Deleting
    BY <1>1 DEF Deleting
  <2>3. QED
    BY <1>1, <2>1, <2>2 DEF Crash, IInv, Kept, rows, writers
<1>11. QED
  BY <1>2, <1>3, <1>4, <1>5, <1>6, <1>7, <1>8, <1>9, <1>10 DEF IInv

\* The control process comes back and goes on from the stored record.
LEMMA RecoverOnStartStep ==
  ASSUME IInv, RecoverOnStart
  PROVE  IInv'
<1>1. active' = active /\ history' = history /\ rec' = active
  BY DEF RecoverOnStart, durable
<1>2. pc' \in {"closed", "archive", "cleaning", "idle"}
  BY DEF RecoverOnStart
<1>3. TypeOK'
  BY <1>1, <1>2 DEF RecoverOnStart, IInv, TypeOK, Calls, rows, writers, frontiers
<1>4. Driven'
  <2>1. CASE active = NoRecord
    BY <1>1, <2>1, NoRecordState DEF RecoverOnStart, Driven, Archivable, Replayable, States
  <2>2. CASE active # NoRecord
    <3>1. active \in Record /\ active.state \in States
      BY <2>2, RecordFields DEF IInv, TypeOK
    <3>2. pc' \in Places[active.state]
      BY <2>2, <3>1 DEF RecoverOnStart, Archivable, Replayable, Places, States
    <3>3. pc' # "closed" /\ (pc' = "cleaning" => active.cleanup)
      BY <2>2, <3>1 DEF RecoverOnStart, Replayable
    <3>4. QED
      BY <1>1, <1>2, <2>2, <3>2, <3>3 DEF Driven
  <2>3. QED
    BY <2>1, <2>2
<1>5. Consistent'
  BY <1>1 DEF RecoverOnStart, IInv, Consistent, Coherent, frontiers
<1>6. RecordNeverLost'
  BY <1>1 DEF IInv, RecordNeverLost
<1>7. CopyIsComplete'
  BY <1>1 DEF RecoverOnStart, IInv, CopyIsComplete, rows
<1>8. VersionsAsked'
  BY <1>1, <1>2 DEF RecoverOnStart, IInv, VersionsAsked, AllObserved, writers
<1>9. Routed'
  BY <1>1 DEF RecoverOnStart, IInv, Routed, writers, frontiers
<1>10. Flying'
  BY DEF RecoverOnStart, IInv, Flying, writers, frontiers
<1>11. Kept'
  <2>1. Safe' <=> Safe
    BY DEF RecoverOnStart, Safe, rows, writers
  <2>2. Deleting' <=> Deleting
    BY <1>1 DEF Deleting
  <2>3. QED
    BY <1>1, <1>2, <2>1, <2>2 DEF RecoverOnStart, IInv, Kept, rows, writers
<1>12. QED
  BY <1>3, <1>4, <1>5, <1>6, <1>7, <1>8, <1>9, <1>10, <1>11 DEF IInv

-----------------------------------------------------------------------------
(* The routers and the frontiers *)

\* What the steps of the routers leave of the invariant.
LEMMA DriverAside ==
  ASSUME IInv, UNCHANGED <<durable, driver, rows, frontiers>>
  PROVE  /\ Driven' /\ Consistent' /\ RecordNeverLost' /\ CopyIsComplete'
         /\ active' = active /\ history' = history /\ pc' = pc /\ frontier' = frontier
<1>1. Driven'
  BY DEF IInv, Driven, durable, driver, rows, Copied
<1>2. Consistent' /\ RecordNeverLost'
  BY DEF IInv, Consistent, Coherent, RecordNeverLost, durable, driver, frontiers
<1>3. CopyIsComplete'
  BY DEF IInv, CopyIsComplete, durable, rows
<1>4. QED
  BY <1>1, <1>2, <1>3 DEF durable, driver, frontiers

\* What is acknowledged and where it is stays.
LEMMA KeptAside ==
  ASSUME IInv, UNCHANGED <<durable, driver, rows, acked>>
  PROVE  Kept'
<1>1. Safe' <=> Safe
  BY DEF Safe, rows
<1>2. Deleting' <=> Deleting
  BY DEF Deleting, durable
<1>3. QED
  BY <1>1, <1>2 DEF IInv, Kept, durable, driver, rows

\* The record a component finds is one of the migration's.
LEMMA FoundRecord ==
  ASSUME IInv
  PROVE  /\ Found \in Record /\ Coherent(Found)
         /\ active # NoRecord => Found = active
         /\ active = NoRecord => Found.state = "Done"
BY DEF IInv, TypeOK, RecordNeverLost, Consistent, Found

\* A component replaces its router between two writes.
LEMMA RefreshRouterStep ==
  ASSUME IInv, NEW r \in Routers, RefreshRouter(r)
  PROVE  IInv'
<1>1. /\ Driven' /\ Consistent' /\ RecordNeverLost' /\ CopyIsComplete'
      /\ active' = active /\ history' = history /\ pc' = pc /\ frontier' = frontier
  BY DriverAside DEF RefreshRouter
<1>2. Kept'
  BY KeptAside DEF RefreshRouter
<1> DEFINE x == RoutingOf(Found)
<1>3. /\ x \in Routings /\ x.state = Found.state /\ x.cutover = Found.cutover
      /\ Found.state \in States /\ Found.cutover <= frontier
      /\ Found.state \in CutStates => PlannedFrontier <= frontier
  <2>1. Found \in Record /\ Coherent(Found)
    BY FoundRecord
  <2>2. Found.state \in States /\ Found.cutover \in Epochs \cup {None}
    BY <2>1, RecordFields
  <2>3. QED
    BY <2>1, <2>2 DEF RoutingOf, Routings, Coherent
<1>4. router' = [router EXCEPT ![r] = x] /\ router \in [Routers -> Routings]
  BY DEF RefreshRouter, IInv, TypeOK
<1> HIDE DEF x
<1>5. TypeOK'
  BY <1>3, <1>4 DEF RefreshRouter, IInv, TypeOK, durable, driver, rows, frontiers
<1>6. VersionsAsked'
  BY <1>1 DEF RefreshRouter, IInv, VersionsAsked, AllObserved
<1>7. Routed'
  <2>1. ASSUME NEW p \in Routers, p # r
        PROVE  router'[p] = router[p]
    BY <1>4, <2>1
  <2>2. router'[r] = x
    BY <1>4
  <2>3. /\ x.state \in DualStates \cup CutStates \/ observed[r] =>
             active = NoRecord \/ active.state \notin Early
        /\ x.state = "Aborted" => active # NoRecord /\ active.state = "Aborted"
    <3>1. active # NoRecord /\ active.state \in Early => x.state \notin DualStates \cup CutStates
      BY <1>3, FoundRecord DEF Early, DualStates, CutStates
    <3>2. observed[r] => active = NoRecord \/ active.state \notin Early
      BY DEF IInv, Routed
    <3>3. x.state = "Aborted" => active # NoRecord /\ active.state = "Aborted"
      BY <1>3, FoundRecord
    <3>4. QED
      BY <3>1, <3>2, <3>3
  <2>4. observed[r] => x.state \in DualStates \cup CutStates \cup {"Aborted"}
    <3>1. observed[r] => active = NoRecord \/ active.state \notin Early
      BY DEF IInv, Routed
    <3>2. QED
      BY <1>3, <3>1, FoundRecord DEF Early, DualStates, CutStates, States
  <2>5. ASSUME NEW p \in Routers
        PROVE  /\ router'[p].state \in DualStates \cup CutStates \/ observed[p] =>
                     active = NoRecord \/ active.state \notin Early
               /\ router'[p].state = "Aborted" => active # NoRecord /\ active.state = "Aborted"
               /\ observed[p] => router'[p].state \in DualStates \cup CutStates \cup {"Aborted"}
               /\ router'[p].cutover <= frontier
               /\ router'[p].state \in CutStates => PlannedFrontier <= frontier
    <3>1. CASE p = r
      BY <1>3, <2>2, <2>3, <2>4, <3>1
    <3>2. CASE p # r
      BY <2>1, <3>2 DEF IInv, Routed
    <3>3. QED
      BY <3>1, <3>2
  <2>6. QED
    BY <1>1, <2>5 DEF RefreshRouter, Routed
<1>8. Flying'
  <2>1. write' = write /\ observed' = observed /\ frontier' = frontier
    BY <1>1 DEF RefreshRouter
  <2>2. \A p \in Routers : p # r => router'[p] = router[p]
    BY <1>4
  <2>3. write[r] = NoWrite
    BY DEF RefreshRouter
  <2>4. QED
    BY <2>1, <2>2, <2>3 DEF IInv, Flying
<1>9. QED
  BY <1>1, <1>2, <1>5, <1>6, <1>7, <1>8 DEF IInv

\* A component reports the target map version.
LEMMA ReportVersionStep ==
  ASSUME IInv, NEW r \in Routers, ReportVersion(r)
  PROVE  IInv'
<1>1. /\ Driven' /\ Consistent' /\ RecordNeverLost' /\ CopyIsComplete'
      /\ active' = active /\ history' = history /\ pc' = pc /\ frontier' = frontier
  BY DriverAside DEF ReportVersion
<1>2. Kept'
  BY KeptAside DEF ReportVersion
<1>3. observed \in [Routers -> BOOLEAN] /\ observed' = [observed EXCEPT ![r] = TRUE]
  BY DEF ReportVersion, IInv, TypeOK
<1>4. observed' \in [Routers -> BOOLEAN]
  BY <1>3
<1>5. /\ \A p \in Routers : observed[p] => observed'[p]
      /\ \A p \in Routers : observed'[p] => observed[p] \/ p = r
  BY <1>3
<1>6. TypeOK'
  BY <1>4 DEF ReportVersion, IInv, TypeOK, durable, driver, rows, frontiers
<1>7. VersionsAsked'
  BY <1>1, <1>5 DEF IInv, VersionsAsked, AllObserved
<1>8. Routed'
  BY <1>1, <1>5 DEF ReportVersion, IInv, Routed
<1>9. Flying'
  BY <1>1, <1>5 DEF ReportVersion, IInv, Flying
<1>10. QED
  BY <1>1, <1>2, <1>6, <1>7, <1>8, <1>9 DEF IInv

\* A write begins: its targets are those of its router.
LEMMA BeginWriteStep ==
  ASSUME IInv, NEW r \in Routers, NEW k \in Keys, NEW epoch \in Epochs, BeginWrite(r, k, epoch)
  PROVE  IInv'
<1>1. /\ Driven' /\ Consistent' /\ RecordNeverLost' /\ CopyIsComplete'
      /\ active' = active /\ history' = history /\ pc' = pc /\ frontier' = frontier
  BY DriverAside DEF BeginWrite
<1>2. Kept'
  BY KeptAside DEF BeginWrite
<1> DEFINE t == Targets(router[r], epoch)
<1> DEFINE w == [key |-> k, epoch |-> epoch, targets |-> t]
<1>3. t \in TargetLists
  BY DEF Targets, TargetLists
<1>4. /\ t # <<"donor">> => router[r].state \in DualStates \cup CutStates
      /\ t = <<"donor">> =>
            \/ router[r].state \notin DualStates \cup CutStates
            \/ router[r].state \in DualStates /\ ~(epoch >= PlannedFrontier)
            \/ router[r].state \in CutStates /\ ~(epoch >= router[r].cutover)
  BY DEF Targets
<1>5. router[r].cutover \in Int /\ epoch \in Int /\ PlannedFrontier \in Int /\ frontier \in Int
  <2>1. router[r] \in Routings
    BY DEF IInv, TypeOK
  <2>2. router[r].cutover \in Epochs \cup {None}
    BY <2>1 DEF Routings
  <2>3. QED
    BY <2>2, EpochNumbers, Bounds DEF IInv, TypeOK
<1>6. write' = [write EXCEPT ![r] = w] /\ DOMAIN write = Routers
  BY DEF BeginWrite, IInv, TypeOK
<1> HIDE DEF t
<1>7. w \in Writes /\ w.epoch = epoch /\ w.targets = t
  BY <1>3 DEF Writes
<1> HIDE DEF w
<1>8. DOMAIN write' = Routers /\ write'[r] = w /\ \A p \in Routers : p # r => write'[p] = write[p]
  BY <1>6
<1>9. TypeOK'
  <2>1. issued' \in SUBSET Keys
    BY DEF BeginWrite, IInv, TypeOK
  <2>2. \A p \in Routers : write'[p] \in Writes \cup {NoWrite}
    BY <1>7, <1>8 DEF IInv, TypeOK
  <2>3. QED
    BY <1>8, <2>1, <2>2 DEF BeginWrite, IInv, TypeOK, durable, driver, rows, frontiers
<1>10. VersionsAsked'
  BY <1>1 DEF BeginWrite, IInv, VersionsAsked, AllObserved
<1>11. Routed'
  BY <1>1 DEF BeginWrite, IInv, Routed
<1>12. Flying'
  <2>1. /\ frontier <= w.epoch
        /\ router[r].state \in DualStates \cup CutStates => observed[r]
        /\ w.targets # <<"donor">> => router[r].state \in DualStates \cup CutStates
        /\ w.targets = <<"donor">> =>
              \/ router[r].state \notin DualStates \cup CutStates
              \/ router[r].state \in DualStates /\ w.epoch < PlannedFrontier
              \/ router[r].state \in CutStates /\ w.epoch < router[r].cutover
    BY <1>4, <1>5, <1>7 DEF BeginWrite, VersionAccepted
  <2>2. router' = router /\ observed' = observed
    BY DEF BeginWrite
  <2>3. ASSUME NEW p \in Routers, write'[p] # NoWrite
        PROVE  /\ frontier <= write'[p].epoch
               /\ router[p].state \in DualStates \cup CutStates => observed[p]
               /\ write'[p].targets # <<"donor">> => router[p].state \in DualStates \cup CutStates
               /\ write'[p].targets = <<"donor">> =>
                     \/ router[p].state \notin DualStates \cup CutStates
                     \/ router[p].state \in DualStates /\ write'[p].epoch < PlannedFrontier
                     \/ router[p].state \in CutStates /\ write'[p].epoch < router[p].cutover
    <3>1. CASE p = r
      BY <1>8, <2>1, <3>1
    <3>2. CASE p # r
      BY <1>8, <2>3, <3>2 DEF IInv, Flying
    <3>3. QED
      BY <3>1, <3>2
  <2>4. QED
    BY <1>1, <2>2, <2>3 DEF Flying
<1>13. QED
  BY <1>1, <1>2, <1>9, <1>10, <1>11, <1>12 DEF IInv

\* A writer dies.
LEMMA WriterStopsStep ==
  ASSUME IInv, NEW r \in Routers, WriterStops(r)
  PROVE  IInv'
<1>1. /\ Driven' /\ Consistent' /\ RecordNeverLost' /\ CopyIsComplete'
      /\ active' = active /\ history' = history /\ pc' = pc /\ frontier' = frontier
  BY DriverAside DEF WriterStops
<1>2. Kept'
  BY KeptAside DEF WriterStops
<1>3. /\ DOMAIN write' = Routers /\ write'[r] = NoWrite
      /\ \A p \in Routers : p # r => write'[p] = write[p]
  BY DEF WriterStops, IInv, TypeOK
<1>4. TypeOK'
  BY <1>3 DEF WriterStops, IInv, TypeOK, durable, driver, rows, frontiers
<1>5. VersionsAsked' /\ Routed'
  BY <1>1 DEF WriterStops, IInv, VersionsAsked, AllObserved, Routed
<1>6. Flying'
  BY <1>1, <1>3 DEF WriterStops, IInv, Flying
<1>7. QED
  BY <1>1, <1>2, <1>4, <1>5, <1>6 DEF IInv

\* The lists of targets, and what is left of them.
LEMMA TargetParts ==
  /\ Head(<<"donor">>) = "donor" /\ Len(<<"donor">>) = 1
  /\ Head(<<"recipient">>) = "recipient" /\ Len(<<"recipient">>) = 1
  /\ Head(<<"donor", "recipient">>) = "donor" /\ Len(<<"donor", "recipient">>) = 2
  /\ Tail(<<"donor", "recipient">>) = <<"recipient">>
  /\ <<"donor">> # <<"recipient">> /\ <<"donor">> # <<"donor", "recipient">>
  /\ <<"recipient">> # <<"donor", "recipient">>
OBVIOUS

\* Once everybody asks for the target version and the epochs are past both
\* frontiers, no write is sent to the donor alone.
LEMMA NoDonorOnlyWrite ==
  ASSUME IInv, NEW r \in Routers, write[r] # NoWrite, write[r].targets = <<"donor">>
  PROVE  active # NoRecord /\ active.progress # 100 /\ pc # "compare"
<1>1. SUFFICES ASSUME active = NoRecord \/ active.state \in {"Verifying", "GcEligible", "Done"}
               PROVE  FALSE
  <2>1. active # NoRecord /\ active.state \notin {"Verifying", "GcEligible", "Done"}
    BY <1>1
  <2>2. active.progress # 100
    BY <2>1 DEF IInv, Consistent, Coherent
  <2>3. pc # "compare"
    BY <2>1, PlaceOf DEF Driving
  <2>4. QED
    BY <2>1, <2>2, <2>3
<1>2. observed[r]
  BY <1>1 DEF IInv, VersionsAsked, AllObserved
<1>3. router[r].state \in DualStates \cup CutStates
  BY <1>1, <1>2 DEF IInv, Routed
<1>4. /\ PlannedFrontier <= frontier /\ router[r].cutover <= frontier
      /\ frontier <= write[r].epoch
  <2>1. PlannedFrontier <= frontier
    <3>1. CASE active = NoRecord
      BY <3>1 DEF IInv, RecordNeverLost, Consistent, Coherent, CutStates
    <3>2. CASE active # NoRecord
      BY <1>1, <3>2 DEF IInv, Consistent, Coherent, CutStates
    <3>3. QED
      BY <3>1, <3>2
  <2>2. QED
    BY <2>1 DEF IInv, Routed, Flying
<1>5. /\ PlannedFrontier \in Int /\ frontier \in Int /\ router[r].cutover \in Int
      /\ write[r].epoch \in Int
  <2>1. router[r] \in Routings /\ write[r] \in Writes
    BY DEF IInv, TypeOK
  <2>2. router[r].cutover \in Epochs \cup {None} /\ write[r].epoch \in Epochs
    BY <2>1 DEF Routings, Writes
  <2>3. QED
    BY <2>2, EpochNumbers, Bounds DEF IInv, TypeOK
<1>6. \/ write[r].epoch < PlannedFrontier
      \/ write[r].epoch < router[r].cutover
  BY <1>3 DEF IInv, Flying
<1>7. QED
  BY <1>4, <1>5, <1>6

\* A row is put on a shard, and acknowledged with the last put.
LEMMA PutRowStep ==
  ASSUME IInv, NEW r \in Routers, PutRow(r)
  PROVE  IInv'
<1> DEFINE w == write[r]
<1> DEFINE k == w.key
<1>1. w \in Writes /\ w # NoWrite /\ k \in Keys /\ w.targets \in TargetLists
  <2>1. w \in Writes /\ w # NoWrite
    BY DEF PutRow, IInv, TypeOK
  <2>2. QED
    BY <2>1 DEF Writes
<1>2. /\ UNCHANGED <<durable, driver, router, observed, issued, frontiers>>
      /\ active' = active /\ history' = history /\ pc' = pc /\ frontier' = frontier
      /\ seen' = seen
  BY DEF PutRow, durable, driver, frontiers
<1>3. donor \in Contents /\ recipient \in Contents /\ DOMAIN write = Routers /\ acked \in SUBSET Keys
  BY DEF IInv, TypeOK
<1>4. \/ /\ w.targets = <<"donor">>
         /\ donor' = [donor EXCEPT ![k] = New] /\ recipient' = recipient
         /\ acked' = acked \cup {k}
         /\ write' = [write EXCEPT ![r] = NoWrite]
      \/ /\ w.targets = <<"recipient">>
         /\ recipient' = [recipient EXCEPT ![k] = New] /\ donor' = donor
         /\ acked' = acked \cup {k}
         /\ write' = [write EXCEPT ![r] = NoWrite]
      \/ /\ w.targets = <<"donor", "recipient">>
         /\ donor' = [donor EXCEPT ![k] = New] /\ recipient' = recipient
         /\ acked' = acked
         /\ write' = [write EXCEPT ![r] = [w EXCEPT !.targets = <<"recipient">>]]
  <2>1. CASE w.targets = <<"donor">>
    BY <2>1, TargetParts DEF PutRow
  <2>2. CASE w.targets = <<"recipient">>
    BY <2>2, TargetParts DEF PutRow
  <2>3. CASE w.targets = <<"donor", "recipient">>
    <3>1. ~(Len(w.targets) = 1) /\ Head(w.targets) = "donor" /\ Tail(w.targets) = <<"recipient">>
      BY <2>3, TargetParts
    <3>2. write' = [write EXCEPT ![r] = [w EXCEPT !.targets = Tail(@)]]
      BY <3>1 DEF PutRow
    <3>3. [w EXCEPT !.targets = Tail(@)] = [w EXCEPT !.targets = <<"recipient">>]
      BY <1>1, <3>1 DEF Writes
    <3>4. QED
      BY <2>3, <3>1, <3>2, <3>3 DEF PutRow
  <2>4. QED
    BY <1>1, <2>1, <2>2, <2>3 DEF TargetLists
<1> DEFINE v == [w EXCEPT !.targets = <<"recipient">>]
<1>5. v \in Writes /\ v.epoch = w.epoch /\ v.targets = <<"recipient">>
  BY <1>1 DEF Writes, TargetLists
<1>6. /\ DOMAIN write' = Routers /\ \A p \in Routers : p # r => write'[p] = write[p]
      /\ \/ write'[r] = NoWrite
         \/ write'[r] = v /\ w.targets = <<"donor", "recipient">>
  BY <1>3, <1>4
<1> HIDE DEF v, k
<1>7. /\ donor' \in Contents /\ recipient' \in Contents
      /\ \A j \in Keys : donor'[j] \in {donor[j], New}
      /\ \A j \in Keys : recipient'[j] \in {recipient[j], New}
  BY <1>1, <1>3, <1>4 DEF Contents, k
<1>8. k \in Keys /\ acked' \in SUBSET Keys
  BY <1>1, <1>3, <1>4 DEF k
<1>9. Absent # New
  BY DEF Absent, New
<1>10. TypeOK'
  BY <1>2, <1>5, <1>6, <1>7, <1>8 DEF IInv, TypeOK, durable, driver, frontiers
<1>11. Driven'
  <2>1. ASSUME pc = "cursor" PROVE recipient'[Page(active.snapshot, active.cursor)] # Absent
    <3>1. /\ active.cursor < Cardinality(Held(active.snapshot))
          /\ recipient[Page(active.snapshot, active.cursor)] # Absent
          /\ active \in Record
      BY <2>1, DrivingRecord DEF IInv, Driven, Driving
    <3>2. Page(active.snapshot, active.cursor) \in Keys
      BY <3>1, NextPage, RecordFields, Bounds DEF Held
    <3>3. QED
      BY <1>7, <1>9, <3>1, <3>2
  <2>2. QED
    BY <1>2, <2>1 DEF IInv, Driven, durable, driver, Copied
<1>12. Consistent' /\ RecordNeverLost'
  BY <1>2 DEF IInv, Consistent, Coherent, RecordNeverLost, driver
<1>13. CopyIsComplete'
  <2>1. Held(active.snapshot) \in SUBSET Keys
    BY DEF Held
  <2>2. QED
    BY <1>2, <1>7, <1>9, <2>1 DEF IInv, CopyIsComplete
<1>14. VersionsAsked' /\ Routed'
  BY <1>2 DEF IInv, VersionsAsked, AllObserved, Routed
<1>15. Flying'
  <2>1. ASSUME NEW p \in Routers, write'[p] # NoWrite
        PROVE  /\ frontier <= write'[p].epoch
               /\ router[p].state \in DualStates \cup CutStates => observed[p]
               /\ write'[p].targets # <<"donor">> => router[p].state \in DualStates \cup CutStates
               /\ write'[p].targets = <<"donor">> =>
                     \/ router[p].state \notin DualStates \cup CutStates
                     \/ router[p].state \in DualStates /\ write'[p].epoch < PlannedFrontier
                     \/ router[p].state \in CutStates /\ write'[p].epoch < router[p].cutover
    <3>1. CASE p = r
      <4>1. write'[p] = v /\ w.targets = <<"donor", "recipient">>
        BY <1>6, <2>1, <3>1
      <4>2. w.targets # <<"donor">> /\ v.targets # <<"donor">>
        BY <1>5, <4>1, TargetParts
      <4>3. QED
        BY <1>1, <1>5, <3>1, <4>1, <4>2 DEF IInv, Flying
    <3>2. CASE p # r
      BY <1>6, <2>1, <3>2 DEF IInv, Flying
    <3>3. QED
      BY <3>1, <3>2
  <2>2. QED
    BY <1>2, <2>1 DEF Flying
<1>16. Kept'
  <2>1. Deleting' <=> Deleting
    BY <1>2 DEF Deleting
  <2>2. \A j \in Seeded : j \in Keys
    BY BucketAssumption
  <2>3. CASE /\ w.targets = <<"donor">>
             /\ donor' = [donor EXCEPT ![k] = New] /\ recipient' = recipient
             /\ acked' = acked \cup {k}
    <3>1. active # NoRecord /\ active.progress # 100 /\ pc # "compare"
      BY <1>1, <2>3, NoDonorOnlyWrite
    <3>2. donor'[k] = New
      BY <1>3, <1>8, <2>3 DEF Contents
    <3>3. ~Deleting => \A j \in Seeded : donor'[j] # Absent
      BY <1>7, <1>9, <2>2 DEF IInv, Kept
    <3>4. ~Deleting => \A j \in acked' : New \in {donor'[j], recipient'[j]}
      BY <1>3, <1>7, <2>3, <3>2 DEF IInv, Kept
    <3>5. active.state \in Early => \A j \in acked' : donor'[j] = New
      BY <1>3, <1>7, <2>3, <3>1, <3>2 DEF IInv, Kept
    <3>6. QED
      BY <1>2, <2>1, <3>1, <3>3, <3>4, <3>5 DEF Kept
  <2>4. CASE /\ w.targets = <<"recipient">>
             /\ recipient' = [recipient EXCEPT ![k] = New] /\ donor' = donor
             /\ acked' = acked \cup {k}
    <3>1. active = NoRecord \/ active.state \notin Early
      BY <1>1, <2>4, TargetParts DEF IInv, Flying, Routed
    <3>2. recipient'[k] = New
      BY <1>3, <1>8, <2>4 DEF Contents
    <3>3. ~Deleting => \A j \in Seeded : donor'[j] # Absent
      BY <2>4 DEF IInv, Kept
    <3>4. ~Deleting => \A j \in acked' : New \in {donor'[j], recipient'[j]}
      BY <1>3, <1>7, <2>4, <3>2 DEF IInv, Kept
    <3>5. Safe => Safe'
      BY <1>3, <1>7, <1>9, <2>2, <2>4, <3>2 DEF Safe
    <3>6. pc = "compare" => /\ \A j \in Seeded : seen[j] # Absent
                            /\ \A j \in acked' : New \in {seen[j], recipient'[j]}
      BY <1>3, <1>7, <2>4, <3>2 DEF IInv, Kept
    <3>7. QED
      BY <1>2, <2>1, <3>1, <3>3, <3>4, <3>5, <3>6 DEF IInv, Kept
  <2>5. CASE /\ donor' = [donor EXCEPT ![k] = New] /\ recipient' = recipient
             /\ acked' = acked
    <3>1. Safe' <=> Safe
      BY <2>5 DEF Safe
    <3>2. ~Deleting => \A j \in Seeded : donor'[j] # Absent
      BY <1>7, <1>9, <2>2 DEF IInv, Kept
    <3>3. ~Deleting => \A j \in acked : New \in {donor'[j], recipient[j]}
      BY <1>3, <1>7 DEF IInv, Kept
    <3>4. active # NoRecord /\ active.state \in Early => \A j \in acked : donor'[j] = New
      BY <1>3, <1>7 DEF IInv, Kept
    <3>5. QED
      BY <1>2, <2>1, <2>5, <3>1, <3>2, <3>3, <3>4 DEF IInv, Kept
  <2>6. QED
    BY <1>4, <2>3, <2>4, <2>5
<1>17. QED
  BY <1>10, <1>11, <1>12, <1>13, <1>14, <1>15, <1>16 DEF IInv

\* An epoch is committed.
LEMMA AdvanceFrontierStep ==
  ASSUME IInv, AdvanceFrontier
  PROVE  IInv'
<1>1. /\ UNCHANGED <<durable, driver, rows, writers, consumer>>
      /\ active' = active /\ history' = history /\ frontier' = frontier + 1
      /\ frontier \in Epochs /\ frontier \in Nat /\ frontier' \in Epochs /\ MaxEpoch \in Nat
      /\ committed' = committed
  <2>1. frontier \in Epochs /\ frontier \in Nat /\ frontier < MaxEpoch /\ frontier' = frontier + 1 /\ MaxEpoch \in Nat
    BY Bounds, BucketAssumption DEF AdvanceFrontier, IInv, TypeOK
  <2>2. frontier' \in Epochs
    BY <2>1 DEF Epochs
  <2>3. QED
    BY <2>1, <2>2 DEF AdvanceFrontier, durable, driver
<1>2. TypeOK'
  BY <1>1 DEF IInv, TypeOK, durable, driver, rows, writers
<1>3. Driven'
  BY <1>1 DEF IInv, Driven, durable, driver, rows, Copied
<1>4. Consistent'
  <2>2. committed' <= frontier'
    BY <1>1, Bounds DEF IInv, TypeOK, Consistent
  <2>3. active' # NoRecord => Coherent(active)'
    <3>1. active # NoRecord => active \in Record /\ Coherent(active)
      BY DEF IInv, TypeOK, Consistent
    <3>2. active # NoRecord => active.cutover \in Int
      BY <3>1, RecordFields, EpochNumbers
    <3>3. QED
      BY <1>1, <3>1, <3>2, Bounds DEF Coherent
  <2>4. history' # NoRecord => Coherent(history)'
    <3>1. history # NoRecord => history \in Record /\ Coherent(history)
      BY DEF IInv, TypeOK, Consistent
    <3>2. history # NoRecord => history.cutover \in Int
      BY <3>1, RecordFields, EpochNumbers
    <3>3. QED
      BY <1>1, <3>1, <3>2, Bounds DEF Coherent
  <2>5. QED
    BY <2>2, <2>3, <2>4 DEF Consistent
<1>5. RecordNeverLost' /\ CopyIsComplete'
  BY <1>1 DEF IInv, RecordNeverLost, CopyIsComplete, rows
<1>6. VersionsAsked'
  BY <1>1 DEF IInv, VersionsAsked, AllObserved, driver, writers
<1>7. Routed'
  <2>1. \A r \in Routers : router[r].cutover \in Int
    <3>1. \A r \in Routers : router[r] \in Routings
      BY DEF IInv, TypeOK
    <3>2. \A r \in Routers : router[r].cutover \in Epochs \cup {None}
      BY <3>1 DEF Routings
    <3>3. QED
      BY <3>2, EpochNumbers
  <2>2. \A r \in Routers : /\ router[r].cutover <= frontier'
                           /\ router[r].state \in CutStates => PlannedFrontier <= frontier'
    BY <1>1, <2>1, Bounds DEF IInv, Routed
  <2>3. QED
    BY <1>1, <2>2 DEF IInv, Routed, writers
<1>8. Flying'
  <2>1. \A r \in Routers : write[r] # NoWrite => write[r].epoch \in Int
    <3>1. \A r \in Routers : write[r] # NoWrite => write[r] \in Writes
      BY DEF IInv, TypeOK
    <3>2. \A r \in Routers : write[r] # NoWrite => write[r].epoch \in Epochs
      BY <3>1 DEF Writes
    <3>3. QED
      BY <3>2, EpochNumbers
  <2>2. \A r \in Routers : write[r] # NoWrite => frontier' <= write[r].epoch
    BY <1>1, <2>1 DEF AdvanceFrontier
  <2>3. QED
    BY <1>1, <2>2 DEF IInv, Flying, writers
<1>9. Kept'
  BY <1>1, KeptAside DEF writers
<1>10. QED
  BY <1>2, <1>3, <1>4, <1>5, <1>6, <1>7, <1>8, <1>9 DEF IInv

\* The consumers report.
LEMMA ConsumersReportStep ==
  ASSUME IInv, ConsumersReport
  PROVE  IInv'
<1>1. UNCHANGED <<durable, driver, rows, writers, frontier>> /\ consumer' \in Epochs
  BY DEF ConsumersReport, IInv, TypeOK
<1>2. TypeOK'
  BY <1>1 DEF IInv, TypeOK, durable, driver, rows, writers
<1>3. Driven' /\ RecordNeverLost'
  BY <1>1 DEF IInv, Driven, RecordNeverLost, durable, driver, rows, Copied
<1>4. Consistent' /\ CopyIsComplete'
  BY <1>1 DEF IInv, Consistent, Coherent, CopyIsComplete, durable, driver, rows
<1>5. VersionsAsked' /\ Routed' /\ Flying'
  BY <1>1 DEF IInv, VersionsAsked, AllObserved, Routed, Flying, durable, driver, writers
<1>6. Kept'
  BY <1>1, KeptAside DEF writers
<1>7. QED
  BY <1>2, <1>3, <1>4, <1>5, <1>6 DEF IInv

-----------------------------------------------------------------------------
(* The theorems *)

\* The invariant holds of a migration that has been planned.
LEMMA InitInvariant == Init => IInv
<1> SUFFICES ASSUME Init PROVE IInv
  OBVIOUS
<1>1. NewRecord \in Record /\ NewRecord # NoRecord
  <2>1. NewRecord \in Record
    BY Bounds DEF NewRecord, Record, States
  <2>2. QED
    BY <2>1, RecordFields
<1>2. /\ NewRecord.state = "Planned" /\ NewRecord.cursor = 0 /\ NewRecord.progress = None
      /\ NewRecord.cleanup = FALSE /\ NewRecord.cutover = None
      /\ NewRecord.snapshot = Empty
  BY DEF NewRecord
<1>3. /\ active = NewRecord /\ rec = NewRecord /\ history = NoRecord /\ pc = "idle"
      /\ frontier = 0 /\ acked = {} /\ committed = 0
  BY DEF Init
<1>4. TypeOK
  <2>1. RoutingOf(NewRecord) \in Routings
    BY <1>2 DEF RoutingOf, Routings, States
  <2>2. donor \in Contents
    BY DEF Init, Contents
  <2>3. router \in [Routers -> Routings] /\ observed \in [Routers -> BOOLEAN]
    BY <2>1 DEF Init
  <2>4. DOMAIN write = Routers /\ \A r \in Routers : write[r] = NoWrite
    BY DEF Init
  <2>5. QED
    BY <1>1, <1>3, <2>2, <2>3, <2>4, Bounds DEF Init, TypeOK, Calls
<1>5. Driven
  BY <1>1, <1>2, <1>3 DEF Driven, Places, States
<1>6. Consistent
  BY <1>2, <1>3, Bounds DEF Consistent, Coherent, CutStates, None
<1>7. RecordNeverLost
  BY <1>1, <1>3 DEF RecordNeverLost
<1>8. CopyIsComplete
  <2>1. Held(Empty) = {}
    BY DEF Held, Empty
  <2>2. QED
    BY <1>2, <1>3, <2>1 DEF CopyIsComplete
<1>9. VersionsAsked
  BY <1>1, <1>2, <1>3 DEF VersionsAsked
<1>10. Routed
  <2>1. \A r \in Routers : router[r].state = "Planned" /\ router[r].cutover = None /\ ~observed[r]
    BY <1>2 DEF Init, RoutingOf
  <2>2. QED
    BY <1>3, <2>1 DEF Routed, DualStates, CutStates, None
<1>11. Flying
  BY DEF Init, Flying
<1>12. Kept
  <2>1. \A k \in Seeded : donor[k] # Absent
    BY BucketAssumption DEF Init, Absent, Seed
  <2>2. active.progress # 100
    BY <1>2, <1>3 DEF None
  <2>3. QED
    BY <1>1, <1>3, <2>1, <2>2 DEF Kept
<1>13. QED
  BY <1>4, <1>5, <1>6, <1>7, <1>8, <1>9, <1>10, <1>11, <1>12 DEF IInv

\* Every step keeps the invariant.
LEMMA NextInvariant == IInv /\ [Next]_vars => IInv'
<1> SUFFICES ASSUME IInv, [Next]_vars PROVE IInv'
  OBVIOUS
<1>1. CASE DriverStep
  BY <1>1, DrivePlannedStep, PhaseTimesOutStep, BeginCheckpointStep, CreateCheckpointStep,
     SaveCheckpointStep, EnterCopyingStep, StartCopyStep, CopyIntentStep, CopyBatchStep,
     CopyCursorStep, CopyEndsStep, BeginDualWritingStep, AdvanceToCatchingUpStep,
     AdvanceToFencingOldStep, AwaitCutoverStep, CutoverReadyStep, CutoverNotReadyStep,
     EnterVerifyingStep, BeginVerificationStep, ScanDonorStep, CompareEntriesStep,
     VerifyWindowFullStep, StorageFailsStep, MaybeEnterGcEligibleStep, FinishDoneStep, ScanForCleanupStep,
     DeletePageStep, EnterDoneStep, ArchivePutStep, ArchiveDeleteStep, RecoverOnStartStep
     DEF DriverStep
<1>2. CASE Crash
  BY <1>2, CrashStep
<1>3. ASSUME NEW r \in Routers,
             RefreshRouter(r) \/ ReportVersion(r) \/ PutRow(r) \/ WriterStops(r)
      PROVE  IInv'
  BY <1>3, RefreshRouterStep, ReportVersionStep, PutRowStep, WriterStopsStep
<1>4. ASSUME NEW r \in Routers, NEW k \in Keys, NEW epoch \in Epochs, BeginWrite(r, k, epoch)
      PROVE  IInv'
  BY <1>4, BeginWriteStep
<1>5. CASE AdvanceFrontier
  BY <1>5, AdvanceFrontierStep
<1>6. CASE ConsumersReport
  BY <1>6, ConsumersReportStep
<1>7. CASE UNCHANGED vars
  <2>1. UNCHANGED <<durable, driver, rows, writers, frontiers>>
    BY <1>7 DEF vars
  <2>2. TypeOK'
    BY <2>1 DEF IInv, TypeOK, durable, driver, rows, writers, frontiers
  <2>3. /\ Driven' /\ Consistent' /\ RecordNeverLost' /\ CopyIsComplete'
        /\ active' = active /\ pc' = pc /\ frontier' = frontier
    BY <2>1, DriverAside
  <2>4. VersionsAsked' /\ Routed' /\ Flying'
    BY <2>1, <2>3 DEF IInv, VersionsAsked, AllObserved, Routed, Flying, writers
  <2>5. Kept'
    BY <2>1, KeptAside DEF writers
  <2>6. QED
    BY <2>2, <2>3, <2>4, <2>5 DEF IInv
<1>8. QED
  BY <1>1, <1>2, <1>3, <1>4, <1>5, <1>6, <1>7 DEF Next

\* The inductive invariant of the migration: what the driver, the stored
\* records, the routers, the writes in flight and the rows of both shards
\* owe each other.
THEOREM MigrationInvariant == Spec => []IInv
<1>1. QED
  BY InitInvariant, NextInvariant, PTL DEF Spec

\* The types of the stored records, the driver's copy and call, the rows, the
\* routers and the writes.
THEOREM MigrationTypes == Spec => []TypeOK
<1>1. IInv => TypeOK
  BY DEF IInv
<1>2. QED
  BY <1>1, MigrationInvariant, PTL

\* A crash never finds the migration recorded nowhere: archive stores the
\* history record before it deletes the active one.
THEOREM MigrationRecordNeverLost == Spec => []RecordNeverLost
<1>1. IInv => RecordNeverLost
  BY DEF IInv
<1>2. QED
  BY <1>1, MigrationInvariant, PTL

\* copy_bounded_chunks, resumed after any number of crashes and failed PUTs,
\* passes over no row of the pinned snapshot.
THEOREM MigrationCopyIsComplete == Spec => []CopyIsComplete
<1>1. IInv => CopyIsComplete
  BY DEF IInv
<1>2. QED
  BY <1>1, MigrationInvariant, PTL

\* No row is lost: cleanup_donor_buckets deletes what the recipient holds.
THEOREM MigrationRowsSurvive == Spec => []RowsSurvive
<1>1. IInv => RowsSurvive
  <2> SUFFICES ASSUME IInv PROVE RowsSurvive
    OBVIOUS
  <2>1. CASE Deleting
    <3>1. Safe
      <4>1. CASE active = NoRecord
        BY <4>1 DEF IInv, Kept
      <4>2. CASE active # NoRecord
        BY <2>1, <4>2 DEF Deleting, IInv, Kept, Consistent, Coherent
      <4>3. QED
        BY <4>1, <4>2
    <3>2. QED
      BY <2>1, <3>1 DEF RowsSurvive, Safe
  <2>2. CASE ~Deleting
    BY <2>2 DEF RowsSurvive, IInv, Kept
  <2>3. QED
    BY <2>1, <2>2
<1>2. QED
  BY <1>1, MigrationInvariant, PTL

\* What a step may do to the stored record: nothing, announce the clean-up,
\* unlink it once it is Done, or store another that says the same of clean-up.
RecordMoves ==
    \/ active' = active
    \/ active # NoRecord /\ active' \in Record /\ active'.cleanup = active.cleanup
    \/ /\ active # NoRecord /\ active.state = "GcEligible"
       /\ active' = [active EXCEPT !.cleanup = TRUE]
    \/ active # NoRecord /\ active.state = "Done" /\ active' = NoRecord

\* A transition says nothing of the clean-up.
LEMMA TransitionMoves ==
  ASSUME IInv, Driving, NEW state \in States, NEW next, Transition(state, next)
  PROVE  RecordMoves
<1>1. rec = active /\ active \in Record /\ active # NoRecord
  BY DrivingRecord
<1>2. Moved(rec, state) \in Record /\ Moved(rec, state).cleanup = active.cleanup
  BY <1>1, MovedRecord
<1>3. active' = active \/ active' = Moved(rec, state)
  BY DEF Transition, Save, durable
<1>4. QED
  BY <1>1, <1>2, <1>3 DEF RecordMoves

\* Nor does a mark other than the clean-up's.
LEMMA MarkMoves ==
  ASSUME IInv, Driving, NEW r \in Record, r.cleanup = active.cleanup, NEW next, Save(r, next)
  PROVE  RecordMoves
<1>1. active # NoRecord
  BY DrivingRecord
<1>2. active' = active \/ active' = r
  BY DEF Save, durable
<1>3. QED
  BY <1>1, <1>2 DEF RecordMoves

\* The steps of the driver that store a mark.
LEMMA MarkingSteps ==
  ASSUME IInv,
         \/ BeginCheckpoint \/ SaveCheckpoint \/ CopyIntent \/ CopyCursor
         \/ CutoverReady \/ BeginVerification \/ CompareEntries \/ FinishDone
  PROVE  RecordMoves
<1>1. Driving
  BY DEF BeginCheckpoint, SaveCheckpoint, CopyIntent, CopyCursor, CutoverReady,
         BeginVerification, CompareEntries, FinishDone, Resumes, Driving
<1>2. rec = active /\ active \in Record /\ active # NoRecord /\ active.cursor \in Nat
  BY <1>1, DrivingRecord, RecordFields
<1>3. CASE BeginCheckpoint
  <2> DEFINE r == [rec EXCEPT !.pinning = TRUE]
  <2>1. r \in Record
    BY <1>2, MarkedRecord
  <2>2. r.cleanup = active.cleanup
    BY <1>2 DEF Record
  <2>3. active' = active \/ Save(r, "pinning")
    BY <1>2, <1>3 DEF BeginCheckpoint, Save, durable
  <2> HIDE DEF r
  <2>4. QED
    BY <1>1, <2>1, <2>2, <2>3, MarkMoves DEF RecordMoves
<1>4. CASE SaveCheckpoint
  <2> DEFINE r == [rec EXCEPT !.pinning = FALSE, !.pinned = TRUE, !.snapshot = handle]
  <2>1. r \in Record
    BY <1>2, MarkedRecord DEF IInv, TypeOK
  <2>2. r.cleanup = active.cleanup
    BY <1>2 DEF Record
  <2>3. Save(r, "pinned")
    BY <1>4 DEF SaveCheckpoint
  <2> HIDE DEF r
  <2>4. QED
    BY <1>1, <2>1, <2>2, <2>3, MarkMoves
<1>5. CASE CopyIntent
  <2> DEFINE r == [rec EXCEPT !.copying = TRUE]
  <2>1. r \in Record
    BY <1>2, MarkedRecord
  <2>2. r.cleanup = active.cleanup
    BY <1>2 DEF Record
  <2>3. Save(r, "batch")
    BY <1>5 DEF CopyIntent
  <2> HIDE DEF r
  <2>4. QED
    BY <1>1, <2>1, <2>2, <2>3, MarkMoves
<1>6. CASE CopyCursor
  <2> DEFINE r == [rec EXCEPT !.copying = FALSE, !.cursor = @ + 1]
  <2>1. active.cursor < Cardinality(Held(active.snapshot))
    BY <1>1, <1>2, <1>6 DEF CopyCursor, IInv, Driven, Driving
  <2>2. active.cursor + 1 <= Cardinality(Keys)
    BY <1>2, <2>1, HeldCount, Bounds
  <2>3. r \in Record
    BY <1>2, <2>2, MarkedRecord
  <2>4. r.cleanup = active.cleanup
    BY <1>2 DEF Record
  <2>5. Save(r, "page")
    BY <1>6 DEF CopyCursor
  <2> HIDE DEF r
  <2>6. QED
    BY <1>1, <2>3, <2>4, <2>5, MarkMoves
<1>7. CASE CutoverReady
  <2> DEFINE r == [rec EXCEPT !.cutover = committed]
  <2>1. r \in Record
    BY <1>2, MarkedRecord DEF IInv, TypeOK
  <2>2. r.cleanup = active.cleanup
    BY <1>2 DEF Record
  <2>3. Save(r, "ready")
    BY <1>7 DEF CutoverReady
  <2> HIDE DEF r
  <2>4. QED
    BY <1>1, <2>1, <2>2, <2>3, MarkMoves
<1>8. CASE BeginVerification
  <2> DEFINE r == [rec EXCEPT !.progress = 0]
  <2>1. r \in Record
    BY <1>2, MarkedRecord
  <2>2. r.cleanup = active.cleanup
    BY <1>2 DEF Record
  <2>3. Save(r, "scan")
    BY <1>8 DEF BeginVerification
  <2> HIDE DEF r
  <2>4. QED
    BY <1>1, <2>1, <2>2, <2>3, MarkMoves
<1>9. CASE CompareEntries
  <2> DEFINE r == [rec EXCEPT !.progress = 100]
  <2>1. r \in Record
    BY <1>2, MarkedRecord
  <2>2. r.cleanup = active.cleanup
    BY <1>2 DEF Record
  <2>3. Save(r, "verified") \/ Transition("DualWriting", "idle")
    BY <1>9 DEF CompareEntries
  <2>4. "DualWriting" \in States
    BY DEF States
  <2> HIDE DEF r
  <2>5. QED
    BY <1>1, <2>1, <2>2, <2>3, <2>4, MarkMoves, TransitionMoves
<1>10. CASE FinishDone
  BY <1>2, <1>10 DEF FinishDone, Resumes, Save, durable, RecordMoves
<1>11. QED
  BY <1>3, <1>4, <1>5, <1>6, <1>7, <1>8, <1>9, <1>10

\* The steps of the driver that move the record to another state.
LEMMA MovingSteps ==
  ASSUME IInv,
         \/ DrivePlanned \/ PhaseTimesOut \/ EnterCopying \/ BeginDualWriting
         \/ AdvanceToCatchingUp \/ AdvanceToFencingOld \/ AwaitCutover \/ CutoverNotReady
         \/ EnterVerifying \/ MaybeEnterGcEligible \/ EnterDone
  PROVE  RecordMoves
<1>1. Driving
  BY DEF DrivePlanned, PhaseTimesOut, TimedPhases, EnterCopying, BeginDualWriting,
         AdvanceToCatchingUp, AdvanceToFencingOld, AwaitCutover, CutoverNotReady,
         EnterVerifying, MaybeEnterGcEligible, EnterDone, Resumes, Driving
<1>2. active' = active \/ \E state \in States, next \in Calls : Transition(state, next)
  BY DEF DrivePlanned, PhaseTimesOut, EnterCopying, BeginDualWriting,
         AdvanceToCatchingUp, AdvanceToFencingOld, AwaitCutover, CutoverNotReady,
         EnterVerifying, MaybeEnterGcEligible, EnterDone, States, Calls, durable
<1>3. QED
  BY <1>1, <1>2, TransitionMoves DEF RecordMoves

\* Every step does one of these to the stored record.
LEMMA RecordStep == IInv /\ [Next]_vars => RecordMoves
<1> SUFFICES ASSUME IInv, [Next]_vars PROVE RecordMoves
  OBVIOUS
<1>1. CASE \/ BeginCheckpoint \/ SaveCheckpoint \/ CopyIntent \/ CopyCursor
           \/ CutoverReady \/ BeginVerification \/ CompareEntries \/ FinishDone
  BY <1>1, MarkingSteps
<1>2. CASE \/ DrivePlanned \/ PhaseTimesOut \/ EnterCopying \/ BeginDualWriting
           \/ AdvanceToCatchingUp \/ AdvanceToFencingOld \/ AwaitCutover \/ CutoverNotReady
           \/ EnterVerifying \/ MaybeEnterGcEligible \/ EnterDone
  BY <1>2, MovingSteps
<1>3. CASE \/ CreateCheckpoint \/ StartCopy \/ CopyBatch \/ CopyEnds \/ ScanDonor
           \/ VerifyWindowFull \/ StorageFails \/ ScanForCleanup \/ DeletePage \/ RecoverOnStart \/ ArchivePut
  BY <1>3 DEF CreateCheckpoint, StartCopy, CopyBatch, CopyEnds, ScanDonor, VerifyWindowFull,
              StorageFails, ScanForCleanup, DeletePage, RecoverOnStart, ArchivePut, durable, RecordMoves
<1>4. CASE ArchiveDelete
  <2>1. Driving
    BY <1>4 DEF ArchiveDelete, Driving
  <2>2. active # NoRecord /\ active.state = "Done"
    BY <1>4, <2>1, PlaceOf, DrivingRecord DEF ArchiveDelete
  <2>3. QED
    BY <1>4, <2>2 DEF ArchiveDelete, RecordMoves
<1>5. CASE Crash \/ AdvanceFrontier \/ ConsumersReport \/ UNCHANGED vars
  BY <1>5 DEF Crash, AdvanceFrontier, ConsumersReport, vars, durable, RecordMoves
<1>6. ASSUME NEW r \in Routers,
             \/ RefreshRouter(r) \/ ReportVersion(r) \/ PutRow(r) \/ WriterStops(r)
             \/ \E k \in Keys, epoch \in Epochs : BeginWrite(r, k, epoch)
      PROVE  RecordMoves
  BY <1>6 DEF RefreshRouter, ReportVersion, PutRow, WriterStops, BeginWrite, durable, RecordMoves
<1>7. QED
  BY <1>1, <1>2, <1>3, <1>4, <1>5, <1>6 DEF Next, DriverStep

\* The stored record implements BucketOwnership: retries from older copies,
\* rollbacks and replays move authority only while the migration is open, and
\* it closes with the recipient's.
THEOREM MigrationImplementsOwnership == Spec => ImplementsOwnership
<1>1. Init => Ownership!Init
  <2> SUFFICES ASSUME Init PROVE Ownership!Init
    OBVIOUS
  <2>1. active.state = "Planned" /\ active.cleanup = FALSE /\ active # NoRecord
    BY NoRecordState DEF Init, NewRecord
  <2>2. Deleting = FALSE
    BY <2>1 DEF Deleting
  <2>3. QED
    BY <2>1, <2>2 DEF Ownership!Init, Authority, CutStates
<1>2. IInv /\ IInv' /\ [Next]_vars => [Ownership!Next]_(Ownership!vars)
  <2> SUFFICES ASSUME IInv, IInv', RecordMoves PROVE [Ownership!Next]_(Ownership!vars)
    BY RecordStep
  <2>1. CASE active' = active
    BY <2>1 DEF Ownership!vars, Authority, Deleting
  <2>2. CASE active # NoRecord /\ active' \in Record /\ active'.cleanup = active.cleanup
    <3>1. active' # NoRecord /\ active.cleanup \in BOOLEAN
      BY <2>2, RecordFields
    <3>2. Deleting = active.cleanup /\ Deleting' = active.cleanup
      BY <2>2, <3>1 DEF Deleting
    <3>3. CASE active.cleanup
      <4>1. active.state \in CutStates /\ active'.state \in CutStates
        BY <2>2, <3>1, <3>3 DEF IInv, Consistent, Coherent, CutStates
      <4>2. QED
        BY <3>2, <4>1 DEF Ownership!vars, Authority
    <3>4. CASE ~active.cleanup
      BY <3>2, <3>4 DEF Ownership!vars, Ownership!Next, Ownership!HandOver, Ownership!TakeBack, Authority
    <3>5. QED
      BY <3>3, <3>4
  <2>3. CASE /\ active # NoRecord /\ active.state = "GcEligible"
             /\ active' = [active EXCEPT !.cleanup = TRUE]
    <3>1. active \in Record /\ active.cleanup \in BOOLEAN
      BY <2>3, RecordFields DEF IInv, TypeOK
    <3>2. active'.state = "GcEligible" /\ active'.cleanup = TRUE
      BY <2>3, <3>1 DEF Record
    <3>3. Deleting' = TRUE /\ Deleting = active.cleanup
      BY <2>3, <3>1, <3>2 DEF Deleting
    <3>4. Authority(active) = "recipient" /\ Authority(active)' = "recipient"
      BY <2>3, <3>2 DEF Authority, CutStates
    <3>5. QED
      BY <3>1, <3>3, <3>4 DEF Ownership!vars, Ownership!Next, Ownership!Close
  <2>4. CASE active # NoRecord /\ active.state = "Done" /\ active' = NoRecord
    <3>1. active.cleanup /\ active.cleanup \in BOOLEAN
      BY <2>4, RecordFields DEF IInv, TypeOK, Consistent, Coherent
    <3>2. Deleting = TRUE /\ Deleting' = TRUE
      BY <2>4, <3>1 DEF Deleting
    <3>3. QED
      BY <2>4, <3>2, NoRecordState DEF Ownership!vars, Authority, CutStates
  <2>5. QED
    BY <2>1, <2>2, <2>3, <2>4 DEF RecordMoves
<1>3. QED
  BY <1>1, <1>2, MigrationInvariant, PTL DEF Spec, ImplementsOwnership, Ownership!Spec
=============================================================================
