-------------------------- MODULE IncrementalJoin --------------------------
(***************************************************************************)
(* The two-input operators of compiled views (JoinOp, OuterJoinOp) and the *)
(* commits a JoinPipeline takes part in: an epoch's two deltas are turned  *)
(* into the change of the view and into changes of the operator's memory,  *)
(* the change of the view and of the operator's state go into one batch    *)
(* with the tables' rows, and whoever fails or crashes on the way restores *)
(* the operator from the state in the store.                               *)
(*                                                                         *)
(* A row is a pair of its join key and a number that stands for its other  *)
(* columns; NullKey is a key with a NULL column.  Z-sets are functions     *)
(* from rows to weights and a delta stands for the list of signed rows     *)
(* that sums up to it.                                                     *)
(***************************************************************************)
EXTENDS Integers, FiniteSets, FiniteSetsExt, Functions

CONSTANTS
    Kinds,      \* the operators to explore
    Rows,       \* <<key, number>>, the rows either side may have
    MaxCopies,  \* how often a side may have a row, a function of side and row
    MaxChanges  \* the rows an epoch changes at most

\* NullKey is no key and Pad the side of an output row that is all NULL.
NullKey == 0
Pad == <<0, 0>>

ASSUME RowsAssumption ==
    /\ IsFiniteSet(Rows) /\ \A r \in Rows : r[1] \in Nat /\ r[2] \in Nat \ {0}
    /\ MaxCopies \in [{"left", "right"} -> [Rows -> Nat]] /\ MaxChanges \in Nat
ASSUME KindsAssumption ==
    Kinds \subseteq {"inner", "left", "right", "full", "semi", "anti", "nullAware"}

VARIABLES
    kind,   \* the operator: JoinOp or the OuterJoinKind
    table,  \* the committed rows of the two sources
    out,    \* the view's committed output, summed up
    mem,    \* the operator's memory
    db,     \* the operator's committed state
    batch,  \* the epoch under way: the tables, output and state it writes
    phase,  \* of the commit
    lost    \* the operator went on from a state the store does not hold in full

joinVars == <<kind, table, out, mem, db, batch, phase, lost>>

Sides == {"left", "right"}
Opposite(s) == IF s = "left" THEN "right" ELSE "left"
OutRows == (Rows \cup {Pad}) \X (Rows \cup {Pad})

-----------------------------------------------------------------------------
(* Keys and arrangements *)

\* A row without a NULL in its key shares its key's bucket with the rows of
\* both sides; any other row has a bucket of its own on its own side.
Bucket(s, r) == IF r[1] = NullKey THEN <<s, r[1], r[2]>> ELSE <<"key", r[1], 0>>
Buckets == {Bucket(s, r) : s \in Sides, r \in Rows}
InBucket(s, b) == {r \in Rows : Bucket(s, r) = b}
NullRows == {r \in Rows : r[1] = NullKey}

\* The staged rows of an epoch, net, and what the operators sum them up to: the
\* weight that comes to each bucket (delta_lw, delta_rw), to the right side and
\* to its rows with a NULL key.
Delta(d) ==
    [rows |-> d,
     key |-> [s \in Sides |-> [b \in Buckets |-> SumFunctionOnSet(d[s], InBucket(s, b))]],
     total |-> SumFunctionOnSet(d["right"], Rows),
     nulls |-> SumFunctionOnSet(d["right"], NullRows)]

\* The sides whose weight per key the operator keeps.
Tracked(k) ==
    CASE k = "inner" -> {}
      [] k = "right" -> {"left"}
      [] k = "full" -> Sides
      [] OTHER -> {"right"}

\* JoinOp passes over rows with a NULL key.
Arranged(k, r) == k = "inner" => r[1] # NullKey

Empty ==
    [arr |-> [s \in Sides |-> [r \in Rows |-> 0]],
     weight |-> [s \in Sides |-> [b \in Buckets |-> 0]],
     total |-> 0, nulls |-> 0,
     dirty |-> [s \in Sides |-> {}],
     lazy |-> FALSE,
     loaded |-> [s \in Sides |-> {}]]

\* set_db has a JoinOp load its rows key by key, for process_async.
Unrestored == [Empty EXCEPT !.lazy = kind = "inner"]

\* What the store holds for an operator without state: it has which rows are
\* there, not how often.
Nothing ==
    [rows |-> [s \in Sides |-> {}], weight |-> Empty.weight, total |-> 0, nulls |-> 0]

-----------------------------------------------------------------------------
(* The change of the view, from the arrangements before the epoch *)

Matches(l, r) == Bucket("left", l) = Bucket("right", r)

ProbeRight(m, d, l, r) == d.rows["left"][l] * m.arr["right"][r]
ProbeLeft(m, d, l, r) == m.arr["left"][l] * d.rows["right"][r]
Correction(d, l, r) == d.rows["left"][l] * d.rows["right"][r]

\* delta L with R0, L0 with delta R and delta L with delta R.
JoinPairs(m, d, l, r) ==
    IF Matches(l, r)
    THEN ProbeRight(m, d, l, r) + ProbeLeft(m, d, l, r) + Correction(d, l, r)
    ELSE 0

\* The weight of the opposite side's rows in r's bucket before and after.
Old(m, s, r) == m.weight[Opposite(s)][Bucket(s, r)]
Effective(m, d, s, r) == Old(m, s, r) + d.key[Opposite(s)][Bucket(s, r)]

\* A mutant of the next definition: rows of this epoch are padded by the
\* matches before it.
PaddedByTheOldMatches(m, d, s, r) == IF Old(m, s, r) = 0 THEN d.rows[s][r] ELSE 0

\* A row of this epoch's delta is padded when it has no match after it.
NewUnmatched(m, d, s, r) == IF Effective(m, d, s, r) = 0 THEN d.rows[s][r] ELSE 0

\* Rows from before lose their padding with their first match and regain it
\* with the loss of the last one.
Transition(m, d, s, r) ==
    LET old == Old(m, s, r)
        new == Effective(m, d, s, r)
    IN  IF (old = 0) = (new = 0) THEN 0
        ELSE IF old = 0 THEN -m.arr[s][r] ELSE m.arr[s][r]

Unmatched(m, d, s, r) == Transition(m, d, s, r) + NewUnmatched(m, d, s, r)

LeftPads(m, d, p) == IF p[1] # Pad /\ p[2] = Pad THEN Unmatched(m, d, "left", p[1]) ELSE 0
RightPads(m, d, p) == IF p[1] = Pad /\ p[2] # Pad THEN Unmatched(m, d, "right", p[2]) ELSE 0
Inner(m, d, p) == IF p[1] # Pad /\ p[2] # Pad THEN JoinPairs(m, d, p[1], p[2]) ELSE 0

process_epoch_left(m, d) == [p \in OutRows |-> Inner(m, d, p) + LeftPads(m, d, p)]
process_epoch_right(m, d) == [p \in OutRows |-> Inner(m, d, p) + RightPads(m, d, p)]
process_epoch_full(m, d) ==
    [p \in OutRows |-> Inner(m, d, p) + LeftPads(m, d, p) + RightPads(m, d, p)]

\* The output of a semi, anti or null-aware anti join has the left columns.
LeftOnly(weight(_)) ==
    [p \in OutRows |-> IF p[1] # Pad /\ p[2] = Pad THEN weight(p[1]) ELSE 0]

process_epoch_semi(m, d) ==
    LeftOnly(LAMBDA l :
        -Transition(m, d, "left", l)
        + (IF Effective(m, d, "left", l) # 0 THEN d.rows["left"][l] ELSE 0))

process_epoch_anti(m, d) == LeftOnly(LAMBDA l : Unmatched(m, d, "left", l))

\* NOT IN: a NULL on the right hides every row, an empty right shows even the
\* rows with a NULL key.
process_epoch_null_aware_anti(m, d) ==
    LET oldNull == m.nulls > 0
        newNull == m.nulls + d.nulls > 0
        oldEmpty == m.total = 0
        newEmpty == m.total + d.total = 0
        Visible(l, null, empty, matches) ==
            IF l[1] = NullKey THEN empty ELSE ~null /\ matches = 0
        Was(l) == Visible(l, oldNull, oldEmpty, Old(m, "left", l))
        Now(l) == Visible(l, newNull, newEmpty, Effective(m, d, "left", l))
        Rescanned(l) ==
            IF Was(l) = Now(l) THEN 0
            ELSE IF Now(l) THEN m.arr["left"][l] ELSE -m.arr["left"][l]
        OldRows(l) ==
            IF oldNull # newNull \/ oldEmpty # newEmpty THEN Rescanned(l)
            ELSE IF oldNull \/ l[1] = NullKey THEN 0
            ELSE Transition(m, d, "left", l)
        NewRows(l) ==
            IF /\ ~newNull
               /\ IF l[1] = NullKey THEN newEmpty ELSE Effective(m, d, "left", l) = 0
            THEN d.rows["left"][l] ELSE 0
    IN  LeftOnly(LAMBDA l : OldRows(l) + NewRows(l))

process_epoch(k, m, d) ==
    CASE k = "inner" -> [p \in OutRows |-> Inner(m, d, p)]
      [] k = "left" -> process_epoch_left(m, d)
      [] k = "right" -> process_epoch_right(m, d)
      [] k = "full" -> process_epoch_full(m, d)
      [] k = "semi" -> process_epoch_semi(m, d)
      [] k = "anti" -> process_epoch_anti(m, d)
      [] k = "nullAware" -> process_epoch_null_aware_anti(m, d)

-----------------------------------------------------------------------------
(* The operator's memory and its state in the store *)

\* commit_epoch and commit_staged: the staged rows go into the arrangements
\* and the weights per key, and are marked for append_state.
commit_staged(k, m, d) ==
    [m EXCEPT
       !.arr = [s \in Sides |-> [r \in Rows |->
                   @[s][r] + IF Arranged(k, r) THEN d.rows[s][r] ELSE 0]],
       !.weight = [s \in Sides |-> [b \in Buckets |->
                   @[s][b] + IF s \in Tracked(k) THEN d.key[s][b] ELSE 0]],
       !.total = @ + IF k = "nullAware" THEN d.total ELSE 0,
       !.nulls = @ + IF k = "nullAware" THEN d.nulls ELSE 0,
       !.dirty = [s \in Sides |->
                   @[s] \cup {r \in Rows : Arranged(k, r) /\ d.rows[s][r] # 0}]]

\* The keys process_epoch_with_storage looks up on side s: those of the other
\* side's delta.
KeysToLoad(m, d, s) ==
    {Bucket(Opposite(s), r) : r \in {q \in Rows : q[1] # NullKey /\ d.rows[Opposite(s)][q] # 0}}
        \ m.loaded[s]

\* The rows ensure_arrangement_key_loaded takes from the store, each with
\* weight one: those not in memory and not changed since they were stored.
RowsToLoad(m, d, s) ==
    {r \in db.rows[s] : /\ Bucket(s, r) \in KeysToLoad(m, d, s)
                        /\ r \notin m.dirty[s] /\ m.arr[s][r] = 0}

load_arrangement_keys(m, d) ==
    IF ~m.lazy THEN m
    ELSE [m EXCEPT
            !.arr = [s \in Sides |-> [r \in Rows |->
                        IF r \in RowsToLoad(m, d, s) THEN 1 ELSE @[s][r]]],
            !.loaded = [s \in Sides |-> @[s] \cup KeysToLoad(m, d, s)]]

\* A row that was touched is put, without its weight, or deleted.
StoredRows(m, s) == (db.rows[s] \ m.dirty[s]) \cup {r \in m.dirty[s] : m.arr[s][r] > 0}

\* The state append_state adds to the batch.
append_state(k, m) ==
    [rows |-> [s \in Sides |-> StoredRows(m, s)],
     weight |-> [s \in Sides |-> [b \in Buckets |->
         IF s \in Tracked(k) /\ \E r \in m.dirty[s] : Bucket(s, r) = b
         THEN m.weight[s][b] ELSE db.weight[s][b]]],
     total |-> m.total,
     nulls |-> IF m.total > 0 THEN m.nulls ELSE 0]

\* load_from_storage: every stored row comes back with weight one.  The marks
\* for append_state are not touched.
restore_in_place(m) ==
    [m EXCEPT
       !.arr = [s \in Sides |-> [r \in Rows |-> IF r \in db.rows[s] THEN 1 ELSE 0]],
       !.weight = db.weight, !.total = db.total, !.nulls = db.nulls,
       !.lazy = FALSE, !.loaded = Empty.loaded]

\* A row the store knows once and the table has several times, on a side whose
\* rows the operator multiplies: the others go by the right side's weights only.
Repeated(s, r) ==
    /\ s = "left" \/ kind \in {"inner", "left", "right", "full"}
    /\ r \in db.rows[s] /\ table[s][r] > 1

\* process_epoch_with_storage does not load the key of the delta's own side: a
\* change of a stored row starts from weight zero.
ChangesUnloaded(m, d) ==
    m.lazy /\ \E s \in Sides, r \in Rows :
        d.rows[s][r] # 0 /\ r \in db.rows[s] /\ m.arr[s][r] = 0

-----------------------------------------------------------------------------
SideContents(s) ==
    {c \in [Rows -> UNION {0..MaxCopies[s][r] : r \in Rows}] :
        \A r \in Rows : c[r] <= MaxCopies[s][r]}
Contents ==
    {[s \in Sides |-> IF s = "left" THEN l ELSE r] :
        l \in SideContents("left"), r \in SideContents("right")}
Changed(contents) == {x \in Sides \X Rows : contents[x[1]][x[2]] # table[x[1]][x[2]]}

\* The deltas that lead from the tables to other contents.
Deltas ==
    {Delta([s \in Sides |-> [r \in Rows |-> contents[s][r] - table[s][r]]]) :
        contents \in {c \in Contents : Cardinality(Changed(c)) \in 1..MaxChanges}}

NoBatch == [table |-> Empty.arr, out |-> [p \in OutRows |-> 0], state |-> Nothing]

JoinInit ==
    /\ kind \in Kinds
    /\ table = Empty.arr /\ out = NoBatch.out
    /\ mem \in {Empty, Unrestored} /\ db = Nothing /\ batch = NoBatch
    /\ phase = "idle" /\ lost = FALSE

\* JoinPipeline::process (or process_async where the operator was not restored)
\* computes the change of the view and takes the deltas into the arrangements.
Process(d) ==
    LET m == load_arrangement_keys(mem, d)
        change == process_epoch(kind, m, d)
    IN  /\ mem' = commit_staged(kind, m, d)
        /\ batch' = [table |-> [s \in Sides |-> [r \in Rows |-> table[s][r] + d.rows[s][r]]],
                     out |-> [p \in OutRows |-> out[p] + change[p]],
                     state |-> Nothing]
        /\ lost' = \/ ChangesUnloaded(m, d)
                   \/ mem.lazy /\ \E s \in Sides : \E r \in RowsToLoad(mem, d, s) : Repeated(s, r)
        /\ phase' = "processed"
        /\ UNCHANGED <<kind, table, out, db>>

\* A commit changes one table or both.  The model follows an operator up to
\* the first loss.
Commit ==
    /\ phase = "idle" /\ ~lost
    /\ \E d \in Deltas : Process(d)

\* append_next_epoch cannot read the view's last epoch.
OutputFails ==
    /\ phase = "processed"
    /\ phase' = "pending"
    /\ UNCHANGED <<kind, table, out, mem, db, batch, lost>>

\* The changed state joins the batch and the marks are cleared, before the
\* batch is written.
AppendState ==
    /\ phase = "processed"
    /\ batch' = [batch EXCEPT !.state = append_state(kind, mem)]
    /\ mem' = [mem EXCEPT !.dirty = Empty.dirty]
    /\ phase' = "writing"
    /\ UNCHANGED <<kind, table, out, db, lost>>

\* The batch becomes durable as a whole, and the commit may fail all the same.
WriteLands(reported) ==
    /\ phase = "writing"
    /\ table' = batch.table /\ out' = batch.out /\ db' = batch.state
    /\ batch' = NoBatch
    /\ phase' = IF reported THEN "idle" ELSE "pending"
    /\ UNCHANGED <<kind, mem, lost>>

WriteFails ==
    /\ phase = "writing"
    /\ phase' = "pending" /\ batch' = NoBatch
    /\ UNCHANGED <<kind, table, out, mem, db, lost>>

\* rollback_compiled_views or recover_compiled_views, before anything else is
\* read or committed.
Restore ==
    /\ phase \in {"pending", "restarted"}
    /\ mem' = restore_in_place(mem)
    /\ lost' = (lost \/ \E s \in Sides, r \in Rows : Repeated(s, r))
    /\ batch' = NoBatch /\ phase' = "idle"
    /\ UNCHANGED <<kind, table, out, db>>

\* A process that feeds JoinPipeline::process_async goes on without a restore.
OpenUnrestored ==
    /\ phase = "restarted" /\ kind = "inner"
    /\ phase' = "idle"
    /\ UNCHANGED <<kind, table, out, mem, db, batch, lost>>

\* The process stops; the next one compiles the view anew (set_db).
JoinCrash ==
    /\ phase # "restarted"
    /\ mem' = Unrestored
    /\ batch' = NoBatch /\ phase' = "restarted"
    /\ UNCHANGED <<kind, table, out, db, lost>>

JoinNext ==
    \/ Commit
    \/ OutputFails
    \/ AppendState
    \/ \E reported \in BOOLEAN : WriteLands(reported)
    \/ WriteFails
    \/ Restore
    \/ OpenUnrestored
    \/ JoinCrash

JoinSpec == JoinInit /\ [][JoinNext]_joinVars

-----------------------------------------------------------------------------
(* What SQL says the view holds *)

HasMatch(t, s, r) ==
    r[1] # NullKey /\ \E q \in Rows : q[1] = r[1] /\ t[Opposite(s)][q] > 0

SqlPairs(t, p) == IF p[1][1] = p[2][1] /\ p[1][1] # NullKey
                  THEN t["left"][p[1]] * t["right"][p[2]] ELSE 0

SqlNotIn(t, l) ==
    \A q \in Rows : t["right"][q] > 0 => NullKey \notin {l[1], q[1]} /\ l[1] # q[1]

\* The left rows that appear without a partner.
SqlLeftAlone(k, t, l) ==
    CASE k \in {"left", "full", "anti"} -> ~HasMatch(t, "left", l)
      [] k = "semi" -> HasMatch(t, "left", l)
      [] k = "nullAware" -> SqlNotIn(t, l)
      [] OTHER -> FALSE

SqlJoin(k, t) ==
    [p \in OutRows |->
       CASE p[1] # Pad /\ p[2] # Pad ->
              IF k \in {"inner", "left", "right", "full"} THEN SqlPairs(t, p) ELSE 0
         [] p[1] # Pad /\ p[2] = Pad ->
              IF SqlLeftAlone(k, t, p[1]) THEN t["left"][p[1]] ELSE 0
         [] p[1] = Pad /\ p[2] # Pad ->
              IF k \in {"right", "full"} /\ ~HasMatch(t, "right", p[2])
              THEN t["right"][p[2]] ELSE 0
         [] OTHER -> 0]

\* The sum of the changes of all epochs is the join of the tables as they
\* stand, for every kind of join, whichever epochs changed one side or both,
\* failed before or after their batch became durable, or were cut off by a
\* crash; unless the operator was restored while a table it multiplies had a
\* row twice, or changed a stored row it had not loaded (JoinOp, OuterJoinOp).
ViewIsTheJoin == ~lost => out = SqlJoin(kind, table)
=============================================================================
