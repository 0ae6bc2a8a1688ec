--------------------------- MODULE BucketMigration ---------------------------
(***************************************************************************)
(* The migration of a bucket from a donor to a recipient shard:            *)
(* MigrationCoordinator and MigrationPersistentStore                       *)
(* (rockstream-control/src/migration.rs), MigrationRecord                  *)
(* (rockstream-types/src/migration.rs) and DualWriteRouter                 *)
(* (rockstream-runtime/src/migration.rs).                                  *)
(*                                                                         *)
(* A driver calls the coordinator's methods in the order of the states.    *)
(* Every method writes the record to the object store before the effect it *)
(* announces and after the one it completes; the driver keeps a copy in    *)
(* memory, loses it in a crash, and goes on from the stored record.        *)
(* Meanwhile routers, each with a copy of the record of its own age, write *)
(* rows of the bucket to the donor, to the recipient or to both.           *)
(*                                                                         *)
(* The rows are the model's keys, in the order of a scan, one row to a     *)
(* page; a key is written at most once on top of its seed.                 *)
(***************************************************************************)
EXTENDS Integers, Sequences, FiniteSets

CONSTANTS
    Keys,            \* the keys of the migrating bucket, numbers in scan order
    Seeded,          \* the keys the donor holds at the start
    Routers,         \* the components that write through a router
    PlannedFrontier, \* planned_frontier, and migration_epoch
    Setups,          \* what instances start from: how many rows a verification
                     \* may scan, and who has reported an older map version
    MaxEpoch,        \* bound: epochs
    MaxFaults,       \* bound: failed PUTs, scans and half-done writes
    MaxCrashes       \* bound: crashes of the control process

ASSUME BucketAssumption ==
    /\ Keys \subseteq Nat /\ IsFiniteSet(Keys) /\ Seeded \subseteq Keys
    /\ MaxEpoch \in Nat /\ PlannedFrontier \in 0..MaxEpoch
    /\ MaxFaults \in Nat /\ MaxCrashes \in Nat
    /\ Setups \subseteq [window : Nat, older : SUBSET Routers]

None == -1
Absent == 0
Seed == 1
New == 2

Epochs == 0..MaxEpoch
Contents == [Keys -> {Absent, Seed, New}]
Empty == [k \in Keys |-> Absent]

States == {"Planned", "Snapshotting", "Copying", "DualWriting", "CatchingUp",
           "FencingOld", "Cutover", "Verifying", "GcEligible", "Done", "Aborted"}

\* What the record says of the migration; its counters and frontiers are for
\* display.  `snapshot` is what the pinned checkpoint holds.
Record == [state : States, pinning : BOOLEAN, pinned : BOOLEAN,
           snapshot : Contents, copying : BOOLEAN, cursor : 0..Cardinality(Keys),
           cutover : Epochs \cup {None}, progress : {None, 0, 100},
           cleanup : BOOLEAN]

NoRecord == [state |-> "none"]

\* What a router reads of the record it was built from.
RoutingOf(r) == [state |-> r.state, cutover |-> r.cutover]

NewRecord ==
    [state |-> "Planned", pinning |-> FALSE, pinned |-> FALSE,
     snapshot |-> Empty, copying |-> FALSE, cursor |-> 0, cutover |-> None,
     progress |-> None, cleanup |-> FALSE]

VARIABLES
    active,    \* the record stored under active/
    history,   \* the record stored under history/
    rec,       \* the driver's copy
    pc,        \* where the driver is
    handle,    \* what the checkpoint just created holds
    seen,      \* what the scan under way has read of the donor
    committed, \* the frontier await_cutover_readiness was called with
    donor, recipient, \* the rows of the shards
    router,    \* router[r]: what the router's record says
    observed,  \* observed[r]: r has reported the target map version
    write,     \* write[r]: the write under way
    issued,    \* keys somebody has begun to write
    acked,     \* keys whose write was acknowledged
    stray,     \* some write reached one shard only, and no snapshot has it
    frontier,  \* the epoch below which every write is finished
    consumer,  \* the least frontier the consumers have reported
    setup,     \* the setup of this run
    faults, crashes

durable == <<active, history>>
driver == <<rec, pc, handle, seen, committed>>
rows == <<donor, recipient>>
writers == <<router, observed, write, issued, acked, stray>>
frontiers == <<frontier, consumer, setup>>
vars == <<durable, driver, rows, writers, frontiers, faults, crashes>>

NoWrite == [key |-> 0, epoch |-> 0, targets |-> <<>>]

Calls == {"idle", "snapshotting", "pinning", "created", "pinned", "copying",
          "page", "batch", "cursor", "copied", "observing", "ready", "verify",
          "scan", "compare", "verified", "cleaning", "deleting", "archive",
          "unlink", "closed", "down"}

Init ==
    /\ active = NewRecord /\ history = NoRecord
    /\ rec = NewRecord /\ pc = "idle"
    /\ handle = Empty /\ seen = Empty /\ committed = 0
    /\ donor = [k \in Keys |-> IF k \in Seeded THEN Seed ELSE Absent]
    /\ recipient = Empty
    /\ router = [r \in Routers |-> RoutingOf(NewRecord)]
    /\ observed = [r \in Routers |-> FALSE]
    /\ write = [r \in Routers |-> NoWrite]
    /\ issued = {} /\ acked = {} /\ stray = FALSE
    /\ frontier = 0 /\ consumer = 0
    /\ setup \in Setups
    /\ faults = 0 /\ crashes = 0

-----------------------------------------------------------------------------
(* The record and its store. *)

\* MigrationRecord::can_transition_to.
Successors ==
    [s \in States |->
        CASE s = "Planned"      -> {"Snapshotting", "Aborted"}
          [] s = "Snapshotting" -> {"Copying", "Aborted"}
          [] s = "Copying"      -> {"DualWriting", "Aborted"}
          [] s = "DualWriting"  -> {"CatchingUp", "Aborted"}
          [] s = "CatchingUp"   -> {"FencingOld", "Aborted"}
          [] s = "FencingOld"   -> {"Cutover", "Aborted"}
          [] s = "Cutover"      -> {"Verifying", "Aborted"}
          [] s = "Verifying"    -> {"DualWriting", "GcEligible", "Aborted"}
          [] s = "GcEligible"   -> {"Done", "Aborted"}
          [] OTHER              -> {}]

CanTransition(r, next) == next = r.state \/ next \in Successors[r.state]

\* apply_transition.  Entering Cutover sets an epoch if there is none.
Moved(r, next) ==
    [r EXCEPT !.state = next,
              !.cutover = IF next = "Cutover" /\ r.state # next /\ @ = None
                          THEN PlannedFrontier ELSE @]

\* MigrationPersistentStore::save and save_record.  The call fails with the
\* PUT, and the driver keeps its copy.  (A PUT that lands although the driver
\* never learns of it is a crash right after the PUT.)
Save(r, next) ==
    \/ /\ active' = r /\ rec' = r /\ pc' = next
       /\ UNCHANGED <<history, faults>>
    \/ /\ faults < MaxFaults /\ faults' = faults + 1
       /\ pc' = "idle"
       /\ UNCHANGED <<durable, rec>>

\* MigrationPersistentStore::transition and transition_record_durable.
Transition(state, next) ==
    /\ CanTransition(rec, state)
    /\ Save(Moved(rec, state), next)

\* What the driver does next when no call is under way.
Resumes(states) == pc = "idle" /\ rec.state \in states

-----------------------------------------------------------------------------
(* drive_planned_to_copying. *)

\* The frontiers are recorded and Snapshotting is entered, or entered again.
DrivePlanned ==
    /\ Resumes({"Planned", "Snapshotting"})
    /\ Transition("Snapshotting", "snapshotting")
    /\ UNCHANGED <<handle, seen, committed, rows, writers, frontiers, crashes>>

\* abort_on_timeout, before the checkpoint or before the copy.
TimedPhasesWithCleanup == {"snapshotting", "copying", "cleaning"}
TimedPhases == {"snapshotting", "copying"}

PhaseTimesOut ==
    /\ pc \in TimedPhases
    /\ Transition("Aborted", "idle")
    /\ UNCHANGED <<handle, seen, committed, rows, writers, frontiers, crashes>>

\* The checkpoint round begins and its id is stored; a donor already recorded
\* is not asked again.
BeginCheckpoint ==
    /\ pc = "snapshotting"
    /\ IF rec.pinned
       THEN Save(rec, "pinned")
       ELSE Save([rec EXCEPT !.pinning = TRUE], "pinning")
    /\ UNCHANGED <<handle, seen, committed, rows, writers, frontiers, crashes>>

\* donor.db.create_checkpoint pins what the donor holds now.
CreateCheckpoint ==
    /\ pc = "pinning"
    /\ handle' = donor /\ pc' = "created"
    /\ UNCHANGED <<durable, rec, seen, committed, rows, writers, frontiers,
                   faults, crashes>>

SaveCheckpoint ==
    /\ pc = "created"
    /\ Save([rec EXCEPT !.pinning = FALSE, !.pinned = TRUE, !.snapshot = handle],
            "pinned")
    /\ handle' = Empty
    /\ UNCHANGED <<seen, committed, rows, writers, frontiers, crashes>>

EnterCopying ==
    /\ pc = "pinned"
    /\ Transition("Copying", "copying")
    /\ UNCHANGED <<handle, seen, committed, rows, writers, frontiers, crashes>>

-----------------------------------------------------------------------------
(* copy_bounded_chunks. *)

\* The rows of a shard or a snapshot, and those a scan comes upon before k.
Held(contents) == {k \in Keys : contents[k] # Absent}
Before(contents, k) == {j \in Held(contents) : j < k}

\* The page a scan comes upon after n others.
Page(contents, n) == CHOOSE k \in Held(contents) : Cardinality(Before(contents, k)) = n

\* The driver goes on from the call above, or calls copy_bounded_chunks again
\* with a record that is in Copying; the completed pages are passed over.
StartCopy ==
    /\ pc = "copying" \/ Resumes({"Copying"})
    /\ pc' = "page"
    /\ UNCHANGED <<durable, rec, handle, seen, committed, rows, writers,
                   frontiers, faults, crashes>>

CopyIntent ==
    /\ pc = "page" /\ rec.cursor < Cardinality(Held(rec.snapshot))
    /\ Save([rec EXCEPT !.copying = TRUE], "batch")
    /\ UNCHANGED <<handle, seen, committed, rows, writers, frontiers, crashes>>

\* The batch is written to the recipient and flushed.
CopyBatch ==
    /\ pc = "batch"
    /\ LET k == Page(rec.snapshot, rec.cursor)
       IN  recipient' = [recipient EXCEPT ![k] = rec.snapshot[k]]
    /\ pc' = "cursor"
    /\ UNCHANGED <<durable, rec, handle, seen, committed, donor, writers,
                   frontiers, faults, crashes>>

CopyCursor ==
    /\ pc = "cursor"
    /\ Save([rec EXCEPT !.copying = FALSE, !.cursor = @ + 1], "page")
    /\ UNCHANGED <<handle, seen, committed, rows, writers, frontiers, crashes>>

CopiedButOne(r) == r.cursor + 1 >= Cardinality(Held(r.snapshot))
Copied(r) == r.cursor = Cardinality(Held(r.snapshot))

CopyEnds ==
    /\ pc = "page" /\ Copied(rec)
    /\ pc' = "copied"
    /\ UNCHANGED <<durable, rec, handle, seen, committed, rows, writers,
                   frontiers, faults, crashes>>

-----------------------------------------------------------------------------
(* From the copy to the cut-over. *)

BeginDualWriting ==
    /\ pc = "copied"
    /\ Transition("DualWriting", "idle")
    /\ UNCHANGED <<handle, seen, committed, rows, writers, frontiers, crashes>>

AdvanceToCatchingUp ==
    /\ Resumes({"DualWriting"})
    /\ Transition("CatchingUp", "idle")
    /\ UNCHANGED <<handle, seen, committed, rows, writers, frontiers, crashes>>

\* advance_to_fencing_old_if_caught_up, once the lag is within the budget.
AdvanceToFencingOld ==
    /\ Resumes({"CatchingUp"})
    /\ Transition("FencingOld", "idle")
    /\ UNCHANGED <<handle, seen, committed, rows, writers, frontiers, crashes>>

\* await_cutover_readiness_at_frontier: refused below the planned frontier.
\* Cutover is entered before anybody's version is looked at.
AwaitCutover ==
    /\ frontier >= PlannedFrontier
    /\ committed' = frontier
    /\ \/ Resumes({"FencingOld"}) /\ Transition("Cutover", "observing")
       \/ /\ Resumes({"Cutover"}) /\ pc' = "observing"
          /\ UNCHANGED <<durable, rec, faults>>
    /\ UNCHANGED <<handle, seen, rows, writers, frontiers, crashes>>

\* BucketMapVersionTracker::all_observed.
NobodyAsked == TRUE
AllObserved == \A r \in Routers : observed[r]

CutoverReady ==
    /\ pc = "observing" /\ AllObserved
    /\ Save([rec EXCEPT !.cutover = committed], "ready")
    /\ committed' = 0
    /\ UNCHANGED <<handle, seen, rows, writers, frontiers, crashes>>

\* Somebody has not reported: the call returns false, or Cutover has timed out.
\* One who has reported another version makes it an error, which is returned
\* before the time is looked at.
CutoverNotReady ==
    /\ pc = "observing" /\ ~AllObserved
    /\ \/ pc' = "idle" /\ UNCHANGED <<durable, rec, faults>>
       \/ /\ \E r \in Routers \ setup.older : ~observed[r]
          /\ Transition("Aborted", "idle")
    /\ committed' = 0
    /\ UNCHANGED <<handle, seen, rows, writers, frontiers, crashes>>

-----------------------------------------------------------------------------
(* verify_or_rollback. *)

EnterVerifying ==
    /\ pc = "ready"
    /\ Transition("Verifying", "verify")
    /\ UNCHANGED <<handle, seen, committed, rows, writers, frontiers, crashes>>

BeginVerification ==
    /\ pc = "verify" \/ Resumes({"Verifying"})
    /\ Save([rec EXCEPT !.progress = 0], "scan")
    /\ UNCHANGED <<handle, seen, committed, rows, writers, frontiers, crashes>>

\* A scan of these rows is over its bound.
TooLarge(contents) == Cardinality(Held(contents)) > setup.window

\* filtered_entries of the donor, then of the recipient.
ScanDonor ==
    /\ pc = "scan" /\ ~TooLarge(donor)
    /\ seen' = donor /\ pc' = "compare"
    /\ UNCHANGED <<durable, rec, handle, committed, rows, writers, frontiers,
                   faults, crashes>>

Agree == seen = recipient

CompareEntries ==
    /\ pc = "compare" /\ ~TooLarge(recipient)
    /\ IF Agree THEN Save([rec EXCEPT !.progress = 100], "verified")
                ELSE Transition("DualWriting", "idle")
    /\ seen' = Empty
    /\ UNCHANGED <<handle, committed, rows, writers, frontiers, crashes>>

\* VerifyWindowFull: the call fails, and so does every later one.
VerifyWindowFull ==
    /\ \/ pc = "scan" /\ TooLarge(donor)
       \/ pc = "compare" /\ TooLarge(recipient)
    /\ pc' = "idle" /\ seen' = Empty
    /\ UNCHANGED <<durable, rec, handle, committed, rows, writers, frontiers,
                   faults, crashes>>

\* A shard cannot be read or written, or the checkpoint coordinator refuses to
\* begin, to record the donor's checkpoint or has committed none.
StorageFails ==
    /\ pc \in {"snapshotting", "pinning", "created", "pinned", "page", "batch",
               "scan", "compare", "cleaning", "deleting"}
    /\ faults < MaxFaults /\ faults' = faults + 1
    /\ pc' = "idle" /\ handle' = Empty /\ seen' = Empty
    /\ UNCHANGED <<durable, rec, committed, rows, writers, frontiers, crashes>>

-----------------------------------------------------------------------------
(* maybe_enter_gc_eligible, finish_done and archive. *)

ConsumersPassed(r) == r.cutover # None /\ consumer >= r.cutover

MaybeEnterGcEligible ==
    /\ \/ pc = "verified"
       \/ Resumes({"Verifying"}) /\ rec.progress = 100
    /\ ConsumersPassed(rec)
    /\ Transition("GcEligible", "idle")
    /\ UNCHANGED <<handle, seen, committed, rows, writers, frontiers, crashes>>

FinishDone ==
    /\ Resumes({"GcEligible"})
    /\ Save([rec EXCEPT !.cleanup = TRUE], "cleaning")
    /\ UNCHANGED <<handle, seen, committed, rows, writers, frontiers, crashes>>

\* cleanup_donor_buckets deletes what its scan found, a page at a time.
ScanForCleanup ==
    /\ pc = "cleaning"
    /\ seen' = donor /\ pc' = "deleting"
    /\ UNCHANGED <<durable, rec, handle, committed, rows, writers, frontiers,
                   faults, crashes>>

DeletePage ==
    /\ pc = "deleting" /\ Held(seen) # {}
    /\ LET k == Page(seen, 0)
       IN  /\ donor' = [donor EXCEPT ![k] = Absent]
           /\ seen' = [seen EXCEPT ![k] = Absent]
    /\ UNCHANGED <<durable, rec, pc, handle, committed, recipient, writers,
                   frontiers, faults, crashes>>

EnterDone ==
    /\ pc = "deleting" /\ Held(seen) = {}
    /\ Transition("Done", "archive")
    /\ UNCHANGED <<handle, seen, committed, rows, writers, frontiers, crashes>>

\* archive: the history record is stored, then the active one deleted.
ArchiveDeletesFirst ==
    /\ pc = "archive" \/ Resumes({"Done"})
    /\ active' = NoRecord /\ pc' = "unlink"
    /\ UNCHANGED <<history, rec, handle, seen, committed, rows, writers,
                   frontiers, faults, crashes>>

ArchivePut ==
    /\ pc = "archive" \/ Resumes({"Done"})
    /\ \/ history' = rec /\ pc' = "unlink" /\ UNCHANGED faults
       \/ /\ faults < MaxFaults /\ faults' = faults + 1
          /\ pc' = "idle" /\ UNCHANGED history
    /\ UNCHANGED <<active, rec, handle, seen, committed, rows, writers,
                   frontiers, crashes>>

ArchiveDelete ==
    /\ pc = "unlink"
    /\ \/ active' = NoRecord /\ pc' = "closed" /\ UNCHANGED faults
       \/ /\ faults < MaxFaults /\ faults' = faults + 1
          /\ pc' = "idle" /\ UNCHANGED active
    /\ UNCHANGED <<history, rec, handle, seen, committed, rows, writers,
                   frontiers, crashes>>

-----------------------------------------------------------------------------
(* The control process stops and comes back. *)

Crash ==
    /\ pc # "down" /\ crashes < MaxCrashes
    /\ crashes' = crashes + 1
    /\ pc' = "down" /\ rec' = NoRecord
    /\ handle' = Empty /\ seen' = Empty /\ committed' = 0
    /\ UNCHANGED <<durable, rows, writers, frontiers, faults>>

\* recover_on_start finishes what needs no driver: a Done record is archived,
\* a clean-up that had begun is replayed when the donor's handle is at hand.
\* Everything else is left to a driver that goes on from the record.
Replayable(r) ==
    /\ r.state = "GcEligible" /\ r.cleanup
    /\ r.cutover # None /\ r.progress = 100

NeverArchivable(r) == FALSE
Archivable(r) == r.state = "Done" /\ r.cleanup

RecoverOnStart ==
    /\ pc = "down"
    /\ rec' = active
    /\ \/ active = NoRecord /\ pc' = "closed"
       \/ Archivable(active) /\ pc' = "archive"
       \/ Replayable(active) /\ pc' = "cleaning"
       \/ active.state \in States \ {"Done"} /\ pc' = "idle"
    /\ UNCHANGED <<durable, handle, seen, committed, rows, writers, frontiers,
                   faults, crashes>>

-----------------------------------------------------------------------------
(* The routers.  Nothing in the repository builds one outside its tests: when *)
(* a component replaces its router, and when it reports the map version, are  *)
(* assumptions.  It replaces it between two writes, and reports the target    *)
(* version once its router asks for it.                                       *)

DualStates == {"DualWriting", "CatchingUp", "FencingOld"}
CutStates == {"Cutover", "Verifying", "GcEligible", "Done"}

\* route_targets_at_epoch.
Targets(r, epoch) ==
    IF r.state \in DualStates /\ epoch >= PlannedFrontier
    THEN <<"donor", "recipient">>
    ELSE IF r.state \in CutStates /\ epoch >= r.cutover
         THEN <<"recipient">>
         ELSE <<"donor">>

\* A write under another map version is refused once the router asks for one.
VersionAccepted(r) == router[r].state \in DualStates \cup CutStates => observed[r]

\* The record a component finds when it looks.
Found == IF active # NoRecord THEN active ELSE history

RefreshRouter(r) ==
    /\ write[r] = NoWrite
    /\ router' = [router EXCEPT ![r] = RoutingOf(Found)]
    /\ UNCHANGED <<durable, driver, rows, observed, write, issued, acked, stray,
                   frontiers, faults, crashes>>

ReportVersion(r) ==
    /\ router[r].state \in DualStates \cup CutStates
    /\ observed' = [observed EXCEPT ![r] = TRUE]
    /\ UNCHANGED <<durable, driver, rows, router, write, issued, acked, stray,
                   frontiers, faults, crashes>>

\* apply_write_at_epoch: the targets are computed once, then written in turn.
BeginWrite(r, k, epoch) ==
    /\ write[r] = NoWrite /\ k \notin issued
    /\ epoch >= frontier
    /\ VersionAccepted(r)
    /\ write' = [write EXCEPT ![r] =
                    [key |-> k, epoch |-> epoch, targets |-> Targets(router[r], epoch)]]
    /\ issued' = issued \cup {k}
    /\ UNCHANGED <<durable, driver, rows, router, observed, acked, stray,
                   frontiers, faults, crashes>>

\* The snapshot that counts is the one in the driver's hands or in the store.
SnapshotTaken == pc = "created" \/ active = NoRecord \/ active.pinned

PutRow(r) ==
    LET w == write[r]
        target == Head(w.targets)
        last == Len(w.targets) = 1
    IN  /\ w # NoWrite
        /\ IF target = "donor"
           THEN donor' = [donor EXCEPT ![w.key] = New] /\ UNCHANGED recipient
           ELSE recipient' = [recipient EXCEPT ![w.key] = New] /\ UNCHANGED donor
        /\ write' = [write EXCEPT ![r] =
                        IF last THEN NoWrite ELSE [w EXCEPT !.targets = Tail(@)]]
        /\ acked' = IF last THEN acked \cup {w.key} ELSE acked
        /\ stray' = \/ stray
                    \/ target = "donor" /\ last /\ SnapshotTaken
                    \/ target = "recipient" /\ donor[w.key] # New
        /\ UNCHANGED <<durable, driver, router, observed, issued, frontiers,
                       faults, crashes>>

\* The writer dies between the two puts, or before the first.
WriterStops(r) ==
    /\ write[r] # NoWrite
    /\ faults < MaxFaults /\ faults' = faults + 1
    /\ write' = [write EXCEPT ![r] = NoWrite]
    /\ stray' = TRUE
    /\ UNCHANGED <<durable, driver, rows, router, observed, issued, acked,
                   frontiers, crashes>>

\* An epoch is committed once its writes are finished; no write joins it later.
AdvanceFrontier ==
    /\ frontier < MaxEpoch
    /\ \A r \in Routers : write[r] = NoWrite \/ write[r].epoch > frontier
    /\ frontier' = frontier + 1
    /\ UNCHANGED <<durable, driver, rows, writers, consumer, setup, faults, crashes>>

\* MigrationConsumerFrontierTracker::observe, by the slowest consumer.
ConsumersReport ==
    /\ consumer < frontier
    /\ consumer' = frontier
    /\ UNCHANGED <<durable, driver, rows, writers, frontier, setup, faults, crashes>>

-----------------------------------------------------------------------------

DriverStep ==
    \/ DrivePlanned \/ PhaseTimesOut \/ BeginCheckpoint \/ CreateCheckpoint
    \/ SaveCheckpoint \/ EnterCopying
    \/ StartCopy \/ CopyIntent \/ CopyBatch \/ CopyCursor \/ CopyEnds
    \/ BeginDualWriting \/ AdvanceToCatchingUp \/ AdvanceToFencingOld
    \/ AwaitCutover \/ CutoverReady \/ CutoverNotReady
    \/ EnterVerifying \/ BeginVerification \/ ScanDonor \/ CompareEntries
    \/ VerifyWindowFull \/ StorageFails \/ MaybeEnterGcEligible
    \/ FinishDone \/ ScanForCleanup \/ DeletePage \/ EnterDone
    \/ ArchivePut \/ ArchiveDelete \/ RecoverOnStart

Next ==
    \/ DriverStep
    \/ Crash
    \/ \E r \in Routers :
          \/ RefreshRouter(r) \/ ReportVersion(r) \/ PutRow(r) \/ WriterStops(r)
          \/ \E k \in Keys, epoch \in Epochs : BeginWrite(r, k, epoch)
    \/ AdvanceFrontier \/ ConsumersReport

Spec == Init /\ [][Next]_vars

\* The driver calls again until the migration ends, unless its process stops:
\* what recover_on_start leaves to a driver, nothing in the repository takes
\* up. A call that has begun goes on, and so does the start-up.
UnderWay == crashes = 0 \/ pc # "idle"

\* The components go on refreshing, reporting and finishing their writes, and
\* the epochs go on.
Fairness ==
    /\ WF_vars(UnderWay /\ DriverStep)
    /\ \A r \in Routers : WF_vars(RefreshRouter(r)) /\ WF_vars(ReportVersion(r))
                           /\ WF_vars(PutRow(r))
    /\ WF_vars(AdvanceFrontier) /\ WF_vars(ConsumersReport)

FairSpec == Spec /\ Fairness

-----------------------------------------------------------------------------
(* Properties. *)

\* The shard assert_single_authoritative gives the bucket to.
Authority(r) == IF r.state \in CutStates \cup {"none"} THEN "recipient" ELSE "donor"

Deleting == active = NoRecord \/ active.cleanup

\* From the moment the donor's rows may be deleted the recipient holds every
\* acknowledged write and every seeded row, whichever crash, failed PUT,
\* replay or stale router came before; until then one of the shards does.
RowsSurvive ==
    /\ \A k \in acked : New \in {recipient[k]} \cup (IF Deleting THEN {} ELSE {donor[k]})
    /\ \A k \in Seeded : recipient[k] # Absent \/ (~Deleting /\ donor[k] # Absent)

\* A resumed copy never passes over a row: what the stored cursor counts as
\* copied, and past Copying the whole pinned snapshot, is in the recipient.
CopyIsComplete ==
    active # NoRecord =>
       \A k \in Held(active.snapshot) :
          \/ active.state \in DualStates \cup CutStates
          \/ Cardinality(Before(active.snapshot, k)) < active.cursor
          => recipient[k] # Absent

\* A crash never finds the migration recorded nowhere, nor a record that is
\* none or was closed as history before it was finished: archive stores before
\* it deletes.
RecordNeverLost ==
    /\ active # NoRecord \/ history # NoRecord
    /\ {active, history} \subseteq Record \cup {NoRecord}
    /\ history # NoRecord => history.state = "Done" /\ history.cleanup

\* The stored record implements BucketOwnership: authority never leaves the
\* recipient once clean-up has begun, in spite of retries from older copies.
Ownership ==
    INSTANCE BucketOwnership WITH owner <- Authority(active), closed <- Deleting

ImplementsOwnership == Ownership!Spec

\* A migration is archived or aborted, through failed PUTs, rollbacks and
\* writes that race with the verification, and so is one whose process stops
\* when nothing but the start-up is needed to finish it (migration.rs:367).
\* Excepted are one that start-up leaves to a driver, one that a write has
\* strayed from, and a bucket that is too large for the verification: these
\* wait for ever.
MigrationEnds ==
    <>(\/ active = NoRecord
       \/ active.state = "Aborted"
       \/ crashes > 0 /\ pc = "idle"
       \/ stray
       \/ TooLarge(donor)
       \/ TooLarge(recipient))
=============================================================================
