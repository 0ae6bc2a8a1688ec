-------------------------- MODULE KafkaViewExport --------------------------
(***************************************************************************)
(* The sink side: KafkaViewSink takes the view's output log to a Kafka     *)
(* topic through the transactional KafkaSink.  A transaction is staged     *)
(* with the broker, its envelope and cursor are made durable (pending),    *)
(* the transaction is committed, and pending is cleared.  A pending found  *)
(* later is recovered by CheckBeforeCommit: look the transaction up among  *)
(* the committed records, and send the saved envelope again only when it   *)
(* is certainly absent.                                                    *)
(*                                                                         *)
(* The broker is external and modelled from how KafkaSink uses it: at most *)
(* one transaction of the sink's transactional.id is open, a new producer  *)
(* fences and resolves it, a commit whose answer is lost may have been     *)
(* applied, may be applied a little later, or not at all.                  *)
(***************************************************************************)
EXTENDS SourceRuntime, SequencesExt

VARIABLES
    progress,   \* durable: the KafkaViewSink's cursor and pending transaction
    topic,      \* the committed transactions, as read_committed shows them
    open,       \* the broker's open transaction: none, open or committing
    producer,   \* the sink's producer: "ready", "open" (in a transaction)
    staged,     \* KafkaSink::staged_epochs
    draft,      \* the progress record stage_next is about to persist
    exporter    \* where deliver_next stands

sinkVars == <<progress, topic, open, producer, staged, draft, exporter>>

NoTxn == [txn |-> -1, rows |-> << >>, status |-> "none"]
NotPending == [txn |-> -1, rows |-> << >>]

NoProgress == [snapshot |-> FALSE, viewEpoch |-> 0, transaction |-> 0,
               pending |-> NotPending]

SinkInit ==
    /\ progress = NoProgress
    /\ topic = << >>
    /\ open = NoTxn
    /\ producer = "down"
    /\ staged = {}
    /\ draft = NoProgress
    /\ exporter = "down"

\* The transaction the broker holds open becomes visible, or vanishes.
Shown(txn) == Append(topic, [txn |-> txn.txn, rows |-> txn.rows])

\* KafkaSink::connect: init_transactions waits for a transaction that is being
\* committed and aborts one that is open.
Connect ==
    /\ exporter = "down"
    /\ topic' = IF open.status = "committing" THEN Shown(open) ELSE topic
    /\ open' = NoTxn
    /\ producer' = "ready"
    /\ staged' = {}
    /\ exporter' = "idle"
    /\ UNCHANGED <<progress, draft, load>>

-----------------------------------------------------------------------------
\* All rows of the view's log, in its order.
LogRows == FlattenSeq([i \in 1..Len(view) |-> view[i].rows])

LastViewEpoch == IF view = << >> THEN 0 ELSE view[Len(view)].epoch

\* The first epoch of the view's log beyond the cursor.
FirstBeyond ==
    CHOOSE i \in DOMAIN view :
        /\ view[i].epoch > progress.viewEpoch
        /\ \A k \in 1..(i - 1) : view[k].epoch <= progress.viewEpoch

\* stage_next's cursor: the snapshot takes in every epoch there is, afterwards
\* each transaction takes the first epoch beyond the cursor.
NextViewEpoch ==
    IF ~progress.snapshot THEN LastViewEpoch ELSE view[FirstBeyond].epoch

\* Nothing is left to stage.
SkipsOneEpoch == progress.snapshot /\ LastViewEpoch <= progress.viewEpoch + 1
NothingNew == progress.snapshot /\ LastViewEpoch <= progress.viewEpoch

StagedRows ==
    IF ~progress.snapshot THEN LogRows ELSE view[FirstBeyond].rows

\* The record stage_next makes durable.
Advanced(rows) ==
    [snapshot |-> TRUE, viewEpoch |-> NextViewEpoch,
     transaction |-> progress.transaction + 1,
     pending |-> [txn |-> progress.transaction, rows |-> rows]]

\* stage_next refuses an envelope over its 900 KiB limit (here load.envelope
\* rows) and a snapshot with a negative multiplicity, which a row of load.debts
\* gives: it retracts what no row has inserted.
Unstageable ==
    \/ Len(StagedRows) > load.envelope
    \/ /\ ~progress.snapshot
       /\ \E i \in DOMAIN StagedRows : StagedRows[i] \in load.debts

\* stage_next up to its write: refuse what cannot be staged and a transaction
\* this producer has staged before, begin it and send the envelope
\* (pre_commit_payload).  A refusal or a failed begin is an error of
\* deliver_next.
Stage ==
    /\ exporter = "idle"
    /\ progress.pending = NotPending
    /\ ~NothingNew
    /\ IF Unstageable \/ progress.transaction \in staged \/ producer # "ready"
       THEN /\ exporter' = "failed"
            /\ UNCHANGED <<open, producer, staged, draft>>
       ELSE /\ open' = [txn |-> progress.transaction, rows |-> StagedRows,
                        status |-> "open"]
            /\ producer' = "open"
            /\ staged' = staged \cup {progress.transaction}
            /\ draft' = Advanced(StagedRows)
            /\ exporter' = "persist"
    /\ UNCHANGED <<progress, topic, load>>

\* stage_next's write: the envelope and the cursor become durable together.
PersistStaged ==
    /\ exporter = "persist"
    /\ \E outcome \in Outcomes("writes") :
        /\ Spend("writes", outcome)
        /\ progress' = IF Lands(outcome) THEN draft ELSE progress
        /\ exporter' = IF outcome = "ok" THEN "commit" ELSE "failed"
    /\ draft' = NoProgress
    /\ UNCHANGED <<topic, open, producer, staged>>

\* commit_transaction.  Without an answer the transaction may have been
\* committed, may still be committing, or may be as open as before; the
\* producer stays in it.
CommitOutcomes ==
    {"ok"} \cup (IF load.broker > 0 THEN {"committed", "committing", "open"} ELSE {})

CommitTransaction(txn) ==
    \E outcome \in CommitOutcomes :
        /\ load' = IF outcome = "ok" THEN load ELSE [load EXCEPT !.broker = @ - 1]
        /\ topic' = IF outcome \in {"ok", "committed"} THEN Shown(txn) ELSE topic
        /\ open' = IF outcome \in {"ok", "committed"} THEN NoTxn
                   ELSE [txn EXCEPT !.status = outcome]
        /\ producer' = IF outcome = "ok" THEN "ready" ELSE "open"
        /\ staged' = IF outcome = "ok" THEN staged \ {txn.txn} ELSE staged
        /\ exporter' = IF outcome = "ok" THEN "clear" ELSE "failed"

\* KafkaSink::commit, of the transaction just staged; the broker may have
\* aborted it.
CommitStaged ==
    /\ exporter = "commit"
    /\ IF open.status = "open"
       THEN CommitTransaction(open)
       ELSE exporter' = "failed" /\ UNCHANGED <<topic, open, producer, staged, load>>
    /\ UNCHANGED <<progress, draft>>

\* deliver_next's last step: pending is cleared, durably.
ClearPending ==
    /\ exporter = "clear"
    /\ \E outcome \in Outcomes("writes") :
        /\ Spend("writes", outcome)
        /\ progress' = IF Lands(outcome) THEN [progress EXCEPT !.pending = NotPending]
                       ELSE progress
        /\ exporter' = IF outcome = "ok" THEN "idle" ELSE "failed"
    /\ UNCHANGED <<topic, open, producer, staged, draft>>

-----------------------------------------------------------------------------
(* Recovery of a pending transaction.                                      *)

Delivered(txn) == \E i \in DOMAIN topic : topic[i].txn = txn.txn
Conflicting(txn) == \E i \in DOMAIN topic : topic[i].txn = txn.txn /\ topic[i].rows # txn.rows

\* What check_payload_delivered answers.  A transaction that is not resolved
\* leaves the last stable offset below the high watermark: no answer, unless
\* nothing of it has reached the log yet.  A lookup may also time out.
NeverLooks(txn) == {"absent"}
LookupOutcomes(txn) ==
    (IF Conflicting(txn) THEN {"unknown"}
     ELSE IF Delivered(txn) THEN {"delivered"}
     ELSE IF open.status = "none" THEN {"absent"}
     ELSE IF open.status = "open" THEN {"absent", "unknown"}
     ELSE {"unknown"})
    \cup (IF load.broker > 0 THEN {"timeout"} ELSE {})

\* recover(RerunCommit): delivered means done; absent means send the saved
\* envelope in a new transaction, which a producer still in one cannot begin;
\* anything else leaves the transaction pending.
Recover ==
    /\ exporter = "idle"
    /\ progress.pending # NotPending
    /\ \E outcome \in LookupOutcomes(progress.pending) :
        \/ /\ outcome = "delivered"
           /\ staged' = staged \ {progress.pending.txn}
           /\ exporter' = "clear"
           /\ UNCHANGED <<topic, open, producer, load>>
        \/ /\ outcome = "absent" /\ producer = "ready"
           /\ CommitTransaction([txn |-> progress.pending.txn,
                                 rows |-> progress.pending.rows, status |-> "open"])
        \/ /\ \/ outcome = "unknown"
              \/ outcome = "absent" /\ producer # "ready"
           /\ exporter' = "failed"
           /\ UNCHANGED <<topic, open, producer, staged, load>>
        \/ /\ outcome = "timeout"
           /\ load' = [load EXCEPT !.broker = @ - 1]
           /\ exporter' = "failed"
           /\ UNCHANGED <<topic, open, producer, staged>>
    /\ UNCHANGED <<progress, draft>>

\* External: the broker finishes a commit it has accepted.
TransactionResolves ==
    /\ open.status = "committing"
    /\ topic' = Shown(open)
    /\ open' = NoTxn
    /\ UNCHANGED <<progress, producer, staged, draft, exporter, load>>

\* External: transaction.timeout.ms passes and the broker aborts.
TransactionTimesOut ==
    /\ open.status = "open"
    /\ load.broker > 0
    /\ load' = [load EXCEPT !.broker = @ - 1]
    /\ open' = NoTxn
    /\ UNCHANGED <<progress, topic, producer, staged, draft, exporter>>

\* The caller of deliver_next tries again on the same sink.
TryAgain ==
    /\ exporter = "failed"
    /\ load.retries > 0
    /\ load' = [load EXCEPT !.retries = @ - 1]
    /\ exporter' = "idle"
    /\ UNCHANGED <<progress, topic, open, producer, staged, draft>>

ExporterStep == Connect \/ Stage \/ PersistStaged \/ CommitStaged \/ ClearPending \/ Recover

SinkNext == ExporterStep \/ TransactionResolves \/ TransactionTimesOut \/ TryAgain
=============================================================================
