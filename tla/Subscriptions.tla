---------------------------- MODULE Subscriptions ----------------------------
(***************************************************************************)
(* The bounded change log of one table and a client that follows it: a     *)
(* snapshot, then the published epochs, across disconnections, evictions   *)
(* and restarts of the gateway (change_log.rs, subscribe_handler.rs).      *)
(*                                                                         *)
(* Table contents and changes are multiplicities of row values, what a     *)
(* client sums up from mz_diff.                                            *)
(***************************************************************************)
EXTENDS Integers, Sequences, FiniteSetsExt, SequencesExt

CONSTANTS
    Vals,       \* row values
    LogLimit    \* CHANGE_LOG_MAX_ENTRIES

ASSUME LogLimitAssumption == LogLimit \in Nat \ {0}

VARIABLES
    log,        \* ViewChangeLog of the table, in memory
    sub         \* the client: what it has summed up, up to which epoch

Zero == [v \in Vals |-> 0]
Plus(f, g) == [v \in Vals |-> f[v] + g[v]]

\* floor and latest are 0 while the code has None.
EmptyLog == [entries |-> <<>>, floor |-> 0, latest |-> 0]

NoSub == [st |-> "off", acc |-> Zero, last |-> 0, gap |-> FALSE]

Larger(a, b) == IF a > b THEN a ELSE b

Size(entries) == FoldLeft(LAMBDA n, e : n + e.size, 0, entries)

\* The oldest epochs are discarded whole until the new one fits.
Retained(entries, size) ==
    LET fits == {i \in 1..(Len(entries) + 1) :
                    Size(SubSeq(entries, i, Len(entries))) + size <= LogLimit}
    IN SubSeq(entries, Min(fits), Len(entries))

FloorAfter(l, kept) ==
    IF Len(kept) = Len(l.entries) THEN l.floor
    ELSE Larger(l.floor, l.entries[Len(l.entries) - Len(kept)].epoch + 1)

\* push_epoch: an epoch that does not fit at all invalidates the replay.
PushEpoch(l, e) ==
    IF e.epoch <= l.latest THEN l
    ELSE IF e.size > LogLimit
    THEN [entries |-> <<>>, floor |-> e.epoch + 1, latest |-> e.epoch]
    ELSE LET kept == Retained(l.entries, e.size)
         IN [entries |-> Append(kept, e), floor |-> FloorAfter(l, kept),
             latest |-> e.epoch]

EarliestEpoch(l) ==
    IF l.entries = <<>> THEN l.floor ELSE Larger(Head(l.entries).epoch, l.floor)

\* A mutant of the next definition: any epoch up to the latest may be replayed.
ReplaysAnyEpoch(l, requested) == l.entries # <<>> /\ requested <= l.latest

CheckReplayStart(l, requested) ==
    /\ l.entries # <<>>
    /\ requested >= EarliestEpoch(l)
    /\ requested <= l.latest

\* The retained epochs from this one on, in the order they were pushed.
Since(l, epoch) ==
    FoldLeft(LAMBDA s, e : IF e.epoch >= epoch THEN Append(s, e) ELSE s, <<>>, l.entries)

TooSlow(l, last) ==
    LET newer == Since(l, last + 1)
    IN \/ last + 1 < l.floor
       \/ newer # <<>> /\ Last(newer).epoch - last > LogLimit

\* A mutant of the next definition: a client that is too slow is not told.
PolledInSilence(l, s) ==
    LET newer == Since(l, s.last + 1)
    IN IF TooSlow(l, s.last) \/ newer = <<>> THEN s
       ELSE [s EXCEPT !.acc = FoldLeft(LAMBDA a, e : Plus(a, e.delta), @, newer),
                      !.last = Last(newer).epoch]

\* poll: every retained epoch after the last one sent, or an error that ends
\* the stream: the client has to start again with a snapshot.
Polled(l, s) ==
    LET newer == Since(l, s.last + 1)
    IN IF TooSlow(l, s.last) THEN NoSub
       ELSE IF newer = <<>> THEN s
       ELSE [s EXCEPT !.acc = FoldLeft(LAMBDA a, e : Plus(a, e.delta), @, newer),
                      !.last = Last(newer).epoch]

Poll ==
    /\ sub.st = "live"
    /\ Polled(log, sub) # sub
    /\ sub' = Polled(log, sub)
    /\ UNCHANGED log

\* The client's connection breaks; it keeps what it has.
Disconnect ==
    /\ sub.st = "live"
    /\ sub' = [sub EXCEPT !.st = "away"]
    /\ UNCHANGED log

\* SUBSCRIBE ... AS OF EPOCH <the first epoch the client has not seen>.
Resume ==
    /\ sub.st = "away"
    /\ sub' = IF CheckReplayStart(log, sub.last + 1)
              THEN Polled(log, [sub EXCEPT !.st = "live"])
              ELSE NoSub
    /\ UNCHANGED log
==============================================================================
