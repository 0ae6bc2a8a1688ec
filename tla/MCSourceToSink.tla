---------------------------- MODULE MCSourceToSink ----------------------------
(* Small instances of SourceToSink for TLC. *)
EXTENDS SourceToSink

\* No faults, polls and envelopes as large as the topic.
Calm == [bytes |-> MaxRows, writes |-> 0, acks |-> 0, batches |-> 0,
         refused |-> {}, consumer |-> 0, broker |-> 0, envelope |-> MaxRows,
         debts |-> {}, crashes |-> 0, retries |-> 0]

\* Faults taken two and three at a time, rows that are refused and envelopes
\* that are too large; polls cut short by the byte limit where nothing fails
\* between a poll and the end of its commit.
AllLoads ==
    { [Calm EXCEPT !.writes = 1, !.crashes = 1],
      [Calm EXCEPT !.writes = 1, !.acks = 1],
      [Calm EXCEPT !.writes = 1, !.broker = 1, !.retries = 1],
      [Calm EXCEPT !.broker = 2, !.crashes = 1],
      [Calm EXCEPT !.consumer = 1, !.writes = 1],
      [Calm EXCEPT !.batches = 2, !.consumer = 1],
      [Calm EXCEPT !.batches = 1, !.writes = 1],
      [Calm EXCEPT !.refused = {1}, !.writes = 1],
      [Calm EXCEPT !.envelope = 1, !.crashes = 1],
      [Calm EXCEPT !.debts = {1}],
      [Calm EXCEPT !.bytes = 1, !.consumer = 1, !.acks = 1, !.crashes = 1] }

\* Polls cut short by the byte limit, and one write that fails.
StashLoads == { [Calm EXCEPT !.bytes = 1, !.writes = 1] }
================================================================================
