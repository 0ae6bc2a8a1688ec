------------------------ MODULE ExactlyOnceDelivery ------------------------
(***************************************************************************)
(* What a source-to-sink pipeline promises, whatever happens inside: the   *)
(* rows of the upstream topic, numbered 0, 1, 2, ... as the broker numbers *)
(* them, enter the view in order, each once and none left out, and what    *)
(* the output topic shows is at all times a prefix of what the view took   *)
(* in.  SourceToSink implements this specification.                        *)
(***************************************************************************)
EXTENDS Naturals, Sequences, SequencesExt

CONSTANT MaxRows        \* rows the upstream topic may come to hold

VARIABLES produced,     \* rows in the upstream topic
          applied,      \* rows the view has taken in
          delivered     \* rows a reader of the output topic sees

vars == <<produced, applied, delivered>>

Init ==
    /\ produced = 0
    /\ applied = << >>
    /\ delivered = << >>

\* An upstream client appends a row.
Produce ==
    /\ produced < MaxRows
    /\ produced' = produced + 1
    /\ UNCHANGED <<applied, delivered>>

\* One epoch makes the next rows, and only those, part of the view.
Apply ==
    \E n \in 1..(produced - Len(applied)) :
        /\ applied' = applied \o [i \in 1..n |-> Len(applied) + i - 1]
        /\ UNCHANGED <<produced, delivered>>

\* One transaction shows the reader more of what the view has taken in.
Deliver ==
    \E n \in (Len(delivered) + 1)..Len(applied) :
        /\ delivered' = SubSeq(applied, 1, n)
        /\ UNCHANGED <<produced, applied>>

Next == Produce \/ Apply \/ Deliver

Spec == Init /\ [][Next]_vars
=============================================================================
