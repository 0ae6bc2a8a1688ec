------------------------- MODULE ControlLeadership -------------------------
(***************************************************************************)
(* What the election of the control plane promises its users.  A term is   *)
(* won by at most one node and only once; the winner leads that term from  *)
(* the win until it stops, and never leads it again.  Nothing is promised  *)
(* about the order in which terms are won, nor that a leader has stopped   *)
(* when another one starts.                                                *)
(***************************************************************************)
CONSTANTS Nodes, Terms

VARIABLES
    elected,   \* every win so far, as [term, node]
    leading    \* leading[n]: the terms n leads at the moment, at most one

vars == <<elected, leading>>

Init ==
    /\ elected = {}
    /\ leading = [n \in Nodes |-> {}]

Win(n, t) ==
    /\ \A e \in elected : e.term # t
    /\ leading[n] = {}
    /\ elected' = elected \cup {[term |-> t, node |-> n]}
    /\ leading' = [leading EXCEPT ![n] = {t}]

Stop(n) ==
    /\ leading' = [leading EXCEPT ![n] = {}]
    /\ UNCHANGED elected

Next == \E n \in Nodes : Stop(n) \/ \E t \in Terms : Win(n, t)

Spec == Init /\ [][Next]_vars
=============================================================================
