---------------------------- MODULE MCExchangeFlow ----------------------------
(* A small instance of ExchangeFlow for TLC: one exchange with a batch channel *)
(* and a channel of row credits, and a second one that shares the limits.      *)
EXTENDS ExchangeFlow, TLC

CONSTANTS t1, t2, t3, t4, r1, r2, x1, x2, k1, k2, k3, f1, f2, f3

FourSends == {t1, t2, t3, t4}
TwoRowCalls == {r1, r2}
TwoExchanges == {x1, x2}
ThreeKeys == {k1, k2, k3}

\* t2 retransmits the frame of t1; t3 shares only the limits with them,
\* and t4 has a row more than the smaller of the budgets admits.
MCExchangeOf == k1 :> x1 @@ k2 :> x1 @@ k3 :> x2
MCKeyOf == [c \in Calls |-> (t1 :> k1 @@ t2 :> k1 @@ t3 :> k3 @@ t4 :> k1 @@ r1 :> k2 @@ r2 :> k2)[c]]
MCRows == [c \in Calls |-> (t1 :> 1 @@ t2 :> 1 @@ t3 :> 2 @@ t4 :> 2 @@ r1 :> 1 @@ r2 :> 1)[c]]
MCBytes == [t \in Sends |-> (t1 :> 1 @@ t2 :> 1 @@ t3 :> 2 @@ t4 :> 1)[t]]
MCFrameOf == [t \in Sends |-> (t1 :> f1 @@ t2 :> f1 @@ t3 :> f2 @@ t4 :> f3)[t]]
MCWorkloads == {{t1, t2}, {t1, t3}, {t1, t4}, {t1, r1}, {r1, r2}}
MCPendingLimits == {1, 2}
MCBudgets == {1, 2}
===============================================================================
