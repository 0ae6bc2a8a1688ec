------------------------- MODULE MCIncrementalJoin -------------------------
(* The right has two rows that share a key, the left one of them; either     *)
(* side may have one of them twice, as after a projection that drops the     *)
(* table's key, and a row with a NULL key.                                   *)
EXTENDS IncrementalJoin

SmallRows == {<<1, 1>>, <<1, 2>>, <<NullKey, 1>>}
SmallCopies ==
    [left |-> [r \in SmallRows |-> IF r = <<1, 1>> THEN 0 ELSE IF r = <<1, 2>> THEN 2 ELSE 1],
     right |-> [r \in SmallRows |-> IF r = <<1, 2>> THEN 2 ELSE 1]]
AllKinds == {"inner", "left", "right", "full", "semi", "anti", "nullAware"}
=============================================================================
