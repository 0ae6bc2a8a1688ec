--------------------------- MODULE BucketOwnership ---------------------------
(***************************************************************************)
(* What a bucket migration promises about ownership.  One shard is the     *)
(* bucket's authority; authority may move back and forth until the         *)
(* migration is closed, that is, until the donor's rows are given up for   *)
(* deletion.  Closing needs the recipient's authority and is final.        *)
(***************************************************************************)
VARIABLES
    owner,  \* "donor" or "recipient"
    closed

vars == <<owner, closed>>

Init == owner = "donor" /\ closed = FALSE

HandOver == ~closed /\ owner = "donor" /\ owner' = "recipient" /\ UNCHANGED closed

TakeBack == ~closed /\ owner = "recipient" /\ owner' = "donor" /\ UNCHANGED closed

Close == ~closed /\ owner = "recipient" /\ closed' = TRUE /\ UNCHANGED owner

Next == HandOver \/ TakeBack \/ Close

Spec == Init /\ [][Next]_vars
=============================================================================
