--------------------------- MODULE MCCostControl ---------------------------
(***************************************************************************)
(* Mail: the primary provider with a bucket of its own, a fallback with     *)
(* none, and a global bucket both share.                                    *)
(***************************************************************************)
EXTENDS CostControl

Providers == {"resend", "smtp"}
Chain == [p \in Providers |-> IF p = "resend" THEN "smtp" ELSE "none"]
Buckets2 == {"global", "resend"}
Applicable == [p \in Providers |-> IF p = "resend" THEN Buckets2 ELSE {"global"}]
Caps == [b \in Buckets2 |-> IF b = "global" THEN 4 ELSE 3]
Estimates == [c \in Call |-> 2]
=============================================================================
