------------------------- MODULE MCMessageDelivery -------------------------
EXTENDS MessageDelivery

(* Every job that is queued or handed out again finds an attempt to take it. *)
ASSUME EnoughAttempts == MaxAttempts >= MaxApprovals + MaxFaults
=============================================================================
