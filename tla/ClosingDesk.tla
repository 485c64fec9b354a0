----------------------------- MODULE ClosingDesk -----------------------------
(***************************************************************************)
(* ClosingService as the rest of the deal sees it: the file opens, closes   *)
(* or is cancelled, and the fee becomes revenue.  What makes a file clear   *)
(* to close (milestones and issues) is ClosingFile's subject; here it may   *)
(* hold at any time.                                                        *)
(***************************************************************************)
EXTENDS DealRecord

\* POST closing: a person opens the file before any contract is executed.
OpenFile ==
    /\ file = "none"
    /\ file' = EnsuredFile
    /\ UNCHANGED <<stage, agreements, cleared, campaign, links, offers, assignment, revenue>>

\* confirmClosing: an executed assignment and a clear file.  The file and the
\* money are written first; the stage comes last, and its refusal throws.
ConfirmClosing(paid) ==
    /\ file = "open"
    /\ HasExecuted(assignment)
    /\ file' = "closed"
    /\ revenue' = IF FundsRule /\ ~paid THEN "projected" ELSE "realized"
    /\ campaign' = EndedCampaign("completed")
    /\ links' = {}
    /\ EnterStage("closed", agreements, assignment, file')
    /\ UNCHANGED <<agreements, cleared, offers, assignment>>

\* The fee of a deal that has not closed.
FeeIsDueAlways == file # "none"

FeeIsDue == file = "closed"

\* recordFeeReceived: the money arrived, revenue under either rule.
RecordFee ==
    /\ FeeIsDue
    /\ revenue' = "realized"
    /\ UNCHANGED <<stage, agreements, cleared, campaign, links, offers, assignment, file>>

\* cancelClosing: the deal will not close.  Live assignments and campaigns end
\* and projected revenue is lost; the offer, and the stage unless the person
\* says so, stay.
CancelClosing(markLost) ==
    /\ file = "open"
    /\ file' = "cancelled"
    /\ assignment' = [o \in Offer |-> IF Live(o) THEN "cancelled" ELSE assignment[o]]
    /\ campaign' = EndedCampaign("cancelled")
    /\ links' = {}
    /\ revenue' = IF revenue = "projected" THEN "lost" ELSE revenue
    /\ IF markLost THEN EnterStage("lost", agreements, assignment', file')
                   ELSE UNCHANGED stage
    /\ UNCHANGED <<agreements, cleared, offers>>

ClosingNext ==
    \/ OpenFile
    \/ \E paid \in BOOLEAN : ConfirmClosing(paid)
    \/ RecordFee
    \/ \E markLost \in BOOLEAN : CancelClosing(markLost)

=============================================================================
