----------------------------- MODULE Assignments -----------------------------
(***************************************************************************)
(* AssignmentsService: the agreement that transfers Halo's position to the  *)
(* accepted buyer, from its envelope to its execution or cancellation.      *)
(***************************************************************************)
EXTENDS DealRecord

\* createEnvelope with purpose assignment, then onEnvelopeSent: a draft, while
\* the deal may still be assigned.
SendAssignmentEnvelope(o) ==
    /\ assignment[o] = "draft"
    /\ Eligible
    /\ assignment' = [assignment EXCEPT ![o] = "sent"]
    /\ UNCHANGED <<stage, agreements, cleared, campaign, links, offers, file, revenue>>

\* applyExecuted, reached from markExecuted (a draft or sent assignment) and
\* from a completed envelope (a sent one, with its signed copy): the gate, the
\* row, the campaigns, the links, and last the stage, whose refusal throws.
Execute(o) ==
    /\ assignment[o] \in {"draft", "sent"}
    /\ Eligible
    /\ assignment' = [assignment EXCEPT ![o] = "executed"]
    /\ campaign' = IF campaign \in {"active", "paused", "held"} THEN "completed" ELSE campaign
    /\ links' = {}
    /\ EnterStage("assigned", agreements, assignment', file)
    /\ UNCHANGED <<agreements, cleared, offers, file, revenue>>

\* Cancelling without looking at the closing file.
MayCancelAlways(o) == Live(o)

MayCancel(o) == Live(o) /\ file # "closed"

\* The offers with the accepted one left as it is.
OfferKept(o, cause) == offers

\* The accepted offer given the assignment's status, which offers do not have.
OfferCancelled(o, cause) ==
    IF offers[o].status = "accepted"
    THEN [offers EXCEPT ![o].status = "cancelled"]
    ELSE offers

\* The accepted offer is withdrawn by a buyer in default, rejected otherwise.
OfferDropped(o, cause) ==
    IF offers[o].status = "accepted"
    THEN [offers EXCEPT ![o].status = IF cause = "buyer_default" THEN "withdrawn" ELSE "rejected"]
    ELSE offers

\* cancel: the assignment falls through, at any time before the closing.  The
\* offer is withdrawn or rejected, and while the contract is good the deal
\* goes back to marketing and the campaign held for this buyer resumes.
Cancel(o, cause) ==
    /\ MayCancel(o)
    /\ assignment' = [assignment EXCEPT ![o] = "cancelled"]
    /\ offers' = OfferDropped(o, cause)
    /\ stage' = IF Eligible /\ stage = "assigned" THEN "marketing" ELSE stage
    /\ campaign' = IF Eligible /\ campaign = "held" THEN "active" ELSE campaign
    /\ UNCHANGED <<agreements, cleared, links, file, revenue>>

AssignmentsNext ==
    \E o \in Offer :
       \/ SendAssignmentEnvelope(o)
       \/ Execute(o)
       \/ \E cause \in {"buyer_default", "our_decision"} : Cancel(o, cause)

=============================================================================
