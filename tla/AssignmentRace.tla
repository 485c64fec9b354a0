--------------------------- MODULE AssignmentRace ---------------------------
(***************************************************************************)
(* The handlers that decide who gets the contract, opened at every await    *)
(* between two statements that touch the rows: requests of several people,  *)
(* DocuSign and the agents run through them at the same time and each acts  *)
(* on what it read earlier.  A request may stop anywhere (an error, a       *)
(* restart of the API) and leaves what it wrote.                            *)
(*                                                                          *)
(* A row update by id ("update where id") overwrites; only updateMany with  *)
(* a status and createFromOffer's serializable transaction look at the row  *)
(* they change.  DealsService.updateStage is one step here.                 *)
(***************************************************************************)
EXTENDS Naturals, FiniteSets

CONSTANTS
    Offer,        \* offers received on the deal
    Request,      \* calls that may be in flight at once
    Op,           \* the handlers called in this instance
    None          \* no offer

AllOps == {"accept", "counter", "decline", "send", "execute", "cancel"}

ASSUME OpAssumption == Op \subseteq AllOps
ASSUME NoneAssumption == None \notin Offer

VARIABLES
    offer,        \* buyer_offers.status
    assignment,   \* the assignment_agreements row of each offer
    stage,        \* deals.stage
    campaign,     \* the deal's campaign, "held" is paused for the chosen buyer
    gate,         \* the deal may be marketed and assigned
    call,         \* the request each caller is in the middle of
    revived       \* history: assignments written by id after they were cancelled

vars == <<offer, assignment, stage, campaign, gate, call, revived>>

Open == {"received", "countered"}
OfferStatus == Open \cup {"accepted", "declined", "lapsed"}
LiveStatuses == {"draft", "sent", "executed"}
AssignmentStatus == LiveStatuses \cup {"none", "cancelled"}
Point == {"idle", "gate", "insert", "settle", "hold", "write", "reread",
          "finish", "stage", "offer", "evaluate", "restage", "resume"}

Idle == [op |-> "none", o |-> None, at |-> "idle"]

\* "declined" is rejected or withdrawn, "lapsed" expired or superseded.
TypeOK ==
    /\ offer \in [Offer -> OfferStatus]
    /\ assignment \in [Offer -> AssignmentStatus]
    /\ stage \in {"marketing", "assigned"}
    /\ campaign \in {"active", "held", "completed"}
    /\ gate \in BOOLEAN
    /\ call \in [Request -> [op: AllOps \cup {"none"}, o: Offer \cup {None}, at: Point]]
    /\ revived \in SUBSET Offer

\* A launched campaign has brought the offers in.
Init ==
    /\ offer = [o \in Offer |-> "received"]
    /\ assignment = [o \in Offer |-> "none"]
    /\ stage = "marketing"
    /\ campaign = "active"
    /\ gate = TRUE
    /\ call = [r \in Request |-> Idle]
    /\ revived = {}

-----------------------------------------------------------------------------

Begin(r, op, o, at) ==
    /\ op \in Op
    /\ call[r] = Idle
    /\ call' = [call EXCEPT ![r] = [op |-> op, o |-> o, at |-> at]]

At(r, op, at) == call[r].op = op /\ call[r].at = at

Goto(r, at) == call' = [call EXCEPT ![r].at = at]

Return(r) == call' = [call EXCEPT ![r] = Idle]

\* "update where id" does not see that the row was cancelled meanwhile.
WriteById(o, to) ==
    /\ assignment' = [assignment EXCEPT ![o] = to]
    /\ revived' = IF assignment[o] = "cancelled" THEN revived \cup {o} ELSE revived

\* assertEligible: read the gate and go on, or throw.
PassGate(r, next) ==
    /\ IF gate THEN Goto(r, next) ELSE Return(r)
    /\ UNCHANGED <<offer, assignment, stage, campaign, gate, revived>>

NoRows == UNCHANGED <<offer, assignment, stage, campaign, gate, revived>>

-----------------------------------------------------------------------------
\* OffersService.accept

AcceptOpen(r, o) ==
    /\ offer[o] \in Open
    /\ Begin(r, "accept", o, "gate")
    /\ NoRows

\* The unique offerId alone, without the check for a live assignment.
NeverAssigned(o) == assignment[o] = "none"

\* createFromOffer's transaction: no live assignment, and none from this offer.
NoneLive(o) ==
    /\ assignment[o] = "none"
    /\ \A p \in Offer : assignment[p] \notin LiveStatuses

AcceptInsertIgnoringConflict(r) ==
    LET o == call[r].o IN
    /\ At(r, "accept", "insert")
    /\ assignment' = IF NoneLive(o) THEN [assignment EXCEPT ![o] = "draft"] ELSE assignment
    /\ Goto(r, "settle")
    /\ UNCHANGED <<offer, stage, campaign, gate, revived>>

AcceptInsert(r) ==
    LET o == call[r].o IN
    /\ At(r, "accept", "insert")
    /\ \/ /\ NoneLive(o)
          /\ assignment' = [assignment EXCEPT ![o] = "draft"]
          /\ Goto(r, "settle")
       \/ /\ ~NoneLive(o)
          /\ Return(r)
          /\ UNCHANGED assignment
    /\ UNCHANGED <<offer, stage, campaign, gate, revived>>

AcceptSettle(r) ==
    /\ At(r, "accept", "settle")
    /\ offer' = [offer EXCEPT ![call[r].o] = "accepted"]
    /\ Goto(r, "hold")
    /\ UNCHANGED <<assignment, stage, campaign, gate, revived>>

AcceptHold(r) ==
    /\ At(r, "accept", "hold")
    /\ campaign' = IF campaign = "active" THEN "held" ELSE campaign
    /\ Return(r)
    /\ UNCHANGED <<offer, assignment, stage, gate, revived>>

Accept(r) ==
    \/ \E o \in Offer : AcceptOpen(r, o)
    \/ At(r, "accept", "gate") /\ PassGate(r, "insert")
    \/ AcceptInsert(r)
    \/ AcceptSettle(r)
    \/ AcceptHold(r)

-----------------------------------------------------------------------------
\* OffersService.counter, reject and withdraw, expireStale and create

CounterOpen(r, o) ==
    /\ offer[o] \in Open
    /\ Begin(r, "counter", o, "gate")
    /\ NoRows

CounterWrite(r) ==
    /\ At(r, "counter", "write")
    /\ offer' = [offer EXCEPT ![call[r].o] = "countered"]
    /\ Return(r)
    /\ UNCHANGED <<assignment, stage, campaign, gate, revived>>

Counter(r) ==
    \/ \E o \in Offer : CounterOpen(r, o)
    \/ At(r, "counter", "gate") /\ PassGate(r, "write")
    \/ CounterWrite(r)

\* The machine lets a person decline an accepted offer as well.
DeclineOpen(r, o) ==
    /\ offer[o] \in Open \cup {"accepted"}
    /\ Begin(r, "decline", o, "write")
    /\ NoRows

DeclineWrite(r) ==
    /\ At(r, "decline", "write")
    /\ offer' = [offer EXCEPT ![call[r].o] = "declined"]
    /\ Return(r)
    /\ UNCHANGED <<assignment, stage, campaign, gate, revived>>

Decline(r) == (\E o \in Offer : DeclineOpen(r, o)) \/ DeclineWrite(r)

\* One statement: an open offer expires, or the buyer's newer one supersedes it.
Lapse(o) ==
    /\ offer[o] \in Open
    /\ offer' = [offer EXCEPT ![o] = "lapsed"]
    /\ UNCHANGED <<assignment, stage, campaign, gate, call, revived>>

-----------------------------------------------------------------------------
\* createEnvelope for an assignment, then AssignmentsService.onEnvelopeSent

SendOpen(r, o) ==
    /\ assignment[o] = "draft"
    /\ Begin(r, "send", o, "gate")
    /\ NoRows

\* DocuSign has the envelope; the row is read again before it is written.
SendReread(r) ==
    /\ At(r, "send", "reread")
    /\ IF assignment[call[r].o] = "draft" THEN Goto(r, "write") ELSE Return(r)
    /\ NoRows

SendWrite(r) ==
    /\ At(r, "send", "write")
    /\ WriteById(call[r].o, "sent")
    /\ Return(r)
    /\ UNCHANGED <<offer, stage, campaign, gate>>

Send(r) ==
    \/ \E o \in Offer : SendOpen(r, o)
    \/ At(r, "send", "gate") /\ PassGate(r, "reread")
    \/ SendReread(r)
    \/ SendWrite(r)

-----------------------------------------------------------------------------
\* AssignmentsService.markExecuted and onEnvelopeCompleted, then applyExecuted

ExecuteOpen(r, o) ==
    /\ assignment[o] \in {"draft", "sent"}
    /\ Begin(r, "execute", o, "gate")
    /\ NoRows

ExecuteWrite(r) ==
    /\ At(r, "execute", "write")
    /\ WriteById(call[r].o, "executed")
    /\ Goto(r, "finish")
    /\ UNCHANGED <<offer, stage, campaign, gate>>

\* The campaigns are completed (and every link revoked).
ExecuteFinish(r) ==
    /\ At(r, "execute", "finish")
    /\ campaign' = "completed"
    /\ Goto(r, "stage")
    /\ UNCHANGED <<offer, assignment, stage, gate, revived>>

ExecuteStage(r) ==
    /\ At(r, "execute", "stage")
    /\ stage' = IF \E o \in Offer : assignment[o] = "executed" THEN "assigned" ELSE stage
    /\ Return(r)
    /\ UNCHANGED <<offer, assignment, campaign, gate, revived>>

Execute(r) ==
    \/ \E o \in Offer : ExecuteOpen(r, o)
    \/ At(r, "execute", "gate") /\ PassGate(r, "write")
    \/ ExecuteWrite(r)
    \/ ExecuteFinish(r)
    \/ ExecuteStage(r)

-----------------------------------------------------------------------------
\* AssignmentsService.cancel, before any closing

CancelOpen(r, o) ==
    /\ assignment[o] \in LiveStatuses
    /\ Begin(r, "cancel", o, "write")
    /\ NoRows

CancelWrite(r) ==
    /\ At(r, "cancel", "write")
    /\ assignment' = [assignment EXCEPT ![call[r].o] = "cancelled"]
    /\ Goto(r, "offer")
    /\ UNCHANGED <<offer, stage, campaign, gate, revived>>

CancelOffer(r) ==
    LET o == call[r].o IN
    /\ At(r, "cancel", "offer")
    /\ offer' = [offer EXCEPT ![o] = IF @ = "accepted" THEN "declined" ELSE @]
    /\ Goto(r, "evaluate")
    /\ UNCHANGED <<assignment, stage, campaign, gate, revived>>

\* The stage is read, then the gate: only a good contract goes back to market.
CancelEvaluate(r) ==
    /\ At(r, "cancel", "evaluate")
    /\ IF ~gate THEN Return(r)
       ELSE Goto(r, IF stage = "assigned" THEN "restage" ELSE "resume")
    /\ NoRows

CancelRestage(r) ==
    /\ At(r, "cancel", "restage")
    /\ IF stage = "assigned" /\ ~gate
       THEN Return(r) /\ UNCHANGED stage
       ELSE Goto(r, "resume") /\ stage' = "marketing"
    /\ UNCHANGED <<offer, assignment, campaign, gate, revived>>

CancelResume(r) ==
    /\ At(r, "cancel", "resume")
    /\ campaign' = IF campaign = "held" THEN "active" ELSE campaign
    /\ Return(r)
    /\ UNCHANGED <<offer, assignment, stage, gate, revived>>

Cancel(r) ==
    \/ \E o \in Offer : CancelOpen(r, o)
    \/ CancelWrite(r)
    \/ CancelOffer(r)
    \/ CancelEvaluate(r)
    \/ CancelRestage(r)
    \/ CancelResume(r)

-----------------------------------------------------------------------------

\* The seller contract ends, or any other check of the gate changes.
GateChanges ==
    /\ gate' = ~gate
    /\ UNCHANGED <<offer, assignment, stage, campaign, call, revived>>

\* A statement fails or the API stops: the request never goes on.
Abort(r) ==
    /\ call[r] # Idle
    /\ Return(r)
    /\ NoRows

Next ==
    \/ \E r \in Request :
          Accept(r) \/ Counter(r) \/ Decline(r) \/ Send(r) \/ Execute(r) \/ Cancel(r) \/ Abort(r)
    \/ \E o \in Offer : Lapse(o)
    \/ GateChanges

Spec == Init /\ [][Next]_vars

-----------------------------------------------------------------------------

\* "One live assignment per deal, even when two people accept two offers at the
\* same moment" (createFromOffer): however accepts, envelopes, executions and
\* cancellations interleave, of two live assignments one at least is a row that
\* an envelope or an execution wrote after it had been cancelled.
OneLiveUnlessRevived ==
    \A o, p \in Offer :
        /\ assignment[o] \in LiveStatuses /\ assignment[p] \in LiveStatuses
        /\ o # p
        => o \in revived \/ p \in revived

\* An offer is marked accepted only after its assignment exists, so a request
\* that dies in between leaves an assignment without an accepted offer and
\* never the reverse.
AcceptedHasRow ==
    \A o \in Offer : offer[o] = "accepted" => assignment[o] # "none"

=============================================================================
