----------------------------- MODULE DealRecord -----------------------------
(***************************************************************************)
(* The rows Halo keeps about one deal that is being contract-flipped, and   *)
(* the questions every disposition service asks of them: which seller       *)
(* contract it relies on, whether the gate passes, whether the stage may    *)
(* move.  The services (SellerContract, BuyerOffers, Assignments, Campaigns,*)
(* ClosingDesk) are modules of their own over these variables, and          *)
(* ContractFlipping composes them.                                          *)
(*                                                                          *)
(* One step is one handler call.  A handler that throws after its first     *)
(* writes keeps them: the code opens a database transaction in one place    *)
(* only (accepting an offer), so a failure half way is a step with a part   *)
(* of the effect.  AssignmentRace and LaunchRace open the handlers up and   *)
(* interleave them.                                                         *)
(***************************************************************************)
EXTENDS Naturals, Sequences, FiniteSets

CONSTANTS
    Offer,            \* buyer offers that may arrive on the deal
    Buyer,            \* buyers
    BuyerOf,          \* who makes each offer
    Clause,           \* what an assignment clause may turn out to say
    StartStage,       \* the stages the deal may be in when it is first looked at
    FundsRule,        \* TRUE: revenueRecognition is on_funds_received
    MaxAgreements     \* bound: seller contracts ever recorded on the deal

AllClauses == {"unknown", "permitted", "consent_missing", "consent_on_file", "prohibited"}

ASSUME OfferAssumption == BuyerOf \in [Offer -> Buyer]
ASSUME ClauseAssumption == Clause \subseteq AllClauses
ASSUME StartAssumption == StartStage \subseteq {"new", "contacted", "negotiating"}
ASSUME RuleAssumption == FundsRule \in BOOLEAN
ASSUME BoundAssumption == MaxAgreements \in Nat

VARIABLES
    stage,        \* deals.stage
    agreements,   \* purchase_agreements of the deal, oldest first
    cleared,      \* every other fact the gate reads (market, licences, notices, issues) is in order
    campaign,     \* the deal's newest disposition campaign
    links,        \* whose dealShareLinks are not revoked
    offers,       \* buyer_offers
    assignment,   \* the assignment_agreements row of each offer (offerId is unique)
    file,         \* closing_files.status ("open" also stands for clear_to_close)
    revenue       \* deal_economics.revenueStatus, "none" while there is no row

vars == <<stage, agreements, cleared, campaign, links, offers, assignment, file, revenue>>

-----------------------------------------------------------------------------

Stages == {"new", "contacted", "negotiating", "under_contract", "marketing",
           "assigned", "closed", "lost"}

\* "ended" stands for the two statuses terminate() writes, terminated and expired.
AgreementStatus == {"draft", "sent", "executed", "ended"}

\* envelope: contractId is set.  doc: executedDocumentId is set.  late: the
\* closing deadline has passed.  clause "unknown" also stands for a missing
\* price or deadline, which verify() refuses in the same way.  checked, a
\* history: no term was changed since a person compared the terms with the copy;
\* a signed extension is no change.
Agreement == [status: AgreementStatus, envelope: BOOLEAN, doc: BOOLEAN,
              verified: BOOLEAN, checked: BOOLEAN, clause: AllClauses, late: BOOLEAN]

\* "held" is paused with endedReason 'buyer selected'.
CampaignStatus == {"none", "draft", "active", "paused", "held",
                   "completed", "cancelled", "expired"}

\* Buyer links of the newest campaign, and of a draft that was replaced after a
\* launch that failed half way.
LinkOwners == {"current", "replaced"}

OfferStatus == {"none", "received", "countered", "accepted", "rejected",
                "withdrawn", "expired", "superseded"}

AssignmentStatus == {"none", "draft", "sent", "executed", "cancelled"}

FileStatus == {"none", "open", "closed", "cancelled"}

RevenueStatus == {"none", "projected", "realized", "lost"}

\* ready: written by a person or by the buyer, or confirmed by a person.  An
\* indication of interest behaves as an amount nobody ever confirms.
OfferRow == [status: OfferStatus, ready: BOOLEAN]

NoOffer == [status |-> "none", ready |-> FALSE]

-----------------------------------------------------------------------------

NextStages ==
    [s \in Stages |->
        CASE s = "new"            -> {"contacted", "lost"}
          [] s = "contacted"      -> {"negotiating", "lost"}
          [] s = "negotiating"    -> {"under_contract", "lost"}
          [] s = "under_contract" -> {"marketing", "lost"}
          [] s = "marketing"      -> {"assigned", "lost"}
          [] s = "assigned"       -> {"closed", "marketing", "lost"}
          [] OTHER                -> {}]

OpenAgreementStatuses == {"draft", "sent", "executed"}

\* What createFromOffer and cancelClosing count as live.
LiveStatuses == {"draft", "sent", "executed"}

Live(o) == assignment[o] \in LiveStatuses

HasExecuted(asg) == \E o \in Offer : asg[o] = "executed"

Newest == Len(agreements)

OpenAgreements == {i \in 1..Newest : agreements[i].status \in OpenAgreementStatuses}

IsOpenAgreement(i) == i \in OpenAgreements /\ \A j \in OpenAgreements : j <= i

NewestExecuted == Newest > 0 /\ agreements[Newest].status = "executed"

AssignableClauses == {"permitted", "consent_on_file"}

\* The disposition gate as the deal's rows decide it: the newest agreement and
\* every other check.
Gate(agr) ==
    LET n == Len(agr) IN
    /\ cleared
    /\ n > 0
    /\ agr[n].status = "executed"
    /\ agr[n].doc /\ agr[n].verified
    /\ agr[n].clause \in AssignableClauses
    /\ ~agr[n].late

Eligible == Gate(agreements)

\* The contract_live or agreement_on_file check fails.
ContractGone == ~NewestExecuted \/ agreements[Newest].late

-----------------------------------------------------------------------------

\* updateStage without assertStagePreconditions, as it was before the gate.
CanEnterUngated(to, agr, asg, f) ==
    to = stage \/ to \in NextStages[stage]

\* DealsService.updateStage: the machine, then what the stage requires of the
\* rows as they are when it is called.
CanEnter(to, agr, asg, f) ==
    \/ to = stage
    \/ /\ to \in NextStages[stage]
       /\ to = "marketing" => Gate(agr)
       /\ to = "assigned" => HasExecuted(asg)
       /\ to = "closed" => f = "closed"

\* The last write of a handler that ends in updateStage: a refusal throws and
\* leaves the stage, and everything the handler wrote before, as they are.
EnterStage(to, agr, asg, f) ==
    stage' = IF CanEnter(to, agr, asg, f) THEN to ELSE stage

\* ClosingService.ensureFile: an existing file is returned, a cancelled one too.
EnsuredFile == IF file = "none" THEN "open" ELSE file

\* The upsert with the status among the fields it updates.
OpenedRevenueAnew == "projected"

\* syncContractPrice and launch create the economics row as projected.
OpenedRevenue == IF revenue = "none" THEN "projected" ELSE revenue

\* updateMany where status is draft, active or paused.
EndedCampaign(as) ==
    IF campaign \in {"draft", "active", "paused", "held"} THEN as ELSE campaign

-----------------------------------------------------------------------------

\* Every variable holds a value its column can hold.
TypeOK ==
    /\ stage \in Stages
    /\ agreements \in Seq(Agreement)
    /\ cleared \in BOOLEAN
    /\ campaign \in CampaignStatus
    /\ links \subseteq LinkOwners
    /\ offers \in [Offer -> OfferRow]
    /\ assignment \in [Offer -> AssignmentStatus]
    /\ file \in FileStatus
    /\ revenue \in RevenueStatus

\* A deal nobody has contracted yet.
Init ==
    /\ stage \in StartStage
    /\ agreements = <<>>
    /\ cleared \in BOOLEAN
    /\ campaign = "none"
    /\ links = {}
    /\ offers = [o \in Offer |-> NoOffer]
    /\ assignment = [o \in Offer |-> "none"]
    /\ file = "none"
    /\ revenue = "none"

\* PUT /deals/:id/stage: a person moves the deal.
MoveStage(to) ==
    /\ to # stage
    /\ CanEnter(to, agreements, assignment, file)
    /\ stage' = to
    /\ UNCHANGED <<agreements, cleared, campaign, links, offers, assignment, file, revenue>>

\* The market, the licences, the disclosures on file, the cancellation window,
\* the tax-sale record or the blocking issues change: the gate's other checks.
OtherChecksChange ==
    /\ cleared' = ~cleared
    /\ UNCHANGED <<stage, agreements, campaign, links, offers, assignment, file, revenue>>

\* Time: the closing deadline of the contract relied on passes.
DeadlinePasses ==
    /\ Newest > 0
    /\ ~agreements[Newest].late
    /\ agreements[Newest].clause # "unknown"
    /\ agreements' = [agreements EXCEPT ![Newest].late = TRUE]
    /\ UNCHANGED <<stage, cleared, campaign, links, offers, assignment, file, revenue>>

=============================================================================
