------------------------ MODULE ContractFlippingProofs ------------------------
(***************************************************************************)
(* Theorems about ContractFlipping for any number of offers, buyers and     *)
(* seller contracts, every recognition rule and every set of clauses.       *)
(***************************************************************************)
EXTENDS ContractFlipping, SequenceTheorems, TLAPS

\* The steps of Next, one disjunct per handler.
LEMMA StepCases ==
    ASSUME Next
    PROVE  \/ \E status \in {"draft", "executed"}, c \in Clause : Record(status, c)
           \/ \E i \in 1..Newest, changed \in SUBSET Terms, c \in Clause, late \in BOOLEAN :
                 UpdateTerms(i, changed, c, late)
           \/ \E i \in 1..Newest : MarkExecuted(i)
           \/ \E i \in 1..Newest : Verify(i)
           \/ \E i \in 1..Newest : Extend(i)
           \/ \E i \in 1..Newest : Terminate(i)
           \/ \E i \in 1..Newest, stored \in BOOLEAN : SellerEnvelopeCompleted(i, stored)
           \/ SendSellerEnvelope
           \/ BuyerOffersNext
           \/ AssignmentsNext
           \/ CampaignsNext
           \/ ClosingNext
           \/ \E to \in Stages : MoveStage(to)
           \/ OtherChecksChange
           \/ DeadlinePasses
  BY DEF Next, SellerContractNext

\* A patch and a verification write the contracts and the economics; only the
\* verification also moves the stage.
LEMMA PatchFrame ==
    ASSUME NEW i, NEW changed, NEW c, NEW late, UpdateTerms(i, changed, c, late)
    PROVE  UNCHANGED <<stage, cleared, campaign, links, offers, assignment, file>>
  BY DEF UpdateTerms

LEMMA VerifyFrame ==
    ASSUME NEW i, Verify(i)
    PROVE  UNCHANGED <<cleared, campaign, links, offers, assignment, file>>
  BY DEF Verify

\* Replacing a contract by a contract, or recording one more, leaves a
\* sequence of contracts.
LEMMA AgreementsAt ==
    ASSUME NEW s \in Seq(Agreement), NEW i \in 1..Len(s), NEW a \in Agreement
    PROVE  [s EXCEPT ![i] = a] \in Seq(Agreement)
  BY ExceptSeq

LEMMA AgreementsMore ==
    ASSUME NEW s \in Seq(Agreement), NEW a \in Agreement
    PROVE  Append(s, a) \in Seq(Agreement)
  BY AppendProperties

\* What the helpers return is a value of the column it is written to.
LEMMA HelperTypes ==
    ASSUME TypeOK
    PROVE  /\ EnsuredFile \in FileStatus
           /\ OpenedRevenue \in RevenueStatus
           /\ \A as \in CampaignStatus : EndedCampaign(as) \in CampaignStatus
           /\ \A to \in Stages : \A agr, asg, f :
                EnterStage(to, agr, asg, f) => stage' \in Stages
           /\ AfterExecuted => stage' \in Stages /\ file' \in FileStatus
           /\ \A o \in Offer : \A cause : OfferDropped(o, cause) \in [Offer -> OfferRow]
  <1>1. EnsuredFile \in FileStatus
    BY DEF TypeOK, EnsuredFile, FileStatus
  <1>2. OpenedRevenue \in RevenueStatus
    BY DEF TypeOK, OpenedRevenue, RevenueStatus
  <1>3. \A as \in CampaignStatus : EndedCampaign(as) \in CampaignStatus
    BY DEF TypeOK, EndedCampaign
  <1>4. \A to \in Stages : \A agr, asg, f : EnterStage(to, agr, asg, f) => stage' \in Stages
    BY DEF TypeOK, EnterStage
  <1>5. AfterExecuted => stage' \in Stages /\ file' \in FileStatus
    BY <1>1 DEF TypeOK, AfterExecuted, Stages
  <1>6. \A o \in Offer : \A cause : OfferDropped(o, cause) \in [Offer -> OfferRow]
    BY DEF TypeOK, OfferDropped, OfferRow, OfferStatus
  <1>7. QED
    BY <1>1, <1>2, <1>3, <1>4, <1>5, <1>6

-----------------------------------------------------------------------------
\* Every row holds a value its columns can hold.

LEMMA TypeInit == Init => TypeOK
  <1> SUFFICES ASSUME Init PROVE TypeOK
    OBVIOUS
  <1>1. agreements \in Seq(Agreement)
    BY DEF Init
  <1>2. stage \in Stages
    BY StartAssumption DEF Init, Stages
  <1>3. offers \in [Offer -> OfferRow]
    BY DEF Init, NoOffer, OfferRow, OfferStatus
  <1>4. QED
    BY <1>1, <1>2, <1>3
       DEF Init, TypeOK, CampaignStatus, LinkOwners, AssignmentStatus, FileStatus, RevenueStatus

LEMMA TypeStep == TypeOK /\ [Next]_vars => TypeOK'
  <1> SUFFICES ASSUME TypeOK, [Next]_vars PROVE TypeOK'
    OBVIOUS
  <1>0. \A i \in 1..Newest : agreements[i] \in Agreement
    BY ElementOfSeq DEF TypeOK, Newest
  <1>1. ASSUME NEW status \in {"draft", "executed"}, NEW c \in Clause, Record(status, c)
        PROVE  TypeOK'
    <2>1. agreements' \in Seq(Agreement)
      <3>1. [status |-> status, envelope |-> FALSE, doc |-> status = "executed",
             verified |-> FALSE, checked |-> FALSE, clause |-> c, late |-> FALSE] \in Agreement
        BY ClauseAssumption DEF Agreement, AgreementStatus
      <3>2. QED
        BY <1>1, <3>1, AgreementsMore DEF Record, TypeOK
    <2>2. stage' \in Stages /\ file' \in FileStatus /\ revenue' \in RevenueStatus
      BY <1>1, HelperTypes DEF Record, TypeOK
    <2>3. QED
      BY <1>1, <2>1, <2>2 DEF Record, TypeOK
  <1>2. ASSUME NEW i \in 1..Newest, NEW changed \in SUBSET Terms, NEW c \in Clause, NEW late \in BOOLEAN,
               UpdateTerms(i, changed, c, late)
        PROVE  TypeOK'
    <2> DEFINE a == [agreements[i] EXCEPT !.clause = c, !.late = late,
                        !.verified = @ /\ changed \cap VERIFIED_TERMS = {}, !.checked = @ /\ changed = {}]
    <2>1. a \in Agreement
      BY <1>0, ClauseAssumption DEF Agreement
    <2>2. agreements' = [agreements EXCEPT ![i] = a]
      BY <1>0, <1>2 DEF UpdateTerms, Agreement, TypeOK
    <2>3. agreements' \in Seq(Agreement)
      BY <2>1, <2>2, AgreementsAt DEF TypeOK, Newest
    <2>4. QED
      BY <1>2, <2>3, HelperTypes DEF UpdateTerms, TypeOK
  <1>3. ASSUME NEW i \in 1..Newest, MarkExecuted(i)
        PROVE  TypeOK'
    <2> DEFINE a == [agreements[i] EXCEPT !.status = "executed", !.doc = TRUE]
    <2>1. a \in Agreement
      BY <1>0 DEF Agreement, AgreementStatus
    <2>2. agreements' = [agreements EXCEPT ![i] = a]
      BY <1>0, <1>3 DEF MarkExecuted, Agreement, TypeOK
    <2>3. agreements' \in Seq(Agreement)
      BY <2>1, <2>2, AgreementsAt DEF TypeOK, Newest
    <2>4. stage' \in Stages /\ file' \in FileStatus
      BY <1>3, HelperTypes DEF MarkExecuted
    <2>5. QED
      BY <1>3, <2>3, <2>4 DEF MarkExecuted, TypeOK
  <1>4. ASSUME NEW i \in 1..Newest, Verify(i)
        PROVE  TypeOK'
    <2> DEFINE a == [agreements[i] EXCEPT !.verified = TRUE, !.checked = TRUE]
    <2>1. a \in Agreement
      BY <1>0 DEF Agreement
    <2>2. agreements' = [agreements EXCEPT ![i] = a]
      BY <1>0, <1>4 DEF Verify, Agreement, TypeOK
    <2>3. stage' \in Stages
      BY <1>4 DEF Verify, TypeOK, Stages
    <2>4. agreements' \in Seq(Agreement)
      BY <2>1, <2>2, AgreementsAt DEF TypeOK, Newest
    <2>5. revenue' \in RevenueStatus
      BY <1>4, HelperTypes DEF Verify
    <2>6. QED
      BY <1>4, <2>3, <2>4, <2>5 DEF Verify, TypeOK
  <1>5. ASSUME NEW i \in 1..Newest, Extend(i)
        PROVE  TypeOK'
    <2> DEFINE a == [agreements[i] EXCEPT !.late = FALSE]
    <2>1. a \in Agreement
      BY <1>0 DEF Agreement
    <2>2. agreements' = [agreements EXCEPT ![i] = a]
      BY <1>0, <1>5 DEF Extend, Agreement, TypeOK
    <2>3. QED
      BY <1>5, <2>1, <2>2, AgreementsAt DEF Extend, TypeOK, Newest
  <1>6. ASSUME NEW i \in 1..Newest, Terminate(i)
        PROVE  TypeOK'
    <2> DEFINE a == [agreements[i] EXCEPT !.status = "ended"]
    <2>1. a \in Agreement
      BY <1>0 DEF Agreement, AgreementStatus
    <2>2. agreements' = [agreements EXCEPT ![i] = a]
      BY <1>0, <1>6 DEF Terminate, Agreement, TypeOK
    <2>3. campaign' \in CampaignStatus
      BY <1>6, HelperTypes DEF Terminate, CampaignStatus
    <2>4. QED
      BY <1>6, <2>1, <2>2, <2>3, AgreementsAt DEF Terminate, TypeOK, Newest
  <1>7. ASSUME NEW i \in 1..Newest, NEW stored \in BOOLEAN, SellerEnvelopeCompleted(i, stored)
        PROVE  TypeOK'
    <2> DEFINE a == [agreements[i] EXCEPT !.status = "executed", !.doc = @ \/ stored]
    <2>1. a \in Agreement
      BY <1>0 DEF Agreement, AgreementStatus
    <2>2. agreements' = [agreements EXCEPT ![i] = a]
      BY <1>0, <1>7 DEF SellerEnvelopeCompleted, Agreement, TypeOK
    <2>3. agreements' \in Seq(Agreement)
      BY <2>1, <2>2, AgreementsAt DEF TypeOK, Newest
    <2>4. stage' \in Stages /\ file' \in FileStatus
      BY <1>7, HelperTypes DEF SellerEnvelopeCompleted
    <2>5. QED
      BY <1>7, <2>3, <2>4 DEF SellerEnvelopeCompleted, TypeOK
  <1>8. ASSUME SendSellerEnvelope
        PROVE  TypeOK'
    <2>1. ASSUME NEW i \in 1..Newest,
                 agreements' = [agreements EXCEPT ![i].status = "sent", ![i].envelope = TRUE]
          PROVE  agreements' \in Seq(Agreement)
      <3> DEFINE a == [agreements[i] EXCEPT !.status = "sent", !.envelope = TRUE]
      <3>1. a \in Agreement
        BY <1>0 DEF Agreement, AgreementStatus
      <3>2. agreements' = [agreements EXCEPT ![i] = a]
        BY <1>0, <2>1 DEF Agreement, TypeOK
      <3>3. QED
        BY <3>1, <3>2, AgreementsAt DEF TypeOK, Newest
    <2>2. [status |-> "sent", envelope |-> TRUE, doc |-> FALSE,
           verified |-> FALSE, checked |-> FALSE, clause |-> "unknown", late |-> FALSE] \in Agreement
      BY DEF Agreement, AgreementStatus, AllClauses
    <2>3. agreements' \in Seq(Agreement)
      BY <1>8, <2>1, <2>2, AgreementsMore DEF SendSellerEnvelope, TypeOK
    <2>4. QED
      BY <1>8, <2>3 DEF SendSellerEnvelope, TypeOK, Stages
  <1>9. ASSUME BuyerOffersNext
        PROVE  TypeOK'
    <2>1. ASSUME NEW o \in Offer, NEW ready \in BOOLEAN, Receive(o, ready)
          PROVE  TypeOK'
      BY <2>1 DEF Receive, TypeOK, OfferRow, OfferStatus
    <2>2. ASSUME NEW o \in Offer, Confirm(o)
          PROVE  TypeOK'
      BY <2>2 DEF Confirm, TypeOK, OfferRow
    <2>3. ASSUME NEW o \in Offer, NEW to \in OfferStatus, SetOffer(o, to)
          PROVE  offers' \in [Offer -> OfferRow]
      BY <2>3 DEF SetOffer, TypeOK, OfferRow
    <2>4. ASSUME NEW o \in Offer, Counter(o)
          PROVE  TypeOK'
      BY <2>3, <2>4 DEF Counter, TypeOK, OfferStatus
    <2>5. ASSUME NEW o \in Offer, NEW to \in {"rejected", "withdrawn"}, Decline(o, to)
          PROVE  TypeOK'
      BY <2>3, <2>5 DEF Decline, TypeOK, OfferStatus
    <2>6. ASSUME NEW o \in Offer, ExpireOffer(o)
          PROVE  TypeOK'
      BY <2>3, <2>6 DEF ExpireOffer, TypeOK, OfferStatus
    <2>7. ASSUME NEW o \in Offer, NEW changesStructure \in BOOLEAN, Accept(o, changesStructure)
          PROVE  TypeOK'
      <3>1. offers' \in [Offer -> OfferRow]
        BY <2>3, <2>7 DEF Accept, TypeOK, OfferStatus
      <3>2. assignment' \in [Offer -> AssignmentStatus]
        BY <2>7 DEF Accept, TypeOK, AssignmentStatus
      <3>3. campaign' \in CampaignStatus /\ revenue' \in RevenueStatus
        BY <2>7 DEF Accept, TypeOK, CampaignStatus, RevenueStatus
      <3>4. QED
        BY <2>7, <3>1, <3>2, <3>3, HelperTypes DEF Accept, TypeOK
    <2>8. QED
      BY <1>9, <2>1, <2>2, <2>4, <2>5, <2>6, <2>7 DEF BuyerOffersNext
  <1>10. ASSUME AssignmentsNext
         PROVE  TypeOK'
    <2>1. ASSUME NEW o \in Offer, SendAssignmentEnvelope(o)
          PROVE  TypeOK'
      BY <2>1 DEF SendAssignmentEnvelope, TypeOK, AssignmentStatus
    <2>2. ASSUME NEW o \in Offer, Execute(o)
          PROVE  TypeOK'
      <3>1. stage' \in Stages
        BY <2>2, HelperTypes DEF Execute, Stages
      <3>2. QED
        BY <2>2, <3>1 DEF Execute, TypeOK, AssignmentStatus, CampaignStatus
    <2>3. ASSUME NEW o \in Offer, NEW cause \in {"buyer_default", "our_decision"}, Cancel(o, cause)
          PROVE  TypeOK'
      BY <2>3, HelperTypes DEF Cancel, TypeOK, AssignmentStatus, CampaignStatus, Stages
    <2>4. QED
      BY <1>10, <2>1, <2>2, <2>3 DEF AssignmentsNext
  <1>11. ASSUME CampaignsNext
         PROVE  TypeOK'
    BY <1>11, HelperTypes
       DEF CampaignsNext, Prepare, Launch, LaunchFailsHalfway, Pause, Resume, CancelCampaign,
           SweepCampaign, TypeOK, CampaignStatus, LinkOwners, CurrentRevoked
  <1>12. ASSUME ClosingNext
         PROVE  TypeOK'
    <2>1. CASE OpenFile
      BY <2>1, HelperTypes DEF OpenFile, TypeOK
    <2>2. ASSUME NEW paid \in BOOLEAN, ConfirmClosing(paid)
          PROVE  TypeOK'
      <3>1. stage' \in Stages /\ campaign' \in CampaignStatus
        BY <2>2, HelperTypes DEF ConfirmClosing, Stages, CampaignStatus
      <3>2. QED
        BY <2>2, <3>1 DEF ConfirmClosing, TypeOK, FileStatus, RevenueStatus
    <2>3. CASE RecordFee
      BY <2>3 DEF RecordFee, TypeOK, RevenueStatus
    <2>4. ASSUME NEW markLost \in BOOLEAN, CancelClosing(markLost)
          PROVE  TypeOK'
      <3>1. stage' \in Stages /\ campaign' \in CampaignStatus
        BY <2>4, HelperTypes DEF CancelClosing, Stages, CampaignStatus, TypeOK
      <3>2. assignment' \in [Offer -> AssignmentStatus]
        BY <2>4 DEF CancelClosing, TypeOK, AssignmentStatus
      <3>3. QED
        BY <2>4, <3>1, <3>2 DEF CancelClosing, TypeOK, FileStatus, RevenueStatus
    <2>5. QED
      BY <1>12, <2>1, <2>2, <2>3, <2>4 DEF ClosingNext
  <1>13. ASSUME NEW to \in Stages, MoveStage(to)
         PROVE  TypeOK'
    BY <1>13 DEF MoveStage, TypeOK
  <1>14. CASE OtherChecksChange
    BY <1>14 DEF OtherChecksChange, TypeOK
  <1>15. CASE DeadlinePasses
    <2> DEFINE a == [agreements[Newest] EXCEPT !.late = TRUE]
    <2>1. Newest \in 1..Newest
      BY <1>15, LenProperties DEF DeadlinePasses, TypeOK, Newest
    <2>2. a \in Agreement
      BY <1>0, <2>1 DEF Agreement
    <2>3. agreements' = [agreements EXCEPT ![Newest] = a]
      BY <1>0, <1>15, <2>1 DEF DeadlinePasses, Agreement, TypeOK
    <2>4. agreements' \in Seq(Agreement)
      BY <2>1, <2>2, <2>3, AgreementsAt DEF TypeOK, Newest
    <2>5. QED
      BY <1>15, <2>4 DEF DeadlinePasses, TypeOK
  <1>16. CASE UNCHANGED vars
    BY <1>16 DEF vars, TypeOK
  <1>17. QED
    BY <1>1, <1>2, <1>3, <1>4, <1>5, <1>6, <1>7, <1>8, <1>9, <1>10, <1>11, <1>12,
       <1>13, <1>14, <1>15, <1>16, StepCases

\* Every reachable deal is made of values its columns can hold.
THEOREM TypeCorrect == Spec => []TypeOK
  BY TypeInit, TypeStep, PTL DEF Spec

-----------------------------------------------------------------------------
\* The sale: assignments, the closing and the money.

\* A step of a handler that is no party to the sale: it may open the file or
\* start the projection, and it closes no deal whose file is not closed.
Aside ==
    /\ UNCHANGED assignment
    /\ file' = file \/ (file = "none" /\ file' = "open")
    /\ revenue' = revenue \/ (revenue = "none" /\ revenue' = "projected")
    /\ stage' = "closed" => stage = "closed" \/ file = "closed"

\* Seven handlers are the sale; every other one stands aside.
LEMMA SaleCases ==
    ASSUME [Next]_vars
    PROVE  \/ \E o \in Offer, changesStructure \in BOOLEAN : Accept(o, changesStructure)
           \/ \E o \in Offer : SendAssignmentEnvelope(o)
           \/ \E o \in Offer : Execute(o)
           \/ \E o \in Offer, cause \in {"buyer_default", "our_decision"} : Cancel(o, cause)
           \/ \E paid \in BOOLEAN : ConfirmClosing(paid)
           \/ RecordFee
           \/ \E markLost \in BOOLEAN : CancelClosing(markLost)
           \/ Aside
  <1>1. ASSUME NEW status \in {"draft", "executed"}, NEW c \in Clause, Record(status, c)
        PROVE  Aside
    BY <1>1 DEF Record, AfterExecuted, EnsuredFile, OpenedRevenue, Aside
  <1>2. ASSUME NEW i \in 1..Newest, NEW changed \in SUBSET Terms, NEW c \in Clause, NEW late \in BOOLEAN,
               UpdateTerms(i, changed, c, late)
        PROVE  Aside
    <2>1. revenue' \in {revenue, OpenedRevenue} /\ UNCHANGED <<stage, assignment, file>>
      BY <1>2 DEF UpdateTerms
    <2>2. QED
      BY <2>1 DEF OpenedRevenue, Aside
  <1>3. ASSUME NEW i \in 1..Newest, MarkExecuted(i)
        PROVE  Aside
    BY <1>3 DEF MarkExecuted, AfterExecuted, EnsuredFile, Aside
  <1>4. ASSUME NEW i \in 1..Newest, Verify(i)
        PROVE  Aside
    <2>1. /\ stage' = stage \/ stage' = "marketing"
          /\ revenue' = OpenedRevenue
          /\ UNCHANGED <<assignment, file>>
      BY <1>4 DEF Verify
    <2>2. QED
      BY <2>1 DEF OpenedRevenue, Aside
  <1>5. ASSUME NEW i \in 1..Newest, Extend(i) \/ Terminate(i)
        PROVE  Aside
    BY <1>5 DEF Extend, Terminate, Aside
  <1>6. ASSUME NEW i \in 1..Newest, NEW stored \in BOOLEAN, SellerEnvelopeCompleted(i, stored)
        PROVE  Aside
    BY <1>6 DEF SellerEnvelopeCompleted, AfterExecuted, EnsuredFile, Aside
  <1>7. CASE SendSellerEnvelope
    BY <1>7 DEF SendSellerEnvelope, Aside
  <1>8. ASSUME BuyerOffersNext
        PROVE  Aside \/ \E o \in Offer, changesStructure \in BOOLEAN : Accept(o, changesStructure)
    BY <1>8 DEF BuyerOffersNext, Receive, Confirm, Counter, Decline, ExpireOffer, Aside
  <1>9. CASE CampaignsNext
    BY <1>9 DEF CampaignsNext, Prepare, Launch, LaunchFailsHalfway, Pause, Resume,
                CancelCampaign, SweepCampaign, OpenedRevenue, Aside
  <1>10. CASE OpenFile
    BY <1>10 DEF OpenFile, EnsuredFile, Aside
  <1>11. ASSUME NEW to \in Stages, MoveStage(to)
         PROVE  Aside
    BY <1>11 DEF MoveStage, CanEnter, Aside
  <1>12. CASE OtherChecksChange \/ DeadlinePasses \/ UNCHANGED vars
    BY <1>12 DEF OtherChecksChange, DeadlinePasses, vars, Aside
  <1>13. QED
    BY <1>1, <1>2, <1>3, <1>4, <1>5, <1>6, <1>7, <1>8, <1>9, <1>10, <1>11, <1>12,
       StepCases DEF AssignmentsNext, ClosingNext

\* Two assignments live at once would need an insert beside a live one, or a
\* row that comes back to life; a settled file keeps the assignment it settled
\* on because a closed file refuses both cancellations; and only a closed file
\* realizes revenue.  The three are inductive together.
SaleInv ==
    /\ TypeOK
    /\ OneLiveAssignment
    /\ ClosedOnAnAssignment
    /\ RealizedMeansClosed

LEMMA SaleInit == Init => SaleInv
  <1> SUFFICES ASSUME Init PROVE SaleInv
    OBVIOUS
  <1>1. TypeOK
    BY TypeInit
  <1>2. stage # "closed"
    BY StartAssumption DEF Init
  <1>3. QED
    BY <1>1, <1>2 DEF Init, SaleInv, OneLiveAssignment, Live, LiveStatuses,
                      ClosedOnAnAssignment, RealizedMeansClosed

LEMMA SaleStep == SaleInv /\ [Next]_vars => SaleInv'
  <1> SUFFICES ASSUME SaleInv, [Next]_vars PROVE SaleInv'
    OBVIOUS
  <1> USE DEF SaleInv
  <1>0. TypeOK'
    BY TypeStep
  <1>1. ASSUME NEW o \in Offer, NEW changesStructure \in BOOLEAN, Accept(o, changesStructure)
        PROVE  SaleInv'
    <2>1. /\ \A p \in Offer : ~Live(p)
          /\ assignment' = [assignment EXCEPT ![o] = "draft"]
      BY <1>1 DEF Accept, NoneLive
    <2>2. OneLiveAssignment'
      BY <2>1 DEF OneLiveAssignment, Live, TypeOK
    <2>3. file # "closed"
      BY <2>1 DEF ClosedOnAnAssignment, HasExecuted, Live, LiveStatuses
    <2>4. file' # "closed" /\ UNCHANGED stage
      BY <1>1, <2>3 DEF Accept, EnsuredFile
    <2>5. ClosedOnAnAssignment'
      BY <2>3, <2>4 DEF ClosedOnAnAssignment
    <2>6. RealizedMeansClosed'
      BY <1>1, <2>3 DEF Accept, RealizedMeansClosed
    <2>7. QED
      BY <1>0, <2>2, <2>5, <2>6
  <1>2. ASSUME NEW o \in Offer, SendAssignmentEnvelope(o)
        PROVE  SaleInv'
    <2>1. OneLiveAssignment'
      BY <1>2 DEF SendAssignmentEnvelope, OneLiveAssignment, Live, LiveStatuses, TypeOK
    <2>2. HasExecuted(assignment) => HasExecuted(assignment')
      BY <1>2 DEF SendAssignmentEnvelope, HasExecuted, TypeOK
    <2>3. QED
      BY <1>0, <1>2, <2>1, <2>2
         DEF SendAssignmentEnvelope, ClosedOnAnAssignment, RealizedMeansClosed, HasExecuted
  <1>3. ASSUME NEW o \in Offer, Execute(o)
        PROVE  SaleInv'
    <2>1. OneLiveAssignment'
      BY <1>3 DEF Execute, OneLiveAssignment, Live, LiveStatuses, TypeOK
    <2>2. HasExecuted(assignment')
      BY <1>3 DEF Execute, HasExecuted, TypeOK
    <2>3. stage' = stage \/ stage' = "assigned"
      BY <1>3 DEF Execute, EnterStage
    <2>4. ClosedOnAnAssignment'
      BY <1>3, <2>2, <2>3 DEF Execute, ClosedOnAnAssignment, HasExecuted
    <2>5. QED
      BY <1>0, <1>3, <2>1, <2>4 DEF Execute, RealizedMeansClosed
  <1>4. ASSUME NEW o \in Offer, NEW cause \in {"buyer_default", "our_decision"}, Cancel(o, cause)
        PROVE  SaleInv'
    <2>1. OneLiveAssignment'
      BY <1>4 DEF Cancel, OneLiveAssignment, Live, LiveStatuses, TypeOK
    <2>2. file # "closed" /\ UNCHANGED <<file, revenue>>
      BY <1>4 DEF Cancel, MayCancel
    <2>3. stage' = stage \/ stage' = "marketing"
      BY <1>4 DEF Cancel
    <2>4. QED
      BY <1>0, <2>1, <2>2, <2>3 DEF ClosedOnAnAssignment, RealizedMeansClosed
  <1>5. ASSUME NEW paid \in BOOLEAN, ConfirmClosing(paid)
        PROVE  SaleInv'
    BY <1>0, <1>5
       DEF ConfirmClosing, OneLiveAssignment, Live, ClosedOnAnAssignment, HasExecuted,
           RealizedMeansClosed
  <1>6. CASE RecordFee
    BY <1>0, <1>6
       DEF RecordFee, FeeIsDue, OneLiveAssignment, Live, ClosedOnAnAssignment, HasExecuted,
           RealizedMeansClosed
  <1>7. ASSUME NEW markLost \in BOOLEAN, CancelClosing(markLost)
        PROVE  SaleInv'
    <2>1. OneLiveAssignment'
      BY <1>7 DEF CancelClosing, OneLiveAssignment, Live, LiveStatuses
    <2>2. stage # "closed" /\ stage' \in {stage, "lost"}
      BY <1>7 DEF CancelClosing, EnterStage, ClosedOnAnAssignment
    <2>3. revenue # "realized" /\ revenue' # "realized"
      BY <1>7 DEF CancelClosing, RealizedMeansClosed
    <2>4. QED
      BY <1>0, <1>7, <2>1, <2>2, <2>3
         DEF CancelClosing, ClosedOnAnAssignment, RealizedMeansClosed
  <1>8. CASE Aside
    BY <1>0, <1>8
       DEF Aside, OneLiveAssignment, Live, ClosedOnAnAssignment, HasExecuted, RealizedMeansClosed
  <1>9. QED
    BY <1>1, <1>2, <1>3, <1>4, <1>5, <1>6, <1>7, <1>8, SaleCases

LEMMA SaleInvariant == Spec => []SaleInv
  BY SaleInit, SaleStep, PTL DEF Spec

\* However many offers compete, at most one of them has a live assignment.
THEOREM OneBuyerAtATime == Spec => []OneLiveAssignment
  BY SaleInvariant, PTL DEF SaleInv

\* A closed deal has a closed file, and the executed assignment it closed on.
THEOREM ClosingKeepsItsAssignment == Spec => []ClosedOnAnAssignment
  BY SaleInvariant, PTL DEF SaleInv

\* Revenue is realized from a confirmed closing only.
THEOREM RevenueFromClosings == Spec => []RealizedMeansClosed
  BY SaleInvariant, PTL DEF SaleInv

\* Realized revenue stays realized: the handlers that lower it need a file
\* that is not closed, and a closed file rules a new accept out.
THEOREM RevenueIsFinal == Spec => RealizedIsFinal
  <1>1. SaleInv /\ [Next]_vars => [revenue = "realized" => revenue' = "realized"]_vars
    <2> SUFFICES ASSUME SaleInv, [Next]_vars, revenue = "realized"
                 PROVE  revenue' = "realized"
      OBVIOUS
    <2>1. file = "closed" /\ HasExecuted(assignment)
      BY DEF SaleInv, RealizedMeansClosed, ClosedOnAnAssignment
    <2>2. \A o \in Offer : ~NoneLive(o)
      BY <2>1 DEF NoneLive, HasExecuted, Live, LiveStatuses
    <2>3. QED
      BY <2>1, <2>2, SaleCases
         DEF Accept, SendAssignmentEnvelope, Execute, Cancel, ConfirmClosing, RecordFee,
             CancelClosing, Aside
  <1>2. QED
    BY <1>1, SaleInvariant, PTL DEF Spec, RealizedIsFinal

-----------------------------------------------------------------------------
\* The refinement: every step of the services is a step of the sale, or none.

LEMMA SaleStartsAsPromised == Init => Sale!Init
  BY DEF Init, Sale!Init, Live, LiveStatuses, HasExecuted

LEMMA SaleStepsAsPromised ==
    ASSUME SaleInv, [Next]_vars
    PROVE  [Sale!Next]_Sale!vars
  <1> DEFINE buyer == {o \in Offer : Live(o)}
             tried == {o \in Offer : assignment[o] # "none"}
  <1> USE DEF SaleInv
  <1>1. ASSUME NEW o \in Offer, NEW changesStructure \in BOOLEAN, Accept(o, changesStructure)
        PROVE  Sale!Reserve(o)
    <2>1. /\ NoneLive(o)
          /\ assignment' = [assignment EXCEPT ![o] = "draft"]
      BY <1>1 DEF Accept
    <2>2. buyer = {} /\ o \notin tried
      BY <2>1 DEF NoneLive
    <2>3. buyer' = {o} /\ tried' = tried \cup {o}
      BY <2>1 DEF NoneLive, Live, LiveStatuses, TypeOK
    <2>4. ~HasExecuted(assignment) /\ ~HasExecuted(assignment')
      BY <2>1 DEF NoneLive, Live, LiveStatuses, HasExecuted, TypeOK
    <2>5. file # "closed" /\ file' # "closed"
      BY <1>1, <2>4 DEF ClosedOnAnAssignment, Accept, EnsuredFile
    <2>6. revenue # "realized" /\ revenue' # "realized"
      BY <1>1, <2>5 DEF RealizedMeansClosed, Accept
    <2>7. /\ HasExecuted(assignment') = HasExecuted(assignment)
          /\ (file' = "closed") = (file = "closed")
          /\ (revenue' = "realized") = (revenue = "realized")
      BY <2>4, <2>5, <2>6 DEF HasExecuted
    <2>8. QED
      BY <2>2, <2>3, <2>7 DEF Sale!Reserve
  <1>2. ASSUME NEW o \in Offer, SendAssignmentEnvelope(o)
        PROVE  UNCHANGED Sale!vars
    <2>1. buyer' = buyer /\ tried' = tried
      BY <1>2 DEF SendAssignmentEnvelope, Live, LiveStatuses, TypeOK
    <2>2. HasExecuted(assignment') = HasExecuted(assignment)
      BY <1>2 DEF SendAssignmentEnvelope, HasExecuted, TypeOK
    <2>3. QED
      BY <1>2, <2>1, <2>2 DEF SendAssignmentEnvelope, Sale!vars
  <1>3. ASSUME NEW o \in Offer, Execute(o)
        PROVE  Sale!Sign
    <2>1. buyer # {} /\ buyer' = buyer /\ tried' = tried
      BY <1>3 DEF Execute, Live, LiveStatuses, TypeOK
    <2>2. ~HasExecuted(assignment)
      BY <1>3 DEF Execute, HasExecuted, OneLiveAssignment, Live, LiveStatuses
    <2>3. HasExecuted(assignment')
      BY <1>3 DEF Execute, HasExecuted, TypeOK
    <2>4. QED
      BY <1>3, <2>1, <2>2, <2>3 DEF Execute, Sale!Sign
  <1>4. ASSUME NEW o \in Offer, NEW cause \in {"buyer_default", "our_decision"}, Cancel(o, cause)
        PROVE  Sale!Release
    <2>1. Live(o) /\ file # "closed" /\ assignment' = [assignment EXCEPT ![o] = "cancelled"]
      BY <1>4 DEF Cancel, MayCancel
    <2>2. \A p \in Offer : Live(p) => p = o
      BY <2>1 DEF OneLiveAssignment
    <2>3. buyer # {} /\ buyer' = {} /\ tried' = tried
      BY <2>1, <2>2 DEF Live, LiveStatuses, TypeOK
    <2>4. ~HasExecuted(assignment')
      BY <2>1, <2>2 DEF HasExecuted, Live, LiveStatuses, TypeOK
    <2>5. QED
      BY <1>4, <2>1, <2>3, <2>4 DEF Cancel, Sale!Release
  <1>5. ASSUME NEW paid \in BOOLEAN, ConfirmClosing(paid)
        PROVE  Sale!Settle
    <2>1. UNCHANGED assignment
      BY <1>5 DEF ConfirmClosing
    <2>2. buyer' = buyer /\ tried' = tried /\ HasExecuted(assignment') = HasExecuted(assignment)
      BY <2>1 DEF Live, HasExecuted
    <2>3. QED
      BY <1>5, <2>2 DEF ConfirmClosing, Sale!Settle
  <1>6. CASE RecordFee
    <2>1. buyer' = buyer /\ tried' = tried /\ HasExecuted(assignment') = HasExecuted(assignment)
      BY <1>6 DEF RecordFee, Live, HasExecuted
    <2>2. CASE revenue = "realized"
      BY <1>6, <2>1, <2>2 DEF RecordFee, Sale!vars
    <2>3. CASE revenue # "realized"
      BY <1>6, <2>1, <2>3 DEF RecordFee, FeeIsDue, Sale!Earn, Sale!Next
    <2>4. QED
      BY <2>2, <2>3
  <1>7. ASSUME NEW markLost \in BOOLEAN, CancelClosing(markLost)
        PROVE  [Sale!Next]_Sale!vars
    <2>1. /\ file # "closed" /\ file' # "closed"
          /\ assignment' = [o \in Offer |-> IF Live(o) THEN "cancelled" ELSE assignment[o]]
      BY <1>7 DEF CancelClosing
    <2>2. revenue # "realized" /\ revenue' # "realized"
      BY <1>7 DEF CancelClosing, RealizedMeansClosed
    <2>3. buyer' = {} /\ tried' = tried
      BY <2>1 DEF Live, LiveStatuses
    <2>4. ~HasExecuted(assignment')
      BY <2>1 DEF HasExecuted, Live, LiveStatuses
    <2>5. CASE buyer = {}
      <3>1. ~HasExecuted(assignment)
        BY <2>5 DEF HasExecuted, Live, LiveStatuses
      <3>2. /\ HasExecuted(assignment') = HasExecuted(assignment)
            /\ (file' = "closed") = (file = "closed")
            /\ (revenue' = "realized") = (revenue = "realized")
        BY <2>1, <2>2, <2>4, <3>1 DEF HasExecuted
      <3>3. QED
        BY <2>3, <2>5, <3>2 DEF Sale!vars
    <2>6. CASE buyer # {}
      BY <2>1, <2>2, <2>3, <2>4, <2>6 DEF Sale!Release, Sale!Next
    <2>7. QED
      BY <2>5, <2>6
  <1>8. CASE Aside
    <2>1. buyer' = buyer /\ tried' = tried /\ HasExecuted(assignment') = HasExecuted(assignment)
      BY <1>8 DEF Aside, Live, HasExecuted
    <2>2. (file' = "closed") = (file = "closed") /\ (revenue' = "realized") = (revenue = "realized")
      BY <1>8 DEF Aside
    <2>3. QED
      BY <2>1, <2>2 DEF Sale!vars
  <1>9. QED
    BY <1>1, <1>2, <1>3, <1>4, <1>5, <1>6, <1>7, <1>8, SaleCases DEF Sale!Next

\* The services together sell a contract as ContractSale promises: to one buyer
\* at a time, to none twice, settled once, earned from the settlement.
THEOREM ServicesImplementSale == Spec => ImplementsSale
  BY SaleStartsAsPromised, SaleStepsAsPromised, SaleInvariant, PTL
     DEF Spec, ImplementsSale, Sale!Spec

-----------------------------------------------------------------------------
\* The marketing: campaigns and links while the contract is held.

LEMMA LinksStep == LinksEndWithCampaign /\ [Next]_vars => LinksEndWithCampaign'
  <1> SUFFICES ASSUME LinksEndWithCampaign, [Next]_vars PROVE LinksEndWithCampaign'
    OBVIOUS
  <1>1. CASE \E i \in 1..Newest : Terminate(i)
    BY <1>1 DEF Terminate, LinksEndWithCampaign
  <1>2. CASE BuyerOffersNext
    BY <1>2 DEF BuyerOffersNext, Receive, Confirm, Counter, Decline, ExpireOffer, Accept,
                LinksEndWithCampaign
  <1>3. CASE AssignmentsNext
    BY <1>3 DEF AssignmentsNext, SendAssignmentEnvelope, Execute, Cancel, LinksEndWithCampaign
  <1>4. CASE CampaignsNext
    BY <1>4 DEF CampaignsNext, Prepare, Launch, LaunchFailsHalfway, Pause, Resume,
                CancelCampaign, SweepCampaign, CurrentRevoked, LinksEndWithCampaign
  <1>5. CASE ClosingNext
    BY <1>5 DEF ClosingNext, OpenFile, ConfirmClosing, RecordFee, CancelClosing,
                LinksEndWithCampaign
  <1>6. ASSUME UNCHANGED <<campaign, links>>
        PROVE  LinksEndWithCampaign'
    BY <1>6 DEF LinksEndWithCampaign
  <1>7. QED
    BY <1>1, <1>2, <1>3, <1>4, <1>5, <1>6, StepCases, PatchFrame, VerifyFrame
       DEF Record, MarkExecuted, Extend, SellerEnvelopeCompleted,
           SendSellerEnvelope, MoveStage, OtherChecksChange, DeadlinePasses, vars

\* No unrevoked link of a campaign that completed, expired or was cancelled.
THEOREM LinksDieWithCampaign == Spec => []LinksEndWithCampaign
  <1>1. Init => LinksEndWithCampaign
    BY DEF Init, LinksEndWithCampaign
  <1>2. QED
    BY <1>1, LinksStep, PTL DEF Spec

\* Once the newest contract is executed it stays the newest and executed until
\* it is terminated: recording another is refused while it is open, an
\* envelope attaches to an unsigned one only, and no edit touches its status.
LEMMA ExecutedUntilTerminated ==
    ASSUME TypeOK, NewestExecuted, [Next]_vars, \A i \in 1..Newest : ~Terminate(i)
    PROVE  NewestExecuted'
  <1>0. /\ Newest \in 1..Newest
        /\ Newest \in OpenAgreements
        /\ agreements \in Seq(Agreement)
        /\ agreements[Newest].status = "executed"
    BY LenProperties DEF TypeOK, NewestExecuted, Newest, OpenAgreements, OpenAgreementStatuses
  <1>1. ASSUME NEW i \in 1..Newest, NEW a \in Agreement, agreements' = [agreements EXCEPT ![i] = a],
               i = Newest => a.status = "executed"
        PROVE  NewestExecuted'
    <2>1. Len(agreements') = Len(agreements) /\ agreements'[Newest].status = "executed"
      BY <1>0, <1>1, ExceptSeq DEF Newest
    <2>2. QED
      BY <1>0, <2>1 DEF NewestExecuted, Newest
  <1>2. \A i \in 1..Newest : agreements[i] \in Agreement
    BY <1>0, ElementOfSeq DEF Newest
  <1>3. ASSUME NEW status, NEW c, Record(status, c)
        PROVE  FALSE
    BY <1>0, <1>3 DEF Record, NoOpenAgreement
  <1>4. ASSUME NEW i \in 1..Newest, NEW changed \in SUBSET Terms, NEW c \in Clause, NEW late \in BOOLEAN,
               UpdateTerms(i, changed, c, late)
        PROVE  NewestExecuted'
    <2> DEFINE a == [agreements[i] EXCEPT !.clause = c, !.late = late,
                        !.verified = @ /\ changed \cap VERIFIED_TERMS = {}, !.checked = @ /\ changed = {}]
    <2>1. a \in Agreement /\ a.status = agreements[i].status
      BY <1>2, ClauseAssumption DEF Agreement
    <2>2. agreements' = [agreements EXCEPT ![i] = a]
      BY <1>2, <1>4 DEF UpdateTerms, Agreement, TypeOK
    <2>3. QED
      BY <1>0, <1>1, <2>1, <2>2
  <1>5. ASSUME NEW i \in 1..Newest, MarkExecuted(i)
        PROVE  NewestExecuted'
    <2> DEFINE a == [agreements[i] EXCEPT !.status = "executed", !.doc = TRUE]
    <2>1. a \in Agreement /\ a.status = "executed"
      BY <1>2 DEF Agreement, AgreementStatus
    <2>2. agreements' = [agreements EXCEPT ![i] = a]
      BY <1>2, <1>5 DEF MarkExecuted, Agreement, TypeOK
    <2>3. QED
      BY <1>1, <2>1, <2>2
  <1>6. ASSUME NEW i \in 1..Newest, Verify(i)
        PROVE  NewestExecuted'
    <2> DEFINE a == [agreements[i] EXCEPT !.verified = TRUE, !.checked = TRUE]
    <2>1. a \in Agreement /\ a.status = agreements[i].status
      BY <1>2 DEF Agreement
    <2>2. agreements' = [agreements EXCEPT ![i] = a]
      BY <1>2, <1>6 DEF Verify, Agreement, TypeOK
    <2>3. QED
      BY <1>0, <1>1, <2>1, <2>2
  <1>7. ASSUME NEW i \in 1..Newest, Extend(i)
        PROVE  NewestExecuted'
    <2> DEFINE a == [agreements[i] EXCEPT !.late = FALSE]
    <2>1. a \in Agreement /\ a.status = agreements[i].status
      BY <1>2 DEF Agreement
    <2>2. agreements' = [agreements EXCEPT ![i] = a]
      BY <1>2, <1>7 DEF Extend, Agreement, TypeOK
    <2>3. QED
      BY <1>0, <1>1, <2>1, <2>2
  <1>8. ASSUME NEW i \in 1..Newest, NEW stored \in BOOLEAN, SellerEnvelopeCompleted(i, stored)
        PROVE  NewestExecuted'
    <2> DEFINE a == [agreements[i] EXCEPT !.status = "executed", !.doc = @ \/ stored]
    <2>1. a \in Agreement /\ a.status = "executed"
      BY <1>2 DEF Agreement, AgreementStatus
    <2>2. agreements' = [agreements EXCEPT ![i] = a]
      BY <1>2, <1>8 DEF SellerEnvelopeCompleted, Agreement, TypeOK
    <2>3. QED
      BY <1>1, <2>1, <2>2
  <1>9. ASSUME SendSellerEnvelope
        PROVE  NewestExecuted'
    <2>1. HasExecutedAgreement
      BY <1>0 DEF HasExecutedAgreement
    <2>2. ASSUME NEW i \in 1..Newest, IsUnsigned(i),
                 agreements' = [agreements EXCEPT ![i].status = "sent", ![i].envelope = TRUE]
          PROVE  NewestExecuted'
      <3> DEFINE a == [agreements[i] EXCEPT !.status = "sent", !.envelope = TRUE]
      <3>1. a \in Agreement
        BY <1>2 DEF Agreement, AgreementStatus
      <3>2. agreements' = [agreements EXCEPT ![i] = a]
        BY <1>2, <2>2 DEF Agreement, TypeOK
      <3>3. i # Newest
        BY <1>0, <2>2 DEF IsUnsigned
      <3>4. QED
        BY <1>1, <3>1, <3>2, <3>3
    <2>3. QED
      BY <1>9, <2>1, <2>2 DEF SendSellerEnvelope, NewestExecuted, Newest
  <1>10. CASE DeadlinePasses
    <2> DEFINE a == [agreements[Newest] EXCEPT !.late = TRUE]
    <2>1. a \in Agreement /\ a.status = "executed"
      BY <1>0, <1>2 DEF Agreement
    <2>2. agreements' = [agreements EXCEPT ![Newest] = a]
      BY <1>0, <1>2, <1>10 DEF DeadlinePasses, Agreement, TypeOK
    <2>3. QED
      BY <1>0, <1>1, <2>1, <2>2
  <1>11. ASSUME UNCHANGED agreements
         PROVE  NewestExecuted'
    BY <1>11 DEF NewestExecuted, Newest
  <1>12. QED
    BY <1>3, <1>4, <1>5, <1>6, <1>7, <1>8, <1>9, <1>10, <1>11, StepCases
       DEF BuyerOffersNext, Receive, Confirm, Counter, Decline, ExpireOffer, Accept,
           AssignmentsNext, SendAssignmentEnvelope, Execute, Cancel,
           CampaignsNext, Prepare, Launch, LaunchFailsHalfway, Pause, Resume, CancelCampaign,
           SweepCampaign, ClosingNext, OpenFile, ConfirmClosing, RecordFee, CancelClosing,
           MoveStage, OtherChecksChange, vars

LEMMA SellStep ==
    ASSUME TypeOK, NeverSellWhatWeDoNotHold, [Next]_vars
    PROVE  NeverSellWhatWeDoNotHold'
  <1>1. ASSUME NEW i \in 1..Newest, Terminate(i)
        PROVE  NeverSellWhatWeDoNotHold'
    BY <1>1 DEF Terminate, EndedCampaign, NeverSellWhatWeDoNotHold, TypeOK
  <1>2. ASSUME \A i \in 1..Newest : ~Terminate(i)
        PROVE  NeverSellWhatWeDoNotHold'
    <2>1. NewestExecuted => NewestExecuted'
      BY <1>2, ExecutedUntilTerminated
    <2>2. CASE NewestExecuted
      BY <2>1, <2>2 DEF NeverSellWhatWeDoNotHold
    <2>3. CASE ~NewestExecuted
      <3>1. campaign \notin {"active", "paused", "held"} /\ links = {} /\ ~Eligible
        BY <2>3 DEF NeverSellWhatWeDoNotHold, Eligible, Gate, NewestExecuted, Newest
      <3>2. CASE BuyerOffersNext
        BY <3>1, <3>2 DEF BuyerOffersNext, Receive, Confirm, Counter, Decline, ExpireOffer,
                          Accept, NeverSellWhatWeDoNotHold
      <3>3. CASE AssignmentsNext
        BY <3>1, <3>3 DEF AssignmentsNext, SendAssignmentEnvelope, Execute, Cancel,
                          NeverSellWhatWeDoNotHold
      <3>4. CASE CampaignsNext
        BY <2>3, <3>1, <3>4
           DEF CampaignsNext, Prepare, Launch, LaunchFailsHalfway, Pause, Resume,
               CancelCampaign, SweepCampaign, LiveCampaign, CurrentRevoked,
               NeverSellWhatWeDoNotHold
      <3>5. CASE ClosingNext
        BY <3>1, <3>5 DEF ClosingNext, OpenFile, ConfirmClosing, RecordFee, CancelClosing,
                          EndedCampaign, NeverSellWhatWeDoNotHold
      <3>6. ASSUME UNCHANGED <<campaign, links>>
            PROVE  NeverSellWhatWeDoNotHold'
        BY <3>1, <3>6 DEF NeverSellWhatWeDoNotHold
      <3>7. QED
        BY <1>2, <3>2, <3>3, <3>4, <3>5, <3>6, StepCases, PatchFrame, VerifyFrame
           DEF Record, MarkExecuted, Extend, SellerEnvelopeCompleted,
               SendSellerEnvelope, MoveStage, OtherChecksChange, DeadlinePasses, vars
    <2>4. QED
      BY <2>2, <2>3
  <1>3. QED
    BY <1>1, <1>2

\* No campaign can send and no buyer link opens without an executed contract.
THEOREM OnlyHeldContractsAreSold == Spec => []NeverSellWhatWeDoNotHold
  <1>1. Init => NeverSellWhatWeDoNotHold
    BY DEF Init, NeverSellWhatWeDoNotHold
  <1>2. TypeOK /\ NeverSellWhatWeDoNotHold /\ [Next]_vars => NeverSellWhatWeDoNotHold'
    BY SellStep
  <1>3. QED
    BY <1>1, <1>2, TypeCorrect, PTL DEF Spec

\* Every route to marketing passes the gate in the state it leads to.
THEOREM NoUngatedMarketing == Spec => MarketingIsGated
  <1>1. [Next]_vars => [stage # "marketing" /\ stage' = "marketing" => Eligible']_vars
    <2> SUFFICES ASSUME [Next]_vars, stage # "marketing", stage' = "marketing"
                 PROVE  Eligible'
      OBVIOUS
    <2>1. ASSUME NEW i \in 1..Newest, Verify(i)
          PROVE  Eligible'
      <3>1. Gate(agreements') /\ UNCHANGED cleared
        BY <2>1 DEF Verify
      <3>2. QED
        BY <3>1 DEF Eligible, Gate
    <2>2. ASSUME NEW o \in Offer, NEW cause \in {"buyer_default", "our_decision"}, Cancel(o, cause)
          PROVE  Eligible'
      BY <2>2 DEF Cancel, Eligible, Gate
    <2>3. ASSUME NEW to \in Stages, MoveStage(to)
          PROVE  Eligible'
      BY <2>3 DEF MoveStage, CanEnter, Eligible, Gate
    <2>4. ASSUME AssignmentsNext
          PROVE  \E o \in Offer, cause \in {"buyer_default", "our_decision"} : Cancel(o, cause)
      BY <2>4 DEF AssignmentsNext, SendAssignmentEnvelope, Execute, EnterStage
    <2>5. QED
      BY <2>1, <2>2, <2>3, <2>4, StepCases, PatchFrame
         DEF Record, MarkExecuted, Extend, Terminate, SellerEnvelopeCompleted,
             AfterExecuted, SendSellerEnvelope, BuyerOffersNext, Receive, Confirm, Counter,
             Decline, ExpireOffer, Accept, CampaignsNext, Prepare, Launch, LaunchFailsHalfway,
             Pause, Resume, CancelCampaign, SweepCampaign, ClosingNext, OpenFile,
             ConfirmClosing, RecordFee, CancelClosing, EnterStage, OtherChecksChange,
             DeadlinePasses, vars
  <1>2. QED
    BY <1>1, PTL DEF Spec, MarketingIsGated

-----------------------------------------------------------------------------
\* The offers behind the assignments.

\* The handlers outside these write neither an offer nor an assignment, and
\* never reopen a cancelled file.
LEMMA OfferCases ==
    ASSUME [Next]_vars
    PROVE  \/ BuyerOffersNext
           \/ AssignmentsNext
           \/ \E markLost \in BOOLEAN : CancelClosing(markLost)
           \/ UNCHANGED <<offers, assignment>> /\ (file = "cancelled" => file' = "cancelled")
  BY StepCases, PatchFrame, VerifyFrame
     DEF Record, MarkExecuted, Extend, Terminate, SellerEnvelopeCompleted,
         AfterExecuted, EnsuredFile, SendSellerEnvelope, CampaignsNext, Prepare, Launch,
         LaunchFailsHalfway, Pause, Resume, CancelCampaign, SweepCampaign, ClosingNext, OpenFile,
         ConfirmClosing, RecordFee, MoveStage, OtherChecksChange, DeadlinePasses, vars

LEMMA AcceptedStep ==
    ASSUME TypeOK, AcceptedOfferHasAssignment, [Next]_vars
    PROVE  AcceptedOfferHasAssignment'
  <1>1. ASSUME NEW o \in Offer, NEW changesStructure \in BOOLEAN, Accept(o, changesStructure)
        PROVE  AcceptedOfferHasAssignment'
    BY <1>1 DEF Accept, SetOffer, EnsuredFile, NoneLive, AcceptedOfferHasAssignment, TypeOK, OfferRow
  <1>2. ASSUME NEW o \in Offer, NEW to \in OfferStatus, to # "accepted", SetOffer(o, to),
               UNCHANGED <<assignment, file>>
        PROVE  AcceptedOfferHasAssignment'
    BY <1>2 DEF SetOffer, AcceptedOfferHasAssignment, TypeOK, OfferRow
  <1>3. CASE BuyerOffersNext
    <2>1. ASSUME NEW o \in Offer, NEW ready \in BOOLEAN, Receive(o, ready)
          PROVE  AcceptedOfferHasAssignment'
      BY <2>1 DEF Receive, AcceptedOfferHasAssignment, TypeOK, OfferRow
    <2>2. ASSUME NEW o \in Offer, Confirm(o)
          PROVE  AcceptedOfferHasAssignment'
      BY <2>2 DEF Confirm, AcceptedOfferHasAssignment, TypeOK, OfferRow
    <2>3. QED
      BY <1>1, <1>2, <1>3, <2>1, <2>2
         DEF BuyerOffersNext, Counter, Decline, ExpireOffer, OfferStatus
  <1>4. CASE AssignmentsNext
    <2>1. ASSUME NEW o \in Offer, SendAssignmentEnvelope(o) \/ Execute(o)
          PROVE  AcceptedOfferHasAssignment'
      BY <2>1 DEF SendAssignmentEnvelope, Execute, AcceptedOfferHasAssignment, TypeOK
    <2>2. ASSUME NEW o \in Offer, NEW cause \in {"buyer_default", "our_decision"}, Cancel(o, cause)
          PROVE  AcceptedOfferHasAssignment'
      BY <2>2 DEF Cancel, OfferDropped, AcceptedOfferHasAssignment, TypeOK, OfferRow
    <2>3. QED
      BY <1>4, <2>1, <2>2 DEF AssignmentsNext
  <1>5. ASSUME NEW markLost \in BOOLEAN, CancelClosing(markLost)
        PROVE  AcceptedOfferHasAssignment'
    BY <1>5 DEF CancelClosing, AcceptedOfferHasAssignment, Live, LiveStatuses
  <1>6. ASSUME UNCHANGED <<offers, assignment>>, file = "cancelled" => file' = "cancelled"
        PROVE  AcceptedOfferHasAssignment'
    BY <1>6 DEF AcceptedOfferHasAssignment
  <1>7. QED
    BY <1>3, <1>4, <1>5, <1>6, OfferCases

\* An accepted offer has an assignment, cancelled only with its closing.
THEOREM AcceptedOffersAreAssigned == Spec => []AcceptedOfferHasAssignment
  <1>1. Init => AcceptedOfferHasAssignment
    BY DEF Init, NoOffer, AcceptedOfferHasAssignment
  <1>2. TypeOK /\ AcceptedOfferHasAssignment /\ [Next]_vars => AcceptedOfferHasAssignment'
    BY AcceptedStep
  <1>3. QED
    BY <1>1, <1>2, TypeCorrect, PTL DEF Spec

LEMMA PriceStep ==
    ASSUME TypeOK, AssignedPriceIsConfirmed, [Next]_vars
    PROVE  AssignedPriceIsConfirmed'
  <1>1. ASSUME NEW o \in Offer, NEW to \in OfferStatus \ {"none"}, SetOffer(o, to),
               UNCHANGED assignment
        PROVE  AssignedPriceIsConfirmed'
    BY <1>1 DEF SetOffer, AssignedPriceIsConfirmed, TypeOK, OfferRow
  <1>2. ASSUME NEW o \in Offer, NEW changesStructure \in BOOLEAN, Accept(o, changesStructure)
        PROVE  AssignedPriceIsConfirmed'
    BY <1>2 DEF Accept, MayMove, Acceptable, SetOffer, AssignedPriceIsConfirmed, TypeOK, OfferRow
  <1>3. CASE BuyerOffersNext
    <2>1. ASSUME NEW o \in Offer, NEW ready \in BOOLEAN, Receive(o, ready)
          PROVE  AssignedPriceIsConfirmed'
      BY <2>1 DEF Receive, AssignedPriceIsConfirmed, TypeOK, OfferRow
    <2>2. ASSUME NEW o \in Offer, Confirm(o)
          PROVE  AssignedPriceIsConfirmed'
      BY <2>2 DEF Confirm, AssignedPriceIsConfirmed, TypeOK, OfferRow
    <2>3. QED
      BY <1>1, <1>2, <1>3, <2>1, <2>2
         DEF BuyerOffersNext, Counter, Decline, ExpireOffer, OfferStatus
  <1>4. CASE AssignmentsNext
    <2>1. ASSUME NEW o \in Offer, SendAssignmentEnvelope(o) \/ Execute(o)
          PROVE  AssignedPriceIsConfirmed'
      BY <2>1 DEF SendAssignmentEnvelope, Execute, AssignedPriceIsConfirmed, TypeOK
    <2>2. ASSUME NEW o \in Offer, NEW cause \in {"buyer_default", "our_decision"}, Cancel(o, cause)
          PROVE  AssignedPriceIsConfirmed'
      BY <2>2 DEF Cancel, MayCancel, Live, LiveStatuses, OfferDropped,
                  AssignedPriceIsConfirmed, TypeOK, OfferRow
    <2>3. QED
      BY <1>4, <2>1, <2>2 DEF AssignmentsNext
  <1>5. ASSUME NEW markLost \in BOOLEAN, CancelClosing(markLost)
        PROVE  AssignedPriceIsConfirmed'
    BY <1>5 DEF CancelClosing, AssignedPriceIsConfirmed, Live, LiveStatuses
  <1>6. ASSUME UNCHANGED <<offers, assignment>>
        PROVE  AssignedPriceIsConfirmed'
    BY <1>6 DEF AssignedPriceIsConfirmed
  <1>7. QED
    BY <1>3, <1>4, <1>5, <1>6, OfferCases

\* Every assignment was made at a price somebody wrote or confirmed.
THEOREM PricesAreConfirmed == Spec => []AssignedPriceIsConfirmed
  <1>1. Init => AssignedPriceIsConfirmed
    BY DEF Init, AssignedPriceIsConfirmed
  <1>2. TypeOK /\ AssignedPriceIsConfirmed /\ [Next]_vars => AssignedPriceIsConfirmed'
    BY PriceStep
  <1>3. QED
    BY <1>1, <1>2, TypeCorrect, PTL DEF Spec

-----------------------------------------------------------------------------
\* The verification of the seller contract.

Checked(a) == a.verified => a.doc /\ a.clause # "unknown" /\ a.checked

LEMMA VerifiedStep ==
    ASSUME TypeOK, VerifiedMeansChecked, [Next]_vars
    PROVE  VerifiedMeansChecked'
  <1>0. \A i \in 1..Newest : agreements[i] \in Agreement /\ Checked(agreements[i])
    BY ElementOfSeq DEF TypeOK, Newest, VerifiedMeansChecked, Checked
  <1>1. ASSUME NEW i \in 1..Newest, NEW a \in Agreement, Checked(a),
               agreements' = [agreements EXCEPT ![i] = a]
        PROVE  VerifiedMeansChecked'
    <2>1. Len(agreements') = Newest
      BY <1>1, ExceptSeq DEF TypeOK, Newest
    <2>2. \A j \in 1..Newest : agreements'[j] = IF j = i THEN a ELSE agreements[j]
      BY <1>1, ExceptSeq DEF TypeOK, Newest
    <2>3. QED
      BY <1>0, <1>1, <2>1, <2>2 DEF VerifiedMeansChecked, Checked, Newest
  <1>2. ASSUME NEW a \in Agreement, Checked(a), agreements' = Append(agreements, a)
        PROVE  VerifiedMeansChecked'
    <2>1. Newest \in Nat /\ Len(agreements') = Newest + 1 /\ agreements'[Newest + 1] = a
      BY <1>2, AppendProperties, LenProperties DEF TypeOK, Newest
    <2>2. \A j \in 1..Newest : agreements'[j] = agreements[j]
      BY <1>2, AppendProperties DEF TypeOK, Newest
    <2>3. \A j \in 1..(Newest + 1) : j \in 1..Newest \/ j = Newest + 1
      BY <2>1
    <2>4. QED
      BY <1>0, <1>2, <2>1, <2>2, <2>3 DEF VerifiedMeansChecked, Checked, Newest
  <1>3. ASSUME NEW status \in {"draft", "executed"}, NEW c \in Clause, Record(status, c)
        PROVE  VerifiedMeansChecked'
    <2> DEFINE a == [status |-> status, envelope |-> FALSE, doc |-> status = "executed",
                     verified |-> FALSE, checked |-> FALSE, clause |-> c, late |-> FALSE]
    <2>1. a \in Agreement /\ Checked(a)
      BY ClauseAssumption DEF Agreement, AgreementStatus, Checked
    <2>2. QED
      BY <1>2, <1>3, <2>1 DEF Record
  <1>4. ASSUME NEW i \in 1..Newest, NEW changed \in SUBSET Terms, NEW c \in Clause, NEW late \in BOOLEAN,
               UpdateTerms(i, changed, c, late)
        PROVE  VerifiedMeansChecked'
    <2> DEFINE a == [agreements[i] EXCEPT !.clause = c, !.late = late,
                        !.verified = @ /\ changed \cap VERIFIED_TERMS = {}, !.checked = @ /\ changed = {}]
    <2>1. agreements[i] \in Agreement /\ Checked(agreements[i])
      BY <1>0
    <2>2. a \in Agreement
      BY <2>1, ClauseAssumption DEF Agreement, AgreementStatus
    <2>3. /\ a.clause = c
          /\ a.doc = agreements[i].doc
          /\ a.verified = (agreements[i].verified /\ changed \cap VERIFIED_TERMS = {})
          /\ a.checked = (agreements[i].checked /\ changed = {})
      BY <2>1 DEF Agreement
    <2>4. CanBecome(agreements[i], changed, c, late)
      BY <1>4 DEF UpdateTerms
    <2>5. changed \cap VERIFIED_TERMS = {} => changed = {}
      BY DEF VERIFIED_TERMS, Terms
    <2>6. changed = {} => c = agreements[i].clause \/ c # "unknown"
      BY <2>4 DEF CanBecome
    <2>7. Checked(a)
      BY <2>1, <2>3, <2>5, <2>6 DEF Checked
    <2>8. agreements' = [agreements EXCEPT ![i] = a]
      BY <1>0, <1>4 DEF UpdateTerms, Agreement, TypeOK
    <2>9. QED
      BY <1>1, <2>2, <2>7, <2>8
  <1>5. ASSUME NEW i \in 1..Newest, MarkExecuted(i)
        PROVE  VerifiedMeansChecked'
    <2> DEFINE a == [agreements[i] EXCEPT !.status = "executed", !.doc = TRUE]
    <2>1. a \in Agreement /\ Checked(a)
      BY <1>0, <1>5 DEF Agreement, AgreementStatus, Checked
    <2>2. agreements' = [agreements EXCEPT ![i] = a]
      BY <1>0, <1>5 DEF MarkExecuted, Agreement, TypeOK
    <2>3. QED
      BY <1>1, <2>1, <2>2
  <1>6. ASSUME NEW i \in 1..Newest, Verify(i)
        PROVE  VerifiedMeansChecked'
    <2> DEFINE a == [agreements[i] EXCEPT !.verified = TRUE, !.checked = TRUE]
    <2>1. a \in Agreement /\ Checked(a)
      BY <1>0, <1>6 DEF Agreement, AgreementStatus, Checked, Verify, Verifiable
    <2>2. agreements' = [agreements EXCEPT ![i] = a]
      BY <1>0, <1>6 DEF Verify, Agreement, TypeOK
    <2>3. QED
      BY <1>1, <2>1, <2>2
  <1>7. ASSUME NEW i \in 1..Newest, Extend(i)
        PROVE  VerifiedMeansChecked'
    <2> DEFINE a == [agreements[i] EXCEPT !.late = FALSE]
    <2>1. a \in Agreement /\ Checked(a)
      BY <1>0, <1>7 DEF Agreement, AgreementStatus, Checked
    <2>2. agreements' = [agreements EXCEPT ![i] = a]
      BY <1>0, <1>7 DEF Extend, Agreement, TypeOK
    <2>3. QED
      BY <1>1, <2>1, <2>2
  <1>8. ASSUME NEW i \in 1..Newest, Terminate(i)
        PROVE  VerifiedMeansChecked'
    <2> DEFINE a == [agreements[i] EXCEPT !.status = "ended"]
    <2>1. a \in Agreement /\ Checked(a)
      BY <1>0, <1>8 DEF Agreement, AgreementStatus, Checked
    <2>2. agreements' = [agreements EXCEPT ![i] = a]
      BY <1>0, <1>8 DEF Terminate, Agreement, TypeOK
    <2>3. QED
      BY <1>1, <2>1, <2>2
  <1>9. ASSUME NEW i \in 1..Newest, NEW stored \in BOOLEAN, SellerEnvelopeCompleted(i, stored)
        PROVE  VerifiedMeansChecked'
    <2> DEFINE a == [agreements[i] EXCEPT !.status = "executed", !.doc = @ \/ stored]
    <2>1. a \in Agreement /\ Checked(a)
      BY <1>0, <1>9 DEF Agreement, AgreementStatus, Checked
    <2>2. agreements' = [agreements EXCEPT ![i] = a]
      BY <1>0, <1>9 DEF SellerEnvelopeCompleted, Agreement, TypeOK
    <2>3. QED
      BY <1>1, <2>1, <2>2
  <1>10. ASSUME NEW i \in 1..Newest,
               agreements' = [agreements EXCEPT ![i].status = "sent", ![i].envelope = TRUE]
        PROVE  VerifiedMeansChecked'
    <2> DEFINE a == [agreements[i] EXCEPT !.status = "sent", !.envelope = TRUE]
    <2>1. a \in Agreement /\ Checked(a)
      BY <1>0, <1>10 DEF Agreement, AgreementStatus, Checked
    <2>2. agreements' = [agreements EXCEPT ![i] = a]
      BY <1>0, <1>10 DEF SendSellerEnvelope, Agreement, TypeOK
    <2>3. QED
      BY <1>1, <2>1, <2>2
  <1>11. CASE SendSellerEnvelope
    <2> DEFINE a == [status |-> "sent", envelope |-> TRUE, doc |-> FALSE,
                     verified |-> FALSE, checked |-> FALSE, clause |-> "unknown", late |-> FALSE]
    <2>1. a \in Agreement /\ Checked(a)
      BY DEF Agreement, AgreementStatus, AllClauses, Checked
    <2>2. UNCHANGED agreements => VerifiedMeansChecked'
      BY <1>0 DEF VerifiedMeansChecked, Checked, Newest
    <2>3. QED
      BY <1>2, <1>10, <1>11, <2>1, <2>2 DEF SendSellerEnvelope
  <1>12. CASE DeadlinePasses
    <2> DEFINE a == [agreements[Newest] EXCEPT !.late = TRUE]
    <2>1. Newest \in 1..Newest
      BY <1>12, LenProperties DEF DeadlinePasses, TypeOK, Newest
    <2>2. a \in Agreement /\ Checked(a)
      BY <1>0, <2>1 DEF Agreement, Checked
    <2>3. agreements' = [agreements EXCEPT ![Newest] = a]
      BY <1>0, <1>12, <2>1 DEF DeadlinePasses, Agreement, TypeOK
    <2>4. QED
      BY <1>1, <2>1, <2>2, <2>3
  <1>13. ASSUME UNCHANGED agreements
         PROVE  VerifiedMeansChecked'
    BY <1>13 DEF VerifiedMeansChecked, Newest
  <1>14. QED
    BY <1>3, <1>4, <1>5, <1>6, <1>7, <1>8, <1>9, <1>11, <1>12, <1>13, StepCases
       DEF BuyerOffersNext, Receive, Confirm, Counter, Decline, ExpireOffer, Accept,
           AssignmentsNext, SendAssignmentEnvelope, Execute, Cancel,
           CampaignsNext, Prepare, Launch, LaunchFailsHalfway, Pause, Resume, CancelCampaign,
           SweepCampaign, ClosingNext, OpenFile, ConfirmClosing, RecordFee, CancelClosing,
           MoveStage, OtherChecksChange, vars

\* A verified contract is signed and readable through every later change.
THEOREM VerificationHolds == Spec => []VerifiedMeansChecked
  <1>1. Init => VerifiedMeansChecked
    BY DEF Init, VerifiedMeansChecked, Newest
  <1>2. TypeOK /\ VerifiedMeansChecked /\ [Next]_vars => VerifiedMeansChecked'
    BY VerifiedStep
  <1>3. QED
    BY <1>1, <1>2, TypeCorrect, PTL DEF Spec
=============================================================================
