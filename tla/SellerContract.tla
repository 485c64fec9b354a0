--------------------------- MODULE SellerContract ---------------------------
(***************************************************************************)
(* PurchaseAgreementsService: the contract with the seller, recorded by     *)
(* hand or signed through DocuSign, verified by a person, extended, ended.  *)
(***************************************************************************)
EXTENDS DealRecord

\* afterExecuted: title work starts, and a deal being negotiated is under
\* contract.
AfterExecuted ==
    /\ file' = EnsuredFile
    /\ stage' = IF stage = "negotiating" THEN "under_contract" ELSE stage

\* record without the check for an open contract.
OpenContractIgnored == TRUE

\* No contract on the deal is draft, sent or executed.
NoOpenAgreement == OpenAgreements = {}

\* record: a draft of the terms, or an executed copy signed outside DocuSign;
\* refused while another contract is open.  The price may be among the terms,
\* and then opens the economics row.
Record(status, clause) ==
    /\ NoOpenAgreement
    /\ Newest < MaxAgreements
    /\ agreements' = Append(agreements,
            [status |-> status, envelope |-> FALSE, doc |-> status = "executed",
             verified |-> FALSE, checked |-> FALSE, clause |-> clause, late |-> FALSE])
    /\ revenue' \in {revenue, OpenedRevenue}
    /\ IF status = "executed" THEN AfterExecuted ELSE UNCHANGED <<file, stage>>
    /\ UNCHANGED <<cleared, campaign, links, offers, assignment>>

\* The terms a person checks; price stands for the price and the earnest money.
Terms == {"price", "deadline", "clause"}

\* The terms whose change clears the verification: all of them (mutant: the
\* price is forgotten).
VerifiedTermsButPrice == {"deadline", "clause"}
VERIFIED_TERMS == {"price", "deadline", "clause"}

\* What a patch that changes the given terms can make of the clause and of the
\* deadline.  The seller's consent is not one of the terms.
CanBecome(a, changed, clause, late) ==
    /\ late # a.late => "deadline" \in changed
    /\ clause # a.clause =>
          \/ "clause" \in changed
          \/ "unknown" \in {clause, a.clause} /\ changed # {}
          \/ {clause, a.clause} = {"consent_missing", "consent_on_file"}

\* update: a patch of the newest open contract's terms.  Changing a verified
\* term, to whatever value, clears the verification.
UpdateTerms(i, changed, clause, late) ==
    /\ IsOpenAgreement(i)
    /\ late => clause # "unknown"
    /\ CanBecome(agreements[i], changed, clause, late)
    /\ agreements' = [agreements EXCEPT
            ![i].clause = clause,
            ![i].late = late,
            ![i].verified = @ /\ changed \cap VERIFIED_TERMS = {},
            ![i].checked = @ /\ changed = {}]
    /\ revenue' \in {revenue, OpenedRevenue}
    /\ UNCHANGED <<stage, cleared, campaign, links, offers, assignment, file>>

\* markExecuted: the signed copy is on file.  An executed contract may get
\* another copy; its verification stands.
MarkExecuted(i) ==
    /\ IsOpenAgreement(i)
    /\ agreements' = [agreements EXCEPT ![i].status = "executed", ![i].doc = TRUE]
    /\ AfterExecuted
    /\ UNCHANGED <<cleared, campaign, links, offers, assignment, revenue>>

\* The signed copy is on file and its terms are complete.
Verifiable(a) == a.status = "executed" /\ a.doc /\ a.clause # "unknown"

\* verify: a person checked the terms against the signed copy; the contract
\* price reaches the economics, and the deal moves into marketing if the gate
\* now passes (advanceIfEligible).
Verify(i) ==
    /\ IsOpenAgreement(i)
    /\ Verifiable(agreements[i])
    /\ LET agr == [agreements EXCEPT ![i].verified = TRUE, ![i].checked = TRUE]
       IN  /\ agreements' = agr
           /\ stage' = IF Gate(agr) /\ stage \in {"negotiating", "under_contract"}
                       THEN "marketing" ELSE stage
    /\ revenue' = OpenedRevenue
    /\ UNCHANGED <<cleared, campaign, links, offers, assignment, file>>

\* extend: a signed extension moves the deadline later, with the verification
\* left as it was.
Extend(i) ==
    /\ IsOpenAgreement(i)
    /\ agreements[i].status = "executed"
    /\ agreements[i].late
    /\ agreements' = [agreements EXCEPT ![i].late = FALSE]
    /\ UNCHANGED <<stage, cleared, campaign, links, offers, assignment, file, revenue>>

\* terminate: the contract is gone, the campaigns end and every link is
\* revoked.  The stage, the assignment and the closing file stay.
Terminate(i) ==
    /\ IsOpenAgreement(i)
    /\ agreements' = [agreements EXCEPT ![i].status = "ended"]
    /\ campaign' = EndedCampaign("cancelled")
    /\ links' = {}
    /\ UNCHANGED <<stage, cleared, offers, assignment, file, revenue>>

\* The newest draft or sent contract, the one a seller envelope attaches to.
IsUnsigned(i) ==
    LET unsigned == {j \in 1..Newest : agreements[j].status \in {"draft", "sent"}}
    IN  i \in unsigned /\ \A j \in unsigned : j <= i

HasExecutedAgreement == \E j \in 1..Newest : agreements[j].status = "executed"

\* createEnvelope with purpose purchase_agreement: the contract row, then
\* onEnvelopeSent (the draft becomes sent, or a new contract is created unless
\* one is executed), then a deal being negotiated is under contract.
SendSellerEnvelope ==
    /\ \/ \E i \in 1..Newest :
              /\ IsUnsigned(i)
              /\ agreements' = [agreements EXCEPT ![i].status = "sent", ![i].envelope = TRUE]
       \/ /\ \A i \in 1..Newest : ~IsUnsigned(i)
          /\ HasExecutedAgreement
          /\ UNCHANGED agreements
       \/ /\ \A i \in 1..Newest : ~IsUnsigned(i)
          /\ ~HasExecutedAgreement
          /\ Newest < MaxAgreements
          /\ agreements' = Append(agreements,
                [status |-> "sent", envelope |-> TRUE, doc |-> FALSE,
                 verified |-> FALSE, checked |-> FALSE, clause |-> "unknown", late |-> FALSE])
    /\ stage' = IF stage = "negotiating" THEN "under_contract" ELSE stage
    /\ UNCHANGED <<cleared, campaign, links, offers, assignment, file, revenue>>

\* onEnvelopeCompleted: DocuSign reports the envelope of contract i complete,
\* by webhook, status refresh or a manual pull, any number of times and at any
\* time after it was sent.  stored says whether the signed copy was filed.
SellerEnvelopeCompleted(i, stored) ==
    /\ agreements[i].envelope
    /\ agreements[i].status # "executed"
    /\ agreements' = [agreements EXCEPT ![i].status = "executed", ![i].doc = @ \/ stored]
    /\ AfterExecuted
    /\ UNCHANGED <<cleared, campaign, links, offers, assignment, revenue>>

SellerContractNext ==
    \/ \E status \in {"draft", "executed"}, c \in Clause : Record(status, c)
    \/ \E i \in 1..Newest :
          \/ \E changed \in SUBSET Terms, c \in Clause, late \in BOOLEAN :
                UpdateTerms(i, changed, c, late)
          \/ MarkExecuted(i)
          \/ Verify(i)
          \/ Extend(i)
          \/ Terminate(i)
          \/ \E stored \in BOOLEAN : SellerEnvelopeCompleted(i, stored)
    \/ SendSellerEnvelope

=============================================================================
