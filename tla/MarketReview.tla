---------------------------- MODULE MarketReview ----------------------------
(***************************************************************************)
(* MarketsService on the draft policy: editing it, adding an agent's        *)
(* proposal, importing research, submitting it to counsel and taking it     *)
(* back, and the two ways it becomes a version the gates rely on.           *)
(***************************************************************************)
EXTENDS MarketRecord

DraftOnly == UNCHANGED <<policy, lapsed, configVars, activationVars>>

ReadOnly == UNCHANGED <<reviewVars, configVars, activationVars>>

\* updateDraft: whether counsel has the draft is read here.
EditRead(c) ==
    /\ Start(c, [Idle EXCEPT !.at = "write", !.yes = draft.inReview])
    /\ ReadOnly

\* applyAgentProposal: refused while counsel has the draft.
ProposeRead(c) ==
    /\ ~draft.inReview
    /\ Start(c, [Idle EXCEPT !.at = "write"])
    /\ ReadOnly

\* The status an edit that takes nothing back would leave.
KeptInReview(c) == draft.inReview

\* "Counsel reviews a fixed text: an edit takes it back", if it read so.
StillInReview(c) == draft.inReview /\ ~call[c].yes

WriteDraft(c) ==
    /\ At(c, "write")
    /\ written < MaxText
    /\ written' = written + 1
    /\ draft' = [text |-> written + 1, inReview |-> StillInReview(c)]
    /\ slipped' = IF draft.inReview /\ ~call[c].yes THEN slipped \cup {written + 1} ELSE slipped
    /\ Return(c)
    /\ UNCHANGED reviewed /\ DraftOnly

\* importResearch: an edited draft and one with counsel are skipped, unless told
\* to overwrite.
ImportRead(c, overwrite) ==
    /\ overwrite \/ (draft.text = 1 /\ ~draft.inReview)
    /\ Start(c, [Idle EXCEPT !.at = "import"])
    /\ ReadOnly

ImportWrite(c) ==
    /\ At(c, "import")
    /\ draft' = [text |-> 1, inReview |-> FALSE]
    /\ fresh' = FALSE
    /\ Return(c)
    /\ UNCHANGED <<written, policy, lapsed, reviewed, slipped, template, licence, test,
                   crossed, unmarked, activationVars>>

SubmitRead(c) ==
    /\ ~draft.inReview
    /\ Start(c, [Idle EXCEPT !.at = "submit"])
    /\ ReadOnly

SubmitWrite(c) ==
    /\ At(c, "submit")
    /\ draft' = [draft EXCEPT !.inReview = TRUE]
    /\ reviewed' = reviewed \cup {draft.text}
    /\ Return(c)
    /\ UNCHANGED <<written, slipped>> /\ DraftOnly

returnToDraftRead(c) ==
    /\ draft.inReview
    /\ Start(c, [Idle EXCEPT !.at = "return"])
    /\ ReadOnly

returnToDraftWrite(c) ==
    /\ At(c, "return")
    /\ draft' = [draft EXCEPT !.inReview = FALSE]
    /\ Return(c)
    /\ UNCHANGED <<written, reviewed, slipped>> /\ DraftOnly

\* approve: only a draft that is with counsel.
ApproveRead(c) ==
    /\ draft.inReview
    /\ Start(c, [Idle EXCEPT !.at = "approve", !.text = draft.text])
    /\ ReadOnly

\* acceptRisk: the owner accepts the draft wherever it is.
AcceptRead(c) ==
    /\ Start(c, [Idle EXCEPT !.at = "accept", !.text = draft.text])
    /\ ReadOnly

\* createVersion with the time of the write, or without one.
SameAge(c) == fresh

\* configChangedAt is the time the approval was read, not written: a test
\* stamped in between stays fresh.
Aged(c) == call[c].yes

\* createVersion, a transaction: (accountId, state, version) is unique, so two
\* at once make one version each or one of them fails.
createVersion(c) ==
    /\ call[c].at \in {"approve", "accept"}
    /\ Len(policy) < MaxPolicy
    /\ policy' = Append(policy, [text |-> call[c].text,
                                 basis |-> IF At(c, "approve") THEN "counsel" ELSE "owner"])
    /\ draft' = [draft EXCEPT !.inReview = @ /\ ~At(c, "approve")]
    /\ lapsed' = FALSE
    /\ fresh' = Aged(c)
    /\ Changed(~call[c].yes)
    /\ Return(c)
    /\ UNCHANGED <<written, reviewed, slipped, template, licence, test, activationVars>>

\* Time: the review of the version in force runs out.
ReviewLapses ==
    /\ policy # <<>>
    /\ ~lapsed
    /\ lapsed' = TRUE
    /\ UNCHANGED <<draft, written, policy, reviewed, slipped, call, configVars, activationVars>>

ReviewNext ==
    \E c \in Call :
        \/ EditRead(c) \/ ProposeRead(c) \/ WriteDraft(c)
        \/ \E overwrite \in BOOLEAN : ImportRead(c, overwrite)
        \/ ImportWrite(c)
        \/ SubmitRead(c) \/ SubmitWrite(c)
        \/ returnToDraftRead(c) \/ returnToDraftWrite(c)
        \/ ApproveRead(c)

VersionsNext ==
    \/ \E c \in Call : AcceptRead(c) \/ createVersion(c)
    \/ ReviewLapses

=============================================================================
