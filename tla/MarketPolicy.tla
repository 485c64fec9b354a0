---------------------------- MODULE MarketPolicy ----------------------------
(***************************************************************************)
(* One market under every handler that changes it: the draft and counsel's  *)
(* review, the versions, the template, the self-test, the licence and how   *)
(* far the market is opened.                                                *)
(***************************************************************************)
EXTENDS TemplateCatalog, MarketReview, MarketActivation

Next ==
    \/ ReviewNext
    \/ VersionsNext
    \/ TemplatesNext
    \/ TestsNext
    \/ StatusNext
    \/ LicenceNext
    \/ \E c \in Call : GiveUp(c)

Spec == Init /\ [][Next]_vars

-----------------------------------------------------------------------------
\* A version that says counsel approved it carries a text counsel was given:
\* one that was submitted, or one that slipped into a draft already with counsel
\* because its author read the draft before it was submitted.
\* MarketsService.updateDraft, submit, approve.
CounselReadTheText ==
    \A i \in DOMAIN policy :
        policy[i].basis = "counsel" => policy[i].text \in reviewed \cup slipped

\* A passed self-test that is not stale tested the policy version and the
\* template now in force.  The exceptions are named: a mark is still to come,
\* nothing marked the change (a failed call, a version retired by the approval
\* of one for other states, an approval that carries the time it was read), or
\* the change fell while the test ran.  TemplateCatalogService.markChanged,
\* MarketsService.createVersion and selfTest.
FreshTestIsCurrent ==
    (test.passed /\ fresh /\ policy # <<>>) =>
        \/ test.policy = Len(policy) /\ InForce(test.template)
        \/ \E c \in Call : At(c, "mark")
        \/ unmarked \/ crossed

\* A market a person took below disposition, or restricted, has no campaign
\* running, however the request changed and whatever was started or resumed
\* meanwhile, except while the pause is still to come, or when the campaign was
\* started by a call whose gate answered before, was let in nationwide, or was
\* left by a call that failed.  MarketsService.setStatus, pauseCampaigns.
LoweredMeansPaused ==
    (campaign = "active" /\ requested \in Lowered) =>
        late \/ \E c \in Call : At(c, "pause")

=============================================================================
