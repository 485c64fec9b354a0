-------------------------- MODULE TemplateCatalog --------------------------
(***************************************************************************)
(* TemplatesService and TemplateCatalogService: the versions of a template, *)
(* their approval for named states, their retirement, and marking the       *)
(* markets that rely on them.                                               *)
(***************************************************************************)
EXTENDS MarketRecord

Elsewhere == UNCHANGED <<reviewVars, activationVars, licence, test>>

\* addVersionTo: validated, or a draft when its fields are not all known.
AddVersion(c, v, here, valid) ==
    /\ At(c, "idle")
    /\ template[v].status = "none"
    /\ \A w \in Version : w < v => template[w].status # "none"
    /\ template' = [template EXCEPT ![v] =
           [status |-> IF valid THEN "validated" ELSE "draft", here |-> here]]
    /\ ThenMark(c, here)
    /\ Changed(TRUE)
    /\ UNCHANGED fresh /\ Elsewhere

\* approve and acceptRisk: the version is validated; its states are those named
\* now, or the ones it has.
TemplateApproveRead(c, v, here) ==
    /\ template[v].status = "validated"
    /\ Start(c, [Idle EXCEPT !.at = "scan", !.n = v, !.yes = here,
                             !.to = IF here \/ template[v].here THEN "active" ELSE "research"])
    /\ UNCHANGED <<template, fresh, crossed, unmarked>> /\ Elsewhere

\* The transaction's first statement finds the approved versions it can see.
TemplateApproveScan(c) ==
    /\ At(c, "scan")
    /\ call' = [call EXCEPT ![c] = [@ EXCEPT !.at = "commit",
           !.olds = {w \in Version \ {call[c].n} : template[w].status = "approved"}]]
    /\ UNCHANGED <<template, fresh, crossed, unmarked>> /\ Elsewhere

\* It commits.  The states marked are the version's, old and new, and not those
\* of the versions it retires.
TemplateApproveCommit(c) ==
    LET k == call[c]
        marks == k.to = "active"
    IN
    /\ At(c, "commit")
    /\ template' = [w \in Version |->
           IF w = k.n THEN [status |-> "approved", here |-> k.yes]
           ELSE IF w \in k.olds THEN [template[w] EXCEPT !.status = "retired"]
           ELSE template[w]]
    /\ ThenMark(c, marks)
    /\ Changed(marks \/ \A w \in Version : template'[w] = template[w] \/ ~template[w].here)
    /\ UNCHANGED fresh /\ Elsewhere

TemplateRetireRead(c, v) ==
    /\ template[v].status # "none"
    /\ Start(c, [Idle EXCEPT !.at = "retire", !.n = v, !.yes = template[v].here])
    /\ UNCHANGED <<template, fresh, crossed, unmarked>> /\ Elsewhere

\* The states marked are those that were read.
TemplateRetireWrite(c) ==
    /\ At(c, "retire")
    /\ template' = [template EXCEPT ![call[c].n].status = "retired"]
    /\ ThenMark(c, call[c].yes)
    /\ Changed(call[c].yes \/ ~template[call[c].n].here)
    /\ UNCHANGED fresh /\ Elsewhere

\* configChangedAt is now: a self-test before it is stale.
markChanged(c) ==
    /\ At(c, "mark")
    /\ fresh' = FALSE
    /\ Return(c)
    /\ UNCHANGED <<template, crossed, unmarked>> /\ Elsewhere

TemplatesNext ==
    \E c \in Call :
        \/ \E v \in Version, here, valid \in BOOLEAN : AddVersion(c, v, here, valid)
        \/ \E v \in Version, here \in BOOLEAN : TemplateApproveRead(c, v, here)
        \/ TemplateApproveScan(c)
        \/ TemplateApproveCommit(c)
        \/ \E v \in Version : TemplateRetireRead(c, v)
        \/ TemplateRetireWrite(c)
        \/ markChanged(c)

=============================================================================
