------------------------ MODULE MarketPolicyProofs ------------------------
(***************************************************************************)
(* Theorems about MarketPolicy for any number of calls, texts, policy       *)
(* versions and template versions.                                          *)
(***************************************************************************)
EXTENDS MarketPolicy, TLAPS

\* What a call in flight keeps is something it could have read.
ReadsOK ==
    \A c \in Call :
        /\ call[c].at \in {"approve", "accept"} => call[c].text \in Text
        /\ At(c, "test") => call[c].text \in 0..MaxPolicy
        /\ call[c].at \in {"scan", "commit", "retire"} => call[c].n \in Version
        /\ call[c].at \in {"scan", "commit"} /\ call[c].yes => call[c].to = "active"

Typed == TypeOK /\ ReadsOK

LEMMA IdleIsACall ==
    /\ Idle \in CallState /\ Idle.at = "idle"
    /\ DOMAIN Idle = {"at", "text", "n", "yes", "olds", "to"}
  BY BoundAssumption DEF Idle, CallState, Places, Requests

\* A call that moves to k leaves the others where they are.
LEMMA Moves ==
    ASSUME call \in [Call -> CallState], NEW c \in Call, NEW k \in CallState,
           call' = [call EXCEPT ![c] = k]
    PROVE  /\ call' \in [Call -> CallState]
           /\ call'[c] = k
           /\ \A d \in Call \ {c} : call'[d] = call[d]
  OBVIOUS

\* The type of the calls is kept by one that returns, and by one that starts.
LEMMA ReadsMove ==
    ASSUME Typed, NEW c \in Call, NEW k \in CallState,
           call' = [call EXCEPT ![c] = k],
           k.at \in {"approve", "accept"} => k.text \in Text,
           k.at = "test" => k.text \in 0..MaxPolicy,
           k.at \in {"scan", "commit", "retire"} => k.n \in Version,
           k.at \in {"scan", "commit"} /\ k.yes => k.to = "active"
    PROVE  call' \in [Call -> CallState] /\ ReadsOK'
  <1>1. /\ call' \in [Call -> CallState]
        /\ call'[c] = k
        /\ \A d \in Call \ {c} : call'[d] = call[d]
    BY Moves DEF Typed, TypeOK
  <1> QED  BY <1>1 DEF Typed, ReadsOK, At

LEMMA ReturnMoves ==
    ASSUME Typed, NEW c \in Call, Return(c)
    PROVE  call' \in [Call -> CallState] /\ ReadsOK'
  <1>1. Idle \in CallState /\ Idle.at = "idle"
    BY IdleIsACall
  <1> QED  BY <1>1, ReadsMove DEF Return

LEMMA MarkMoves ==
    ASSUME Typed, NEW c \in Call, NEW marks \in BOOLEAN, ThenMark(c, marks)
    PROVE  call' \in [Call -> CallState] /\ ReadsOK'
  <1> DEFINE k == IF marks THEN [Idle EXCEPT !.at = "mark"] ELSE Idle
  <1>1. k \in CallState /\ k.at \in {"idle", "mark"}
    BY IdleIsACall DEF Idle, CallState, Places
  <1>2. call' = [call EXCEPT ![c] = k]
    BY DEF ThenMark
  <1> HIDE DEF k
  <1> QED  BY <1>1, <1>2, ReadsMove

LEMMA StartMoves ==
    ASSUME Typed, NEW c \in Call, NEW k \in CallState, Start(c, k),
           k.at \in {"approve", "accept"} => k.text \in Text,
           k.at = "test" => k.text \in 0..MaxPolicy,
           k.at \in {"scan", "commit", "retire"} => k.n \in Version,
           k.at \in {"scan", "commit"} /\ k.yes => k.to = "active"
    PROVE  call' \in [Call -> CallState] /\ ReadsOK'
  BY ReadsMove DEF Start

-----------------------------------------------------------------------------
\* Type correctness, group by group.

\* A step that only moves calls.
LEMMA OnlyCallsMove ==
    ASSUME Typed, ReadOnly,
           call' \in [Call -> CallState], ReadsOK'
    PROVE  Typed'
  BY DEF ReadOnly, Typed, TypeOK, reviewVars, configVars, activationVars

LEMMA ReviewTyped == Typed /\ ReviewNext => Typed'
  <1> SUFFICES ASSUME Typed, ReviewNext PROVE Typed'
    OBVIOUS
  <1>1. ASSUME NEW c \in Call, EditRead(c) PROVE Typed'
    <2> DEFINE k == [Idle EXCEPT !.at = "write", !.yes = draft.inReview]
    <2>1. k \in CallState /\ k.at = "write"
      BY IdleIsACall, BoundAssumption DEF CallState, Places, Typed, TypeOK, Text
    <2>2. Start(c, k)
      BY <1>1 DEF EditRead
    <2> HIDE DEF k
    <2>3. call' \in [Call -> CallState] /\ ReadsOK'
      BY <2>1, <2>2, StartMoves
    <2> QED  BY <1>1, <2>3, OnlyCallsMove DEF EditRead
  <1>2. ASSUME NEW c \in Call, ProposeRead(c) PROVE Typed'
    <2> DEFINE k == [Idle EXCEPT !.at = "write"]
    <2>1. k \in CallState /\ k.at = "write"
      BY IdleIsACall DEF CallState, Places
    <2>2. Start(c, k)
      BY <1>2 DEF ProposeRead
    <2> HIDE DEF k
    <2>3. call' \in [Call -> CallState] /\ ReadsOK'
      BY <2>1, <2>2, StartMoves
    <2> QED  BY <1>2, <2>3, OnlyCallsMove DEF ProposeRead
  <1>3. ASSUME NEW c \in Call, NEW overwrite \in BOOLEAN, ImportRead(c, overwrite) PROVE Typed'
    <2> DEFINE k == [Idle EXCEPT !.at = "import"]
    <2>1. k \in CallState /\ k.at = "import"
      BY IdleIsACall DEF CallState, Places
    <2>2. Start(c, k)
      BY <1>3 DEF ImportRead
    <2> HIDE DEF k
    <2>3. call' \in [Call -> CallState] /\ ReadsOK'
      BY <2>1, <2>2, StartMoves
    <2> QED  BY <1>3, <2>3, OnlyCallsMove DEF ImportRead
  <1>4. ASSUME NEW c \in Call, SubmitRead(c) PROVE Typed'
    <2> DEFINE k == [Idle EXCEPT !.at = "submit"]
    <2>1. k \in CallState /\ k.at = "submit"
      BY IdleIsACall DEF CallState, Places
    <2>2. Start(c, k)
      BY <1>4 DEF SubmitRead
    <2> HIDE DEF k
    <2>3. call' \in [Call -> CallState] /\ ReadsOK'
      BY <2>1, <2>2, StartMoves
    <2> QED  BY <1>4, <2>3, OnlyCallsMove DEF SubmitRead
  <1>5. ASSUME NEW c \in Call, returnToDraftRead(c) PROVE Typed'
    <2> DEFINE k == [Idle EXCEPT !.at = "return"]
    <2>1. k \in CallState /\ k.at = "return"
      BY IdleIsACall DEF CallState, Places
    <2>2. Start(c, k)
      BY <1>5 DEF returnToDraftRead
    <2> HIDE DEF k
    <2>3. call' \in [Call -> CallState] /\ ReadsOK'
      BY <2>1, <2>2, StartMoves
    <2> QED  BY <1>5, <2>3, OnlyCallsMove DEF returnToDraftRead
  <1>6. ASSUME NEW c \in Call, ApproveRead(c) PROVE Typed'
    <2>0. draft.text \in Text /\ draft.text \in Nat
      BY DEF Typed, TypeOK, Text
    <2> DEFINE k == [Idle EXCEPT !.at = "approve", !.text = draft.text]
    <2>1. k \in CallState /\ k.at = "approve" /\ k.text \in Text
      BY <2>0, IdleIsACall DEF CallState, Places
    <2>2. Start(c, k)
      BY <1>6 DEF ApproveRead
    <2> HIDE DEF k
    <2>3. call' \in [Call -> CallState] /\ ReadsOK'
      BY <2>1, <2>2, StartMoves
    <2> QED  BY <1>6, <2>3, OnlyCallsMove DEF ApproveRead
  <1>7. ASSUME NEW c \in Call, WriteDraft(c) PROVE Typed'
    <2>1. call' \in [Call -> CallState] /\ ReadsOK'
      BY <1>7, ReturnMoves DEF WriteDraft
    <2>2. UNCHANGED <<policy, lapsed, template, licence, test, fresh, requested, nationwide, campaign, reviewed, crossed, unmarked, late>>
      BY <1>7 DEF WriteDraft, DraftOnly, reviewVars, configVars, activationVars
    <2>3. draft' \in [text: Text, inReview: BOOLEAN] /\ written' \in Text
          /\ reviewed' \subseteq Text /\ slipped' \subseteq Text /\ fresh' \in BOOLEAN
      BY <1>7, <2>2, BoundAssumption DEF WriteDraft, StillInReview, DraftOnly, configVars, Typed, TypeOK, Text
    <2> QED  BY <2>1, <2>2, <2>3 DEF Typed, TypeOK
  <1>8. ASSUME NEW c \in Call, ImportWrite(c) PROVE Typed'
    <2>1. call' \in [Call -> CallState] /\ ReadsOK'
      BY <1>8, ReturnMoves DEF ImportWrite
    <2>2. UNCHANGED <<written, policy, lapsed, template, licence, test, requested, nationwide, campaign, reviewed, slipped, crossed, unmarked, late>>
      BY <1>8 DEF ImportWrite, DraftOnly, reviewVars, configVars, activationVars
    <2>3. draft' \in [text: Text, inReview: BOOLEAN] /\ written' \in Text
          /\ reviewed' \subseteq Text /\ slipped' \subseteq Text /\ fresh' \in BOOLEAN
      <3>1. 1 \in Text
        BY BoundAssumption DEF Text
      <3>2. draft' = [text |-> 1, inReview |-> FALSE] /\ fresh' = FALSE
        BY <1>8 DEF ImportWrite
      <3> QED  BY <2>2, <3>1, <3>2 DEF Typed, TypeOK
    <2> QED  BY <2>1, <2>2, <2>3 DEF Typed, TypeOK
  <1>9. ASSUME NEW c \in Call, SubmitWrite(c) PROVE Typed'
    <2>1. call' \in [Call -> CallState] /\ ReadsOK'
      BY <1>9, ReturnMoves DEF SubmitWrite
    <2>2. UNCHANGED <<written, policy, lapsed, template, licence, test, fresh, requested, nationwide, campaign, slipped, crossed, unmarked, late>>
      BY <1>9 DEF SubmitWrite, DraftOnly, reviewVars, configVars, activationVars
    <2>3. draft' \in [text: Text, inReview: BOOLEAN] /\ written' \in Text
          /\ reviewed' \subseteq Text /\ slipped' \subseteq Text /\ fresh' \in BOOLEAN
      BY <1>9, <2>2, BoundAssumption DEF SubmitWrite, DraftOnly, configVars, Typed, TypeOK, Text
    <2> QED  BY <2>1, <2>2, <2>3 DEF Typed, TypeOK
  <1>10. ASSUME NEW c \in Call, returnToDraftWrite(c) PROVE Typed'
    <2>1. call' \in [Call -> CallState] /\ ReadsOK'
      BY <1>10, ReturnMoves DEF returnToDraftWrite
    <2>2. UNCHANGED <<written, policy, lapsed, template, licence, test, fresh, requested, nationwide, campaign, reviewed, slipped, crossed, unmarked, late>>
      BY <1>10 DEF returnToDraftWrite, DraftOnly, reviewVars, configVars, activationVars
    <2>3. draft' \in [text: Text, inReview: BOOLEAN] /\ written' \in Text
          /\ reviewed' \subseteq Text /\ slipped' \subseteq Text /\ fresh' \in BOOLEAN
      BY <1>10, <2>2, BoundAssumption DEF returnToDraftWrite, DraftOnly, configVars, Typed, TypeOK, Text
    <2> QED  BY <2>1, <2>2, <2>3 DEF Typed, TypeOK
  <1> QED  BY <1>1, <1>2, <1>3, <1>4, <1>5, <1>6, <1>7, <1>8, <1>9, <1>10 DEF ReviewNext

LEMMA VersionsTyped == Typed /\ VersionsNext => Typed'
  <1> SUFFICES ASSUME Typed, VersionsNext PROVE Typed'
    OBVIOUS
  <1>1. ASSUME NEW c \in Call, AcceptRead(c) PROVE Typed'
    <2>0. draft.text \in Text /\ draft.text \in Nat
      BY DEF Typed, TypeOK, Text
    <2> DEFINE k == [Idle EXCEPT !.at = "accept", !.text = draft.text]
    <2>1. k \in CallState /\ k.at = "accept" /\ k.text \in Text
      BY <2>0, IdleIsACall DEF CallState, Places
    <2>2. Start(c, k)
      BY <1>1 DEF AcceptRead
    <2> HIDE DEF k
    <2>3. call' \in [Call -> CallState] /\ ReadsOK'
      BY <2>1, <2>2, StartMoves
    <2> QED  BY <1>1, <2>3, OnlyCallsMove DEF AcceptRead
  <1>2. ASSUME NEW c \in Call, createVersion(c) PROVE Typed'
    <2>1. call' \in [Call -> CallState] /\ ReadsOK'
      BY <1>2, ReturnMoves DEF createVersion
    <2> DEFINE v == [text |-> call[c].text,
                     basis |-> IF At(c, "approve") THEN "counsel" ELSE "owner"]
    <2>2. v \in [text: Text, basis: {"counsel", "owner"}]
      BY <1>2 DEF createVersion, Typed, ReadsOK
    <2>3. policy' = Append(policy, v) /\ Len(policy) < MaxPolicy
      BY <1>2 DEF createVersion
    <2>4. call[c].yes \in BOOLEAN
      BY DEF Typed, TypeOK, CallState
    <2> HIDE DEF v
    <2>5. policy' \in Seq([text: Text, basis: {"counsel", "owner"}]) /\ Len(policy') <= MaxPolicy
      BY <2>2, <2>3, BoundAssumption DEF Typed, TypeOK
    <2>6. draft' \in [text: Text, inReview: BOOLEAN]
      BY <1>2 DEF createVersion, Typed, TypeOK, At
    <2>7. fresh' \in BOOLEAN /\ unmarked' \in BOOLEAN /\ crossed' \in BOOLEAN
      BY <1>2, <2>4 DEF createVersion, Aged, Changed, Typed, TypeOK
    <2> QED  BY <1>2, <2>1, <2>5, <2>6, <2>7 DEF createVersion, Typed, TypeOK, activationVars
  <1>3. CASE ReviewLapses
    BY <1>3 DEF ReviewLapses, Typed, TypeOK, ReadsOK, At, configVars, activationVars
  <1> QED  BY <1>1, <1>2, <1>3 DEF VersionsNext

LEMMA TemplatesTyped == Typed /\ TemplatesNext => Typed'
  <1> SUFFICES ASSUME Typed, TemplatesNext PROVE Typed'
    OBVIOUS
  <1>1. ASSUME NEW c \in Call, NEW v \in Version, NEW here \in BOOLEAN, NEW valid \in BOOLEAN, AddVersion(c, v, here, valid) PROVE Typed'
    <2>1. call' \in [Call -> CallState] /\ ReadsOK'
      BY <1>1, MarkMoves DEF AddVersion
    <2>2. UNCHANGED <<draft, written, policy, lapsed, licence, test, fresh, requested,
                      nationwide, campaign, reviewed, slipped, late>>
      BY <1>1 DEF AddVersion, Elsewhere, reviewVars, configVars, activationVars
    <2>3. template' \in [Version -> [status: TemplateStatus, here: BOOLEAN]]
          /\ unmarked' \in BOOLEAN /\ crossed' \in BOOLEAN
      BY <1>1 DEF AddVersion, Changed, TemplateStatus, Typed, TypeOK
    <2> QED  BY <2>1, <2>2, <2>3 DEF Typed, TypeOK
  <1>2. ASSUME NEW c \in Call, NEW v \in Version, NEW here \in BOOLEAN, TemplateApproveRead(c, v, here) PROVE Typed'
    <2>0. v \in 0..MaxTemplate
      BY BoundAssumption DEF Version
    <2> DEFINE k == [Idle EXCEPT !.at = "scan", !.n = v, !.yes = here,
                             !.to = IF here \/ template[v].here THEN "active" ELSE "research"]
    <2>1. k \in CallState /\ k.at = "scan" /\ k.n \in Version /\ (k.yes => k.to = "active")
      BY <2>0, IdleIsACall DEF CallState, Places, Requests
    <2>2. Start(c, k)
      BY <1>2 DEF TemplateApproveRead
    <2> HIDE DEF k
    <2>3. call' \in [Call -> CallState] /\ ReadsOK'
      BY <2>1, <2>2, StartMoves
    <2>4. UNCHANGED <<draft, written, policy, lapsed, template, licence, test, fresh,
                      requested, nationwide, campaign, reviewed, slipped, crossed, unmarked,
                      late>>
      BY <1>2 DEF TemplateApproveRead, Elsewhere, reviewVars, configVars, activationVars
    <2> QED  BY <2>3, <2>4 DEF Typed, TypeOK
  <1>3. ASSUME NEW c \in Call, TemplateApproveScan(c) PROVE Typed'
    <2>0. call[c] \in CallState /\ call[c].n \in Version /\ (call[c].yes => call[c].to = "active")
      BY <1>3 DEF TemplateApproveScan, Typed, TypeOK, ReadsOK, At
    <2> DEFINE olds == {w \in Version \ {call[c].n} : template[w].status = "approved"}
               k == [call[c] EXCEPT !.at = "commit", !.olds = olds]
    <2>1. olds \in SUBSET Version
      OBVIOUS
    <2>2. call' = [call EXCEPT ![c] = k]
      BY <1>3 DEF TemplateApproveScan, Typed, TypeOK
    <2> HIDE DEF olds
    <2>3. k \in CallState /\ k.at = "commit" /\ k.n \in Version /\ (k.yes => k.to = "active")
      BY <2>0, <2>1 DEF CallState, Places
    <2> HIDE DEF k
    <2>4. call' \in [Call -> CallState] /\ ReadsOK'
      BY <2>2, <2>3, ReadsMove
    <2>5. UNCHANGED <<draft, written, policy, lapsed, template, licence, test, fresh,
                      requested, nationwide, campaign, reviewed, slipped, crossed, unmarked,
                      late>>
      BY <1>3 DEF TemplateApproveScan, Elsewhere, reviewVars, configVars, activationVars
    <2> QED  BY <2>4, <2>5 DEF Typed, TypeOK
  <1>4. ASSUME NEW c \in Call, TemplateApproveCommit(c) PROVE Typed'
    <2>0. call[c].yes \in BOOLEAN /\ (call[c].to = "active") \in BOOLEAN
      BY DEF Typed, TypeOK, CallState
    <2>1. call' \in [Call -> CallState] /\ ReadsOK'
      BY <1>4, <2>0, MarkMoves DEF TemplateApproveCommit
    <2>2. UNCHANGED <<draft, written, policy, lapsed, licence, test, fresh, requested,
                      nationwide, campaign, reviewed, slipped, crossed, late>>
      BY <1>4 DEF TemplateApproveCommit, Elsewhere, Changed, reviewVars, configVars, activationVars
    <2>3. template' = [w \in Version |->
              IF w = call[c].n THEN [status |-> "approved", here |-> call[c].yes]
              ELSE IF w \in call[c].olds THEN [template[w] EXCEPT !.status = "retired"]
              ELSE template[w]]
      BY <1>4 DEF TemplateApproveCommit
    <2>4. template' \in [Version -> [status: TemplateStatus, here: BOOLEAN]]
      BY <2>0, <2>3 DEF Typed, TypeOK, TemplateStatus
    <2>5. unmarked' \in BOOLEAN
      BY <1>4 DEF TemplateApproveCommit, Changed, Typed, TypeOK
    <2> QED  BY <2>1, <2>2, <2>4, <2>5 DEF Typed, TypeOK
  <1>5. ASSUME NEW c \in Call, NEW v \in Version, TemplateRetireRead(c, v) PROVE Typed'
    <2>0. v \in 0..MaxTemplate /\ template[v].here \in BOOLEAN
      BY BoundAssumption DEF Version, Typed, TypeOK
    <2> DEFINE k == [Idle EXCEPT !.at = "retire", !.n = v, !.yes = template[v].here]
    <2>1. k \in CallState /\ k.at = "retire" /\ k.n \in Version
      BY <2>0, IdleIsACall DEF CallState, Places
    <2>2. Start(c, k)
      BY <1>5 DEF TemplateRetireRead
    <2> HIDE DEF k
    <2>3. call' \in [Call -> CallState] /\ ReadsOK'
      BY <2>1, <2>2, StartMoves
    <2>4. UNCHANGED <<draft, written, policy, lapsed, template, licence, test, fresh,
                      requested, nationwide, campaign, reviewed, slipped, crossed, unmarked,
                      late>>
      BY <1>5 DEF TemplateRetireRead, Elsewhere, reviewVars, configVars, activationVars
    <2> QED  BY <2>3, <2>4 DEF Typed, TypeOK
  <1>6. ASSUME NEW c \in Call, TemplateRetireWrite(c) PROVE Typed'
    <2>0. call[c].yes \in BOOLEAN /\ call[c].n \in Version
      BY <1>6 DEF TemplateRetireWrite, Typed, TypeOK, ReadsOK, CallState, At
    <2>1. call' \in [Call -> CallState] /\ ReadsOK'
      BY <1>6, <2>0, MarkMoves DEF TemplateRetireWrite
    <2>2. UNCHANGED <<draft, written, policy, lapsed, licence, test, fresh, requested,
                      nationwide, campaign, reviewed, slipped, crossed, late>>
      BY <1>6 DEF TemplateRetireWrite, Elsewhere, Changed, reviewVars, configVars, activationVars
    <2>3. template' \in [Version -> [status: TemplateStatus, here: BOOLEAN]] /\ unmarked' \in BOOLEAN
      BY <1>6, <2>0 DEF TemplateRetireWrite, Changed, Typed, TypeOK, TemplateStatus
    <2> QED  BY <2>1, <2>2, <2>3 DEF Typed, TypeOK
  <1>7. ASSUME NEW c \in Call, markChanged(c) PROVE Typed'
    <2>1. call' \in [Call -> CallState] /\ ReadsOK'
      BY <1>7, ReturnMoves DEF markChanged
    <2>2. UNCHANGED <<draft, written, policy, lapsed, template, licence, test, requested,
                      nationwide, campaign, reviewed, slipped, crossed, unmarked, late>>
      BY <1>7 DEF markChanged, Elsewhere, reviewVars, configVars, activationVars
    <2>3. fresh' \in BOOLEAN
      BY <1>7 DEF markChanged
    <2> QED  BY <2>1, <2>2, <2>3 DEF Typed, TypeOK
  <1> QED  BY <1>1, <1>2, <1>3, <1>4, <1>5, <1>6, <1>7 DEF TemplatesNext

LEMMA TestsTyped == Typed /\ TestsNext => Typed'
  <1> SUFFICES ASSUME Typed, TestsNext PROVE Typed'
    OBVIOUS
  <1>1. ASSUME NEW c \in Call, TestRead(c) PROVE Typed'
    <2> PICK v \in 0..MaxTemplate :
               Start(c, [Idle EXCEPT !.at = "test", !.text = Len(policy), !.n = v])
      BY <1>1 DEF TestRead
    <2>1. Len(policy) \in Nat /\ Len(policy) \in 0..MaxPolicy
      BY BoundAssumption DEF Typed, TypeOK
    <2> DEFINE k == [Idle EXCEPT !.at = "test", !.text = Len(policy), !.n = v]
    <2>2. k \in CallState /\ k.at = "test" /\ k.text \in 0..MaxPolicy
      BY <2>1, IdleIsACall DEF CallState, Places
    <2>3. Start(c, k)
      OBVIOUS
    <2> HIDE DEF k
    <2>4. call' \in [Call -> CallState] /\ ReadsOK'
      BY <2>2, <2>3, StartMoves
    <2>5. UNCHANGED <<draft, written, policy, lapsed, template, licence, test, fresh,
                      requested, nationwide, campaign, reviewed, slipped, crossed, unmarked,
                      late>>
      BY <1>1 DEF TestRead, TestOnly, reviewVars, configVars, activationVars
    <2> QED  BY <2>4, <2>5 DEF Typed, TypeOK
  <1>2. ASSUME NEW c \in Call, NEW ok \in BOOLEAN, TestStamp(c, ok) PROVE Typed'
    <2>0. call[c].text \in 0..MaxPolicy /\ call[c].n \in 0..MaxTemplate
      BY <1>2 DEF TestStamp, Typed, TypeOK, ReadsOK, CallState
    <2>1. ASSUME NEW d \in Call
          PROVE  /\ call'[d] \in CallState
                 /\ call'[d].at # "idle" =>
                       /\ call'[d].at = call[d].at
                       /\ call'[d].text = call[d].text
                       /\ call'[d].n = call[d].n
                       /\ call'[d].at \in {"scan", "commit"} => call'[d] = call[d]
      <3>0. call[d] \in CallState
        BY DEF Typed, TypeOK
      <3>1. CASE d = c
        <4>1. call'[d] = Idle
          BY <1>2, <3>1, Zenon DEF TestStamp
        <4> QED  BY <4>1, IdleIsACall
      <3>2. CASE d # c /\ call[d].at \in {"approve", "accept"}
        <4>1. call'[d] = [call[d] EXCEPT !.yes = TRUE]
          BY <1>2, <3>2 DEF TestStamp
        <4> QED  BY <3>0, <3>2, <4>1 DEF CallState
      <3>3. CASE d # c /\ call[d].at \notin {"approve", "accept"}
        BY <1>2, <3>0, <3>3 DEF TestStamp
      <3> QED  BY <3>1, <3>2, <3>3
    <2>2. call' \in [Call -> CallState]
      <3>1. DOMAIN call' = Call /\ call' = [d \in Call |-> call'[d]]
        BY <1>2 DEF TestStamp
      <3> QED  BY <2>1, <3>1
    <2>3. ReadsOK'
      BY <2>1 DEF Typed, ReadsOK, At
    <2>4. UNCHANGED <<draft, written, policy, lapsed, template, licence, requested,
                      nationwide, campaign, reviewed, slipped, late>>
      BY <1>2 DEF TestStamp, TestOnly, reviewVars, activationVars
    <2>5. test' \in [passed: BOOLEAN, policy: 0..MaxPolicy, template: 0..MaxTemplate]
      BY <1>2, <2>0 DEF TestStamp
    <2>6. fresh' \in BOOLEAN /\ crossed' \in BOOLEAN /\ unmarked' \in BOOLEAN
      BY <1>2 DEF TestStamp
    <2> QED  BY <2>2, <2>3, <2>4, <2>5, <2>6 DEF Typed, TypeOK
  <1>3. CASE setOperator
    <2>1. UNCHANGED <<draft, written, policy, lapsed, template, licence, test, requested,
                      nationwide, campaign, call, reviewed, slipped, crossed, unmarked, late>>
      BY <1>3 DEF setOperator, TestOnly, reviewVars, activationVars
    <2>2. fresh' \in BOOLEAN
      BY <1>3 DEF setOperator
    <2>3. TypeOK'
      BY <2>1, <2>2 DEF Typed, TypeOK
    <2>4. ReadsOK'
      BY <2>1 DEF Typed, ReadsOK, At
    <2> QED  BY <2>3, <2>4 DEF Typed
  <1> QED  BY <1>1, <1>2, <1>3 DEF TestsNext

LEMMA StatusTyped == Typed /\ StatusNext => Typed'
  <1> SUFFICES ASSUME Typed, StatusNext PROVE Typed'
    OBVIOUS
  <1>1. ASSUME NEW c \in Call, NEW target \in Requests, SetStatusRead(c, target) PROVE Typed'
    <2> DEFINE k == [Idle EXCEPT !.at = "set", !.to = target]
    <2>1. k \in CallState /\ k.at = "set"
      BY IdleIsACall DEF CallState, Places
    <2>2. Start(c, k)
      BY <1>1 DEF SetStatusRead
    <2> HIDE DEF k
    <2>3. call' \in [Call -> CallState] /\ ReadsOK'
      BY <2>1, <2>2, StartMoves
    <2>4. UNCHANGED <<draft, written, policy, lapsed, template, licence, test, fresh,
                      requested, nationwide, campaign, reviewed, slipped, crossed, unmarked,
                      late>>
      BY <1>1 DEF SetStatusRead, StatusOnly, reviewVars, configVars, activationVars
    <2> QED  BY <2>3, <2>4 DEF Typed, TypeOK
  <1>2. ASSUME NEW c \in Call, SetStatusWrite(c) PROVE Typed'
    <2>0. call[c].to \in Requests
      BY DEF Typed, TypeOK, CallState
    <2> DEFINE k == IF Pauses(call[c].to) THEN [Idle EXCEPT !.at = "pause"] ELSE Idle
    <2>1. k \in CallState /\ k.at \in {"idle", "pause"}
      BY IdleIsACall DEF CallState, Places
    <2>2. call' = [call EXCEPT ![c] = k]
      BY <1>2 DEF SetStatusWrite
    <2> HIDE DEF k
    <2>3. call' \in [Call -> CallState] /\ ReadsOK'
      BY <2>1, <2>2, ReadsMove
    <2>4. UNCHANGED <<draft, written, policy, lapsed, template, licence, test, fresh,
                      nationwide, campaign, reviewed, slipped, crossed, unmarked, late>>
      BY <1>2 DEF SetStatusWrite, StatusOnly, reviewVars, configVars
    <2> QED  BY <1>2, <2>0, <2>3, <2>4 DEF SetStatusWrite, Typed, TypeOK
  <1>3. ASSUME NEW c \in Call, pauseCampaigns(c) PROVE Typed'
    <2>1. call' \in [Call -> CallState] /\ ReadsOK'
      BY <1>3, ReturnMoves DEF pauseCampaigns
    <2>2. UNCHANGED <<draft, written, policy, lapsed, template, licence, test, fresh,
                      requested, nationwide, reviewed, slipped, crossed, unmarked>>
      BY <1>3 DEF pauseCampaigns, StatusOnly, reviewVars, configVars, activationVars
    <2>3. campaign' \in {"none", "active", "paused"} /\ late' \in BOOLEAN
      BY <1>3 DEF pauseCampaigns, Typed, TypeOK
    <2> QED  BY <2>1, <2>2, <2>3 DEF Typed, TypeOK
  <1>4. ASSUME NEW c \in Call, LaunchRead(c) PROVE Typed'
    <2> DEFINE k == [Idle EXCEPT !.at = "launch"]
    <2>1. k \in CallState /\ k.at = "launch"
      BY IdleIsACall DEF CallState, Places
    <2>2. Start(c, k)
      BY <1>4 DEF LaunchRead
    <2> HIDE DEF k
    <2>3. call' \in [Call -> CallState] /\ ReadsOK'
      BY <2>1, <2>2, StartMoves
    <2>4. UNCHANGED <<draft, written, policy, lapsed, template, licence, test, fresh,
                      requested, nationwide, campaign, reviewed, slipped, crossed, unmarked,
                      late>>
      BY <1>4 DEF LaunchRead, StatusOnly, reviewVars, configVars, activationVars
    <2> QED  BY <2>3, <2>4 DEF Typed, TypeOK
  <1>5. ASSUME NEW c \in Call, LaunchWrite(c) PROVE Typed'
    <2>1. call' \in [Call -> CallState] /\ ReadsOK'
      BY <1>5, ReturnMoves DEF LaunchWrite
    <2>2. UNCHANGED <<draft, written, policy, lapsed, template, licence, test, fresh,
                      requested, nationwide, reviewed, slipped, crossed, unmarked>>
      BY <1>5 DEF LaunchWrite, StatusOnly, reviewVars, configVars, activationVars
    <2>3. campaign' \in {"none", "active", "paused"} /\ late' \in BOOLEAN
      BY <1>5 DEF LaunchWrite, Typed, TypeOK
    <2> QED  BY <2>1, <2>2, <2>3 DEF Typed, TypeOK
  <1>6. CASE CampaignStops
    <2>1. call' \in [Call -> CallState] /\ ReadsOK'
      BY <1>6 DEF CampaignStops, Typed, TypeOK, ReadsOK, At
    <2>2. UNCHANGED <<draft, written, policy, lapsed, template, licence, test, fresh,
                      requested, nationwide, reviewed, slipped, crossed, unmarked>>
      BY <1>6 DEF CampaignStops, StatusOnly, reviewVars, configVars, activationVars
    <2>3. campaign' \in {"none", "active", "paused"} /\ late' \in BOOLEAN
      BY <1>6 DEF CampaignStops, Typed, TypeOK
    <2> QED  BY <2>1, <2>2, <2>3 DEF Typed, TypeOK
  <1>7. CASE openNationwide
    <2>1. call' \in [Call -> CallState] /\ ReadsOK'
      BY <1>7 DEF openNationwide, Typed, TypeOK, ReadsOK, At
    <2>2. UNCHANGED <<draft, written, policy, lapsed, template, licence, test, fresh,
                      requested, campaign, reviewed, slipped, crossed, unmarked, late>>
      BY <1>7 DEF openNationwide, reviewVars, configVars, activationVars
    <2>3. nationwide' \in BOOLEAN
      BY <1>7 DEF openNationwide, Typed, TypeOK
    <2> QED  BY <2>1, <2>2, <2>3 DEF Typed, TypeOK
  <1>8. CASE closeNationwide
    <2>1. call' \in [Call -> CallState] /\ ReadsOK'
      BY <1>8 DEF closeNationwide, Typed, TypeOK, ReadsOK, At
    <2>2. UNCHANGED <<draft, written, policy, lapsed, template, licence, test, fresh,
                      requested, campaign, reviewed, slipped, crossed, unmarked, late>>
      BY <1>8 DEF closeNationwide, reviewVars, configVars, activationVars
    <2>3. nationwide' \in BOOLEAN
      BY <1>8 DEF closeNationwide, Typed, TypeOK
    <2> QED  BY <2>1, <2>2, <2>3 DEF Typed, TypeOK
  <1> QED  BY <1>1, <1>2, <1>3, <1>4, <1>5, <1>6, <1>7, <1>8 DEF StatusNext

LEMMA LicenceTyped == Typed /\ LicenceNext => Typed'
  <1> SUFFICES ASSUME Typed, LicenceNext PROVE Typed'
    OBVIOUS
  <1>1. ASSUME NEW c \in Call, createAuthorization(c) PROVE Typed'
    <2>1. call' \in [Call -> CallState] /\ ReadsOK'
      BY <1>1, MarkMoves DEF createAuthorization
    <2>2. UNCHANGED <<draft, written, policy, lapsed, template, test, fresh, requested,
                      nationwide, campaign, reviewed, slipped, crossed, unmarked, late>>
      BY <1>1 DEF createAuthorization, LicenceOnly, reviewVars, configVars, activationVars
    <2>3. licence' \in [status: {"none", "pending", "active", "revoked"},
                       verified: BOOLEAN, lapsed: BOOLEAN]
      BY <1>1 DEF createAuthorization, Typed, TypeOK
    <2> QED  BY <2>1, <2>2, <2>3 DEF Typed, TypeOK
  <1>2. ASSUME NEW c \in Call, UpdateRead(c) PROVE Typed'
    <2>0. licence.verified \in BOOLEAN
      BY DEF Typed, TypeOK
    <2> DEFINE k == [Idle EXCEPT !.at = "renew", !.yes = licence.verified]
    <2>1. k \in CallState /\ k.at = "renew"
      BY <2>0, IdleIsACall DEF CallState, Places
    <2>2. Start(c, k)
      BY <1>2 DEF UpdateRead
    <2> HIDE DEF k
    <2>3. call' \in [Call -> CallState] /\ ReadsOK'
      BY <2>1, <2>2, StartMoves
    <2>4. UNCHANGED <<draft, written, policy, lapsed, template, licence, test, fresh,
                      requested, nationwide, campaign, reviewed, slipped, crossed, unmarked,
                      late>>
      BY <1>2 DEF UpdateRead, LicenceOnly, reviewVars, configVars, activationVars
    <2> QED  BY <2>3, <2>4 DEF Typed, TypeOK
  <1>3. ASSUME NEW c \in Call, NEW renewed \in BOOLEAN, UpdateWrite(c, renewed) PROVE Typed'
    <2>1. call' \in [Call -> CallState] /\ ReadsOK'
      BY <1>3, MarkMoves DEF UpdateWrite
    <2>2. UNCHANGED <<draft, written, policy, lapsed, template, test, fresh, requested,
                      nationwide, campaign, reviewed, slipped, crossed, unmarked, late>>
      BY <1>3 DEF UpdateWrite, LicenceOnly, reviewVars, configVars, activationVars
    <2>3. licence' \in [status: {"none", "pending", "active", "revoked"},
                       verified: BOOLEAN, lapsed: BOOLEAN]
      BY <1>3 DEF UpdateWrite, CallState, Typed, TypeOK
    <2> QED  BY <2>1, <2>2, <2>3 DEF Typed, TypeOK
  <1>4. ASSUME NEW c \in Call, VerifyRead(c) PROVE Typed'
    <2> DEFINE k == [Idle EXCEPT !.at = "verify"]
    <2>1. k \in CallState /\ k.at = "verify"
      BY IdleIsACall DEF CallState, Places
    <2>2. Start(c, k)
      BY <1>4 DEF VerifyRead
    <2> HIDE DEF k
    <2>3. call' \in [Call -> CallState] /\ ReadsOK'
      BY <2>1, <2>2, StartMoves
    <2>4. UNCHANGED <<draft, written, policy, lapsed, template, licence, test, fresh,
                      requested, nationwide, campaign, reviewed, slipped, crossed, unmarked,
                      late>>
      BY <1>4 DEF VerifyRead, LicenceOnly, reviewVars, configVars, activationVars
    <2> QED  BY <2>3, <2>4 DEF Typed, TypeOK
  <1>5. ASSUME NEW c \in Call, VerifyWrite(c) PROVE Typed'
    <2>1. call' \in [Call -> CallState] /\ ReadsOK'
      BY <1>5, MarkMoves DEF VerifyWrite
    <2>2. UNCHANGED <<draft, written, policy, lapsed, template, test, fresh, requested,
                      nationwide, campaign, reviewed, slipped, crossed, unmarked, late>>
      BY <1>5 DEF VerifyWrite, LicenceOnly, reviewVars, configVars, activationVars
    <2>3. licence' \in [status: {"none", "pending", "active", "revoked"},
                       verified: BOOLEAN, lapsed: BOOLEAN]
      BY <1>5 DEF VerifyWrite, Typed, TypeOK
    <2> QED  BY <2>1, <2>2, <2>3 DEF Typed, TypeOK
  <1>6. ASSUME NEW c \in Call, revokeAuthorization(c) PROVE Typed'
    <2>1. call' \in [Call -> CallState] /\ ReadsOK'
      BY <1>6, MarkMoves DEF revokeAuthorization
    <2>2. UNCHANGED <<draft, written, policy, lapsed, template, test, fresh, requested,
                      nationwide, campaign, reviewed, slipped, crossed, unmarked, late>>
      BY <1>6 DEF revokeAuthorization, LicenceOnly, reviewVars, configVars, activationVars
    <2>3. licence' \in [status: {"none", "pending", "active", "revoked"},
                       verified: BOOLEAN, lapsed: BOOLEAN]
      BY <1>6 DEF revokeAuthorization, Typed, TypeOK
    <2> QED  BY <2>1, <2>2, <2>3 DEF Typed, TypeOK
  <1>7. CASE LicenceLapses
    <2>1. call' \in [Call -> CallState] /\ ReadsOK'
      BY <1>7 DEF LicenceLapses, Typed, TypeOK, ReadsOK, At
    <2>2. UNCHANGED <<draft, written, policy, lapsed, template, test, fresh, requested,
                      nationwide, campaign, reviewed, slipped, crossed, unmarked, late>>
      BY <1>7 DEF LicenceLapses, LicenceOnly, reviewVars, configVars, activationVars
    <2>3. licence' \in [status: {"none", "pending", "active", "revoked"},
                       verified: BOOLEAN, lapsed: BOOLEAN]
      BY <1>7 DEF LicenceLapses, Typed, TypeOK
    <2> QED  BY <2>1, <2>2, <2>3 DEF Typed, TypeOK
  <1> QED  BY <1>1, <1>2, <1>3, <1>4, <1>5, <1>6, <1>7 DEF LicenceNext

LEMMA GiveUpTyped ==
    ASSUME Typed, NEW c \in Call, GiveUp(c)
    PROVE  Typed'
  <1>1. call' \in [Call -> CallState] /\ ReadsOK'
    BY ReturnMoves DEF GiveUp
  <1>2. UNCHANGED <<draft, written, policy, lapsed, template, licence, test, fresh,
                    requested, nationwide, campaign, reviewed, slipped, crossed>>
    BY DEF GiveUp, reviewVars
  <1>3. unmarked' \in BOOLEAN /\ late' \in BOOLEAN
    BY DEF GiveUp, Typed, TypeOK
  <1> QED  BY <1>1, <1>2, <1>3 DEF Typed, TypeOK

LEMMA TypedStep == Typed /\ [Next]_vars => Typed'
  <1>1. Typed /\ UNCHANGED vars => Typed'
    BY DEF vars, Typed, TypeOK, ReadsOK, At
  <1> QED  BY <1>1, ReviewTyped, VersionsTyped, TemplatesTyped, TestsTyped, StatusTyped,
              LicenceTyped, GiveUpTyped DEF Next

LEMMA TypedInit == Init => Typed
  <1> SUFFICES ASSUME Init PROVE Typed
    OBVIOUS
  <1>1. 1 \in Text /\ 1 \in Version /\ 1 \in 0..MaxTemplate /\ 1 \in 0..MaxPolicy /\ 0 \in 0..MaxPolicy
        /\ 0 \in 0..MaxTemplate
    BY BoundAssumption DEF Text, Version
  <1>2. call \in [Call -> CallState] /\ ReadsOK
    BY IdleIsACall DEF Init, ReadsOK, At
  <1>3. draft \in [text: Text, inReview: BOOLEAN] /\ written \in Text
        /\ lapsed \in BOOLEAN /\ fresh \in BOOLEAN /\ nationwide \in BOOLEAN
        /\ campaign \in {"none", "active", "paused"}
        /\ reviewed \subseteq Text /\ slipped \subseteq Text
        /\ crossed \in BOOLEAN /\ unmarked \in BOOLEAN /\ late \in BOOLEAN
    BY <1>1 DEF Init
  <1>4. /\ policy \in Seq([text: Text, basis: {"counsel", "owner"}])
        /\ Len(policy) <= MaxPolicy
    <2>1. CASE policy = <<>>
      BY <2>1, BoundAssumption
    <2>2. CASE policy = <<[text |-> 1, basis |-> "owner"]>>
      <3> DEFINE v == [text |-> 1, basis |-> "owner"]
      <3>1. v \in [text: Text, basis: {"counsel", "owner"}]
        BY <1>1
      <3> HIDE DEF v
      <3> QED  BY <2>2, <3>1, BoundAssumption DEF v
    <2> QED  BY <2>1, <2>2 DEF Init
  <1>5. template \in [Version -> [status: TemplateStatus, here: BOOLEAN]]
    <2>1. CASE template = [v \in Version |-> [status |-> "none", here |-> FALSE]]
      BY <2>1 DEF TemplateStatus
    <2>2. CASE template = [v \in Version |-> [status |-> IF v = 1 THEN "approved" ELSE "none",
                                              here |-> v = 1]]
      <3>1. ASSUME NEW v \in Version
            PROVE  [status |-> IF v = 1 THEN "approved" ELSE "none", here |-> v = 1]
                       \in [status: TemplateStatus, here: BOOLEAN]
        BY DEF TemplateStatus
      <3> QED  BY <2>2, <3>1
    <2> QED  BY <2>1, <2>2 DEF Init
  <1>6. test \in [passed: BOOLEAN, policy: 0..MaxPolicy, template: 0..MaxTemplate]
    <2>1. CASE test = [passed |-> FALSE, policy |-> 0, template |-> 0]
      BY <1>1, <2>1
    <2>2. CASE test = [passed |-> TRUE, policy |-> 1, template |-> 1]
      BY <1>1, <2>2
    <2> QED  BY <2>1, <2>2 DEF Init
  <1>7. requested \in Requests
    BY DEF Init, Requests
  <1>8. licence \in [status: {"none", "pending", "active", "revoked"},
                     verified: BOOLEAN, lapsed: BOOLEAN]
    <2>1. CASE licence = [status |-> "none", verified |-> FALSE, lapsed |-> FALSE]
      BY <2>1
    <2>2. CASE licence = [status |-> "active", verified |-> TRUE, lapsed |-> FALSE]
      BY <2>2
    <2> QED  BY <2>1, <2>2 DEF Init
  <1> QED  BY <1>2, <1>3, <1>4, <1>5, <1>6, <1>7, <1>8 DEF Typed, TypeOK

\* Every reachable state of a market is made of values its rows can hold, and a
\* call in flight holds a version and a text that exist.
THEOREM MarketTypeCorrect == Spec => []TypeOK
  <1>1. Typed => TypeOK
    BY DEF Typed
  <1> QED  BY <1>1, TypedInit, TypedStep, PTL DEF Spec

-----------------------------------------------------------------------------
\* What the calls of a step leave alone.

Alone(c) == \A d \in Call \ {c} : call'[d] = call[d]

NoNewApproval ==
    \A d \in Call : call'[d].at = "approve" =>
        call[d].at = "approve" /\ call'[d].text = call[d].text

MarksStay == \A d \in Call : call[d].at = "mark" => call'[d].at = "mark"

PausesStay == \A d \in Call : call[d].at = "pause" => call'[d].at = "pause"

Calm == NoNewApproval /\ MarksStay /\ PausesStay

LEMMA Started ==
    ASSUME Typed, NEW c \in Call, NEW k, Start(c, k)
    PROVE  /\ Alone(c) /\ call[c].at = "idle" /\ call'[c] = k
           /\ MarksStay /\ PausesStay
           /\ k.at # "approve" => NoNewApproval
  <1>1. Alone(c) /\ call[c].at = "idle" /\ call'[c] = k
    BY IdleIsACall DEF Start, Alone, Typed, TypeOK
  <1> QED  BY <1>1 DEF Alone, MarksStay, PausesStay, NoNewApproval

LEMMA Returned ==
    ASSUME Typed, NEW c \in Call, Return(c)
    PROVE  /\ Alone(c) /\ call'[c].at = "idle" /\ NoNewApproval
           /\ ~At(c, "mark") => MarksStay
           /\ ~At(c, "pause") => PausesStay
  <1>1. Alone(c) /\ call'[c].at = "idle"
    BY IdleIsACall DEF Return, Alone, Typed, TypeOK
  <1> QED  BY <1>1 DEF Alone, MarksStay, PausesStay, NoNewApproval, At

LEMMA Marked ==
    ASSUME Typed, NEW c \in Call, NEW marks \in BOOLEAN, ThenMark(c, marks),
           ~At(c, "mark"), ~At(c, "pause")
    PROVE  Calm /\ (marks => At(c, "mark")')
  <1> DEFINE k == IF marks THEN [Idle EXCEPT !.at = "mark"] ELSE Idle
  <1>1. k.at = IF marks THEN "mark" ELSE "idle"
    BY IdleIsACall
  <1>2. call' = [call EXCEPT ![c] = k]
    BY DEF ThenMark
  <1> HIDE DEF k
  <1>3. Alone(c) /\ call'[c] = k
    BY <1>2 DEF Alone, Typed, TypeOK
  <1> QED  BY <1>1, <1>3 DEF Alone, Calm, MarksStay, PausesStay, NoNewApproval, At

LEMMA ReviewCalm ==
    ASSUME Typed, ReviewNext
    PROVE  /\ MarksStay /\ PausesStay
           /\ NoNewApproval \/ \E c \in Call : ApproveRead(c)
  <1>1. ASSUME NEW c \in Call, EditRead(c) PROVE Calm
    <2> DEFINE k == [Idle EXCEPT !.at = "write", !.yes = draft.inReview]
    <2>1. k.at # "approve"
      BY IdleIsACall
    <2>2. Start(c, k)
      BY <1>1 DEF EditRead
    <2> HIDE DEF k
    <2> QED  BY <2>1, <2>2, Started DEF Calm
  <1>2. ASSUME NEW c \in Call, ProposeRead(c) PROVE Calm
    <2> DEFINE k == [Idle EXCEPT !.at = "write"]
    <2>1. k.at # "approve"
      BY IdleIsACall
    <2>2. Start(c, k)
      BY <1>2 DEF ProposeRead
    <2> HIDE DEF k
    <2> QED  BY <2>1, <2>2, Started DEF Calm
  <1>3. ASSUME NEW c \in Call, WriteDraft(c) PROVE Calm
    BY <1>3, Returned DEF WriteDraft, At, Calm
  <1>4. ASSUME NEW c \in Call, NEW overwrite \in BOOLEAN, ImportRead(c, overwrite) PROVE Calm
    <2> DEFINE k == [Idle EXCEPT !.at = "import"]
    <2>1. k.at # "approve"
      BY IdleIsACall
    <2>2. Start(c, k)
      BY <1>4 DEF ImportRead
    <2> HIDE DEF k
    <2> QED  BY <2>1, <2>2, Started DEF Calm
  <1>5. ASSUME NEW c \in Call, ImportWrite(c) PROVE Calm
    BY <1>5, Returned DEF ImportWrite, At, Calm
  <1>6. ASSUME NEW c \in Call, SubmitRead(c) PROVE Calm
    <2> DEFINE k == [Idle EXCEPT !.at = "submit"]
    <2>1. k.at # "approve"
      BY IdleIsACall
    <2>2. Start(c, k)
      BY <1>6 DEF SubmitRead
    <2> HIDE DEF k
    <2> QED  BY <2>1, <2>2, Started DEF Calm
  <1>7. ASSUME NEW c \in Call, SubmitWrite(c) PROVE Calm
    BY <1>7, Returned DEF SubmitWrite, At, Calm
  <1>8. ASSUME NEW c \in Call, returnToDraftRead(c) PROVE Calm
    <2> DEFINE k == [Idle EXCEPT !.at = "return"]
    <2>1. k.at # "approve"
      BY IdleIsACall
    <2>2. Start(c, k)
      BY <1>8 DEF returnToDraftRead
    <2> HIDE DEF k
    <2> QED  BY <2>1, <2>2, Started DEF Calm
  <1>9. ASSUME NEW c \in Call, returnToDraftWrite(c) PROVE Calm
    BY <1>9, Returned DEF returnToDraftWrite, At, Calm
  <1>10. ASSUME NEW c \in Call, ApproveRead(c) PROVE MarksStay /\ PausesStay
    BY <1>10, Started DEF ApproveRead
  <1> QED  BY <1>1, <1>2, <1>3, <1>4, <1>5, <1>6, <1>7, <1>8, <1>9, <1>10 DEF ReviewNext, Calm

LEMMA VersionsCalm ==
    ASSUME Typed, VersionsNext
    PROVE  Calm
  <1>1. ASSUME NEW c \in Call, AcceptRead(c) PROVE Calm
    <2> DEFINE k == [Idle EXCEPT !.at = "accept", !.text = draft.text]
    <2>1. k.at # "approve"
      BY IdleIsACall
    <2>2. Start(c, k)
      BY <1>1 DEF AcceptRead
    <2> HIDE DEF k
    <2> QED  BY <2>1, <2>2, Started DEF Calm
  <1>2. ASSUME NEW c \in Call, createVersion(c) PROVE Calm
    BY <1>2, Returned DEF createVersion, At, Calm
  <1>3. CASE ReviewLapses
    BY <1>3 DEF ReviewLapses, Calm, NoNewApproval, MarksStay, PausesStay
  <1> QED  BY <1>1, <1>2, <1>3 DEF VersionsNext

LEMMA TemplatesCalm ==
    ASSUME Typed, TemplatesNext
    PROVE  /\ NoNewApproval /\ PausesStay
           /\ MarksStay \/ \E c \in Call : markChanged(c)
  <1>1. ASSUME NEW c \in Call, NEW v \in Version, NEW here \in BOOLEAN, NEW valid \in BOOLEAN, AddVersion(c, v, here, valid) PROVE Calm
    <2>1. ThenMark(c, here) /\ (here) \in BOOLEAN
      BY <1>1 DEF AddVersion
    <2>2. ~At(c, "mark") /\ ~At(c, "pause")
      BY <1>1 DEF AddVersion, At
    <2> QED  BY <2>1, <2>2, Marked
  <1>2. ASSUME NEW c \in Call, NEW v \in Version, NEW here \in BOOLEAN, TemplateApproveRead(c, v, here) PROVE Calm
    <2> DEFINE k == [Idle EXCEPT !.at = "scan", !.n = v, !.yes = here,
                             !.to = IF here \/ template[v].here THEN "active" ELSE "research"]
    <2>1. k.at # "approve"
      BY IdleIsACall
    <2>2. Start(c, k)
      BY <1>2 DEF TemplateApproveRead
    <2> HIDE DEF k
    <2> QED  BY <2>1, <2>2, Started DEF Calm
  <1>3. ASSUME NEW c \in Call, TemplateApproveScan(c) PROVE Calm
    <2> DEFINE k == [call[c] EXCEPT !.at = "commit",
                        !.olds = {w \in Version \ {call[c].n} : template[w].status = "approved"}]
    <2>1. call' = [call EXCEPT ![c] = k] /\ call[c] \in CallState /\ call[c].at = "scan"
      BY <1>3 DEF TemplateApproveScan, At, Typed, TypeOK
    <2>2. k.at = "commit"
      BY <2>1 DEF CallState
    <2> HIDE DEF k
    <2>3. Alone(c) /\ call'[c] = k
      BY <2>1 DEF Alone, Typed, TypeOK
    <2> QED  BY <2>1, <2>2, <2>3 DEF Alone, Calm, MarksStay, PausesStay, NoNewApproval
  <1>4. ASSUME NEW c \in Call, TemplateApproveCommit(c) PROVE Calm
    <2>1. ThenMark(c, call[c].to = "active") /\ (call[c].to = "active") \in BOOLEAN
      BY <1>4 DEF TemplateApproveCommit
    <2>2. ~At(c, "mark") /\ ~At(c, "pause")
      BY <1>4 DEF TemplateApproveCommit, At
    <2> QED  BY <2>1, <2>2, Marked
  <1>5. ASSUME NEW c \in Call, NEW v \in Version, TemplateRetireRead(c, v) PROVE Calm
    <2> DEFINE k == [Idle EXCEPT !.at = "retire", !.n = v, !.yes = template[v].here]
    <2>1. k.at # "approve"
      BY IdleIsACall
    <2>2. Start(c, k)
      BY <1>5 DEF TemplateRetireRead
    <2> HIDE DEF k
    <2> QED  BY <2>1, <2>2, Started DEF Calm
  <1>6. ASSUME NEW c \in Call, TemplateRetireWrite(c) PROVE Calm
    <2>1. ThenMark(c, call[c].yes) /\ (call[c].yes) \in BOOLEAN
      BY <1>6 DEF TemplateRetireWrite, Typed, TypeOK, CallState
    <2>2. ~At(c, "mark") /\ ~At(c, "pause")
      BY <1>6 DEF TemplateRetireWrite, At
    <2> QED  BY <2>1, <2>2, Marked
  <1>7. ASSUME NEW c \in Call, markChanged(c) PROVE NoNewApproval /\ PausesStay
    BY <1>7, Returned DEF markChanged, At
  <1> QED  BY <1>1, <1>2, <1>3, <1>4, <1>5, <1>6, <1>7 DEF TemplatesNext, Calm

LEMMA TestsCalm ==
    ASSUME Typed, TestsNext
    PROVE  Calm
  <1>1. ASSUME NEW c \in Call, TestRead(c) PROVE Calm
    <2> PICK v \in 0..MaxTemplate : Start(c, [Idle EXCEPT !.at = "test", !.text = Len(policy), !.n = v])
      BY <1>1 DEF TestRead
    <2> DEFINE k == [Idle EXCEPT !.at = "test", !.text = Len(policy), !.n = v]
    <2>1. k.at # "approve"
      BY IdleIsACall
    <2>2. Start(c, k)
      OBVIOUS
    <2> HIDE DEF k
    <2> QED  BY <2>1, <2>2, Started DEF Calm
  <1>2. ASSUME NEW c \in Call, NEW ok \in BOOLEAN, TestStamp(c, ok) PROVE Calm
    <2>1. call[c].at = "test"
      BY <1>2 DEF TestStamp, At
    <2>2. ASSUME NEW d \in Call
          PROVE  \/ d = c /\ call'[d].at = "idle"
                 \/ d # c /\ call'[d].at = call[d].at /\ call'[d].text = call[d].text
      <3>0. call[d] \in CallState
        BY DEF Typed, TypeOK
      <3>1. CASE d = c
        <4>1. call'[d] = Idle
          BY <1>2, <3>1, Zenon DEF TestStamp
        <4> QED  BY <3>1, <4>1, IdleIsACall
      <3>2. CASE d # c /\ call[d].at \in {"approve", "accept"}
        <4>1. call'[d] = [call[d] EXCEPT !.yes = TRUE]
          BY <1>2, <3>2 DEF TestStamp
        <4> QED  BY <3>0, <3>2, <4>1 DEF CallState
      <3>3. CASE d # c /\ call[d].at \notin {"approve", "accept"}
        BY <1>2, <3>0, <3>3 DEF TestStamp
      <3> QED  BY <3>1, <3>2, <3>3
    <2> QED  BY <2>1, <2>2 DEF Calm, NoNewApproval, MarksStay, PausesStay
  <1>3. CASE setOperator
    BY <1>3 DEF setOperator, Calm, NoNewApproval, MarksStay, PausesStay
  <1> QED  BY <1>1, <1>2, <1>3 DEF TestsNext

LEMMA StatusCalm ==
    ASSUME Typed, StatusNext
    PROVE  NoNewApproval /\ MarksStay
  <1>1. ASSUME NEW c \in Call, NEW target \in Requests, SetStatusRead(c, target) PROVE Calm
    <2> DEFINE k == [Idle EXCEPT !.at = "set", !.to = target]
    <2>1. k.at # "approve"
      BY IdleIsACall
    <2>2. Start(c, k)
      BY <1>1 DEF SetStatusRead
    <2> HIDE DEF k
    <2> QED  BY <2>1, <2>2, Started DEF Calm
  <1>2. ASSUME NEW c \in Call, SetStatusWrite(c) PROVE NoNewApproval /\ MarksStay
    <2> DEFINE k == IF Pauses(call[c].to) THEN [Idle EXCEPT !.at = "pause"] ELSE Idle
    <2>1. k.at \in {"idle", "pause"}
      BY IdleIsACall
    <2>2. call' = [call EXCEPT ![c] = k] /\ call[c].at = "set"
      BY <1>2 DEF SetStatusWrite, At
    <2> HIDE DEF k
    <2>3. Alone(c) /\ call'[c] = k
      BY <2>2 DEF Alone, Typed, TypeOK
    <2> QED  BY <2>1, <2>2, <2>3 DEF Alone, MarksStay, NoNewApproval
  <1>3. ASSUME NEW c \in Call, pauseCampaigns(c) PROVE NoNewApproval /\ MarksStay
    BY <1>3, Returned DEF pauseCampaigns, At, Calm
  <1>4. ASSUME NEW c \in Call, LaunchRead(c) PROVE Calm
    <2> DEFINE k == [Idle EXCEPT !.at = "launch"]
    <2>1. k.at # "approve"
      BY IdleIsACall
    <2>2. Start(c, k)
      BY <1>4 DEF LaunchRead
    <2> HIDE DEF k
    <2> QED  BY <2>1, <2>2, Started DEF Calm
  <1>5. ASSUME NEW c \in Call, LaunchWrite(c) PROVE Calm
    BY <1>5, Returned DEF LaunchWrite, At, Calm
  <1>6. CASE CampaignStops \/ openNationwide \/ closeNationwide
    BY <1>6 DEF CampaignStops, openNationwide, closeNationwide, NoNewApproval, MarksStay
  <1> QED  BY <1>1, <1>2, <1>3, <1>4, <1>5, <1>6 DEF StatusNext, Calm

LEMMA LicenceCalm ==
    ASSUME Typed, LicenceNext
    PROVE  Calm
  <1>1. ASSUME NEW c \in Call, createAuthorization(c) PROVE Calm
    <2>1. ThenMark(c, TRUE) /\ (TRUE) \in BOOLEAN
      BY <1>1 DEF createAuthorization
    <2>2. ~At(c, "mark") /\ ~At(c, "pause")
      BY <1>1 DEF createAuthorization, At
    <2> QED  BY <2>1, <2>2, Marked
  <1>2. ASSUME NEW c \in Call, UpdateRead(c) PROVE Calm
    <2> DEFINE k == [Idle EXCEPT !.at = "renew", !.yes = licence.verified]
    <2>1. k.at # "approve"
      BY IdleIsACall
    <2>2. Start(c, k)
      BY <1>2 DEF UpdateRead
    <2> HIDE DEF k
    <2> QED  BY <2>1, <2>2, Started DEF Calm
  <1>3. ASSUME NEW c \in Call, NEW renewed \in BOOLEAN, UpdateWrite(c, renewed) PROVE Calm
    <2>1. ThenMark(c, TRUE) /\ (TRUE) \in BOOLEAN
      BY <1>3 DEF UpdateWrite
    <2>2. ~At(c, "mark") /\ ~At(c, "pause")
      BY <1>3 DEF UpdateWrite, At
    <2> QED  BY <2>1, <2>2, Marked
  <1>4. ASSUME NEW c \in Call, VerifyRead(c) PROVE Calm
    <2> DEFINE k == [Idle EXCEPT !.at = "verify"]
    <2>1. k.at # "approve"
      BY IdleIsACall
    <2>2. Start(c, k)
      BY <1>4 DEF VerifyRead
    <2> HIDE DEF k
    <2> QED  BY <2>1, <2>2, Started DEF Calm
  <1>5. ASSUME NEW c \in Call, VerifyWrite(c) PROVE Calm
    <2>1. ThenMark(c, TRUE) /\ (TRUE) \in BOOLEAN
      BY <1>5 DEF VerifyWrite
    <2>2. ~At(c, "mark") /\ ~At(c, "pause")
      BY <1>5 DEF VerifyWrite, At
    <2> QED  BY <2>1, <2>2, Marked
  <1>6. ASSUME NEW c \in Call, revokeAuthorization(c) PROVE Calm
    <2>1. ThenMark(c, TRUE) /\ (TRUE) \in BOOLEAN
      BY <1>6 DEF revokeAuthorization
    <2>2. ~At(c, "mark") /\ ~At(c, "pause")
      BY <1>6 DEF revokeAuthorization, At
    <2> QED  BY <2>1, <2>2, Marked
  <1>7. CASE LicenceLapses
    BY <1>7 DEF LicenceLapses, Calm, NoNewApproval, MarksStay, PausesStay
  <1> QED  BY <1>1, <1>2, <1>3, <1>4, <1>5, <1>6, <1>7 DEF LicenceNext

-----------------------------------------------------------------------------
\* Counsel and the text.

\* A draft with counsel, and one whose approval is under way, is a text counsel
\* was given.
GivenToCounsel ==
    /\ draft.inReview => draft.text \in reviewed \cup slipped
    /\ \A c \in Call : At(c, "approve") => call[c].text \in reviewed \cup slipped
    /\ CounselReadTheText

LEMMA GivenStays ==
    ASSUME GivenToCounsel, NoNewApproval, UNCHANGED <<draft, policy, reviewed, slipped>>
    PROVE  GivenToCounsel'
  BY DEF GivenToCounsel, CounselReadTheText, NoNewApproval, At

\* The history grows, and the draft with counsel is in it.
LEMMA GivenGrows ==
    ASSUME GivenToCounsel, NoNewApproval, UNCHANGED policy,
           reviewed \subseteq reviewed', slipped \subseteq slipped',
           draft'.inReview => draft'.text \in reviewed' \cup slipped'
    PROVE  GivenToCounsel'
  BY DEF GivenToCounsel, CounselReadTheText, NoNewApproval, At

LEMMA GivenInReview ==
    ASSUME Typed, GivenToCounsel, ReviewNext
    PROVE  GivenToCounsel'
  <1>0. draft \in [text: Text, inReview: BOOLEAN]
    BY DEF Typed, TypeOK
  <1>1. ASSUME UNCHANGED reviewVars, NoNewApproval PROVE GivenToCounsel'
    BY <1>1, GivenStays DEF reviewVars
  <1>2. ASSUME NEW c \in Call, ApproveRead(c) PROVE GivenToCounsel'
    <2> DEFINE k == [Idle EXCEPT !.at = "approve", !.text = draft.text]
    <2>1. k.text = draft.text
      BY IdleIsACall
    <2>2. Start(c, k)
      BY <1>2 DEF ApproveRead
    <2> HIDE DEF k
    <2>3. Alone(c) /\ call'[c].text \in reviewed \cup slipped
      BY <1>2, <2>1, <2>2, Started DEF ApproveRead, GivenToCounsel
    <2>4. UNCHANGED <<draft, policy, reviewed, slipped>>
      BY <1>2 DEF ApproveRead, ReadOnly, reviewVars
    <2> QED  BY <2>3, <2>4 DEF GivenToCounsel, CounselReadTheText, Alone, At
  <1>3. ASSUME NEW c \in Call, WriteDraft(c) PROVE GivenToCounsel'
    <2>1. NoNewApproval
      BY <1>3, Returned DEF WriteDraft
    <2>2. /\ draft' = [text |-> written + 1, inReview |-> draft.inReview /\ ~call[c].yes]
          /\ slipped' = IF draft.inReview /\ ~call[c].yes THEN slipped \cup {written + 1} ELSE slipped
          /\ UNCHANGED <<policy, reviewed>>
      BY <1>3 DEF WriteDraft, StillInReview, DraftOnly
    <2>3. draft'.inReview => draft'.text \in reviewed' \cup slipped'
      BY <2>2
    <2> QED  BY <2>1, <2>2, <2>3, GivenGrows
  <1>4. ASSUME NEW c \in Call, ImportWrite(c) PROVE GivenToCounsel'
    <2>1. NoNewApproval
      BY <1>4, Returned DEF ImportWrite
    <2> QED  BY <1>4, <2>1, GivenGrows DEF ImportWrite
  <1>5. ASSUME NEW c \in Call, SubmitWrite(c) PROVE GivenToCounsel'
    <2>1. NoNewApproval
      BY <1>5, Returned DEF SubmitWrite
    <2>2. draft'.text = draft.text /\ reviewed' = reviewed \cup {draft.text} /\ UNCHANGED <<policy, slipped>>
      BY <1>0, <1>5 DEF SubmitWrite, DraftOnly
    <2> QED  BY <2>1, <2>2, GivenGrows
  <1>6. ASSUME NEW c \in Call, returnToDraftWrite(c) PROVE GivenToCounsel'
    <2>1. NoNewApproval
      BY <1>6, Returned DEF returnToDraftWrite
    <2>2. draft'.inReview = FALSE /\ UNCHANGED <<policy, reviewed, slipped>>
      BY <1>0, <1>6 DEF returnToDraftWrite, DraftOnly
    <2> QED  BY <2>1, <2>2, GivenGrows
  <1>7. ASSUME NEW c \in Call,
               \/ EditRead(c) \/ ProposeRead(c) \/ SubmitRead(c) \/ returnToDraftRead(c)
               \/ \E overwrite \in BOOLEAN : ImportRead(c, overwrite)
        PROVE  UNCHANGED reviewVars /\ (NoNewApproval \/ \E d \in Call : ApproveRead(d))
    <2>1. ReadOnly
      BY <1>7 DEF EditRead, ProposeRead, SubmitRead, returnToDraftRead, ImportRead
    <2> QED  BY <2>1, ReviewCalm DEF ReadOnly
  <1> QED  BY <1>1, <1>2, <1>3, <1>4, <1>5, <1>6, <1>7 DEF ReviewNext

LEMMA GivenInVersions ==
    ASSUME Typed, GivenToCounsel, VersionsNext
    PROVE  GivenToCounsel'
  <1>0. NoNewApproval
    BY VersionsCalm DEF Calm
  <1>1. ASSUME NEW c \in Call, AcceptRead(c) PROVE GivenToCounsel'
    BY <1>0, <1>1, GivenStays DEF AcceptRead, ReadOnly, reviewVars
  <1>2. ASSUME NEW c \in Call, createVersion(c) PROVE GivenToCounsel'
    <2> DEFINE v == [text |-> call[c].text,
                     basis |-> IF At(c, "approve") THEN "counsel" ELSE "owner"]
    <2>1. policy' = Append(policy, v) /\ UNCHANGED <<reviewed, slipped>>
      BY <1>2 DEF createVersion
    <2>2. v.basis = "counsel" => v.text \in reviewed \cup slipped
      BY DEF GivenToCounsel
    <2>3. v \in [text: Text, basis: {"counsel", "owner"}]
      BY <1>2 DEF createVersion, Typed, ReadsOK
    <2> HIDE DEF v
    <2>4. DOMAIN policy' = 1..Len(policy) + 1 /\ DOMAIN policy = 1..Len(policy)
          /\ Len(policy) \in Nat /\ policy'[Len(policy) + 1] = v
          /\ \A i \in 1..Len(policy) : policy'[i] = policy[i]
      BY <2>1, <2>3 DEF Typed, TypeOK
    <2>5. CounselReadTheText'
      BY <2>1, <2>2, <2>4 DEF GivenToCounsel, CounselReadTheText
    <2>6. draft'.text = draft.text /\ (draft'.inReview => draft.inReview)
      BY <1>2 DEF createVersion, Typed, TypeOK
    <2> QED  BY <1>0, <2>1, <2>5, <2>6 DEF GivenToCounsel, NoNewApproval, At
  <1>3. CASE ReviewLapses
    BY <1>0, <1>3, GivenStays DEF ReviewLapses
  <1> QED  BY <1>1, <1>2, <1>3 DEF VersionsNext

LEMMA GivenElsewhere ==
    ASSUME Typed, GivenToCounsel,
           \/ TemplatesNext \/ TestsNext \/ StatusNext \/ LicenceNext
           \/ \E c \in Call : GiveUp(c)
    PROVE  GivenToCounsel'
  <1>1. NoNewApproval
    <2>1. ASSUME NEW c \in Call, GiveUp(c) PROVE NoNewApproval
      BY <2>1, Returned DEF GiveUp
    <2> QED  BY <2>1, TemplatesCalm, TestsCalm, StatusCalm, LicenceCalm DEF Calm
  <1>2. UNCHANGED reviewVars
    <2>1. CASE TemplatesNext
      BY <2>1 DEF TemplatesNext, AddVersion, TemplateApproveRead, TemplateApproveScan,
                  TemplateApproveCommit, TemplateRetireRead, TemplateRetireWrite, markChanged, Elsewhere
    <2>2. CASE TestsNext
      BY <2>2 DEF TestsNext, TestRead, TestStamp, setOperator, TestOnly
    <2>3. CASE StatusNext
      BY <2>3 DEF StatusNext, SetStatusRead, SetStatusWrite, pauseCampaigns, LaunchRead,
                  LaunchWrite, CampaignStops, openNationwide, closeNationwide, StatusOnly
    <2>4. CASE LicenceNext
      BY <2>4 DEF LicenceNext, createAuthorization, UpdateRead, UpdateWrite, VerifyRead,
                  VerifyWrite, revokeAuthorization, LicenceLapses, LicenceOnly
    <2>5. CASE \E c \in Call : GiveUp(c)
      BY <2>5 DEF GiveUp
    <2> QED  BY <2>1, <2>2, <2>3, <2>4, <2>5
  <1> QED  BY <1>1, <1>2, GivenStays DEF reviewVars

\* Every version that says counsel approved it carries a text that was submitted
\* to counsel, or that slipped into the draft counsel had.
THEOREM CounselApprovesWhatItRead == Spec => []CounselReadTheText
  <1>1. Init => GivenToCounsel
    <2> SUFFICES ASSUME Init PROVE GivenToCounsel
      OBVIOUS
    <2>1. CounselReadTheText
      BY DEF Init, CounselReadTheText
    <2>2. draft.inReview = FALSE /\ \A c \in Call : call[c].at = "idle"
      BY IdleIsACall DEF Init
    <2> QED  BY <2>1, <2>2 DEF GivenToCounsel, At
  <1>2. Typed /\ GivenToCounsel /\ [Next]_vars => GivenToCounsel'
    <2>1. GivenToCounsel /\ UNCHANGED vars => GivenToCounsel'
      BY DEF vars, GivenToCounsel, CounselReadTheText, At
    <2> QED  BY <2>1, GivenInReview, GivenInVersions, GivenElsewhere DEF Next
  <1>3. GivenToCounsel => CounselReadTheText
    BY DEF GivenToCounsel
  <1> QED  BY <1>1, <1>2, <1>3, TypedInit, TypedStep, PTL DEF Spec

-----------------------------------------------------------------------------
\* The request and the campaign.

LEMMA LoweredStays ==
    ASSUME LoweredMeansPaused, PausesStay, UNCHANGED <<requested, campaign, late>>
    PROVE  LoweredMeansPaused'
  BY DEF LoweredMeansPaused, PausesStay, At

LEMMA LoweredInStatus ==
    ASSUME Typed, LoweredMeansPaused, StatusNext
    PROVE  LoweredMeansPaused'
  <1>1. ASSUME NEW c \in Call, NEW target \in Requests, SetStatusRead(c, target)
        PROVE  LoweredMeansPaused'
    <2>1. PausesStay
      BY <1>1, Started DEF SetStatusRead
    <2> QED  BY <1>1, <2>1, LoweredStays DEF SetStatusRead
  <1>2. ASSUME NEW c \in Call, SetStatusWrite(c) PROVE LoweredMeansPaused'
    <2> DEFINE k == IF Pauses(call[c].to) THEN [Idle EXCEPT !.at = "pause"] ELSE Idle
    <2>1. requested' \in Lowered => k.at = "pause"
      BY <1>2, IdleIsACall DEF SetStatusWrite, Pauses
    <2>2. call' = [call EXCEPT ![c] = k]
      BY <1>2 DEF SetStatusWrite
    <2> HIDE DEF k
    <2>3. call'[c] = k
      BY <2>2 DEF Typed, TypeOK
    <2> QED  BY <2>1, <2>3 DEF LoweredMeansPaused, At
  <1>3. ASSUME NEW c \in Call, pauseCampaigns(c) PROVE LoweredMeansPaused'
    BY <1>3 DEF pauseCampaigns, LoweredMeansPaused
  <1>4. ASSUME NEW c \in Call, LaunchRead(c) PROVE LoweredMeansPaused'
    <2>1. PausesStay
      BY <1>4, Started DEF LaunchRead
    <2> QED  BY <1>4, <2>1, LoweredStays DEF LaunchRead
  <1>5. ASSUME NEW c \in Call, LaunchWrite(c) PROVE LoweredMeansPaused'
    BY <1>5 DEF LaunchWrite, LoweredMeansPaused
  <1>6. CASE CampaignStops
    BY <1>6 DEF CampaignStops, LoweredMeansPaused
  <1>7. CASE openNationwide \/ closeNationwide
    BY <1>7 DEF openNationwide, closeNationwide, LoweredMeansPaused, At
  <1> QED  BY <1>1, <1>2, <1>3, <1>4, <1>5, <1>6, <1>7 DEF StatusNext

LEMMA LoweredElsewhere ==
    ASSUME Typed, LoweredMeansPaused,
           \/ ReviewNext \/ VersionsNext \/ TemplatesNext \/ TestsNext \/ LicenceNext
    PROVE  LoweredMeansPaused'
  <1>1. PausesStay
    BY ReviewCalm, VersionsCalm, TemplatesCalm, TestsCalm, LicenceCalm DEF Calm
  <1>2. UNCHANGED activationVars
    <2>1. CASE ReviewNext
      BY <2>1 DEF ReviewNext, EditRead, ProposeRead, WriteDraft, ImportRead, ImportWrite, SubmitRead,
                  SubmitWrite, returnToDraftRead, returnToDraftWrite, ApproveRead, ReadOnly, DraftOnly
    <2>2. CASE VersionsNext
      BY <2>2 DEF VersionsNext, AcceptRead, createVersion, ReviewLapses, ReadOnly
    <2>3. CASE TemplatesNext
      BY <2>3 DEF TemplatesNext, AddVersion, TemplateApproveRead, TemplateApproveScan,
                  TemplateApproveCommit, TemplateRetireRead, TemplateRetireWrite, markChanged, Elsewhere
    <2>4. CASE TestsNext
      BY <2>4 DEF TestsNext, TestRead, TestStamp, setOperator, TestOnly
    <2>5. CASE LicenceNext
      BY <2>5 DEF LicenceNext, createAuthorization, UpdateRead, UpdateWrite, VerifyRead,
                  VerifyWrite, revokeAuthorization, LicenceLapses, LicenceOnly
    <2> QED  BY <2>1, <2>2, <2>3, <2>4, <2>5
  <1> QED  BY <1>1, <1>2, LoweredStays DEF activationVars

\* No campaign runs in a market whose request is below disposition, unless the
\* pause is still to come or the campaign was started or left past it.
THEOREM LoweredMarketsArePaused == Spec => []LoweredMeansPaused
  <1>1. Init => LoweredMeansPaused
    BY DEF Init, LoweredMeansPaused
  <1>2. Typed /\ LoweredMeansPaused /\ [Next]_vars => LoweredMeansPaused'
    <2>1. LoweredMeansPaused /\ UNCHANGED vars => LoweredMeansPaused'
      BY DEF vars, LoweredMeansPaused, At
    <2>2. ASSUME Typed, LoweredMeansPaused, NEW c \in Call, GiveUp(c) PROVE LoweredMeansPaused'
      <3>1. CASE At(c, "pause") /\ campaign = "active"
        BY <2>2, <3>1 DEF GiveUp, LoweredMeansPaused
      <3>2. CASE At(c, "pause") /\ campaign # "active"
        BY <2>2, <3>2 DEF GiveUp, LoweredMeansPaused
      <3>3. CASE ~At(c, "pause")
        <4>1. PausesStay /\ late' = late
          BY <2>2, <3>3, Returned DEF GiveUp, Typed, TypeOK
        <4> QED  BY <2>2, <4>1, LoweredStays DEF GiveUp
      <3> QED  BY <3>1, <3>2, <3>3
    <2> QED  BY <2>1, <2>2, LoweredInStatus, LoweredElsewhere DEF Next
  <1> QED  BY <1>1, <1>2, TypedInit, TypedStep, PTL DEF Spec

-----------------------------------------------------------------------------
\* The self-test and what it tested.

\* The versions for this market keep their standing.
SameStanding ==
    \A w \in Version : \A s \in {"approved", "validated"} : HasStatus(w, s)' = HasStatus(w, s)

LEMMA ForceStays ==
    ASSUME SameStanding, UNCHANGED test, InForce(test.template)
    PROVE  InForce(test.template)'
  BY DEF SameStanding, InForce, Newest, None

LEMMA FreshStays ==
    ASSUME Typed, FreshTestIsCurrent, MarksStay, SameStanding, UNCHANGED <<test, policy, crossed>>,
           fresh' => fresh, unmarked => unmarked'
    PROVE  FreshTestIsCurrent'
  BY ForceStays DEF FreshTestIsCurrent, MarksStay, At

LEMMA SameTemplates ==
    ASSUME UNCHANGED template
    PROVE  SameStanding
  BY DEF SameStanding, HasStatus

\* A version for this market that changes is marked for, or noted.
LEMMA FreshInTemplates ==
    ASSUME Typed, FreshTestIsCurrent, TemplatesNext
    PROVE  FreshTestIsCurrent'
  <1>0. template \in [Version -> [status: TemplateStatus, here: BOOLEAN]]
    BY DEF Typed, TypeOK
  <1>1. ASSUME NEW c \in Call, NEW v \in Version, NEW here \in BOOLEAN, NEW valid \in BOOLEAN,
               AddVersion(c, v, here, valid)
        PROVE  FreshTestIsCurrent'
    <2>1. ThenMark(c, here) /\ ~At(c, "mark") /\ ~At(c, "pause")
      BY <1>1 DEF AddVersion, At
    <2>2. MarksStay /\ (here => At(c, "mark")')
      BY <2>1, Marked DEF Calm
    <2>3. UNCHANGED <<test, policy, crossed, fresh, unmarked>>
      BY <1>1 DEF AddVersion, Elsewhere, Changed, reviewVars, Typed, TypeOK
    <2>4. CASE here
      BY <2>2, <2>4 DEF FreshTestIsCurrent
    <2>5. CASE ~here
      <3>1. template' = [template EXCEPT ![v] =
                [status |-> IF valid THEN "validated" ELSE "draft", here |-> here]]
        BY <1>1 DEF AddVersion
      <3>2. template[v].status = "none"
        BY <1>1 DEF AddVersion
      <3>3. \A w \in Version : w # v => template'[w] = template[w]
        BY <1>0, <3>1
      <3>4. template'[v].here = FALSE
        BY <1>0, <2>5, <3>1
      <3>5. SameStanding
        BY <3>2, <3>3, <3>4 DEF SameStanding, HasStatus
      <3> QED  BY <2>2, <2>3, <3>5, FreshStays
    <2> QED  BY <2>4, <2>5
  <1>2. ASSUME NEW c \in Call, TemplateApproveCommit(c) PROVE FreshTestIsCurrent'
    <2> DEFINE marks == call[c].to = "active"
    <2>1. ThenMark(c, marks) /\ ~At(c, "mark") /\ ~At(c, "pause")
      BY <1>2 DEF TemplateApproveCommit, At
    <2>2. MarksStay /\ (marks => At(c, "mark")')
      BY <2>1, Marked DEF Calm
    <2>3. UNCHANGED <<test, policy, crossed, fresh>> /\ (unmarked => unmarked')
      BY <1>2 DEF TemplateApproveCommit, Elsewhere, Changed, reviewVars
    <2>4. CASE marks
      BY <2>2, <2>4 DEF FreshTestIsCurrent
    <2>5. CASE unmarked'
      BY <2>5 DEF FreshTestIsCurrent
    <2>6. CASE ~marks /\ ~unmarked'
      <3>1. \A w \in Version : template'[w] = template[w] \/ ~template[w].here
        BY <1>2, <2>6 DEF TemplateApproveCommit, Changed
      <3>2. call[c].yes = FALSE
        BY <1>2, <2>6 DEF TemplateApproveCommit, Typed, ReadsOK, At, CallState, TypeOK
      <3>3. ASSUME NEW w \in Version, ~template[w].here PROVE ~template'[w].here
        <4>1. CASE w = call[c].n
          BY <1>2, <3>2, <4>1 DEF TemplateApproveCommit
        <4>2. CASE w # call[c].n /\ w \in call[c].olds
          <5>1. template'[w] = [template[w] EXCEPT !.status = "retired"]
            BY <1>2, <4>2 DEF TemplateApproveCommit
          <5> QED  BY <1>0, <3>3, <5>1
        <4>3. CASE w # call[c].n /\ w \notin call[c].olds
          BY <1>2, <3>3, <4>3 DEF TemplateApproveCommit
        <4> QED  BY <4>1, <4>2, <4>3
      <3>4. SameStanding
        BY <3>1, <3>3 DEF SameStanding, HasStatus
      <3> QED  BY <2>2, <2>3, <3>4, FreshStays
    <2> QED  BY <2>4, <2>5, <2>6
  <1>3. ASSUME NEW c \in Call, TemplateRetireWrite(c) PROVE FreshTestIsCurrent'
    <2>0. call[c].yes \in BOOLEAN /\ call[c].n \in Version
      BY <1>3 DEF TemplateRetireWrite, Typed, TypeOK, ReadsOK, CallState, At
    <2>1. ThenMark(c, call[c].yes) /\ ~At(c, "mark") /\ ~At(c, "pause")
      BY <1>3 DEF TemplateRetireWrite, At
    <2>2. MarksStay /\ (call[c].yes => At(c, "mark")')
      BY <2>0, <2>1, Marked DEF Calm
    <2>3. UNCHANGED <<test, policy, crossed, fresh>> /\ (unmarked => unmarked')
      BY <1>3 DEF TemplateRetireWrite, Elsewhere, Changed, reviewVars
    <2>4. CASE call[c].yes
      BY <2>2, <2>4 DEF FreshTestIsCurrent
    <2>5. CASE unmarked'
      BY <2>5 DEF FreshTestIsCurrent
    <2>6. CASE ~call[c].yes /\ ~unmarked'
      <3>1. ~template[call[c].n].here
        BY <1>3, <2>6 DEF TemplateRetireWrite, Changed
      <3>2. template' = [template EXCEPT ![call[c].n] = [template[call[c].n] EXCEPT !.status = "retired"]]
        BY <1>0, <1>3, <2>0 DEF TemplateRetireWrite
      <3>3. \A w \in Version : w # call[c].n => template'[w] = template[w]
        BY <1>0, <3>2
      <3>4. template'[call[c].n].here = template[call[c].n].here
        BY <1>0, <2>0, <3>2
      <3>5. SameStanding
        BY <3>1, <3>3, <3>4 DEF SameStanding, HasStatus
      <3> QED  BY <2>2, <2>3, <3>5, FreshStays
    <2> QED  BY <2>4, <2>5, <2>6
  <1>4. ASSUME NEW c \in Call, markChanged(c) PROVE FreshTestIsCurrent'
    BY <1>4 DEF markChanged, FreshTestIsCurrent
  <1>5. ASSUME NEW c \in Call,
               \/ TemplateApproveScan(c)
               \/ \E v \in Version, here \in BOOLEAN : TemplateApproveRead(c, v, here)
               \/ \E v \in Version : TemplateRetireRead(c, v)
        PROVE  FreshTestIsCurrent'
    <2>1. UNCHANGED <<template, test, policy, crossed, fresh, unmarked>>
      BY <1>5 DEF TemplateApproveScan, TemplateApproveRead, TemplateRetireRead, Elsewhere, reviewVars
    <2>2. MarksStay \/ \E d \in Call : markChanged(d)
      BY TemplatesCalm
    <2> QED  BY <1>4, <2>1, <2>2, FreshStays, SameTemplates
  <1> QED  BY <1>1, <1>2, <1>3, <1>4, <1>5 DEF TemplatesNext

LEMMA FreshInReview ==
    ASSUME Typed, FreshTestIsCurrent, ReviewNext
    PROVE  FreshTestIsCurrent'
  <1>1. UNCHANGED <<template, test, policy, crossed, unmarked>> /\ (fresh' => fresh)
    BY DEF ReviewNext, EditRead, ProposeRead, WriteDraft, ImportRead, ImportWrite, SubmitRead,
           SubmitWrite, returnToDraftRead, returnToDraftWrite, ApproveRead, ReadOnly, DraftOnly,
           reviewVars, configVars
  <1> QED  BY <1>1, ReviewCalm, FreshStays, SameTemplates

LEMMA FreshInVersions ==
    ASSUME Typed, FreshTestIsCurrent, VersionsNext
    PROVE  FreshTestIsCurrent'
  <1>1. ASSUME NEW c \in Call, createVersion(c) PROVE FreshTestIsCurrent'
    BY <1>1 DEF createVersion, Aged, Changed, FreshTestIsCurrent
  <1>2. ASSUME ReviewLapses \/ \E c \in Call : AcceptRead(c) PROVE FreshTestIsCurrent'
    <2>1. UNCHANGED <<template, test, policy, crossed, unmarked, fresh>>
      BY <1>2 DEF ReviewLapses, AcceptRead, ReadOnly, reviewVars, configVars
    <2> QED  BY <2>1, VersionsCalm, FreshStays, SameTemplates DEF Calm
  <1> QED  BY <1>1, <1>2 DEF VersionsNext

LEMMA FreshInTests ==
    ASSUME Typed, FreshTestIsCurrent, TestsNext
    PROVE  FreshTestIsCurrent'
  <1>1. ASSUME NEW c \in Call, NEW ok \in BOOLEAN, TestStamp(c, ok) PROVE FreshTestIsCurrent'
    <2>1. /\ test'.policy = call[c].text /\ test'.template = call[c].n
          /\ crossed' = (call[c].text # Len(policy) \/ ~InForce(call[c].n))
          /\ UNCHANGED <<policy, template>>
      BY <1>1 DEF TestStamp, TestOnly, reviewVars
    <2>2. InForce(call[c].n) => InForce(test.template)'
      BY <2>1 DEF InForce, Newest, None, HasStatus
    <2> QED  BY <2>1, <2>2 DEF FreshTestIsCurrent
  <1>2. ASSUME setOperator \/ \E c \in Call : TestRead(c) PROVE FreshTestIsCurrent'
    <2>1. UNCHANGED <<template, test, policy, crossed, unmarked>> /\ (fresh' => fresh)
      <3>1. CASE setOperator
        BY <3>1 DEF setOperator, TestOnly, reviewVars
      <3>2. ASSUME NEW c \in Call, TestRead(c)
            PROVE  UNCHANGED <<template, test, policy, crossed, unmarked, fresh>>
        BY <3>2 DEF TestRead, TestOnly, reviewVars
      <3> QED  BY <1>2, <3>1, <3>2
    <2> QED  BY <2>1, TestsCalm, FreshStays, SameTemplates DEF Calm
  <1> QED  BY <1>1, <1>2 DEF TestsNext

LEMMA FreshElsewhere ==
    ASSUME Typed, FreshTestIsCurrent, StatusNext \/ LicenceNext
    PROVE  FreshTestIsCurrent'
  <1>1. MarksStay
    BY StatusCalm, LicenceCalm DEF Calm
  <1>2. UNCHANGED <<template, test, policy, crossed, unmarked, fresh>>
    <2>1. CASE StatusNext
      BY <2>1 DEF StatusNext, SetStatusRead, SetStatusWrite, pauseCampaigns, LaunchRead,
                  LaunchWrite, CampaignStops, openNationwide, closeNationwide, StatusOnly,
                  reviewVars, configVars
    <2>2. CASE LicenceNext
      BY <2>2 DEF LicenceNext, createAuthorization, UpdateRead, UpdateWrite, VerifyRead,
                  VerifyWrite, revokeAuthorization, LicenceLapses, LicenceOnly, reviewVars
    <2> QED  BY <2>1, <2>2
  <1> QED  BY <1>1, <1>2, FreshStays, SameTemplates

\* A passed self-test that is not stale tested what is in force, unless a mark is
\* still to come, none was made for the change, or it fell while the test ran.
THEOREM FreshTestsAreCurrent == Spec => []FreshTestIsCurrent
  <1>1. Init => FreshTestIsCurrent
    <2> SUFFICES ASSUME Init, test.passed, policy # <<>>
                 PROVE  test.policy = Len(policy) /\ InForce(test.template)
      BY DEF FreshTestIsCurrent
    <2>1. /\ policy = <<[text |-> 1, basis |-> "owner"]>>
          /\ template = [v \in Version |-> [status |-> IF v = 1 THEN "approved" ELSE "none",
                                            here |-> v = 1]]
          /\ test = [passed |-> TRUE, policy |-> 1, template |-> 1]
      BY DEF Init
    <2>2. 1 \in Version
      BY BoundAssumption DEF Version
    <2>3. Newest(1, "approved")
      <3>1. template[1].here /\ template[1].status = "approved"
        BY <2>1, <2>2
      <3>2. ASSUME NEW w \in Version, template[w].here PROVE w <= 1
        <4>1. template[w].here = (w = 1)
          BY <2>1
        <4>2. w = 1
          BY <3>2, <4>1, Zenon
        <4> QED  BY <4>2
      <3> QED  BY <2>2, <3>1, <3>2 DEF Newest, HasStatus
    <2> QED  BY <2>1, <2>3 DEF InForce
  <1>2. Typed /\ FreshTestIsCurrent /\ [Next]_vars => FreshTestIsCurrent'
    <2>1. FreshTestIsCurrent /\ UNCHANGED vars => FreshTestIsCurrent'
      BY DEF vars, FreshTestIsCurrent, At, InForce, Newest, None, HasStatus
    <2>2. ASSUME Typed, FreshTestIsCurrent, NEW c \in Call, GiveUp(c) PROVE FreshTestIsCurrent'
      <3>1. CASE At(c, "mark")
        BY <2>2, <3>1 DEF GiveUp, FreshTestIsCurrent
      <3>2. CASE ~At(c, "mark")
        <4>1. MarksStay
          BY <2>2, <3>2, Returned DEF GiveUp
        <4>2. UNCHANGED <<template, test, policy, crossed, fresh>> /\ (unmarked => unmarked')
          BY <2>2 DEF GiveUp, reviewVars
        <4> QED  BY <2>2, <4>1, <4>2, FreshStays, SameTemplates
      <3> QED  BY <3>1, <3>2
    <2> QED  BY <2>1, <2>2, FreshInTemplates, FreshInReview, FreshInVersions, FreshInTests,
                FreshElsewhere DEF Next
  <1> QED  BY <1>1, <1>2, TypedInit, TypedStep, PTL DEF Spec

===========================================================================
