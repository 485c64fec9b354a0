------------------------- MODULE DispositionProofs -------------------------
(***************************************************************************)
(* Theorems about the two ends of a disposition.                            *)
(*                                                                         *)
(* AssignmentRace, who gets the contract: for any number of offers and of   *)
(* calls in flight, and for every choice of the handlers that are called.   *)
(*                                                                         *)
(* ClosingFile, when the closing is clear: for any set of followed          *)
(* milestones and any issues, a file shown clear to close is clear, and no  *)
(* change of structure loses a milestone of the template.                   *)
(***************************************************************************)
EXTENDS AssignmentRace, ClosingFile, TLAPS

\* A call in flight is about an offer; past its first read, the handlers that
\* work on an assignment, and accept once it has inserted one, have its row.
\* No step removes a row, which is why a status written by id finds it.
CallsHaveRows ==
    \A r \in Request :
        /\ call[r] # Idle => call[r].o \in Offer
        /\ \/ call[r].op \in {"send", "execute", "cancel"}
           \/ call[r].op = "accept" /\ call[r].at = "settle"
           => assignment[call[r].o] # "none"

Inv == TypeOK /\ CallsHaveRows /\ AcceptedHasRow /\ OneLiveUnlessRevived

\* The call of r moves on or ends, and nothing is written.
LEMMA CallMovesOn ==
    ASSUME Inv, NEW r \in Request, NEW at \in Point,
           call[r] # Idle, UNCHANGED <<offer, assignment, stage, campaign, gate, revived>>,
           at # "settle",
           Goto(r, at) \/ Return(r)
    PROVE  Inv'
  <1>1. call' = [call EXCEPT ![r].at = at] \/ call' = [call EXCEPT ![r] = Idle]
    BY DEF Goto, Return
  <1>2. TypeOK'
    BY <1>1 DEF Inv, TypeOK, Idle, Point
  <1>3. CallsHaveRows'
    BY <1>1 DEF Inv, TypeOK, CallsHaveRows, Idle
  <1>4. AcceptedHasRow' /\ OneLiveUnlessRevived'
    BY DEF Inv, AcceptedHasRow, OneLiveUnlessRevived
  <1> QED  BY <1>2, <1>3, <1>4 DEF Inv

\* A call begins, on an offer that has its row when the handler needs one.
LEMMA CallBegins ==
    ASSUME Inv, NEW r \in Request, NEW op \in AllOps, NEW o \in Offer, NEW at \in Point,
           Begin(r, op, o, at), NoRows, at # "settle",
           op \in {"send", "execute", "cancel"} => assignment[o] # "none"
    PROVE  Inv'
  BY DEF Inv, TypeOK, CallsHaveRows, AcceptedHasRow, OneLiveUnlessRevived, Begin, NoRows, Idle, AllOps

\* A row that exists is written by id: a live one stays the live one it was, a
\* cancelled one counts as revived.
LEMMA WrittenById ==
    ASSUME Inv, NEW o \in Offer, NEW to \in {"sent", "executed"},
           assignment[o] # "none", WriteById(o, to)
    PROVE  /\ assignment' \in [Offer -> AssignmentStatus]
           /\ revived' \in SUBSET Offer
           /\ \A p \in Offer : assignment[p] # "none" => assignment'[p] # "none"
           /\ OneLiveUnlessRevived'
  BY DEF Inv, TypeOK, OneLiveUnlessRevived, WriteById, AssignmentStatus, LiveStatuses

LEMMA PassGateKeeps ==
    ASSUME Inv, NEW r \in Request, call[r] # Idle, NEW at \in Point \ {"settle"}, PassGate(r, at)
    PROVE  Inv'
  BY CallMovesOn DEF PassGate

LEMMA AcceptKeeps ==
    ASSUME Inv, NEW r \in Request, Accept(r)
    PROVE  Inv'
  <1> USE DEF Inv
  <1>1. CASE \E o \in Offer : AcceptOpen(r, o)
    BY <1>1, CallBegins DEF AcceptOpen, AllOps, Point
  <1>2. CASE At(r, "accept", "gate") /\ PassGate(r, "insert")
    BY <1>2, PassGateKeeps DEF At, Idle, Point
  <1>3. CASE AcceptInsert(r)
    <2> DEFINE o == call[r].o
    <2>1. o \in Offer /\ call[r] # Idle
      BY <1>3 DEF AcceptInsert, At, CallsHaveRows, Idle
    <2>2. CASE ~NoneLive(o)
      BY <1>3, <2>1, <2>2, CallMovesOn DEF AcceptInsert, Point
    <2>3. CASE NoneLive(o)
      <3>1. /\ assignment' = [assignment EXCEPT ![o] = "draft"]
            /\ call' = [call EXCEPT ![r].at = "settle"]
            /\ UNCHANGED <<offer, stage, campaign, gate, revived>>
        BY <1>3, <2>3 DEF AcceptInsert, Goto
      <3>2. TypeOK'
        BY <3>1, <2>1 DEF TypeOK, AssignmentStatus, LiveStatuses, Point
      <3>3. CallsHaveRows'
        BY <3>1, <2>1 DEF TypeOK, CallsHaveRows, Idle
      <3>4. AcceptedHasRow'
        BY <3>1, <2>1 DEF TypeOK, AcceptedHasRow
      <3>5. OneLiveUnlessRevived'
        BY <3>1, <2>1, <2>3 DEF TypeOK, OneLiveUnlessRevived, NoneLive
      <3> QED  BY <3>2, <3>3, <3>4, <3>5
    <2> QED  BY <2>2, <2>3
  <1>4. CASE AcceptSettle(r)
    <2>1. call[r].o \in Offer /\ assignment[call[r].o] # "none"
      BY <1>4 DEF AcceptSettle, At, CallsHaveRows, Idle
    <2>2. TypeOK'
      BY <1>4 DEF AcceptSettle, Goto, TypeOK, OfferStatus, Point
    <2>3. CallsHaveRows'
      BY <1>4 DEF AcceptSettle, At, Goto, TypeOK, CallsHaveRows, Idle
    <2>4. AcceptedHasRow'
      BY <1>4, <2>1 DEF AcceptSettle, TypeOK, AcceptedHasRow
    <2>5. OneLiveUnlessRevived'
      BY <1>4 DEF AcceptSettle, OneLiveUnlessRevived
    <2> QED  BY <2>2, <2>3, <2>4, <2>5
  <1>5. CASE AcceptHold(r)
    <2>1. /\ call' = [call EXCEPT ![r] = Idle]
          /\ campaign' \in {"active", "held", "completed"}
          /\ UNCHANGED <<offer, assignment, stage, gate, revived>>
      BY <1>5 DEF AcceptHold, Return, TypeOK
    <2>2. TypeOK'
      BY <2>1 DEF TypeOK, Idle, Point
    <2>3. CallsHaveRows'
      BY <2>1 DEF TypeOK, CallsHaveRows, Idle
    <2> QED  BY <2>1, <2>2, <2>3 DEF AcceptedHasRow, OneLiveUnlessRevived
  <1> QED  BY <1>1, <1>2, <1>3, <1>4, <1>5 DEF Accept

\* Counters, refusals and lapses write offers only, and never accept one.
LEMMA OfferWriteKeeps ==
    ASSUME Inv, NEW r \in Request, Counter(r) \/ Decline(r)
    PROVE  Inv'
  <1> USE DEF Inv
  <1>1. CASE \E o \in Offer : CounterOpen(r, o)
    BY <1>1, CallBegins DEF CounterOpen, AllOps, Point
  <1>2. CASE At(r, "counter", "gate") /\ PassGate(r, "write")
    BY <1>2, PassGateKeeps DEF At, Idle, Point
  <1>3. CASE \E o \in Offer : DeclineOpen(r, o)
    BY <1>3, CallBegins DEF DeclineOpen, AllOps, Point
  <1>4. CASE CounterWrite(r) \/ DeclineWrite(r)
    <2>1. \E to \in {"countered", "declined"} : offer' = [offer EXCEPT ![call[r].o] = to]
      BY <1>4 DEF CounterWrite, DeclineWrite
    <2>2. call' = [call EXCEPT ![r] = Idle] /\ UNCHANGED <<assignment, stage, campaign, gate, revived>>
      BY <1>4 DEF CounterWrite, DeclineWrite, Return
    <2>3. TypeOK'
      BY <2>1, <2>2 DEF TypeOK, OfferStatus, Open, Idle, Point
    <2>4. CallsHaveRows'
      BY <2>2 DEF TypeOK, CallsHaveRows, Idle
    <2>5. AcceptedHasRow'
      BY <2>1, <2>2 DEF TypeOK, AcceptedHasRow
    <2> QED  BY <2>2, <2>3, <2>4, <2>5 DEF OneLiveUnlessRevived
  <1> QED  BY <1>1, <1>2, <1>3, <1>4 DEF Counter, Decline

LEMMA SendKeeps ==
    ASSUME Inv, NEW r \in Request, Send(r)
    PROVE  Inv'
  <1> USE DEF Inv
  <1>1. CASE \E o \in Offer : SendOpen(r, o)
    BY <1>1, CallBegins DEF SendOpen, AllOps, Point
  <1>2. CASE At(r, "send", "gate") /\ PassGate(r, "reread")
    BY <1>2, PassGateKeeps DEF At, Idle, Point
  <1>3. CASE SendReread(r)
    BY <1>3, CallMovesOn DEF SendReread, At, Idle, NoRows, Point
  <1>4. CASE SendWrite(r)
    <2>1. call[r].o \in Offer /\ assignment[call[r].o] # "none"
      BY <1>4 DEF SendWrite, At, CallsHaveRows, Idle
    <2>2. WriteById(call[r].o, "sent") /\ call' = [call EXCEPT ![r] = Idle]
          /\ UNCHANGED <<offer, stage, campaign, gate>>
      BY <1>4 DEF SendWrite, Return
    <2>3. TypeOK'
      BY <2>1, <2>2, WrittenById DEF TypeOK, Idle, Point
    <2>4. CallsHaveRows'
      BY <2>1, <2>2, WrittenById DEF TypeOK, CallsHaveRows, Idle
    <2> QED  BY <2>1, <2>2, <2>3, <2>4, WrittenById DEF AcceptedHasRow
  <1> QED  BY <1>1, <1>2, <1>3, <1>4 DEF Send

LEMMA ExecuteKeeps ==
    ASSUME Inv, NEW r \in Request, Execute(r)
    PROVE  Inv'
  <1> USE DEF Inv
  <1>1. CASE \E o \in Offer : ExecuteOpen(r, o)
    BY <1>1, CallBegins DEF ExecuteOpen, AllOps, Point
  <1>2. CASE At(r, "execute", "gate") /\ PassGate(r, "write")
    BY <1>2, PassGateKeeps DEF At, Idle, Point
  <1>3. CASE ExecuteWrite(r)
    <2>1. call[r].o \in Offer /\ assignment[call[r].o] # "none"
      BY <1>3 DEF ExecuteWrite, At, CallsHaveRows, Idle
    <2>2. WriteById(call[r].o, "executed") /\ call' = [call EXCEPT ![r].at = "finish"]
          /\ UNCHANGED <<offer, stage, campaign, gate>>
      BY <1>3 DEF ExecuteWrite, Goto
    <2> QED
      BY <2>1, <2>2, WrittenById DEF TypeOK, CallsHaveRows, AcceptedHasRow, Idle, Point
  <1>4. CASE ExecuteFinish(r) \/ ExecuteStage(r)
    <2>1. /\ call' = [call EXCEPT ![r].at = "stage"] \/ call' = [call EXCEPT ![r] = Idle]
          /\ call[r].op = "execute"
          /\ stage' \in {"marketing", "assigned"} /\ campaign' \in {"active", "held", "completed"}
          /\ UNCHANGED <<offer, assignment, gate, revived>>
      BY <1>4 DEF ExecuteFinish, ExecuteStage, Goto, Return, At, TypeOK
    <2> QED
      BY <2>1 DEF TypeOK, CallsHaveRows, AcceptedHasRow, OneLiveUnlessRevived, Idle, Point
  <1> QED  BY <1>1, <1>2, <1>3, <1>4 DEF Execute

LEMMA CancelKeeps ==
    ASSUME Inv, NEW r \in Request, Cancel(r)
    PROVE  Inv'
  <1> USE DEF Inv
  <1>1. CASE \E o \in Offer : CancelOpen(r, o)
    BY <1>1, CallBegins DEF CancelOpen, AllOps, Point, LiveStatuses
  <1>2. CASE CancelWrite(r)
    <2>1. /\ call[r].o \in Offer /\ call[r].op = "cancel"
          /\ assignment' = [assignment EXCEPT ![call[r].o] = "cancelled"]
          /\ call' = [call EXCEPT ![r].at = "offer"]
          /\ UNCHANGED <<offer, stage, campaign, gate, revived>>
      BY <1>2 DEF CancelWrite, At, Goto, CallsHaveRows, Idle
    <2> QED
      BY <2>1 DEF TypeOK, CallsHaveRows, AcceptedHasRow, OneLiveUnlessRevived, Idle, Point,
                  AssignmentStatus, LiveStatuses
  <1>3. CASE CancelOffer(r)
    <2>1. /\ call[r].o \in Offer /\ call[r].op = "cancel"
          /\ offer' = [offer EXCEPT ![call[r].o] = IF @ = "accepted" THEN "declined" ELSE @]
          /\ call' = [call EXCEPT ![r].at = "evaluate"]
          /\ UNCHANGED <<assignment, stage, campaign, gate, revived>>
      BY <1>3 DEF CancelOffer, At, Goto, CallsHaveRows, Idle
    <2> QED
      BY <2>1 DEF TypeOK, CallsHaveRows, AcceptedHasRow, OneLiveUnlessRevived, Idle, Point, OfferStatus
  <1>4. CASE CancelEvaluate(r)
    BY <1>4, CallMovesOn DEF CancelEvaluate, At, Idle, NoRows, Point
  <1>5. CASE CancelRestage(r) \/ CancelResume(r)
    <2>1. /\ call[r].op = "cancel"
          /\ call' = [call EXCEPT ![r].at = "resume"] \/ call' = [call EXCEPT ![r] = Idle]
          /\ stage' \in {"marketing", "assigned"} /\ campaign' \in {"active", "held", "completed"}
          /\ UNCHANGED <<offer, assignment, gate, revived>>
      BY <1>5 DEF CancelRestage, CancelResume, At, Goto, Return, TypeOK
    <2> QED
      BY <2>1 DEF TypeOK, CallsHaveRows, AcceptedHasRow, OneLiveUnlessRevived, Idle, Point
  <1> QED  BY <1>1, <1>2, <1>3, <1>4, <1>5 DEF Cancel

LEMMA AsideKeeps ==
    ASSUME Inv, (\E r \in Request : Abort(r)) \/ (\E o \in Offer : Lapse(o)) \/ GateChanges
    PROVE  Inv'
  <1> USE DEF Inv
  <1>1. CASE \E r \in Request : Abort(r)
    BY <1>1, CallMovesOn DEF Abort, NoRows, Point
  <1>2. CASE \E o \in Offer : Lapse(o)
    BY <1>2 DEF Lapse, TypeOK, CallsHaveRows, AcceptedHasRow, OneLiveUnlessRevived, OfferStatus
  <1>3. CASE GateChanges
    BY <1>3 DEF GateChanges, TypeOK, CallsHaveRows, AcceptedHasRow, OneLiveUnlessRevived
  <1> QED  BY <1>1, <1>2, <1>3

LEMMA InvHolds == Spec => []Inv
  <1>1. Init => Inv
    BY NoneAssumption DEF Init, Inv, TypeOK, CallsHaveRows, AcceptedHasRow, OneLiveUnlessRevived,
              OfferStatus, Open, AssignmentStatus, LiveStatuses, AllOps, Point, Idle
  <1>2. Inv /\ [Next]_vars => Inv'
    <2> SUFFICES ASSUME Inv, [Next]_vars PROVE Inv'
      OBVIOUS
    <2>1. CASE Next
      BY <2>1, AcceptKeeps, OfferWriteKeeps, SendKeeps, ExecuteKeeps, CancelKeeps, AsideKeeps DEF Next
    <2>2. CASE UNCHANGED vars
      BY <2>2 DEF vars, Inv, TypeOK, CallsHaveRows, AcceptedHasRow, OneLiveUnlessRevived
    <2> QED  BY <2>1, <2>2
  <1> QED  BY <1>1, <1>2, PTL DEF Spec

\* Statement by statement, the rows and the calls in flight keep the values the
\* handlers of offers.service.ts and assignments.service.ts give them.
THEOREM RaceTypeCorrect == Spec => []TypeOK
  BY InvHolds, PTL DEF Inv

\* However many people accept, send, execute and cancel at once, two assignments
\* are live only when an envelope or an execution wrote one of them by id after it
\* had been cancelled; createFromOffer's transaction alone never makes two.
THEOREM OneLiveAssignmentUnlessRevived == Spec => []OneLiveUnlessRevived
  BY InvHolds, PTL DEF Inv

\* Wherever calls stop, no offer is accepted without the assignment that
\* createFromOffer inserted for it.
THEOREM AcceptedOffersKeepTheirRow == Spec => []AcceptedHasRow
  BY InvHolds, PTL DEF Inv

-----------------------------------------------------------------------------
\* The closing file.

FileInv == FileTypeOK /\ ClearIsTrue /\ TemplateIsComplete

LEMMA FileInitInv == FileInit => FileInv
  BY DEF FileInit, FileInv, FileTypeOK, ClearIsTrue, TemplateIsComplete, Structures, milestoneTemplate

\* A handler that ends with refreshStatus leaves a status that is true.
LEMMA RefreshIsTrue ==
  ASSUME FileInv, Refresh
  PROVE  /\ ClearIsTrue'
         /\ status' \in {"open", "clear_to_close", "closed", "cancelled"}
         /\ lapsed' \in BOOLEAN
  BY DEF FileInv, FileTypeOK, Refresh, Refreshed, IsOpen, ClearIsTrue

\* Marking a waiting row done keeps every row.
LEMMA DoneRows ==
  ASSUME NEW k, NEW ms \in [Key -> {"absent", "pending", "done", "waived"}]
  PROVE  /\ Done(ms, k) \in [Key -> {"absent", "pending", "done", "waived"}]
         /\ \A j \in Key : Done(ms, k)[j] = "absent" <=> ms[j] = "absent"
         /\ NothingPending(ms) => NothingPending(Done(ms, k))
  BY DEF Done, NothingPending

\* The rows after a change of structure are those of its template, and more.
LEMMA RestructuredRows ==
  ASSUME FileInv, NEW s \in Structures
  PROVE  /\ Restructured(s) \in [Key -> {"absent", "pending", "done", "waived"}]
         /\ \A k \in milestoneTemplate(s) : Restructured(s)[k] # "absent"
  BY DEF FileInv, FileTypeOK, Restructured, milestoneTemplate

\* The template only depends on the structure.
LEMMA SameTemplate ==
  ASSUME UNCHANGED structure, TemplateIsComplete,
         \A k \in Key : milestone'[k] = "absent" => milestone[k] = "absent"
  PROVE  TemplateIsComplete'
  BY DEF TemplateIsComplete, milestoneTemplate

\* Each action, by what it does to the rows.
LEMMA FileStepInv == FileInv /\ [FileNext]_fileVars => FileInv'
<1> SUFFICES ASSUME FileInv, [FileNext]_fileVars PROVE FileInv'
  OBVIOUS
<1> USE DEF Structures
<1>1. ASSUME NEW s \in Structures, ChangeStructure(s) PROVE FileInv'
  <2>1. milestone' = Restructured(s) /\ structure' = s /\ Refresh
        /\ UNCHANGED <<issue, newest, agreed, late, confirming>>
    BY <1>1 DEF ChangeStructure
  <2>2. FileTypeOK'
    BY <2>1, RestructuredRows, RefreshIsTrue DEF FileInv, FileTypeOK
  <2>3. TemplateIsComplete'
    BY <2>1, RestructuredRows DEF TemplateIsComplete, milestoneTemplate
  <2>4. QED BY <2>1, <2>2, <2>3, RefreshIsTrue DEF FileInv
<1>2. ASSUME Reschedule \/ (ExtendDeadline /\ Refresh) PROVE FileInv'
  <2>1. UNCHANGED <<structure, milestone, issue, newest, agreed, confirming>>
        /\ late' \in BOOLEAN /\ Refresh
    BY <1>2 DEF Reschedule, ExtendDeadline, FileInv, FileTypeOK
  <2>2. FileTypeOK'
    BY <2>1, RefreshIsTrue DEF FileInv, FileTypeOK
  <2>3. TemplateIsComplete'
    BY <2>1, SameTemplate DEF FileInv
  <2>4. QED BY <2>1, <2>2, <2>3, RefreshIsTrue DEF FileInv
<1>3. ASSUME NEW s \in Structures, NEW fundsVerified \in BOOLEAN, AcceptBuyer(s, fundsVerified)
      PROVE  FileInv'
  <2>1. Refresh /\ agreed' = s /\ newest' = "live" /\ UNCHANGED <<issue, late, confirming>>
    BY <1>3 DEF AcceptBuyer
  <2>2. CASE s # structure /\ ~IsOpen
    <3>1. UNCHANGED <<structure, milestone>>
      BY <1>3, <2>2 DEF AcceptBuyer
    <3>2. FileTypeOK'
      BY <2>1, <3>1, RefreshIsTrue DEF FileInv, FileTypeOK
    <3>3. QED BY <2>1, <3>1, <3>2, RefreshIsTrue, SameTemplate DEF FileInv
  <2>3. CASE ~(s # structure /\ ~IsOpen)
    <3> DEFINE ms == IF s = structure THEN milestone ELSE Restructured(s)
    <3>1. structure' = s /\ milestone' = IF fundsVerified THEN Done(ms, "buyer_funds_verified") ELSE ms
      BY <1>3, <2>3 DEF AcceptBuyer
    <3>2. ms \in [Key -> {"absent", "pending", "done", "waived"}]
          /\ \A k \in milestoneTemplate(s) : ms[k] # "absent"
      BY RestructuredRows DEF FileInv, FileTypeOK, TemplateIsComplete
    <3> HIDE DEF ms
    <3>3. milestone' \in [Key -> {"absent", "pending", "done", "waived"}]
          /\ \A k \in Key : milestone'[k] = "absent" <=> ms[k] = "absent"
      BY <3>1, <3>2, DoneRows
    <3>4. FileTypeOK'
      BY <2>1, <3>1, <3>3, RefreshIsTrue DEF FileInv, FileTypeOK
    <3>5. TemplateIsComplete'
      BY <3>1, <3>2, <3>3 DEF TemplateIsComplete, milestoneTemplate
    <3>6. QED BY <2>1, <3>4, <3>5, RefreshIsTrue DEF FileInv
  <2>4. QED BY <2>2, <2>3
<1>4. ASSUME (ExecuteAssignment /\ Refresh) \/ RecordBuyerDeposit PROVE FileInv'
  <2>1. PICK k \in {"resale_contract_executed", "assignment_executed", "buyer_emd_received"} :
            milestone' = Done(milestone, k)
    BY <1>4 DEF ExecuteAssignment, RecordBuyerDeposit
  <2>2. Refresh /\ UNCHANGED <<structure, issue, agreed, late, confirming>>
        /\ newest' \in {newest, "executed"}
    BY <1>4 DEF ExecuteAssignment, RecordBuyerDeposit
  <2>3. FileTypeOK'
    BY <2>1, <2>2, DoneRows, RefreshIsTrue DEF FileInv, FileTypeOK
  <2>4. TemplateIsComplete'
    BY <2>1, <2>2, DoneRows, SameTemplate DEF FileInv, FileTypeOK
  <2>5. QED BY <2>2, <2>3, <2>4, RefreshIsTrue DEF FileInv
<1>5. ASSUME CancelAssignment PROVE FileInv'
  <2>1. Refresh /\ UNCHANGED <<structure, issue, agreed, late, confirming>> /\ newest' = "cancelled"
    BY <1>5 DEF CancelAssignment
  <2>2. milestone' \in [Key -> {"absent", "pending", "done", "waived"}]
        /\ \A k \in Key : milestone'[k] = "absent" => milestone[k] = "absent"
    BY <1>5 DEF CancelAssignment, FileInv, FileTypeOK
  <2>3. FileTypeOK'
    BY <2>1, <2>2, RefreshIsTrue DEF FileInv, FileTypeOK
  <2>4. QED BY <2>1, <2>2, <2>3, RefreshIsTrue, SameTemplate DEF FileInv
<1>6. ASSUME RecordEarnestMoney PROVE FileInv'
  <2>1. milestone' = Done(milestone, "seller_emd_deposited")
        /\ UNCHANGED <<status, structure, issue, newest, agreed, late, confirming, lapsed>>
    BY <1>6 DEF RecordEarnestMoney, NotRefreshed
  <2>2. FileTypeOK'
    BY <2>1, DoneRows DEF FileInv, FileTypeOK
  <2>3. TemplateIsComplete'
    BY <2>1, DoneRows, SameTemplate DEF FileInv, FileTypeOK
  <2>4. ClearIsTrue'
    BY <2>1, DoneRows DEF FileInv, FileTypeOK, ClearIsTrue, ReadyWithin, NothingBlocking
  <2>5. QED BY <2>2, <2>3, <2>4 DEF FileInv
<1>7. ASSUME NEW k \in Key, NEW to \in {"pending", "done", "waived"}, SetMilestone(k, to)
      PROVE  FileInv'
  <2>1. milestone' = [milestone EXCEPT ![k] = to]
        /\ UNCHANGED <<structure, issue, newest, agreed, late, confirming>>
    BY <1>7 DEF SetMilestone
  <2>2. CASE k = "title_clear" /\ to = "done" /\ OpenTitleIssue
    <3>1. UNCHANGED <<status, lapsed>>
      BY <1>7, <2>2 DEF SetMilestone, NotRefreshed
    <3>2. ~NothingBlocking(issue)
      BY <2>2 DEF OpenTitleIssue, NothingBlocking, Issue
    <3>3. ClearIsTrue'
      BY <3>1, <3>2 DEF FileInv, ClearIsTrue, ReadyWithin
    <3>4. FileTypeOK'
      BY <2>1, <3>1 DEF FileInv, FileTypeOK
    <3>5. QED BY <2>1, <3>3, <3>4, SameTemplate DEF FileInv, FileTypeOK
  <2>3. CASE ~(k = "title_clear" /\ to = "done" /\ OpenTitleIssue)
    <3>1. Refresh
      BY <1>7, <2>3 DEF SetMilestone
    <3>2. FileTypeOK'
      BY <2>1, <3>1, RefreshIsTrue DEF FileInv, FileTypeOK
    <3>3. QED BY <2>1, <3>1, <3>2, RefreshIsTrue, SameTemplate DEF FileInv, FileTypeOK
  <2>4. QED BY <2>2, <2>3
<1>8. ASSUME NEW i \in Issue, NEW severity \in {"warning", "blocking"}, RaiseIssue(i, severity)
      PROVE  FileInv'
  <2>1. Refresh /\ UNCHANGED <<structure, newest, agreed, late, confirming>>
        /\ issue' = [issue EXCEPT ![i] = severity]
    BY <1>8 DEF RaiseIssue
  <2>2. milestone' \in [Key -> {"absent", "pending", "done", "waived"}]
        /\ \A k \in Key : milestone'[k] = "absent" => milestone[k] = "absent"
    BY <1>8 DEF RaiseIssue, FileInv, FileTypeOK
  <2>3. FileTypeOK'
    BY <2>1, <2>2, RefreshIsTrue DEF FileInv, FileTypeOK
  <2>4. QED BY <2>1, <2>2, <2>3, RefreshIsTrue, SameTemplate DEF FileInv
<1>9. ASSUME NEW i \in Issue, ResolveIssue(i) PROVE FileInv'
  <2>1. Refresh /\ UNCHANGED <<structure, milestone, newest, agreed, late, confirming>>
        /\ issue' = [issue EXCEPT ![i] = "resolved"]
    BY <1>9 DEF ResolveIssue
  <2>2. FileTypeOK'
    BY <2>1, RefreshIsTrue DEF FileInv, FileTypeOK
  <2>3. QED BY <2>1, <2>2, RefreshIsTrue, SameTemplate DEF FileInv
<1>10. ASSUME ConfirmRead \/ ConfirmWrite \/ CancelClosing PROVE FileInv'
  <2>1. UNCHANGED <<structure, milestone, issue, agreed, late, lapsed>>
    BY <1>10 DEF ConfirmRead, ConfirmWrite, CancelClosing
  <2>2. status' \in {status, "closed", "cancelled"}
        /\ (status' = status => UNCHANGED newest)
        /\ newest' \in {newest, "none", "cancelled"}
    BY <1>10 DEF ConfirmRead, ConfirmWrite, CancelClosing, IsOpen
  <2>3. confirming' \in BOOLEAN
    BY <1>10 DEF FileInv, FileTypeOK, ConfirmRead, ConfirmWrite, CancelClosing
  <2>4. FileTypeOK' /\ ClearIsTrue'
    BY <2>1, <2>2, <2>3 DEF FileInv, FileTypeOK, ClearIsTrue
  <2>5. QED BY <2>1, <2>4, SameTemplate DEF FileInv
\* What is not followed by a refresh: a deadline that moves, and says so; an
\* extension, which only moves it away; an execution, on a file that is not clear
\* yet, because nothing was executed.
<1>11. ASSUME DeadlineMoves \/ (ExtendDeadline /\ NotRefreshed) PROVE FileInv'
  <2>1. UNCHANGED <<status, structure, milestone, issue, newest, agreed, confirming>>
    BY <1>11 DEF DeadlineMoves, ExtendDeadline, NotRefreshed
  <2>2. late' \in BOOLEAN /\ lapsed' \in BOOLEAN
    BY <1>11 DEF FileInv, FileTypeOK, DeadlineMoves, ExtendDeadline, NotRefreshed
  <2>3. late' => lapsed' \/ (late /\ UNCHANGED lapsed)
    BY <1>11 DEF FileInv, FileTypeOK, DeadlineMoves, ExtendDeadline, NotRefreshed
  <2>4. FileTypeOK' /\ ClearIsTrue'
    BY <2>1, <2>2, <2>3 DEF FileInv, FileTypeOK, ClearIsTrue
  <2>5. QED BY <2>1, <2>4, SameTemplate DEF FileInv
<1>12. ASSUME ExecuteAssignment, NotRefreshed PROVE FileInv'
  <2>1. PICK k \in {"resale_contract_executed", "assignment_executed"} : milestone' = Done(milestone, k)
    BY <1>12 DEF ExecuteAssignment
  <2>2. /\ UNCHANGED <<status, structure, issue, agreed, late, confirming, lapsed>>
        /\ newest = "live" /\ newest' = "executed"
    BY <1>12 DEF ExecuteAssignment, NotRefreshed
  <2>3. FileTypeOK'
    BY <2>1, <2>2, DoneRows DEF FileInv, FileTypeOK
  <2>4. TemplateIsComplete'
    BY <2>1, <2>2, DoneRows, SameTemplate DEF FileInv, FileTypeOK
  <2>5. status # "clear_to_close"
    BY <2>2 DEF FileInv, ClearIsTrue
  <2>6. QED BY <2>2, <2>3, <2>4, <2>5 DEF FileInv, ClearIsTrue
<1>13. CASE UNCHANGED fileVars
  BY <1>13 DEF fileVars, FileInv, FileTypeOK, ClearIsTrue, TemplateIsComplete, milestoneTemplate
<1>14. ExecuteAssignment => Refresh \/ NotRefreshed
  BY DEF ExecuteAssignment
<1>15. ExtendDeadline => Refresh \/ NotRefreshed
  BY DEF ExtendDeadline
<1>16. QED
  BY <1>1, <1>2, <1>3, <1>4, <1>5, <1>6, <1>7, <1>8, <1>9, <1>10, <1>11, <1>12, <1>13, <1>14, <1>15
     DEF FileNext

LEMMA FileInvHolds == FileSpec => []FileInv
  BY FileInitInv, FileStepInv, PTL DEF FileSpec

-----------------------------------------------------------------------------

\* Every reachable file is made of values its columns can hold, for any set of
\* followed milestones and any issues.
THEOREM FileTypeCorrect == FileSpec => []FileTypeOK
<1>1. FileInv => FileTypeOK
  BY DEF FileInv
<1>2. QED BY <1>1, FileInvHolds, PTL

\* A file shown as clear to close has an executed assignment, nothing pending and
\* nothing blocking, and is in time, unless it became late after the last handler
\* refreshed it; through every handler.
THEOREM ClearMeansClear == FileSpec => []ClearIsTrue
<1>1. FileInv => ClearIsTrue
  BY DEF FileInv
<1>2. QED BY <1>1, FileInvHolds, PTL

\* Whatever the structure went through, every milestone of its template is there.
THEOREM NoMilestoneIsLost == FileSpec => []TemplateIsComplete
<1>1. FileInv => TemplateIsComplete
  BY DEF FileInv
<1>2. QED BY <1>1, FileInvHolds, PTL

=============================================================================
