-------------------------- MODULE AgentRunsProofs --------------------------
(***************************************************************************)
(* Theorems about AgentRuns for any number of runs, of jobs queued by hand  *)
(* and of approvals and rejections, whatever each decision asks for.        *)
(***************************************************************************)
EXTENDS AgentRuns, TLAPS

\* A job that has checked, and was not queued by hand, found no fresh open run;
\* one that is there now was opened by a job that had checked as well.
CheckedAlone ==
    \A r, s \in Run :
        r # s /\ job[r] = "checked" /\ r \notin Manual /\ IsOpen(s) /\ fresh[s]
            => beside[s] \/ reopened[s]

\* The job has handed its decision over: nothing gated exists before that.
Reported(r) == job[r] \in {"reporting", "failing", "done", "lost"}

Recorded(r) == Reported(r) /\ ~sent[r]

Applies(c) == call[c].pc \in {"applying", "completing"}

InCall(c) == call[c].pc \notin {"idle", "over"}

\* Nothing is kept about a run whose decisions overlapped, and while decisions
\* do not overlap one call at a time is about a run.
OneCall ==
    /\ \A r \in Run : excused[r] => taken[r] = {}
    /\ \A c, d \in Call : c # d /\ InCall(c) /\ InCall(d) /\ call[c].run = call[d].run
                              => excused[call[c].run]

\* Actions are gated, read and taken after the one report of the decision.
ReportedOnce ==
    /\ \A r \in Run : sent[r] => Reported(r)
    /\ \A r \in Run : taken[r] # {} \/ run[r].pending # {} => Recorded(r)
    /\ \A c \in Call : call[c].read # {} => Recorded(call[c].run)

\* What was taken no longer waits, except while its approval is on the way.
TakenIsNotAsked ==
    /\ \A c \in Call : call[c].pc = "applying" =>
          /\ call[c].todo \subseteq call[c].read
          /\ taken[call[c].run] \cap call[c].todo = {}
          /\ taken[call[c].run] \cap run[call[c].run].pending \subseteq call[c].read \ call[c].todo
    /\ \A c \in Call : call[c].pc = "completing" => call[c].todo = {}
    /\ \A c \in Call : call[c].pc = "rejecting" => taken[call[c].run] \cap call[c].read = {}
    /\ \A r \in Run : taken[r] \cap run[r].pending # {}
                          => \E c \in Call : call[c].run = r /\ call[c].pc = "applying"

\* A call that has tried nothing of what it read.
Untried(c) == call[c].pc = "rejecting" \/ (Applies(c) /\ call[c].todo = call[c].read)

\* An open run of which something was taken is being approved, or was reopened.
TakenIsClosed ==
    /\ \A r \in Run : taken[r] # {} /\ IsOpen(r)
                          => reopened[r] \/ \E c \in Call : call[c].run = r /\ Applies(c)
    /\ \A c \in Call : Untried(c) /\ taken[call[c].run] # {} => reopened[call[c].run]
    /\ \A c \in Call : call[c].pc = "applying" /\ call[c].todo # {}
                          => excused[call[c].run] \/ run[call[c].run].status # "cancelled"

Inv ==
    /\ TypeOK
    /\ CheckedAlone /\ OneOpinion
    /\ OneCall
    /\ ReportedOnce
    /\ TakenIsNotAsked /\ AppliedOnce
    /\ TakenIsClosed /\ RejectedIsUntouched

----------------------------------------------------------------------------
\* What a step does to the calls and to the rows, point by point.

CallType == [pc: CallPoint, run: Run, read: SUBSET Action, todo: SUBSET Action]

\* The calls stay calls; c moves on, still about its run, the others stay.
Becomes(c, pc, read, todo) ==
    /\ call' \in [Call -> CallType]
    /\ call'[c].pc = pc /\ call'[c].run = call[c].run
    /\ call'[c].read = read /\ call'[c].todo = todo
    /\ \A d \in Call : d # c => call'[d] = call[d]

LEMMA CallPoints ==
    /\ "idle" \in CallPoint /\ "over" \in CallPoint /\ "rejecting" \in CallPoint
    /\ "applying" \in CallPoint /\ "completing" \in CallPoint
  BY DEF CallPoint

LEMMA CallFields ==
    ASSUME TypeOK, NEW c \in Call
    PROVE  /\ call[c] \in CallType
           /\ call[c].run \in Run /\ call[c].pc \in CallPoint
           /\ call[c].read \subseteq Action /\ call[c].todo \subseteq Action
  BY DEF TypeOK, CallType

LEMMA Moved ==
    ASSUME TypeOK, NEW c \in Call, NEW pc \in CallPoint,
           NEW read \in SUBSET Action, NEW todo \in SUBSET Action,
           call' = [call EXCEPT ![c] = [@ EXCEPT !.pc = pc, !.read = read, !.todo = todo]]
    PROVE  Becomes(c, pc, read, todo)
  <1> DEFINE to == [call[c] EXCEPT !.pc = pc, !.read = read, !.todo = todo]
  <1>1. call[c] \in CallType
    BY CallFields
  <1>2. /\ to \in CallType /\ to.pc = pc /\ to.run = call[c].run
        /\ to.read = read /\ to.todo = todo
    BY <1>1 DEF CallType
  <1> HIDE DEF to
  <1>3. call \in [Call -> CallType] /\ call' = [call EXCEPT ![c] = to]
    BY DEF TypeOK, CallType, to
  <1> QED  BY <1>2, <1>3 DEF Becomes

LEMMA ReadMoves ==
    ASSUME TypeOK, NEW c \in Call, NEW pc \in CallPoint, Read(c, pc)
    PROVE  Becomes(c, pc, run[call[c].run].pending, run[call[c].run].pending)
  <1> DEFINE pending == run[call[c].run].pending
  <1>1. pending \in SUBSET Action
    BY CallFields DEF TypeOK
  <1>2. call[c] \in CallType /\ call \in [Call -> CallType]
    BY CallFields DEF TypeOK, CallType
  <1>3. call' = [call EXCEPT ![c].pc = pc, ![c].read = pending, ![c].todo = pending]
    BY DEF Read
  <1> HIDE DEF pending
  <1>4. call' = [call EXCEPT ![c] = [@ EXCEPT !.pc = pc, !.read = pending, !.todo = pending]]
    BY <1>2, <1>3
  <1>5. Becomes(c, pc, pending, pending)
    BY <1>1, <1>4, Moved
  <1> QED  BY <1>5 DEF pending

LEMMA EndMoves ==
    ASSUME TypeOK, NEW c \in Call, End(c)
    PROVE  Becomes(c, "over", {}, {})
  BY Moved, CallPoints DEF End

\* applyGated of one action.
LEMMA ApplyMoves ==
    ASSUME TypeOK, NEW c \in Call, NEW a, call[c].pc = "applying",
           call' = [call EXCEPT ![c].todo = @ \ {a}]
    PROVE  Becomes(c, "applying", call[c].read, call[c].todo \ {a})
  <1>1. /\ call[c] \in CallType /\ call[c].read \in SUBSET Action
        /\ call[c].todo \ {a} \in SUBSET Action
    BY CallFields
  <1>2. call \in [Call -> CallType]
    BY DEF TypeOK, CallType
  <1>3. call' = [call EXCEPT ![c] = [call[c] EXCEPT !.todo = @ \ {a}]]
    BY <1>1, <1>2
  <1>4. [call[c] EXCEPT !.todo = @ \ {a}]
          = [call[c] EXCEPT !.pc = "applying", !.read = call[c].read, !.todo = @ \ {a}]
    BY <1>1 DEF CallType
  <1>5. call' = [call EXCEPT ![c] = [@ EXCEPT !.pc = "applying", !.read = call[c].read, !.todo = call[c].todo \ {a}]]
    BY <1>1, <1>2, <1>3, <1>4
  <1> QED  BY <1>1, <1>5, Moved, CallPoints

LEMMA OutcomesMove ==
    ASSUME TypeOK, NEW c \in Call, WriteOutcomes(c)
    PROVE  Becomes(c, "completing", call[c].read, {})
  <1>1. call[c] \in CallType /\ call[c].read \in SUBSET Action /\ call[c].todo = {}
    BY CallFields DEF WriteOutcomes
  <1>2. call' = [call EXCEPT ![c].pc = "completing"] /\ call \in [Call -> CallType]
    BY DEF WriteOutcomes, TypeOK, CallType
  <1>3. [call[c] EXCEPT !.pc = "completing"]
          = [call[c] EXCEPT !.pc = "completing", !.read = call[c].read, !.todo = {}]
    BY <1>1 DEF CallType
  <1>4. call' = [call EXCEPT ![c] = [@ EXCEPT !.pc = "completing", !.read = call[c].read, !.todo = {}]]
    BY <1>1, <1>2, <1>3
  <1> QED  BY <1>1, <1>4, Moved, CallPoints

RunType == [status: Status, pending: SUBSET Action]

RunBecomes(r, status, pending) ==
    /\ run' \in [Run -> RunType]
    /\ run'[r].status = status /\ run'[r].pending = pending
    /\ \A s \in Run : s # r => run'[s] = run[s]

LEMMA RunFields ==
    ASSUME TypeOK, NEW r \in Run
    PROVE  run[r] \in RunType /\ run[r].status \in Status /\ run[r].pending \subseteq Action
  BY DEF TypeOK, RunType

LEMMA RunMoved ==
    ASSUME TypeOK, NEW r \in Run, NEW to \in RunType, run' = [run EXCEPT ![r] = to]
    PROVE  RunBecomes(r, to.status, to.pending)
  <1>1. run \in [Run -> RunType]
    BY DEF TypeOK, RunType
  <1> QED  BY <1>1 DEF RunBecomes

LEMMA StatusMoved ==
    ASSUME TypeOK, NEW r \in Run, NEW status \in Status,
           run' = [run EXCEPT ![r].status = status]
    PROVE  RunBecomes(r, status, run[r].pending)
  <1> DEFINE to == [run[r] EXCEPT !.status = status]
  <1>1. run[r] \in RunType
    BY RunFields
  <1>2. to \in RunType /\ to.status = status /\ to.pending = run[r].pending
    BY <1>1 DEF RunType
  <1>3. run' = [run EXCEPT ![r] = to]
    BY DEF TypeOK
  <1> QED  BY <1>2, <1>3, RunMoved

LEMMA PendingMoved ==
    ASSUME TypeOK, NEW r \in Run, NEW pending \in SUBSET Action,
           run' = [run EXCEPT ![r].pending = pending]
    PROVE  RunBecomes(r, run[r].status, pending)
  <1> DEFINE to == [run[r] EXCEPT !.pending = pending]
  <1>1. run[r] \in RunType
    BY RunFields
  <1>2. to \in RunType /\ to.status = run[r].status /\ to.pending = pending
    BY <1>1 DEF RunType
  <1>3. run' = [run EXCEPT ![r] = to]
    BY DEF TypeOK
  <1> QED  BY <1>2, <1>3, RunMoved

LEMMA BothMoved ==
    ASSUME TypeOK, NEW r \in Run, NEW status \in Status, NEW pending \in SUBSET Action,
           \/ run' = [run EXCEPT ![r].status = status, ![r].pending = pending]
           \/ run' = [run EXCEPT ![r].pending = pending, ![r].status = status]
    PROVE  RunBecomes(r, status, pending)
  <1> PICK to : /\ \/ to = [run[r] EXCEPT !.status = status, !.pending = pending]
                   \/ to = [run[r] EXCEPT !.pending = pending, !.status = status]
                /\ run' = [run EXCEPT ![r] = to]
    <2>1. CASE run' = [run EXCEPT ![r].status = status, ![r].pending = pending]
      <3>1. run' = [run EXCEPT ![r] = [@ EXCEPT !.status = status, !.pending = pending]]
        BY <2>1 DEF TypeOK
      <3> QED  BY <3>1
    <2>2. CASE run' = [run EXCEPT ![r].pending = pending, ![r].status = status]
      <3>1. run' = [run EXCEPT ![r] = [@ EXCEPT !.pending = pending, !.status = status]]
        BY <2>2 DEF TypeOK
      <3> QED  BY <3>1
    <2> QED  BY <2>1, <2>2
  <1>1. run[r] \in RunType
    BY RunFields
  <1>2. to \in RunType /\ to.status = status /\ to.pending = pending
    <2>1. CASE to = [run[r] EXCEPT !.status = status, !.pending = pending]
      BY <1>1, <2>1 DEF RunType
    <2>2. CASE to = [run[r] EXCEPT !.pending = pending, !.status = status]
      BY <1>1, <2>2 DEF RunType
    <2> QED  BY <2>1, <2>2
  <1> QED  BY <1>2, RunMoved

LEMMA Statuses ==
    /\ "queued" \in Status /\ "running" \in Status /\ "awaiting" \in Status
    /\ "completed" \in Status /\ "failed" \in Status /\ "cancelled" \in Status
  BY DEF Status

\* What each step that writes a run makes of it.
LEMMA OpenMoves ==
    ASSUME TypeOK, NEW r \in Run, OpenRun(r)
    PROVE  run' = run \/ \E s \in {"queued", "running"} : RunBecomes(r, s, run[r].pending)
  <1>1. CASE \E s \in {"queued", "running"} : run' = [run EXCEPT ![r].status = s]
    <2> PICK s \in {"queued", "running"} : run' = [run EXCEPT ![r].status = s]
      BY <1>1
    <2> QED  BY StatusMoved, Statuses
  <1>2. run' = run \/ \E s \in {"queued", "running"} : run' = [run EXCEPT ![r].status = s]
    <2>1. CASE UNCHANGED <<run, fresh, beside>>
      BY <2>1
    <2>2. CASE \E s \in {"queued", "running"} : run' = [run EXCEPT ![r].status = s]
      BY <2>2
    <2> QED  BY <2>1, <2>2, Zenon DEF OpenRun
  <1> QED  BY <1>1, <1>2

LEMMA CloseMoves ==
    ASSUME TypeOK, NEW r \in Run, ReportClosed(r)
    PROVE  RunBecomes(r, Closed(r), IF job[r] = "blocked" THEN {} ELSE run[r].pending)
  <1> DEFINE pending == IF job[r] = "blocked" THEN {} ELSE run[r].pending
  <1>1. Closed(r) \in Status
    BY Statuses DEF Closed
  <1>2. pending \in SUBSET Action
    BY RunFields
  <1>3. run' = [run EXCEPT ![r].status = Closed(r), ![r].pending = pending]
    BY RunFields DEF ReportClosed, TypeOK
  <1> HIDE DEF pending
  <1>4. RunBecomes(r, Closed(r), pending)
    BY <1>1, <1>2, <1>3, BothMoved
  <1> QED  BY <1>4 DEF pending

LEMMA RecordMoves ==
    ASSUME TypeOK, NEW r \in Run, RecordDecision(r)
    PROVE  \E pending \in SUBSET Action, s \in {"completed", "awaiting"} : RunBecomes(r, s, pending)
  <1> PICK pending \in SUBSET Asks[r] :
           run' = [run EXCEPT ![r].pending = pending,
                              ![r].status = IF pending = {} THEN "completed" ELSE "awaiting"]
    BY DEF RecordDecision
  <1>1. pending \in SUBSET Action
    BY RunAssumption
  <1> DEFINE s == IF pending = {} THEN "completed" ELSE "awaiting"
  <1>2. s \in {"completed", "awaiting"}
    OBVIOUS
  <1> HIDE DEF s
  <1>3. run[r] \in RunType /\ run \in [Run -> RunType] /\ s \in Status
    BY <1>2, RunFields, Statuses DEF TypeOK, RunType
  <1>4. run' = [run EXCEPT ![r].pending = pending, ![r].status = s]
    BY DEF s
  <1> QED  BY <1>1, <1>2, <1>3, <1>4, BothMoved

LEMMA DraftMoves ==
    ASSUME TypeOK, NEW c \in Call, ApplyDraft(c)
    PROVE  run' = run \/ RunBecomes(call[c].run, "awaiting", run[call[c].run].pending)
  <1>1. call[c].run \in Run
    BY CallFields
  <1>2. CASE run' = [run EXCEPT ![call[c].run].status = "awaiting"]
    BY <1>1, <1>2, StatusMoved, Statuses
  <1>3. run' = run \/ run' = [run EXCEPT ![call[c].run].status = "awaiting"]
    <2>1. CASE UNCHANGED <<run, reopened>>
      BY <2>1
    <2>2. CASE UNCHANGED <<run, reopened, taken, again, message>>
      BY <2>2
    <2> QED  BY <2>1, <2>2, Zenon DEF ApplyDraft
  <1> QED  BY <1>2, <1>3

LEMMA SubmitMoves ==
    ASSUME TypeOK, NEW r \in Run, RequestSend(r)
    PROVE  RunBecomes(r, "awaiting", run[r].pending)
  BY StatusMoved, Statuses DEF RequestSend

LEMMA ApprovalMoves ==
    ASSUME TypeOK, NEW c \in Call
    PROVE  /\ WriteOutcomes(c) => RunBecomes(call[c].run, run[call[c].run].status, {})
           /\ Complete(c) => RunBecomes(call[c].run, "completed", run[call[c].run].pending)
           /\ RejectWrite(c) => RunBecomes(call[c].run, "cancelled", call[c].read)
  <1>1. call[c].run \in Run /\ call[c].read \in SUBSET Action
    BY CallFields
  <1>2. WriteOutcomes(c) => RunBecomes(call[c].run, run[call[c].run].status, {})
    BY <1>1, PendingMoved DEF WriteOutcomes, AfterApproval
  <1>3. Complete(c) => RunBecomes(call[c].run, "completed", run[call[c].run].pending)
    BY <1>1, StatusMoved, Statuses DEF Complete
  <1>4. RejectWrite(c) => RunBecomes(call[c].run, "cancelled", call[c].read)
    <2>1. [status |-> "cancelled", pending |-> call[c].read] \in RunType
      BY <1>1, Statuses DEF RunType
    <2> QED  BY <1>1, <2>1, RunMoved DEF RejectWrite
  <1> QED  BY <1>2, <1>3, <1>4

----------------------------------------------------------------------------
\* Types.

LEMMA StepCases ==
    ASSUME Next
    PROVE  \/ \E r \in Run : CheckOpen(r)
           \/ \E r \in Run : OpenRun(r)
           \/ \E r \in Run : RunAgent(r)
           \/ \E r \in Run : HearAnswer(r)
           \/ \E r \in Run : ReportClosed(r)
           \/ \E r \in Run : Stop(r)
           \/ \E r \in Run : RecordDecision(r)
           \/ \E r \in Run : WindowPasses(r)
           \/ \E r \in Run : RejectMessage(r)
           \/ \E r \in Run : RequestSend(r)
           \/ \E c \in Call : ApproveRead(c)
           \/ \E c \in Call : ApplyStep(c)
           \/ \E c \in Call : ApplyDraft(c)
           \/ \E c \in Call : Refuse(c)
           \/ \E c \in Call : WriteOutcomes(c)
           \/ \E c \in Call : Complete(c)
           \/ \E c \in Call : RejectRead(c)
           \/ \E c \in Call : RejectWrite(c)
           \/ \E c \in Call : Die(c)
  BY DEF Next, JobStep, CallStep

LEMMA JobTypes ==
    ASSUME TypeOK, NEW r \in Run, NEW pc \in JobPoint
    PROVE  [job EXCEPT ![r] = pc] \in [Run -> JobPoint]
  BY DEF TypeOK

LEMMA HistoryTypes ==
    ASSUME TypeOK, NEW r \in Run
    PROVE  /\ \A b \in BOOLEAN : Excuse(r, b) =>
                 excused' \in [Run -> BOOLEAN] /\ taken' \in [Run -> SUBSET Action]
           /\ \A a \in Action : Take(r, a) =>
                 taken' \in [Run -> SUBSET Action] /\ again' \in [Run -> SUBSET Action]
  <1>1. ASSUME NEW b \in BOOLEAN, Excuse(r, b)
        PROVE  excused' \in [Run -> BOOLEAN] /\ taken' \in [Run -> SUBSET Action]
    <2>1. excused' \in [Run -> BOOLEAN]
      BY <1>1 DEF TypeOK, Excuse
    <2>2. taken' \in [Run -> SUBSET Action]
      BY <1>1 DEF TypeOK, Excuse
    <2> QED  BY <2>1, <2>2
  <1>2. ASSUME NEW a \in Action, Take(r, a)
        PROVE  taken' \in [Run -> SUBSET Action] /\ again' \in [Run -> SUBSET Action]
    <2>1. /\ (IF excused[r] THEN {} ELSE taken[r] \cup {a}) \in SUBSET Action
          /\ again[r] \cup ({a} \cap taken[r]) \in SUBSET Action
      BY DEF TypeOK
    <2> QED  BY <1>2, <2>1 DEF TypeOK, Take
  <1> QED  BY <1>1, <1>2

LEMMA TypeStep ==
    ASSUME TypeOK, Next
    PROVE  TypeOK'
  <1> USE DEF apiVars
  <1> DEFINE Rows == run' \in [Run -> RunType]
             Calls == call' \in [Call -> CallType]
  <1>R. Rows \/ run' = run => run' \in [Run -> [status: Status, pending: SUBSET Action]]
    BY DEF RunType, TypeOK
  <1>C. Calls \/ call' = call
          => call' \in [Call -> [pc: CallPoint, run: Run, read: SUBSET Action, todo: SUBSET Action]]
    BY DEF CallType, TypeOK
  <1>1. CASE \E r \in Run : CheckOpen(r)
    BY <1>1 DEF CheckOpen, JobPoint, TypeOK
  <1>2. CASE \E r \in Run : OpenRun(r)
    <2> PICK r \in Run : OpenRun(r)
      BY <1>2
    <2>1. Rows \/ run' = run
      BY OpenMoves DEF RunBecomes
    <2>2. job' \in [Run -> JobPoint]
      BY DEF OpenRun, JobPoint, TypeOK
    <2>3. fresh' \in [Run -> BOOLEAN]
      BY DEF OpenRun, TypeOK
    <2>4. beside' \in [Run -> BOOLEAN]
      BY DEF OpenRun, TypeOK
    <2> QED  BY <2>1, <2>2, <2>3, <2>4, <1>R DEF OpenRun, TypeOK
  <1>3. CASE \E r \in Run : RunAgent(r)
    <2> PICK r \in Run : RunAgent(r)
      BY <1>3
    <2>1. job' \in [Run -> JobPoint]
      BY JobTypes DEF RunAgent, AfterError, JobPoint, TypeOK
    <2>2. sent' \in [Run -> BOOLEAN]
      BY DEF RunAgent, TypeOK
    <2> QED  BY <2>1, <2>2 DEF RunAgent, TypeOK
  <1>4. CASE \E r \in Run : HearAnswer(r)
    BY <1>4 DEF HearAnswer, AfterError, JobPoint, TypeOK
  <1>5. CASE \E r \in Run : ReportClosed(r)
    <2> PICK r \in Run : ReportClosed(r)
      BY <1>5
    <2>1. Rows
      BY CloseMoves DEF RunBecomes
    <2>2. job' \in [Run -> JobPoint]
      BY DEF ReportClosed, JobPoint, TypeOK
    <2> QED  BY <2>1, <2>2, <1>R DEF ReportClosed, TypeOK
  <1>6. CASE \E r \in Run : Stop(r)
    BY <1>6 DEF Stop, JobPoint, TypeOK
  <1>7. CASE \E r \in Run : RecordDecision(r)
    <2> PICK r \in Run : RecordDecision(r)
      BY <1>7
    <2>1. Rows
      BY RecordMoves DEF RunBecomes
    <2>2. reopened' \in [Run -> BOOLEAN] /\ sent' \in [Run -> BOOLEAN]
      BY DEF RecordDecision, TypeOK
    <2> QED  BY <2>1, <2>2, <1>R DEF RecordDecision, TypeOK
  <1>8. CASE \E r \in Run : WindowPasses(r)
    BY <1>8 DEF WindowPasses, TypeOK
  <1>9. CASE \E r \in Run : RejectMessage(r)
    BY <1>9 DEF RejectMessage, TypeOK
  <1>10. CASE \E r \in Run : RequestSend(r)
    <2> PICK r \in Run : RequestSend(r)
      BY <1>10
    <2>1. Rows
      BY SubmitMoves DEF RunBecomes
    <2>2. reopened' \in [Run -> BOOLEAN]
      BY DEF RequestSend, TypeOK
    <2> QED  BY <2>1, <2>2, <1>R DEF RequestSend, TypeOK
  <1>11. CASE \E c \in Call : ApproveRead(c) \/ RejectRead(c)
    <2> PICK c \in Call, pc \in {"applying", "rejecting"} : Read(c, pc)
      BY <1>11 DEF ApproveRead, RejectRead
    <2>1. Calls
      BY ReadMoves, CallPoints DEF Becomes
    <2>2. excused' \in [Run -> BOOLEAN] /\ taken' \in [Run -> SUBSET Action]
      BY CallFields, HistoryTypes DEF Read
    <2> QED  BY <2>1, <2>2, <1>C DEF Read, TypeOK
  <1>12. CASE \E c \in Call : ApplyStep(c)
    <2> PICK c \in Call : ApplyStep(c)
      BY <1>12
    <2>1. Calls
      BY ApplyMoves DEF ApplyStep, Becomes
    <2>2. taken' \in [Run -> SUBSET Action] /\ again' \in [Run -> SUBSET Action]
      BY CallFields, HistoryTypes DEF ApplyStep, Action, TypeOK
    <2> QED  BY <2>1, <2>2, <1>C DEF ApplyStep, TypeOK
  <1>13. CASE \E c \in Call : ApplyDraft(c)
    <2> PICK c \in Call : ApplyDraft(c)
      BY <1>13
    <2>0. call[c].run \in Run
      BY CallFields
    <2>1. Calls
      BY ApplyMoves DEF ApplyDraft, Becomes
    <2>2. Rows \/ run' = run
      BY DraftMoves DEF RunBecomes
    <2>3. taken' \in [Run -> SUBSET Action] /\ again' \in [Run -> SUBSET Action]
      BY <2>0, HistoryTypes DEF ApplyDraft, Action, TypeOK
    <2>4. reopened' \in [Run -> BOOLEAN]
      BY <2>0 DEF ApplyDraft, TypeOK
    <2>5. message' \in [Run -> {"none", "draft", "pending"}]
      BY <2>0 DEF ApplyDraft, TypeOK
    <2> QED  BY <2>1, <2>2, <2>3, <2>4, <2>5, <1>R, <1>C DEF ApplyDraft, TypeOK
  <1>14. CASE \E c \in Call : Refuse(c) \/ Die(c)
    <2> PICK c \in Call : Refuse(c) \/ Die(c)
      BY <1>14
    <2>1. Calls
      BY EndMoves DEF Refuse, Die, Becomes
    <2>2. excused' \in [Run -> BOOLEAN] /\ taken' \in [Run -> SUBSET Action]
      BY CallFields, HistoryTypes DEF Refuse, Die, LeftHalfWay
    <2> QED  BY <2>1, <2>2, <1>C DEF Refuse, Die, TypeOK
  <1>15. CASE \E c \in Call : WriteOutcomes(c)
    <2> PICK c \in Call : WriteOutcomes(c)
      BY <1>15
    <2>1. Calls /\ Rows
      BY OutcomesMove, ApprovalMoves DEF Becomes, RunBecomes
    <2> QED  BY <2>1, <1>R, <1>C DEF WriteOutcomes, TypeOK
  <1>16. CASE \E c \in Call : Complete(c) \/ RejectWrite(c)
    <2> PICK c \in Call : Complete(c) \/ RejectWrite(c)
      BY <1>16
    <2>1. Calls
      BY EndMoves DEF Complete, RejectWrite, Becomes
    <2>2. Rows
      BY ApprovalMoves DEF RunBecomes
    <2> QED  BY <2>1, <2>2, <1>R, <1>C DEF Complete, RejectWrite, TypeOK
  <1> QED
    BY <1>1, <1>2, <1>3, <1>4, <1>5, <1>6, <1>7, <1>8, <1>9, <1>10, <1>11, <1>12, <1>13,
       <1>14, <1>15, <1>16, StepCases

----------------------------------------------------------------------------
\* One opinion at a time.

\* The steps that neither check nor open a run.
LEMMA Unopened ==
    ASSUME CheckedAlone, OneOpinion, fresh' = fresh, beside' = beside,
           \A r \in Run : job'[r] = "checked" => job[r] = "checked",
           \A r \in Run : reopened[r] => reopened'[r],
           \A r \in Run : IsOpen(r)' => IsOpen(r) \/ reopened'[r]
    PROVE  CheckedAlone' /\ OneOpinion'
  <1>1. CheckedAlone'
    BY Zenon DEF CheckedAlone
  <1>2. OneOpinion'
    BY Zenon DEF OneOpinion
  <1> QED  BY <1>1, <1>2

\* A row that moves to a status that is not open.
LEMMA Shut ==
    ASSUME NEW r \in Run, NEW status, NEW pending, RunBecomes(r, status, pending),
           status \notin {"queued", "running", "awaiting"}
    PROVE  \A s \in Run : IsOpen(s)' => IsOpen(s)
  BY DEF RunBecomes, IsOpen

\* A row that is set to wait: reopened' notes it when it was shut.
LEMMA SetToWait ==
    ASSUME TypeOK, NEW r \in Run, NEW status, NEW pending, RunBecomes(r, status, pending),
           reopened' = [reopened EXCEPT ![r] = @ \/ ~IsOpen(r)]
    PROVE  /\ \A s \in Run : IsOpen(s)' => IsOpen(s) \/ reopened'[s]
           /\ \A s \in Run : reopened[s] => reopened'[s]
  <1>1. \A s \in Run \ {r} : IsOpen(s)' = IsOpen(s)
    BY DEF RunBecomes, IsOpen
  <1>2. reopened'[r] = (reopened[r] \/ ~IsOpen(r)) /\ \A s \in Run \ {r} : reopened'[s] = reopened[s]
    BY DEF TypeOK
  <1> QED  BY <1>1, <1>2

LEMMA OpinionStep ==
    ASSUME TypeOK, CheckedAlone, OneOpinion, Next
    PROVE  CheckedAlone' /\ OneOpinion'
  <1> USE DEF apiVars
  <1>1. CASE \E r \in Run : CheckOpen(r)
    <2> PICK r \in Run : CheckOpen(r)
      BY <1>1
    <2>1. UNCHANGED <<run, fresh, reopened, beside>> /\ \A s \in Run : IsOpen(s)' = IsOpen(s)
      BY DEF CheckOpen, IsOpen
    <2>2. \A s \in Run \ {r} : job'[s] = job[s]
      BY DEF CheckOpen, TypeOK
    <2>3. OneOpinion'
      BY <2>1, Zenon DEF OneOpinion
    <2>4. job'[r] = "checked" => ~Skips(r)
      BY DEF CheckOpen, TypeOK
    <2>5. job'[r] = "checked" /\ r \notin Manual => \A s \in Run \ {r} : ~(IsOpen(s) /\ fresh[s])
      BY <2>4 DEF Skips, OpenStatuses, IsOpen
    <2>6. CheckedAlone'
      BY <2>1, <2>2, <2>5, Zenon DEF CheckedAlone
    <2> QED  BY <2>3, <2>6
  <1>2. CASE \E r \in Run : OpenRun(r)
    <2> PICK r \in Run : OpenRun(r)
      BY <1>2
    <2>1. CASE UNCHANGED <<run, fresh, beside>> /\ job' = [job EXCEPT ![r] = "done"]
      <3>1. \A s \in Run : IsOpen(s)' = IsOpen(s)
        BY <2>1 DEF IsOpen
      <3>2. reopened' = reopened /\ \A s \in Run : job'[s] = "checked" => job[s] = "checked"
        BY <2>1 DEF OpenRun, TypeOK
      <3> QED  BY <2>1, <3>1, <3>2, Unopened
    <2>2. CASE /\ fresh' = [fresh EXCEPT ![r] = TRUE]
               /\ beside' = [beside EXCEPT ![r] =
                                 r \in Manual \/ \E s \in Run \ {r} : job[s] = "checked"]
      <3>1. \A s \in Run \ {r} : run'[s] = run[s]
        BY OpenMoves DEF RunBecomes
      <3>2. \A s \in Run \ {r} : IsOpen(s)' = IsOpen(s)
        BY <3>1 DEF IsOpen
      <3>3. job[r] = "checked" /\ reopened' = reopened
        BY DEF OpenRun
      <3>4. job'[r] # "checked" /\ \A s \in Run \ {r} : job'[s] = job[s]
        BY DEF OpenRun, TypeOK
      <3>5. /\ beside'[r] = (r \in Manual \/ \E s \in Run \ {r} : job[s] = "checked")
            /\ \A s \in Run \ {r} : beside'[s] = beside[s] /\ fresh'[s] = fresh[s]
        BY <2>2 DEF TypeOK
      <3>6. CheckedAlone'
        BY <3>2, <3>3, <3>4, <3>5, Zenon DEF CheckedAlone
      <3>7. OneOpinion'
        BY <3>2, <3>3, <3>5, Zenon DEF OneOpinion, CheckedAlone
      <3> QED  BY <3>6, <3>7
    <2> QED  BY <2>1, <2>2, Zenon DEF OpenRun
  <1>3. CASE \E r \in Run : RunAgent(r) \/ HearAnswer(r) \/ Stop(r) \/ RejectMessage(r)
    <2> PICK r \in Run : RunAgent(r) \/ HearAnswer(r) \/ Stop(r) \/ RejectMessage(r)
      BY <1>3
    <2>1. UNCHANGED <<run, fresh, reopened, beside>>
      BY DEF RunAgent, HearAnswer, Stop, RejectMessage
    <2>2. \A s \in Run : job'[s] = "checked" => job[s] = "checked"
      BY DEF RunAgent, HearAnswer, Stop, RejectMessage, AfterError, TypeOK
    <2>3. \A s \in Run : IsOpen(s)' = IsOpen(s)
      BY <2>1 DEF IsOpen
    <2> QED  BY <2>1, <2>2, <2>3, Unopened
  <1>4. CASE \E r \in Run : ReportClosed(r)
    <2> PICK r \in Run : ReportClosed(r)
      BY <1>4
    <2>1. UNCHANGED <<fresh, reopened, beside>>
      BY DEF ReportClosed
    <2>2. \A s \in Run : job'[s] = "checked" => job[s] = "checked"
      BY DEF ReportClosed, TypeOK
    <2>3. \A s \in Run : IsOpen(s)' => IsOpen(s)
      BY CloseMoves, Shut DEF Closed
    <2> QED  BY <2>1, <2>2, <2>3, Unopened
  <1>5. CASE \E r \in Run : RecordDecision(r) \/ RequestSend(r)
    <2> PICK r \in Run : RecordDecision(r) \/ RequestSend(r)
      BY <1>5
    <2>1. /\ UNCHANGED <<job, fresh, beside>>
          /\ reopened' = [reopened EXCEPT ![r] = @ \/ ~IsOpen(r)]
      BY DEF RecordDecision, RequestSend
    <2>2. \E status, pending : RunBecomes(r, status, pending)
      BY RecordMoves, SubmitMoves
    <2> QED  BY <2>1, <2>2, SetToWait, Unopened
  <1>6. CASE \E r \in Run : WindowPasses(r)
    <2> PICK r \in Run : WindowPasses(r)
      BY <1>6
    <2>1. ~fresh'[r] /\ \A s \in Run \ {r} : fresh'[s] = fresh[s] /\ beside'[s] = beside[s]
      BY DEF WindowPasses, TypeOK
    <2>2. UNCHANGED <<job, reopened>> /\ \A s \in Run : IsOpen(s)' = IsOpen(s)
      BY DEF WindowPasses, IsOpen
    <2>3. CheckedAlone'
      BY <2>1, <2>2, Zenon DEF CheckedAlone
    <2>4. OneOpinion'
      BY <2>1, <2>2, Zenon DEF OneOpinion
    <2> QED  BY <2>3, <2>4
  <1>7. CASE \E c \in Call : ApplyDraft(c)
    <2> PICK c \in Call : ApplyDraft(c)
      BY <1>7
    <2>0. call[c].run \in Run
      BY CallFields
    <2>1. UNCHANGED <<job, fresh, beside>>
      BY DEF ApplyDraft
    <2>2. CASE UNCHANGED <<run, reopened>>
      <3>1. \A s \in Run : IsOpen(s)' = IsOpen(s)
        BY <2>2 DEF IsOpen
      <3> QED  BY <2>1, <2>2, <3>1, Unopened
    <2>3. CASE /\ run' = [run EXCEPT ![call[c].run].status = "awaiting"]
               /\ reopened' = [reopened EXCEPT ![call[c].run] = @ \/ ~IsOpen(call[c].run)]
      <3>1. RunBecomes(call[c].run, "awaiting", run[call[c].run].pending)
        BY <2>0, <2>3, StatusMoved, Statuses
      <3> QED  BY <2>0, <2>1, <2>3, <3>1, SetToWait, Unopened
    <2>4. CASE UNCHANGED <<run, reopened, taken, again, message>>
      BY <2>2, <2>4
    <2> QED  BY <2>2, <2>3, <2>4, Zenon DEF ApplyDraft
  <1>8. CASE \E c \in Call : WriteOutcomes(c) \/ Complete(c) \/ RejectWrite(c)
    <2> PICK c \in Call : WriteOutcomes(c) \/ Complete(c) \/ RejectWrite(c)
      BY <1>8
    <2>0. call[c].run \in Run
      BY CallFields
    <2>1. UNCHANGED <<job, fresh, reopened, beside>>
      BY DEF WriteOutcomes, Complete, RejectWrite
    <2>2. \A s \in Run : IsOpen(s)' => IsOpen(s)
      <3>1. CASE WriteOutcomes(c)
        BY <2>0, <3>1, ApprovalMoves DEF RunBecomes, IsOpen
      <3>2. CASE Complete(c) \/ RejectWrite(c)
        BY <2>0, <3>2, ApprovalMoves, Shut
      <3> QED  BY <3>1, <3>2
    <2> QED  BY <2>1, <2>2, Unopened
  <1>9. CASE \E c \in Call : \/ ApproveRead(c) \/ RejectRead(c) \/ ApplyStep(c)
                             \/ Refuse(c) \/ Die(c)
    <2>1. UNCHANGED <<run, job, fresh, reopened, beside>>
      BY <1>9 DEF ApproveRead, RejectRead, Read, ApplyStep, Refuse, Die
    <2>2. \A s \in Run : IsOpen(s)' = IsOpen(s)
      BY <2>1 DEF IsOpen
    <2> QED  BY <2>1, <2>2, Unopened
  <1> QED
    BY <1>1, <1>2, <1>3, <1>4, <1>5, <1>6, <1>7, <1>8, <1>9, StepCases

----------------------------------------------------------------------------
\* Decisions that overlap.

LEMMA ExcuseEffect ==
    ASSUME TypeOK, NEW r \in Run, NEW b \in BOOLEAN, Excuse(r, b)
    PROVE  /\ excused'[r] = (excused[r] \/ b) /\ \A s \in Run \ {r} : excused'[s] = excused[s]
           /\ b => taken'[r] = {}
           /\ ~b => taken'[r] = taken[r]
           /\ \A s \in Run \ {r} : taken'[s] = taken[s]
  <1>1. excused'[r] = (excused[r] \/ b) /\ \A s \in Run \ {r} : excused'[s] = excused[s]
    BY DEF Excuse, TypeOK
  <1>2. /\ b => taken'[r] = {}
        /\ ~b => taken'[r] = taken[r]
        /\ \A s \in Run \ {r} : taken'[s] = taken[s]
    BY DEF Excuse, TypeOK
  <1> QED  BY <1>1, <1>2

LEMMA ExcuseKeeps ==
    ASSUME TypeOK, OneCall, NEW r \in Run, NEW b \in BOOLEAN, Excuse(r, b)
    PROVE  /\ \A s \in Run : excused[s] => excused'[s]
           /\ \A s \in Run : excused'[s] => taken'[s] = {}
           /\ b => excused'[r]
  <1>1. /\ excused'[r] = (excused[r] \/ b) /\ \A s \in Run \ {r} : excused'[s] = excused[s]
        /\ b => taken'[r] = {}
        /\ ~b => taken'[r] = taken[r]
        /\ \A s \in Run \ {r} : taken'[s] = taken[s]
    BY ExcuseEffect
  <1>2. \A s \in Run : excused[s] => taken[s] = {}
    BY DEF OneCall
  <1>3. CASE b
    BY <1>1, <1>2, <1>3, Zenon
  <1>4. CASE ~b
    BY <1>1, <1>2, <1>4, Zenon
  <1> QED  BY <1>3, <1>4

LEMMA TakeEffect ==
    ASSUME TypeOK, NEW r \in Run, NEW a \in Action, Take(r, a)
    PROVE  /\ excused[r] => taken'[r] = {}
           /\ ~excused[r] => taken'[r] = taken[r] \cup {a}
           /\ again'[r] = again[r] \cup ({a} \cap taken[r])
           /\ \A s \in Run \ {r} : taken'[s] = taken[s] /\ again'[s] = again[s]
  BY DEF Take, TypeOK

\* applyGated of one action: it took effect, or it failed.
Applied(c, a) ==
    /\ call[c].pc = "applying" /\ a \in call[c].todo /\ a \in Action
    /\ Becomes(c, "applying", call[c].read, call[c].todo \ {a})
    /\ Take(call[c].run, a) \/ UNCHANGED <<taken, again>>
    /\ UNCHANGED <<sent, job, excused>>

LEMMA AppliedCases ==
    ASSUME TypeOK, NEW c \in Call, ApplyStep(c) \/ ApplyDraft(c)
    PROVE  \E a \in Action : Applied(c, a)
  <1>1. CASE ApplyStep(c)
    <2>1. Becomes(c, "applying", call[c].read, call[c].todo \ {"step"})
      BY <1>1, ApplyMoves DEF ApplyStep
    <2> QED  BY <1>1, <2>1 DEF ApplyStep, Applied, Action
  <1>2. CASE ApplyDraft(c)
    <2>1. Becomes(c, "applying", call[c].read, call[c].todo \ {"draft"})
      BY <1>2, ApplyMoves DEF ApplyDraft
    <2> QED  BY <1>2, <2>1 DEF ApplyDraft, Applied, Action
  <1> QED  BY <1>1, <1>2

\* Refuse and Die: the call is over, and half-way it excuses its run.
LEMMA LeftEffect ==
    ASSUME TypeOK, NEW c \in Call, Refuse(c) \/ Die(c)
    PROVE  /\ Becomes(c, "over", {}, {}) /\ Applies(c)
           /\ Excuse(call[c].run, call[c].todo # call[c].read)
           /\ UNCHANGED <<run, job, sent, message, fresh, again, reopened, beside>>
  BY EndMoves DEF Refuse, Die, LeftHalfWay, Applies

LEMMA OneCallStep ==
    ASSUME TypeOK, OneCall, Next
    PROVE  OneCall'
  <1> USE DEF apiVars
  <1>1. ASSUME UNCHANGED <<excused, taken, call>>
        PROVE  OneCall'
    BY <1>1 DEF OneCall, InCall
  <1>2. CASE \E r \in Run : \/ CheckOpen(r) \/ OpenRun(r) \/ RunAgent(r) \/ HearAnswer(r)
                            \/ ReportClosed(r) \/ Stop(r) \/ RecordDecision(r)
                            \/ WindowPasses(r) \/ RejectMessage(r) \/ RequestSend(r)
    BY <1>1, <1>2 DEF CheckOpen, OpenRun, RunAgent, HearAnswer, ReportClosed, Stop, RecordDecision,
                 WindowPasses, RejectMessage, RequestSend
  \* A call that goes on or ends takes part in no new overlap.
  <1>3. ASSUME NEW c \in Call, NEW pc, NEW read, NEW todo, Becomes(c, pc, read, todo),
               InCall(c), \A r \in Run : excused[r] => excused'[r],
               \A r \in Run : excused'[r] => taken'[r] = {}
        PROVE  OneCall'
    <2>1. \A d \in Call : call'[d].run = call[d].run /\ (InCall(d)' => InCall(d))
      BY <1>3 DEF Becomes, InCall
    <2>2. \A d \in Call : call[d].run \in Run
      BY CallFields
    <2> QED  BY <1>3, <2>1, <2>2, Zenon DEF OneCall
  <1>4. CASE \E c \in Call : ApplyStep(c) \/ ApplyDraft(c)
    <2> PICK c \in Call, a \in Action : Applied(c, a)
      BY <1>4, AppliedCases
    <2>1. InCall(c) /\ call[c].run \in Run /\ excused' = excused
      BY CallFields DEF Applied, InCall
    <2>2. \A r \in Run : excused'[r] => taken'[r] = {}
      BY <2>1, TakeEffect DEF Applied, OneCall
    <2> QED  BY <2>1, <2>2, <1>3 DEF Applied
  <1>5. CASE \E c \in Call : Refuse(c) \/ Die(c)
    <2> PICK c \in Call : Refuse(c) \/ Die(c)
      BY <1>5
    <2>1. InCall(c) /\ call[c].run \in Run
      BY CallFields, LeftEffect DEF Applies, InCall
    <2>2. \A r \in Run : /\ excused[r] => excused'[r]
                         /\ excused'[r] => taken'[r] = {}
      <3>1. Excuse(call[c].run, call[c].todo # call[c].read)
        BY LeftEffect
      <3> QED  BY <2>1, <3>1, ExcuseKeeps
    <2> QED  BY <2>1, <2>2, <1>3, LeftEffect
  <1>6. CASE \E c \in Call : WriteOutcomes(c) \/ Complete(c) \/ RejectWrite(c)
    <2> PICK c \in Call : WriteOutcomes(c) \/ Complete(c) \/ RejectWrite(c)
      BY <1>6
    <2>1. InCall(c) /\ UNCHANGED <<excused, taken>>
      BY DEF WriteOutcomes, Complete, RejectWrite, InCall
    <2>2. \E pc, read, todo : Becomes(c, pc, read, todo)
      BY OutcomesMove, EndMoves DEF Complete, RejectWrite
    <2> QED  BY <2>1, <2>2, <1>3 DEF OneCall
  <1>7. CASE \E c \in Call : ApproveRead(c) \/ RejectRead(c)
    <2> PICK c \in Call, pc \in {"applying", "rejecting"} : Read(c, pc)
      BY <1>7 DEF ApproveRead, RejectRead
    <2> DEFINE r == call[c].run
    <2>0. r \in Run /\ \A d \in Call : call[d].run \in Run
      BY CallFields
    <2>1. Becomes(c, pc, run[r].pending, run[r].pending)
      BY ReadMoves, CallPoints
    <2>2. /\ \A s \in Run : excused[s] => excused'[s]
          /\ \A s \in Run : excused'[s] => taken'[s] = {}
          /\ InFlight(r) # {} => excused'[r]
      <3>1. Excuse(r, InFlight(r) # {})
        BY DEF Read
      <3> HIDE DEF r
      <3> QED  BY <2>0, <3>1, ExcuseKeeps
    <2>3. \A d \in Call : call'[d].run = call[d].run /\ (d # c => (InCall(d)' <=> InCall(d)))
      BY <2>1 DEF Becomes, InCall
    <2>4. \A d \in Call : InCall(d) /\ call[d].run = r => excused'[r]
      BY <2>2 DEF InFlight, InCall
    <2> HIDE DEF r
    <2>5. \A d, e \in Call : d # e /\ InCall(d)' /\ InCall(e)' /\ call[d].run = call[e].run
                              => excused'[call[d].run]
      <3> TAKE d, e \in Call
      <3>1. CASE d = c \/ e = c
        BY <3>1, <2>3, <2>4 DEF r
      <3>2. CASE d # c /\ e # c
        BY <3>2, <2>0, <2>2, <2>3 DEF OneCall
      <3> QED  BY <3>1, <3>2
    <2> QED  BY <2>2, <2>3, <2>5 DEF OneCall
  <1> QED
    BY <1>2, <1>4, <1>5, <1>6, <1>7, StepCases

----------------------------------------------------------------------------
\* A decision is recorded at most once.

LEMMA Progress ==
    ASSUME TypeOK, Next, NEW r \in Run
    PROVE  /\ Reported(r) => Reported(r)'
           /\ sent'[r] => (sent[r] \/ Reported(r)')
           /\ Recorded(r) => Recorded(r)'
  <1> USE DEF apiVars
  <1>1. ASSUME NEW s \in Run, CheckOpen(s) \/ OpenRun(s) \/ RunAgent(s)
        PROVE  /\ job[s] \in {"idle", "checked", "running"}
               /\ \A q \in Run \ {s} : job'[q] = job[q] /\ sent'[q] = sent[q]
               /\ sent'[s] => sent[s] \/ job'[s] = "reporting"
    BY <1>1 DEF CheckOpen, OpenRun, RunAgent, TypeOK
  <1>2. ASSUME NEW s \in Run, HearAnswer(s) \/ Stop(s) \/ ReportClosed(s)
        PROVE  /\ job'[s] \in {"done", "lost", "failing"}
               /\ \A q \in Run \ {s} : job'[q] = job[q]
               /\ sent' = sent
    BY <1>2 DEF HearAnswer, Stop, ReportClosed, AfterError, TypeOK
  <1>3. ASSUME NEW s \in Run, RecordDecision(s)
        PROVE  /\ job' = job /\ ~sent'[s]
               /\ \A q \in Run \ {s} : sent'[q] = sent[q]
    BY <1>3 DEF RecordDecision, TypeOK
  <1>4. CASE \E s \in Run : CheckOpen(s) \/ OpenRun(s) \/ RunAgent(s)
    BY <1>4, <1>1 DEF Reported, Recorded
  <1>5. CASE \E s \in Run : HearAnswer(s) \/ Stop(s) \/ ReportClosed(s)
    BY <1>5, <1>2 DEF Reported, Recorded
  <1>6. CASE \E s \in Run : RecordDecision(s)
    BY <1>6, <1>3 DEF Reported, Recorded
  <1>7. CASE UNCHANGED <<job, sent>>
    BY <1>7 DEF Reported, Recorded
  <1>8. ASSUME NEW s \in Run, WindowPasses(s) \/ RejectMessage(s) \/ RequestSend(s)
        PROVE  UNCHANGED <<job, sent>>
    BY <1>8 DEF WindowPasses, RejectMessage, RequestSend
  <1>9. ASSUME NEW c \in Call, CallStep(c)
        PROVE  UNCHANGED <<job, sent>>
    BY <1>9 DEF CallStep, ApproveRead, RejectRead, Read, ApplyStep, ApplyDraft, Refuse,
                WriteOutcomes, Complete, RejectWrite, Die
  <1> QED
    BY <1>4, <1>5, <1>6, <1>7, <1>8, <1>9 DEF Next, JobStep

\* A step after which whatever is gated, read or taken was so before, or
\* belongs to a recorded run.
LEMMA StillRecorded ==
    ASSUME TypeOK, ReportedOnce, Next,
           \A r \in Run : run'[r].pending # {} => run[r].pending # {} \/ Recorded(r)',
           \A r \in Run : taken'[r] # {} => taken[r] # {} \/ Recorded(r),
           \A c \in Call : call'[c].run = call[c].run,
           \A c \in Call : call'[c].read # {} => call[c].read # {} \/ Recorded(call[c].run)
    PROVE  ReportedOnce'
  <1>1. \A r \in Run : sent'[r] => Reported(r)'
    BY Progress DEF ReportedOnce
  <1>2. \A r \in Run : Recorded(r) => Recorded(r)'
    BY Progress
  <1>3. \A r \in Run : taken'[r] # {} \/ run'[r].pending # {} => Recorded(r)'
    BY <1>2 DEF ReportedOnce
  <1>4. \A c \in Call : call'[c].read # {} => Recorded(call[c].run)'
    <2> SUFFICES ASSUME NEW c \in Call, call'[c].read # {}
                 PROVE  Recorded(call[c].run)'
      OBVIOUS
    <2>1. call[c].run \in Run /\ Recorded(call[c].run)
      BY CallFields DEF ReportedOnce
    <2>2. \A r \in Run : r = call[c].run => Recorded(r)'
      BY <2>1, <1>2
    <2> QED  BY <2>1, <2>2 DEF Recorded, Reported
  <1> QED  BY <1>1, <1>3, <1>4 DEF ReportedOnce

LEMMA ReportedStep ==
    ASSUME TypeOK, ReportedOnce, TakenIsNotAsked, Next
    PROVE  ReportedOnce'
  <1> USE DEF apiVars
  <1>0. \A c \in Call : call[c].run \in Run
    BY CallFields
  <1>1. CASE \E r \in Run : \/ CheckOpen(r) \/ OpenRun(r) \/ RunAgent(r) \/ HearAnswer(r)
                            \/ ReportClosed(r) \/ Stop(r) \/ WindowPasses(r)
                            \/ RejectMessage(r) \/ RequestSend(r)
    <2>1. UNCHANGED <<taken, call>>
      BY <1>1 DEF CheckOpen, OpenRun, RunAgent, HearAnswer, ReportClosed, Stop, WindowPasses,
                  RejectMessage, RequestSend
    <2>2. \A r \in Run : run'[r].pending # {} => run[r].pending # {}
      <3>1. CASE \E r \in Run : OpenRun(r)
        BY <3>1, OpenMoves DEF RunBecomes
      <3>2. CASE \E r \in Run : ReportClosed(r)
        BY <3>2, CloseMoves DEF RunBecomes
      <3>3. CASE \E r \in Run : RequestSend(r)
        BY <3>3, SubmitMoves DEF RunBecomes
      <3>4. CASE run' = run
        BY <3>4
      <3> QED
        BY <1>1, <3>1, <3>2, <3>3, <3>4
           DEF CheckOpen, RunAgent, HearAnswer, Stop, WindowPasses, RejectMessage
    <2> QED  BY <2>1, <2>2, StillRecorded
  <1>2. CASE \E r \in Run : RecordDecision(r)
    <2> PICK r \in Run : RecordDecision(r)
      BY <1>2
    <2>1. UNCHANGED <<job, taken, call>> /\ sent[r] /\ ~sent'[r]
      BY DEF RecordDecision, TypeOK
    <2>2. Recorded(r)' /\ \A s \in Run \ {r} : run'[s] = run[s]
      BY <2>1, RecordMoves DEF RunBecomes, Recorded, Reported, ReportedOnce
    <2> QED  BY <2>1, <2>2, StillRecorded
  <1>3. CASE \E c \in Call : ApproveRead(c) \/ RejectRead(c)
    <2> PICK c \in Call, pc \in {"applying", "rejecting"} : Read(c, pc)
      BY <1>3 DEF ApproveRead, RejectRead
    <2> DEFINE r == call[c].run
    <2>1. Becomes(c, pc, run[r].pending, run[r].pending)
      BY ReadMoves, CallPoints
    <2>2. Excuse(r, InFlight(r) # {}) /\ run' = run
      BY DEF Read
    <2>3. \A s \in Run : taken'[s] # {} => taken[s] # {}
      <3> HIDE DEF r
      <3> QED  BY <1>0, <2>2, ExcuseEffect DEF r
    <2>4. /\ \A d \in Call : call'[d].run = call[d].run
          /\ \A d \in Call : call'[d].read # {} => call[d].read # {} \/ Recorded(call[d].run)
      BY <1>0, <2>1 DEF Becomes, ReportedOnce
    <2> QED  BY <2>2, <2>3, <2>4, StillRecorded
  <1>4. CASE \E c \in Call : ApplyStep(c) \/ ApplyDraft(c)
    <2> PICK c \in Call : ApplyStep(c) \/ ApplyDraft(c)
      BY <1>4
    <2> PICK a \in Action : Applied(c, a)
      BY AppliedCases
    <2>1. Recorded(call[c].run)
      BY DEF Applied, TakenIsNotAsked, ReportedOnce
    <2>2. \A s \in Run : taken'[s] # {} => taken[s] # {} \/ Recorded(s)
      BY <1>0, <2>1, TakeEffect DEF Applied
    <2>3. \A s \in Run : run'[s].pending = run[s].pending
      BY <1>0, DraftMoves DEF ApplyStep, RunBecomes
    <2>4. \A d \in Call : call'[d].run = call[d].run /\ call'[d].read = call[d].read
      BY DEF Applied, Becomes
    <2> QED  BY <2>2, <2>3, <2>4, StillRecorded
  <1>5. CASE \E c \in Call : Refuse(c) \/ Die(c)
    <2> PICK c \in Call : Refuse(c) \/ Die(c)
      BY <1>5
    <2>1. \A s \in Run : taken'[s] # {} => taken[s] # {}
      <3>1. Excuse(call[c].run, call[c].todo # call[c].read)
        BY LeftEffect
      <3> QED  BY <1>0, <3>1, ExcuseEffect
    <2>2. run' = run /\ Becomes(c, "over", {}, {})
      BY LeftEffect
    <2> QED  BY <2>1, <2>2, StillRecorded DEF Becomes
  <1>6. CASE \E c \in Call : WriteOutcomes(c) \/ Complete(c) \/ RejectWrite(c)
    <2> PICK c \in Call : WriteOutcomes(c) \/ Complete(c) \/ RejectWrite(c)
      BY <1>6
    <2>1. taken' = taken
      BY DEF WriteOutcomes, Complete, RejectWrite
    <2>2. /\ \A d \in Call : call'[d].run = call[d].run
          /\ \A d \in Call : call'[d].read # {} => call[d].read # {}
      BY OutcomesMove, EndMoves DEF Complete, RejectWrite, Becomes
    <2>3. \A s \in Run : run'[s].pending # {} => run[s].pending # {} \/ Recorded(s)
      BY <1>0, ApprovalMoves DEF RunBecomes, ReportedOnce
    <2>4. \A s \in Run : Recorded(s) => Recorded(s)'
      BY Progress
    <2> QED  BY <2>1, <2>2, <2>3, <2>4, StillRecorded
  <1> QED
    BY <1>1, <1>2, <1>3, <1>4, <1>5, <1>6, StepCases

----------------------------------------------------------------------------
\* Gated actions take effect once.

LEMMA ExcusedStays ==
    ASSUME TypeOK, OneCall, Next, NEW r \in Run, excused[r]
    PROVE  excused'[r]
  <1> USE DEF apiVars
  <1>1. CASE \E c \in Call : ApproveRead(c) \/ RejectRead(c)
    <2> PICK c \in Call : Excuse(call[c].run, InFlight(call[c].run) # {})
      BY <1>1 DEF ApproveRead, RejectRead, Read
    <2> QED  BY CallFields, ExcuseKeeps
  <1>2. CASE \E c \in Call : Refuse(c) \/ Die(c)
    <2> PICK c \in Call : Excuse(call[c].run, call[c].todo # call[c].read)
      BY <1>2, LeftEffect
    <2> QED  BY CallFields, ExcuseKeeps
  <1>3. CASE excused' = excused
    BY <1>3
  <1>4. \/ excused' = excused
        \/ \E c \in Call : ApproveRead(c) \/ RejectRead(c) \/ Refuse(c) \/ Die(c)
    BY StepCases DEF CheckOpen, OpenRun, RunAgent, HearAnswer, ReportClosed, Stop, RecordDecision,
          WindowPasses, RejectMessage, RequestSend, ApplyStep, ApplyDraft, WriteOutcomes,
          Complete, RejectWrite
  <1> QED  BY <1>1, <1>2, <1>3, <1>4

\* While c goes on, nothing is kept about its run if another call is about it.
LEMMA Alone ==
    ASSUME TypeOK, OneCall, OneCall', Next,
           NEW c \in Call, NEW pc, NEW read, NEW todo, Becomes(c, pc, read, todo),
           InCall(c) \/ InCall(c)',
           NEW d \in Call, d # c, call[d].run = call[c].run, InCall(d)
    PROVE  excused'[call[c].run] /\ taken'[call[c].run] = {}
  <1>1. call[c].run \in Run /\ call'[c].run = call[c].run /\ call'[d] = call[d]
    BY CallFields DEF Becomes
  <1>2. excused'[call[c].run]
    <2>1. CASE InCall(c)
      BY <1>1, <2>1, ExcusedStays DEF OneCall
    <2>2. CASE InCall(c)'
      BY <1>1, <2>2 DEF OneCall, InCall
    <2> QED  BY <2>1, <2>2
  <1> QED  BY <1>1, <1>2 DEF OneCall

LEMMA StillNotAsked ==
    ASSUME TakenIsNotAsked, TypeOK, UNCHANGED <<call, taken>>,
           \A r \in Run : taken[r] \cap run'[r].pending \subseteq run[r].pending
    PROVE  TakenIsNotAsked'
  <1>0. \A c \in Call : call[c].run \in Run
    BY CallFields
  <1> QED  BY <1>0 DEF TakenIsNotAsked

\* A step of one call: what it must leave true of its own run.
LEMMA CallNotAsked ==
    ASSUME TypeOK, TakenIsNotAsked, OneCall, OneCall', Next,
           NEW c \in Call, NEW pc, NEW read, NEW todo, Becomes(c, pc, read, todo),
           InCall(c) \/ InCall(c)',
           NEW r, r = call[c].run,
           \A s \in Run \ {r} : taken'[s] = taken[s] /\ run'[s].pending = run[s].pending,
           pc = "applying" => /\ todo \subseteq read
                              /\ taken'[r] \cap todo = {}
                              /\ taken'[r] \cap run'[r].pending \subseteq read \ todo,
           pc = "completing" => todo = {},
           pc = "rejecting" => taken'[r] \cap read = {},
           taken'[r] \cap run'[r].pending # {} => pc = "applying"
    PROVE  TakenIsNotAsked'
  <1>0. \A d \in Call : call[d].run \in Run /\ call'[d].run = call[d].run
    BY CallFields DEF Becomes
  <1>1. /\ call'[c].pc = pc /\ call'[c].read = read /\ call'[c].todo = todo
        /\ \A d \in Call \ {c} : call'[d] = call[d]
    BY DEF Becomes
  <1>2. \A d \in Call \ {c} : call[d].run = r /\ InCall(d) => taken'[r] = {}
    BY Alone
  <1>3. ASSUME NEW d \in Call, call'[d].pc = "applying"
        PROVE  /\ call'[d].todo \subseteq call'[d].read
               /\ taken'[call'[d].run] \cap call'[d].todo = {}
               /\ taken'[call'[d].run] \cap run'[call'[d].run].pending \subseteq call'[d].read \ call'[d].todo
    <2>1. CASE d = c
      BY <2>1, <1>3, <1>0, <1>1
    <2>2. CASE d # c /\ call[d].run = r
      <3>1. taken'[r] = {} /\ call[d].todo \subseteq call[d].read
        BY <2>2, <1>3, <1>1, <1>2 DEF InCall, TakenIsNotAsked
      <3> QED  BY <2>2, <3>1, <1>0, <1>1
    <2>3. CASE d # c /\ call[d].run # r
      BY <2>3, <1>3, <1>0, <1>1 DEF TakenIsNotAsked
    <2> QED  BY <2>1, <2>2, <2>3
  <1>4. ASSUME NEW d \in Call, call'[d].pc = "completing"
        PROVE  call'[d].todo = {}
    BY <1>4, <1>1 DEF TakenIsNotAsked
  <1>5. ASSUME NEW d \in Call, call'[d].pc = "rejecting"
        PROVE  taken'[call'[d].run] \cap call'[d].read = {}
    <2>1. CASE d = c
      BY <2>1, <1>5, <1>0, <1>1
    <2>2. CASE d # c /\ call[d].run = r
      BY <2>2, <1>5, <1>0, <1>1, <1>2 DEF InCall
    <2>3. CASE d # c /\ call[d].run # r
      BY <2>3, <1>5, <1>0, <1>1 DEF TakenIsNotAsked
    <2> QED  BY <2>1, <2>2, <2>3
  <1>6. ASSUME NEW s \in Run, taken'[s] \cap run'[s].pending # {}
        PROVE  \E d \in Call : call'[d].run = s /\ call'[d].pc = "applying"
    <2>1. CASE s = r
      BY <2>1, <1>6, <1>0, <1>1
    <2>2. CASE s # r
      <3> PICK d \in Call : call[d].run = s /\ call[d].pc = "applying"
        BY <2>2, <1>6 DEF TakenIsNotAsked
      <3> QED  BY <2>2, <1>0, <1>1
    <2> QED  BY <2>1, <2>2
  <1> QED  BY <1>3, <1>4, <1>5, <1>6 DEF TakenIsNotAsked

\* While no approval is on the way to r, nothing taken waits; and the one call
\* about a run that is not excused sees all there is.
LEMMA NothingTakenWaits ==
    ASSUME TypeOK, TakenIsNotAsked, OneCall, NEW c \in Call, InCall(c), call[c].pc # "applying"
    PROVE  taken[call[c].run] \cap run[call[c].run].pending = {}
  <1> SUFFICES ASSUME taken[call[c].run] \cap run[call[c].run].pending # {}
               PROVE  FALSE
    OBVIOUS
  <1>1. call[c].run \in Run
    BY CallFields
  <1> PICK d \in Call : call[d].run = call[c].run /\ call[d].pc = "applying"
    BY <1>1 DEF TakenIsNotAsked
  <1>2. taken[call[c].run] = {}
    BY <1>1 DEF OneCall, InCall
  <1> QED  BY <1>2

LEMMA NotAskedStep ==
    ASSUME TypeOK, ReportedOnce, TakenIsNotAsked, OneCall, OneCall', Next
    PROVE  TakenIsNotAsked'
  <1> USE DEF apiVars
  <1>0. \A c \in Call : call[c].run \in Run
    BY CallFields
  <1>1. CASE \E r \in Run : \/ CheckOpen(r) \/ OpenRun(r) \/ RunAgent(r) \/ HearAnswer(r)
                            \/ ReportClosed(r) \/ Stop(r) \/ WindowPasses(r)
                            \/ RejectMessage(r) \/ RequestSend(r)
    <2>1. UNCHANGED <<taken, call>>
      BY <1>1 DEF CheckOpen, OpenRun, RunAgent, HearAnswer, ReportClosed, Stop, WindowPasses,
                  RejectMessage, RequestSend
    <2>2. \A r \in Run : taken[r] \cap run'[r].pending \subseteq run[r].pending
      <3>1. CASE \E r \in Run : OpenRun(r)
        BY <3>1, OpenMoves DEF RunBecomes
      <3>2. CASE \E r \in Run : ReportClosed(r)
        BY <3>2, CloseMoves DEF RunBecomes
      <3>3. CASE \E r \in Run : RequestSend(r)
        BY <3>3, SubmitMoves DEF RunBecomes
      <3>4. CASE run' = run
        BY <3>4
      <3> QED
        BY <1>1, <3>1, <3>2, <3>3, <3>4
           DEF CheckOpen, RunAgent, HearAnswer, Stop, WindowPasses, RejectMessage
    <2> QED  BY <2>1, <2>2, StillNotAsked
  <1>2. CASE \E r \in Run : RecordDecision(r)
    <2> PICK r \in Run : RecordDecision(r)
      BY <1>2
    <2>1. UNCHANGED <<taken, call>> /\ taken[r] = {}
      BY DEF RecordDecision, ReportedOnce, Recorded
    <2>2. \A s \in Run \ {r} : run'[s] = run[s]
      BY RecordMoves DEF RunBecomes
    <2> QED  BY <2>1, <2>2, StillNotAsked
  <1>3. CASE \E c \in Call : ApproveRead(c) \/ RejectRead(c)
    <2> PICK c \in Call, pc \in {"applying", "rejecting"} : Read(c, pc)
      BY <1>3 DEF ApproveRead, RejectRead
    <2> DEFINE r == call[c].run
               p == run[r].pending
    <2>1. Becomes(c, pc, p, p)
      BY ReadMoves, CallPoints
    <2>2. Excuse(r, InFlight(r) # {}) /\ run' = run
      BY DEF Read
    <2>3. r \in Run /\ InCall(c)'
      BY <1>0, <2>1 DEF Becomes, InCall
    <2> HIDE DEF r
    <2>4. /\ \A s \in Run \ {r} : taken'[s] = taken[s]
          /\ InFlight(r) # {} => taken'[r] = {}
          /\ InFlight(r) = {} => taken'[r] = taken[r]
      BY <2>2, <2>3, ExcuseEffect
    <2>5. taken'[r] \cap p = {}
      <3>1. CASE InFlight(r) = {}
        BY <2>3, <2>4, <3>1 DEF InFlight, TakenIsNotAsked
      <3> QED  BY <2>4, <3>1
    <2> HIDE DEF p
    <2>6. run'[r].pending = p
      BY <2>2 DEF p
    <2> QED  BY <2>1, <2>2, <2>3, <2>4, <2>5, <2>6, CallNotAsked DEF r
  <1>4. CASE \E c \in Call : ApplyStep(c) \/ ApplyDraft(c)
    <2> PICK c \in Call : ApplyStep(c) \/ ApplyDraft(c)
      BY <1>4
    <2> PICK a \in Action : Applied(c, a)
      BY AppliedCases
    <2> DEFINE r == call[c].run
    <2>0. r \in Run
      BY <1>0
    <2>1. \A s \in Run : run'[s].pending = run[s].pending
      BY <1>0, DraftMoves DEF ApplyStep, RunBecomes
    <2>2. /\ taken'[r] \subseteq taken[r] \cup {a}
          /\ \A s \in Run \ {r} : taken'[s] = taken[s]
      BY <2>0, TakeEffect DEF Applied
    <2>3. /\ call[c].todo \subseteq call[c].read /\ a \in call[c].todo
          /\ taken[r] \cap call[c].todo = {}
          /\ taken[r] \cap run[r].pending \subseteq call[c].read \ call[c].todo
      BY DEF Applied, TakenIsNotAsked
    <2>4. InCall(c) /\ Becomes(c, "applying", call[c].read, call[c].todo \ {a})
      BY DEF Applied, InCall
    <2> HIDE DEF r
    <2>5. /\ call[c].todo \ {a} \subseteq call[c].read
          /\ taken'[r] \cap (call[c].todo \ {a}) = {}
          /\ taken'[r] \cap run'[r].pending \subseteq call[c].read \ (call[c].todo \ {a})
      BY <2>0, <2>1, <2>2, <2>3
    <2> QED  BY <2>1, <2>2, <2>4, <2>5, CallNotAsked DEF r
  <1>5. CASE \E c \in Call : Refuse(c) \/ Die(c)
    <2> PICK c \in Call : Refuse(c) \/ Die(c)
      BY <1>5
    <2> DEFINE r == call[c].run
    <2>1. /\ run' = run /\ Becomes(c, "over", {}, {}) /\ Applies(c) /\ InCall(c)
          /\ Excuse(r, call[c].todo # call[c].read)
      BY LeftEffect DEF Applies, InCall
    <2>2. r \in Run
      BY <1>0
    <2> HIDE DEF r
    <2>3. /\ \A s \in Run \ {r} : taken'[s] = taken[s]
          /\ call[c].todo # call[c].read => taken'[r] = {}
          /\ call[c].todo = call[c].read => taken'[r] = taken[r]
      BY <2>1, <2>2, ExcuseEffect
    <2>4. call[c].todo = call[c].read => taken[r] \cap run[r].pending = {}
      <3>1. CASE call[c].pc = "applying"
        BY <3>1 DEF r, TakenIsNotAsked
      <3>2. CASE call[c].pc # "applying"
        BY <2>1, <3>2, NothingTakenWaits DEF r
      <3> QED  BY <3>1, <3>2
    <2>5. taken'[r] \cap run'[r].pending = {}
      BY <2>1, <2>3, <2>4
    <2> QED  BY <2>1, <2>3, <2>5, CallNotAsked DEF r
  <1>6. CASE \E c \in Call : WriteOutcomes(c) \/ Complete(c) \/ RejectWrite(c)
    <2> PICK c \in Call : WriteOutcomes(c) \/ Complete(c) \/ RejectWrite(c)
      BY <1>6
    <2> DEFINE r == call[c].run
    <2>0. r \in Run /\ taken' = taken /\ InCall(c)
      BY <1>0 DEF WriteOutcomes, Complete, RejectWrite, InCall
    <2>1. CASE WriteOutcomes(c)
      <3>1. /\ Becomes(c, "completing", call[c].read, {})
            /\ RunBecomes(r, run[r].status, {})
        BY <2>1, OutcomesMove, ApprovalMoves
      <3> HIDE DEF r
      <3>2. /\ run'[r].pending = {}
            /\ \A s \in Run \ {r} : taken'[s] = taken[s] /\ run'[s].pending = run[s].pending
        BY <2>0, <3>1 DEF RunBecomes
      <3> QED  BY <2>0, <3>1, <3>2, CallNotAsked DEF r
    <2>2. CASE Complete(c)
      <3>1. /\ Becomes(c, "over", {}, {})
            /\ RunBecomes(r, "completed", run[r].pending)
        BY <2>2, EndMoves, ApprovalMoves DEF Complete
      <3>2. taken[r] \cap run[r].pending = {}
        BY <2>0, <2>2, NothingTakenWaits DEF Complete
      <3> HIDE DEF r
      <3>3. /\ taken'[r] \cap run'[r].pending = {}
            /\ \A s \in Run \ {r} : taken'[s] = taken[s] /\ run'[s].pending = run[s].pending
        BY <2>0, <3>1, <3>2 DEF RunBecomes
      <3> QED  BY <2>0, <3>1, <3>3, CallNotAsked DEF r
    <2>3. CASE RejectWrite(c)
      <3>1. /\ Becomes(c, "over", {}, {})
            /\ RunBecomes(r, "cancelled", call[c].read)
        BY <2>3, EndMoves, ApprovalMoves DEF RejectWrite
      <3>2. taken[r] \cap call[c].read = {}
        BY <2>3 DEF RejectWrite, TakenIsNotAsked
      <3> HIDE DEF r
      <3>3. /\ taken'[r] \cap run'[r].pending = {}
            /\ \A s \in Run \ {r} : taken'[s] = taken[s] /\ run'[s].pending = run[s].pending
        BY <2>0, <3>1, <3>2 DEF RunBecomes
      <3> QED  BY <2>0, <3>1, <3>3, CallNotAsked DEF r
    <2> QED  BY <2>1, <2>2, <2>3
  <1> QED
    BY <1>1, <1>2, <1>3, <1>4, <1>5, <1>6, StepCases

\* What an approval tries has not been taken.
LEMMA OnceStep ==
    ASSUME TypeOK, TakenIsNotAsked, AppliedOnce, Next
    PROVE  AppliedOnce'
  <1> USE DEF apiVars
  <1>1. CASE \E c \in Call : ApplyStep(c) \/ ApplyDraft(c)
    <2> PICK c \in Call : ApplyStep(c) \/ ApplyDraft(c)
      BY <1>1
    <2> PICK a \in Action : Applied(c, a)
      BY AppliedCases
    <2>1. call[c].run \in Run /\ {a} \cap taken[call[c].run] = {}
      BY CallFields DEF Applied, TakenIsNotAsked
    <2> QED  BY <2>1, TakeEffect DEF Applied, AppliedOnce
  <1>2. CASE again' = again
    BY <1>2 DEF AppliedOnce
  <1> QED
    BY <1>1, <1>2, StepCases
       DEF CheckOpen, OpenRun, RunAgent, HearAnswer, ReportClosed, Stop, RecordDecision,
           WindowPasses, RejectMessage, RequestSend, ApproveRead, RejectRead, Read, Refuse,
           WriteOutcomes, Complete, RejectWrite, Die

----------------------------------------------------------------------------
\* A rejection leaves nothing behind.

LEMMA StillClosed ==
    ASSUME TypeOK, TakenIsClosed, RejectedIsUntouched, ReportedOnce, TakenIsNotAsked,
           UNCHANGED <<call, taken, excused>>,
           \A r \in Run : reopened[r] => reopened'[r],
           \A r \in Run : taken[r] # {} /\ IsOpen(r)' => IsOpen(r) \/ reopened'[r],
           \A r \in Run : run'[r].status = "cancelled" => run[r].status = "cancelled" \/ ~Recorded(r)
    PROVE  TakenIsClosed' /\ RejectedIsUntouched'
  <1>0. \A c \in Call : call[c].run \in Run
    BY CallFields
  <1>1. \A r \in Run : taken[r] # {} /\ IsOpen(r)'
                        => reopened'[r] \/ \E c \in Call : call[c].run = r /\ Applies(c)
    BY Zenon DEF TakenIsClosed
  <1>2. \A c \in Call : Untried(c) /\ taken[call[c].run] # {} => reopened'[call[c].run]
    BY <1>0 DEF TakenIsClosed
  <1>3. \A c \in Call : call[c].pc = "applying" /\ call[c].todo # {}
                        => excused[call[c].run] \/ run'[call[c].run].status # "cancelled"
    BY <1>0 DEF TakenIsClosed, ReportedOnce, TakenIsNotAsked
  <1>4. \A r \in Run : run'[r].status = "cancelled" /\ taken[r] # {} => reopened'[r]
    BY DEF RejectedIsUntouched, ReportedOnce
  <1>5. TakenIsClosed'
    BY <1>1, <1>2, <1>3 DEF TakenIsClosed, Untried, Applies
  <1> QED  BY <1>4, <1>5 DEF RejectedIsUntouched

\* A step of one call: what it must leave true of its own run.
LEMMA CallClosed ==
    ASSUME TypeOK, TakenIsClosed, RejectedIsUntouched, OneCall, OneCall', Next,
           NEW c \in Call, NEW pc, NEW read, NEW todo, Becomes(c, pc, read, todo),
           InCall(c) \/ InCall(c)',
           NEW r, r = call[c].run,
           \A s \in Run \ {r} : /\ taken'[s] = taken[s] /\ run'[s] = run[s]
                                /\ reopened'[s] = reopened[s],
           taken'[r] # {} /\ run'[r].status \in {"queued", "running", "awaiting"}
               => reopened'[r] \/ pc \in {"applying", "completing"},
           pc = "rejecting" \/ (pc \in {"applying", "completing"} /\ todo = read)
               => taken'[r] = {} \/ reopened'[r],
           pc = "applying" /\ todo # {} => excused'[r] \/ run'[r].status # "cancelled",
           run'[r].status = "cancelled" => taken'[r] = {} \/ reopened'[r]
    PROVE  TakenIsClosed' /\ RejectedIsUntouched'
  <1>0. \A d \in Call : call[d].run \in Run /\ call'[d].run = call[d].run
    BY CallFields DEF Becomes
  <1>1. /\ call'[c].pc = pc /\ call'[c].read = read /\ call'[c].todo = todo
        /\ \A d \in Call \ {c} : call'[d] = call[d]
    BY DEF Becomes
  <1>2. \A d \in Call \ {c} : call[d].run = r /\ InCall(d) => excused'[r] /\ taken'[r] = {}
    BY Alone
  <1>3. ASSUME NEW s \in Run, taken'[s] # {}, IsOpen(s)'
        PROVE  reopened'[s] \/ \E d \in Call : call'[d].run = s /\ Applies(d)'
    <2>1. CASE s = r
      BY <2>1, <1>3, <1>0, <1>1 DEF IsOpen, Applies
    <2>2. CASE s # r
      <3>1. taken[s] # {} /\ IsOpen(s) /\ reopened'[s] = reopened[s]
        BY <2>2, <1>3 DEF IsOpen
      <3>2. CASE reopened[s]
        BY <3>1, <3>2
      <3>3. CASE \E d \in Call : call[d].run = s /\ Applies(d)
        BY <2>2, <3>3, <1>0, <1>1 DEF Applies
      <3> QED  BY <3>1, <3>2, <3>3 DEF TakenIsClosed
    <2> QED  BY <2>1, <2>2
  <1>4. ASSUME NEW d \in Call, Untried(d)', taken'[call'[d].run] # {}
        PROVE  reopened'[call'[d].run]
    <2>1. CASE d = c
      BY <2>1, <1>4, <1>0, <1>1 DEF Untried, Applies
    <2>2. CASE d # c /\ call[d].run = r
      BY <2>2, <1>4, <1>0, <1>1, <1>2 DEF Untried, Applies, InCall
    <2>3. CASE d # c /\ call[d].run # r
      BY <2>3, <1>4, <1>0, <1>1 DEF TakenIsClosed, Untried, Applies
    <2> QED  BY <2>1, <2>2, <2>3
  <1>5. ASSUME NEW d \in Call, call'[d].pc = "applying", call'[d].todo # {}
        PROVE  excused'[call'[d].run] \/ run'[call'[d].run].status # "cancelled"
    <2>1. CASE d = c
      BY <2>1, <1>5, <1>0, <1>1
    <2>2. CASE d # c /\ call[d].run = r
      BY <2>2, <1>5, <1>0, <1>1, <1>2 DEF InCall
    <2>3. CASE d # c /\ call[d].run # r
      BY <2>3, <1>5, <1>0, <1>1, ExcusedStays DEF TakenIsClosed
    <2> QED  BY <2>1, <2>2, <2>3
  <1>6. RejectedIsUntouched'
    BY DEF RejectedIsUntouched
  <1>7. TakenIsClosed'
    BY <1>3, <1>4, <1>5 DEF TakenIsClosed
  <1> QED  BY <1>6, <1>7

LEMMA ClosedStep ==
    ASSUME TypeOK, ReportedOnce, TakenIsNotAsked, OneCall, OneCall',
           TakenIsClosed, RejectedIsUntouched, Next
    PROVE  TakenIsClosed' /\ RejectedIsUntouched'
  <1> USE DEF apiVars
  <1>0. \A c \in Call : call[c].run \in Run
    BY CallFields
  <1>1. CASE \E r \in Run : \/ CheckOpen(r) \/ RunAgent(r) \/ HearAnswer(r) \/ Stop(r)
                            \/ WindowPasses(r) \/ RejectMessage(r)
    <2>1. UNCHANGED <<run, call, taken, excused, reopened>>
      BY <1>1 DEF CheckOpen, RunAgent, HearAnswer, Stop, WindowPasses, RejectMessage
    <2>2. \A r \in Run : IsOpen(r)' = IsOpen(r)
      BY <2>1 DEF IsOpen
    <2> QED  BY <2>1, <2>2, StillClosed
  <1>2. CASE \E r \in Run : OpenRun(r)
    <2> PICK r \in Run : OpenRun(r)
      BY <1>2
    <2>1. UNCHANGED <<call, taken, excused, reopened>> /\ taken[r] = {}
      BY DEF OpenRun, ReportedOnce, Recorded, Reported
    <2>2. \A s \in Run \ {r} : run'[s] = run[s]
      BY OpenMoves DEF RunBecomes
    <2>3. run'[r].status = run[r].status \/ run'[r].status \in {"queued", "running"}
      BY OpenMoves DEF RunBecomes
    <2>4. \A s \in Run : taken[s] # {} /\ IsOpen(s)' => IsOpen(s)
      BY <2>1, <2>2 DEF IsOpen
    <2>5. \A s \in Run : run'[s].status = "cancelled" => run[s].status = "cancelled"
      BY <2>2, <2>3
    <2> QED  BY <2>1, <2>4, <2>5, StillClosed
  <1>3. CASE \E r \in Run : ReportClosed(r)
    <2> PICK r \in Run : ReportClosed(r)
      BY <1>3
    <2>1. UNCHANGED <<call, taken, excused, reopened>> /\ job[r] \in {"failing", "blocked"}
      BY DEF ReportClosed
    <2>2. \A s \in Run : IsOpen(s)' => IsOpen(s)
      BY CloseMoves, Shut DEF Closed
    <2>3. /\ run'[r].status = Closed(r)
          /\ \A s \in Run \ {r} : run'[s] = run[s]
      BY CloseMoves DEF RunBecomes
    <2>4. \A s \in Run : run'[s].status = "cancelled" => run[s].status = "cancelled" \/ ~Recorded(s)
      BY <2>1, <2>3 DEF Closed, Recorded, Reported
    <2> QED  BY <2>1, <2>2, <2>4, StillClosed
  <1>4. CASE \E r \in Run : RecordDecision(r) \/ RequestSend(r)
    <2> PICK r \in Run : RecordDecision(r) \/ RequestSend(r)
      BY <1>4
    <2>1. /\ UNCHANGED <<call, taken, excused>>
          /\ reopened' = [reopened EXCEPT ![r] = @ \/ ~IsOpen(r)]
      BY DEF RecordDecision, RequestSend
    <2>2. \E status \in {"completed", "awaiting"} : \E pending : RunBecomes(r, status, pending)
      BY RecordMoves, SubmitMoves
    <2>3. /\ run'[r].status # "cancelled"
          /\ \A s \in Run \ {r} : run'[s] = run[s]
      BY <2>2 DEF RunBecomes
    <2>4. /\ \A s \in Run : IsOpen(s)' => IsOpen(s) \/ reopened'[s]
          /\ \A s \in Run : reopened[s] => reopened'[s]
      BY <2>1, <2>2, SetToWait
    <2> QED  BY <2>1, <2>3, <2>4, StillClosed
  <1>5. CASE \E c \in Call : ApproveRead(c) \/ RejectRead(c)
    <2> PICK c \in Call, pc \in {"applying", "rejecting"} : Read(c, pc)
      BY <1>5 DEF ApproveRead, RejectRead
    <2> DEFINE r == call[c].run
               p == run[r].pending
    <2>1. Becomes(c, pc, p, p) /\ r \in Run
      BY <1>0, ReadMoves, CallPoints
    <2>2. Excuse(r, InFlight(r) # {}) /\ UNCHANGED <<run, reopened>> /\ run[r].status = "awaiting"
      BY DEF Read, Decidable
    <2>3. InCall(c)'
      BY <2>1 DEF Becomes, InCall
    <2> HIDE DEF r, p
    <2>4. /\ \A s \in Run \ {r} : taken'[s] = taken[s]
          /\ InFlight(r) # {} => taken'[r] = {}
          /\ InFlight(r) = {} => taken'[r] = taken[r]
      BY <2>1, <2>2, ExcuseEffect
    <2>5. taken'[r] = {} \/ reopened'[r]
      BY <2>1, <2>2, <2>4 DEF InFlight, Applies, IsOpen, TakenIsClosed
    <2> QED  BY <2>1, <2>2, <2>3, <2>4, <2>5, CallClosed DEF r
  <1>6. CASE \E c \in Call : ApplyStep(c) \/ ApplyDraft(c)
    <2> PICK c \in Call : ApplyStep(c) \/ ApplyDraft(c)
      BY <1>6
    <2> PICK a \in Action : Applied(c, a)
      BY AppliedCases
    <2> DEFINE r == call[c].run
    <2>0. r \in Run
      BY <1>0
    <2>1. /\ \A s \in Run \ {r} : run'[s] = run[s]
          /\ run'[r].status = run[r].status \/ run'[r].status = "awaiting"
      BY DraftMoves DEF ApplyStep, RunBecomes
    <2>2. \A s \in Run : reopened[s] => reopened'[s]
      BY <2>0 DEF ApplyStep, ApplyDraft, TypeOK
    <2>3. \A s \in Run \ {r} : taken'[s] = taken[s] /\ reopened'[s] = reopened[s]
      <3>1. \A s \in Run \ {r} : taken'[s] = taken[s]
        BY <2>0, TakeEffect DEF Applied
      <3>2. \A s \in Run \ {r} : reopened'[s] = reopened[s]
        BY <2>0 DEF ApplyStep, ApplyDraft, TypeOK
      <3> QED  BY <3>1, <3>2
    <2>4. /\ call[c].todo \subseteq call[c].read /\ a \in call[c].todo
          /\ excused[r] \/ run[r].status # "cancelled"
          /\ excused[r] => excused'[r] /\ taken'[r] = {}
      BY <2>0 DEF Applied, TakenIsNotAsked, TakenIsClosed, OneCall
    <2>5. InCall(c) /\ Becomes(c, "applying", call[c].read, call[c].todo \ {a})
      BY DEF Applied, InCall
    <2> HIDE DEF r
    <2>6. call[c].todo \ {a} # call[c].read
      BY <2>4
    <2>7. /\ excused'[r] \/ run'[r].status # "cancelled"
          /\ run'[r].status = "cancelled" => taken'[r] = {}
      BY <2>1, <2>4
    <2> QED  BY <2>1, <2>3, <2>5, <2>6, <2>7, CallClosed DEF r
  <1>7. CASE \E c \in Call : Refuse(c) \/ Die(c)
    <2> PICK c \in Call : Refuse(c) \/ Die(c)
      BY <1>7
    <2> DEFINE r == call[c].run
    <2>1. /\ UNCHANGED <<run, reopened>> /\ Becomes(c, "over", {}, {}) /\ Applies(c) /\ InCall(c)
          /\ Excuse(r, call[c].todo # call[c].read)
      BY LeftEffect DEF Applies, InCall
    <2>2. r \in Run
      BY <1>0
    <2> HIDE DEF r
    <2>3. /\ \A s \in Run \ {r} : taken'[s] = taken[s]
          /\ call[c].todo # call[c].read => taken'[r] = {}
          /\ call[c].todo = call[c].read => taken'[r] = taken[r]
      BY <2>1, <2>2, ExcuseEffect
    <2>4. taken'[r] = {} \/ reopened'[r]
      BY <2>1, <2>3 DEF r, TakenIsClosed, Untried
    <2> QED  BY <2>1, <2>3, <2>4, CallClosed DEF r
  <1>8. CASE \E c \in Call : WriteOutcomes(c) \/ Complete(c) \/ RejectWrite(c)
    <2> PICK c \in Call : WriteOutcomes(c) \/ Complete(c) \/ RejectWrite(c)
      BY <1>8
    <2> DEFINE r == call[c].run
    <2>0. r \in Run /\ UNCHANGED <<taken, reopened>> /\ InCall(c)
      BY <1>0 DEF WriteOutcomes, Complete, RejectWrite, InCall
    <2>1. CASE WriteOutcomes(c)
      <3>1. /\ Becomes(c, "completing", call[c].read, {})
            /\ RunBecomes(r, run[r].status, {})
        BY <2>1, OutcomesMove, ApprovalMoves
      <3>2. call[c].read = {} => taken[r] = {} \/ reopened[r]
        BY <2>1 DEF WriteOutcomes, TakenIsClosed, Untried, Applies
      <3> HIDE DEF r
      <3>3. /\ run'[r].status = run[r].status
            /\ \A s \in Run \ {r} : run'[s] = run[s]
        BY <2>0, <3>1 DEF RunBecomes
      <3>4. run'[r].status = "cancelled" => taken'[r] = {} \/ reopened'[r]
        BY <2>0, <3>3 DEF RejectedIsUntouched
      <3> QED  BY <2>0, <3>1, <3>2, <3>3, <3>4, CallClosed DEF r
    <2>2. CASE Complete(c)
      <3>1. /\ Becomes(c, "over", {}, {})
            /\ RunBecomes(r, "completed", run[r].pending)
        BY <2>2, EndMoves, ApprovalMoves DEF Complete
      <3> HIDE DEF r
      <3>2. /\ run'[r].status = "completed"
            /\ \A s \in Run \ {r} : run'[s] = run[s]
        BY <2>0, <3>1 DEF RunBecomes
      <3> QED  BY <2>0, <3>1, <3>2, CallClosed DEF r
    <2>3. CASE RejectWrite(c)
      <3>1. /\ Becomes(c, "over", {}, {})
            /\ RunBecomes(r, "cancelled", call[c].read)
        BY <2>3, EndMoves, ApprovalMoves DEF RejectWrite
      <3>2. taken[r] = {} \/ reopened[r]
        BY <2>3 DEF RejectWrite, TakenIsClosed, Untried
      <3> HIDE DEF r
      <3>3. /\ run'[r].status = "cancelled"
            /\ \A s \in Run \ {r} : run'[s] = run[s]
        BY <2>0, <3>1 DEF RunBecomes
      <3> QED  BY <2>0, <3>1, <3>2, <3>3, CallClosed DEF r
    <2> QED  BY <2>1, <2>2, <2>3
  <1> QED
    BY <1>1, <1>2, <1>3, <1>4, <1>5, <1>6, <1>7, <1>8, StepCases

----------------------------------------------------------------------------
\* The invariant.

LEMMA InvInit ==
    ASSUME Init
    PROVE  Inv
  <1>1. \A c \in Call : /\ call[c] \in CallType /\ call[c].pc = "idle"
                        /\ call[c].read = {} /\ call[c].todo = {}
    BY RunAssumption, CallPoints DEF Init, CallType
  <1>2. call \in [Call -> CallType]
    BY <1>1 DEF Init
  <1>3. run \in [Run -> RunType]
    BY DEF Init, RunType, Status
  <1>4. TypeOK
    BY <1>2, <1>3 DEF Init, TypeOK, CallType, RunType, JobPoint
  <1>5. CheckedAlone /\ OneOpinion
    BY DEF Init, CheckedAlone, OneOpinion, IsOpen
  <1>6. OneCall
    BY <1>1 DEF Init, OneCall, InCall
  <1>7. ReportedOnce
    BY <1>1 DEF Init, ReportedOnce
  <1>8. TakenIsNotAsked /\ AppliedOnce
    BY <1>1 DEF Init, TakenIsNotAsked, AppliedOnce
  <1>9. \A r \in Run : taken[r] = {}
    BY DEF Init
  <1>10. TakenIsClosed /\ RejectedIsUntouched
    BY <1>1, <1>4, <1>9, CallFields DEF TakenIsClosed, RejectedIsUntouched
  <1> QED  BY <1>4, <1>5, <1>6, <1>7, <1>8, <1>10 DEF Inv

LEMMA InvStep ==
    ASSUME Inv, [Next]_vars
    PROVE  Inv'
  <1>0. /\ TypeOK /\ CheckedAlone /\ OneOpinion /\ OneCall /\ ReportedOnce
        /\ TakenIsNotAsked /\ AppliedOnce /\ TakenIsClosed /\ RejectedIsUntouched
    BY DEF Inv
  <1>1. CASE Next
    <2>1. TypeOK'
      BY <1>0, <1>1, TypeStep
    <2>2. CheckedAlone' /\ OneOpinion'
      BY <1>0, <1>1, OpinionStep
    <2>3. OneCall'
      BY <1>0, <1>1, OneCallStep
    <2>4. ReportedOnce'
      BY <1>0, <1>1, ReportedStep
    <2>5. TakenIsNotAsked' /\ AppliedOnce'
      BY <1>0, <1>1, <2>3, NotAskedStep, OnceStep
    <2>6. TakenIsClosed' /\ RejectedIsUntouched'
      BY <1>0, <1>1, <2>3, ClosedStep
    <2> QED  BY <2>1, <2>2, <2>3, <2>4, <2>5, <2>6 DEF Inv
  <1>2. CASE UNCHANGED vars
    <2> USE <1>0, <1>2 DEF vars
    <2>1. TypeOK'
      BY DEF TypeOK
    <2>2. CheckedAlone' /\ OneOpinion'
      BY DEF CheckedAlone, OneOpinion, IsOpen
    <2>3. OneCall'
      BY DEF OneCall, InCall
    <2>4. ReportedOnce'
      BY DEF ReportedOnce, Recorded, Reported
    <2>5. TakenIsNotAsked' /\ AppliedOnce'
      BY DEF TakenIsNotAsked, AppliedOnce
    <2>6. TakenIsClosed' /\ RejectedIsUntouched'
      BY DEF TakenIsClosed, RejectedIsUntouched, IsOpen, Applies, Untried
    <2> QED  BY <2>1, <2>2, <2>3, <2>4, <2>5, <2>6 DEF Inv
  <1> QED  BY <1>1, <1>2

LEMMA Invariant == Spec => []Inv
  BY InvInit, InvStep, PTL DEF Spec

\* Every column and call keeps to its values, for any number of runs and calls.
THEOREM RunTypeCorrect == Spec => []TypeOK
  <1>1. Inv => TypeOK
    BY DEF Inv
  <1> QED  BY <1>1, Invariant, PTL

\* Whatever is approved, reopened and approved again, a gated action repeats
\* only in a run whose decisions overlapped or whose approval stopped half-way
\* (approve 274-357).
THEOREM ActionsAppliedOnce == Spec => []AppliedOnce
  <1>1. Inv => AppliedOnce
    BY DEF Inv
  <1> QED  BY <1>1, Invariant, PTL

\* Two fresh runs are open together only when both jobs had checked before
\* either opened, or a closed one was set to wait again (process 102-127).
THEOREM OneOpinionAtATime == Spec => []OneOpinion
  <1>1. Inv => OneOpinion
    BY DEF Inv
  <1> QED  BY <1>1, Invariant, PTL

\* A rejected run of which something took effect was reopened by its message
\* (reject 360-389, requestSend 462-467).
THEOREM RejectionLeavesNothing == Spec => []RejectedIsUntouched
  <1>1. Inv => RejectedIsUntouched
    BY DEF Inv
  <1> QED  BY <1>1, Invariant, PTL
=============================================================================
