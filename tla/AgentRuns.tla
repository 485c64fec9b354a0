------------------------------ MODULE AgentRuns ------------------------------
(***************************************************************************)
(* Agent runs about one lead or deal: the worker's job that opens a run and *)
(* reports its decision (agents.processor.ts), the api that records it      *)
(* (agent-orchestration.service.ts), the people who approve and reject it,  *)
(* and the message it drafted, whose later submission writes the run too    *)
(* (agent.service.ts).  Requests may be answered late, or never.            *)
(***************************************************************************)
EXTENDS Naturals

CONSTANTS
    Run,      \* jobs of one agent, each with the run it opens
    Manual,   \* those queued by hand or by an inbound reply
    Asks,     \* the gated actions a run's decision may hold
    Decided,  \* the runs people decide
    MaxCalls  \* bound: their approvals and rejections

\* A change of state that needs a person under draft_only (a transition, or an
\* opt-out the model was unsure of), and a message to a seller or a buyer.
Action == {"step", "draft"}

\* In the order in which they begin.
Call == 1..MaxCalls

ASSUME RunAssumption ==
    /\ MaxCalls \in Nat
    /\ Manual \subseteq Run /\ Decided \subseteq Run
    /\ Asks \in [Run -> SUBSET Action]

VARIABLES
    run,       \* the automationRun rows
    job,       \* where the worker's job of each run is
    sent,      \* its decision is on its way to the api, or being recorded
    message,   \* the message an approval of the run drafted
    fresh,     \* the run was created within OPEN_RUN_WINDOW_MS
    call,      \* where each approval or rejection is, and what it read
    excused,   \* history: decisions overlapped, or an approval stopped half-way
    taken,     \* history: gated actions that took effect in a run not excused
    again,     \* history: those that took effect a second time
    reopened,  \* history: a closed run was set to wait for approval again
    beside     \* history: the fresh run was opened when another job had checked too

vars == <<run, job, sent, message, fresh, call, taken, again, excused, reopened, beside>>

Status == {"none", "queued", "running", "awaiting", "completed", "failed", "cancelled"}

JobPoint == {"idle", "checked", "running", "reporting", "failing", "blocked", "done", "lost"}

CallPoint == {"idle", "applying", "completing", "rejecting", "over"}

TypeOK ==
    /\ run \in [Run -> [status: Status, pending: SUBSET Action]]
    /\ job \in [Run -> JobPoint]
    /\ sent \in [Run -> BOOLEAN]
    /\ message \in [Run -> {"none", "draft", "pending"}]
    /\ fresh \in [Run -> BOOLEAN]
    /\ call \in [Call -> [pc: CallPoint, run: Run, read: SUBSET Action, todo: SUBSET Action]]
    /\ taken \in [Run -> SUBSET Action]
    /\ again \in [Run -> SUBSET Action]
    /\ excused \in [Run -> BOOLEAN]
    /\ reopened \in [Run -> BOOLEAN]
    /\ beside \in [Run -> BOOLEAN]

Init ==
    /\ run = [r \in Run |-> [status |-> "none", pending |-> {}]]
    /\ job = [r \in Run |-> "idle"]
    /\ sent = [r \in Run |-> FALSE]
    /\ message = [r \in Run |-> "none"]
    /\ fresh = [r \in Run |-> FALSE]
    /\ call \in [Call -> [pc: {"idle"}, run: Decided, read: {{}}, todo: {{}}]]
    /\ taken = [r \in Run |-> {}]
    /\ again = [r \in Run |-> {}]
    /\ excused = [r \in Run |-> FALSE]
    /\ reopened = [r \in Run |-> FALSE]
    /\ beside = [r \in Run |-> FALSE]

apiVars == <<sent, message, call, taken, again, excused>>

-----------------------------------------------------------------------------
(* The worker's job *)

\* The check that forgets that a waiting run is open too.
OpenUntilDecided == {"queued", "running"}

OpenStatuses == {"queued", "running", "awaiting"}

IsOpen(r) == run[r].status \in {"queued", "running", "awaiting"}

\* One opinion at a time; what is queued by hand or answers a reply always goes.
Skips(r) ==
    /\ r \notin Manual
    /\ \E s \in Run \ {r} : run[s].status \in OpenStatuses /\ fresh[s]

CheckOpen(r) ==
    /\ job[r] = "idle"
    /\ job' = [job EXCEPT ![r] = IF Skips(r) THEN "done" ELSE "checked"]
    /\ UNCHANGED <<run, fresh, reopened, beside, apiVars>>

\* createRun and startRun.  Nothing is created while the tenant is switched
\* off; when the first event is not written, the run stays queued; when the
\* answer is lost the job fails, and the run stays as it is.
OpenRun(r) ==
    /\ job[r] = "checked"
    /\ \/ job' = [job EXCEPT ![r] = "done"] /\ UNCHANGED <<run, fresh, beside>>
       \/ /\ \E s \in {"queued", "running"} :
                /\ run' = [run EXCEPT ![r].status = s]
                /\ \E pc \in {"lost"} \cup (IF s = "running" THEN {"running"} ELSE {}) :
                      job' = [job EXCEPT ![r] = pc]
          /\ fresh' = [fresh EXCEPT ![r] = TRUE]
          /\ beside' = [beside EXCEPT ![r] =
                            r \in Manual \/ \E s \in Run \ {r} : job[s] = "checked"]
    /\ UNCHANGED <<reopened, apiVars>>

\* An error that is neither a refusal nor an outage is not reported.
AfterErrorSilently == "done"

\* Bad output, a provider that is down, an entity that is gone, a network error.
AfterError == "failing"

RunAgent(r) ==
    /\ job[r] = "running"
    /\ \/ /\ job' = [job EXCEPT ![r] = "reporting"]
          /\ sent' = [sent EXCEPT ![r] = TRUE]
       \/ /\ job' = [job EXCEPT ![r] = AfterError] /\ UNCHANGED sent
       \/ /\ job' = [job EXCEPT ![r] = "blocked"] /\ UNCHANGED sent
    /\ UNCHANGED <<run, fresh, reopened, beside, message, call, taken, again, excused>>

\* The answer to the report comes, or the connection breaks while the api may
\* still be recording it.
HearAnswer(r) ==
    /\ job[r] = "reporting"
    /\ \/ ~sent[r] /\ job' = [job EXCEPT ![r] = "done"]
       \/ job' = [job EXCEPT ![r] = AfterError]
    /\ UNCHANGED <<run, fresh, reopened, beside, apiVars>>

\* The worker's word for a call that cost control refused.
ClosedVerbatim(r) == job[r]

Closed(r) == IF job[r] = "failing" THEN "failed" ELSE "cancelled"

\* failRun, or CANCELLED with a decision that has no actions.
ReportClosed(r) ==
    /\ job[r] \in {"failing", "blocked"}
    /\ run' = [run EXCEPT ![r].status = Closed(r),
                          ![r].pending = IF job[r] = "blocked" THEN {} ELSE @]
    /\ job' = [job EXCEPT ![r] = "done"]
    /\ UNCHANGED <<fresh, reopened, beside, apiVars>>

\* An answer of 500 and above is rethrown, and no attempt is left; or the
\* worker stops.
Stop(r) ==
    /\ job[r] \in {"checked", "running", "reporting", "failing", "blocked"}
    /\ job' = [job EXCEPT ![r] = "lost"]
    /\ UNCHANGED <<run, fresh, reopened, beside, apiVars>>

JobStep(r) == CheckOpen(r) \/ OpenRun(r) \/ RunAgent(r) \/ HearAnswer(r) \/ ReportClosed(r)

-----------------------------------------------------------------------------
(* The api *)

\* recordDecision looks at no status.  A draft always waits; a step waits when
\* it is gated or the tenant is on draft_only, and otherwise happens at once.
RecordDecision(r) ==
    /\ sent[r]
    /\ sent' = [sent EXCEPT ![r] = FALSE]
    /\ \E pending \in SUBSET Asks[r] :
          run' = [run EXCEPT ![r].pending = pending,
                             ![r].status = IF pending = {} THEN "completed" ELSE "awaiting"]
    /\ reopened' = [reopened EXCEPT ![r] = @ \/ ~IsOpen(r)]
    /\ UNCHANGED <<job, message, fresh, call, taken, again, excused, beside>>

WindowPasses(r) ==
    /\ fresh[r]
    /\ fresh' = [fresh EXCEPT ![r] = FALSE]
    /\ beside' = [beside EXCEPT ![r] = FALSE]
    /\ UNCHANGED <<run, job, reopened, apiVars>>

InFlight(r) == {c \in Call : call[c].run = r /\ call[c].pc \notin {"idle", "over"}}

\* A person may decide a run whatever has become of it.
DecidableEver(r) == run[r].status # "none"

Decidable(r) == run[r].status = "awaiting"

End(c) == call' = [call EXCEPT ![c] = [@ EXCEPT !.pc = "over", !.read = {}, !.todo = {}]]

Excuse(r, b) ==
    /\ excused' = [excused EXCEPT ![r] = @ \/ b]
    /\ taken' = [taken EXCEPT ![r] = IF b THEN {} ELSE @]

\* approve and reject read the run; both go on from what they read.
Read(c, pc) ==
    LET r == call[c].run IN
    /\ call[c].pc = "idle" /\ \A d \in Call : d < c => call[d].pc # "idle"
    /\ Decidable(r)
    /\ call' = [call EXCEPT ![c].pc = pc, ![c].read = run[r].pending, ![c].todo = run[r].pending]
    /\ Excuse(r, InFlight(r) # {})
    /\ UNCHANGED <<run, job, sent, message, fresh, again, reopened, beside>>

ApproveRead(c) == Read(c, "applying")
RejectRead(c) == Read(c, "rejecting")

Take(r, a) ==
    /\ taken' = [taken EXCEPT ![r] = IF excused[r] THEN {} ELSE @ \cup {a}]
    /\ again' = [again EXCEPT ![r] = @ \cup ({a} \cap taken[r])]

\* applyGated of a transition or an opt-out: done, or failed and noted so.
ApplyStep(c) ==
    LET r == call[c].run IN
    /\ call[c].pc = "applying" /\ "step" \in call[c].todo
    /\ call' = [call EXCEPT ![c].todo = @ \ {"step"}]
    /\ Take(r, "step") \/ UNCHANGED <<taken, again>>
    /\ UNCHANGED <<run, job, sent, message, fresh, excused, reopened, beside>>

\* A seller's draft is submitted, unless a switch refuses, and both the draft
\* and its submission set the run to wait; a buyer's is created submitted.
ApplyDraft(c) ==
    LET r == call[c].run IN
    /\ call[c].pc = "applying" /\ "draft" \in call[c].todo
    /\ call' = [call EXCEPT ![c].todo = @ \ {"draft"}]
    /\ \/ /\ Take(r, "draft")
          /\ \/ /\ message' = [message EXCEPT ![r] = "pending"]
                /\ UNCHANGED <<run, reopened>>
             \/ /\ \E m \in {"draft", "pending"} : message' = [message EXCEPT ![r] = m]
                /\ run' = [run EXCEPT ![r].status = "awaiting"]
                /\ reopened' = [reopened EXCEPT ![r] = @ \/ ~IsOpen(r)]
       \/ UNCHANGED <<run, reopened, taken, again, message>>
    /\ UNCHANGED <<job, sent, fresh, excused, beside>>

\* What an approval had done when it ended early is not on the run.
LeftHalfWay(c) == Excuse(call[c].run, call[c].todo # call[c].read)

\* A compliance refusal is thrown on: the run stays open, whatever was applied.
Refuse(c) ==
    /\ call[c].pc = "applying" /\ call[c].todo # {}
    /\ End(c) /\ LeftHalfWay(c)
    /\ UNCHANGED <<run, job, sent, message, fresh, again, reopened, beside>>

\* approveRun, then the outcomes replace those that were pending.
AfterApprovalUnwritten(c) == call[c].read
AfterApproval(c) == {}

WriteOutcomes(c) ==
    /\ call[c].pc = "applying" /\ call[c].todo = {}
    /\ run' = [run EXCEPT ![call[c].run].pending = AfterApproval(c)]
    /\ call' = [call EXCEPT ![c].pc = "completing"]
    /\ UNCHANGED <<job, sent, message, fresh, taken, again, excused, reopened, beside>>

Complete(c) ==
    /\ call[c].pc = "completing"
    /\ run' = [run EXCEPT ![call[c].run].status = "completed"]
    /\ End(c)
    /\ UNCHANGED <<job, sent, message, fresh, taken, again, excused, reopened, beside>>

\* The decision is written back as it was read.
RejectWrite(c) ==
    /\ call[c].pc = "rejecting"
    /\ run' = [run EXCEPT ![call[c].run] = [status |-> "cancelled", pending |-> call[c].read]]
    /\ End(c)
    /\ UNCHANGED <<job, sent, message, fresh, taken, again, excused, reopened, beside>>

\* The api stops in the middle of a call.
Die(c) ==
    /\ call[c].pc \in {"applying", "completing"}
    /\ End(c) /\ LeftHalfWay(c)
    /\ UNCHANGED <<run, job, sent, message, fresh, again, reopened, beside>>

\* communications.reject turns the message back into a draft.
RejectMessage(r) ==
    /\ message[r] = "pending"
    /\ message' = [message EXCEPT ![r] = "draft"]
    /\ UNCHANGED <<run, job, sent, fresh, call, taken, again, excused, reopened, beside>>

\* requestSend: the run waits for approval again, whatever it was.
RequestSend(r) ==
    /\ message[r] = "draft"
    /\ message' = [message EXCEPT ![r] = "pending"]
    /\ run' = [run EXCEPT ![r].status = "awaiting"]
    /\ reopened' = [reopened EXCEPT ![r] = @ \/ ~IsOpen(r)]
    /\ UNCHANGED <<job, sent, fresh, call, taken, again, excused, beside>>

CallStep(c) ==
    \/ ApproveRead(c) \/ ApplyStep(c) \/ ApplyDraft(c) \/ Refuse(c)
    \/ WriteOutcomes(c) \/ Complete(c)
    \/ RejectRead(c) \/ RejectWrite(c)
    \/ Die(c)

Next ==
    \/ \E r \in Run : \/ JobStep(r) \/ Stop(r) \/ RecordDecision(r) \/ WindowPasses(r)
                      \/ RejectMessage(r) \/ RequestSend(r)
    \/ \E c \in Call : CallStep(c)

Spec == Init /\ [][Next]_vars

\* BullMQ runs a job once it is queued, and the worker works until it stops;
\* a report that reached the api is recorded.
FairSpec ==
    /\ Spec
    /\ \A r \in Run : WF_vars(JobStep(r)) /\ WF_vars(RecordDecision(r))

-----------------------------------------------------------------------------
\* A gated action takes effect once, however often its run is approved,
\* reopened and approved again; only approvals that overlap with another
\* decision, or that end half-way, repeat it (approve 274-357, applyGated
\* 837-964, requestSend 462-467).
AppliedOnce == \A r \in Run : again[r] = {}

\* Two fresh runs of one agent about one entity are open together only when
\* both jobs had checked before either opened, or a closed one was set to wait
\* again (agents.processor.ts 102-127).
OneOpinion ==
    \A r, s \in Run :
        r # s /\ IsOpen(r) /\ IsOpen(s) /\ fresh[r] /\ fresh[s]
            => beside[r] \/ beside[s] \/ reopened[r] \/ reopened[s]

\* A run that was rejected left nothing behind on the lead or the deal, unless
\* another decision overlapped, an approval ended half-way, or a message put
\* a closed run up for decision again (reject 360-389).
RejectedIsUntouched ==
    \A r \in Run : run[r].status = "cancelled" /\ taken[r] # {} => reopened[r]

\* Whatever the agent, its provider or the network does, a run that started is
\* decided or closed, unless the worker stops or the api is out
\* (agents.processor.ts 146-157, 217-250).
RunEnds == \A r \in Run : run[r].status = "running" ~> run[r].status # "running" \/ job[r] = "lost"
=============================================================================
