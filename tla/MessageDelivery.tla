-------------------------- MODULE MessageDelivery --------------------------
(***************************************************************************)
(* One outbound message from its draft to the provider's last event: the    *)
(* approval queue (communications.service.ts), the job queue and its worker *)
(* (communications.processor.ts), the dispatch with its send-time checks    *)
(* (message-dispatch.service.ts), the idempotency key of cost control, and  *)
(* the provider's callbacks (webhooks/twilio, webhooks/email).  Handlers     *)
(* are opened at their awaits; a call or a worker may die at any of them,    *)
(* and the queue hands a dead worker's job out again.                        *)
(***************************************************************************)
EXTENDS Suppression, Integers, FiniteSets

CONSTANTS
  MaxApprovals, \* bound on the calls of approve
  MaxAttempts,  \* bound on the times a worker takes a job of this message
  Events,     \* the delivery events the provider reports
  MaxFaults,  \* bound on workers that die and calls that Redis does not answer
  MaxCalls    \* bound on the calls of people, recipients and the provider

ASSUME BoundsAreNaturals ==
  {MaxApprovals, MaxAttempts, MaxFaults, MaxCalls} \subseteq Nat

(* Numbered in the order they begin. *)
Approvals == 1..MaxApprovals
Attempts == 1..MaxAttempts

VARIABLES
  channel,   \* "sms" or "email"
  message,   \* the row: status, and the provider's receipt in its metadata
  approving, \* per approve call: idle, read, written, done
  rejecting, \* what a reject call read: idle, or the receipt it will write back
  requesting,\* requestSend read a draft
  queue,     \* jobs waiting in the communications queue
  attempts,  \* per attempt: where it is, whether its worker lives
  key,       \* the idempotency key sms:<id> or email:<id> is in Redis
  events,    \* per event: where it is and what it read
  accepted,  \* history: copies the provider accepted
  lost,      \* history: a receipt was not stored, or overwritten
  unguarded, \* history: a send passed the key because Redis did not answer
  faults,    \* bound: workers that died and calls that Redis did not answer
  calls      \* bound: calls begun, approvals aside

rowVars == <<channel, message>>
callVars == <<approving, rejecting, requesting>>
workVars == <<queue, attempts, key, faults>>
historyVars == <<accepted, lost, unguarded>>
vars == <<suppressionVars, rowVars, callVars, workVars, events, historyVars, calls>>

Statuses == {"none", "draft", "pending_approval", "approved", "blocked",
             "sent", "delivered", "failed"}
ApiSteps == {"call", "check", "spend", "provider"}
WorkerSteps == {"store", "finalize", "fail", "block"}
Steps == {"idle", "done"} \union ApiSteps \union WorkerSteps
EventKinds == IF channel = "sms" THEN {"sent", "delivered", "failed"}
              ELSE {"delivered", "bounce"}

Attempt == [pc : Steps, alive : BOOLEAN, afterStop : BOOLEAN]
Event == [pc : {"idle", "read", "bounced", "done"},
          kind : {"none", "sent", "delivered", "failed", "bounce"},
          status : Statuses, receipt : BOOLEAN]

EventAt(pc) == [pc |-> pc, kind |-> "none", status |-> "none", receipt |-> FALSE]

TypeOK ==
  /\ SuppressionTypeOK
  /\ channel \in {"sms", "email"}
  /\ message \in [status : Statuses, receipt : BOOLEAN]
  /\ approving \in [Approvals -> {"idle", "read", "written", "done"}]
  /\ rejecting \in {"idle", "receipt", "none"}
  /\ requesting \in BOOLEAN
  /\ queue \in 0..(MaxApprovals + MaxFaults)
  /\ attempts \in [Attempts -> Attempt]
  /\ key \in BOOLEAN
  /\ events \in [Events -> Event]
  /\ accepted \in 0..MaxAttempts
  /\ lost \in BOOLEAN /\ unguarded \in BOOLEAN
  /\ faults \in 0..MaxFaults
  /\ calls \in 0..MaxCalls

Init ==
  /\ SuppressionInit
  /\ channel \in {"sms", "email"}
  /\ message = [status |-> "none", receipt |-> FALSE]
  /\ approving = [c \in Approvals |-> "idle"]
  /\ rejecting = "idle" /\ requesting = FALSE
  /\ queue = 0 /\ key = FALSE /\ faults = 0 /\ calls = 0
  /\ attempts = [a \in Attempts |-> [pc |-> "idle", alive |-> TRUE, afterStop |-> FALSE]]
  /\ events = [e \in Events |-> EventAt("idle")]
  /\ accepted = 0 /\ lost = FALSE /\ unguarded = FALSE

-----------------------------------------------------------------------------
(* People and agents: drafts, the approval queue, rejection.                 *)

(* CommunicationsService.create asks the policy; an agent's draft does not.  *)
Create ==
  /\ message.status = "none"
  /\ \/ Sendable /\ message' = [message EXCEPT !.status = "pending_approval"]
     \/ message' = [message EXCEPT !.status = "draft"]
  /\ UNCHANGED <<suppressionVars, channel, callVars, workVars, events, historyVars>>

(* requestSend: only a draft is submitted; the write is by id. *)
RequestRead ==
  /\ ~requesting /\ message.status = "draft"
  /\ requesting' = TRUE
  /\ UNCHANGED <<suppressionVars, rowVars, approving, rejecting, workVars, events, historyVars>>

RequestWrite ==
  /\ requesting
  /\ requesting' = FALSE
  /\ \/ open /\ message' = [message EXCEPT !.status = "pending_approval"]
     \/ ~open /\ UNCHANGED message
  /\ UNCHANGED <<suppressionVars, channel, approving, rejecting, workVars, events, historyVars>>

(* approve refuses a message with a provider receipt: it was dispatched once. *)
Approvable == message.status = "pending_approval" /\ ~message.receipt

ApproveRead(c) ==
  /\ approving[c] = "idle" /\ Approvable
  /\ \A d \in 1..(c - 1) : approving[d] # "idle"
  /\ approving' = [approving EXCEPT ![c] = "read"]
  /\ UNCHANGED <<suppressionVars, rowVars, rejecting, requesting, workVars, events, historyVars>>

ApproveWrite(c) ==
  /\ approving[c] = "read"
  /\ IF Sendable
     THEN /\ message' = [message EXCEPT !.status = "approved"]
          /\ approving' = [approving EXCEPT ![c] = "written"]
     ELSE /\ approving' = [approving EXCEPT ![c] = "done"]
          /\ UNCHANGED message
  /\ UNCHANGED <<suppressionVars, channel, rejecting, requesting, workVars, events, historyVars>>

(* enqueueCommunication gives no job id: each approval is a job of its own.  *)
(* The call may also die before it: nothing else enqueues the message.       *)
ApproveEnqueue(c) ==
  /\ approving[c] = "written"
  /\ approving' = [approving EXCEPT ![c] = "done"]
  /\ queue' \in {queue, queue + 1}
  /\ UNCHANGED <<suppressionVars, rowVars, rejecting, requesting, attempts, key,
                 faults, events, historyVars>>

(* reject takes a message in any status and writes back the metadata it read. *)
RejectRead ==
  /\ rejecting = "idle" /\ message.status # "none"
  /\ rejecting' = IF message.receipt THEN "receipt" ELSE "none"
  /\ UNCHANGED <<suppressionVars, rowVars, approving, requesting, workVars, events, historyVars>>

RejectWrite ==
  /\ rejecting # "idle"
  /\ rejecting' = "idle"
  /\ message' = [status |-> "draft", receipt |-> (rejecting = "receipt")]
  /\ lost' = (lost \/ (message.receipt /\ rejecting = "none"))
  /\ UNCHANGED <<suppressionVars, channel, approving, requesting, workVars, events, accepted, unguarded>>

-----------------------------------------------------------------------------
(* An attempt: the worker's process(), with the api's sendApproved inside.   *)

At(a, pc) == attempts[a].pc = pc

Over == [pc |-> "done", alive |-> TRUE, afterStop |-> FALSE]

(* A dead worker's request goes on in the api, and nobody reads its answer.  *)
Goes(a, pc) ==
  attempts' = [attempts EXCEPT ![a] =
    IF pc = "done" \/ (~@.alive /\ pc \notin ApiSteps) THEN Over
    ELSE [@ EXCEPT !.pc = pc, !.afterStop = attempts[a].afterStop /\ pc \in {"provider", "store"}]]

AfterReadIgnoringReceipt ==
  IF message.status # "approved" THEN {"fail"}
  ELSE IF open THEN {"call"} ELSE {"call", "fail"}

(* The worker reads the row, looks for a receipt and asks the switches.      *)
AfterRead ==
  IF message.status # "approved" THEN {"fail"}
  ELSE IF message.receipt THEN {"finalize"}
  ELSE IF open THEN {"call"} ELSE {"call", "fail"}

Take(a) ==
  /\ At(a, "idle") /\ queue > 0
  /\ \A b \in 1..(a - 1) : ~At(b, "idle")
  /\ queue' = queue - 1
  /\ \E pc \in AfterRead : Goes(a, pc)
  /\ UNCHANGED <<suppressionVars, rowVars, callVars, key, faults, events, historyVars>>

(* sendApproved reads the row again: only an approved message is sent. *)
ApiRead(a) ==
  /\ At(a, "call")
  /\ Goes(a, IF message.status = "approved" THEN "check" ELSE "fail")
  /\ UNCHANGED <<suppressionVars, rowVars, callVars, queue, key, faults, events, historyVars>>

(* assertSendable: every check again, at the moment of sending.  The worker    *)
(* parks a refusal that names its compliance reason; any other error fails.    *)
MayLeave == Sendable

ApiCheck(a) ==
  /\ At(a, "check")
  /\ \/ MayLeave /\ attempts' = [attempts EXCEPT ![a].pc = "spend", ![a].afterStop = said]
     \/ ~MayLeave /\ Goes(a, "block")
     \/ Goes(a, "fail")
  /\ UNCHANGED <<suppressionVars, rowVars, callVars, queue, key, faults, events, historyVars>>

(* Cost control: a provider switched off; then the idempotency key, marked   *)
(* before any cap is asked; then the caps.  A key that is already there is    *)
(* read by the worker as a message the provider has.  When Redis does not     *)
(* answer, the call goes on as if there were none and leaves no mark.         *)
Duplicate == key

ApiSpend(a) ==
  /\ At(a, "spend")
  /\ \/ Goes(a, "block") /\ UNCHANGED key
     \/ Duplicate /\ Goes(a, "finalize") /\ UNCHANGED key
     \/ /\ ~Duplicate
        /\ key' = TRUE
        /\ \E pc \in {"provider", "block"} : Goes(a, pc)
  /\ UNCHANGED <<suppressionVars, rowVars, callVars, queue, faults, events, historyVars>>

ApiSpendUnguarded(a) ==
  /\ At(a, "spend")
  /\ faults < MaxFaults
  /\ faults' = faults + 1
  /\ unguarded' = TRUE
  /\ Goes(a, "provider")
  /\ UNCHANGED <<suppressionVars, rowVars, callVars, queue, key, events, accepted, lost>>

(* The provider accepts or refuses; its acceptance may not reach the worker, *)
(* or reach it and not be stored.                                             *)
ApiProvider(a) ==
  /\ At(a, "provider")
  /\ \/ /\ Goes(a, "store")
        /\ accepted' = accepted + 1
        /\ lost' = (lost \/ ~attempts[a].alive)
     \/ /\ Goes(a, "fail")
        /\ accepted' = accepted + 1
        /\ lost' = TRUE
     \/ /\ Goes(a, "fail")
        /\ UNCHANGED historyVars
  /\ UNCHANGED <<suppressionVars, rowVars, callVars, queue, key, faults, events, unguarded>>

Store(a) ==
  /\ At(a, "store")
  /\ Goes(a, "finalize")
  /\ message' = [message EXCEPT !.receipt = TRUE]
  /\ UNCHANGED <<suppressionVars, channel, callVars, queue, key, faults, events, historyVars>>

(* finalizeSent, and the two writes of the catch block, by id. *)
Written(a, step, status) ==
  /\ At(a, step)
  /\ Goes(a, "done")
  /\ message' = [message EXCEPT !.status = status]
  /\ UNCHANGED <<suppressionVars, channel, callVars, queue, key, faults, events, historyVars>>

Finalize(a) == Written(a, "finalize", "sent")
Fail(a) == Written(a, "fail", "failed")
BlockKeepingStatus(a) == Written(a, "block", message.status)
Block(a) == Written(a, "block", "blocked")

(* A worker dies; the queue finds its job stalled and hands it out again. *)
Crash(a) ==
  /\ faults < MaxFaults
  /\ attempts[a].alive /\ ~At(a, "idle") /\ ~At(a, "done")
  /\ faults' = faults + 1
  /\ queue' = queue + 1
  /\ attempts' = [attempts EXCEPT ![a] =
       IF @.pc \in ApiSteps THEN [@ EXCEPT !.alive = FALSE] ELSE Over]
  /\ lost' = (lost \/ At(a, "store"))
  /\ UNCHANGED <<suppressionVars, rowVars, callVars, key, events, accepted, unguarded>>

(* The key lives 60 seconds.  Assumed: attempts that overlap end within it.  *)
KeyExpires ==
  /\ key
  /\ \A a \in Attempts : At(a, "idle") \/ At(a, "done")
  /\ key' = FALSE
  /\ UNCHANGED <<suppressionVars, rowVars, callVars, queue, attempts, faults, events, historyVars>>

Work(a) ==
  \/ Take(a)
  \/ ApiRead(a) \/ ApiCheck(a) \/ ApiSpend(a) \/ ApiSpendUnguarded(a)
  \/ ApiProvider(a)
  \/ Store(a) \/ Finalize(a) \/ Fail(a) \/ Block(a)

-----------------------------------------------------------------------------
(* The provider's events.  A text is found by its receipt, an email by the   *)
(* message id it carries.                                                     *)

Rank == [s \in Statuses |->
  CASE s = "approved" \/ s = "blocked" -> 1
    [] s = "sent" -> 2
    [] s = "delivered" \/ s = "failed" -> 3
    [] OTHER -> 0]

NextStatusVerbatim(current, incoming) ==
  IF Rank[current] = 3 THEN current ELSE incoming

(* nextStatus of the text callback; an email event moves sent to delivered. *)
NextStatus(current, incoming) ==
  IF channel = "email"
  THEN IF incoming = "bounce" THEN "failed"
       ELSE IF current = "sent" THEN incoming ELSE current
  ELSE IF incoming = "failed" /\ current # "delivered" THEN "failed"
  ELSE IF current \in {"delivered", "failed"} \/ Rank[incoming] <= Rank[current] THEN current
  ELSE incoming

EventRead(e, kind) ==
  /\ events[e].pc = "idle" /\ accepted > 0
  /\ channel = "sms" => message.receipt
  /\ events' = [events EXCEPT ![e] = [pc |-> "read", kind |-> kind,
                  status |-> message.status, receipt |-> message.receipt]]
  /\ UNCHANGED <<suppressionVars, rowVars, callVars, workVars, historyVars>>

(* The write is by id: the status computed from what was read, and, but for  *)
(* an email's delivery, the metadata that was read.                          *)
EventWrite(e) ==
  LET read == events[e]
      status == NextStatus(read.status, read.kind)
      metadata == channel = "sms" \/ read.kind = "bounce" IN
  /\ read.pc = "read"
  /\ events' = [events EXCEPT ![e] =
       EventAt(IF read.kind = "bounce" THEN "bounced" ELSE "done")]
  /\ IF metadata
     THEN /\ message' = [status |-> status, receipt |-> read.receipt]
          /\ lost' = (lost \/ (message.receipt /\ ~read.receipt))
     ELSE /\ message' = IF read.status = "sent"
                        THEN [message EXCEPT !.status = status] ELSE message
          /\ UNCHANGED lost
  /\ UNCHANGED <<suppressionVars, channel, callVars, workVars, accepted, unguarded>>

(* A hard bounce or a drop puts the address on the do-not-contact list. *)
EventSuppress(e) ==
  /\ events[e].pc = "bounced"
  /\ events' = [events EXCEPT ![e].pc = "done"]
  /\ ListOptOut("operator")
  /\ UNCHANGED <<rowVars, callVars, workVars, historyVars>>

-----------------------------------------------------------------------------
(* Calls that begin, and steps of calls that have begun. *)
Called ==
  \/ RequestRead
  \/ RejectRead
  \/ \E e \in Events : \E kind \in EventKinds : EventRead(e, kind)
  \/ SuppressionBegins
     /\ UNCHANGED <<rowVars, callVars, workVars, events, historyVars>>

Continues ==
  \/ Create
  \/ RequestWrite \/ RejectWrite
  \/ \E c \in Approvals : ApproveRead(c) \/ ApproveWrite(c) \/ ApproveEnqueue(c)
  \/ \E a \in Attempts : Work(a) \/ Crash(a)
  \/ KeyExpires
  \/ \E e \in Events : EventWrite(e) \/ EventSuppress(e)
  \/ SuppressionContinues
     /\ UNCHANGED <<rowVars, callVars, workVars, events, historyVars>>

Next ==
  \/ calls < MaxCalls /\ calls' = calls + 1 /\ Called
  \/ Continues /\ UNCHANGED calls

Spec == Init /\ [][Next]_vars

(* Workers run: while some attempt can go on or a job waits, one goes on. *)
FairSpec == Spec /\ WF_vars((\E a \in Attempts : Work(a)) /\ UNCHANGED calls)

-----------------------------------------------------------------------------
(* Two approvals, replays of a job, drafts submitted again and callbacks     *)
(* never make a second copy leave: only a receipt that was not stored, or    *)
(* that a write of older metadata erased, or a send that Redis did not guard  *)
(* can (processor 38-52, 123-139, communications.service.ts 213-220,          *)
(* rate-limit.service.ts 81-84).                                              *)
SecondCopyNeedsLostReceipt == accepted > 1 => lost \/ unguarded

(* Nothing leaves on checks made after the recipient opted out, unless an    *)
(* operator's entry, which can be removed, was on the list before theirs     *)
(* (message-dispatch.service.ts 181-186, opt-out.service.ts 88-122).         *)
NoSendAfterOptOut ==
  \A a \in Attempts :
    attempts[a].pc \in {"spend", "provider", "store"} /\ attempts[a].afterStop
      => operatorFirst

(* A job in the queue takes its message out of "approved", whatever attempt  *)
(* dies on the way (communications.processor.ts 93-197).                      *)
JobIsResolved == queue > 0 ~> message.status # "approved"
=============================================================================
