----------------------- MODULE MessageDeliveryProofs -----------------------
(***************************************************************************)
(* Theorems about MessageDelivery for any bounds on approvals, attempts,    *)
(* faults and calls, and any set of provider events.                       *)
(***************************************************************************)
EXTENDS MessageDelivery, FiniteSetTheorems, TLAPS

Flags == <<consent, open, optOut, consenting, removing, said, operatorFirst>>

(* TypeOK, a part for each kind of state. *)
RowTyped ==
  /\ channel \in {"sms", "email"}
  /\ message \in [status : Statuses, receipt : BOOLEAN]

CallsTyped ==
  /\ approving \in [Approvals -> {"idle", "read", "written", "done"}]
  /\ rejecting \in {"idle", "receipt", "none"}
  /\ requesting \in BOOLEAN
  /\ calls \in 0..MaxCalls

AttemptsTyped == attempts \in [Attempts -> Attempt]

(* An event that was read is one of its channel's. *)
EventsTyped ==
  /\ events \in [Events -> Event]
  /\ \A e \in Events : events[e].pc = "read" => events[e].kind \in EventKinds

(* A job waits for an approval that enqueued it or for a fault. *)
Enqueued == {c \in Approvals : approving[c] = "done"}

QueueBacked ==
  /\ queue \in Nat /\ faults \in 0..MaxFaults
  /\ queue <= Cardinality(Enqueued) + faults

(* A copy was handed over by an attempt that has the provider behind it. *)
Past == {a \in Attempts : attempts[a].pc \in WorkerSteps \union {"done"}}

CopiesBacked == accepted \in Nat /\ accepted <= Cardinality(Past)

HistoryTyped == key \in BOOLEAN /\ lost \in BOOLEAN /\ unguarded \in BOOLEAN

(* What removes an entry found an operator's, and only one removes it; so a   *)
(* recipient's entry stays.                                                   *)
OptOutKept ==
  /\ SuppressionTypeOK
  /\ removing => dnc = "operator"
  /\ said /\ ~operatorFirst => dnc = "recipient"

(* Whoever is with the provider, or has its receipt, holds the key: nobody is *)
(* let past it meanwhile.                                                     *)
KeyHeld == \A a \in Attempts : attempts[a].pc \in {"provider", "store"} => key

OneAtProvider ==
  \A a, b \in Attempts : At(a, "provider") /\ At(b, "provider") => a = b

(* Once a copy is out, its receipt stops every attempt that reads the row, and *)
(* the key those that read it before.                                         *)
Covered ==
  /\ message.receipt \/ \E a \in Attempts : At(a, "store")
  /\ \A a \in Attempts : ~At(a, "provider")
  /\ key \/ \A a \in Attempts : attempts[a].pc \notin {"call", "check", "spend"}

CopyCovered == accepted <= 1 /\ (accepted = 1 => Covered)

Types ==
  /\ RowTyped /\ CallsTyped /\ AttemptsTyped /\ EventsTyped
  /\ QueueBacked /\ CopiesBacked /\ HistoryTyped

Inv ==
  /\ Types /\ OptOutKept
  /\ unguarded \/ (KeyHeld /\ OneAtProvider /\ (lost \/ CopyCovered))
  /\ NoSendAfterOptOut

-----------------------------------------------------------------------------
(* The suppression's type invariant, a conjunct for each flag. *)
LEMMA FlagsApart ==
  /\ SuppressionTypeOK <=>
       /\ dnc \in Sources \union {"none"}
       /\ consent \in BOOLEAN /\ open \in BOOLEAN /\ optOut \in BOOLEAN
       /\ consenting \in BOOLEAN /\ removing \in BOOLEAN
       /\ said \in BOOLEAN /\ operatorFirst \in BOOLEAN
  /\ SuppressionTypeOK' <=>
       /\ dnc' \in Sources \union {"none"}
       /\ consent' \in BOOLEAN /\ open' \in BOOLEAN /\ optOut' \in BOOLEAN
       /\ consenting' \in BOOLEAN /\ removing' \in BOOLEAN
       /\ said' \in BOOLEAN /\ operatorFirst' \in BOOLEAN
  BY DEF SuppressionTypeOK

(* The bounds are natural numbers, each by itself. *)
LEMMA Bounds ==
  MaxApprovals \in Nat /\ MaxAttempts \in Nat /\ MaxFaults \in Nat /\ MaxCalls \in Nat
  BY BoundsAreNaturals

(* There are as many approvals and attempts as their bounds say. *)
LEMMA Finite ==
  /\ IsFiniteSet(Approvals) /\ Cardinality(Approvals) = MaxApprovals
  /\ IsFiniteSet(Attempts) /\ Cardinality(Attempts) = MaxAttempts
<1>1. \A n \in Nat : IsFiniteSet(1..n) /\ Cardinality(1..n) = n
  BY FS_Interval
<1> QED
  BY <1>1, Bounds DEF Approvals, Attempts

(* Counting a part of a finite set, and the part with one more element. *)
LEMMA SubsetCounts ==
  ASSUME NEW S, IsFiniteSet(S), NEW A \in SUBSET S
  PROVE  /\ IsFiniteSet(A) /\ Cardinality(A) \in Nat /\ Cardinality(A) <= Cardinality(S)
         /\ \A x \in S \ A : Cardinality(A \union {x}) = Cardinality(A) + 1
         /\ \A B \in SUBSET S : A \subseteq B => Cardinality(A) <= Cardinality(B)
<1>1. /\ IsFiniteSet(A) /\ Cardinality(A) <= Cardinality(S)
  BY FS_Subset
<1>2. Cardinality(A) \in Nat
  BY <1>1, FS_CardinalityType
<1>3. \A x \in S \ A : Cardinality(A \union {x}) = Cardinality(A) + 1
  BY <1>1, FS_AddElement
<1>4. ASSUME NEW B \in SUBSET S, A \subseteq B PROVE Cardinality(A) <= Cardinality(B)
  BY <1>4, FS_Subset
<1> QED
  BY <1>1, <1>2, <1>3, <1>4

(* The parts are TypeOK: the bounds on the queue and the copies follow. *)
LEMMA TypesAreTypeOK == Types /\ SuppressionTypeOK => TypeOK
<1> SUFFICES ASSUME Types, SuppressionTypeOK PROVE TypeOK
  OBVIOUS
<1>1. Cardinality(Enqueued) \in Nat /\ Cardinality(Enqueued) <= MaxApprovals
  BY Finite, SubsetCounts DEF Enqueued
<1>2. Cardinality(Past) \in Nat /\ Cardinality(Past) <= MaxAttempts
  BY Finite, SubsetCounts DEF Past
<1>3. queue \in 0..(MaxApprovals + MaxFaults)
  BY <1>1, Bounds DEF Types, QueueBacked
<1>4. accepted \in 0..MaxAttempts
  BY <1>2, Bounds DEF Types, CopiesBacked
<1> QED
  BY <1>3, <1>4 DEF Types, TypeOK, RowTyped, CallsTyped, AttemptsTyped, EventsTyped,
     QueueBacked, HistoryTyped

(* Nothing is queued, nobody is under way and nothing was sent. *)
LEMMA InitInv == Init => Inv
<1> SUFFICES ASSUME Init PROVE Inv
  OBVIOUS
<1>1. RowTyped /\ CallsTyped /\ HistoryTyped
  <2>1. message \in [status : Statuses, receipt : BOOLEAN]
    BY DEF Init, Statuses
  <2>2. approving \in [Approvals -> {"idle", "read", "written", "done"}]
    BY DEF Init
  <2>3. 0 \in 0..MaxCalls
    BY Bounds
  <2> QED
    BY <2>1, <2>2, <2>3 DEF Init, RowTyped, CallsTyped, HistoryTyped
<1>2. AttemptsTyped /\ \A a \in Attempts : attempts[a].pc = "idle"
  BY DEF Init, AttemptsTyped, Attempt, Steps
<1>3. EventsTyped
  BY DEF Init, EventsTyped, EventAt, Event, Statuses
<1>4. QueueBacked
  <2>1. Cardinality(Enqueued) \in Nat
    BY Finite, SubsetCounts DEF Enqueued
  <2> QED
    BY <2>1, Bounds DEF Init, QueueBacked
<1>5. CopiesBacked /\ CopyCovered
  <2>1. Cardinality(Past) \in Nat
    BY Finite, SubsetCounts DEF Past
  <2> QED
    BY <2>1 DEF Init, CopiesBacked, CopyCovered
<1>6. OptOutKept
  BY FlagsApart DEF Init, SuppressionInit, OptOutKept, Sources
<1>7. KeyHeld /\ OneAtProvider /\ NoSendAfterOptOut
  BY <1>2 DEF KeyHeld, OneAtProvider, NoSendAfterOptOut, At
<1> QED
  BY <1>1, <1>2, <1>3, <1>4, <1>5, <1>6, <1>7 DEF Inv, Types

-----------------------------------------------------------------------------
(* The do-not-contact list. *)

(* Whatever is done to the list and the consents, a recipient's entry stays. *)
LEMMA SuppressionStepKeeps ==
  ASSUME OptOutKept,
         \/ \E source \in Sources : ListOptOut(source)
         \/ SuppressionBegins \/ SuppressionContinues \/ UNCHANGED suppressionVars
  PROVE  OptOutKept' /\ (operatorFirst => operatorFirst')
<1> USE FlagsApart DEF OptOutKept, Sources
<1>1. ASSUME NEW source \in Sources, ListOptOut(source)
      PROVE  OptOutKept' /\ (operatorFirst => operatorFirst')
  BY <1>1 DEF ListOptOut, Listed
<1>2. CASE ConsentCheck \/ RevokeLeadConsent \/ ChecksChange \/ ConsentWrite \/ RevokeConsents
  BY <1>2 DEF ConsentCheck, RevokeLeadConsent, ChecksChange, ConsentWrite, RevokeConsents
<1>3. CASE UnsuppressRead
  BY <1>3 DEF UnsuppressRead, Removable
<1>4. CASE UnsuppressDelete
  BY <1>4 DEF UnsuppressDelete
<1>5. CASE UNCHANGED suppressionVars
  BY <1>5 DEF suppressionVars
<1> QED
  BY <1>1, <1>2, <1>3, <1>4, <1>5 DEF SuppressionBegins, SuppressionContinues

-----------------------------------------------------------------------------
(* The steps of Next by what they are about.                                 *)

Elsewhere == UNCHANGED <<rowVars, callVars, workVars, events, historyVars>>

People ==
  \/ Create \/ RequestRead \/ RequestWrite \/ RejectRead \/ RejectWrite
  \/ \E c \in Approvals : ApproveRead(c) \/ ApproveWrite(c) \/ ApproveEnqueue(c)

Provider ==
  \/ \E e \in Events : \E kind \in EventKinds : EventRead(e, kind)
  \/ \E e \in Events : EventWrite(e) \/ EventSuppress(e)

Recipient == (SuppressionBegins \/ SuppressionContinues) /\ Elsewhere

(* Every step is of one of them, or of an attempt. *)
LEMMA StepCases ==
  ASSUME Next
  PROVE  \/ People \/ Provider \/ Recipient \/ KeyExpires
         \/ \E a \in Attempts : Work(a) \/ Crash(a)
<1>1. CASE Called
  BY <1>1 DEF Called, People, Provider, Recipient, Elsewhere
<1>2. CASE Continues
  BY <1>2 DEF Continues, People, Provider, Recipient, Elsewhere
<1> QED
  BY <1>1, <1>2 DEF Next

(* Each call that begins is counted, up to the bound. *)
LEMMA CallsCount ==
  ASSUME CallsTyped, Next
  PROVE  calls' \in 0..MaxCalls
BY Bounds DEF CallsTyped, Next

(* An attempt goes to pc, or is over because its worker is dead. *)
LEMMA GoesTo ==
  ASSUME AttemptsTyped, NEW a \in Attempts, NEW pc \in Steps, Goes(a, pc)
  PROVE  /\ AttemptsTyped'
         /\ \A b \in Attempts : b # a => attempts'[b] = attempts[b]
         /\ attempts'[a].pc \in {pc, "done"}
         /\ pc \in ApiSteps \/ attempts[a].alive => attempts'[a].pc = pc
         /\ attempts'[a].afterStop => attempts[a].afterStop
<1> DEFINE next == IF pc = "done" \/ (~attempts[a].alive /\ pc \notin ApiSteps) THEN Over
                   ELSE [attempts[a] EXCEPT !.pc = pc, !.afterStop = attempts[a].afterStop /\ pc \in {"provider", "store"}]
<1>1. attempts[a] \in Attempt /\ Over \in Attempt /\ Over.pc = "done"
  BY DEF AttemptsTyped, Over, Attempt, Steps
<1>2. /\ next \in Attempt /\ next.pc \in {pc, "done"}
      /\ pc \in ApiSteps \/ attempts[a].alive => next.pc = pc
      /\ next.afterStop => attempts[a].afterStop
  BY <1>1 DEF Attempt, ApiSteps, Over
<1>3. attempts' = [attempts EXCEPT ![a] = next]
  BY DEF Goes
<1> HIDE DEF next
<1>4. /\ attempts' \in [Attempts -> Attempt]
      /\ attempts'[a] = next
      /\ \A b \in Attempts : b # a => attempts'[b] = attempts[b]
  BY <1>2, <1>3 DEF AttemptsTyped
<1> QED
  BY <1>2, <1>4 DEF AttemptsTyped

(* What a step of an attempt does to the attempts, whichever step it is. *)
LEMMA WorkMoves ==
  ASSUME AttemptsTyped, said \in BOOLEAN, NEW a \in Attempts, Work(a) \/ Crash(a)
  PROVE  /\ AttemptsTyped'
         /\ \A b \in Attempts : b # a => attempts'[b] = attempts[b]
         /\ attempts[a].pc \in WorkerSteps => attempts'[a].pc \in WorkerSteps \union {"done"}
         /\ attempts[a].pc # "done"
         /\ attempts'[a].pc = "provider" => attempts[a].pc \in {"spend", "provider"}
         /\ attempts'[a].pc = "store" => attempts[a].pc = "provider"
         /\ attempts'[a].pc = "check" => attempts[a].pc \in {"call", "check"}
         /\ attempts'[a].pc = "spend" => attempts[a].pc \in {"check", "spend"}
         /\ attempts'[a].pc \in {"spend", "provider", "store"} /\ attempts'[a].afterStop
            => \/ attempts[a].pc \in {"spend", "provider", "store"} /\ attempts[a].afterStop
               \/ said /\ Sendable
         /\ UNCHANGED suppressionVars
<1> USE DEF At, Steps, ApiSteps, WorkerSteps
<1>1. CASE Take(a)
  <2>1. PICK pc \in AfterRead : Goes(a, pc)
    BY <1>1 DEF Take
  <2>2. pc \in {"fail", "finalize", "call"}
    BY <2>1 DEF AfterRead
  <2> QED
    BY <1>1, <2>1, <2>2, GoesTo DEF Take
<1>2. CASE ApiRead(a)
  <2>1. PICK pc \in {"check", "fail"} : Goes(a, pc)
    BY <1>2 DEF ApiRead
  <2> QED
    BY <1>2, <2>1, GoesTo DEF ApiRead
<1>3. CASE ApiCheck(a)
  <2>1. ASSUME NEW pc \in {"block", "fail"}, Goes(a, pc)
        PROVE  /\ AttemptsTyped' /\ attempts'[a].pc \in {pc, "done"}
               /\ \A b \in Attempts : b # a => attempts'[b] = attempts[b]
    BY <2>1, GoesTo
  <2>2. CASE MayLeave /\ attempts' = [attempts EXCEPT ![a].pc = "spend", ![a].afterStop = said]
    <3> DEFINE next == [attempts[a] EXCEPT !.pc = "spend", !.afterStop = said]
    <3>1. next \in Attempt /\ next.pc = "spend" /\ next.afterStop = said
      BY DEF AttemptsTyped, Attempt
    <3>2. attempts' = [attempts EXCEPT ![a] = next]
      BY <2>2 DEF AttemptsTyped, Attempt
    <3> HIDE DEF next
    <3>3. attempts'[a] = next /\ AttemptsTyped' /\ \A b \in Attempts : b # a => attempts'[b] = attempts[b]
      BY <3>1, <3>2 DEF AttemptsTyped
    <3>4. attempts[a].pc = "check" /\ UNCHANGED suppressionVars
      BY <1>3 DEF ApiCheck
    <3> QED
      BY <2>2, <3>1, <3>3, <3>4 DEF MayLeave
  <2> QED
    BY <1>3, <2>1, <2>2 DEF ApiCheck
<1>4. CASE ApiSpend(a) \/ ApiSpendUnguarded(a)
  <2>1. PICK pc \in {"block", "finalize", "provider"} : Goes(a, pc)
    BY <1>4 DEF ApiSpend, ApiSpendUnguarded
  <2> QED
    BY <1>4, <2>1, GoesTo DEF ApiSpend, ApiSpendUnguarded
<1>5. CASE ApiProvider(a)
  <2>1. PICK pc \in {"store", "fail"} : Goes(a, pc)
    BY <1>5 DEF ApiProvider
  <2> QED
    BY <1>5, <2>1, GoesTo DEF ApiProvider
<1>6. CASE Store(a)
  BY <1>6, GoesTo DEF Store
<1>7. CASE Finalize(a) \/ Fail(a) \/ Block(a)
  <2>1. PICK step \in {"finalize", "fail", "block"} :
         At(a, step) /\ Goes(a, "done") /\ UNCHANGED suppressionVars
    BY <1>7 DEF Finalize, Fail, Block, Written
  <2> QED
    BY <2>1, GoesTo
<1>8. CASE Crash(a)
  <2> DEFINE next == IF attempts[a].pc \in ApiSteps THEN [attempts[a] EXCEPT !.alive = FALSE] ELSE Over
  <2>1. next \in Attempt
    BY DEF AttemptsTyped, Attempt, Over
  <2>2. next.pc = IF attempts[a].pc \in ApiSteps THEN attempts[a].pc ELSE "done"
    BY DEF AttemptsTyped, Attempt, Over
  <2>3. next.pc \in ApiSteps => next.afterStop = attempts[a].afterStop
    BY DEF AttemptsTyped, Attempt, Over
  <2>4. attempts' = [attempts EXCEPT ![a] = next]
    BY <1>8 DEF Crash
  <2>5. attempts[a].pc \notin {"idle", "done"} /\ UNCHANGED suppressionVars
    BY <1>8 DEF Crash
  <2> HIDE DEF next
  <2>6. attempts'[a] = next /\ AttemptsTyped' /\ \A b \in Attempts : b # a => attempts'[b] = attempts[b]
    BY <2>1, <2>4 DEF AttemptsTyped
  <2> QED
    BY <2>2, <2>3, <2>5, <2>6
<1> QED
  BY <1>1, <1>2, <1>3, <1>4, <1>5, <1>6, <1>7, <1>8 DEF Work

(* The status an event leads to is a status, for the events of the channel. *)
LEMMA NextStatusType ==
  ASSUME channel \in {"sms", "email"}, NEW current \in Statuses, NEW incoming \in EventKinds
  PROVE  NextStatus(current, incoming) \in Statuses
<1>1. CASE channel = "sms"
  BY <1>1 DEF NextStatus, EventKinds, Statuses
<1>2. CASE channel = "email"
  BY <1>2 DEF NextStatus, EventKinds, Statuses
<1> QED
  BY <1>1, <1>2

(* What an event writes: a status, and the receipt it read or the present one. *)
LEMMA EventWrites ==
  ASSUME RowTyped, EventsTyped, NEW e \in Events, EventWrite(e)
  PROVE  /\ RowTyped'
         /\ \/ UNCHANGED lost /\ message'.receipt = message.receipt
            \/ /\ message'.receipt = events[e].receipt
               /\ lost' = (lost \/ (message.receipt /\ ~events[e].receipt))
<1> DEFINE read == events[e]
           status == NextStatus(read.status, read.kind)
<1>1. read \in Event /\ read.pc = "read" /\ read.kind \in EventKinds
  BY DEF EventWrite, EventsTyped
<1>2. read.status \in Statuses /\ read.receipt \in BOOLEAN
  BY <1>1 DEF Event
<1>3. status \in Statuses
  BY <1>1, <1>2, NextStatusType DEF RowTyped
<1>4. UNCHANGED channel
  BY DEF EventWrite
<1>5. \/ message' = [status |-> status, receipt |-> read.receipt]
         /\ lost' = (lost \/ (message.receipt /\ ~read.receipt))
      \/ message' = [message EXCEPT !.status = status] /\ UNCHANGED lost
      \/ message' = message /\ UNCHANGED lost
  BY DEF EventWrite
<1> HIDE DEF status, read
<1>6. CASE message' = [status |-> status, receipt |-> read.receipt]
           /\ lost' = (lost \/ (message.receipt /\ ~read.receipt))
  BY <1>2, <1>3, <1>4, <1>6 DEF RowTyped, read
<1>7. CASE message' = [message EXCEPT !.status = status] /\ UNCHANGED lost
  BY <1>3, <1>4, <1>7 DEF RowTyped
<1>8. CASE message' = message /\ UNCHANGED lost
  BY <1>4, <1>8 DEF RowTyped
<1> QED
  BY <1>5, <1>6, <1>7, <1>8

(* People, the provider, the recipient and time move no attempt; the receipt  *)
(* goes only where lost says so, and the key when no attempt is under way.    *)
LEMMA Outside ==
  ASSUME RowTyped, CallsTyped, EventsTyped, HistoryTyped,
         People \/ Provider \/ Recipient \/ KeyExpires
  PROVE  /\ RowTyped' /\ HistoryTyped'
         /\ UNCHANGED <<attempts, accepted, unguarded>>
         /\ lost => lost'
         /\ message.receipt => message'.receipt \/ lost'
         /\ \/ key' = key
            \/ \A a \in Attempts : At(a, "idle") \/ At(a, "done")
<1>1. CASE People
  <2>1. UNCHANGED <<attempts, accepted, unguarded, key, channel>>
    BY <1>1 DEF People, Create, RequestRead, RequestWrite, RejectRead, RejectWrite, ApproveRead,
       ApproveWrite, ApproveEnqueue, rowVars, workVars, historyVars
  <2>2. \/ UNCHANGED <<message, lost>>
        \/ UNCHANGED lost /\ \E s \in {"pending_approval", "draft", "approved"} :
                                message' = [message EXCEPT !.status = s]
        \/ RejectWrite
    BY <1>1 DEF People, Create, RequestRead, RequestWrite, RejectRead, ApproveRead,
       ApproveWrite, ApproveEnqueue, rowVars, workVars, historyVars
  <2>3. CASE UNCHANGED <<message, lost>>
    BY <2>1, <2>3 DEF RowTyped, HistoryTyped
  <2>4. CASE UNCHANGED lost /\ \E s \in {"pending_approval", "draft", "approved"} :
                                message' = [message EXCEPT !.status = s]
    BY <2>1, <2>4 DEF RowTyped, HistoryTyped, Statuses
  <2>5. CASE RejectWrite
    <3>2. /\ message' = [status |-> "draft", receipt |-> (rejecting = "receipt")]
          /\ lost' = (lost \/ (message.receipt /\ rejecting = "none"))
          /\ rejecting # "idle"
      BY <2>5 DEF RejectWrite
    <3>3. RowTyped' /\ (message'.receipt <=> rejecting = "receipt")
      BY <2>1, <3>2 DEF RowTyped, Statuses
    <3>4. lost' \in BOOLEAN /\ (lost => lost')
      BY <3>2
    <3>5. message.receipt => message'.receipt \/ lost'
      BY <3>2, <3>3 DEF CallsTyped
    <3> QED
      BY <2>1, <3>3, <3>4, <3>5 DEF HistoryTyped
  <2> QED
    BY <2>1, <2>2, <2>3, <2>4, <2>5
<1>2. CASE Provider
  <2>1. ASSUME NEW e \in Events, EventWrite(e)
        PROVE  /\ RowTyped' /\ HistoryTyped' /\ (lost => lost')
               /\ message.receipt => message'.receipt \/ lost'
               /\ UNCHANGED <<attempts, accepted, unguarded, key>>
    BY <2>1, EventWrites DEF EventWrite, workVars, RowTyped, HistoryTyped
  <2>2. \/ \E e \in Events : EventWrite(e)
        \/ UNCHANGED <<channel, message, attempts, accepted, unguarded, key, lost>>
    BY <1>2 DEF Provider, EventRead, EventSuppress, rowVars, workVars, historyVars
  <2>3. CASE UNCHANGED <<channel, message, attempts, accepted, unguarded, key, lost>>
    <3>1. RowTyped' /\ HistoryTyped'
      BY <2>3 DEF RowTyped, HistoryTyped
    <3>2. (lost' <=> lost) /\ message' = message
      BY <2>3
    <3> QED
      BY <2>3, <3>1, <3>2
  <2> QED
    BY <2>1, <2>2, <2>3
<1>3. CASE Recipient
  BY <1>3 DEF Recipient, Elsewhere, rowVars, workVars, historyVars, RowTyped, HistoryTyped
<1>4. CASE KeyExpires
  BY <1>4 DEF KeyExpires, rowVars, historyVars, RowTyped, HistoryTyped
<1> QED
  BY <1>1, <1>2, <1>3, <1>4

(* A step of an attempt, or its worker's death, as far as copies are at stake. *)
LEMMA WorkCopies ==
  ASSUME RowTyped, AttemptsTyped, HistoryTyped, accepted \in Nat,
         NEW a \in Attempts, Work(a) \/ Crash(a)
  PROVE  /\ RowTyped' /\ HistoryTyped'
         /\ (lost => lost') /\ (unguarded => unguarded')
         /\ key => key'
         /\ message.receipt => message'.receipt
         /\ attempts[a].pc = "store" => message'.receipt \/ lost'
         /\ attempts[a].pc = "spend" /\ attempts'[a].pc = "provider"
            => unguarded' \/ (~key /\ key')
         /\ attempts'[a].pc = "call" => attempts[a].pc = "call" \/ ~message.receipt
         /\ \/ UNCHANGED accepted
            \/ /\ accepted' = accepted + 1
               /\ attempts[a].pc = "provider"
               /\ attempts'[a].pc \in WorkerSteps \union {"done"}
               /\ attempts'[a].pc = "store" \/ lost'
<1> USE DEF At, Steps, ApiSteps, WorkerSteps, rowVars, historyVars, RowTyped, HistoryTyped
<1>1. CASE Take(a)
  <2>1. PICK pc \in AfterRead : Goes(a, pc)
    BY <1>1 DEF Take
  <2>2. pc \in {"fail", "finalize", "call"} /\ (pc = "call" => ~message.receipt)
    BY <2>1 DEF AfterRead
  <2> QED
    BY <1>1, <2>1, <2>2, GoesTo DEF Take
<1>2. CASE ApiRead(a)
  <2>1. PICK pc \in {"check", "fail"} : Goes(a, pc)
    BY <1>2 DEF ApiRead
  <2> QED
    BY <1>2, <2>1, GoesTo DEF ApiRead
<1>3. CASE ApiCheck(a)
  <2>1. attempts[a].pc = "check" /\ UNCHANGED <<channel, message, key, accepted, lost, unguarded>>
    BY <1>3 DEF ApiCheck
  <2>2. attempts'[a].pc \in {"spend", "block", "fail", "done"}
    <3>1. CASE MayLeave /\ attempts' = [attempts EXCEPT ![a].pc = "spend", ![a].afterStop = said]
      BY <3>1 DEF AttemptsTyped, Attempt
    <3>2. CASE Goes(a, "block") \/ Goes(a, "fail")
      BY <3>2, GoesTo
    <3> QED
      BY <1>3, <3>1, <3>2 DEF ApiCheck
  <2> QED
    BY <2>1, <2>2
<1>4. CASE ApiSpend(a)
  <2>1. UNCHANGED <<channel, message, accepted, lost, unguarded>> /\ attempts[a].pc = "spend"
    BY <1>4 DEF ApiSpend
  <2>2. CASE UNCHANGED key /\ (Goes(a, "block") \/ Goes(a, "finalize"))
    BY <2>1, <2>2, GoesTo
  <2>3. CASE ~key /\ key' = TRUE /\ \E pc \in {"provider", "block"} : Goes(a, pc)
    BY <2>1, <2>3, GoesTo
  <2> QED
    BY <1>4, <2>2, <2>3 DEF ApiSpend, Duplicate
<1>9. CASE ApiSpendUnguarded(a)
  <2>1. /\ UNCHANGED <<channel, message, accepted, lost, key>> /\ unguarded' = TRUE
        /\ attempts[a].pc = "spend" /\ Goes(a, "provider")
    BY <1>9 DEF ApiSpendUnguarded
  <2> QED
    BY <2>1, GoesTo
<1>5. CASE ApiProvider(a)
  <2>1. UNCHANGED <<channel, message, key, unguarded>> /\ attempts[a].pc = "provider"
    BY <1>5 DEF ApiProvider
  <2>2. CASE Goes(a, "store") /\ accepted' = accepted + 1 /\ lost' = (lost \/ ~attempts[a].alive)
    <3>1. attempts'[a].pc \in {"store", "done"} /\ (attempts[a].alive => attempts'[a].pc = "store")
      BY <2>2, GoesTo
    <3>2. lost' \in BOOLEAN /\ (lost => lost') /\ (~attempts[a].alive => lost')
      BY <2>2
    <3> QED
      BY <2>1, <2>2, <3>1, <3>2
  <2>3. CASE Goes(a, "fail") /\ accepted' = accepted + 1 /\ lost' = TRUE
    BY <2>1, <2>3, GoesTo
  <2>4. CASE Goes(a, "fail") /\ UNCHANGED historyVars
    BY <2>1, <2>4, GoesTo
  <2> QED
    BY <1>5, <2>2, <2>3, <2>4 DEF ApiProvider
<1>6. CASE Store(a)
  <2>1. message' = [message EXCEPT !.receipt = TRUE] /\ Goes(a, "finalize") /\ attempts[a].pc = "store"
        /\ UNCHANGED <<channel, key, accepted, lost, unguarded>>
    BY <1>6 DEF Store
  <2>2. message' \in [status : Statuses, receipt : BOOLEAN] /\ message'.receipt
    BY <2>1
  <2>3. attempts'[a].pc \in {"finalize", "done"}
    BY <2>1, GoesTo
  <2> QED
    BY <2>1, <2>2, <2>3
<1>7. CASE Finalize(a) \/ Fail(a) \/ Block(a)
  <2>1. PICK step \in {"finalize", "fail", "block"}, s \in Statuses :
          /\ At(a, step) /\ Goes(a, "done")
          /\ message' = [message EXCEPT !.status = s]
          /\ UNCHANGED <<channel, key, accepted, lost, unguarded>>
    BY <1>7 DEF Finalize, Fail, Block, Written, Statuses
  <2> QED
    BY <2>1, GoesTo
<1>8. CASE Crash(a)
  <2>1. /\ UNCHANGED <<channel, message, key, accepted, unguarded>>
        /\ lost' = (lost \/ At(a, "store"))
    BY <1>8 DEF Crash
  <2>2. attempts'[a].pc \in {attempts[a].pc, "done"}
    BY <1>8 DEF Crash, AttemptsTyped, Attempt, Over
  <2> QED
    BY <2>1, <2>2
<1> QED
  BY <1>1, <1>2, <1>3, <1>4, <1>5, <1>6, <1>7, <1>8, <1>9 DEF Work

-----------------------------------------------------------------------------
(* One copy.                                                                 *)

(* Whatever happens around the attempts, a copy that left stays covered. *)
LEMMA OutsideKeepsCopies ==
  ASSUME Inv, People \/ Provider \/ Recipient \/ KeyExpires
  PROVE  unguarded' \/ (KeyHeld' /\ OneAtProvider' /\ (lost' \/ CopyCovered'))
<1> SUFFICES ASSUME ~unguarded' PROVE KeyHeld' /\ OneAtProvider' /\ (lost' \/ CopyCovered')
  OBVIOUS
<1> USE DEF At
<1>1. /\ UNCHANGED <<attempts, accepted, unguarded>>
      /\ lost => lost'
      /\ message.receipt => message'.receipt \/ lost'
      /\ (key' <=> key) \/ \A a \in Attempts : attempts[a].pc \in {"idle", "done"}
  BY Outside DEF Inv, Types
<1>2. KeyHeld /\ OneAtProvider /\ (lost \/ CopyCovered)
  BY <1>1 DEF Inv
<1>3. KeyHeld' /\ OneAtProvider'
  BY <1>1, <1>2 DEF KeyHeld, OneAtProvider
<1>4. ASSUME ~lost' PROVE CopyCovered'
  BY <1>1, <1>2, <1>4 DEF CopyCovered, Covered
<1> QED
  BY <1>3, <1>4

(* One attempt at a time gets past the key while Redis guards it. *)
LEMMA WorkKeepsKey ==
  ASSUME Inv, ~unguarded', NEW a \in Attempts, Work(a) \/ Crash(a)
  PROVE  KeyHeld' /\ OneAtProvider'
<1> USE DEF At
<1>1. said \in BOOLEAN
  BY FlagsApart DEF Inv, OptOutKept
<1>2. /\ \A b \in Attempts : b # a => attempts'[b] = attempts[b]
      /\ attempts'[a].pc = "provider" => attempts[a].pc \in {"spend", "provider"}
      /\ attempts'[a].pc = "store" => attempts[a].pc = "provider"
  BY <1>1, WorkMoves DEF Inv, Types
<1>3. /\ key => key'
      /\ attempts[a].pc = "spend" /\ attempts'[a].pc = "provider" => ~key /\ key'
      /\ KeyHeld /\ OneAtProvider
  BY WorkCopies DEF Inv, Types, CopiesBacked
<1>4. KeyHeld'
  BY <1>2, <1>3 DEF KeyHeld
<1>5. OneAtProvider'
  BY <1>2, <1>3 DEF KeyHeld, OneAtProvider
<1> QED
  BY <1>4, <1>5

(* No step of an attempt uncovers the copy that left, but for a lost receipt. *)
LEMMA WorkKeepsCover ==
  ASSUME Inv, ~unguarded', NEW a \in Attempts, Work(a) \/ Crash(a)
  PROVE  lost' \/ CopyCovered'
<1> SUFFICES ASSUME ~lost' PROVE CopyCovered'
  OBVIOUS
<1> USE DEF At
<1>1. said \in BOOLEAN /\ accepted \in Nat
  BY FlagsApart DEF Inv, OptOutKept, Types, CopiesBacked
<1>2. /\ \A b \in Attempts : b # a => attempts'[b] = attempts[b]
      /\ attempts'[a].pc = "provider" => attempts[a].pc \in {"spend", "provider"}
      /\ attempts'[a].pc = "check" => attempts[a].pc \in {"call", "check"}
      /\ attempts'[a].pc = "spend" => attempts[a].pc \in {"check", "spend"}
  BY <1>1, WorkMoves DEF Inv, Types
<1>3. /\ lost => lost'
      /\ key => key'
      /\ message.receipt => message'.receipt
      /\ attempts[a].pc = "store" => message'.receipt \/ lost'
      /\ attempts[a].pc = "spend" /\ attempts'[a].pc = "provider" => ~key /\ key'
      /\ attempts'[a].pc = "call" => attempts[a].pc = "call" \/ ~message.receipt
      /\ \/ accepted' = accepted
         \/ /\ accepted' = accepted + 1
            /\ attempts[a].pc = "provider"
            /\ attempts'[a].pc = "store" \/ lost'
  BY <1>1, WorkCopies DEF Inv, Types
<1>4. CopyCovered /\ KeyHeld /\ OneAtProvider
  BY <1>3, WorkCopies DEF Inv, Types, CopiesBacked
<1>5. CASE accepted' = accepted
  <2> SUFFICES ASSUME Covered PROVE Covered'
    BY <1>4, <1>5 DEF CopyCovered
  <2>1. (message.receipt \/ \E b \in Attempts : At(b, "store"))'
    BY <1>2, <1>3 DEF Covered
  <2>2. \A b \in Attempts : attempts'[b].pc # "provider"
    BY <1>2, <1>3 DEF Covered
  <2>3. ~message.receipt => key
    BY <1>4 DEF Covered, KeyHeld
  <2>4. key' \/ \A b \in Attempts : attempts'[b].pc \notin {"call", "check", "spend"}
    BY <1>2, <1>3, <2>3 DEF Covered
  <2> QED
    BY <2>1, <2>2, <2>4 DEF Covered
<1>6. CASE accepted' = accepted + 1 /\ attempts[a].pc = "provider" /\ attempts'[a].pc = "store"
  <2>1. accepted = 0
    BY <1>1, <1>4, <1>6 DEF CopyCovered, Covered
  <2>2. \A b \in Attempts : attempts'[b].pc # "provider"
    BY <1>2, <1>4, <1>6 DEF OneAtProvider
  <2>3. key'
    BY <1>3, <1>4, <1>6 DEF KeyHeld
  <2> QED
    BY <1>6, <2>1, <2>2, <2>3 DEF CopyCovered, Covered
<1> QED
  BY <1>3, <1>5, <1>6

(* The copies are no more than the attempts past the provider. *)
LEMMA CopiesCount ==
  ASSUME Inv, Next
  PROVE  CopiesBacked'
<1>1. Past \in SUBSET Attempts /\ Cardinality(Past) \in Nat
  BY Finite, SubsetCounts DEF Past
<1>2. CASE UNCHANGED <<attempts, accepted>>
  BY <1>2 DEF Inv, Types, CopiesBacked, Past
<1>3. ASSUME NEW a \in Attempts, Work(a) \/ Crash(a) PROVE CopiesBacked'
  <2>1. said \in BOOLEAN /\ accepted \in Nat
    BY FlagsApart DEF Inv, OptOutKept, Types, CopiesBacked
  <2>2. /\ \A b \in Attempts : b # a => attempts'[b] = attempts[b]
        /\ attempts[a].pc \in WorkerSteps => attempts'[a].pc \in WorkerSteps \union {"done"}
        /\ attempts[a].pc # "done"
    BY <1>3, <2>1, WorkMoves DEF Inv, Types
  <2>3. \/ accepted' = accepted
        \/ /\ accepted' = accepted + 1
           /\ attempts[a].pc = "provider"
           /\ attempts'[a].pc \in WorkerSteps \union {"done"}
    BY <1>3, <2>1, WorkCopies DEF Inv, Types
  <2>4. Past' \in SUBSET Attempts /\ Past \subseteq Past'
    BY <2>2 DEF Past
  <2>5. Cardinality(Past') \in Nat /\ Cardinality(Past) <= Cardinality(Past')
    BY <1>1, <2>4, Finite, SubsetCounts
  <2>6. CASE accepted' = accepted
    BY <1>1, <2>1, <2>5, <2>6 DEF Inv, Types, CopiesBacked
  <2>7. CASE accepted' = accepted + 1 /\ attempts[a].pc = "provider"
             /\ attempts'[a].pc \in WorkerSteps \union {"done"}
    <3>1. a \in Attempts \ Past /\ Past \union {a} \in SUBSET Attempts /\ Past \union {a} \subseteq Past'
      BY <2>4, <2>7 DEF Past, WorkerSteps
    <3>2. Cardinality(Past \union {a}) = Cardinality(Past) + 1
      BY <1>1, <3>1, Finite, SubsetCounts
    <3>3. Cardinality(Past \union {a}) <= Cardinality(Past')
      BY <2>4, <3>1, Finite, SubsetCounts
    <3> QED
      BY <1>1, <2>1, <2>5, <2>7, <3>2, <3>3 DEF Inv, Types, CopiesBacked
  <2> QED
    BY <2>3, <2>6, <2>7
<1>4. CASE People \/ Provider \/ Recipient \/ KeyExpires
  BY <1>2, <1>4, Outside DEF Inv, Types
<1> QED
  BY <1>3, <1>4, StepCases

-----------------------------------------------------------------------------
(* No copy after an opt-out: what leaves was checked against the list.       *)
LEMMA OptOutHolds ==
  ASSUME Inv, Next
  PROVE  OptOutKept' /\ NoSendAfterOptOut'
<1>1. said \in BOOLEAN
  BY FlagsApart DEF Inv, OptOutKept
<1>2. CASE People \/ Provider \/ Recipient \/ KeyExpires
  <2>1. OptOutKept' /\ (operatorFirst => operatorFirst')
    <3>1. \/ \E source \in Sources : ListOptOut(source)
          \/ SuppressionBegins \/ SuppressionContinues \/ UNCHANGED suppressionVars
      BY <1>2 DEF People, Create, RequestRead, RequestWrite, RejectRead, RejectWrite, ApproveRead,
         ApproveWrite, ApproveEnqueue, Provider, EventRead, EventWrite, EventSuppress, Recipient,
         KeyExpires, Sources
    <3> QED
      BY <3>1, SuppressionStepKeeps DEF Inv
  <2>2. UNCHANGED attempts
    BY <1>2, Outside DEF Inv, Types
  <2> QED
    BY <2>1, <2>2 DEF Inv, NoSendAfterOptOut
<1>3. ASSUME NEW a \in Attempts, Work(a) \/ Crash(a)
      PROVE  OptOutKept' /\ NoSendAfterOptOut'
  <2>1. /\ \A b \in Attempts : b # a => attempts'[b] = attempts[b]
        /\ attempts'[a].pc \in {"spend", "provider", "store"} /\ attempts'[a].afterStop
           => \/ attempts[a].pc \in {"spend", "provider", "store"} /\ attempts[a].afterStop
              \/ said /\ Sendable
        /\ UNCHANGED suppressionVars
    BY <1>1, <1>3, WorkMoves DEF Inv, Types
  <2>2. OptOutKept' /\ (operatorFirst' <=> operatorFirst)
    BY <2>1, SuppressionStepKeeps DEF Inv, suppressionVars
  <2>3. said /\ Sendable => operatorFirst
    BY DEF Inv, OptOutKept, Sendable
  <2> QED
    BY <2>1, <2>2, <2>3 DEF Inv, NoSendAfterOptOut
<1> QED
  BY <1>2, <1>3, StepCases

-----------------------------------------------------------------------------
(* The queue, the calls and the events.                                      *)

(* Approvals, rejections and requests go through their own steps. *)
LEMMA CallsKept ==
  ASSUME Inv, Next
  PROVE  CallsTyped'
<1>1. calls' \in 0..MaxCalls
  BY CallsCount DEF Inv, Types
<1>2. CASE UNCHANGED callVars
  BY <1>1, <1>2 DEF Inv, Types, CallsTyped, callVars
<1>3. CASE People
  <2>1. /\ requesting' \in BOOLEAN
        /\ rejecting' \in {"idle", "receipt", "none"}
        /\ \/ UNCHANGED approving
           \/ \E c \in Approvals, pc \in {"read", "written", "done"} :
                approving' = [approving EXCEPT ![c] = pc]
    BY <1>3 DEF People, Create, RequestRead, RequestWrite, RejectRead, RejectWrite, ApproveRead,
       ApproveWrite, ApproveEnqueue, rowVars, callVars, Inv, Types, CallsTyped
  <2>2. approving' \in [Approvals -> {"idle", "read", "written", "done"}]
    BY <2>1 DEF Inv, Types, CallsTyped
  <2> QED
    BY <1>1, <2>1, <2>2 DEF CallsTyped
<1>4. CASE Provider \/ Recipient \/ KeyExpires
  BY <1>2, <1>4 DEF Provider, EventRead, EventWrite, EventSuppress, Recipient, Elsewhere, KeyExpires
<1>5. ASSUME NEW a \in Attempts, Work(a) \/ Crash(a) PROVE CallsTyped'
  BY <1>2, <1>5 DEF Work, Crash, Take, ApiRead, ApiCheck, ApiSpend, ApiSpendUnguarded, ApiProvider, Store, Finalize,
     Fail, Block, Written
<1> QED
  BY <1>3, <1>4, <1>5, StepCases

(* An event keeps the kind its channel has. *)
LEMMA EventsKept ==
  ASSUME Inv, Next
  PROVE  EventsTyped'
<1>1. UNCHANGED channel
  BY StepCases DEF People, Create, RequestRead, RequestWrite, RejectRead, RejectWrite, ApproveRead,
     ApproveWrite, ApproveEnqueue, Provider, EventRead, EventWrite, EventSuppress, Recipient,
     Elsewhere, KeyExpires, Work, Crash, Take, ApiRead, ApiCheck, ApiSpend, ApiSpendUnguarded, ApiProvider, Store,
     Finalize, Fail, Block, Written, rowVars
<1>2. CASE UNCHANGED events
  BY <1>1, <1>2 DEF Inv, Types, EventsTyped, EventKinds
<1>3. CASE Provider
  <2>1. ASSUME NEW e \in Events, NEW kind \in EventKinds, EventRead(e, kind)
        PROVE  EventsTyped'
    <3> DEFINE read == [pc |-> "read", kind |-> kind, status |-> message.status,
                        receipt |-> message.receipt]
    <3>1. read \in Event /\ read.kind \in EventKinds
      BY DEF Event, EventKinds, Inv, Types, RowTyped
    <3>2. events' = [events EXCEPT ![e] = read]
      BY <2>1 DEF EventRead
    <3> HIDE DEF read
    <3> QED
      BY <1>1, <3>1, <3>2 DEF Inv, Types, EventsTyped, EventKinds
  <2>2. ASSUME NEW e \in Events, EventWrite(e) PROVE EventsTyped'
    <3>1. PICK pc \in {"bounced", "done"} : events' = [events EXCEPT ![e] = EventAt(pc)]
      BY <2>2 DEF EventWrite
    <3>2. EventAt(pc) \in Event /\ EventAt(pc).pc # "read"
      BY DEF EventAt, Event, Statuses
    <3> QED
      BY <1>1, <3>1, <3>2 DEF Inv, Types, EventsTyped, EventKinds
  <2>3. ASSUME NEW e \in Events, EventSuppress(e) PROVE EventsTyped'
    <3> DEFINE done == [events[e] EXCEPT !.pc = "done"]
    <3>1. done \in Event /\ done.pc = "done"
      BY DEF Inv, Types, EventsTyped, Event
    <3>2. events' = [events EXCEPT ![e] = done]
      BY <2>3 DEF EventSuppress
    <3> HIDE DEF done
    <3> QED
      BY <1>1, <3>1, <3>2 DEF Inv, Types, EventsTyped, EventKinds
  <2> QED
    BY <1>3, <2>1, <2>2, <2>3 DEF Provider
<1>4. CASE People \/ Recipient \/ KeyExpires
  BY <1>2, <1>4 DEF People, Create, RequestRead, RequestWrite, RejectRead, RejectWrite, ApproveRead,
     ApproveWrite, ApproveEnqueue, Recipient, Elsewhere, KeyExpires
<1>5. ASSUME NEW a \in Attempts, Work(a) \/ Crash(a) PROVE EventsTyped'
  BY <1>2, <1>5 DEF Work, Crash, Take, ApiRead, ApiCheck, ApiSpend, ApiSpendUnguarded, ApiProvider, Store, Finalize,
     Fail, Block, Written
<1> QED
  BY <1>3, <1>4, <1>5, StepCases

(* A job comes by an approval or a death, and goes when it is taken. *)
LEMMA QueueKept ==
  ASSUME Inv, Next
  PROVE  QueueBacked'
<1>1. /\ approving \in [Approvals -> {"idle", "read", "written", "done"}]
      /\ queue \in Nat /\ faults \in 0..MaxFaults
      /\ queue <= Cardinality(Enqueued) + faults
  BY DEF Inv, Types, CallsTyped, QueueBacked
<1>2. /\ Enqueued \in SUBSET Approvals /\ Cardinality(Enqueued) \in Nat
      /\ Enqueued' \in SUBSET Approvals /\ Cardinality(Enqueued') \in Nat
  BY Finite, SubsetCounts DEF Enqueued
<1>3. CASE UNCHANGED <<approving, queue, faults>>
  BY <1>1, <1>3 DEF QueueBacked, Enqueued
<1>4. ASSUME NEW c \in Approvals, ApproveRead(c) \/ ApproveWrite(c) PROVE QueueBacked'
  <2>1. /\ approving[c] # "done" /\ UNCHANGED <<queue, faults>>
        /\ \E pc \in {"read", "written", "done"} : approving' = [approving EXCEPT ![c] = pc]
    BY <1>4 DEF ApproveRead, ApproveWrite, workVars
  <2>2. Enqueued \subseteq Enqueued'
    BY <1>1, <2>1 DEF Enqueued
  <2>3. Cardinality(Enqueued) <= Cardinality(Enqueued')
    BY <1>2, <2>2, Finite, SubsetCounts
  <2> QED
    BY <1>1, <1>2, <2>1, <2>3, Bounds DEF QueueBacked
<1>5. ASSUME NEW c \in Approvals, ApproveEnqueue(c) PROVE QueueBacked'
  <2>1. /\ approving[c] = "written" /\ queue' \in {queue, queue + 1} /\ UNCHANGED faults
        /\ approving' = [approving EXCEPT ![c] = "done"]
    BY <1>5 DEF ApproveEnqueue
  <2>2. c \in Approvals \ Enqueued /\ Enqueued' = Enqueued \union {c}
    BY <1>1, <2>1 DEF Enqueued
  <2>3. Cardinality(Enqueued') = Cardinality(Enqueued) + 1
    BY <1>2, <2>2, Finite, SubsetCounts
  <2> QED
    BY <1>1, <1>2, <2>1, <2>3, Bounds DEF QueueBacked
<1>6. CASE People
  BY <1>3, <1>4, <1>5, <1>6 DEF People, Create, RequestRead, RequestWrite, RejectRead, RejectWrite,
     callVars, workVars
<1>7. CASE Provider \/ Recipient \/ KeyExpires
  BY <1>3, <1>7 DEF Provider, EventRead, EventWrite, EventSuppress, Recipient, Elsewhere, KeyExpires,
     callVars, workVars
<1>8. ASSUME NEW a \in Attempts, Work(a) PROVE QueueBacked'
  <2>1. /\ UNCHANGED approving
        /\ \/ UNCHANGED <<faults, queue>>
           \/ UNCHANGED faults /\ queue > 0 /\ queue' = queue - 1
           \/ UNCHANGED queue /\ faults < MaxFaults /\ faults' = faults + 1
    BY <1>8 DEF Work, Take, ApiRead, ApiCheck, ApiSpend, ApiSpendUnguarded, ApiProvider, Store,
       Finalize, Fail, Block, Written, callVars
  <2>2. Enqueued' = Enqueued
    BY <2>1 DEF Enqueued
  <2> QED
    BY <1>1, <1>2, <2>1, <2>2, Bounds DEF QueueBacked
<1>9. ASSUME NEW a \in Attempts, Crash(a) PROVE QueueBacked'
  <2>1. UNCHANGED approving /\ queue' = queue + 1 /\ faults < MaxFaults /\ faults' = faults + 1
    BY <1>9 DEF Crash, callVars
  <2>2. Enqueued' = Enqueued
    BY <2>1 DEF Enqueued
  <2> QED
    BY <1>1, <1>2, <2>1, <2>2, Bounds DEF QueueBacked
<1> QED
  BY <1>6, <1>7, <1>8, <1>9, StepCases

-----------------------------------------------------------------------------
(* Every step keeps the invariant. *)
LEMMA StepInv == Inv /\ [Next]_vars => Inv'
<1> SUFFICES ASSUME Inv, [Next]_vars PROVE Inv'
  OBVIOUS
<1>1. CASE Next
  <2>1. RowTyped' /\ AttemptsTyped' /\ HistoryTyped'
    <3>1. ASSUME NEW a \in Attempts, Work(a) \/ Crash(a)
          PROVE  RowTyped' /\ AttemptsTyped' /\ HistoryTyped'
      BY <3>1, WorkMoves, WorkCopies, FlagsApart DEF Inv, Types, OptOutKept, CopiesBacked
    <3>2. CASE People \/ Provider \/ Recipient \/ KeyExpires
      BY <3>2, Outside DEF Inv, Types, AttemptsTyped
    <3> QED
      BY <1>1, <3>1, <3>2, StepCases
  <2>2. unguarded' \/ (KeyHeld' /\ OneAtProvider' /\ (lost' \/ CopyCovered'))
    BY <1>1, StepCases, OutsideKeepsCopies, WorkKeepsKey, WorkKeepsCover
  <2> QED
    BY <1>1, <2>1, <2>2, CallsKept, EventsKept, QueueKept, CopiesCount, OptOutHolds DEF Inv, Types
<1>2. CASE UNCHANGED vars
  <2>1. Types'
    BY <1>2 DEF vars, rowVars, callVars, workVars, historyVars, Inv, Types, RowTyped, CallsTyped,
       AttemptsTyped, EventsTyped, EventKinds, QueueBacked, Enqueued, CopiesBacked, Past, HistoryTyped
  <2>2. OptOutKept'
    BY <1>2 DEF vars, suppressionVars, Inv, OptOutKept, SuppressionTypeOK
  <2> QED
    BY <1>2, <2>1, <2>2 DEF vars, suppressionVars, rowVars, workVars, historyVars, Inv, KeyHeld,
       OneAtProvider, CopyCovered, Covered, NoSendAfterOptOut, At
<1> QED
  BY <1>1, <1>2

(* So it always holds. *)
LEMMA InvHolds == Spec => []Inv
BY InitInv, StepInv, PTL DEF Spec

(* The row, the calls, the attempts and the events hold only values of their  *)
(* types, and no more jobs wait than were enqueued or handed out again: an    *)
(* event of a text never reads as one of an email.                            *)
THEOREM MessageTypeCorrect == Spec => []TypeOK
<1>1. Inv => TypeOK
  BY TypesAreTypeOK DEF Inv, OptOutKept
<1> QED
  BY <1>1, InvHolds, PTL

(* However many approvals, replays, deaths, rejections and callbacks: a second *)
(* copy leaves only after a receipt was lost or Redis did not guard a send.   *)
THEOREM OneCopyUnlessReceiptLost == Spec => []SecondCopyNeedsLostReceipt
<1>1. Inv => SecondCopyNeedsLostReceipt
  BY DEF Inv, Types, CopiesBacked, CopyCovered, SecondCopyNeedsLostReceipt
<1> QED
  BY <1>1, InvHolds, PTL

(* No copy leaves on checks made after the recipient opted out, unless an     *)
(* operator's entry was on the list before theirs.                            *)
THEOREM OptOutIsHonoured == Spec => []NoSendAfterOptOut
<1>1. Inv => NoSendAfterOptOut
  BY DEF Inv
<1> QED
  BY <1>1, InvHolds, PTL

(* What the recipient put on the list stays there.                            *)
THEOREM RecipientsEntryStays ==
  Spec => [][dnc = "recipient" => dnc' = "recipient"]_vars
<1>1. Inv /\ [Next]_vars => [dnc = "recipient" => dnc' = "recipient"]_vars
  <2> SUFFICES ASSUME Inv, Next, dnc = "recipient" PROVE dnc' = "recipient"
    OBVIOUS
  <2>1. ~removing
    BY DEF Inv, OptOutKept
  <2>2. CASE UNCHANGED suppressionVars
    BY <2>2 DEF suppressionVars
  <2>3. ASSUME NEW source \in Sources, ListOptOut(source) PROVE dnc' = "recipient"
    BY <2>3 DEF ListOptOut, Listed
  <2>4. CASE SuppressionBegins \/ SuppressionContinues
    BY <2>1, <2>3, <2>4 DEF SuppressionBegins, SuppressionContinues, ConsentCheck, RevokeLeadConsent,
       UnsuppressRead, UnsuppressDelete, ChecksChange, RevokeConsents, ConsentWrite
  <2>5. \/ \E source \in Sources : ListOptOut(source)
        \/ SuppressionBegins \/ SuppressionContinues \/ UNCHANGED suppressionVars
    BY StepCases DEF People, Create, RequestRead, RequestWrite, RejectRead, RejectWrite, ApproveRead,
       ApproveWrite, ApproveEnqueue, Provider, EventRead, EventWrite, EventSuppress, Recipient,
       KeyExpires, Sources, Work, Crash, Take, ApiRead, ApiCheck, ApiSpend, ApiSpendUnguarded, ApiProvider, Store,
       Finalize, Fail, Block, Written
  <2> QED
    BY <2>2, <2>3, <2>4, <2>5
<1> QED
  BY <1>1, InvHolds, PTL DEF Spec

=============================================================================
