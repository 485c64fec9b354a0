----------------------------- MODULE Envelopes -----------------------------
(***************************************************************************)
(* Seller contracts signed through DocuSign, opened at every await: the    *)
(* call that sends an envelope, DocuSign and its Connect events, the        *)
(* handlers that file what was signed (webhook, status refresh and manual   *)
(* pull), and the people who record, execute or end a contract meanwhile.   *)
(* One deal; an agreement is a purchase_agreements row, in createdAt order. *)
(***************************************************************************)
EXTENDS Naturals, Sequences

CONSTANTS
    Envelope,    \* seller envelopes of the deal
    NoEnvelope,  \* contractId of an agreement signed on paper
    Handler,     \* calls that may be in flight at once about what DocuSign did
    Person,      \* people: one markExecuted or terminate each, and one record, in this order
    MaxPulls,    \* bound: refreshes and manual pulls
    MaxCrashes   \* bound: calls that die half-way

ASSUME EnvelopeAssumption ==
    NoEnvelope \notin Envelope /\ MaxPulls \in Nat /\ MaxCrashes \in Nat

VARIABLES
    agreements,  \* the deal's purchase_agreements rows
    envelope,    \* where each envelope is at DocuSign
    events,      \* Connect events DocuSign has not had an answer to
    contract,    \* the contracts row of each envelope, and whether its metadata names a
                 \* signed copy; no handler reads the status it shows
    docs,        \* signed copies of each envelope in the library
    sender,      \* createEnvelope
    handler,     \* webhooks, refreshes and pulls
    person,      \* record, markExecuted and terminate
    pulls,       \* refreshes and pulls so far
    crashes,     \* calls that died so far
    overlapped,  \* history: envelopes two handlers were on at once, or whose copy was lost
    revived,     \* history: agreements a completion found ended, and executed
    raced        \* history: two creations overlapped, or an agreement was written that,
                 \* since the call read it, had been ended, or signed before its envelope
                 \* was linked

vars == <<agreements, envelope, events, contract, docs, sender, handler, person,
          pulls, crashes, overlapped, revived, raced>>

\* Every handler treats delivered as sent, and voided as declined.
EnvelopeStatus == {"sent", "completed", "declined"}

AgreementStatus == {"draft", "sent", "executed", "ended"}

Open == {"draft", "sent", "executed"}

SenderPoint == {"idle", "row", "read", "ask", "link", "create", "done"}

HandlerPoint == {"idle", "status", "store", "download", "file", "sign", "signing", "find", "execute"}

PersonPoint == {"idle", "signing", "ending", "decided", "recording", "done"}

TypeOK ==
    /\ agreements \in Seq([status: AgreementStatus, contract: Envelope \cup {NoEnvelope}])
    /\ envelope \in [Envelope -> EnvelopeStatus \cup {"none"}]
    /\ events \in SUBSET (Envelope \X EnvelopeStatus)
    /\ contract \in [Envelope -> [row: BOOLEAN, copy: BOOLEAN]]
    /\ docs \in [Envelope -> Nat]
    /\ sender \in [Envelope -> [pc: SenderPoint, row: Nat, read: AgreementStatus]]
    /\ handler \in [Handler -> [pc: HandlerPoint, env: Envelope \cup {NoEnvelope},
                                by: {"webhook", "person", "pull"},
                                status: EnvelopeStatus, copy: BOOLEAN, row: Nat,
                                read: AgreementStatus]]
    /\ person \in [Person -> [pc: PersonPoint, row: Nat]]
    /\ pulls \in 0..MaxPulls /\ crashes \in 0..MaxCrashes
    /\ overlapped \subseteq Envelope /\ revived \subseteq Nat /\ raced \in BOOLEAN
    \* rows that calls hold exist, and so does the contract of what is handled
    /\ \A e \in Envelope : sender[e].pc = "link" => sender[e].row \in DOMAIN agreements
    /\ \A h \in Handler : handler[h].pc = "execute" => handler[h].row \in DOMAIN agreements
    /\ \A p \in Person : person[p].pc \in {"signing", "ending"} => person[p].row \in DOMAIN agreements
    /\ \A h \in Handler : handler[h].pc # "idle" =>
        /\ handler[h].env \in Envelope
        /\ contract[handler[h].env].row

NoCall == [pc |-> "idle", env |-> NoEnvelope, by |-> "webhook", status |-> "sent",
           copy |-> FALSE, row |-> 0, read |-> "draft"]

Init ==
    /\ agreements = << >>
    /\ envelope = [e \in Envelope |-> "none"]
    /\ events = {}
    /\ contract = [e \in Envelope |-> [row |-> FALSE, copy |-> FALSE]]
    /\ docs = [e \in Envelope |-> 0]
    /\ sender = [e \in Envelope |-> [pc |-> "idle", row |-> 0, read |-> "draft"]]
    /\ handler = [h \in Handler |-> NoCall]
    /\ person = [p \in Person |-> [pc |-> "idle", row |-> 0]]
    /\ pulls = 0 /\ crashes = 0
    /\ overlapped = {} /\ revived = {} /\ raced = FALSE

----------------------------------------------------------------------------
\* The agreements table.

RowsIn(statuses) == {i \in DOMAIN agreements : agreements[i].status \in statuses}

Latest(i, rows) == \A j \in rows : j <= i

\* terminate leaves the row where a late write by id still finds it.
Ended(i) == agreements[i].status = "ended"

SetStatus(i, status) == agreements' = [agreements EXCEPT ![i].status = status]

Create(status, e) == agreements' = Append(agreements, [status |-> status, contract |-> e])

\* Calls between finding no open agreement and creating one.
Creating ==
    \/ \E e \in Envelope : sender[e].pc \in {"ask", "create"}
    \/ \E p \in Person : person[p].pc = "recording"

----------------------------------------------------------------------------
\* DocuSign.  Every change is announced; an event stays until it is answered.

Announce(e, status) ==
    /\ envelope' = [envelope EXCEPT ![e] = status]
    /\ events' = events \cup {<<e, status>>}

Recipients(e) ==
    /\ envelope[e] = "sent"
    /\ \E outcome \in {"completed", "declined"} : Announce(e, outcome)
    /\ UNCHANGED <<agreements, contract, docs, sender, handler, person, pulls, crashes, overlapped, revived, raced>>

----------------------------------------------------------------------------
\* createEnvelope, and PurchaseAgreementsService.onEnvelopeSent at its end.

SenderTo(e, pc) == sender' = [sender EXCEPT ![e] = [pc |-> pc, row |-> 0, read |-> "draft"]]

Post(e) ==
    /\ sender[e].pc = "idle"
    /\ Announce(e, "sent")
    /\ SenderTo(e, "row")
    /\ UNCHANGED <<agreements, contract, docs, handler, person, pulls, crashes, overlapped, revived, raced>>

CreateRow(e) ==
    /\ sender[e].pc = "row"
    /\ contract' = [contract EXCEPT ![e] = [row |-> TRUE, copy |-> FALSE]]
    /\ SenderTo(e, "read")
    /\ UNCHANGED <<agreements, envelope, events, docs, handler, person, pulls, crashes, overlapped, revived, raced>>

\* What an envelope may be linked to (mutant: whatever is not over).
LinkableWhenOpen == RowsIn(Open)
Linkable == RowsIn({"draft", "sent"})

ReadDraft(e) ==
    /\ sender[e].pc = "read"
    /\ \/ /\ \E i \in Linkable :
                /\ Latest(i, Linkable)
                /\ sender' = [sender EXCEPT ![e] = [pc |-> "link", row |-> i, read |-> agreements[i].status]]
          /\ UNCHANGED raced
       \/ /\ Linkable = {}
          /\ SenderTo(e, "ask")
          /\ raced' = (raced \/ Creating)
    /\ UNCHANGED <<agreements, envelope, events, contract, docs, handler, person, pulls, crashes, overlapped, revived>>

\* An envelope on an executed deal is an amendment: recorded on its row only.
AskExecuted(e) ==
    /\ sender[e].pc = "ask"
    /\ SenderTo(e, IF RowsIn({"executed"}) = {} THEN "create" ELSE "done")
    /\ UNCHANGED <<agreements, envelope, events, contract, docs, handler, person, pulls, crashes, overlapped, revived, raced>>

Link(e) ==
    /\ sender[e].pc = "link"
    /\ agreements' = [agreements EXCEPT ![sender[e].row] = [status |-> "sent", contract |-> e]]
    /\ raced' = (raced \/ sender[e].row \notin Linkable)
    /\ SenderTo(e, "done")
    /\ UNCHANGED <<envelope, events, contract, docs, handler, person, pulls, crashes, overlapped, revived>>

CreateSent(e) ==
    /\ sender[e].pc = "create"
    /\ Create("sent", e)
    /\ SenderTo(e, "done")
    /\ UNCHANGED <<envelope, events, contract, docs, handler, person, pulls, crashes, overlapped, revived, raced>>

SenderDies(e) ==
    /\ crashes < MaxCrashes
    /\ sender[e].pc \notin {"idle", "done"}
    /\ SenderTo(e, "done")
    /\ crashes' = crashes + 1
    /\ UNCHANGED <<agreements, envelope, events, contract, docs, handler, person, pulls, overlapped, revived, raced>>

Send(e) == Post(e) \/ CreateRow(e) \/ ReadDraft(e) \/ AskExecuted(e) \/ Link(e) \/ CreateSent(e)

----------------------------------------------------------------------------
\* People: record, markExecuted and terminate of PurchaseAgreementsService.

\* record creates only when this holds (mutant: a sent contract is overlooked).
NoneWritten == RowsIn({"draft", "executed"}) = {}
NoneOpen == RowsIn(Open) = {}

PersonTo(p, pc) == person' = [person EXCEPT ![p] = [pc |-> pc, row |-> 0]]

RecordCheck(p) ==
    /\ person[p].pc \in {"idle", "decided"}
    /\ NoneOpen
    /\ PersonTo(p, "recording")
    /\ raced' = (raced \/ Creating)
    /\ UNCHANGED <<agreements, envelope, events, contract, docs, sender, handler, pulls, crashes, overlapped, revived>>

RecordCreate(p) ==
    /\ person[p].pc = "recording"
    /\ \E status \in {"draft", "executed"} : Create(status, NoEnvelope)
    /\ PersonTo(p, "done")
    /\ UNCHANGED <<envelope, events, contract, docs, sender, handler, pulls, crashes, overlapped, revived, raced>>

\* openAgreement, at the head of markExecuted and of terminate.
OpenAgreement(p) ==
    /\ person[p].pc = "idle"
    /\ \E i \in RowsIn(Open), pc \in {"signing", "ending"} :
        /\ Latest(i, RowsIn(Open))
        /\ person' = [person EXCEPT ![p] = [pc |-> pc, row |-> i]]
    /\ UNCHANGED <<agreements, envelope, events, contract, docs, sender, handler, pulls, crashes, overlapped, revived, raced>>

MarkExecuted(p) ==
    /\ person[p].pc = "signing"
    /\ SetStatus(person[p].row, "executed")
    /\ raced' = (raced \/ Ended(person[p].row))
    /\ PersonTo(p, "decided")
    /\ UNCHANGED <<envelope, events, contract, docs, sender, handler, pulls, crashes, overlapped, revived>>

Terminate(p) ==
    /\ person[p].pc = "ending"
    /\ SetStatus(person[p].row, "ended")
    /\ PersonTo(p, "decided")
    /\ UNCHANGED <<envelope, events, contract, docs, sender, handler, pulls, crashes, overlapped, revived, raced>>

Decide(p) == RecordCheck(p) \/ RecordCreate(p) \/ OpenAgreement(p) \/ MarkExecuted(p) \/ Terminate(p)

----------------------------------------------------------------------------
\* The three ways in: a Connect event, a status refresh, a manual pull.

Start(h, call) ==
    /\ handler[h].pc = "idle"
    /\ handler' = [handler EXCEPT ![h] = call]
    /\ overlapped' = overlapped \cup
        {e \in {call.env} : \E g \in Handler : handler[g].pc # "idle" /\ handler[g].env = e}

\* Only an envelope with a row is handled (mutant: the row is taken for granted).
RowAssumed(e) == TRUE
HasRow(e) == contract[e].row

\* The event of an envelope without a row is answered all the same.
Ignore(m) ==
    /\ m \in events
    /\ ~HasRow(m[1])
    /\ events' = events \ {m}
    /\ UNCHANGED <<agreements, envelope, contract, docs, sender, handler, person, pulls, crashes, overlapped, revived, raced>>

\* DocuSign may repeat an event that is still being handled.
Deliver(h, m) ==
    /\ m \in events
    /\ HasRow(m[1])
    /\ Start(h, [pc |-> "status", env |-> m[1], by |-> "webhook", status |-> m[2],
                 copy |-> contract[m[1]].copy, row |-> 0, read |-> "draft"])
    /\ UNCHANGED <<agreements, envelope, events, contract, docs, sender, person, pulls, crashes, revived, raced>>

RefreshStatus(h, e) ==
    /\ pulls < MaxPulls
    /\ HasRow(e)
    /\ Start(h, [NoCall EXCEPT !.pc = "status", !.env = e, !.by = "person", !.status = envelope[e]])
    /\ pulls' = pulls + 1
    /\ UNCHANGED <<agreements, envelope, events, contract, docs, sender, person, crashes, revived, raced>>

\* storeSigned asks DocuSign for the copy whatever the envelope's status.
StoreSigned(h, e) ==
    /\ pulls < MaxPulls
    /\ HasRow(e)
    /\ Start(h, [NoCall EXCEPT !.pc = "store", !.env = e, !.by = "pull"])
    /\ pulls' = pulls + 1
    /\ UNCHANGED <<agreements, envelope, events, contract, docs, sender, person, crashes, revived, raced>>

----------------------------------------------------------------------------
\* Their common course: the status, storeSignedCopy, recordSignatures, and the
\* agreement's onEnvelopeCompleted.

HandlerTo(h, pc) == handler' = [handler EXCEPT ![h].pc = pc]

\* The call is over; a webhook's event has its answer.
Answer(h) ==
    /\ handler' = [handler EXCEPT ![h] = NoCall]
    /\ events' = IF handler[h].by = "webhook"
                 THEN events \ {<<handler[h].env, handler[h].status>>} ELSE events

\* What the rest of the call still reads.
AfterStatus(c) == [c EXCEPT !.pc = "store", !.copy = FALSE,
                            !.status = IF c.by = "webhook" THEN @ ELSE NoCall.status]

\* The webhook writes the metadata it read with the status; a refresh only the
\* status.
WriteStatus(h) ==
    LET c == handler[h] IN
    /\ c.pc = "status"
    /\ contract' = [contract EXCEPT ![c.env].copy = IF c.by = "webhook" THEN c.copy ELSE @]
    /\ \/ c.status = "completed" /\ UNCHANGED events
            /\ handler' = [handler EXCEPT ![h] = AfterStatus(c)]
       \/ c.status # "completed" /\ Answer(h)
    /\ UNCHANGED <<agreements, envelope, docs, sender, person, pulls, crashes, overlapped, revived, raced>>

\* After storeSignedCopy: a pull goes on to onEnvelopeCompleted, which stores first.
AfterStore(c) == [c EXCEPT !.pc = IF c.by = "pull" THEN "store" ELSE "sign",
                           !.by = IF c.by = "pull" THEN "person" ELSE @]

\* metadata.signedDocumentId (mutant: the check is left out).
StoredNever(e) == FALSE
Stored(e) == contract[e].copy

StoreRead(h) ==
    LET c == handler[h] IN
    /\ c.pc = "store"
    /\ handler' = [handler EXCEPT ![h] = IF Stored(c.env) THEN AfterStore(c) ELSE [c EXCEPT !.pc = "download"]]
    /\ UNCHANGED <<agreements, envelope, events, contract, docs, sender, person, pulls, crashes, overlapped, revived, raced>>

Store(h) ==
    LET c == handler[h] IN
    /\ c.pc = "download"
    /\ docs' = [docs EXCEPT ![c.env] = @ + 1]
    /\ HandlerTo(h, "file")
    /\ UNCHANGED <<agreements, envelope, events, contract, sender, person, pulls, crashes, overlapped, revived, raced>>

\* Metadata without a copy, as read, with the copy added.
File(h) ==
    LET c == handler[h] IN
    /\ c.pc = "file"
    /\ contract' = [contract EXCEPT ![c.env].copy = TRUE]
    /\ handler' = [handler EXCEPT ![h] = AfterStore(c)]
    /\ UNCHANGED <<agreements, envelope, events, docs, sender, person, pulls, crashes, overlapped, revived, raced>>

\* A failed download is tolerated by onEnvelopeCompleted (mutant: it is thrown,
\* and the event is not answered); a pull ends with it.
AfterNoCopyThrown(c) == NoCall
AfterNoCopy(c) == IF c.by = "pull" THEN NoCall ELSE [c EXCEPT !.pc = "sign"]

StoreFails(h) ==
    /\ handler[h].pc = "download"
    /\ handler' = [handler EXCEPT ![h] = AfterNoCopy(@)]
    /\ UNCHANGED <<agreements, envelope, events, contract, docs, sender, person, pulls, crashes, overlapped, revived, raced>>

SignRead(h) ==
    /\ handler[h].pc = "sign"
    /\ handler' = [handler EXCEPT ![h].pc = "signing", ![h].copy = contract[handler[h].env].copy]
    /\ UNCHANGED <<agreements, envelope, events, contract, docs, sender, person, pulls, crashes, overlapped, revived, raced>>

\* recordSignatures writes the metadata it read before it asked DocuSign.
SignWrite(h) ==
    /\ handler[h].pc = "signing"
    /\ contract' = [contract EXCEPT ![handler[h].env].copy = handler[h].copy]
    /\ handler' = [handler EXCEPT ![h].pc = "find", ![h].copy = FALSE]
    /\ UNCHANGED <<agreements, envelope, events, docs, sender, person, pulls, crashes, overlapped, revived, raced>>

\* The agreement of this contract, also an ended one; contractId is unique.
Unsettled(e) == {i \in DOMAIN agreements : agreements[i].contract = e /\ agreements[i].status # "executed"}

Find(h) ==
    LET rows == Unsettled(handler[h].env) IN
    /\ handler[h].pc = "find"
    /\ \/ /\ \E i \in rows : handler' = [handler EXCEPT ![h].pc = "execute", ![h].row = i,
                                                         ![h].read = agreements[i].status]
          /\ UNCHANGED events
       \/ rows = {} /\ Answer(h)
    /\ UNCHANGED <<agreements, envelope, contract, docs, sender, person, pulls, crashes, overlapped, revived, raced>>

Execute(h) ==
    /\ handler[h].pc = "execute"
    /\ SetStatus(handler[h].row, "executed")
    /\ revived' = revived \cup {i \in {handler[h].row} : handler[h].read = "ended"}
    /\ raced' = (raced \/ (handler[h].read # "ended" /\ Ended(handler[h].row)))
    /\ Answer(h)
    /\ UNCHANGED <<envelope, contract, docs, sender, person, pulls, crashes, overlapped>>

\* The call throws or the process stops; the event stays unanswered.
HandlerDies(h) ==
    /\ crashes < MaxCrashes
    /\ handler[h].pc # "idle"
    /\ crashes' = crashes + 1
    /\ overlapped' = IF handler[h].pc = "file" THEN overlapped \cup {handler[h].env} ELSE overlapped
    /\ handler' = [handler EXCEPT ![h] = NoCall]
    /\ UNCHANGED <<agreements, envelope, events, contract, docs, sender, person, pulls, revived, raced>>

Handle(h) ==
    \/ WriteStatus(h) \/ StoreRead(h) \/ Store(h) \/ File(h) \/ StoreFails(h)
    \/ SignRead(h) \/ SignWrite(h) \/ Find(h) \/ Execute(h)

----------------------------------------------------------------------------
Next ==
    \/ \E e \in Envelope : Recipients(e) \/ Send(e) \/ SenderDies(e)
    \/ \E p \in Person : Decide(p)
    \/ \E m \in events : Ignore(m) \/ \E h \in Handler : Deliver(h, m)
    \/ \E h \in Handler, e \in Envelope : RefreshStatus(h, e) \/ StoreSigned(h, e)
    \/ \E h \in Handler : Handle(h) \/ HandlerDies(h)

Spec == Init /\ [][Next]_vars

\* DocuSign repeats an event until it is answered; a call that is running goes on.
Fairness ==
    /\ \A m \in Envelope \X EnvelopeStatus : WF_vars(Ignore(m) \/ \E h \in Handler : Deliver(h, m))
    /\ \A h \in Handler : WF_vars(Handle(h))

FairSpec == Spec /\ Fairness

----------------------------------------------------------------------------
\* "Idempotent per contract" (storeSignedCopy): events repeated, refreshes and
\* pulls in any order file one signed copy, through the stale metadata two of the
\* steps write back, unless two of them were under way at once or a call died
\* between the document and its row.
SignedCopyOnce == \A e \in Envelope : docs[e] > 1 => e \in overlapped

\* "This deal already has a seller contract" (record): a paper contract, an
\* envelope's and what DocuSign completes never give the deal two open agreements.
\* Two exceptions are named.  onEnvelopeCompleted executes the agreement of its
\* contract also when it finds it ended: such an agreement is open besides whatever
\* was recorded since, and only such an agreement.  And calls raced: two creations
\* overlapped, a call that read an agreement before it was ended wrote it afterwards,
\* or an envelope was linked to an agreement it had read unsigned and that was signed
\* since, so that a second envelope finds no executed agreement and creates its own.
OneOpenAgreement == raced \/ \A i, j \in RowsIn(Open) \ revived : i = j

\* "It does not replace the agreement Halo relies on" (onEnvelopeSent): an executed
\* agreement changes by a termination, or by an envelope's link that had read it
\* unsigned; never by an envelope that found it executed, nor by a late event.
ExecutedStaysExecuted ==
    [][\A i \in RowsIn({"executed"}) :
        \/ agreements'[i] = agreements[i]
        \/ agreements'[i].status = "ended"
        \/ \E e \in Envelope :
            sender[e].pc = "link" /\ sender[e].row = i /\ sender[e].read # "executed"]_vars

Linked(e) == \E i \in RowsIn({"sent"}) : agreements[i].contract = e

\* A completion that reaches the api once its agreement is linked executes it,
\* whether or not the signed copy can be stored, whichever older events come after
\* it and although a handler may die: the agreement does not stay sent.
CompletionArrives ==
    \A e \in Envelope :
        (/\ <<e, "completed">> \in events
         /\ Linked(e)
         /\ \A h \in Handler : handler[h].env # e)
        ~> ~Linked(e)
=============================================================================
