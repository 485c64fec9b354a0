--------------------------- MODULE EnvelopesProofs ---------------------------
(***************************************************************************)
(* Theorems about Envelopes for any number of envelopes, of handlers in     *)
(* flight and of people, and any bounds on pulls and on crashes.            *)
(***************************************************************************)
EXTENDS Envelopes, TLAPS

Row == [status: AgreementStatus, contract: Envelope \cup {NoEnvelope}]

SenderType == [pc: SenderPoint, row: Nat, read: AgreementStatus]

CallType == [pc: HandlerPoint, env: Envelope \cup {NoEnvelope},
             by: {"webhook", "person", "pull"},
             status: EnvelopeStatus, copy: BOOLEAN, row: Nat, read: AgreementStatus]

\* TypeOK, a part for each table and each kind of call.
AgreementsTyped == agreements \in Seq(Row)

SendersTyped ==
    /\ sender \in [Envelope -> SenderType]
    /\ \A e \in Envelope : sender[e].pc = "link" => sender[e].row \in DOMAIN agreements

PeopleTyped ==
    /\ person \in [Person -> [pc: PersonPoint, row: Nat]]
    /\ \A p \in Person : person[p].pc \in {"signing", "ending"} => person[p].row \in DOMAIN agreements

HandlersTyped ==
    /\ handler \in [Handler -> CallType]
    /\ \A h \in Handler : handler[h].pc = "execute" => handler[h].row \in DOMAIN agreements
    /\ \A h \in Handler : handler[h].pc # "idle" =>
        /\ handler[h].env \in Envelope
        /\ contract[handler[h].env].row

EnvelopesTyped ==
    /\ envelope \in [Envelope -> EnvelopeStatus \cup {"none"}]
    /\ events \in SUBSET (Envelope \X EnvelopeStatus)

ContractsTyped ==
    /\ contract \in [Envelope -> [row: BOOLEAN, copy: BOOLEAN]]
    /\ docs \in [Envelope -> Nat]

CountersTyped ==
    /\ pulls \in 0..MaxPulls /\ crashes \in 0..MaxCrashes
    /\ overlapped \subseteq Envelope /\ revived \subseteq Nat /\ raced \in BOOLEAN

\* The parts are TypeOK, and TypeOK is its parts.
LEMMA TypeParts ==
    /\ TypeOK <=> /\ AgreementsTyped /\ SendersTyped /\ PeopleTyped /\ HandlersTyped
                  /\ EnvelopesTyped /\ ContractsTyped /\ CountersTyped
    /\ TypeOK' <=> /\ AgreementsTyped' /\ SendersTyped' /\ PeopleTyped' /\ HandlersTyped'
                   /\ EnvelopesTyped' /\ ContractsTyped' /\ CountersTyped'
  BY DEF TypeOK, AgreementsTyped, SendersTyped, PeopleTyped, HandlersTyped, EnvelopesTyped,
         ContractsTyped, CountersTyped, Row, SenderType, CallType

\* The steps of Next, one disjunct per action.
LEMMA StepCases ==
    ASSUME Next
    PROVE  \/ \E e \in Envelope : Recipients(e)
           \/ \E e \in Envelope : Post(e)
           \/ \E e \in Envelope : CreateRow(e)
           \/ \E e \in Envelope : ReadDraft(e)
           \/ \E e \in Envelope : AskExecuted(e)
           \/ \E e \in Envelope : Link(e)
           \/ \E e \in Envelope : CreateSent(e)
           \/ \E e \in Envelope : SenderDies(e)
           \/ \E p \in Person : RecordCheck(p)
           \/ \E p \in Person : RecordCreate(p)
           \/ \E p \in Person : OpenAgreement(p)
           \/ \E p \in Person : MarkExecuted(p)
           \/ \E p \in Person : Terminate(p)
           \/ \E m \in events : Ignore(m)
           \/ \E m \in events, h \in Handler : Deliver(h, m)
           \/ \E h \in Handler, e \in Envelope : RefreshStatus(h, e)
           \/ \E h \in Handler, e \in Envelope : StoreSigned(h, e)
           \/ \E h \in Handler : WriteStatus(h)
           \/ \E h \in Handler : StoreRead(h)
           \/ \E h \in Handler : Store(h)
           \/ \E h \in Handler : File(h)
           \/ \E h \in Handler : StoreFails(h)
           \/ \E h \in Handler : SignRead(h)
           \/ \E h \in Handler : SignWrite(h)
           \/ \E h \in Handler : Find(h)
           \/ \E h \in Handler : Execute(h)
           \/ \E h \in Handler : HandlerDies(h)
  BY DEF Next, Send, Decide, Handle

\* Where an envelope is, by where the call that sends it is: handlers meet its row
\* only once it was posted, and nothing of it is filed before.
EnvelopeRows ==
    \A e \in Envelope :
        /\ sender[e].pc \in {"idle", "row"} => ~contract[e].row
        /\ envelope[e] = "none" => sender[e].pc = "idle"
        /\ ~contract[e].row => docs[e] = 0

-----------------------------------------------------------------------------
\* The table of agreements: no write removes a row.

LEMMA RowWritten ==
    ASSUME AgreementsTyped, NEW i \in DOMAIN agreements, NEW r \in Row,
           agreements' = [agreements EXCEPT ![i] = r]
    PROVE  /\ AgreementsTyped' /\ DOMAIN agreements' = DOMAIN agreements
           /\ agreements'[i] = r
           /\ \A j \in DOMAIN agreements : j # i => agreements'[j] = agreements[j]
  <1>1. AgreementsTyped' /\ DOMAIN agreements' = DOMAIN agreements
    BY DEF AgreementsTyped
  <1> QED
    BY <1>1

\* A status written by id changes that row's status and nothing else.
LEMMA StatusSet ==
    ASSUME AgreementsTyped, NEW i \in DOMAIN agreements, NEW status \in AgreementStatus,
           SetStatus(i, status)
    PROVE  /\ AgreementsTyped' /\ DOMAIN agreements' = DOMAIN agreements
           /\ agreements'[i].status = status /\ agreements'[i].contract = agreements[i].contract
           /\ \A j \in DOMAIN agreements : j # i => agreements'[j] = agreements[j]
  <1>1. agreements[i] \in Row
    BY DEF AgreementsTyped
  <1> DEFINE r == [agreements[i] EXCEPT !.status = status]
  <1>2. r \in Row /\ r.status = status /\ r.contract = agreements[i].contract
    BY <1>1 DEF Row
  <1>3. agreements' = [agreements EXCEPT ![i] = r]
    BY DEF SetStatus
  <1> HIDE DEF r
  <1> QED
    BY <1>2, <1>3, RowWritten

\* A new row comes after the others, which stay.
LEMMA RowCreated ==
    ASSUME AgreementsTyped, NEW status \in AgreementStatus, NEW e \in Envelope \cup {NoEnvelope},
           Create(status, e)
    PROVE  /\ AgreementsTyped'
           /\ DOMAIN agreements' = 1..(Len(agreements) + 1)
           /\ \A i \in DOMAIN agreements : i \in DOMAIN agreements' /\ agreements'[i] = agreements[i]
           /\ agreements'[Len(agreements) + 1] = [status |-> status, contract |-> e]
  <1> DEFINE r == [status |-> status, contract |-> e]
  <1>1. r \in Row
    BY DEF Row
  <1> HIDE DEF r
  <1>2. agreements' = Append(agreements, r)
    BY DEF Create, r
  <1> QED
    BY <1>1, <1>2 DEF AgreementsTyped, r

\* A row has a number and a status.
LEMMA RowsExist ==
    ASSUME AgreementsTyped, NEW i \in DOMAIN agreements
    PROVE  i \in Nat /\ agreements[i] \in Row /\ agreements[i].status \in AgreementStatus
  <1>1. i \in Nat /\ agreements[i] \in Row
    BY DEF AgreementsTyped
  <1> QED
    BY <1>1 DEF Row

-----------------------------------------------------------------------------
\* What a call's own record may become; no row is removed meanwhile.

RowsRemain == DOMAIN agreements \subseteq DOMAIN agreements'

\* A sender or a person goes on to a step that holds no row.
LEMMA SenderMoves ==
    ASSUME SendersTyped, NEW e \in Envelope, NEW pc \in SenderPoint \ {"link"},
           SenderTo(e, pc), RowsRemain
    PROVE  SendersTyped'
  BY DEF SendersTyped, SenderTo, SenderType, AgreementStatus, RowsRemain

LEMMA PersonMoves ==
    ASSUME PeopleTyped, NEW p \in Person, NEW pc \in PersonPoint \ {"signing", "ending"},
           PersonTo(p, pc), RowsRemain
    PROVE  PeopleTyped'
  BY DEF PeopleTyped, PersonTo, RowsRemain

\* A call h becomes c: about an envelope that has its contracts row, unless it is over.
LEMMA HandlerMoves ==
    ASSUME HandlersTyped, NEW h \in Handler, NEW c \in CallType,
           handler' = [handler EXCEPT ![h] = c], RowsRemain,
           c.pc = "execute" => c.row \in DOMAIN agreements,
           c.pc # "idle" => c.env \in Envelope /\ contract[c.env].row,
           \A e \in Envelope : contract[e].row => contract'[e].row
    PROVE  HandlersTyped'
  BY DEF HandlersTyped, RowsRemain, CallType

\* Tables and calls an action leaves alone stay typed, whatever rows it adds.
LEMMA OthersStay ==
    ASSUME RowsRemain
    PROVE  /\ SendersTyped /\ UNCHANGED sender => SendersTyped'
           /\ PeopleTyped /\ UNCHANGED person => PeopleTyped'
           /\ HandlersTyped /\ UNCHANGED handler
              /\ (\A e \in Envelope : contract[e].row => contract'[e].row) => HandlersTyped'
           /\ EnvelopesTyped /\ UNCHANGED <<envelope, events>> => EnvelopesTyped'
           /\ ContractsTyped /\ UNCHANGED <<contract, docs>> => ContractsTyped'
           /\ CountersTyped /\ UNCHANGED <<pulls, crashes, overlapped, revived, raced>> => CountersTyped'
           /\ AgreementsTyped /\ UNCHANGED agreements => AgreementsTyped'
  BY DEF SendersTyped, PeopleTyped, HandlersTyped, EnvelopesTyped, ContractsTyped, CountersTyped,
         AgreementsTyped, RowsRemain

\* A call that is over is of the calls' type.
LEMMA NoCallType == NoCall \in CallType /\ NoCall.pc = "idle"
  BY DEF NoCall, CallType, HandlerPoint, EnvelopeStatus, AgreementStatus

\* A call at another point, with its other fields as they were.
LEMMA CallUpdates ==
    ASSUME NEW c \in CallType, NEW pc \in HandlerPoint
    PROVE  /\ [c EXCEPT !.pc = pc] \in CallType
           /\ [c EXCEPT !.pc = pc].pc = pc /\ [c EXCEPT !.pc = pc].env = c.env
  BY DEF CallType

\* recordSignatures keeps what it read of the metadata, and forgets it once written.
LEMMA CopyUpdates ==
    ASSUME ContractsTyped, NEW c \in CallType, c.env \in Envelope
    PROVE  LET read == [c EXCEPT !.pc = "signing", !.copy = contract[c.env].copy]
               written == [c EXCEPT !.pc = "find", !.copy = FALSE] IN
           /\ read \in CallType /\ read.pc = "signing" /\ read.env = c.env
           /\ read.copy = contract[c.env].copy
           /\ written \in CallType /\ written.pc = "find" /\ written.env = c.env
  BY DEF ContractsTyped, CallType, HandlerPoint

\* Where the course of a call leads after its status, its copy, and a failed copy.
LEMMA CallCourse ==
    ASSUME NEW c \in CallType
    PROVE  /\ AfterStatus(c) \in CallType /\ AfterStatus(c).pc = "store" /\ AfterStatus(c).env = c.env
           /\ AfterStore(c) \in CallType /\ AfterStore(c).pc \in {"store", "sign"}
           /\ AfterStore(c).env = c.env
           /\ AfterNoCopy(c) \in CallType /\ AfterNoCopy(c).pc \in {"idle", "sign"}
           /\ AfterNoCopy(c).pc # "idle" => AfterNoCopy(c).env = c.env
  <1>1. NoCall.status \in EnvelopeStatus
    BY DEF NoCall, EnvelopeStatus
  <1>2. AfterStatus(c) \in CallType /\ AfterStatus(c).pc = "store" /\ AfterStatus(c).env = c.env
    BY <1>1 DEF CallType, AfterStatus, HandlerPoint
  <1>3. /\ AfterStore(c) \in CallType /\ AfterStore(c).pc \in {"store", "sign"}
        /\ AfterStore(c).env = c.env
    BY DEF CallType, AfterStore, HandlerPoint
  <1>4. CASE c.by = "pull"
    BY <1>2, <1>3, <1>4, NoCallType DEF AfterNoCopy
  <1>5. CASE c.by # "pull"
    <2>1. AfterNoCopy(c) = [c EXCEPT !.pc = "sign"]
      BY <1>5 DEF AfterNoCopy
    <2> QED
      BY <1>2, <1>3, <2>1 DEF CallType, HandlerPoint
  <1> QED
    BY <1>4, <1>5

\* Every table is empty and every call idle.
LEMMA InitType == Init => TypeOK
  <1> SUFFICES ASSUME Init PROVE TypeOK
    OBVIOUS
  <1>1. AgreementsTyped /\ EnvelopesTyped /\ ContractsTyped
    <2>1. << >> \in Seq(Row)
      OBVIOUS
    <2>2. AgreementsTyped
      BY <2>1 DEF Init, AgreementsTyped
    <2> QED
      BY <2>2 DEF Init, EnvelopesTyped, ContractsTyped
  <1>2. SendersTyped /\ PeopleTyped
    BY DEF Init, SendersTyped, PeopleTyped, SenderType, SenderPoint, AgreementStatus, PersonPoint
  <1>3. HandlersTyped
    BY NoCallType DEF Init, HandlersTyped
  <1>4. CountersTyped
    <2>1. pulls \in 0..MaxPulls /\ crashes \in 0..MaxCrashes
      BY EnvelopeAssumption DEF Init
    <2> QED
      BY <2>1 DEF Init, CountersTyped
  <1> QED
    BY <1>1, <1>2, <1>3, <1>4, TypeParts

-----------------------------------------------------------------------------
\* Every step of every call keeps the types.

LEMMA SenderStepTyped ==
    ASSUME TypeOK, NEW e \in Envelope
    PROVE  (Recipients(e) \/ Send(e) \/ SenderDies(e)) => TypeOK'
  <1> USE TypeParts, OthersStay DEF RowsRemain
  <1>1. ASSUME Recipients(e) PROVE TypeOK'
    <2>1. EnvelopesTyped'
      BY <1>1 DEF Recipients, Announce, EnvelopesTyped, EnvelopeStatus
    <2> QED
      BY <1>1, <2>1 DEF Recipients
  <1>2. ASSUME Post(e) PROVE TypeOK'
    <2>1. EnvelopesTyped'
      BY <1>2 DEF Post, Announce, EnvelopesTyped, EnvelopeStatus
    <2>2. SendersTyped'
      BY <1>2, SenderMoves DEF Post, SenderPoint
    <2> QED
      BY <1>2, <2>1, <2>2 DEF Post
  <1>3. ASSUME CreateRow(e) PROVE TypeOK'
    <2>1. ContractsTyped' /\ \A f \in Envelope : contract[f].row => contract'[f].row
      BY <1>3 DEF CreateRow, ContractsTyped
    <2>2. SendersTyped'
      BY <1>3, SenderMoves DEF CreateRow, SenderPoint
    <2> QED
      BY <1>3, <2>1, <2>2 DEF CreateRow
  <1>4. ASSUME ReadDraft(e) PROVE TypeOK'
    <2>1. SendersTyped'
      <3>1. CASE SenderTo(e, "ask")
        BY <1>4, <3>1, SenderMoves DEF ReadDraft, SenderPoint
      <3>2. ASSUME NEW i \in Linkable,
                   sender' = [sender EXCEPT ![e] = [pc |-> "link", row |-> i, read |-> agreements[i].status]]
            PROVE  SendersTyped'
        <4>1. i \in DOMAIN agreements /\ i \in Nat /\ agreements[i].status \in AgreementStatus
          BY RowsExist DEF Linkable, RowsIn
        <4>2. agreements' = agreements
          BY <1>4 DEF ReadDraft
        <4> QED
          BY <3>2, <4>1, <4>2 DEF SendersTyped, SenderType, SenderPoint
      <3>3. \/ SenderTo(e, "ask")
            \/ \E i \in Linkable :
                 sender' = [sender EXCEPT ![e] = [pc |-> "link", row |-> i, read |-> agreements[i].status]]
        BY <1>4 DEF ReadDraft
      <3> QED
        BY <3>1, <3>2, <3>3
    <2>2. CountersTyped'
      BY <1>4 DEF ReadDraft, CountersTyped
    <2> QED
      BY <1>4, <2>1, <2>2 DEF ReadDraft
  <1>5. ASSUME AskExecuted(e) PROVE TypeOK'
    <2>1. SendersTyped'
      BY <1>5, SenderMoves DEF AskExecuted, SenderPoint
    <2> QED
      BY <1>5, <2>1 DEF AskExecuted
  <1>6. ASSUME Link(e) PROVE TypeOK'
    <2>1. sender[e].row \in DOMAIN agreements
      BY <1>6 DEF Link, SendersTyped
    <2>2. [status |-> "sent", contract |-> e] \in Row
      BY DEF Row, AgreementStatus
    <2>3. AgreementsTyped' /\ DOMAIN agreements' = DOMAIN agreements
      BY <1>6, <2>1, <2>2, RowWritten DEF Link
    <2>4. SendersTyped'
      BY <1>6, <2>3, SenderMoves DEF Link, SenderPoint
    <2>5. CountersTyped'
      BY <1>6 DEF Link, CountersTyped
    <2> QED
      BY <1>6, <2>3, <2>4, <2>5 DEF Link
  <1>7. ASSUME CreateSent(e) PROVE TypeOK'
    <2>1. AgreementsTyped' /\ DOMAIN agreements \subseteq DOMAIN agreements'
      BY <1>7, RowCreated DEF CreateSent, AgreementStatus
    <2>2. SendersTyped'
      BY <1>7, <2>1, SenderMoves DEF CreateSent, SenderPoint
    <2> QED
      BY <1>7, <2>1, <2>2 DEF CreateSent
  <1>8. ASSUME SenderDies(e) PROVE TypeOK'
    <2>1. SendersTyped'
      BY <1>8, SenderMoves DEF SenderDies, SenderPoint
    <2>2. CountersTyped'
      BY <1>8, EnvelopeAssumption DEF SenderDies, CountersTyped
    <2> QED
      BY <1>8, <2>1, <2>2 DEF SenderDies
  <1> QED
    BY <1>1, <1>2, <1>3, <1>4, <1>5, <1>6, <1>7, <1>8 DEF Send

\* The people's two statements, each against the row they read.
LEMMA PersonStepTyped ==
    ASSUME TypeOK, NEW p \in Person, Decide(p)
    PROVE  TypeOK'
  <1> USE TypeParts, OthersStay DEF RowsRemain
  <1>1. ASSUME RecordCheck(p) PROVE TypeOK'
    <2>1. PeopleTyped'
      BY <1>1, PersonMoves DEF RecordCheck, PersonPoint
    <2>2. CountersTyped'
      BY <1>1 DEF RecordCheck, CountersTyped
    <2> QED
      BY <1>1, <2>1, <2>2 DEF RecordCheck
  <1>2. ASSUME RecordCreate(p) PROVE TypeOK'
    <2>1. AgreementsTyped' /\ DOMAIN agreements \subseteq DOMAIN agreements'
      BY <1>2, RowCreated DEF RecordCreate, AgreementStatus
    <2>2. PeopleTyped'
      BY <1>2, <2>1, PersonMoves DEF RecordCreate, PersonPoint
    <2> QED
      BY <1>2, <2>1, <2>2 DEF RecordCreate
  <1>3. ASSUME OpenAgreement(p) PROVE TypeOK'
    <2>1. PICK i \in RowsIn(Open), pc \in {"signing", "ending"} :
            person' = [person EXCEPT ![p] = [pc |-> pc, row |-> i]]
      BY <1>3 DEF OpenAgreement
    <2>2. i \in DOMAIN agreements /\ i \in Nat
      BY RowsExist DEF RowsIn
    <2>3. PeopleTyped'
      BY <1>3, <2>1, <2>2 DEF OpenAgreement, PeopleTyped, PersonPoint
    <2> QED
      BY <1>3, <2>3 DEF OpenAgreement
  <1>4. ASSUME MarkExecuted(p) PROVE TypeOK'
    <2>1. person[p].row \in DOMAIN agreements
      BY <1>4 DEF MarkExecuted, PeopleTyped
    <2>2. AgreementsTyped' /\ DOMAIN agreements' = DOMAIN agreements
      BY <1>4, <2>1, StatusSet DEF MarkExecuted, AgreementStatus
    <2>3. PeopleTyped'
      BY <1>4, <2>2, PersonMoves DEF MarkExecuted, PersonPoint
    <2>4. CountersTyped'
      BY <1>4 DEF MarkExecuted, CountersTyped
    <2> QED
      BY <1>4, <2>2, <2>3, <2>4 DEF MarkExecuted
  <1>5. ASSUME Terminate(p) PROVE TypeOK'
    <2>1. person[p].row \in DOMAIN agreements
      BY <1>5 DEF Terminate, PeopleTyped
    <2>2. AgreementsTyped' /\ DOMAIN agreements' = DOMAIN agreements
      BY <1>5, <2>1, StatusSet DEF Terminate, AgreementStatus
    <2>3. PeopleTyped'
      BY <1>5, <2>2, PersonMoves DEF Terminate, PersonPoint
    <2> QED
      BY <1>5, <2>2, <2>3 DEF Terminate
  <1> QED
    BY <1>1, <1>2, <1>3, <1>4, <1>5 DEF Decide

\* A call that begins: its envelope has a row, and it asks nothing of the table yet.
LEMMA StartTyped ==
    ASSUME TypeOK, NEW h \in Handler, NEW c \in CallType, Start(h, c),
           c.pc \in {"status", "store"}, c.env \in Envelope, contract[c.env].row,
           UNCHANGED <<agreements, contract>>
    PROVE  HandlersTyped' /\ overlapped' \subseteq Envelope
  <1>1. handler' = [handler EXCEPT ![h] = c]
    BY DEF Start
  <1>2. HandlersTyped'
    BY <1>1, HandlerMoves, TypeParts DEF RowsRemain
  <1>3. overlapped' \subseteq Envelope
    BY TypeParts DEF Start, CountersTyped
  <1> QED
    BY <1>2, <1>3

\* An event nobody handles is dropped.
LEMMA IgnoreTyped ==
    ASSUME TypeOK, NEW m \in events, Ignore(m)
    PROVE  TypeOK'
  <1>1. EnvelopesTyped'
    BY TypeParts DEF Ignore, EnvelopesTyped
  <1> QED
    BY <1>1, TypeParts, OthersStay DEF Ignore, RowsRemain

\* A call begins: by an event, by a person, by a pull.
LEMMA EntryTyped ==
    ASSUME TypeOK, EnvelopeRows, NEW h \in Handler
    PROVE  /\ \A m \in events : Deliver(h, m) => TypeOK'
           /\ \A e \in Envelope : RefreshStatus(h, e) \/ StoreSigned(h, e) => TypeOK'
  <1> USE TypeParts, OthersStay DEF RowsRemain
  <1>1. ASSUME NEW m \in events, Deliver(h, m) PROVE TypeOK'
    <2> DEFINE c == [pc |-> "status", env |-> m[1], by |-> "webhook", status |-> m[2],
                     copy |-> contract[m[1]].copy, row |-> 0, read |-> "draft"]
    <2>1. m[1] \in Envelope /\ m[2] \in EnvelopeStatus
      BY DEF EnvelopesTyped
    <2>2. c \in CallType /\ c.pc = "status" /\ c.env = m[1]
      BY <2>1 DEF CallType, HandlerPoint, ContractsTyped, AgreementStatus
    <2>3. Start(h, c) /\ contract[m[1]].row
      BY <1>1 DEF Deliver, HasRow
    <2> HIDE DEF c
    <2>4. HandlersTyped' /\ overlapped' \subseteq Envelope
      BY <1>1, <2>1, <2>2, <2>3, StartTyped DEF Deliver
    <2>5. CountersTyped'
      BY <1>1, <2>4 DEF Deliver, CountersTyped
    <2> QED
      BY <1>1, <2>4, <2>5 DEF Deliver
  <1>2. ASSUME NEW e \in Envelope, RefreshStatus(h, e) PROVE TypeOK'
    <2> DEFINE c == [NoCall EXCEPT !.pc = "status", !.env = e, !.by = "person", !.status = envelope[e]]
    <2>1. Start(h, c) /\ contract[e].row
      BY <1>2 DEF RefreshStatus, HasRow
    <2>2. envelope[e] \in EnvelopeStatus
      BY <2>1 DEF EnvelopeRows, EnvelopesTyped
    <2>3. c \in CallType /\ c.pc = "status" /\ c.env = e
      BY <2>2, NoCallType DEF CallType, HandlerPoint
    <2> HIDE DEF c
    <2>4. HandlersTyped' /\ overlapped' \subseteq Envelope
      BY <1>2, <2>1, <2>3, StartTyped DEF RefreshStatus
    <2>5. CountersTyped'
      BY <1>2, <2>4, EnvelopeAssumption DEF RefreshStatus, CountersTyped
    <2> QED
      BY <1>2, <2>4, <2>5 DEF RefreshStatus
  <1>3. ASSUME NEW e \in Envelope, StoreSigned(h, e) PROVE TypeOK'
    <2> DEFINE c == [NoCall EXCEPT !.pc = "store", !.env = e, !.by = "pull"]
    <2>1. Start(h, c) /\ contract[e].row
      BY <1>3 DEF StoreSigned, HasRow
    <2>2. c \in CallType /\ c.pc = "store" /\ c.env = e
      BY NoCallType DEF CallType, HandlerPoint
    <2> HIDE DEF c
    <2>3. HandlersTyped' /\ overlapped' \subseteq Envelope
      BY <1>3, <2>1, <2>2, StartTyped DEF StoreSigned
    <2>4. CountersTyped'
      BY <1>3, <2>3, EnvelopeAssumption DEF StoreSigned, CountersTyped
    <2> QED
      BY <1>3, <2>3, <2>4 DEF StoreSigned
  <1> QED
    BY <1>1, <1>2, <1>3

\* A call of the handlers goes on, ends or dies.
LEMMA HandlerStepTyped ==
    ASSUME TypeOK, NEW h \in Handler, Handle(h) \/ HandlerDies(h)
    PROVE  TypeOK'
  <1> USE TypeParts, OthersStay DEF RowsRemain
  <1> DEFINE c == handler[h]
  <1>1. /\ c \in CallType
        /\ c.pc = "execute" => c.row \in DOMAIN agreements
        /\ c.pc # "idle" => c.env \in Envelope /\ contract[c.env].row
    BY DEF HandlersTyped
  <1> HIDE DEF c
  <1>0. /\ AfterStatus(c) \in CallType /\ AfterStatus(c).pc = "store" /\ AfterStatus(c).env = c.env
        /\ AfterStore(c) \in CallType /\ AfterStore(c).pc \in {"store", "sign"}
        /\ AfterStore(c).env = c.env
        /\ AfterNoCopy(c) \in CallType /\ AfterNoCopy(c).pc \in {"idle", "sign"}
        /\ AfterNoCopy(c).pc # "idle" => AfterNoCopy(c).env = c.env
    BY <1>1, CallCourse
  <1>2. ASSUME handler' = [handler EXCEPT ![h] = NoCall], RowsRemain,
               \A e \in Envelope : contract[e].row => contract'[e].row
        PROVE  HandlersTyped'
    <2>1. HandlersTyped /\ NoCall.pc # "execute"
      BY NoCallType
    <2> QED
      BY <1>2, <2>1, HandlerMoves, NoCallType
  <1>3. Answer(h) => /\ handler' = [handler EXCEPT ![h] = NoCall]
                     /\ UNCHANGED envelope => EnvelopesTyped'
    BY DEF Answer, EnvelopesTyped
  <1>4. ASSUME WriteStatus(h) PROVE TypeOK'
    <2>1. ContractsTyped' /\ \A e \in Envelope : contract[e].row => contract'[e].row
      BY <1>1, <1>4 DEF WriteStatus, ContractsTyped, CallType, c
    <2>2. CASE Answer(h)
      BY <1>2, <1>3, <1>4, <2>1, <2>2 DEF WriteStatus
    <2>3. CASE handler' = [handler EXCEPT ![h] = AfterStatus(c)] /\ UNCHANGED events
      <3>1. HandlersTyped'
        BY <1>0, <1>1, <1>4, <2>1, <2>3, HandlerMoves DEF WriteStatus, c
      <3> QED
        BY <1>4, <2>1, <2>3, <3>1 DEF WriteStatus
    <2> QED
      BY <1>4, <2>2, <2>3 DEF WriteStatus, c
  <1>5. ASSUME StoreRead(h) PROVE TypeOK'
    <2> DEFINE d == [c EXCEPT !.pc = "download"]
    <2>1. d \in CallType /\ d.pc = "download" /\ d.env = c.env
      BY <1>1, CallUpdates DEF HandlerPoint
    <2>2. \/ handler' = [handler EXCEPT ![h] = AfterStore(c)]
          \/ handler' = [handler EXCEPT ![h] = d]
      BY <1>5 DEF StoreRead, c
    <2> HIDE DEF d
    <2>3. c.pc = "store" /\ UNCHANGED <<agreements, contract>>
      BY <1>5 DEF StoreRead, c
    <2>4. HandlersTyped'
      BY <1>0, <1>1, <2>1, <2>2, <2>3, HandlerMoves
    <2> QED
      BY <1>5, <2>4 DEF StoreRead
  <1>6. ASSUME Store(h) PROVE TypeOK'
    <2> DEFINE d == [c EXCEPT !.pc = "file"]
    <2>1. d \in CallType /\ d.pc = "file" /\ d.env = c.env
      BY <1>1, CallUpdates DEF HandlerPoint
    <2>2. handler' = [handler EXCEPT ![h] = d] /\ c.pc = "download"
      BY <1>6 DEF Store, HandlerTo, HandlersTyped, c
    <2> HIDE DEF d
    <2>4. HandlersTyped'
      BY <1>1, <1>6, <2>1, <2>2, HandlerMoves DEF Store
    <2>3. ContractsTyped'
      BY <1>6 DEF Store, ContractsTyped
    <2> QED
      BY <1>6, <2>3, <2>4 DEF Store
  <1>7. ASSUME File(h) PROVE TypeOK'
    <2>1. ContractsTyped' /\ \A e \in Envelope : contract[e].row => contract'[e].row
      BY <1>7 DEF File, ContractsTyped
    <2>2. HandlersTyped'
      BY <1>0, <1>1, <1>7, <2>1, HandlerMoves DEF File, c
    <2> QED
      BY <1>7, <2>1, <2>2 DEF File
  <1>8. ASSUME StoreFails(h) PROVE TypeOK'
    <2>1. HandlersTyped'
      BY <1>0, <1>1, <1>8, HandlerMoves DEF StoreFails, c
    <2> QED
      BY <1>8, <2>1 DEF StoreFails
  <1>9. ASSUME SignRead(h) PROVE TypeOK'
    <2> DEFINE d == [c EXCEPT !.pc = "signing", !.copy = contract[c.env].copy]
    <2>0. c.pc = "sign"
      BY <1>9 DEF SignRead, c
    <2>1. d \in CallType /\ d.pc = "signing" /\ d.env = c.env
      BY <1>1, <2>0, CopyUpdates
    <2>2. handler' = [handler EXCEPT ![h] = d]
      BY <1>9 DEF SignRead, HandlersTyped, c
    <2> HIDE DEF d
    <2>3. HandlersTyped'
      BY <1>1, <1>9, <2>1, <2>2, HandlerMoves DEF SignRead, c
    <2> QED
      BY <1>9, <2>3 DEF SignRead
  <1>10. ASSUME SignWrite(h) PROVE TypeOK'
    <2> DEFINE d == [c EXCEPT !.pc = "find", !.copy = FALSE]
    <2>0. c.pc = "signing"
      BY <1>10 DEF SignWrite, c
    <2>1. d \in CallType /\ d.pc = "find" /\ d.env = c.env
      BY <1>1, <2>0, CopyUpdates
    <2>2. handler' = [handler EXCEPT ![h] = d]
      BY <1>10 DEF SignWrite, HandlersTyped, c
    <2> HIDE DEF d
    <2>3. ContractsTyped' /\ \A e \in Envelope : contract[e].row => contract'[e].row
      BY <1>1, <1>10 DEF SignWrite, ContractsTyped, CallType, c
    <2>4. HandlersTyped'
      BY <1>1, <1>10, <2>1, <2>2, <2>3, HandlerMoves DEF SignWrite, c
    <2> QED
      BY <1>10, <2>3, <2>4 DEF SignWrite
  <1>11. ASSUME Find(h) PROVE TypeOK'
    <2>1. CASE Answer(h)
      BY <1>2, <1>3, <1>11, <2>1 DEF Find
    <2>2. ASSUME NEW i \in Unsettled(c.env),
                 handler' = [handler EXCEPT ![h].pc = "execute", ![h].row = i,
                                            ![h].read = agreements[i].status],
                 UNCHANGED events
          PROVE  TypeOK'
      <3> DEFINE d == [c EXCEPT !.pc = "execute", !.row = i, !.read = agreements[i].status]
      <3>1. i \in DOMAIN agreements /\ i \in Nat /\ agreements[i].status \in AgreementStatus
        BY RowsExist DEF Unsettled
      <3>2. d \in CallType /\ d.pc = "execute" /\ d.row = i /\ d.env = c.env
        BY <1>1, <3>1 DEF CallType, HandlerPoint
      <3>3. handler' = [handler EXCEPT ![h] = d]
        BY <2>2 DEF HandlersTyped, c
      <3> HIDE DEF d
      <3>4. HandlersTyped'
        BY <1>1, <1>11, <3>1, <3>2, <3>3, HandlerMoves DEF Find, c
      <3> QED
        BY <1>11, <2>2, <3>4 DEF Find
    <2>3. \/ Answer(h)
          \/ /\ \E i \in Unsettled(c.env) :
                   handler' = [handler EXCEPT ![h].pc = "execute", ![h].row = i,
                                              ![h].read = agreements[i].status]
             /\ UNCHANGED events
      BY <1>11 DEF Find, c
    <2> QED
      BY <2>1, <2>2, <2>3
  <1>12. ASSUME Execute(h) PROVE TypeOK'
    <2>1. AgreementsTyped' /\ DOMAIN agreements' = DOMAIN agreements
      BY <1>1, <1>12, StatusSet DEF Execute, AgreementStatus, c
    <2>2. CountersTyped'
      BY <1>1, <1>12 DEF Execute, CountersTyped, CallType, c
    <2> QED
      BY <1>2, <1>3, <1>12, <2>1, <2>2 DEF Execute
  <1>13. ASSUME HandlerDies(h) PROVE TypeOK'
    <2>1. overlapped' \subseteq Envelope
      BY <1>1, <1>13 DEF HandlerDies, CountersTyped, c
    <2>2. CountersTyped'
      BY <1>13, <2>1, EnvelopeAssumption DEF HandlerDies, CountersTyped
    <2>3. HandlersTyped'
      BY <1>2, <1>13 DEF HandlerDies
    <2> QED
      BY <1>13, <2>2, <2>3 DEF HandlerDies
  <1> QED
    BY <1>4, <1>5, <1>6, <1>7, <1>8, <1>9, <1>10, <1>11, <1>12, <1>13 DEF Handle

-----------------------------------------------------------------------------
\* The rows of an envelope, by where its sender is.

LEMMA EnvelopeRowsKept ==
    ASSUME TypeOK, EnvelopeRows, Next
    PROVE  EnvelopeRows'
  <1> USE TypeParts
  <1>1. ASSUME UNCHANGED <<envelope, sender, docs>>,
               \A e \in Envelope : contract'[e].row = contract[e].row
        PROVE  EnvelopeRows'
    BY <1>1 DEF EnvelopeRows
  <1>2. ASSUME NEW e \in Envelope, NEW pc \in {"ask", "create", "done"}, SenderTo(e, pc),
               sender[e].pc \notin {"idle", "row"}, UNCHANGED <<envelope, contract, docs>>
        PROVE  EnvelopeRows'
    BY <1>2 DEF EnvelopeRows, SenderTo, SendersTyped, SenderType
  <1>3. ASSUME NEW h \in Handler, Handle(h) PROVE EnvelopeRows'
    <2>1. /\ UNCHANGED <<envelope, sender>>
          /\ \A e \in Envelope : contract'[e].row = contract[e].row
      <3>1. \A e \in Envelope : contract'[e].row = contract[e].row
        <4>1. CASE UNCHANGED contract
          BY <4>1
        <4>2. CASE WriteStatus(h) \/ File(h) \/ SignWrite(h)
          BY <4>2 DEF WriteStatus, File, SignWrite, ContractsTyped
        <4> QED
          BY <1>3, <4>1, <4>2 DEF Handle, StoreRead, Store, StoreFails, SignRead, Find, Execute
      <3> QED
        BY <1>3, <3>1 DEF Handle, WriteStatus, StoreRead, Store, File, StoreFails, SignRead, SignWrite,
                          Find, Execute
    <2>2. CASE UNCHANGED docs
      BY <1>1, <2>1, <2>2
    <2>3. CASE Store(h)
      <3>1. handler[h].env \in Envelope /\ contract[handler[h].env].row
        BY <2>3 DEF Store, HandlersTyped
      <3> QED
        BY <2>1, <2>3, <3>1 DEF Store, EnvelopeRows, ContractsTyped
    <2> QED
      BY <1>3, <2>2, <2>3 DEF Handle, WriteStatus, StoreRead, File, StoreFails, SignRead, SignWrite,
                  Find, Execute
  <1>4. ASSUME NEW e \in Envelope, Recipients(e) PROVE EnvelopeRows'
    BY <1>4 DEF Recipients, Announce, EnvelopeRows, EnvelopesTyped
  <1>5. ASSUME NEW e \in Envelope, Post(e) PROVE EnvelopeRows'
    BY <1>5 DEF Post, Announce, SenderTo, EnvelopeRows, EnvelopesTyped, SendersTyped, SenderType
  <1>6. ASSUME NEW e \in Envelope, CreateRow(e) PROVE EnvelopeRows'
    BY <1>6 DEF CreateRow, SenderTo, EnvelopeRows, ContractsTyped, SendersTyped, SenderType
  <1>7. ASSUME NEW e \in Envelope, ReadDraft(e) PROVE EnvelopeRows'
    <2>1. sender[e].pc = "read" /\ UNCHANGED <<envelope, contract, docs>>
      BY <1>7 DEF ReadDraft
    <2>2. ASSUME NEW i, sender' = [sender EXCEPT ![e] = [pc |-> "link", row |-> i, read |-> agreements[i].status]]
          PROVE  EnvelopeRows'
      BY <2>1, <2>2 DEF EnvelopeRows, SendersTyped
    <2> QED
      BY <1>2, <1>7, <2>1, <2>2 DEF ReadDraft
  <1>8. ASSUME NEW e \in Envelope, AskExecuted(e) \/ Link(e) \/ CreateSent(e) \/ SenderDies(e)
        PROVE  EnvelopeRows'
    <2>1. CASE sender[e].pc # "row"
      BY <1>2, <1>8, <2>1 DEF AskExecuted, Link, CreateSent, SenderDies
    <2>2. CASE sender[e].pc = "row"
      BY <1>8, <2>2 DEF AskExecuted, Link, CreateSent, SenderDies, SenderTo, EnvelopeRows, SendersTyped
    <2> QED
      BY <2>1, <2>2
  <1>9. ASSUME NEW p \in Person, Decide(p) PROVE EnvelopeRows'
    BY <1>1, <1>9 DEF Decide, RecordCheck, RecordCreate, OpenAgreement, MarkExecuted, Terminate
  <1>10. ASSUME NEW m \in events, NEW h \in Handler, Deliver(h, m) PROVE EnvelopeRows'
    BY <1>1, <1>10 DEF Deliver
  <1>11. ASSUME NEW m \in events, Ignore(m) PROVE EnvelopeRows'
    BY <1>1, <1>11 DEF Ignore
  <1>12. ASSUME NEW h \in Handler, NEW e \in Envelope, RefreshStatus(h, e) \/ StoreSigned(h, e)
         PROVE  EnvelopeRows'
    BY <1>1, <1>12 DEF RefreshStatus, StoreSigned
  <1>13. ASSUME NEW h \in Handler, HandlerDies(h) PROVE EnvelopeRows'
    BY <1>1, <1>13 DEF HandlerDies
  <1> QED
    BY <1>3, <1>4, <1>5, <1>6, <1>7, <1>8, <1>9, <1>10, <1>11, <1>12, <1>13 DEF Next, Send

-----------------------------------------------------------------------------
\* The signed copy.  On an envelope that is not excused one call works at a time, and
\* between two of its steps the copy in the library, the metadata and what the call
\* holds of it agree.

Handles(h, e) == handler[h].pc # "idle" /\ handler[h].env = e

OneHandler ==
    \A e \in Envelope \ overlapped :
        \A g, h \in Handler : Handles(g, e) /\ Handles(h, e) => g = h

\* What a call c may hold when n copies are stored and the metadata names one or not.
Agrees(c, n, copy) ==
    /\ c.pc = "download" => n = 0
    /\ c.pc = "file" => n = 1
    /\ c.pc = "status" /\ c.by = "webhook" => c.copy = copy
    /\ c.pc = "signing" => c.copy = copy

Filing(e) == \E h \in Handler : Handles(h, e) /\ handler[h].pc = "file"

CopyFiled ==
    \A e \in Envelope \ overlapped :
        /\ docs[e] <= 1
        /\ docs[e] = 1 => contract[e].copy \/ Filing(e)
        /\ \A h \in Handler : Handles(h, e) => Agrees(handler[h], docs[e], contract[e].copy)

\* A step of the call h on its envelope keeps both if its envelope agrees afterwards.
LEMMA CallStepKeepsCopy ==
    ASSUME TypeOK, OneHandler, CopyFiled,
           NEW h \in Handler, handler[h].pc # "idle",
           NEW d \in CallType, handler' = [handler EXCEPT ![h] = d],
           d.pc # "idle" => d.env = handler[h].env,
           overlapped \subseteq overlapped',
           \A e \in Envelope : e # handler[h].env => contract'[e] = contract[e] /\ docs'[e] = docs[e],
           handler[h].env \notin overlapped' =>
               /\ docs'[handler[h].env] <= 1
               /\ docs'[handler[h].env] = 1 => contract'[handler[h].env].copy \/ d.pc = "file"
               /\ d.pc # "idle" => Agrees(d, docs'[handler[h].env], contract'[handler[h].env].copy)
    PROVE  OneHandler' /\ CopyFiled'
  <1>1. /\ handler \in [Handler -> CallType] /\ handler'[h] = d
        /\ \A g \in Handler : g # h => handler'[g] = handler[g]
    BY TypeParts DEF HandlersTyped
  <1>2. \A g \in Handler, e \in Envelope : Handles(g, e)' => Handles(g, e)
    BY <1>1 DEF Handles
  <1>3. OneHandler'
    BY <1>2 DEF OneHandler
  <1>4. ASSUME NEW e \in Envelope, e \notin overlapped', e = handler[h].env
        PROVE  /\ docs'[e] <= 1
               /\ docs'[e] = 1 => contract'[e].copy \/ Filing(e)'
               /\ \A g \in Handler : Handles(g, e)' => Agrees(handler'[g], docs'[e], contract'[e].copy)
    <2>1. \A g \in Handler : Handles(g, e) => g = h
      BY <1>4 DEF OneHandler, Handles
    <2>2. d.pc = "file" => Filing(e)'
      BY <1>1, <1>4 DEF Filing, Handles
    <2>3. \A g \in Handler : Handles(g, e)' => g = h /\ d.pc # "idle"
      BY <1>1, <1>2, <2>1 DEF Handles
    <2> QED
      BY <1>1, <1>4, <2>2, <2>3
  <1>5. ASSUME NEW e \in Envelope, e \notin overlapped', e # handler[h].env
        PROVE  /\ docs'[e] <= 1
               /\ docs'[e] = 1 => contract'[e].copy \/ Filing(e)'
               /\ \A g \in Handler : Handles(g, e)' => Agrees(handler'[g], docs'[e], contract'[e].copy)
    <2>1. docs'[e] = docs[e] /\ contract'[e] = contract[e] /\ e \notin overlapped
      BY <1>5
    <2>2. \A g \in Handler : Handles(g, e) => g # h /\ Handles(g, e)' /\ handler'[g] = handler[g]
      BY <1>1, <1>5 DEF Handles
    <2>3. Filing(e) => Filing(e)'
      BY <2>2 DEF Filing
    <2>4. \A g \in Handler : Handles(g, e)' => Handles(g, e)
      BY <1>2
    <2> QED
      BY <2>1, <2>2, <2>3, <2>4 DEF CopyFiled
  <1>6. CopyFiled'
    BY <1>4, <1>5 DEF CopyFiled
  <1> QED
    BY <1>3, <1>6

\* A call that begins beside another excuses its envelope; alone, it finds it filed.
LEMMA StartKeepsCopy ==
    ASSUME TypeOK, OneHandler, CopyFiled, NEW h \in Handler, NEW c \in CallType, Start(h, c),
           c.pc \in {"status", "store"}, c.env \in Envelope,
           c.by = "webhook" => c.copy = contract[c.env].copy,
           UNCHANGED <<contract, docs>>
    PROVE  OneHandler' /\ CopyFiled'
  <1>1. /\ handler[h].pc = "idle" /\ handler'[h] = c
        /\ \A g \in Handler : g # h => handler'[g] = handler[g]
    BY TypeParts DEF Start, HandlersTyped
  <1>2. \A e \in Envelope \ overlapped' : e \notin overlapped
    BY DEF Start
  <1>3. ASSUME NEW e \in Envelope, e \notin overlapped', c.env = e
        PROVE  \A g \in Handler : (~Handles(g, e)) /\ (Handles(g, e)' => g = h)
    BY <1>1, <1>3 DEF Start, Handles
  <1>4. ASSUME NEW e \in Envelope, c.env # e
        PROVE  \A g \in Handler : /\ Handles(g, e)' <=> Handles(g, e)
                                  /\ Handles(g, e) => handler'[g] = handler[g]
    BY <1>1, <1>4 DEF Handles
  <1>5. OneHandler'
    BY <1>2, <1>3, <1>4 DEF OneHandler
  <1>6. ASSUME NEW e \in Envelope, e \notin overlapped'
        PROVE  /\ docs'[e] <= 1
               /\ docs'[e] = 1 => contract'[e].copy \/ Filing(e)'
               /\ \A g \in Handler : Handles(g, e)' => Agrees(handler'[g], docs'[e], contract'[e].copy)
    <2>1. CASE c.env = e
      <3>1. ~Filing(e)
        BY <1>3, <1>6, <2>1 DEF Filing
      <3>2. Agrees(c, docs[e], contract[e].copy)
        BY <2>1 DEF Agrees
      <3> QED
        BY <1>1, <1>2, <1>3, <1>6, <2>1, <3>1, <3>2 DEF CopyFiled
    <2>2. CASE c.env # e
      <3>1. Filing(e) => Filing(e)'
        BY <1>4, <2>2 DEF Filing
      <3> QED
        BY <1>2, <1>4, <1>6, <2>2, <3>1 DEF CopyFiled
    <2> QED
      BY <2>1, <2>2
  <1> QED
    BY <1>5, <1>6 DEF CopyFiled

\* No step files a second copy on an envelope that is not excused.
LEMMA CopyKept ==
    ASSUME TypeOK, EnvelopeRows, OneHandler, CopyFiled, Next
    PROVE  OneHandler' /\ CopyFiled'
  <1>1. ASSUME UNCHANGED <<contract, docs, handler, overlapped>> PROVE OneHandler' /\ CopyFiled'
    BY <1>1 DEF OneHandler, CopyFiled, Handles, Filing, Agrees
  <1>2. ASSUME NEW e \in Envelope, CreateRow(e) PROVE OneHandler' /\ CopyFiled'
    <2>1. /\ UNCHANGED <<docs, handler, overlapped>>
          /\ \A f \in Envelope : f # e => contract'[f] = contract[f]
          /\ docs[e] = 0 /\ ~contract[e].row
      BY <1>2, TypeParts DEF CreateRow, EnvelopeRows, ContractsTyped
    <2>2. \A h \in Handler : ~Handles(h, e)
      BY <2>1, TypeParts DEF Handles, HandlersTyped
    <2>3. \A f \in Envelope : /\ \A h \in Handler : Handles(h, f)' <=> Handles(h, f)
                              /\ Filing(f)' <=> Filing(f)
      BY <2>1 DEF Handles, Filing
    <2> QED
      BY <2>1, <2>2, <2>3 DEF OneHandler, CopyFiled
  <1>3. ASSUME NEW m \in events, NEW h \in Handler, Deliver(h, m) PROVE OneHandler' /\ CopyFiled'
    <2> DEFINE c == [pc |-> "status", env |-> m[1], by |-> "webhook", status |-> m[2],
                     copy |-> contract[m[1]].copy, row |-> 0, read |-> "draft"]
    <2>1. m[1] \in Envelope /\ m[2] \in EnvelopeStatus
      BY TypeParts DEF EnvelopesTyped
    <2>2. c \in CallType /\ c.pc = "status" /\ c.env = m[1] /\ c.copy = contract[m[1]].copy
      BY <2>1, TypeParts DEF CallType, HandlerPoint, ContractsTyped, AgreementStatus
    <2>3. Start(h, c) /\ UNCHANGED <<contract, docs>>
      BY <1>3 DEF Deliver
    <2> HIDE DEF c
    <2> QED
      BY <2>1, <2>2, <2>3, StartKeepsCopy
  <1>4. ASSUME NEW h \in Handler, NEW e \in Envelope, RefreshStatus(h, e)
        PROVE  OneHandler' /\ CopyFiled'
    <2> DEFINE c == [NoCall EXCEPT !.pc = "status", !.env = e, !.by = "person", !.status = envelope[e]]
    <2>1. Start(h, c) /\ contract[e].row /\ UNCHANGED <<contract, docs>>
      BY <1>4 DEF RefreshStatus, HasRow
    <2>2. envelope[e] \in EnvelopeStatus
      BY <2>1, TypeParts DEF EnvelopeRows, EnvelopesTyped
    <2>3. c \in CallType /\ c.pc = "status" /\ c.env = e /\ c.by = "person"
      BY <2>2, NoCallType DEF CallType, HandlerPoint
    <2> HIDE DEF c
    <2> QED
      BY <2>1, <2>3, StartKeepsCopy
  <1>5. ASSUME NEW h \in Handler, NEW e \in Envelope, StoreSigned(h, e)
        PROVE  OneHandler' /\ CopyFiled'
    <2> DEFINE c == [NoCall EXCEPT !.pc = "store", !.env = e, !.by = "pull"]
    <2>1. Start(h, c) /\ UNCHANGED <<contract, docs>>
      BY <1>5 DEF StoreSigned
    <2>2. c \in CallType /\ c.pc = "store" /\ c.env = e /\ c.by = "pull"
      BY NoCallType DEF CallType, HandlerPoint
    <2> HIDE DEF c
    <2> QED
      BY <2>1, <2>2, StartKeepsCopy
  <1>6. ASSUME NEW h \in Handler, Handle(h) \/ HandlerDies(h) PROVE OneHandler' /\ CopyFiled'
    <2> DEFINE c == handler[h]
               e == c.env
    <2>1. c \in CallType /\ handler[h].pc # "idle"
      BY <1>6, TypeParts DEF HandlersTyped, Handle, WriteStatus, StoreRead, Store, File, StoreFails,
            SignRead, SignWrite, Find, Execute, HandlerDies
    <2>2. e \in Envelope /\ contract[e].row
      BY <2>1, TypeParts DEF HandlersTyped
    <2>3. contract[e] \in [row: BOOLEAN, copy: BOOLEAN] /\ docs[e] \in Nat
      BY <2>2, TypeParts DEF ContractsTyped
    <2>4. ASSUME e \notin overlapped
          PROVE  /\ docs[e] <= 1 /\ Agrees(c, docs[e], contract[e].copy)
                 /\ docs[e] = 1 => contract[e].copy \/ c.pc = "file"
      <3>1. Handles(h, e)
        BY <2>1 DEF Handles
      <3>2. Filing(e) => c.pc = "file"
        BY <2>2, <2>4, <3>1 DEF Filing, OneHandler
      <3> QED
        BY <2>2, <2>4, <3>1, <3>2 DEF CopyFiled
    <2>5. \A d \in CallType :
             /\ handler' = [handler EXCEPT ![h] = d]
             /\ d.pc # "idle" => d.env = e
             /\ overlapped \subseteq overlapped'
             /\ \A f \in Envelope : f # e => contract'[f] = contract[f] /\ docs'[f] = docs[f]
             /\ e \notin overlapped' =>
                   /\ docs'[e] <= 1
                   /\ docs'[e] = 1 => contract'[e].copy \/ d.pc = "file"
                   /\ d.pc # "idle" => Agrees(d, docs'[e], contract'[e].copy)
             => OneHandler' /\ CopyFiled'
      BY <2>1, CallStepKeepsCopy
    <2> HIDE DEF c
    \* A call that ends while nothing is written but the history.
    <2>6. ASSUME NoCall \in CallType, handler' = [handler EXCEPT ![h] = NoCall],
                 UNCHANGED <<contract, docs>>, overlapped \subseteq overlapped',
                 c.pc = "file" => e \in overlapped'
          PROVE  OneHandler' /\ CopyFiled'
      <3>1. e \notin overlapped' => e \notin overlapped /\ c.pc # "file"
        BY <2>6
      <3> QED
        BY <2>4, <2>5, <2>6, <3>1, NoCallType
    <2>7. CASE WriteStatus(h)
      <3>1. /\ c.pc = "status" /\ UNCHANGED <<docs, overlapped>>
            /\ \A f \in Envelope : f # e => contract'[f] = contract[f]
        BY <2>7, TypeParts DEF WriteStatus, ContractsTyped, c
      <3>2. e \notin overlapped => contract'[e] = contract[e]
        BY <2>2, <2>3, <2>4, <2>7, <3>1, TypeParts DEF WriteStatus, ContractsTyped, Agrees, c
      <3>3. \/ handler' = [handler EXCEPT ![h] = AfterStatus(c)]
            \/ handler' = [handler EXCEPT ![h] = NoCall]
        BY <2>7 DEF WriteStatus, Answer, c
      <3>4. AfterStatus(c) \in CallType /\ AfterStatus(c).pc = "store" /\ AfterStatus(c).env = e
        BY <2>1, CallCourse DEF c
      <3>5. \A n, k : Agrees(AfterStatus(c), n, k)
        BY <3>4 DEF Agrees
      <3> QED
        BY <2>4, <2>5, <3>1, <3>2, <3>3, <3>4, <3>5, NoCallType
    <2>8. CASE StoreRead(h)
      <3> DEFINE d == [c EXCEPT !.pc = "download"]
      <3>1. c.pc = "store" /\ UNCHANGED <<contract, docs, overlapped>>
        BY <2>8 DEF StoreRead, c
      <3>2. \/ contract[e].copy /\ handler' = [handler EXCEPT ![h] = AfterStore(c)]
            \/ ~contract[e].copy /\ handler' = [handler EXCEPT ![h] = d]
        BY <2>8 DEF StoreRead, Stored, c
      <3>3. AfterStore(c) \in CallType /\ AfterStore(c).pc \in {"store", "sign"} /\ AfterStore(c).env = e
        BY <2>1, CallCourse DEF c
      <3>4. d \in CallType /\ d.pc = "download" /\ d.env = e
        BY <2>1, CallUpdates DEF HandlerPoint, c
      <3> HIDE DEF d
      <3>5. \A n, k : Agrees(AfterStore(c), n, k) /\ (n = 0 => Agrees(d, n, k))
        BY <3>3, <3>4 DEF Agrees
      <3>6. ~contract[e].copy /\ e \notin overlapped => docs[e] = 0
        BY <2>3, <2>4, <3>1
      <3> QED
        BY <2>4, <2>5, <3>1, <3>2, <3>3, <3>4, <3>5, <3>6
    <2>9. CASE Store(h)
      <3> DEFINE d == [c EXCEPT !.pc = "file"]
      <3>1. c.pc = "download" /\ UNCHANGED <<contract, overlapped>>
        BY <2>9 DEF Store, c
      <3>2. handler' = [handler EXCEPT ![h] = d]
        BY <2>9, TypeParts DEF Store, HandlerTo, HandlersTyped, c
      <3>3. docs'[e] = docs[e] + 1 /\ \A f \in Envelope : f # e => docs'[f] = docs[f]
        BY <2>2, <2>9, TypeParts DEF Store, ContractsTyped, c
      <3>4. d \in CallType /\ d.pc = "file" /\ d.env = e
        BY <2>1, CallUpdates DEF HandlerPoint, c
      <3> HIDE DEF d
      <3>5. e \notin overlapped => docs'[e] = 1
        BY <2>4, <3>1, <3>3 DEF Agrees
      <3>6. \A n, k : n = 1 => Agrees(d, n, k)
        BY <3>4 DEF Agrees
      <3>7. e \notin overlapped' => docs'[e] <= 1 /\ Agrees(d, docs'[e], contract'[e].copy)
        BY <3>1, <3>5, <3>6
      <3> QED
        BY <2>5, <3>1, <3>2, <3>3, <3>4, <3>7
    <2>10. CASE File(h)
      <3>1. c.pc = "file" /\ UNCHANGED <<docs, overlapped>>
        BY <2>10 DEF File, c
      <3>2. handler' = [handler EXCEPT ![h] = AfterStore(c)]
        BY <2>10 DEF File, c
      <3>3. contract'[e].copy /\ \A f \in Envelope : f # e => contract'[f] = contract[f]
        BY <2>2, <2>10, TypeParts DEF File, ContractsTyped, c
      <3>4. AfterStore(c) \in CallType /\ AfterStore(c).pc \in {"store", "sign"} /\ AfterStore(c).env = e
        BY <2>1, CallCourse DEF c
      <3>5. \A n, k : Agrees(AfterStore(c), n, k)
        BY <3>4 DEF Agrees
      <3> QED
        BY <2>4, <2>5, <3>1, <3>2, <3>3, <3>4, <3>5
    <2>11. CASE StoreFails(h)
      <3>1. c.pc = "download" /\ UNCHANGED <<contract, docs, overlapped>>
        BY <2>11 DEF StoreFails, c
      <3>2. handler' = [handler EXCEPT ![h] = AfterNoCopy(c)]
        BY <2>11 DEF StoreFails, c
      <3>3. /\ AfterNoCopy(c) \in CallType /\ AfterNoCopy(c).pc \in {"idle", "sign"}
            /\ AfterNoCopy(c).pc # "idle" => AfterNoCopy(c).env = e
        BY <2>1, CallCourse DEF c
      <3>4. \A n, k : Agrees(AfterNoCopy(c), n, k)
        BY <3>3 DEF Agrees
      <3> QED
        BY <2>4, <2>5, <3>1, <3>2, <3>3, <3>4
    <2>12. CASE SignRead(h)
      <3> DEFINE d == [c EXCEPT !.pc = "signing", !.copy = contract[e].copy]
      <3>1. c.pc = "sign" /\ UNCHANGED <<contract, docs, overlapped>>
        BY <2>12 DEF SignRead, c
      <3>2. handler' = [handler EXCEPT ![h] = d]
        BY <2>12, TypeParts DEF SignRead, HandlersTyped, c
      <3>3. d \in CallType /\ d.pc = "signing" /\ d.env = e /\ d.copy = contract[e].copy
        BY <2>1, <2>2, TypeParts, CopyUpdates DEF c
      <3> HIDE DEF d
      <3>4. \A n : Agrees(d, n, contract[e].copy)
        BY <3>3 DEF Agrees
      <3> QED
        BY <2>4, <2>5, <3>1, <3>2, <3>3, <3>4
    <2>13. CASE SignWrite(h)
      <3> DEFINE d == [c EXCEPT !.pc = "find", !.copy = FALSE]
      <3>1. c.pc = "signing" /\ UNCHANGED <<docs, overlapped>>
        BY <2>13 DEF SignWrite, c
      <3>2. handler' = [handler EXCEPT ![h] = d]
        BY <2>13, TypeParts DEF SignWrite, HandlersTyped, c
      <3>3. \A f \in Envelope : f # e => contract'[f] = contract[f]
        BY <2>13, TypeParts DEF SignWrite, ContractsTyped, c
      <3>4. e \notin overlapped => contract'[e] = contract[e]
        BY <2>2, <2>3, <2>4, <2>13, <3>1, TypeParts DEF SignWrite, ContractsTyped, Agrees, c
      <3>5. d \in CallType /\ d.pc = "find" /\ d.env = e
        BY <2>1, <2>2, TypeParts, CopyUpdates DEF c
      <3> HIDE DEF d
      <3>6. \A n, k : Agrees(d, n, k)
        BY <3>5 DEF Agrees
      <3> QED
        BY <2>4, <2>5, <3>1, <3>2, <3>3, <3>4, <3>5, <3>6
    <2>14. CASE Find(h)
      <3>1. c.pc = "find" /\ UNCHANGED <<contract, docs, overlapped>>
        BY <2>14 DEF Find, c
      <3>2. CASE handler' = [handler EXCEPT ![h] = NoCall]
        BY <2>6, <3>1, <3>2, NoCallType
      <3>3. ASSUME NEW i \in Unsettled(e),
                   handler' = [handler EXCEPT ![h].pc = "execute", ![h].row = i,
                                              ![h].read = agreements[i].status]
            PROVE  OneHandler' /\ CopyFiled'
        <4> DEFINE d == [c EXCEPT !.pc = "execute", !.row = i, !.read = agreements[i].status]
        <4>1. i \in Nat /\ agreements[i].status \in AgreementStatus
          BY RowsExist, TypeParts DEF Unsettled
        <4>2. d \in CallType /\ d.pc = "execute" /\ d.env = e
          BY <2>1, <4>1 DEF CallType, HandlerPoint, c
        <4>3. handler' = [handler EXCEPT ![h] = d]
          BY <3>3, TypeParts DEF HandlersTyped, c
        <4> HIDE DEF d
        <4>4. \A n, k : Agrees(d, n, k)
          BY <4>2 DEF Agrees
        <4> QED
          BY <2>4, <2>5, <3>1, <4>2, <4>3, <4>4
      <3> QED
        BY <2>14, <3>2, <3>3 DEF Find, Answer, c
    <2>15. CASE Execute(h)
      <3>1. /\ c.pc = "execute" /\ handler' = [handler EXCEPT ![h] = NoCall]
            /\ UNCHANGED <<contract, docs, overlapped>>
        BY <2>15 DEF Execute, Answer, c
      <3> QED
        BY <2>6, <3>1, NoCallType
    <2>16. CASE HandlerDies(h)
      <3>1. /\ handler' = [handler EXCEPT ![h] = NoCall] /\ UNCHANGED <<contract, docs>>
            /\ overlapped \subseteq overlapped' /\ (c.pc = "file" => e \in overlapped')
        BY <2>16 DEF HandlerDies, c
      <3> QED
        BY <2>6, <3>1, NoCallType
    <2> QED
      BY <1>6, <2>7, <2>8, <2>9, <2>10, <2>11, <2>12, <2>13, <2>14, <2>15, <2>16 DEF Handle
  <1>7. ASSUME NEW e \in Envelope,
               Recipients(e) \/ Post(e) \/ ReadDraft(e) \/ AskExecuted(e) \/ Link(e)
               \/ CreateSent(e) \/ SenderDies(e)
        PROVE  OneHandler' /\ CopyFiled'
    BY <1>1, <1>7 DEF Recipients, Post, ReadDraft, AskExecuted, Link, CreateSent, SenderDies
  <1>8. ASSUME NEW p \in Person, Decide(p) PROVE OneHandler' /\ CopyFiled'
    BY <1>1, <1>8 DEF Decide, RecordCheck, RecordCreate, OpenAgreement, MarkExecuted, Terminate
  <1>9. ASSUME NEW m \in events, Ignore(m) PROVE OneHandler' /\ CopyFiled'
    BY <1>1, <1>9 DEF Ignore
  <1> QED
    BY <1>2, <1>3, <1>4, <1>5, <1>6, <1>7, <1>8, <1>9 DEF Next, Send

-----------------------------------------------------------------------------
\* One open agreement besides those a completion revived.  Unless two creations
\* overlapped or a write came too late, one call at most is between its check and its
\* creation, and what it found still holds of the agreements that were not revived.

Standing == RowsIn(Open) \ revived

OneCreation ==
    /\ \A e, f \in Envelope :
        sender[e].pc \in {"ask", "create"} /\ sender[f].pc \in {"ask", "create"} => e = f
    /\ \A p, q \in Person : person[p].pc = "recording" /\ person[q].pc = "recording" => p = q
    /\ \A e \in Envelope, p \in Person :
        ~ (sender[e].pc \in {"ask", "create"} /\ person[p].pc = "recording")

FoundStillHolds ==
    /\ \A e \in Envelope :
        /\ sender[e].pc = "ask" => Linkable = {}
        /\ sender[e].pc = "create" => Standing = {}
    /\ \A p \in Person : person[p].pc = "recording" => Standing = {}

OneOpen == \A i, j \in Standing : i = j

CreationInv == raced \/ (OneCreation /\ FoundStillHolds /\ OneOpen)

\* A write to a row that is open leaves the open agreements what they were, or fewer,
\* and an unsigned one is still needed to have one unsigned.
LEMMA WriteKeepsFound ==
    ASSUME AgreementsTyped, NEW i \in DOMAIN agreements, AgreementsTyped',
           DOMAIN agreements' = DOMAIN agreements,
           \A j \in DOMAIN agreements : j # i => agreements'[j] = agreements[j],
           agreements'[i].status \in Open => agreements[i].status \in Open \/ i \in revived',
           agreements'[i].status \in {"draft", "sent"} => agreements[i].status \in {"draft", "sent"},
           revived \subseteq revived'
    PROVE  /\ Standing' \subseteq Standing
           /\ Linkable' \subseteq Linkable
  BY DEF Standing, RowsIn, Linkable, Open

\* Steps that begin no creation and open nothing.
LEMMA NothingOpened ==
    ASSUME TypeOK, CreationInv, raced' <=> raced,
           Standing' \subseteq Standing, Linkable' \subseteq Linkable,
           \A e \in Envelope : sender'[e].pc \in {"ask", "create"} => sender'[e].pc = sender[e].pc,
           \A p \in Person : person'[p].pc = "recording" => person[p].pc = "recording"
    PROVE  CreationInv'
  BY DEF CreationInv, OneCreation, FoundStillHolds, OneOpen

\* No step makes two open agreements, but for the overlap that raced records.
LEMMA CreationKept ==
    ASSUME TypeOK, CreationInv, Next
    PROVE  CreationInv'
  <1>1. ASSUME UNCHANGED <<agreements, revived>> PROVE Standing' = Standing /\ Linkable' = Linkable
    BY <1>1 DEF Standing, RowsIn, Linkable
  <1>2. AgreementsTyped /\ SendersTyped /\ PeopleTyped /\ HandlersTyped
    BY TypeParts
  <1>3. ASSUME NEW status \in AgreementStatus, NEW i \in DOMAIN agreements, SetStatus(i, status)
        PROVE  /\ AgreementsTyped' /\ DOMAIN agreements' = DOMAIN agreements
               /\ \A j \in DOMAIN agreements : j # i => agreements'[j] = agreements[j]
               /\ agreements'[i].status = status
    BY <1>2, <1>3, StatusSet
  \* A creation by the one call that may create: nothing was open, one row is now.
  <1>4. ASSUME NEW status \in AgreementStatus, NEW c \in Envelope \cup {NoEnvelope}, Create(status, c),
               Standing = {}, UNCHANGED revived
        PROVE  OneOpen'
    <2>1. ASSUME NEW j \in Standing' PROVE j = Len(agreements) + 1
      <3>1. j \in 1..(Len(agreements) + 1) /\ agreements'[j].status \in Open /\ j \notin revived
        BY <1>2, <1>4, <2>1, RowCreated DEF Standing, RowsIn
      <3>2. j \in DOMAIN agreements => j \in Standing
        BY <1>2, <1>4, <3>1, RowCreated DEF Standing, RowsIn
      <3>3. j \in 1..Len(agreements) => j \in DOMAIN agreements
        BY <1>2 DEF AgreementsTyped
      <3>4. Len(agreements) \in Nat
        BY <1>2 DEF AgreementsTyped
      <3> QED
        BY <1>4, <3>1, <3>2, <3>3, <3>4
    <2> QED
      BY <2>1 DEF OneOpen
  <1>5. ASSUME NEW e \in Envelope, Recipients(e) \/ Post(e) \/ CreateRow(e) \/ SenderDies(e)
        PROVE  CreationInv'
    BY <1>1, <1>2, <1>5, NothingOpened DEF Recipients, Post, CreateRow, SenderDies, SenderTo, SendersTyped
  <1>6. ASSUME NEW e \in Envelope, ReadDraft(e) PROVE CreationInv'
    <2>1. CASE SenderTo(e, "ask") /\ Linkable = {} /\ raced' = (raced \/ Creating)
      <3>1. CASE raced \/ Creating
        BY <2>1, <3>1 DEF CreationInv
      <3>2. CASE ~raced /\ ~Creating
        BY <1>1, <1>2, <1>6, <2>1, <3>2
           DEF ReadDraft, Creating, SenderTo, SendersTyped, CreationInv, OneCreation, FoundStillHolds, OneOpen
      <3> QED
        BY <3>1, <3>2
    <2>2. ASSUME NEW i \in Linkable, UNCHANGED raced,
                 sender' = [sender EXCEPT ![e] = [pc |-> "link", row |-> i, read |-> agreements[i].status]]
          PROVE  CreationInv'
      BY <1>1, <1>2, <1>6, <2>2, NothingOpened DEF ReadDraft, SendersTyped
    <2> QED
      BY <1>6, <2>1, <2>2 DEF ReadDraft
  <1>7. ASSUME NEW e \in Envelope, AskExecuted(e) PROVE CreationInv'
    <2>1. CASE raced
      BY <1>7, <2>1 DEF AskExecuted, CreationInv
    <2>2. CASE ~raced /\ RowsIn({"executed"}) # {}
      BY <1>1, <1>2, <1>7, <2>2, NothingOpened DEF AskExecuted, SenderTo, SendersTyped
    <2>3. CASE ~raced /\ RowsIn({"executed"}) = {}
      <3>1. Standing = {}
        BY <1>7, <2>3 DEF AskExecuted, CreationInv, FoundStillHolds, Linkable, Standing, RowsIn, Open
      <3> QED
        BY <1>1, <1>2, <1>7, <2>3, <3>1
           DEF AskExecuted, SenderTo, SendersTyped, CreationInv, OneCreation, FoundStillHolds, OneOpen
    <2> QED
      BY <1>7, <2>1, <2>2, <2>3 DEF AskExecuted, CountersTyped
  <1>8. ASSUME NEW e \in Envelope, Link(e) PROVE CreationInv'
    <2> DEFINE i == sender[e].row
    <2>1. i \in DOMAIN agreements
      BY <1>2, <1>8 DEF Link, SendersTyped
    <2>2. CASE raced \/ i \notin Linkable
      BY <1>8, <2>2 DEF Link, CreationInv
    <2>3. CASE ~raced /\ i \in Linkable
      <3>1. [status |-> "sent", contract |-> e] \in Row
        BY DEF Row, AgreementStatus
      <3>2. /\ AgreementsTyped' /\ DOMAIN agreements' = DOMAIN agreements
            /\ \A j \in DOMAIN agreements : j # i => agreements'[j] = agreements[j]
            /\ agreements'[i].status = "sent"
        BY <1>2, <1>8, <2>1, <3>1, RowWritten DEF Link
      <3>3. Standing' \subseteq Standing /\ Linkable' \subseteq Linkable
        BY <1>2, <1>8, <2>1, <2>3, <3>2, WriteKeepsFound DEF Link, Linkable, RowsIn, Open
      <3> QED
        BY <1>2, <1>8, <2>3, <3>3, NothingOpened DEF Link, SenderTo, SendersTyped
    <2> QED
      BY <2>2, <2>3
  <1>9. ASSUME NEW e \in Envelope, CreateSent(e) PROVE CreationInv'
    <2>1. CASE raced
      BY <1>9, <2>1 DEF CreateSent, CreationInv
    <2>2. CASE ~raced
      <3>1. OneOpen'
        BY <1>4, <1>9, <2>2 DEF CreateSent, CreationInv, FoundStillHolds, AgreementStatus
      <3>2. /\ \A f \in Envelope : sender'[f].pc \notin {"ask", "create"}
            /\ \A p \in Person : person'[p].pc # "recording"
        BY <1>2, <1>9, <2>2 DEF CreateSent, SenderTo, SendersTyped, CreationInv, OneCreation
      <3> QED
        BY <3>1, <3>2 DEF CreationInv, OneCreation, FoundStillHolds
    <2> QED
      BY <2>1, <2>2
  <1>10. ASSUME NEW p \in Person, RecordCheck(p) PROVE CreationInv'
    <2>1. CASE raced \/ Creating
      BY <1>10, <2>1 DEF RecordCheck, CreationInv
    <2>2. CASE ~raced /\ ~Creating
      BY <1>1, <1>2, <1>10, <2>2
         DEF RecordCheck, NoneOpen, Standing, Creating, PersonTo, PeopleTyped, CreationInv, OneCreation, FoundStillHolds, OneOpen
    <2> QED
      BY <2>1, <2>2
  <1>11. ASSUME NEW p \in Person, RecordCreate(p) PROVE CreationInv'
    <2>1. CASE raced
      BY <1>11, <2>1 DEF RecordCreate, CreationInv
    <2>2. CASE ~raced
      <3>1. OneOpen'
        BY <1>4, <1>11, <2>2 DEF RecordCreate, CreationInv, FoundStillHolds, AgreementStatus
      <3>2. /\ \A e \in Envelope : sender'[e].pc \notin {"ask", "create"}
            /\ \A q \in Person : person'[q].pc # "recording"
        BY <1>2, <1>11, <2>2 DEF RecordCreate, PersonTo, PeopleTyped, CreationInv, OneCreation
      <3> QED
        BY <3>1, <3>2 DEF CreationInv, OneCreation, FoundStillHolds
    <2> QED
      BY <2>1, <2>2
  <1>12. ASSUME NEW p \in Person, OpenAgreement(p) PROVE CreationInv'
    BY <1>1, <1>2, <1>12, NothingOpened DEF OpenAgreement, PeopleTyped
  <1>13. ASSUME NEW p \in Person, MarkExecuted(p) PROVE CreationInv'
    <2> DEFINE i == person[p].row
    <2>1. i \in DOMAIN agreements /\ SetStatus(i, "executed")
      BY <1>2, <1>13 DEF MarkExecuted, PeopleTyped
    <2>2. CASE raced \/ Ended(i)
      BY <1>13, <2>2 DEF MarkExecuted, CreationInv
    <2>3. CASE ~raced /\ ~Ended(i)
      <3>1. agreements[i].status \in Open
        BY <1>2, <2>1, <2>3, RowsExist DEF Ended, AgreementStatus, Open
      <3>2. Standing' \subseteq Standing /\ Linkable' \subseteq Linkable
        BY <1>2, <1>3, <1>13, <2>1, <3>1, WriteKeepsFound DEF MarkExecuted, AgreementStatus
      <3> QED
        BY <1>2, <1>13, <2>3, <3>2, NothingOpened DEF MarkExecuted, PersonTo, PeopleTyped
    <2> QED
      BY <2>2, <2>3
  <1>14. ASSUME NEW p \in Person, Terminate(p) PROVE CreationInv'
    <2> DEFINE i == person[p].row
    <2>1. i \in DOMAIN agreements /\ SetStatus(i, "ended")
      BY <1>2, <1>14 DEF Terminate, PeopleTyped
    <2>2. Standing' \subseteq Standing /\ Linkable' \subseteq Linkable
      BY <1>2, <1>3, <1>14, <2>1, WriteKeepsFound DEF Terminate, AgreementStatus, Open
    <2> QED
      BY <1>2, <1>14, <2>2, NothingOpened DEF Terminate, PersonTo, PeopleTyped
  <1>15. ASSUME NEW h \in Handler, Execute(h) PROVE CreationInv'
    <2> DEFINE i == handler[h].row
    <2>1. i \in DOMAIN agreements /\ SetStatus(i, "executed")
      BY <1>2, <1>15 DEF Execute, HandlersTyped
    <2>2. CASE raced'
      BY <2>2 DEF CreationInv
    <2>3. CASE ~raced'
      <3>1. ~raced /\ (agreements[i].status \in Open \/ i \in revived') /\ revived \subseteq revived'
        BY <1>2, <1>15, <2>1, <2>3, RowsExist DEF Execute, Ended, AgreementStatus, Open
      <3>2. Standing' \subseteq Standing /\ Linkable' \subseteq Linkable
        BY <1>2, <1>3, <2>1, <3>1, WriteKeepsFound DEF AgreementStatus
      <3> QED
        BY <1>2, <1>15, <2>3, <3>1, <3>2, NothingOpened DEF Execute
    <2> QED
      BY <2>2, <2>3
  <1>16. ASSUME UNCHANGED <<agreements, sender, person, revived, raced>> PROVE CreationInv'
    BY <1>1, <1>16, NothingOpened
  <1>17. ASSUME NEW h \in Handler,
                \/ WriteStatus(h) \/ StoreRead(h) \/ Store(h) \/ File(h) \/ StoreFails(h)
                \/ SignRead(h) \/ SignWrite(h) \/ Find(h) \/ HandlerDies(h)
         PROVE  CreationInv'
    BY <1>16, <1>17 DEF WriteStatus, StoreRead, Store, File, StoreFails, SignRead, SignWrite, Find, HandlerDies
  <1>18. ASSUME NEW m \in events, Ignore(m) PROVE CreationInv'
    BY <1>16, <1>18 DEF Ignore
  <1>19. ASSUME NEW m \in events, NEW h \in Handler, Deliver(h, m) PROVE CreationInv'
    BY <1>16, <1>19 DEF Deliver
  <1>20. ASSUME NEW h \in Handler, NEW e \in Envelope, RefreshStatus(h, e) \/ StoreSigned(h, e)
         PROVE  CreationInv'
    BY <1>16, <1>20 DEF RefreshStatus, StoreSigned
  <1> QED
    BY <1>5, <1>6, <1>7, <1>8, <1>9, <1>10, <1>11, <1>12, <1>13, <1>14, <1>15, <1>17, <1>18, <1>19, <1>20
       DEF Next, Send, Decide, Handle

-----------------------------------------------------------------------------
\* What a sender links to was not signed when it looked.
LinksUnsigned == \A e \in Envelope : sender[e].pc = "link" => sender[e].read \in {"draft", "sent"}

\* What is linked was read as a draft or sent, and stays so until the link.
LEMMA LinksUnsignedKept ==
    ASSUME TypeOK, LinksUnsigned, Next
    PROVE  LinksUnsigned'
  <1>1. SendersTyped
    BY TypeParts
  <1>2. CASE UNCHANGED sender
    BY <1>2 DEF LinksUnsigned
  <1>3. ASSUME NEW e \in Envelope, ReadDraft(e) PROVE LinksUnsigned'
    <2>1. \A i \in Linkable : agreements[i].status \in {"draft", "sent"}
      BY DEF Linkable, RowsIn
    <2> QED
      BY <1>1, <1>3, <2>1 DEF ReadDraft, SenderTo, LinksUnsigned, SendersTyped, SenderType
  <1>4. ASSUME NEW e \in Envelope, NEW pc \in SenderPoint \ {"link"}, SenderTo(e, pc)
        PROVE  LinksUnsigned'
    BY <1>1, <1>4 DEF SenderTo, LinksUnsigned, SendersTyped, SenderType
  <1>5. ASSUME NEW e \in Envelope,
               Post(e) \/ CreateRow(e) \/ AskExecuted(e) \/ Link(e) \/ CreateSent(e) \/ SenderDies(e)
        PROVE  LinksUnsigned'
    BY <1>4, <1>5 DEF Post, CreateRow, AskExecuted, Link, CreateSent, SenderDies, SenderPoint
  <1>6. ASSUME NEW e \in Envelope, Recipients(e) PROVE UNCHANGED sender
    BY <1>6 DEF Recipients
  <1>7. ASSUME NEW p \in Person, Decide(p) PROVE UNCHANGED sender
    BY <1>7 DEF Decide, RecordCheck, RecordCreate, OpenAgreement, MarkExecuted, Terminate
  <1>8. ASSUME NEW m \in events, Ignore(m) PROVE UNCHANGED sender
    BY <1>8 DEF Ignore
  <1>9. ASSUME NEW m \in events, NEW h \in Handler, Deliver(h, m) PROVE UNCHANGED sender
    BY <1>9 DEF Deliver
  <1>10. ASSUME NEW h \in Handler, NEW e \in Envelope, RefreshStatus(h, e) \/ StoreSigned(h, e)
         PROVE  UNCHANGED sender
    BY <1>10 DEF RefreshStatus, StoreSigned
  <1>11. ASSUME NEW h \in Handler, Handle(h) \/ HandlerDies(h) PROVE UNCHANGED sender
    BY <1>11 DEF Handle, WriteStatus, StoreRead, Store, File, StoreFails, SignRead, SignWrite, Find,
                 Execute, HandlerDies
  <1> QED
    BY <1>2, <1>3, <1>5, <1>6, <1>7, <1>8, <1>9, <1>10, <1>11 DEF Next, Send

\* A step on an executed agreement: nothing, its termination, or a link that was late.
LEMMA ExecutedKept ==
    ASSUME TypeOK, LinksUnsigned, Next, NEW i \in RowsIn({"executed"})
    PROVE  \/ agreements'[i] = agreements[i]
           \/ agreements'[i].status = "ended"
           \/ \E e \in Envelope :
               sender[e].pc = "link" /\ sender[e].row = i /\ sender[e].read # "executed"
  <1>1. i \in DOMAIN agreements /\ agreements[i].status = "executed" /\ agreements[i] \in Row
    BY TypeParts, RowsExist DEF RowsIn
  <1>2. AgreementsTyped /\ SendersTyped /\ PeopleTyped /\ HandlersTyped
    BY TypeParts
  <1>3. CASE UNCHANGED agreements
    BY <1>3
  <1>4. ASSUME NEW status \in AgreementStatus, NEW c \in Envelope \cup {NoEnvelope}, Create(status, c)
        PROVE  agreements'[i] = agreements[i]
    BY <1>1, <1>2, <1>4, RowCreated
  <1>5. ASSUME NEW j \in DOMAIN agreements, SetStatus(j, "executed")
        PROVE  agreements'[i] = agreements[i]
    <2>1. [agreements[i] EXCEPT !.status = "executed"] = agreements[i]
      BY <1>1 DEF Row
    <2>2. agreements' = [agreements EXCEPT ![j] = [agreements[j] EXCEPT !.status = "executed"]]
      BY <1>5 DEF SetStatus
    <2> QED
      BY <1>1, <2>1, <2>2
  <1>6. ASSUME NEW e \in Envelope, Link(e)
        PROVE  agreements'[i] = agreements[i] \/ (sender[e].row = i /\ sender[e].read # "executed")
    BY <1>1, <1>2, <1>6 DEF Link, LinksUnsigned
  <1>7. ASSUME NEW p \in Person, Terminate(p)
        PROVE  agreements'[i] = agreements[i] \/ agreements'[i].status = "ended"
    <2>1. person[p].row \in DOMAIN agreements /\ SetStatus(person[p].row, "ended")
      BY <1>2, <1>7 DEF Terminate, PeopleTyped
    <2> QED
      BY <1>1, <1>2, <2>1, StatusSet DEF AgreementStatus
  <1>8. ASSUME NEW p \in Person, MarkExecuted(p) PROVE agreements'[i] = agreements[i]
    BY <1>2, <1>5, <1>8 DEF MarkExecuted, PeopleTyped
  <1>9. ASSUME NEW h \in Handler, Execute(h) PROVE agreements'[i] = agreements[i]
    BY <1>2, <1>5, <1>9 DEF Execute, HandlersTyped
  <1>10. ASSUME NEW e \in Envelope, CreateSent(e) PROVE agreements'[i] = agreements[i]
    BY <1>4, <1>10 DEF CreateSent, AgreementStatus
  <1>11. ASSUME NEW p \in Person, RecordCreate(p) PROVE agreements'[i] = agreements[i]
    BY <1>4, <1>11 DEF RecordCreate, AgreementStatus
  <1>12. ASSUME NEW e \in Envelope,
                Recipients(e) \/ Post(e) \/ CreateRow(e) \/ ReadDraft(e) \/ AskExecuted(e) \/ SenderDies(e)
         PROVE  UNCHANGED agreements
    BY <1>12 DEF Recipients, Post, CreateRow, ReadDraft, AskExecuted, SenderDies
  <1>13. ASSUME NEW p \in Person, RecordCheck(p) \/ OpenAgreement(p) PROVE UNCHANGED agreements
    BY <1>13 DEF RecordCheck, OpenAgreement
  <1>14. ASSUME NEW m \in events, Ignore(m) PROVE UNCHANGED agreements
    BY <1>14 DEF Ignore
  <1>15. ASSUME NEW m \in events, NEW h \in Handler, Deliver(h, m) PROVE UNCHANGED agreements
    BY <1>15 DEF Deliver
  <1>16. ASSUME NEW h \in Handler, NEW e \in Envelope, RefreshStatus(h, e) \/ StoreSigned(h, e)
         PROVE  UNCHANGED agreements
    BY <1>16 DEF RefreshStatus, StoreSigned
  <1>17. ASSUME NEW h \in Handler,
                \/ WriteStatus(h) \/ StoreRead(h) \/ Store(h) \/ File(h) \/ StoreFails(h)
                \/ SignRead(h) \/ SignWrite(h) \/ Find(h) \/ HandlerDies(h)
         PROVE  UNCHANGED agreements
    BY <1>17 DEF WriteStatus, StoreRead, Store, File, StoreFails, SignRead, SignWrite, Find, HandlerDies
  <1>18. ASSUME NEW e \in Envelope, Link(e)
         PROVE  \/ agreements'[i] = agreements[i]
                \/ \E f \in Envelope :
                    sender[f].pc = "link" /\ sender[f].row = i /\ sender[f].read # "executed"
    <2>1. sender[e].pc = "link"
      BY <1>18 DEF Link
    <2> QED
      BY <1>6, <1>18, <2>1
  <1> QED
    BY <1>3, <1>7, <1>8, <1>9, <1>10, <1>11, <1>12, <1>13, <1>14, <1>15, <1>16, <1>17, <1>18
       DEF Next, Send, Decide, Handle

-----------------------------------------------------------------------------
\* The inductive invariant and the theorems.

Inv ==
    /\ TypeOK
    /\ EnvelopeRows
    /\ OneHandler
    /\ CopyFiled
    /\ LinksUnsigned
    /\ CreationInv

\* The strengthened invariant holds at the start, and every step keeps it.
LEMMA InitInv == Init => Inv
  <1> SUFFICES ASSUME Init PROVE Inv
    OBVIOUS
  <1>1. TypeOK
    BY InitType
  <1>2. EnvelopeRows /\ LinksUnsigned
    BY DEF Init, EnvelopeRows, LinksUnsigned
  <1>3. OneHandler /\ CopyFiled
    <2>1. \A h \in Handler, e \in Envelope : ~Handles(h, e)
      BY DEF Init, Handles, NoCall
    <2>2. \A e \in Envelope : docs[e] = 0
      BY DEF Init
    <2> QED
      BY <2>1, <2>2 DEF OneHandler, CopyFiled
  <1>4. CreationInv
    <2>1. DOMAIN agreements = {}
      BY DEF Init
    <2>2. Standing = {}
      BY <2>1 DEF Standing, RowsIn
    <2> QED
      BY <2>2 DEF Init, CreationInv, OneCreation, FoundStillHolds, OneOpen
  <1> QED
    BY <1>1, <1>2, <1>3, <1>4 DEF Inv

LEMMA NextInv == Inv /\ [Next]_vars => Inv'
  <1> SUFFICES ASSUME Inv, [Next]_vars PROVE Inv'
    OBVIOUS
  <1>1. CASE Next
    <2>1. TypeOK'
      BY <1>1, SenderStepTyped, PersonStepTyped, IgnoreTyped, EntryTyped, HandlerStepTyped DEF Inv, Next
    <2> QED
      BY <1>1, <2>1, EnvelopeRowsKept, CopyKept, LinksUnsignedKept, CreationKept DEF Inv
  <1>2. CASE UNCHANGED vars
    <2> USE <1>2 DEF vars
    <2>1. TypeOK' /\ EnvelopeRows' /\ LinksUnsigned'
      BY DEF Inv, TypeOK, EnvelopeRows, LinksUnsigned
    <2>2. OneHandler' /\ CopyFiled'
      BY DEF Inv, OneHandler, CopyFiled, Handles, Filing
    <2>3. CreationInv'
      BY DEF Inv, CreationInv, OneCreation, FoundStillHolds, OneOpen, Standing, Linkable, RowsIn
    <2> QED
      BY <2>1, <2>2, <2>3 DEF Inv
  <1> QED
    BY <1>1, <1>2

LEMMA InvAlways == Spec => []Inv
  BY InitInv, NextInv, PTL DEF Spec

\* The rows, the calls and what they hold stay what the handlers take them for.
THEOREM TypesHold == Spec => []TypeOK
  BY InvAlways, PTL DEF Inv

\* storeSignedCopy files one signed copy of an envelope, whatever events are repeated
\* and whoever refreshes or pulls, unless two calls worked on the envelope at once or
\* one died between the document and its row.
THEOREM OneSignedCopy == Spec => []SignedCopyOnce
  <1>1. Inv => SignedCopyOnce
    BY TypeParts DEF Inv, CopyFiled, SignedCopyOnce, ContractsTyped
  <1> QED
    BY <1>1, InvAlways, PTL

\* record, createEnvelope and what DocuSign completes leave the deal one open
\* agreement besides those a completion found ended and executed all the same, unless
\* two creations overlapped or a call wrote an agreement that was ended or signed
\* since it read it.
THEOREM OneAgreement == Spec => []OneOpenAgreement
  <1>1. Inv => OneOpenAgreement
    BY DEF Inv, CreationInv, OneOpen, Standing, OneOpenAgreement
  <1> QED
    BY <1>1, InvAlways, PTL

\* onEnvelopeSent and onEnvelopeCompleted: an executed agreement changes by a
\* termination or by a link that read it unsigned, and by nothing else.
THEOREM ExecutedStays == Spec => ExecutedStaysExecuted
  <1> DEFINE Kept == \A i \in RowsIn({"executed"}) :
               \/ agreements'[i] = agreements[i]
               \/ agreements'[i].status = "ended"
               \/ \E e \in Envelope :
                   sender[e].pc = "link" /\ sender[e].row = i /\ sender[e].read # "executed"
  <1>1. Inv /\ [Next]_vars => [Kept]_vars
    BY ExecutedKept DEF Inv
  <1> QED
    BY <1>1, InvAlways, PTL DEF Spec, ExecutedStaysExecuted
=============================================================================
