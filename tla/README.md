# Halo contract flipping: models, checks and proofs

Halo is a TypeScript system (a NestJS API, a BullMQ worker, a Next.js web
application, PostgreSQL through Prisma) that finds property leads, contacts
owners and buyers, and **contract-flips** deals: it signs a purchase agreement
with a seller, advertises its position to buyers, assigns it to one of them and
collects a fee at closing. Around that core it queues and sends messages, spends
money on paid providers, runs agents whose decisions people approve, and opens
and closes the markets it may operate in. This directory holds TLA+ models of
these parts, the TLC runs that check them on small instances, and TLAPS proofs
about them for instances of every size.

Line numbers are those of the sources beside this directory. `PROJECT.json` maps
each definition to the lines it stands for.

## 1. Inventory

### Where the state is

Everything durable is a PostgreSQL row; short-lived keys and queues are in Redis.
Handlers are `async` methods that read rows, await other services and write rows
**by id**. Few places open a database transaction: the serializable check and
insert in `createFromOffer` (`disposition/assignments.service.ts:86`), the
approval of a template version and the creation of a policy version are the ones
modelled here. So two calls of the API interleave at every `await`, and a call
that throws or dies half way keeps what it wrote. A handful of statements are
conditional (`updateMany` with a status in its `where`): these are the locks of
the design.

### Components

| Component | State it keeps | Operations | Talks to | What is hard | What makes it correct |
|---|---|---|---|---|---|
| Deal stage machine (`deals`, `shared/state-machine`) | `deals.stage` | `updateStage` and its preconditions | called last by most handlers below | four routes into marketing, handlers that write first and move the stage last | a stage is entered only with what it promises |
| Disposition gate (`eligibility.service.ts`) | none | `evaluate`, `assertEligible` | reads contract, market, licences, issues | the answer is stale as soon as it is given | nothing is sold while it fails |
| Seller contracts (`purchase-agreements.service.ts`) | `purchase_agreements` | record, update, markExecuted, verify, extend, terminate, envelope sent / completed | gate, stage, campaigns, closing file | late and repeated DocuSign completions; verification against later edits | verified means checked; an ended contract stops marketing |
| Buyer offers (`offers.service.ts`) | `buyer_offers` | create, confirm, counter, reject, withdraw, expireStale, accept | gate, assignments, campaigns | two accepts at once; a refusal during an accept | one buyer; a price somebody confirmed |
| Assignments (`assignments.service.ts`) | `assignment_agreements` | createFromOffer, envelope sent / completed, markExecuted, cancel, deposit | offers, campaigns, closing file, stage | updates by id after an earlier read | one live assignment, kept once the deal closed on it |
| Campaigns and links (`campaigns.service.ts`, `share-links.service.ts`, `disposition-sweep.service.ts`) | `disposition_campaigns`, `deal_share_links` | prepare, approveAndLaunch, setStatus, expireCampaigns | gate, messaging | a launch takes minutes; prepare, cancel, terminate and the sweep run meanwhile | one launch; nothing runs without a contract |
| Closing (`closing.service.ts`, `shared/disposition/closing.ts`) | `closing_files`, `closing_milestones`, `closing_issues`, `deal_economics` | ensureFile, update, setMilestone, issues, confirmClosing, recordFeeReceived, cancelClosing | assignments, campaigns, stage | ten handlers must each end with `refreshStatus` | shown clear means clear; revenue only from a closing |
| DocuSign (`integrations/docusign`, `webhooks/docusign`) | `contracts`, signed copies | createEnvelope, webhook, refresh, pull, signed copy | seller contracts, assignments | order, repetition and delay of events, metadata read before an await and written after it | one signed copy; a completion reaches its agreement and nothing undoes it |
| Message delivery (`communications`, worker `communications.processor.ts`) | `messages` and the receipt in their metadata, the queue, idempotency keys | create, requestSend, approve, reject, the worker's attempts, sendApproved, callbacks | compliance, cost control, control plane | a crash between provider and receipt, retries, stalled jobs, a STOP in flight | one copy; none after a STOP; no job leaves its message approved |
| Compliance, inbound webhooks | DNC list, consents | STOP, unsubscribe, bounce, suppress, unsuppress, consent | message delivery | an opt-out racing an operator and a send | an opt-out is final |
| Cost control (`cost-control`) | budget buckets, cost events, overrides | checkAndCall: preflight, reserve, run, settle; roll-over | every paid call | check-then-debit, two roll-overs, fallback providers, crashes | the books add up; an override pays once; the cap holds but for named excuses |
| Agent runs (`agent`, `automation`, worker `agents.processor.ts`) | `automation_runs`, drafted messages | open, report, recordDecision, approve, reject, submit a draft | every gated action | late and lost answers, two people, a draft that reopens its run | a gated action once; none after a rejection; one opinion at a time; runs end |
| Markets and templates (`markets`, `templates`, `shared/markets`) | `markets`, policy versions, template versions, authorizations, the nationwide decision | edit, submit, approve, accept, self-test, set status, licence, template approval | the gate, campaigns | read-then-write by id, marks written by a second statement, a test that takes minutes | counsel read what it approved; a fresh test tested what is in force; a lowered market is quiet |
| Control plane | switches | set, read | every send | read-then-send | off means off |
| Job queues and processors | BullMQ jobs | enqueue, take, retry | the worker | stalled and retried jobs | one effect per job |
| Leads, sourcing, enrichment, buyers | rows and imports | import, enrich, move a lead | deals | mostly I/O | |
| Everything else (web, accounts, encryption, documents, analytics, timeline, evaluation, deployment) | | | | | see `PROJECT.json` |

The hazards found in this code, each at its line and with the properties that
watch it, are the `hazards` of `PROJECT.json`; the few without a property say
why.

## 2. Modules

    DealRecord          rows of one deal, the gate, updateStage, Init
      |- SellerContract    PurchaseAgreementsService
      |- BuyerOffers       OffersService
      |- Assignments       AssignmentsService
      |- Campaigns         CampaignsService and the sweep
      '- ClosingDesk       ClosingService as the rest of the deal sees it
           ContractFlipping      composes the five; properties; refines ContractSale
    ContractSale        abstract: what a contract's sale promises

    AssignmentRace      accept, counter, decline, send, execute, cancel, statement by statement
    LaunchRace          prepare, launch, setStatus, terminate, the sweep, statement by statement
    ClosingFile         milestones, issues, structure, deadline of one closing file
    Envelopes           one deal's DocuSign envelopes, events, signed copies, agreements

    Suppression         opt-outs, consents, the operator's list
      '- MessageDelivery   one message from draft to provider, composed with Suppression
    CostControl         paid calls over shared budget buckets
    AgentRuns           jobs, decisions, approvals, drafts

    MarketRecord        rows of one market, what they support, what a change marks
      |- TemplateCatalog   template versions
      |- MarketReview      the draft, counsel, policy versions
      '- MarketActivation  self-test, status, nationwide, licence, a campaign
           MarketPolicy          composes the three; properties

Each component with a run has an `MC...` module that gives its constants values;
each with theorems has a `...Proofs` module that extends it; `DispositionProofs` is
the one of both `AssignmentRace` and `ClosingFile`, which is why the latter names its
formulas `FileInit`, `FileNext`, `FileSpec`, `FileTypeOK`.

Two granularities are used on purpose. In `ContractFlipping` **one step is one
handler call**, so that the whole life of a deal, from a new lead to a collected
fee, fits in one state machine and can be proved about; a handler that throws
after its first writes is a step with part of the effect (`EnterStage`,
`Accept`, `LaunchFailsHalfway`). Everywhere else **one step is one statement on
the rows** (or the read of several that decides what comes next), and several
calls are in flight. `ClosingFile` is in between: the confirmation is two steps,
because its read and its write are far apart, and the other handlers are one.

Where the code leaves a race open, the statement-level properties do not look
away from it: a **history variable** (`revived`, `unreported`, `lost`, `unguarded`,
`excused`, `overlapped`, `raced`, `again`, `reopened`, `beside`, `slipped`,
`crossed`, `unmarked`, `ClosingFile`'s `lapsed`, `MarketPolicy`'s `late`) records exactly when
that has happened, and the property says that nothing *else* can break the
promise. Section 5 lists what they stand for. Two properties are narrower than the
hazard beside them for that reason: `OneOpinion` and `LoweredMeansPaused` set the
check-before-write race aside, and what they hold the code to is which statuses
the check looks at, and which requests pause.

### DealRecord and the services over it

| Variable | Row | Values |
|---|---|---|
| `stage` | `deals.stage` | the eight stages |
| `agreements` | `purchase_agreements`, oldest first | status (`ended` = terminated or expired), whether an envelope and a signed copy exist, verified, what the clause says, whether the deadline passed |
| `cleared` | every other input of the gate | one bit that may change at any time: market policy, licences, disclosures, cancellation window, tax sale, blocking issues |
| `campaign`, `links` | newest campaign, unrevoked links | `held` = paused because a buyer was selected |
| `offers` | `buyer_offers` | status, and whether the amount was written or confirmed by somebody |
| `assignment` | one row per offer (`offerId` is unique) | draft, sent, executed, cancelled |
| `file` | `closing_files.status` | `open` also stands for clear to close, which is `ClosingFile`'s subject |
| `revenue` | `deal_economics.revenueStatus` | projected, realized, lost |

Abstracted: amounts, dates (only "late" remains), texts, names, pricing and
ranking, notifications, timeline events, permissions (an action may be taken by
whoever may call the endpoint). `clause = "unknown"` also stands for a missing
price or deadline, which `verify` refuses in the same way. Two contract statuses
are merged because no property tells them apart. `checked` is a history field: the
price, deadline and clause of the contract are still those that a person verified.
`UpdateTerms` is told which terms a patch changes, also when the clause keeps its
class and the deadline stays on the same side of today, so a verification that
survives a change of price is seen.

Each action is named after its method. `Record`, `Verify`, `Terminate` and so on
carry the method's guards, its writes in the code's order, and the calls it
makes at its end (`afterExecuted`, `advanceIfEligible`, `updateStage`).
`SellerEnvelopeCompleted` may happen at any time after an envelope was sent and
any number of times: webhook, status refresh and manual pull all reach it.

### ContractSale, the abstract specification

Five Booleans-and-sets variables: who the contract is reserved for, whom it was
reserved for before, signed, settled, earned. Steps: `Reserve` a buyer never
tried while nobody holds it, `Sign`, `Release` before settlement, `Settle` when
signed, `Earn`. `ContractFlipping!ImplementsSale` maps the rows to it
(`buyer` is the set of offers with a live assignment, `settled` is a closed
file, ...). It says in five actions what thirty handlers must respect together.

### AssignmentRace, LaunchRace, ClosingFile

Each call has a program counter (`call`, `launcher`, `preparer`, `setter`,
`terminator`, `sweep`). `Abort` and `LaunchDies` end a call anywhere: an error
or a restart of the API. `createFromOffer`'s transaction is one atomic step,
since it is serializable. `updateStage` is one step. In `LaunchRace` `held`
stands for a contract that is executed and passes the gate; the links a campaign
leaves are `Campaigns`' subject, not its. `ClosingFile` keeps the file's status,
structure, milestones, issues, newest assignment (`newest`) and deadline; `Key` bounds which
milestones are followed, and the templates are the code's. `DeadlineMoves` is the
calendar and the edits of the contract, which refresh no file; `lapsed` remembers
that the file became late so and was not looked at since. Handlers that may stop
short of `refreshStatus` (an execution whose stage move throws, an earnest deposit,
a milestone that is refused after its row is written) are steps with `NotRefreshed`.

### Envelopes

`createEnvelope` posts to DocuSign, creates the `contracts` row and links the
agreement in separate statements (`Post`, `CreateRow`, `ReadDraft` / `AskExecuted`,
`Link` / `CreateSent`). DocuSign's side is `Recipients`: sent, completed or
declined, and an event that is repeated until it is answered. A handler (webhook,
refresh, pull) writes the status, stores a signed copy, records signatures and
executes the linked agreement, carrying the metadata it read at each of the three
places the code does. A person records, executes or ends the contract meanwhile;
any call may die. An agreement that a completion had read ended and executes is put
into `revived`; one that it had read open, and that was ended before it wrote, is a
race (`raced`). Abstracted: `delivered` is `sent` and `voided` is `declined`
(no handler branches on the difference); the status text of the `contracts` row,
which no handler reads; envelopes without a purpose, a legacy form. A pull is
allowed to execute an agreement before DocuSign has completed, since the code
does not ask. Assignment envelopes are in `AssignmentRace`.

### Suppression, MessageDelivery

`Suppression` is the contact: who made its DNC row, whether a consent is on file,
and the second statements of an opt-out (`RevokeConsents`), of recording a
consent and of removing an entry. `open` is every other send-time check.
`MessageDelivery` is one message: its status and receipt, two approvals, a
rejection and a re-submission, the queue, the attempts of the worker (each reads
the row, calls the API, which checks, takes the idempotency key, asks the caps,
calls the provider, and stores), the key's expiry, crashes, a Redis that does not
answer (`ApiSpendUnguarded`: the check for a duplicate lets the call pass), a job
handed out again while its first worker still runs, and delivery events that read a
status and write it later. A refusal that names a compliance reason blocks the
message, any other fails it. Left out: internal test messages, which pass some
checks by design (`message-dispatch.service.ts:253`); a database that fails while the
worker records an outcome; BullMQ's limit on stalled redeliveries, after which a
job is failed and its message stays as it is.

### CostControl

A call of `checkAndCall` walks through `Preflight` (the buckets that apply, each
rolled over if due, and the override lookup), `ClaimOverride`, `CheckCaps`
(hard cap; fallback provider or approval), `ReserveRow`, `ReserveDebit`,
`Execute`, `Adjust`, `ReleaseOverride`. Buckets are shared between calls and
providers, periods end at any time, a call may die anywhere. Amounts are small
integers. Left out: how prices are computed, soft caps and alerts (they change
nothing a property reads), the response cache, daily aggregates; the idempotency
key is in `MessageDelivery`.

### AgentRuns

A job checks for an open run of its agent and entity, opens one, asks the model,
reports; the report may be refused, or reach the API and its answer be lost
(`sent`), and then the job reports `FAILED` on top. A decision may ask for a step
on the lead or the deal, and for a draft. People approve (`ApproveRead`,
`ApplyStep`, `ApplyDraft`, `Refuse`, `WriteOutcomes`, `Complete`) and reject, and
a draft that was rejected can be submitted again, which puts its run up for
approval again. What each step writes on the lead is left out; that it is applied
is kept (`taken`, `again`). Also left out: the operator routes of
`automation.controller.ts:100` (create, start, complete, fail and cancel a run, in
any status), so the properties are about runs that no operator overrides; and
`draftMessage` on a run other than the one whose decision is recorded
(`agent.service.ts:296`).

### MarketPolicy

One market of one account. The content of a policy is a number (`draft.text`):
what matters is which text was given to counsel and which was approved. One
template stands for all that apply, with several versions; one licence record for
all the requirements; one campaign for the deals in the market. A call keeps what
it read; `markChanged` is a second statement after every template and licence
change, and `createVersion` writes the time its caller *read*. `selfTest` reads
what is in force (`TestRead`) and stamps its result later (`TestStamp`); whether
its checks pass is a free choice. Left out: the matrix and its measures, the
checks inside the self-test, what research and proposals say, retirement of a
whole template, the 30-day age of a self-test, draft validation (a guard taken as
passed), the operator (taken as assigned, though assigning one marks the market),
and the classification E of a policy, which keeps a market at research whatever else
is in place (`shared/src/markets/evaluate.ts:387`; without it the model allows more).

## 3. Runs

| Run | Instance | Asks |
|---|---|---|
| `deal_two_buyers` | one contract, two offers of two buyers, permitted clause, campaigns, revenue on funds received | types; one live assignment; links end with campaigns; closed deals keep their assignment; accepted offers have one; prices are confirmed; revenue only from closings and for good; every route into marketing is gated |
| `deal_same_buyer` | two offers of one buyer (the newer supersedes), revenue on a confirmed closing, no campaigns (`SaleSpec`) | the refinement to `ContractSale` |
| `deal_contracts` | from a new lead, no offers, two contracts, clauses unknown, consent missing, consent on file | nothing sold that is not held, and a verification is of the terms the contract has, when any of them is edited, and when a contract ends and another is recorded or sent |
| `race_all` | two offers, two calls of all six handlers, any of which may die | two assignments are live only after a late write revived a cancelled one; an accepted offer has a row wherever a call stops |
| `launches` | two campaigns, two launches, prepare, setStatus, terminate, sweep; writing an event or reading a campaign back may fail; fairness | a campaign is sent by one launch at a time and not replaced under it, unless the report of one that reached nobody failed; marketing stops for good when the contract is gone for good |
| `closing_file` | the milestones several handlers write, one title issue, one other issue | shown clear means clear, and late only since the last refresh; a structure change loses no milestone |
| `envelopes` | one seller envelope, two handlers, one person, one refresh or pull, one crash; fairness | one signed copy; one open agreement, besides an ended one that a late completion revived, unless calls raced; executed stays executed; a completion arrives |
| `message_delivery` | one text or email, two approvals, three attempts, one event, one fault (a worker dies, or Redis does not answer); fairness | a second copy needs a lost receipt or a send without the key; nothing leaves on checks made after an opt-out; no job leaves its message approved |
| `cost_control` | two calls, two providers with a fallback and a shared bucket, two period ends, one override, one crash; fairness | the books add up; an override pays once and comes back; the cap is passed only with an excuse |
| `agent_runs` | two jobs, one run with a step and a draft that people decide twice; fairness | gated actions once; a rejected run left nothing; one opinion at a time; runs end |
| `market_policy` | one market, two calls, three texts, two policy versions, two template versions, in three scenes | counsel read the text; a fresh test is current; lowered means paused |
| `ended_contract` | one offer, one contract | **must be violated**: section 5 |

Each property of a passing run has a mutant in `PROJECT.json`: a plausible bug in
one mapped definition (a check that forgets executed assignments, an ending that
leaves the links, a settlement that posts the whole amount, an edit that leaves a
draft with counsel) under which TLC finds the property violated. The mutated
definitions stand next to the originals.

The type invariants of `AssignmentRace`, `LaunchRace`, `ClosingFile`,
`CostControl` and `MarketPolicy` are proved (section 4) and not run.

`agent_runs`, `cost_control`, `envelopes`, `message_delivery` and `market_policy`
switch deadlock checking off: their calls are bounded and end, so the system comes
to rest. In the others some action is always possible.

### Bounds, and why they are enough

- **Two offers.** Every property about offers speaks of at most two of them: the
  one that is acted on and one that competes. `TwoBuyers` and `OneBuyer` are the
  two ways they can be related. The two play the same part, so permutations of
  them are a symmetry (used for safety runs only). The proofs remove this bound.
- **No campaigns in `deal_same_buyer`.** No campaign action touches an
  assignment, the file, or revenue beyond opening a projection, and
  `ContractSale` does not see campaigns: leaving them out makes the refinement
  cheap to check. `ServicesImplementSale` proves it with them.
- **`MaxAgreements`** (1 or 2). Two contracts show one that ended and its
  successor; the interplay of contracts does not involve offers, so the run with
  two contracts has none. The proofs remove this bound too.
- **Clauses.** Permitted and consent-on-file pass the gate, prohibited and
  consent-missing do not; moving between the two consent readings keeps a
  verification, since the seller's consent is not one of the terms verified. `deal_contracts` has one of each kind and the unknown one.
- **Two calls, two campaigns, two launches, two handlers, two jobs.** Each
  conflict is between a call that read and a call that wrote meanwhile. The
  proofs remove this bound for `AssignmentRace`, `LaunchRace`, `CostControl`,
  `AgentRuns`, `MarketPolicy`, `Envelopes` and `MessageDelivery`.
- **One envelope, one person** in `envelopes`. Some races need more: with two
  envelopes and a person who signs on paper, two agreements are open after an
  envelope is linked to an agreement signed since it was read (section 5). The
  theorems of `EnvelopesProofs` cover any number, that race included.
- **`Key`**: `FollowedKeys` are the milestones that some handler other than
  `setMilestone` writes, with at least one that belongs to only one structure;
  every other milestone behaves like one of these.
- **One call each** of prepare, setStatus and terminate in `LaunchRace` at a
  time; each may be made any number of times.
- **Three attempts**: the jobs of two approvals, and one handed out again because
  its worker died (the proofs remove this bound and that on faults,
  `MaxFaults`). No queue sets BullMQ's `attempts`, so a job that throws is not
  retried. The idempotency key lives 60 seconds; attempts that overlap are taken
  to end within that.
- **Amounts 1 and 3** around an estimate and a cap: a bill below the estimate, and
  one above it.
- **Three texts**: the research, the one counsel has, and one written under it.
  **Two versions** of policy and template: the one in force and its successor.
- **Scenes** of `market_policy`: review, tests and activation share few
  variables, and their product is out of TLC's reach. A behaviour plays one
  scene, with the actions of its neighbours that change what it reads (accepting
  a policy in *tests*; a lapsing review and marks in *activation*). The theorems
  of `MarketPolicyProofs` are about `MarketPolicy!Spec`, where all run together.
- **Deadlines** are two-valued, and may pass, be extended or be edited; a patch may
  change a price, a deadline or a clause without changing what the model reads of it.

### Fairness

- `LaunchRace`: the sweep takes up every running campaign whose contract is gone
  and ends what it took up. It is scheduled hourly
  (`disposition-sweep.service.ts`) and selects 500 running campaigns at a time; a
  backlog above 500 is a listed hazard. Nothing is assumed of people, launches or
  terminations: a launch may hang forever.
- `MessageDelivery`: while an attempt can go on or a job waits, one goes on: the
  BullMQ worker runs. Approvals, events, people and crashes are not fair.
- `CostControl`: a call that has begun goes on until it ends or its process stops.
- `AgentRuns`: the worker takes a queued job and works until it stops; a report
  that reached the API is recorded. People need not decide.
- `Envelopes`: DocuSign repeats an event until it is answered (Connect's retries),
  and a call that is running goes on. Refreshes, pulls and people are not fair.

## 4. Proofs

Eight modules, for every value of the constants (any sets of offers, buyers,
calls, campaigns, buckets, jobs; any bounds):

| Module | Theorem | Property |
|---|---|---|
| `ContractFlippingProofs` | `TypeCorrect` | `TypeOK` |
| | `OneBuyerAtATime` | `OneLiveAssignment` |
| | `ClosingKeepsItsAssignment` | `ClosedOnAnAssignment` |
| | `RevenueFromClosings`, `RevenueIsFinal` | `RealizedMeansClosed`, `RealizedIsFinal` |
| | `ServicesImplementSale` | `ImplementsSale`: the refinement of `ContractSale` |
| | `OnlyHeldContractsAreSold` | `NeverSellWhatWeDoNotHold` |
| | `LinksDieWithCampaign` | `LinksEndWithCampaign` |
| | `NoUngatedMarketing` | `MarketingIsGated` |
| | `AcceptedOffersAreAssigned` | `AcceptedOfferHasAssignment` |
| | `PricesAreConfirmed` | `AssignedPriceIsConfirmed` |
| | `VerificationHolds` | `VerifiedMeansChecked` |
| `DispositionProofs` | `RaceTypeCorrect` | `AssignmentRace!TypeOK` |
| | `OneLiveAssignmentUnlessRevived` | `OneLiveUnlessRevived` |
| | `AcceptedOffersKeepTheirRow` | `AcceptedHasRow` |
| `LaunchRaceProofs` | `LaunchTypeCorrect` | `TypeOK` |
| | `OneLaunchPerCampaign` | `OneLaunch` |
| | `LaunchesSurvivePreparation` | `LaunchingIsNotReplaced` |
| `DispositionProofs` | `FileTypeCorrect` | `FileTypeOK` |
| | `ClearMeansClear` | `ClearIsTrue` |
| | `NoMilestoneIsLost` | `TemplateIsComplete` |
| `CostControlProofs` | `CostTypeCorrect` | `TypeOK` |
| | `OverridePaysOnce` | `OverrideUsedOnce` |
| | `CapHoldsUnlessExcused` | `OverCapIsExcused` |
| | `SpendFollowsLedger` | `SpendIsLedger` |
| `MessageDeliveryProofs` | `MessageTypeCorrect` | `TypeOK` |
| | `OneCopyUnlessReceiptLost` | `SecondCopyNeedsLostReceipt` |
| | `OptOutIsHonoured` | `NoSendAfterOptOut` |
| | `RecipientsEntryStays` | an entry of the recipient's own stays on the list |
| `EnvelopesProofs` | `TypesHold` | `TypeOK` |
| | `OneSignedCopy` | `SignedCopyOnce` |
| | `OneAgreement` | `OneOpenAgreement` |
| | `ExecutedStays` | `ExecutedStaysExecuted` |
| `AgentRunsProofs` | `RunTypeCorrect` | `TypeOK` |
| | `ActionsAppliedOnce` | `AppliedOnce` |
| | `OneOpinionAtATime` | `OneOpinion` |
| | `RejectionLeavesNothing` | `RejectedIsUntouched` |
| `MarketPolicyProofs` | `MarketTypeCorrect` | `TypeOK` |
| | `CounselApprovesWhatItRead` | `CounselReadTheText` |
| | `FreshTestsAreCurrent` | `FreshTestIsCurrent` |
| | `LoweredMarketsArePaused` | `LoweredMeansPaused` |

Assumptions are the named ASSUMEs of each module: what a constant's type is
(`BuyerOf` is a function from offers to buyers, amounts are naturals, `None` is
not an offer). `Offer` and the other sets need not be finite, with one exception:
`Call` of `CostControl`, since the ledger is a sum over the calls made. TLC evaluates
the assumptions in each run.

**ContractFlipping.** `StepCases` splits `[Next]_vars` into the actions once; every
step lemma starts from it. `TypeOK` is inductive as it is (`TypeStep`, with
`AgreementsAt` and `AgreementsMore` for updates of and appends to the sequence of
contracts). The sale's invariants are not inductive one by one: that a closed
file keeps an executed assignment needs that there is no *other* live assignment
whose cancellation could be confused with it, and that realized revenue means a
closed file needs that a closed file stays closed. `SaleInv` is their conjunction

    TypeOK /\ OneLiveAssignment /\ ClosedOnAnAssignment /\ RealizedMeansClosed

and `SaleInit`, `SaleStep` show it inductive. `SaleCases` says which actions can
touch assignments, the file or revenue at all; every other action is `Aside`.
The refinement follows: `SaleStartsAsPromised` maps the initial state, and
`SaleStepsAsPromised` maps each step to a step of `ContractSale` or a stutter,
from `SaleInv` in the state before (`Release` needs that the cancelled
assignment was the only live one, `Settle` that the file was not settled).
`NeverSellWhatWeDoNotHold` is proved with `TypeOK` and `ExecutedUntilTerminated`
(only `Terminate` makes the newest contract stop being executed, since
`Record` needs that none is open, and `SendSellerEnvelope` appends one only when
none is executed). `AcceptedOfferHasAssignment` needs that only `CancelClosing`
cancels an assignment without its offer, and that a cancelled file stays
cancelled. `VerificationHolds` carries a per-contract form (`Checked`) over every
edit; `PatchFrame` is the patch of terms (what stays verified changed no term that
is verified), `VerifyFrame` the verification itself.

**AssignmentRace** (`DispositionProofs`). `Inv` adds `CallsHaveRows`: a call in flight past its first
read is about an offer whose assignment row exists, and no step removes a row, so
a status written by id finds it. From it both properties survive every late write:
a write by id either keeps a row live that was live, or puts it into `revived`.

**LaunchRace.** `IInv` adds that, unless `unreported`, from its claim to its release a launch holds its
campaign (`HeldIsClaimed`, `HeldByOne`): the conditional update of the claim is
then what keeps a second launch and a replacement away.

**ClosingFile** (also in `DispositionProofs`). `FileInv` is the type invariant and the two properties; the work is in
`RefreshIsTrue`, `RestructuredRows` and `DoneRows`, about the operators every
handler ends with. A handler either refreshes (`RefreshIsTrue` gives the whole formula
and `lapsed` is cleared) or leaves the status alone and takes nothing away from it; only
`DeadlineMoves` makes a file late without a refresh, and it sets `lapsed`.

**CostControl.** `Inv` adds `RoomWasRead` (a call let through without an override had
room by what it read, so a debit beyond the cap means the bucket moved since, which
is `excused`), `CallsHaveProviders` and `ReleaserHolds`. The ledger rests on that
invariant and is a second induction: `Staged` (a call has its event row exactly from
`reserve` on) and `Ledger`, which is `SpendIsLedger` with the sum written as `Total`.
A step changes what *one* call has posted, and the sum by as much (`OneCallDiffers`,
`LedgerMoves`); each action then has to show that the bucket moves by the same
amount, or that a roll-over moves it into `zeroed`. That a sum exists, does not depend on
the order of its terms, and loses what a removed term contributed (`AddsExists`,
`AddsAny`, `TotalWithout`) is induction on the size of a set, done with the least
counterexample (`LeastNumber`, from the well-foundedness of `<` on the naturals),
because no prover can take the hypothesis of an induction theorem as an operator.

**Envelopes.** `CopyFiled`: on an envelope that no two handlers were on, what the
metadata says of a signed copy, what is in the library and what the call in flight
holds of either agree at each of its points (`Agrees`), so the stale metadata that two
steps write back never lose a copy that is filed; `OneHandler` says who that call is.
`EnvelopeRows` gives a new row no copies. `CreationInv`: unless `raced`, one call
creates at a time, what it found still holds when it creates (`FoundStillHolds`: no
draft, no sent and no executed agreement), and one agreement is open, each of them
said of the open agreements outside `revived` (`Standing`): a revived agreement may be
open beside another, and no other step may add a second. `LinksUnsigned`
is what `ExecutedStays` needs. The first attempt failed on a link over an agreement
that was signed since it was read, beside a second envelope: a race of the code that
one envelope does not show, and that `raced` now records.

**MessageDelivery.** `CopyCovered`: while no receipt was lost at most one copy is out,
and once it is out its receipt stops every attempt that has yet to read the row and the
idempotency key those that read it before (`Covered`), although two approvals, replays,
rejections, bounces and callbacks write the row. `OneAtProvider` and `KeyHeld` say why
two attempts never stand before the provider. All three hold until a send passes the
key because Redis did not answer, so the invariant reads
`unguarded \/ (KeyHeld /\ OneAtProvider /\ (lost \/ CopyCovered))`. `OptOutKept`: an entry that is being
removed is an operator's; so a recipient's stays, and send-time checks see it.
`QueueBacked` and `CopiesBacked` count jobs and copies by the approvals and attempts
behind them, which bounds both in `TypeOK`.

**AgentRuns.** The longest. `OneCall`: while nothing is excused one call at a time is
about a run. `ReportedOnce`: gated actions exist only after the one report.
`TakenIsNotAsked`: what took effect no longer waits, except under the approval
that is taking it; hence nothing is taken twice. `TakenIsClosed`: an open run of
which something was taken is being approved or was reopened; hence a rejection
finds nothing taken. `CheckedAlone` gives `OneOpinion`.

**MarketPolicy.** `Typed` adds what each call in flight may have read (`ReadsOK`).
`Calm` says what the calls of the other groups leave alone. `GivenToCounsel`: a
draft in review, and the text an approval in flight carries, is a text counsel
was given. `FreshTestIsCurrent` and `LoweredMeansPaused` are inductive over
`Typed`, with `SameStanding` for steps that do not move what is in force.

**Model-checked only.** Liveness (`MarketingStops`, `JobIsResolved`,
`OverrideComesBack`, `RunEnds`, `CompletionArrives`): fairness and ENABLED are
beyond the prover; and the counterexample of section 5. Every invariant and action
property a run checks is also a theorem.

## 5. Where the code and its words differ

One run has a property taken from the repository, and TLC's counterexample is a
legal sequence of calls:

- **`ended_contract`** - `onEnvelopeCompleted` refuses only an executed contract
  (`purchase-agreements.service.ts:700`). Record, send, terminate, and a
  completion delivered afterwards makes the ended contract executed again.
  `eligibility.ts:167`: "A terminated or expired contract cannot be marketed or
  assigned. Record a new agreement if the seller re-signs."

The models reach the following states too. Where a formula is given, TLC finds it
violated in its module; where a history variable is named, it is what the
properties of section 3 except, and dropping it from the property makes TLC show
the race.

Deals:

| Observation | Formula or history variable |
|---|---|
| `onEnvelopeSent` and `applyExecuted` update by id after an earlier read: a row cancelled in between comes back to life beside a newly accepted one (`assignments.service.ts:188`, `287`; line 77: "One live assignment per deal, even when two people accept two offers at the same moment") | `AssignmentRace`: `revived` |
| `accept` writes `accepted` by id over a rejection that came while it was checking (`offers.service.ts:822`) | `AssignmentRace`: `[][\A o \in Offer : offer[o] \in {"declined", "lapsed"} => offer'[o] # "accepted"]_vars` |
| `cancel` ends the assignment and drops its offer by two statements: a stop between them leaves an accepted offer without a live assignment (`assignments.service.ts:432`, `442`), which `AcceptedOfferHasAssignment`, about whole calls, does not see | `AssignmentRace`: `[](\A o \in Offer : offer[o] = "accepted" => assignment[o] # "cancelled")` |
| the gate is asked, and the execution written by another statement (`assignments.service.ts:282`) | `AssignmentRace`: `[][\A o \in Offer : assignment[o] # "executed" /\ assignment'[o] = "executed" => gate]_vars` |
| `applyExecuted` moves the stage last; when a person has moved the deal meanwhile the move throws and the executed assignment stays, with its file not refreshed (`assignments.service.ts:322`; `docs/contract-flipping.md:277`: "The deal becomes `assigned`") | `ContractFlipping`: `[][~HasExecuted(assignment) /\ HasExecuted(assignment') => stage' = "assigned"]_vars` |
| `prepare` and `approveAndLaunch` never look at assignments: an assigned contract can be advertised again (`campaigns.service.ts:114`) | `ContractFlipping`: `[](HasExecuted(assignment) => campaign # "active")` |
| a launch that reached nobody releases its claim, writes a timeline event and reads the campaign back; if either fails, the `catch` releases again, and frees the claim another launch has taken (`campaigns.service.ts:380`, `468`) | `LaunchRace`: `unreported` |
| a launch, a resume or a pause writes by id over a termination; the sweep ends it later (`campaigns.service.ts:473`, `542`; `purchase-agreements.service.ts:578`: "Buyer marketing stops at once") | `LaunchRace`: `[][\A c \in Campaign : status[c] = "ended" => status'[c] = "ended"]_vars` |
| a claimed draft is neither active nor paused, so a second campaign can be prepared and launched beside it (`campaigns.service.ts:119`) | `LaunchRace`: `[](\A c, d \in Campaign : status[c] \in Running /\ status[d] \in Running => c = d)` |
| `setMilestone` writes the row before the side effect that refuses it ("Title cannot be marked clear while a blocking title issue is open"), and the row stays (`closing.service.ts:412`) | `ClosingFile`: `[]~(milestone["title_clear"] = "done" /\ OpenTitleIssue)` |
| `confirmClosing` reads once and closes by id, whatever was raised or undone in between (`closing.service.ts:610`) | `ClosingFile`: `[][status # "closed" /\ status' = "closed" => ReadyWithin(milestone, issue)]_fileVars` |
| nothing refreshes a file when its contract's deadline passes or is edited: it stays shown clear until the next handler looks (`closing.service.ts:838`) | `ClosingFile`: `lapsed` |
| `recordEarnestMoney` completes a milestone without `refreshStatus` (`purchase-agreements.service.ts:492`) | `ClosingFile`: `[](status = "open" => ~(newest = "executed" /\ ReadyWithin(milestone, issue) /\ ~late))` |

DocuSign (`Envelopes`):

| Observation | |
|---|---|
| two completions handled at once store two signed copies, and `recordSignatures` and the webhook write back metadata read before the copy was filed (`docusign.service.ts:816`, `webhooks/docusign/docusign.service.ts:46`) | `overlapped` |
| `onEnvelopeSent` links, by id, an agreement that was executed or ended after it read it (`purchase-agreements.service.ts:646`); a second envelope, which found no draft while that one was executed, then finds none executed and creates its own | `raced`, and the exception of `ExecutedStaysExecuted` |
| a completion delivered after its contract was terminated and a new one recorded executes the ended one: two agreements are open, with no race at all (`purchase-agreements.service.ts:697`, the successor of `ended_contract`) | `revived` |
| `record` and an envelope both find no open agreement and create one each (`purchase-agreements.service.ts:251`) | `raced` |
| an event that arrives before its `contracts` row is answered and dropped; a completion between that row and its link, or after an API that died there, executes nothing (`webhooks/docusign/docusign.service.ts:40`, `docusign.service.ts:461`) | the premise `Linked(e)` of `CompletionArrives` |
| the manual pull executes an agreement without asking whether its envelope is completed (`docusign.controller.ts:52`) | `StoreSigned` |

Messages (`MessageDelivery`, `Suppression`):

| Observation | |
|---|---|
| the provider accepts and the worker dies before storing the receipt, and the job is handed out after the key expired: a second copy (`communications.processor.ts:243`) | `lost` |
| when Redis does not answer, the check for a duplicate lets every call pass (`rate-limit.service.ts:81`): a stalled job's second worker, or one whose receipt is not stored yet, sends again | `unguarded` |
| `reject` and a bounce write back metadata read earlier and erase a receipt (`communications.service.ts:279`, `provider-events.service.ts:91`) | `lost` |
| a STOP on a contact an operator has listed keeps the operator as the source, so an operator may remove it (`opt-out.service.ts:111`, `communications-admin.service.ts:18`) | `operatorFirst` |
| the key is marked before the caps are asked; a repeat is then "already sent" although nothing left (`cost-control.service.ts:189`), and a fallback provider always meets its own key; the comment at 157 says side effects are reverted | `accepted = 0` with status `sent` |
| a second job writes `failed` over `sent`; `finalizeSent` writes `sent` over `delivered` (`communications.processor.ts:167`, `210`) | `Fail`, `Finalize` |
| `approve` may stop between its write and its enqueue: an approved message in no queue (`communications.service.ts:249`); so does a database that fails while the worker records an outcome, and BullMQ when it gives up on a job that stalled twice, which the model leaves out | the premise `queue > 0` of `JobIsResolved` |

Money (`CostControl`):

| Observation | |
|---|---|
| caps are read, then debited: concurrent calls overshoot (`cost-control.service.ts:273`) | `excused` |
| two calls roll a bucket over and the second zeroes what was reserved in the new period; a settlement after a roll-over makes a bucket negative (`budget.service.ts:70`) | `zeroed` |
| a call that waits for approval stays debited and is never settled (`cost-control.service.ts:672`) | `Posted` counts it |

Agents (`AgentRuns`):

| Observation | |
|---|---|
| two decisions of one run overlap, or an approval is refused or dies half way and is made again: actions are applied twice (`agent-orchestration.service.ts:276`, `957`) | `excused` |
| `requestSend` and `draftMessage` set the run to await approval whatever it was (`agent.service.ts:388`, `462`); rejecting it marks as cancelled what was done | `reopened` |
| two jobs check before either opens a run (`agents.processor.ts:106`; `docs/agent-design.md:128`: "Concurrency per tenant is 1") | `beside` |
| an operator may complete, fail or cancel a run in any status, also one that is being approved (`automation.service.ts:166`) | not modelled |
| an error of 500 or more is rethrown "so BullMQ retries it" (`agents.processor.ts:220`), but no `attempts` are set: the run stays running | `job[r] = "lost"` in `RunEnds` |
| a lost answer reports `FAILED` over a decision that was recorded | `HearAnswer` |

Markets (`MarketPolicy`):

| Observation | |
|---|---|
| an edit or a proposal that read the draft before it was submitted writes under counsel (`markets.service.ts:763`; "Counsel reviews a fixed text") | `slipped` |
| approving a template version marks the markets of its own states, not those of the versions it retires (`templates.service.ts:335`; `docs/markets.md:169`: "A change to the policy, a template or an authorization marks the result stale") | `unmarked` |
| an approval writes as `configChangedAt` the time it read, and so can turn a mark back (`markets.service.ts:895`, `1155`) | `unmarked` |
| a self-test is stamped with its end: what changed while it ran counts as tested (`markets.service.ts:1860`) | `crossed` |
| a campaign launched or resumed on an earlier answer of the gate runs in a lowered market; a restart between the status and the pause leaves one running (`markets.service.ts:1208`; `docs/markets.md:59`: "pauses the market's live campaigns") | `late` |
| closing the nationwide decision, revoking a licence and letting one lapse pause no campaign (`markets.service.ts:588`, `1417`) | outside `LoweredMeansPaused`, which is about requests |
| a revoked licence that was verified is pending again after any edit, and can then be verified (`markets.service.ts:1367`; line 1395: "It was revoked.") | `UpdateWrite` |
| an approval that commits after a newer one supersedes it, and closes a review submitted since (`markets.service.ts:1146`) | `createVersion` |

In the deal-level runs the handlers are one step each, so what those runs and
proofs show is that the *logic* of the handlers is right in every order of calls;
the races above are what interleaving takes away from it.

## 6. Plan

Built: every module of section 2, in that order, and the proofs of section 4.
What could come next:

1. Proofs about the histories themselves: that a state of the races of section 5 can
   only be reached by the writes named there (`raced`, `lost`, `excused`), as action
   properties.
2. An abstract "sent at most once" for `MessageDelivery` in the manner of
   `ContractSale`.
3. Pricing, ranking and readiness as operators over bounded inputs, against
   reference definitions.
4. The lead status machine with inbound replies, which starts agent runs.

## 7. Not modelled

`PROJECT.json` lists every component with its reason. In short: I/O and clients
of outside services (sourcing, enrichment, storage, integrations), texts and
figures (packages, buyer messages, pricing, ranking, research data, prompts),
user interface, accounts and permissions, encryption, audit records that nothing
reads back, and offline tools. Research data and geographic tables, the user
interface, prompts and their evaluation are most of the repository's lines; they
hold no protocol.
