----------------------------- MODULE CostControl -----------------------------
(***************************************************************************)
(* Paid calls through checkAndCall (cost-control.service.ts) and the budget *)
(* buckets they share (budget.service.ts), statement by statement: buckets  *)
(* are read and rolled into their new period, an override is claimed, caps  *)
(* are compared with what was read, the estimate is reserved and debited,   *)
(* the provider is called, and the actual cost is settled.  Calls of one    *)
(* account run at the same time and may die anywhere.                       *)
(***************************************************************************)
EXTENDS Integers, FiniteSets, FiniteSetsExt

CONSTANTS
    Call,        \* paid calls
    Provider,
    NoProvider,
    Fallback,    \* the next provider of the chain, or NoProvider
    Bucket,      \* budget buckets, each with its own period
    BucketsOf,   \* the enabled buckets that apply to a call of a provider
    HardCap,
    Estimate,    \* what pricing.estimate says of a call
    Actuals,     \* what an answered call may really cost
    MaxPeriods,  \* bound: period ends, over all buckets
    MaxCrashes   \* bound: calls that die

ASSUME ProviderAssumption ==
    /\ NoProvider \notin Provider
    /\ Fallback \in [Provider -> Provider \cup {NoProvider}]
    /\ BucketsOf \in [Provider -> SUBSET Bucket]

ASSUME CallAssumption == IsFiniteSet(Call)

ASSUME AmountAssumption ==
    /\ HardCap \in [Bucket -> Nat]
    /\ Estimate \in [Call -> Nat]
    /\ Actuals \subseteq Nat
    /\ MaxPeriods \in Nat /\ MaxCrashes \in Nat

VARIABLES
    spend,     \* currentSpendUsd of each bucket
    due,       \* the bucket's period has ended and nobody rolled it yet
    consumed,  \* the manual override of the lead is consumed
    call,      \* where each call is, and what it read
    event,     \* the integrationCostEvent row of each call
    periods,   \* bound: period ends so far
    crashes,   \* bound: calls that died
    zeroed,    \* history: what roll-overs took out of a bucket
    excused    \* history: the bucket was debited past a stale read, by an
               \* override, or by an actual cost above its estimate

counters == <<periods, crashes>>
vars == <<spend, due, consumed, call, event, counters, zeroed, excused>>

Point == {"idle", "roll", "override", "claim", "check", "row", "debit",
          "execute", "adjust", "release", "awaiting", "undebited", "done"}

CallType == [pc: Point, alive: BOOLEAN, provider: Provider \cup {NoProvider},
             read: [Bucket -> Int], rolls: SUBSET Bucket, holds: BOOLEAN]
EventType == [status: {"none", "reserved", "completed", "errored"},
              decision: {"none", "allow", "override", "approval"}, actual: Nat]

TypeOK ==
    /\ spend \in [Bucket -> Int]
    /\ due \in [Bucket -> BOOLEAN]
    /\ consumed \in BOOLEAN
    /\ call \in [Call -> CallType]
    /\ event \in [Call -> EventType]
    /\ periods \in 0..MaxPeriods /\ crashes \in 0..MaxCrashes
    /\ zeroed \in [Bucket -> Int]
    /\ excused \in [Bucket -> BOOLEAN]

NotCalled == [pc |-> "idle", alive |-> TRUE, provider |-> NoProvider,
              read |-> [b \in Bucket |-> 0], rolls |-> {}, holds |-> FALSE]

Init ==
    /\ spend = [b \in Bucket |-> 0]
    /\ due = [b \in Bucket |-> FALSE]
    /\ consumed \in BOOLEAN
    /\ call = [c \in Call |-> NotCalled]
    /\ event = [c \in Call |-> [status |-> "none", decision |-> "none", actual |-> 0]]
    /\ periods = 0 /\ crashes = 0
    /\ zeroed = [b \in Bucket |-> 0]
    /\ excused = [b \in Bucket |-> FALSE]

-----------------------------------------------------------------------------
At(c, pc) == call[c].pc = pc /\ call[c].alive
Goto(c, pc) == call' = [call EXCEPT ![c].pc = pc]
Buckets(c) == BucketsOf[call[c].provider]

\* updateMany { increment }: one statement on the row of every bucket.
Debited(bs, amount) == [b \in Bucket |-> IF b \in bs THEN spend[b] + amount ELSE spend[b]]

Excused(bs) == [b \in Bucket |-> excused[b] \/ b \in bs]

(* preflight *)

\* Provider switched off, the idempotency key or a cached answer end the call
\* here; otherwise findApplicable reads the rows of the provider's buckets.
FindApplicable(c, p) ==
    call' = [call EXCEPT ![c].pc = "roll", ![c].provider = p,
                         ![c].rolls = {b \in BucketsOf[p] : due[b]},
                         ![c].read = [b \in Bucket |-> IF b \in BucketsOf[p] THEN spend[b] ELSE 0]]

Preflight(c, p) ==
    /\ At(c, "idle")
    /\ FindApplicable(c, p)
    /\ UNCHANGED <<spend, due, consumed, event, counters, zeroed, excused>>

\* An update by id: it also zeroes a bucket another call has rolled meanwhile.
Roll(c, b) ==
    /\ At(c, "roll") /\ b \in call[c].rolls
    /\ spend' = [spend EXCEPT ![b] = 0]
    /\ zeroed' = [zeroed EXCEPT ![b] = @ + spend[b]]
    /\ due' = [due EXCEPT ![b] = FALSE]
    /\ call' = [call EXCEPT ![c].rolls = @ \ {b}, ![c].read[b] = 0]
    /\ UNCHANGED <<consumed, event, counters, excused>>

\* The override that is looked for is large enough, or not for this call.
FindOverride(c) ==
    /\ At(c, "roll") /\ call[c].rolls = {}
    /\ \/ ~consumed /\ Goto(c, "claim")
       \/ Goto(c, "check")
    /\ UNCHANGED <<spend, due, consumed, event, counters, zeroed, excused>>

\* A claim that does not look whether the override is still there.
ClaimableUnread == TRUE
Claimable == ~consumed

ClaimOverride(c) ==
    /\ At(c, "claim")
    /\ IF Claimable
       THEN /\ consumed' = TRUE
            /\ call' = [call EXCEPT ![c].pc = "row", ![c].holds = TRUE]
            /\ event' = [event EXCEPT ![c].decision = "override"]
       ELSE Goto(c, "check") /\ UNCHANGED <<consumed, event>>
    /\ UNCHANGED <<spend, due, counters, zeroed, excused>>

\* The comparison without the estimate of the call itself.
OverHardCapByNow(c) == \E b \in Buckets(c) : call[c].read[b] > HardCap[b]

\* On the values that were read, not on the rows.
OverHardCap(c) == \E b \in Buckets(c) : call[c].read[b] + Estimate[c] > HardCap[b]

\* The next provider of the chain is checked from the start.  Otherwise the
\* lead's score or the rate limit refuse, or the call is reserved: to run now,
\* or, above the approval threshold, to wait for a person.
CheckCaps(c) ==
    LET next == Fallback[call[c].provider] IN
    /\ At(c, "check")
    /\ \/ /\ OverHardCap(c) /\ next # NoProvider
          /\ FindApplicable(c, next) /\ UNCHANGED event
       \/ /\ ~OverHardCap(c) \/ next = NoProvider
          /\ Goto(c, "done") /\ UNCHANGED event
       \/ /\ ~OverHardCap(c)
          /\ Goto(c, "row")
          /\ \E d \in {"allow", "approval"} : event' = [event EXCEPT ![c].decision = d]
    /\ UNCHANGED <<spend, due, consumed, counters, zeroed, excused>>

(* reserve *)

\* An insert that throws gives the override back, as does a debit that throws.
ReserveThrows(c) ==
    /\ At(c, "row") \/ At(c, "debit")
    /\ call' = [call EXCEPT ![c].pc = IF call[c].pc = "row" THEN "done" ELSE "undebited",
                            ![c].holds = FALSE]
    /\ consumed' = (consumed /\ ~call[c].holds)
    /\ UNCHANGED <<spend, due, event, counters, zeroed, excused>>

ReserveRow(c) ==
    /\ At(c, "row")
    /\ Goto(c, "debit")
    /\ event' = [event EXCEPT ![c].status = "reserved"]
    /\ UNCHANGED <<spend, due, consumed, counters, zeroed, excused>>

ReserveDebit(c) ==
    /\ At(c, "debit")
    /\ spend' = Debited(Buckets(c), Estimate[c])
    /\ excused' = Excused({b \in Buckets(c) : call[c].holds \/ spend[b] > call[c].read[b]})
    /\ Goto(c, IF event[c].decision = "approval" THEN "awaiting" ELSE "execute")
    /\ UNCHANGED <<due, consumed, event, counters, zeroed>>

(* runAndRecord and recordActual *)

\* An answered call costs what it costs, a failed one nothing.
Outcomes == {[status |-> "completed", actual |-> a] : a \in Actuals}
              \cup {[status |-> "errored", actual |-> 0]}

Execute(c) ==
    /\ At(c, "execute")
    /\ \E o \in Outcomes :
          event' = [event EXCEPT ![c].status = o.status, ![c].actual = o.actual]
    /\ Goto(c, "adjust")
    /\ UNCHANGED <<spend, due, consumed, counters, zeroed, excused>>

\* The whole actual cost, as if nothing had been debited for the estimate.
DeltaOfWhole(c) == event[c].actual

Delta(c) == event[c].actual - Estimate[c]

NeverGivesBack(c) == FALSE

\* Only a failed call gives its override back; a call that keeps it is done.
GivesBack(c) == event[c].status = "errored" /\ call[c].holds

Adjust(c) ==
    /\ At(c, "adjust")
    /\ spend' = Debited(Buckets(c), Delta(c))
    /\ excused' = Excused(IF event[c].actual > Estimate[c] THEN Buckets(c) ELSE {})
    /\ Goto(c, IF GivesBack(c) THEN "release" ELSE "done")
    /\ UNCHANGED <<due, consumed, event, counters, zeroed>>

ReleaseOverride(c) ==
    /\ At(c, "release")
    /\ consumed' = FALSE
    /\ call' = [call EXCEPT ![c].pc = "done", ![c].holds = FALSE]
    /\ UNCHANGED <<spend, due, event, counters, zeroed, excused>>

Step(c) ==
    \/ \E b \in Bucket : Roll(c, b)
    \/ FindOverride(c) \/ ClaimOverride(c) \/ CheckCaps(c)
    \/ ReserveThrows(c) \/ ReserveRow(c) \/ ReserveDebit(c)
    \/ Execute(c) \/ Adjust(c) \/ ReleaseOverride(c)

-----------------------------------------------------------------------------
\* The process stops in the middle of a call: what it wrote stays.
Die(c) ==
    /\ crashes < MaxCrashes
    /\ call[c].alive /\ call[c].pc \notin {"idle", "awaiting", "undebited", "done"}
    /\ crashes' = crashes + 1
    /\ call' = [call EXCEPT ![c].alive = FALSE]
    /\ UNCHANGED <<spend, due, consumed, event, periods, zeroed, excused>>

PeriodEnds(b) ==
    /\ periods < MaxPeriods /\ ~due[b]
    /\ periods' = periods + 1
    /\ due' = [due EXCEPT ![b] = TRUE]
    /\ UNCHANGED <<spend, consumed, call, event, crashes, zeroed, excused>>

Next ==
    \/ \E c \in Call : (\E p \in Provider : Preflight(c, p)) \/ Step(c) \/ Die(c)
    \/ \E b \in Bucket : PeriodEnds(b)

Spec == Init /\ [][Next]_vars

\* A call that has begun goes on until it ends or its process stops.
FairSpec == Spec /\ \A c \in Call : WF_vars(Step(c))

-----------------------------------------------------------------------------
\* What a call has put into each of its buckets so far, by its row and by how
\* far it got: nothing, the estimate, or the actual cost.
Posted(c) ==
    IF event[c].status = "none" \/ call[c].pc \in {"debit", "undebited"} THEN 0
    ELSE IF call[c].pc \in {"execute", "adjust", "awaiting"} THEN Estimate[c]
    ELSE event[c].actual

\* Whatever interleaves, downgrades, fails or dies: a bucket holds what the
\* calls posted to it less what roll-overs took out (reserve 639-678,
\* recordActual 378-457, findApplicable 62-73).
SpendIsLedger ==
    \A b \in Bucket :
        spend[b] + zeroed[b] =
            MapThenSumSet(Posted, {c \in Call : call[c].provider # NoProvider /\ b \in Buckets(c)})

\* An override pays for one call: two calls never hold it, and it stays
\* consumed while one does (claimOverride 791-809, releaseOverride 811-820).
OverrideUsedOnce ==
    /\ \A c, d \in Call : call[c].holds /\ call[d].holds => c = d
    /\ \A c \in Call : call[c].holds => consumed

\* Calls that are not racing stay within the hard cap: past it a bucket was
\* debited on a stale read, by an override, or settled above its estimate
\* (findOverHardCap 95-104, preflight 273-292).
OverCapIsExcused == \A b \in Bucket : spend[b] > HardCap[b] => excused[b]

\* A call that fails gives its override back, unless its process stops
\* (recordActual 446-456, preflight 262-266).
OverrideComesBack ==
    \A c \in Call :
        call[c].holds ~> ~call[c].holds \/ event[c].status = "completed" \/ ~call[c].alive
=============================================================================
