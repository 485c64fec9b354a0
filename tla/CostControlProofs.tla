-------------------------- MODULE CostControlProofs --------------------------
(***************************************************************************)
(* Theorems about CostControl for any calls, providers, fallback chain,     *)
(* buckets, caps and amounts, any number of period ends and of crashes.     *)
(***************************************************************************)
EXTENDS CostControl, FiniteSetTheorems, WellFoundedInduction, TLAPS

\* A call that was let through without an override had room, by what it read.
RoomWasRead ==
    \A c \in Call :
        /\ call[c].pc \in {"row", "debit"} /\ ~call[c].holds
        => \A b \in Buckets(c) : call[c].read[b] + Estimate[c] <= HardCap[b]

CallsHaveProviders == \A c \in Call : call[c].pc # "idle" => call[c].provider \in Provider

\* Only the call that holds the override gives it back.
ReleaserHolds == \A c \in Call : call[c].pc = "release" => call[c].holds

Inv ==
    /\ TypeOK
    /\ CallsHaveProviders
    /\ ReleaserHolds
    /\ OverrideUsedOnce
    /\ RoomWasRead
    /\ OverCapIsExcused

\* The steps of Next, one disjunct per action.
LEMMA StepCases ==
    ASSUME Next
    PROVE  \/ \E c \in Call, p \in Provider : Preflight(c, p)
           \/ \E c \in Call, b \in Bucket : Roll(c, b)
           \/ \E c \in Call : FindOverride(c)
           \/ \E c \in Call : ClaimOverride(c)
           \/ \E c \in Call : CheckCaps(c)
           \/ \E c \in Call : ReserveThrows(c)
           \/ \E c \in Call : ReserveRow(c)
           \/ \E c \in Call : ReserveDebit(c)
           \/ \E c \in Call : Execute(c)
           \/ \E c \in Call : Adjust(c)
           \/ \E c \in Call : ReleaseOverride(c)
           \/ \E c \in Call : Die(c)
           \/ \E b \in Bucket : PeriodEnds(b)
  BY DEF Next, Step

----------------------------------------------------------------------------
\* Types.

\* A call that moves to another point stays a call.
LEMMA MovedCall ==
    ASSUME NEW f \in [Call -> CallType], NEW c \in Call, NEW pc \in Point
    PROVE  [f EXCEPT ![c].pc = pc] \in [Call -> CallType]
  BY DEF CallType

LEMMA Points ==
    /\ "roll" \in Point /\ "claim" \in Point /\ "check" \in Point /\ "row" \in Point
    /\ "debit" \in Point /\ "execute" \in Point /\ "adjust" \in Point /\ "release" \in Point
    /\ "awaiting" \in Point /\ "undebited" \in Point /\ "done" \in Point
  BY DEF Point

\* The facts about one call's record that its updates need.
LEMMA ChangedCall ==
    ASSUME NEW f \in [Call -> CallType], NEW c \in Call, NEW to \in CallType
    PROVE  [f EXCEPT ![c] = to] \in [Call -> CallType]
  OBVIOUS

LEMMA CallFields ==
    ASSUME NEW to \in CallType
    PROVE  /\ to.read \in [Bucket -> Int] /\ to.rolls \in SUBSET Bucket
           /\ \A b \in Bucket : [to.read EXCEPT ![b] = 0] \in [Bucket -> Int]
  BY DEF CallType

LEMMA CallWithHold ==
    ASSUME NEW to \in CallType, NEW pc \in Point
    PROVE  /\ [to EXCEPT !.pc = pc, !.holds = TRUE] \in CallType
           /\ [to EXCEPT !.pc = pc, !.holds = FALSE] \in CallType
  BY DEF CallType

LEMMA CallWithRows ==
    ASSUME NEW to \in CallType, NEW pc \in Point, NEW p \in Provider,
           NEW rolls \in SUBSET Bucket, NEW read \in [Bucket -> Int]
    PROVE  [to EXCEPT !.pc = pc, !.provider = p, !.rolls = rolls, !.read = read] \in CallType
  BY DEF CallType

\* findApplicable starts a call at a provider with the rows it read.
LEMMA FoundCall ==
    ASSUME TypeOK, NEW c \in Call, NEW p \in Provider, FindApplicable(c, p)
    PROVE  /\ call' \in [Call -> CallType]
           /\ call'[c].pc = "roll" /\ call'[c].provider = p /\ call'[c].holds = call[c].holds
           /\ \A d \in Call : d # c => call'[d] = call[d]
  <1> DEFINE rows == [b \in Bucket |-> IF b \in BucketsOf[p] THEN spend[b] ELSE 0]
             ended == {b \in BucketsOf[p] : due[b]}
  <1>1. rows \in [Bucket -> Int] /\ ended \in SUBSET Bucket
    BY ProviderAssumption DEF TypeOK
  <1>2. call' = [call EXCEPT ![c].pc = "roll", ![c].provider = p, ![c].rolls = ended, ![c].read = rows]
    BY DEF FindApplicable
  <1> HIDE DEF rows, ended
  <1>3. call' = [call EXCEPT ![c] = [call[c] EXCEPT !.pc = "roll", !.provider = p, !.rolls = ended, !.read = rows]]
    BY <1>2 DEF TypeOK
  <1>4. call[c] \in CallType
    BY DEF TypeOK
  <1>5. [call[c] EXCEPT !.pc = "roll", !.provider = p, !.rolls = ended, !.read = rows] \in CallType
    BY <1>1, <1>4, CallWithRows, Points
  <1>6. call' \in [Call -> CallType]
    BY <1>3, <1>5, ChangedCall DEF TypeOK
  <1>7. /\ call'[c].pc = "roll" /\ call'[c].provider = p /\ call'[c].holds = call[c].holds
        /\ \A d \in Call : d # c => call'[d] = call[d]
    BY <1>3, <1>4 DEF TypeOK, CallType
  <1> QED  BY <1>6, <1>7

LEMMA DebitedTypes ==
    ASSUME TypeOK, NEW bs, NEW amount \in Int
    PROVE  Debited(bs, amount) \in [Bucket -> Int]
  BY DEF TypeOK, Debited

LEMMA ExcusedTypes ==
    ASSUME TypeOK, NEW bs
    PROVE  Excused(bs) \in [Bucket -> BOOLEAN]
  BY DEF TypeOK, Excused

LEMMA TypeStep ==
    ASSUME TypeOK, CallsHaveProviders, Next
    PROVE  TypeOK'
  <1> USE DEF counters
  <1>1. CASE \E c \in Call, p \in Provider : Preflight(c, p)
    BY <1>1, FoundCall DEF TypeOK, Preflight
  <1>2. CASE \E c \in Call, b \in Bucket : Roll(c, b)
    <2> PICK c \in Call, b \in Bucket : Roll(c, b)
      BY <1>2
    <2>0. call[c] \in CallType
      BY DEF TypeOK
    <2> DEFINE rolls == call[c].rolls \ {b}
               read == [call[c].read EXCEPT ![b] = 0]
    <2>1. call' \in [Call -> CallType]
      <3>1. rolls \in SUBSET Bucket /\ read \in [Bucket -> Int]
        BY <2>0, CallFields
      <3>2. call' = [call EXCEPT ![c] = [call[c] EXCEPT !.rolls = rolls, !.read = read]]
        BY <2>0 DEF Roll, TypeOK, CallType
      <3> HIDE DEF rolls, read
      <3>3. [call[c] EXCEPT !.rolls = rolls, !.read = read] \in CallType
        BY <2>0, <3>1 DEF CallType
      <3> QED  BY <3>2, <3>3, ChangedCall DEF TypeOK
    <2>2. spend' \in [Bucket -> Int] /\ zeroed' \in [Bucket -> Int] /\ due' \in [Bucket -> BOOLEAN]
      BY DEF Roll, TypeOK
    <2> QED  BY <2>1, <2>2 DEF Roll, TypeOK
  <1>3. CASE \E c \in Call : FindOverride(c)
    BY <1>3, MovedCall, Points DEF TypeOK, FindOverride, Goto
  <1>4. CASE \E c \in Call : ClaimOverride(c)
    <2> PICK c \in Call : ClaimOverride(c)
      BY <1>4
    <2>1. call' \in [Call -> CallType]
      <3>1. \/ call' = [call EXCEPT ![c] = [call[c] EXCEPT !.pc = "row", !.holds = TRUE]]
            \/ call' = [call EXCEPT ![c].pc = "check"]
        BY DEF ClaimOverride, Goto
      <3>2. call[c] \in CallType /\ call \in [Call -> CallType]
        BY DEF TypeOK
      <3>3. [call[c] EXCEPT !.pc = "row", !.holds = TRUE] \in CallType
        BY <3>2, CallWithHold, Points
      <3> QED  BY <3>1, <3>2, <3>3, ChangedCall, MovedCall, Points
    <2>2. event' \in [Call -> EventType]
      <3>1. event' = [event EXCEPT ![c].decision = "override"] \/ event' = event
        BY DEF ClaimOverride
      <3> QED  BY <3>1 DEF TypeOK, EventType
    <2>3. consumed' \in BOOLEAN
      BY DEF ClaimOverride, TypeOK
    <2> QED  BY <2>1, <2>2, <2>3 DEF ClaimOverride, TypeOK
  <1>5. CASE \E c \in Call : CheckCaps(c)
    <2> PICK c \in Call : CheckCaps(c)
      BY <1>5
    <2>1. CASE OverHardCap(c) /\ Fallback[call[c].provider] # NoProvider
               /\ FindApplicable(c, Fallback[call[c].provider]) /\ UNCHANGED event
      <3>1. call[c].provider \in Provider
        BY DEF CheckCaps, At, CallsHaveProviders
      <3>2. Fallback[call[c].provider] \in Provider
        BY <2>1, <3>1, ProviderAssumption
      <3> QED  BY <2>1, <3>2, FoundCall DEF CheckCaps, TypeOK
    <2>2. CASE Goto(c, "done") /\ UNCHANGED event
      BY <2>2, MovedCall, Points DEF CheckCaps, TypeOK, Goto
    <2>3. CASE Goto(c, "row") /\ \E d \in {"allow", "approval"} : event' = [event EXCEPT ![c].decision = d]
      <3>1. event' \in [Call -> EventType]
        BY <2>3 DEF TypeOK, EventType
      <3> QED  BY <2>3, <3>1, MovedCall, Points DEF CheckCaps, TypeOK, Goto
    <2> QED  BY <2>1, <2>2, <2>3 DEF CheckCaps
  <1>6. CASE \E c \in Call : ReserveThrows(c)
    <2> PICK c \in Call : ReserveThrows(c)
      BY <1>6
    <2>1. call' \in [Call -> CallType]
      <3>1. PICK pc \in {"done", "undebited"} :
              call' = [call EXCEPT ![c] = [call[c] EXCEPT !.pc = pc, !.holds = FALSE]]
        BY DEF ReserveThrows
      <3>2. call[c] \in CallType /\ call \in [Call -> CallType]
        BY DEF TypeOK
      <3>3. [call[c] EXCEPT !.pc = pc, !.holds = FALSE] \in CallType
        BY <3>2, CallWithHold, Points
      <3> QED  BY <3>1, <3>2, <3>3, ChangedCall
    <2> QED  BY <2>1 DEF ReserveThrows, TypeOK
  <1>7. CASE \E c \in Call : ReserveRow(c)
    <2> PICK c \in Call : ReserveRow(c)
      BY <1>7
    <2>1. event' \in [Call -> EventType]
      BY DEF ReserveRow, TypeOK, EventType
    <2> QED  BY <2>1, MovedCall, Points DEF ReserveRow, TypeOK, Goto
  <1>8. CASE \E c \in Call : ReserveDebit(c)
    <2> PICK c \in Call : ReserveDebit(c)
      BY <1>8
    <2>1. call' \in [Call -> CallType]
      BY MovedCall, Points DEF ReserveDebit, Goto, TypeOK
    <2>2. spend' \in [Bucket -> Int] /\ excused' \in [Bucket -> BOOLEAN]
      BY DebitedTypes, ExcusedTypes, AmountAssumption DEF ReserveDebit
    <2> QED  BY <2>1, <2>2 DEF ReserveDebit, TypeOK
  <1>9. CASE \E c \in Call : Execute(c)
    <2> PICK c \in Call : Execute(c)
      BY <1>9
    <2>1. PICK o \in Outcomes : event' = [event EXCEPT ![c].status = o.status, ![c].actual = o.actual]
      BY DEF Execute
    <2>2. o.status \in {"completed", "errored"} /\ o.actual \in Nat
      BY AmountAssumption DEF Outcomes
    <2>3. event' \in [Call -> EventType]
      BY <2>1, <2>2 DEF TypeOK, EventType
    <2> QED  BY <2>3, MovedCall, Points DEF Execute, TypeOK, Goto
  <1>10. CASE \E c \in Call : Adjust(c)
    <2> PICK c \in Call : Adjust(c)
      BY <1>10
    <2>1. Delta(c) \in Int
      BY AmountAssumption DEF Delta, TypeOK, EventType
    <2>2. call' \in [Call -> CallType]
      BY MovedCall, Points DEF Adjust, Goto, TypeOK
    <2>3. spend' \in [Bucket -> Int] /\ excused' \in [Bucket -> BOOLEAN]
      BY <2>1, DebitedTypes, ExcusedTypes DEF Adjust
    <2> QED  BY <2>2, <2>3 DEF Adjust, TypeOK
  <1>11. CASE \E c \in Call : ReleaseOverride(c)
    <2> PICK c \in Call : ReleaseOverride(c)
      BY <1>11
    <2>1. call' \in [Call -> CallType]
      <3>1. call' = [call EXCEPT ![c] = [call[c] EXCEPT !.pc = "done", !.holds = FALSE]]
        BY DEF ReleaseOverride
      <3> QED  BY <3>1, CallWithHold, ChangedCall, Points DEF TypeOK
    <2> QED  BY <2>1 DEF ReleaseOverride, TypeOK
  <1>12. CASE \E c \in Call : Die(c)
    <2> PICK c \in Call : Die(c)
      BY <1>12
    <2>1. call' \in [Call -> CallType]
      BY DEF Die, TypeOK, CallType
    <2> QED  BY <2>1, AmountAssumption DEF Die, TypeOK
  <1>13. CASE \E b \in Bucket : PeriodEnds(b)
    BY <1>13, AmountAssumption DEF TypeOK, PeriodEnds
  <1> QED
    BY StepCases, <1>1, <1>2, <1>3, <1>4, <1>5, <1>6, <1>7, <1>8, <1>9, <1>10, <1>11, <1>12, <1>13

----------------------------------------------------------------------------
\* Calls.  A step of c leaves the other calls alone, and Becomes says what the
\* fields of c's record that the invariant reads have become.

Becomes(c, pc, provider, holds) ==
    /\ \A d \in Call : d # c => call'[d] = call[d]
    /\ call'[c].pc = pc /\ call'[c].provider = provider /\ call'[c].holds = holds

LEMMA Went ==
    ASSUME TypeOK, NEW c \in Call, NEW pc, call' = [call EXCEPT ![c].pc = pc]
    PROVE  /\ Becomes(c, pc, call[c].provider, call[c].holds)
           /\ call'[c].read = call[c].read
  BY DEF TypeOK, CallType, Becomes

LEMMA WentHolding ==
    ASSUME TypeOK, NEW c \in Call, NEW pc, NEW holds,
           call' = [call EXCEPT ![c].pc = pc, ![c].holds = holds]
    PROVE  Becomes(c, pc, call[c].provider, holds) /\ call'[c].read = call[c].read
  BY DEF TypeOK, CallType, Becomes

\* Points at which nothing is promised about a call.
Elsewhere == Point \ {"row", "debit", "release"}

LEMMA ElsewherePoints ==
    /\ "roll" \in Elsewhere /\ "claim" \in Elsewhere /\ "check" \in Elsewhere
    /\ "awaiting" \in Elsewhere /\ "execute" \in Elsewhere /\ "adjust" \in Elsewhere
    /\ "undebited" \in Elsewhere /\ "done" \in Elsewhere
  BY DEF Elsewhere, Point

\* The parts of the invariant that only look at calls and at the override: c goes
\* to a point that promises nothing and keeps its hold, or it gives it up.
LEMMA CallGoesOn ==
    ASSUME Inv, NEW c \in Call, NEW pc \in Elsewhere, NEW p \in Provider,
           Becomes(c, pc, p, call[c].holds), consumed' = consumed
    PROVE  CallsHaveProviders' /\ ReleaserHolds' /\ OverrideUsedOnce' /\ RoomWasRead'
  <1>1. CallsHaveProviders'
    BY DEF Inv, CallsHaveProviders, Becomes, Elsewhere
  <1>2. ReleaserHolds'
    BY DEF Inv, ReleaserHolds, Becomes, Elsewhere
  <1>3. OverrideUsedOnce'
    BY DEF Inv, OverrideUsedOnce, Becomes
  <1>4. RoomWasRead'
    BY DEF Inv, RoomWasRead, Becomes, Elsewhere, Buckets
  <1> QED  BY <1>1, <1>2, <1>3, <1>4

LEMMA CallLetsGo ==
    ASSUME Inv, NEW c \in Call, NEW pc \in Elsewhere, NEW p \in Provider,
           Becomes(c, pc, p, FALSE),
           consumed' = consumed \/ call[c].holds = TRUE
    PROVE  CallsHaveProviders' /\ ReleaserHolds' /\ OverrideUsedOnce' /\ RoomWasRead'
  <1>1. CallsHaveProviders'
    BY DEF Inv, CallsHaveProviders, Becomes, Elsewhere
  <1>2. ReleaserHolds'
    BY DEF Inv, ReleaserHolds, Becomes, Elsewhere
  <1>3. OverrideUsedOnce'
    BY DEF Inv, OverrideUsedOnce, Becomes
  <1>4. RoomWasRead'
    BY DEF Inv, RoomWasRead, Becomes, Elsewhere, Buckets
  <1> QED  BY <1>1, <1>2, <1>3, <1>4

\* A call past preflight knows its provider.
LEMMA ProviderKnown ==
    ASSUME Inv, NEW c \in Call, call[c].pc # "idle"
    PROVE  call[c].provider \in Provider
  BY DEF Inv, CallsHaveProviders

LEMMA CallsStep ==
    ASSUME Inv, Next
    PROVE  CallsHaveProviders' /\ ReleaserHolds' /\ OverrideUsedOnce' /\ RoomWasRead'
  <1>0. TypeOK
    BY DEF Inv
  <1>1. CASE \E c \in Call, p \in Provider : Preflight(c, p)
    <2> PICK c \in Call, p \in Provider : Preflight(c, p)
      BY <1>1
    <2>1. Becomes(c, "roll", p, call[c].holds) /\ consumed' = consumed
      BY <1>0, FoundCall DEF Preflight, Becomes
    <2> QED  BY <2>1, CallGoesOn, ElsewherePoints
  <1>2. CASE \E c \in Call, b \in Bucket : Roll(c, b)
    <2> PICK c \in Call, b \in Bucket : Roll(c, b)
      BY <1>2
    <2>1. call[c].provider \in Provider /\ consumed' = consumed
      BY ProviderKnown DEF Roll, At
    <2>2. Becomes(c, "roll", call[c].provider, call[c].holds)
      BY <1>0 DEF Roll, At, TypeOK, CallType, Becomes
    <2> QED  BY <2>1, <2>2, CallGoesOn, ElsewherePoints
  <1>3. CASE \E c \in Call : FindOverride(c)
    <2> PICK c \in Call : FindOverride(c)
      BY <1>3
    <2>1. call[c].provider \in Provider /\ consumed' = consumed
      BY ProviderKnown DEF FindOverride, At
    <2>2. PICK pc \in {"claim", "check"} : Becomes(c, pc, call[c].provider, call[c].holds)
      BY <1>0, Went DEF FindOverride, Goto
    <2> QED  BY <2>1, <2>2, CallGoesOn, ElsewherePoints
  <1>4. CASE \E c \in Call : ClaimOverride(c)
    <2> PICK c \in Call : ClaimOverride(c)
      BY <1>4
    <2>1. call[c].provider \in Provider
      BY ProviderKnown DEF ClaimOverride, At
    <2>2. CASE ~Claimable
      <3>1. Becomes(c, "check", call[c].provider, call[c].holds) /\ consumed' = consumed
        BY <1>0, <2>2, Went DEF ClaimOverride, Goto
      <3> QED  BY <2>1, <3>1, CallGoesOn, ElsewherePoints
    <2>3. CASE Claimable
      <3>1. consumed' = TRUE /\ ~consumed
        BY <2>3 DEF ClaimOverride, Claimable
      <3>2. Becomes(c, "row", call[c].provider, TRUE)
        BY <1>0, <2>3, WentHolding DEF ClaimOverride
      <3>3. \A d \in Call : d # c => ~call[d].holds
        BY <3>1 DEF Inv, OverrideUsedOnce
      <3>4. OverrideUsedOnce'
        BY <3>1, <3>2, <3>3 DEF OverrideUsedOnce, Becomes
      <3>5. RoomWasRead'
        BY <3>2 DEF Inv, RoomWasRead, Becomes, Buckets
      <3> QED  BY <2>1, <3>2, <3>4, <3>5 DEF Inv, CallsHaveProviders, ReleaserHolds, Becomes
    <2> QED  BY <2>2, <2>3
  <1>5. CASE \E c \in Call : CheckCaps(c)
    <2> PICK c \in Call : CheckCaps(c)
      BY <1>5
    <2>1. call[c].provider \in Provider /\ consumed' = consumed
      BY ProviderKnown DEF CheckCaps, At
    <2>2. CASE Fallback[call[c].provider] # NoProvider /\ FindApplicable(c, Fallback[call[c].provider])
      <3> DEFINE next == Fallback[call[c].provider]
      <3>1. next \in Provider
        BY <2>1, <2>2, ProviderAssumption
      <3>2. Becomes(c, "roll", next, call[c].holds)
        BY <1>0, <2>2, <3>1, FoundCall DEF Becomes
      <3> QED  BY <2>1, <3>1, <3>2, CallGoesOn, ElsewherePoints
    <2>3. CASE Goto(c, "done")
      <3>1. Becomes(c, "done", call[c].provider, call[c].holds)
        BY <1>0, <2>3, Went DEF Goto
      <3> QED  BY <2>1, <3>1, CallGoesOn, ElsewherePoints
    <2>4. CASE ~OverHardCap(c) /\ Goto(c, "row")
      <3>1. Becomes(c, "row", call[c].provider, call[c].holds) /\ call'[c].read = call[c].read
        BY <1>0, <2>4, Went DEF Goto
      <3>2. \A b \in Buckets(c) : call[c].read[b] + Estimate[c] <= HardCap[b]
        <4> TAKE b \in Buckets(c)
        <4>1. b \in Bucket
          BY <2>1, ProviderAssumption DEF Buckets
        <4>2. call[c].read[b] \in Int /\ Estimate[c] \in Nat /\ HardCap[b] \in Nat
          BY <1>0, <4>1, CallFields, AmountAssumption DEF TypeOK
        <4> QED  BY <2>4, <4>2 DEF OverHardCap
      <3>3. RoomWasRead'
        BY <3>1, <3>2 DEF Inv, RoomWasRead, Becomes, Buckets
      <3>4. OverrideUsedOnce'
        BY <2>1, <3>1 DEF Inv, OverrideUsedOnce, Becomes
      <3> QED  BY <2>1, <3>1, <3>3, <3>4 DEF Inv, CallsHaveProviders, ReleaserHolds, Becomes
    <2> QED  BY <2>2, <2>3, <2>4 DEF CheckCaps
  <1>6. CASE \E c \in Call : ReserveThrows(c)
    <2> PICK c \in Call : ReserveThrows(c)
      BY <1>6
    <2>1. call[c].provider \in Provider
      BY ProviderKnown DEF ReserveThrows, At
    <2>2. PICK pc \in {"done", "undebited"} : Becomes(c, pc, call[c].provider, FALSE)
      BY <1>0, WentHolding DEF ReserveThrows
    <2>3. consumed' = (consumed /\ ~call[c].holds) /\ consumed \in BOOLEAN /\ call[c].holds \in BOOLEAN
      BY <1>0 DEF ReserveThrows, TypeOK, CallType
    <2>4. consumed' = consumed \/ call[c].holds = TRUE
      BY <2>3, Zenon
    <2> QED  BY <2>1, <2>2, <2>4, CallLetsGo, ElsewherePoints
  <1>7. CASE \E c \in Call : ReserveRow(c)
    <2> PICK c \in Call : ReserveRow(c)
      BY <1>7
    <2>1. /\ Becomes(c, "debit", call[c].provider, call[c].holds)
          /\ call'[c].read = call[c].read /\ call[c].pc = "row" /\ consumed' = consumed
      BY <1>0, Went DEF ReserveRow, At, Goto
    <2>2. RoomWasRead' /\ OverrideUsedOnce'
      BY <2>1 DEF Inv, RoomWasRead, OverrideUsedOnce, Becomes, Buckets
    <2> QED  BY <2>1, <2>2 DEF Inv, CallsHaveProviders, ReleaserHolds, Becomes
  <1>8. CASE \E c \in Call : ReserveDebit(c)
    <2> PICK c \in Call : ReserveDebit(c)
      BY <1>8
    <2>1. call[c].provider \in Provider /\ consumed' = consumed
      BY ProviderKnown DEF ReserveDebit, At
    <2>2. PICK pc \in {"awaiting", "execute"} : Becomes(c, pc, call[c].provider, call[c].holds)
      BY <1>0, Went DEF ReserveDebit, Goto
    <2> QED  BY <2>1, <2>2, CallGoesOn, ElsewherePoints
  <1>9. CASE \E c \in Call : Execute(c)
    <2> PICK c \in Call : Execute(c)
      BY <1>9
    <2>1. call[c].provider \in Provider /\ consumed' = consumed
      BY ProviderKnown DEF Execute, At
    <2>2. Becomes(c, "adjust", call[c].provider, call[c].holds)
      BY <1>0, Went DEF Execute, Goto
    <2> QED  BY <2>1, <2>2, CallGoesOn, ElsewherePoints
  <1>10. CASE \E c \in Call : Adjust(c)
    <2> PICK c \in Call : Adjust(c)
      BY <1>10
    <2>1. call[c].provider \in Provider /\ consumed' = consumed
      BY ProviderKnown DEF Adjust, At
    <2>2. CASE GivesBack(c) /\ Goto(c, "release")
      <3>1. Becomes(c, "release", call[c].provider, call[c].holds) /\ call[c].holds
        BY <1>0, <2>2, Went DEF Goto, GivesBack
      <3>2. RoomWasRead' /\ OverrideUsedOnce'
        BY <2>1, <3>1 DEF Inv, RoomWasRead, OverrideUsedOnce, Becomes, Buckets
      <3> QED  BY <2>1, <3>1, <3>2 DEF Inv, CallsHaveProviders, ReleaserHolds, Becomes
    <2>3. CASE Goto(c, "done")
      <3>1. Becomes(c, "done", call[c].provider, call[c].holds)
        BY <1>0, <2>3, Went DEF Goto
      <3> QED  BY <2>1, <3>1, CallGoesOn, ElsewherePoints
    <2> QED  BY <2>2, <2>3 DEF Adjust
  <1>11. CASE \E c \in Call : ReleaseOverride(c)
    <2> PICK c \in Call : ReleaseOverride(c)
      BY <1>11
    <2>1. call[c].provider \in Provider
      BY ProviderKnown DEF ReleaseOverride, At
    <2>2. Becomes(c, "done", call[c].provider, FALSE)
      BY <1>0, WentHolding DEF ReleaseOverride
    <2>3. call[c].holds = TRUE
      BY <1>0 DEF ReleaseOverride, At, Inv, ReleaserHolds, TypeOK, CallType
    <2> QED  BY <2>1, <2>2, <2>3, CallLetsGo, ElsewherePoints
  <1>12. CASE \E c \in Call : Die(c)
    <2> PICK c \in Call : Die(c)
      BY <1>12
    <2>1. /\ Becomes(c, call[c].pc, call[c].provider, call[c].holds)
          /\ call'[c].read = call[c].read /\ consumed' = consumed
      BY <1>0 DEF Die, TypeOK, CallType, Becomes
    <2>2. RoomWasRead' /\ OverrideUsedOnce'
      BY <2>1 DEF Inv, RoomWasRead, OverrideUsedOnce, Becomes, Buckets
    <2> QED  BY <2>1, <2>2 DEF Inv, CallsHaveProviders, ReleaserHolds, Becomes
  <1>13. CASE \E b \in Bucket : PeriodEnds(b)
    BY <1>13 DEF PeriodEnds, Inv, CallsHaveProviders, ReleaserHolds, OverrideUsedOnce, RoomWasRead, Buckets
  <1> QED
    BY StepCases, <1>1, <1>2, <1>3, <1>4, <1>5, <1>6, <1>7, <1>8, <1>9, <1>10, <1>11, <1>12, <1>13

----------------------------------------------------------------------------
\* Buckets.

LEMMA CapStep ==
    ASSUME Inv, Next
    PROVE  OverCapIsExcused'
  <1> USE DEF Inv
  <1>1. CASE UNCHANGED <<spend, excused>>
    BY <1>1 DEF OverCapIsExcused
  <1>2. CASE \E c \in Call, b \in Bucket : Roll(c, b)
    <2> PICK c \in Call, b \in Bucket : Roll(c, b)
      BY <1>2
    <2>1. spend' = [spend EXCEPT ![b] = 0] /\ excused' = excused
      BY DEF Roll
    <2>2. HardCap[b] \in Nat
      BY AmountAssumption
    <2> QED  BY <2>1, <2>2 DEF OverCapIsExcused, TypeOK
  <1>3. CASE \E c \in Call : ReserveDebit(c)
    <2> PICK c \in Call : ReserveDebit(c)
      BY <1>3
    <2> SUFFICES ASSUME NEW b \in Bucket, spend'[b] > HardCap[b]
                 PROVE  excused'[b]
      BY DEF OverCapIsExcused
    <2>1. excused'[b] = (excused[b] \/ b \in {a \in Buckets(c) : call[c].holds \/ spend[a] > call[c].read[a]})
      BY DEF ReserveDebit, Excused
    <2>2. CASE b \notin Buckets(c)
      <3>1. spend'[b] = spend[b]
        BY <2>2 DEF ReserveDebit, Debited
      <3> QED  BY <2>1, <3>1 DEF OverCapIsExcused
    <2>3. CASE b \in Buckets(c) /\ ~call[c].holds
      <3>1. call[c].read[b] + Estimate[c] <= HardCap[b]
        BY <2>3 DEF ReserveDebit, At, RoomWasRead
      <3>2. spend'[b] = spend[b] + Estimate[c]
        BY <2>3 DEF ReserveDebit, Debited
      <3>3. /\ call[c].read[b] \in Int /\ spend[b] \in Int
            /\ Estimate[c] \in Nat /\ HardCap[b] \in Nat
        BY CallFields, AmountAssumption DEF TypeOK
      <3>4. spend[b] > call[c].read[b]
        BY <3>1, <3>2, <3>3
      <3> QED  BY <2>1, <2>3, <3>4
    <2>4. CASE b \in Buckets(c) /\ call[c].holds
      BY <2>1, <2>4
    <2> QED  BY <2>2, <2>3, <2>4
  <1>4. CASE \E c \in Call : Adjust(c)
    <2> PICK c \in Call : Adjust(c)
      BY <1>4
    <2> SUFFICES ASSUME NEW b \in Bucket, spend'[b] > HardCap[b]
                 PROVE  excused'[b]
      BY DEF OverCapIsExcused
    <2>1. /\ excused[b] => excused'[b]
          /\ event[c].actual > Estimate[c] /\ b \in Buckets(c) => excused'[b]
      BY DEF Adjust, Excused
    <2>2. \/ spend'[b] = spend[b]
          \/ b \in Buckets(c) /\ spend'[b] = spend[b] + (event[c].actual - Estimate[c])
      <3>1. spend'[b] = IF b \in Buckets(c) THEN spend[b] + Delta(c) ELSE spend[b]
        BY DEF Adjust, Debited
      <3>2. Delta(c) = event[c].actual - Estimate[c]
        BY DEF Delta
      <3> QED  BY <3>1, <3>2
    <2>3. /\ event[c].actual \in Nat /\ Estimate[c] \in Nat
          /\ spend[b] \in Int /\ HardCap[b] \in Nat
      BY AmountAssumption DEF TypeOK, EventType
    <2>4. CASE spend[b] > HardCap[b]
      BY <2>1, <2>4 DEF OverCapIsExcused
    <2>5. CASE ~(spend[b] > HardCap[b])
      BY <2>1, <2>2, <2>3, <2>5
    <2> QED  BY <2>4, <2>5
  <1>5. CASE ~UNCHANGED <<spend, excused>>
    <2>1. \/ \E c \in Call, b \in Bucket : Roll(c, b)
          \/ \E c \in Call : ReserveDebit(c) \/ Adjust(c)
      BY <1>5, StepCases DEF Preflight, FindOverride, ClaimOverride, CheckCaps, ReserveThrows, ReserveRow,
                             Execute, ReleaseOverride, Die, PeriodEnds
    <2> QED  BY <2>1, <1>2, <1>3, <1>4
  <1> QED  BY <1>1, <1>5

----------------------------------------------------------------------------
LEMMA InvHolds == Spec => []Inv
  <1>1. Init => Inv
    <2> SUFFICES ASSUME Init PROVE Inv
      OBVIOUS
    <2>1. call \in [Call -> CallType]
      <3>1. NotCalled \in CallType
        BY DEF NotCalled, CallType, Point
      <3> QED  BY <3>1 DEF Init
    <2>2. event \in [Call -> EventType]
      BY DEF Init, EventType
    <2>3. TypeOK
      BY <2>1, <2>2, AmountAssumption DEF Init, TypeOK
    <2>4. \A c \in Call : call[c].pc = "idle" /\ call[c].holds = FALSE
      BY DEF Init, NotCalled
    <2>5. CallsHaveProviders /\ ReleaserHolds /\ OverrideUsedOnce /\ RoomWasRead
      BY <2>4 DEF CallsHaveProviders, ReleaserHolds, OverrideUsedOnce, RoomWasRead
    <2>6. OverCapIsExcused
      BY AmountAssumption DEF Init, OverCapIsExcused
    <2> QED  BY <2>3, <2>5, <2>6 DEF Inv
  <1>2. Inv /\ [Next]_vars => Inv'
    <2> SUFFICES ASSUME Inv, [Next]_vars PROVE Inv'
      OBVIOUS
    <2>1. CASE Next
      <3>1. TypeOK'
        BY <2>1, TypeStep DEF Inv
      <3> QED  BY <2>1, <3>1, CallsStep, CapStep DEF Inv
    <2>2. CASE UNCHANGED vars
      BY <2>2 DEF vars, counters, Inv, TypeOK, CallsHaveProviders, ReleaserHolds, OverrideUsedOnce,
                  RoomWasRead, OverCapIsExcused, Buckets
    <2> QED  BY <2>1, <2>2
  <1> QED  BY <1>1, <1>2, PTL DEF Spec

----------------------------------------------------------------------------
\* Sums over finite sets.

\* The element that MapThenSumSet takes first.
First(s) == CHOOSE x \in s : TRUE

\* f adds up g over the subsets of S, an element at a time.
Adds(f, g, S) ==
    f = [s \in SUBSET S |-> IF s = {} THEN 0 ELSE g[First(s)] + f[s \ {First(s)}]]

\* f is those sums, all of them integers.
Sums(f, g, S) == f \in [SUBSET S -> Int] /\ Adds(f, g, S)

Total(g, S) == (CHOOSE f : Adds(f, g, S))[S]

\* Induction on the size of a set, without an operator for the hypothesis: a
\* non-empty set of natural numbers has a least one.
LEMMA LeastNumber ==
  ASSUME NEW N \in SUBSET Nat, N # {}
  PROVE  \E n \in N : \A m \in N : n <= m
  <1>1. PICK n \in N : \A m \in N : ~ (<<m, n>> \in OpToRel(<, Nat))
    BY NatLessThanWellFounded, WFMin
  <1>2. ASSUME NEW m \in N PROVE ~(m < n)
    <2>1. <<m, n>> \in Nat \X Nat /\ <<m, n>>[1] = m /\ <<m, n>>[2] = n
      OBVIOUS
    <2> QED
      BY <1>1, <2>1 DEF OpToRel
  <1> QED
    BY <1>2

LEMMA FirstIn ==
  ASSUME NEW s, s # {}
  PROVE  First(s) \in s
  BY DEF First

\* A part of a finite set, and the part without one of its elements.
LEMMA PartCounts ==
  ASSUME NEW S, IsFiniteSet(S), NEW s \in SUBSET S
  PROVE  /\ IsFiniteSet(s) /\ Cardinality(s) \in Nat
         /\ Cardinality(s) = 0 <=> s = {}
         /\ \A x \in s : /\ s \ {x} \in SUBSET S
                         /\ Cardinality(s \ {x}) = Cardinality(s) - 1
  <1>1. IsFiniteSet(s)
    BY FS_Subset
  <1>2. Cardinality(s) \in Nat
    BY <1>1, FS_CardinalityType
  <1>3. Cardinality(s) = 0 <=> s = {}
    BY <1>1, FS_EmptySet
  <1>4. \A x \in s : Cardinality(s \ {x}) = Cardinality(s) - 1
    BY <1>1, FS_RemoveElement
  <1> QED
    BY <1>1, <1>2, <1>3, <1>4

\* What Adds says of a subset.
LEMMA AddsAt ==
  ASSUME NEW f, NEW g, NEW S, Adds(f, g, S), NEW s \in SUBSET S
  PROVE  /\ s = {} => f[s] = 0
         /\ s # {} => f[s] = g[First(s)] + f[s \ {First(s)}]
  <1> DEFINE body(h) == [r \in SUBSET S |-> IF r = {} THEN 0 ELSE g[First(r)] + h[r \ {First(r)}]]
  <1>1. f = body(f)
    BY DEF Adds
  <1>2. body(f)[s] = IF s = {} THEN 0 ELSE g[First(s)] + f[s \ {First(s)}]
    OBVIOUS
  <1> HIDE DEF body
  <1>3. f[s] = IF s = {} THEN 0 ELSE g[First(s)] + f[s \ {First(s)}]
    BY <1>1, <1>2
  <1> QED
    BY <1>3

\* Two sums of equal numbers are equal, whatever larger set one is part of.
LEMMA AddsAgree ==
  ASSUME NEW S, NEW T, NEW f, NEW g, NEW h, NEW k,
         IsFiniteSet(T), S \subseteq T, Adds(f, g, S), Adds(h, k, T),
         \A x \in S : g[x] = k[x]
  PROVE  \A s \in SUBSET S : f[s] = h[s]
  <1> DEFINE N == {n \in Nat : \E s \in SUBSET S : Cardinality(s) = n /\ f[s] # h[s]}
  <1>1. ASSUME N # {} PROVE FALSE
    <2>1. PICK n \in N : \A m \in N : n <= m
      BY <1>1, LeastNumber
    <2>2. PICK s \in SUBSET S : Cardinality(s) = n /\ f[s] # h[s]
      BY <2>1
    <2>3. s \in SUBSET T
      BY <2>2
    <2>4. s # {}
      BY <2>2, <2>3, AddsAt
    <2>5. First(s) \in s
      BY <2>4, FirstIn
    <2> DEFINE r == s \ {First(s)}
    <2>6. r \in SUBSET S /\ Cardinality(r) = n - 1 /\ n \in Nat /\ n # 0
      BY <2>2, <2>3, <2>4, <2>5, PartCounts
    <2>7. n - 1 \in Nat /\ n - 1 \notin N
      BY <2>1, <2>6
    <2>8. f[r] = h[r]
      BY <2>6, <2>7
    <2>9. f[s] = g[First(s)] + f[r] /\ h[s] = k[First(s)] + h[r]
      BY <2>2, <2>3, <2>4, AddsAt
    <2> QED
      BY <2>2, <2>5, <2>8, <2>9
  <1>2. ASSUME NEW s \in SUBSET S PROVE f[s] = h[s]
    <2>1. Cardinality(s) \in Nat
      BY PartCounts
    <2> QED
      BY <1>1, <2>1
  <1> QED
    BY <1>2

\* A finite set has its sum.
LEMMA AddsExists ==
  ASSUME NEW S, NEW g, IsFiniteSet(S), \A x \in S : g[x] \in Int
  PROVE  \E f \in [SUBSET S -> Int] : Adds(f, g, S)
  <1> DEFINE Upto(n) == {s \in SUBSET S : Cardinality(s) <= n}
             Solves(f, n) == /\ f \in [Upto(n) -> Int]
                             /\ \A s \in Upto(n) :
                                  f[s] = IF s = {} THEN 0 ELSE g[First(s)] + f[s \ {First(s)}]
             N == {n \in Nat : ~ \E f : Solves(f, n)}
  <1>1. 0 \notin N
    <2> DEFINE f == [s \in Upto(0) |-> 0]
    <2>1. \A s \in Upto(0) : s = {}
      BY PartCounts
    <2>2. Solves(f, 0)
      BY <2>1
    <2> QED
      BY <2>2
  <1>2. ASSUME NEW n \in Nat, NEW f, Solves(f, n) PROVE n + 1 \notin N
    <2> DEFINE h == [s \in Upto(n + 1) |-> IF s = {} THEN 0 ELSE g[First(s)] + f[s \ {First(s)}]]
    <2>1. ASSUME NEW s \in Upto(n + 1), s # {}
          PROVE  /\ First(s) \in S /\ s \ {First(s)} \in Upto(n)
                 /\ f[s \ {First(s)}] \in Int
      <3>1. First(s) \in s
        BY <2>1, FirstIn
      <3>2. /\ s \ {First(s)} \in SUBSET S
            /\ Cardinality(s \ {First(s)}) = Cardinality(s) - 1 /\ Cardinality(s) \in Nat
        BY <3>1, PartCounts
      <3>3. s \ {First(s)} \in Upto(n)
        BY <3>2
      <3> QED
        BY <1>2, <3>1, <3>3
    <2>2. h \in [Upto(n + 1) -> Int]
      <3>1. ASSUME NEW s \in Upto(n + 1)
            PROVE  (IF s = {} THEN 0 ELSE g[First(s)] + f[s \ {First(s)}]) \in Int
        <4>1. s # {} => g[First(s)] \in Int /\ f[s \ {First(s)}] \in Int
          BY <2>1
        <4> QED
          BY <4>1
      <3> QED
        BY <3>1
    <2>3. ASSUME NEW s \in Upto(n) PROVE h[s] = f[s] /\ s \in Upto(n + 1)
      <3>1. s \in Upto(n + 1)
        BY PartCounts
      <3> QED
        BY <1>2, <3>1
    <2>4. ASSUME NEW s \in Upto(n + 1)
          PROVE  h[s] = IF s = {} THEN 0 ELSE g[First(s)] + h[s \ {First(s)}]
      BY <2>1, <2>3
    <2>5. Solves(h, n + 1)
      BY <2>2, <2>4
    <2> QED
      BY <2>5
  <1>3. N = {}
    <2> SUFFICES ASSUME N # {} PROVE FALSE
      OBVIOUS
    <2>1. PICK n \in N : \A m \in N : n <= m
      BY LeastNumber
    <2>2. n \in Nat /\ n # 0
      BY <1>1, <2>1
    <2>3. n - 1 \in Nat /\ ~(n <= n - 1) /\ (n - 1) + 1 = n
      BY <2>2
    <2>4. n - 1 \notin N
      BY <2>1, <2>3
    <2>5. PICK f : Solves(f, n - 1)
      BY <2>3, <2>4
    <2> HIDE DEF N, Solves
    <2>6. (n - 1) + 1 \notin N
      BY <1>2, <2>3, <2>5
    <2> QED
      BY <2>1, <2>3, <2>6
  <1>4. Cardinality(S) \in Nat
    BY FS_CardinalityType
  <1>5. PICK f : Solves(f, Cardinality(S))
    BY <1>3, <1>4
  <1>6. Upto(Cardinality(S)) = SUBSET S
    BY FS_Subset
  <1>7. f \in [SUBSET S -> Int]
        /\ \A s \in SUBSET S : f[s] = IF s = {} THEN 0 ELSE g[First(s)] + f[s \ {First(s)}]
    BY <1>5, <1>6
  <1>8. f = [s \in SUBSET S |-> IF s = {} THEN 0 ELSE g[First(s)] + f[s \ {First(s)}]]
    BY <1>7
  <1> QED
    BY <1>7, <1>8 DEF Adds

\* Any element of the set may be the one that is added last.
LEMMA AddsAny ==
  ASSUME NEW S, NEW g, NEW f, NEW z \in S,
         IsFiniteSet(S), \A x \in S : g[x] \in Int, Sums(f, g, S)
  PROVE  f[S] = g[z] + f[S \ {z}]
  <1> DEFINE Bad(s) == \E y \in s : f[s] # g[y] + f[s \ {y}]
             N == {n \in Nat : \E s \in SUBSET S : Cardinality(s) = n /\ Bad(s)}
  <1>0. Adds(f, g, S) /\ f \in [SUBSET S -> Int]
    BY DEF Sums
  <1>1. ASSUME N # {} PROVE FALSE
    <2>1. PICK n \in N : \A m \in N : n <= m
      BY <1>1, LeastNumber
    <2>2. PICK s \in SUBSET S : Cardinality(s) = n /\ Bad(s)
      BY <2>1
    <2>3. PICK y \in s : f[s] # g[y] + f[s \ {y}]
      BY <2>2
    <2> DEFINE x == First(s)
               rest == s \ {x}
               both == rest \ {y}
    <2>4. x \in s
      BY <2>3, FirstIn
    <2>5. f[s] = g[x] + f[rest]
      BY <1>0, <2>3, AddsAt
    <2>6. x # y
      BY <2>3, <2>5
    <2> HIDE DEF x
    <2>7. rest \in SUBSET S /\ Cardinality(rest) = n - 1 /\ n \in Nat /\ n # 0
      BY <2>2, <2>4, PartCounts
    <2>8. s \ {y} \in SUBSET S /\ Cardinality(s \ {y}) = n - 1
      BY <2>2, <2>3, PartCounts
    <2>9. n - 1 \in Nat /\ ~(n <= n - 1)
      BY <2>7
    <2>10. n - 1 \notin N
      BY <2>1, <2>9
    <2>11. ~Bad(rest)
      BY <2>7, <2>9, <2>10
    <2>12. ~Bad(s \ {y})
      BY <2>8, <2>9, <2>10
    <2>13. f[rest] = g[y] + f[both]
      BY <2>3, <2>6, <2>11
    <2>14. f[s \ {y}] = g[x] + f[(s \ {y}) \ {x}]
      BY <2>4, <2>6, <2>12
    <2>15. (s \ {y}) \ {x} = both
      OBVIOUS
    <2>16. both \in SUBSET S /\ x \in S /\ y \in S
      BY <2>3, <2>4
    <2>17. f[both] \in Int /\ g[x] \in Int /\ g[y] \in Int
      BY <1>0, <2>16
    <2>18. f[s \ {y}] = g[x] + f[both]
      BY <2>14, <2>15
    <2> HIDE DEF rest, both
    <2>19. f[s] = g[x] + (g[y] + f[both])
      BY <2>5, <2>13
    <2>20. g[x] + (g[y] + f[both]) = g[y] + (g[x] + f[both])
      BY <2>17
    <2> QED
      BY <2>3, <2>18, <2>19, <2>20
  <1>2. ASSUME NEW s \in SUBSET S, NEW y \in s PROVE f[s] = g[y] + f[s \ {y}]
    <2>1. Cardinality(s) \in Nat
      BY PartCounts
    <2> QED
      BY <1>1, <2>1
  <1> QED
    BY <1>2

----------------------------------------------------------------------------
\* Total, as sums are used.

LEMMA TotalSums ==
  ASSUME NEW S, NEW g, IsFiniteSet(S), \A x \in S : g[x] \in Int
  PROVE  \E f : Sums(f, g, S) /\ Total(g, S) = f[S]
  <1> DEFINE c == CHOOSE f : Adds(f, g, S)
  <1>1. PICK h \in [SUBSET S -> Int] : Adds(h, g, S)
    BY AddsExists
  <1>2. Adds(c, g, S)
    BY <1>1
  <1>3. c = [s \in SUBSET S |-> c[s]]
    BY <1>2 DEF Adds
  <1>4. Total(g, S) = c[S]
    BY DEF Total
  <1> HIDE DEF c
  <1>5. \A s \in SUBSET S : c[s] = h[s]
    BY <1>1, <1>2, AddsAgree
  <1>6. c \in [SUBSET S -> Int]
    BY <1>3, <1>5
  <1> QED
    BY <1>2, <1>4, <1>6 DEF Sums

LEMMA TotalType ==
  ASSUME NEW S, NEW g, IsFiniteSet(S), \A x \in S : g[x] \in Int
  PROVE  Total(g, S) \in Int
  <1>1. PICK f : Sums(f, g, S) /\ Total(g, S) = f[S]
    BY TotalSums
  <1>2. S \in SUBSET S
    OBVIOUS
  <1> QED
    BY <1>1, <1>2 DEF Sums

LEMMA TotalEmpty ==
  ASSUME NEW g
  PROVE  Total(g, {}) = 0
  <1>1. IsFiniteSet({}) /\ \A x \in {} : g[x] \in Int
    BY FS_EmptySet
  <1>2. PICK f : Sums(f, g, {}) /\ Total(g, {}) = f[{}]
    BY <1>1, TotalSums
  <1>3. Adds(f, g, {}) /\ {} \in SUBSET {}
    BY <1>2 DEF Sums
  <1>4. f[{}] = 0
    BY <1>3, AddsAt
  <1> QED
    BY <1>2, <1>4

\* Equal numbers have equal sums.
LEMMA TotalSame ==
  ASSUME NEW S, NEW g, NEW k, IsFiniteSet(S),
         \A x \in S : g[x] = k[x] /\ g[x] \in Int
  PROVE  Total(g, S) = Total(k, S)
  <1>1. PICK f : Sums(f, g, S) /\ Total(g, S) = f[S]
    BY TotalSums
  <1>2. PICK h : Sums(h, k, S) /\ Total(k, S) = h[S]
    BY TotalSums
  <1>3. Adds(f, g, S) /\ Adds(h, k, S) /\ S \in SUBSET S
    BY <1>1, <1>2 DEF Sums
  <1>4. \A x \in S : g[x] = k[x]
    OBVIOUS
  <1>5. \A s \in SUBSET S : f[s] = h[s]
    BY <1>3, <1>4, AddsAgree
  <1> QED
    BY <1>1, <1>2, <1>3, <1>5

\* What one element contributes.
LEMMA TotalWithout ==
  ASSUME NEW S, NEW g, NEW y \in S, IsFiniteSet(S), \A x \in S : g[x] \in Int
  PROVE  Total(g, S) = g[y] + Total(g, S \ {y})
  <1> DEFINE r == S \ {y}
  <1>1. PICK f : Sums(f, g, S) /\ Total(g, S) = f[S]
    BY TotalSums
  <1>2. f[S] = g[y] + f[S \ {y}]
    BY <1>1, AddsAny
  <1>3. IsFiniteSet(r) /\ r \subseteq S /\ r \in SUBSET r /\ \A x \in r : g[x] \in Int
    BY FS_Subset
  <1>4. f[S] = g[y] + f[r]
    BY <1>2
  <1> HIDE DEF r
  <1>5. PICK h : Sums(h, g, r) /\ Total(g, r) = h[r]
    BY <1>3, TotalSums
  <1>6. Adds(f, g, S) /\ Adds(h, g, r)
    BY <1>1, <1>5 DEF Sums
  <1>7. h[r] = f[r]
    BY <1>3, <1>6, AddsAgree
  <1>8. Total(g, S) = g[y] + Total(g, r)
    BY <1>1, <1>4, <1>5, <1>7
  <1> QED
    BY <1>8 DEF r

LEMMA Unfold ==
  ASSUME NEW T \in SUBSET Call
  PROVE  MapThenSumSet(Posted, T) = Total([c \in Call |-> Posted(c)], T)
  <1> DEFINE g == [c \in Call |-> Posted(c)]
             one(f) == f = [s \in SUBSET T |-> IF s = {} THEN 0
                              ELSE Posted(CHOOSE x \in s : TRUE) + f[s \ {CHOOSE x \in s : TRUE}]]
  <1>1. MapThenSumSet(Posted, T) = (CHOOSE f : one(f))[T]
    BY DEF MapThenSumSet, MapThenFoldSet
  <1>2. ASSUME NEW s \in SUBSET T, s # {}
        PROVE  g[First(s)] = Posted(CHOOSE x \in s : TRUE) /\ First(s) = CHOOSE x \in s : TRUE
    <2>1. First(s) \in Call
      BY <1>2, FirstIn
    <2>2. g[First(s)] = Posted(First(s))
      BY <2>1
    <2> QED
      BY <2>2 DEF First
  <1>3. \A f : Adds(f, g, T) <=> one(f)
    <2> HIDE DEF g
    <2> QED
      BY <1>2 DEF Adds
  <1>4. (CHOOSE f : Adds(f, g, T)) = (CHOOSE f : one(f))
    <2> HIDE DEF g, one
    <2> QED
      BY <1>3
  <1> QED
    BY <1>1, <1>4 DEF Total

----------------------------------------------------------------------------
\* The ledger.

\* Two sums that differ at one call only differ by what it contributes.
PartOf(g, T, c) == IF c \in T THEN g[c] ELSE 0

LEMMA PartTaken ==
  ASSUME NEW g, NEW T \in SUBSET Call, NEW c \in Call, \A d \in Call : g[d] \in Int
  PROVE  Total(g, T) = PartOf(g, T, c) + Total(g, T \ {c})
  <1>1. IsFiniteSet(T) /\ IsFiniteSet(T \ {c}) /\ \A d \in T : g[d] \in Int
    BY CallAssumption, FS_Subset
  <1>2. CASE c \in T
    BY <1>1, <1>2, TotalWithout DEF PartOf
  <1>3. CASE c \notin T
    <2>1. T \ {c} = T
      BY <1>3
    <2>2. Total(g, T) \in Int
      BY <1>1, TotalType
    <2>3. PartOf(g, T, c) = 0
      BY <1>3 DEF PartOf
    <2>4. Total(g, T \ {c}) = Total(g, T)
      BY <2>1
    <2>5. 0 + Total(g, T) = Total(g, T)
      BY <2>2
    <2> QED
      BY <2>3, <2>4, <2>5
  <1> QED
    BY <1>2, <1>3

LEMMA OneCallDiffers ==
  ASSUME NEW g, NEW k, NEW T \in SUBSET Call, NEW U \in SUBSET Call, NEW c \in Call,
         \A d \in Call : g[d] \in Int /\ k[d] \in Int,
         \A d \in Call : d # c => g[d] = k[d] /\ (d \in T <=> d \in U)
  PROVE  \E rest \in Int : /\ Total(g, T) = PartOf(g, T, c) + rest
                           /\ Total(k, U) = PartOf(k, U, c) + rest
  <1> DEFINE rest == Total(g, T \ {c})
  <1>1. \A d \in Call : g[d] \in Int
    OBVIOUS
  <1>2. \A d \in Call : k[d] \in Int
    OBVIOUS
  <1>3. T \ {c} = U \ {c} /\ IsFiniteSet(T \ {c})
    BY CallAssumption, FS_Subset
  <1>4. \A d \in T \ {c} : g[d] = k[d] /\ g[d] \in Int
    OBVIOUS
  <1>5. Total(g, T \ {c}) = Total(k, T \ {c})
    BY <1>3, <1>4, TotalSame
  <1>6. rest \in Int
    BY <1>3, <1>4, TotalType
  <1>7. Total(g, T) = PartOf(g, T, c) + rest
    BY <1>1, PartTaken
  <1>8. Total(k, U) = PartOf(k, U, c) + Total(k, U \ {c})
    BY <1>2, PartTaken
  <1> QED
    BY <1>3, <1>5, <1>6, <1>7, <1>8

\* The calls that may have posted to a bucket, and what each of them posted.
Posters(b) == {c \in Call : call[c].provider # NoProvider /\ b \in Buckets(c)}

Posts == [c \in Call |-> Posted(c)]

Part(c, b) == IF c \in Posters(b) THEN Posted(c) ELSE 0

Ledger == \A b \in Bucket : spend[b] + zeroed[b] = Total(Posts, Posters(b))

LEMMA LedgerIsSpend ==
  ASSUME Ledger
  PROVE  SpendIsLedger
  <1> SUFFICES ASSUME NEW b \in Bucket
               PROVE  spend[b] + zeroed[b] =
                        MapThenSumSet(Posted, {c \in Call : call[c].provider # NoProvider /\ b \in Buckets(c)})
    BY DEF SpendIsLedger
  <1>1. MapThenSumSet(Posted, Posters(b)) = Total(Posts, Posters(b))
    <2>1. Posters(b) \in SUBSET Call
      BY DEF Posters
    <2> HIDE DEF Posters
    <2> QED
      BY <2>1, Unfold DEF Posts
  <1> QED
    BY <1>1 DEF Ledger, Posters

\* A call has no row before reserve, and has one while its amount is moved.
Staged ==
    \A c \in Call :
        /\ call[c].pc \in {"idle", "roll", "override", "claim", "check", "row"} => event[c].status = "none"
        /\ call[c].pc \in {"debit", "execute", "adjust"} => event[c].status # "none"

LEMMA PostedTypes ==
  ASSUME TypeOK, NEW c \in Call
  PROVE  Posted(c) \in Int
  <1>1. event[c].actual \in Int /\ Estimate[c] \in Int
    BY AmountAssumption DEF TypeOK, EventType
  <1> QED
    BY <1>1 DEF Posted

LEMMA PostedTypesNext ==
  ASSUME TypeOK', NEW c \in Call
  PROVE  Posted(c)' \in Int
  <1>1. event'[c].actual \in Int /\ Estimate[c] \in Int
    BY AmountAssumption DEF TypeOK, EventType
  <1> QED
    BY <1>1 DEF Posted

\* A step of one call keeps the ledger when the bucket moves by what it posts.
LEMMA LedgerMoves ==
  ASSUME TypeOK, TypeOK', Ledger, NEW c \in Call,
         \A d \in Call : d # c => call'[d] = call[d] /\ event'[d] = event[d],
         \A b \in Bucket :
            spend'[b] + zeroed'[b] + Part(c, b) = spend[b] + zeroed[b] + Part(c, b)'
  PROVE  Ledger'
  <1> SUFFICES ASSUME NEW b \in Bucket
               PROVE  spend'[b] + zeroed'[b] = Total(Posts', Posters(b)')
    BY DEF Ledger
  <1> DEFINE g == Posts
             k == Posts'
             T == Posters(b)
             U == Posters(b)'
  <1>1. T \in SUBSET Call /\ U \in SUBSET Call
    BY DEF Posters
  <1>2. \A d \in Call : g[d] = Posted(d) /\ g[d] \in Int
    BY PostedTypes DEF Posts
  <1>3. \A d \in Call : k[d] = Posted(d)' /\ k[d] \in Int
    BY PostedTypesNext DEF Posts
  <1>4. \A d \in Call : d # c => Posted(d) = Posted(d)' /\ (d \in T <=> d \in U)
    BY DEF Posted, Posters, Buckets
  <1>5. PartOf(g, T, c) = Part(c, b) /\ PartOf(k, U, c) = Part(c, b)'
    BY <1>2, <1>3 DEF PartOf, Part
  <1>6. Part(c, b) \in Int /\ Part(c, b)' \in Int
    BY PostedTypes, PostedTypesNext DEF Part
  <1>7. spend[b] + zeroed[b] = Total(g, T)
    BY DEF Ledger
  <1>8. /\ spend[b] \in Int /\ zeroed[b] \in Int
        /\ spend'[b] \in Int /\ zeroed'[b] \in Int
    BY DEF TypeOK
  <1> HIDE DEF g, k, T, U
  <1>9. \A d \in Call : d # c => g[d] = k[d] /\ (d \in T <=> d \in U)
    BY <1>2, <1>3, <1>4
  <1>10. \A d \in Call : g[d] \in Int /\ k[d] \in Int
    BY <1>2, <1>3
  <1>11. PICK rest \in Int : Total(g, T) = PartOf(g, T, c) + rest /\ Total(k, U) = PartOf(k, U, c) + rest
    BY <1>1, <1>9, <1>10, OneCallDiffers
  <1>12. Total(g, T) = Part(c, b) + rest /\ Total(k, U) = Part(c, b)' + rest
    BY <1>5, <1>11
  <1>13. spend'[b] + zeroed'[b] = Total(k, U)
    BY <1>6, <1>7, <1>8, <1>12
  <1> QED
    BY <1>13 DEF k, U

\* What a step of c makes of the fields that the ledger reads.
Goes(c, pc, provider, status, actual) ==
    /\ \A d \in Call : d # c => call'[d] = call[d] /\ event'[d] = event[d]
    /\ call'[c].pc = pc /\ call'[c].provider = provider
    /\ event'[c].status = status /\ event'[c].actual = actual

Early == {"idle", "roll", "override", "claim", "check", "row"}
Moving == {"debit", "execute", "adjust"}

LEMMA StagedKept ==
  ASSUME NEW c \in Call, NEW pc, NEW p, NEW status, NEW actual,
         Staged, Goes(c, pc, p, status, actual),
         pc \in Early => status = "none", pc \in Moving => status # "none"
  PROVE  Staged'
  BY DEF Staged, Goes, Early, Moving

\* A step before the debit, or a call that never reaches it.
LEMMA NothingPosted ==
  ASSUME TypeOK, TypeOK', Ledger,
         NEW c \in Call, NEW pc, NEW p, NEW status, NEW actual,
         Goes(c, pc, p, status, actual),
         Posted(c) = 0, status = "none" \/ pc \in {"debit", "undebited"},
         \A b \in Bucket : spend'[b] + zeroed'[b] = spend[b] + zeroed[b]
  PROVE  Ledger'
  <1>1. Posted(c)' = 0
    BY DEF Posted, Goes
  <1>2. \A b \in Bucket : Part(c, b) = 0 /\ Part(c, b)' = 0
    BY <1>1 DEF Part
  <1>3. \A b \in Bucket : spend[b] \in Int /\ zeroed[b] \in Int /\ spend'[b] \in Int /\ zeroed'[b] \in Int
    BY DEF TypeOK
  <1>4. \A b \in Bucket : spend'[b] + zeroed'[b] + Part(c, b) = spend[b] + zeroed[b] + Part(c, b)'
    BY <1>2, <1>3
  <1> QED
    BY <1>4, LedgerMoves DEF Goes

\* A step that moves what the call's buckets hold by what its amount changes.
LEMMA PostedMoves ==
  ASSUME TypeOK, TypeOK', Ledger,
         NEW c \in Call, NEW pc, NEW status, NEW actual, NEW change \in Int,
         Goes(c, pc, call[c].provider, status, actual),
         call[c].provider \in Provider,
         Posted(c)' = Posted(c) + change,
         spend' = Debited(Buckets(c), change), zeroed' = zeroed
  PROVE  Ledger'
  <1>1. ASSUME NEW b \in Bucket
        PROVE  spend'[b] + zeroed'[b] + Part(c, b) = spend[b] + zeroed[b] + Part(c, b)'
    <2>1. /\ spend[b] \in Int /\ zeroed[b] \in Int /\ Posted(c) \in Int /\ Posted(c)' \in Int
          /\ zeroed'[b] = zeroed[b]
      BY PostedTypes, PostedTypesNext DEF TypeOK
    <2>2. CASE b \in Buckets(c)
      <3>1. c \in Posters(b) /\ c \in Posters(b)'
        BY <2>2, ProviderAssumption DEF Posters, Goes, Buckets
      <3>2. Part(c, b) = Posted(c) /\ Part(c, b)' = Posted(c) + change
        BY <3>1 DEF Part
      <3>3. spend'[b] = spend[b] + change
        BY <2>2 DEF Debited
      <3> QED
        BY <2>1, <3>2, <3>3
    <2>3. CASE b \notin Buckets(c)
      <3>1. c \notin Posters(b) /\ c \notin Posters(b)'
        BY <2>3 DEF Posters, Goes, Buckets
      <3>2. Part(c, b) = 0 /\ Part(c, b)' = 0
        BY <3>1 DEF Part
      <3>3. spend'[b] = spend[b]
        BY <2>3 DEF Debited
      <3> QED
        BY <2>1, <3>2, <3>3
    <2> QED
      BY <2>2, <2>3
  <1> QED
    BY <1>1, LedgerMoves DEF Goes

\* A step of a call that moves nothing.
LEMMA PostedStays ==
  ASSUME TypeOK, TypeOK', Ledger,
         NEW c \in Call, NEW pc, NEW status, NEW actual,
         Goes(c, pc, call[c].provider, status, actual),
         Posted(c)' = Posted(c), spend' = spend, zeroed' = zeroed
  PROVE  Ledger'
  <1>1. \A b \in Bucket : Part(c, b)' = Part(c, b)
    BY DEF Part, Posters, Goes, Buckets
  <1>2. \A b \in Bucket : spend'[b] + zeroed'[b] + Part(c, b) = spend[b] + zeroed[b] + Part(c, b)'
    BY <1>1
  <1> QED
    BY <1>2, LedgerMoves DEF Goes

\* A call whose point is early has posted nothing.
LEMMA EarlyPosted ==
  ASSUME Staged, NEW c \in Call, call[c].pc \in Early
  PROVE  event[c].status = "none" /\ Posted(c) = 0
  BY DEF Staged, Early, Posted

\* The two facts that each step is to keep.
Kept == Staged' /\ Ledger'

\* A step between points before reserve's debit.
LEMMA EarlyStep ==
  ASSUME TypeOK, TypeOK', Staged, Ledger, NEW c \in Call, NEW pc, NEW p,
         call[c].pc \in Early, pc \in Early \cup {"done"},
         Goes(c, pc, p, event[c].status, event[c].actual),
         \A b \in Bucket : spend'[b] + zeroed'[b] = spend[b] + zeroed[b]
  PROVE  Kept
  <1>1. event[c].status = "none" /\ Posted(c) = 0
    BY EarlyPosted
  <1>2. pc \notin Moving
    BY DEF Early, Moving
  <1>3. Staged'
    BY <1>1, <1>2, StagedKept
  <1>4. Ledger'
    BY <1>1, NothingPosted
  <1> QED
    BY <1>3, <1>4 DEF Kept

\* A point assigned, and possibly the hold, with the row left as it is.
LEMMA PointSet ==
  ASSUME TypeOK, NEW c \in Call, NEW pc, NEW holds, event' = event,
         \/ call' = [call EXCEPT ![c].pc = pc]
         \/ call' = [call EXCEPT ![c].pc = pc, ![c].holds = holds]
  PROVE  Goes(c, pc, call[c].provider, event[c].status, event[c].actual)
  BY DEF Goes, TypeOK, CallType

\* The same, with a decision written to the row.
LEMMA PointDecided ==
  ASSUME TypeOK, NEW c \in Call, NEW pc, NEW holds, NEW d,
         event' = [event EXCEPT ![c].decision = d],
         \/ call' = [call EXCEPT ![c].pc = pc]
         \/ call' = [call EXCEPT ![c].pc = pc, ![c].holds = holds]
  PROVE  Goes(c, pc, call[c].provider, event[c].status, event[c].actual)
  BY DEF Goes, TypeOK, CallType, EventType

LEMMA LedgerStep ==
    ASSUME TypeOK, TypeOK', CallsHaveProviders, Staged, Ledger, Next
    PROVE  Kept
  <1>1. CASE \E c \in Call, p \in Provider : Preflight(c, p)
    <2> PICK c \in Call, p \in Provider : Preflight(c, p)
      BY <1>1
    <2>1. Goes(c, "roll", p, event[c].status, event[c].actual)
      BY FoundCall DEF Preflight, Goes
    <2>2. call[c].pc = "idle" /\ spend' = spend /\ zeroed' = zeroed
      BY DEF Preflight, At
    <2> QED
      BY <2>1, <2>2, EarlyStep DEF Early
  <1>2. CASE \E c \in Call, b \in Bucket : Roll(c, b)
    <2> PICK c \in Call, b \in Bucket : Roll(c, b)
      BY <1>2
    <2>1. call[c].pc = "roll"
      BY DEF Roll, At
    <2>2. Goes(c, "roll", call[c].provider, event[c].status, event[c].actual)
      BY <2>1 DEF Roll, Goes, TypeOK, CallType
    <2>3. \A a \in Bucket : spend'[a] + zeroed'[a] = spend[a] + zeroed[a]
      <3> SUFFICES ASSUME NEW a \in Bucket PROVE spend'[a] + zeroed'[a] = spend[a] + zeroed[a]
        OBVIOUS
      <3>1. spend[a] \in Int /\ zeroed[a] \in Int
        BY DEF TypeOK
      <3>2. CASE a = b
        <4>1. spend'[a] = 0 /\ zeroed'[a] = zeroed[a] + spend[a]
          BY <3>2 DEF Roll, TypeOK
        <4> QED
          BY <3>1, <4>1
      <3>3. CASE a # b
        BY <3>3 DEF Roll, TypeOK
      <3> QED
        BY <3>2, <3>3
    <2> QED
      BY <2>1, <2>2, <2>3, EarlyStep DEF Early
  <1>3. CASE \E c \in Call : FindOverride(c)
    <2> PICK c \in Call : FindOverride(c)
      BY <1>3
    <2>1. PICK pc \in {"claim", "check"} : Goes(c, pc, call[c].provider, event[c].status, event[c].actual)
      BY PointSet DEF FindOverride, Goto
    <2>2. call[c].pc = "roll" /\ spend' = spend /\ zeroed' = zeroed
      BY DEF FindOverride, At
    <2> QED
      BY <2>1, <2>2, EarlyStep DEF Early
  <1>4. CASE \E c \in Call : ClaimOverride(c)
    <2> PICK c \in Call : ClaimOverride(c)
      BY <1>4
    <2>1. \/ /\ call' = [call EXCEPT ![c].pc = "row", ![c].holds = TRUE]
             /\ event' = [event EXCEPT ![c].decision = "override"]
          \/ call' = [call EXCEPT ![c].pc = "check"] /\ event' = event
      BY DEF ClaimOverride, Goto
    <2>2. PICK pc \in {"row", "check"} : Goes(c, pc, call[c].provider, event[c].status, event[c].actual)
      BY <2>1, PointSet, PointDecided
    <2>3. call[c].pc = "claim" /\ spend' = spend /\ zeroed' = zeroed
      BY DEF ClaimOverride, At
    <2> QED
      BY <2>2, <2>3, EarlyStep DEF Early
  <1>5. CASE \E c \in Call : CheckCaps(c)
    <2> PICK c \in Call : CheckCaps(c)
      BY <1>5
    <2>0. call[c].pc = "check" /\ spend' = spend /\ zeroed' = zeroed
      BY DEF CheckCaps, At
    <2>1. CASE /\ Fallback[call[c].provider] # NoProvider
               /\ FindApplicable(c, Fallback[call[c].provider]) /\ UNCHANGED event
      <3> DEFINE next == Fallback[call[c].provider]
      <3>1. call[c].provider \in Provider
        BY <2>0 DEF CallsHaveProviders
      <3>2. next \in Provider
        BY <2>1, <3>1, ProviderAssumption
      <3>3. Goes(c, "roll", next, event[c].status, event[c].actual)
        BY <2>1, <3>2, FoundCall DEF Goes
      <3> HIDE DEF next
      <3> QED
        BY <2>0, <3>3, EarlyStep DEF Early
    <2>2. CASE Goto(c, "done") /\ UNCHANGED event
      <3>1. Goes(c, "done", call[c].provider, event[c].status, event[c].actual)
        BY <2>2, PointSet DEF Goto
      <3> QED
        BY <2>0, <3>1, EarlyStep DEF Early
    <2>3. CASE Goto(c, "row") /\ \E d \in {"allow", "approval"} : event' = [event EXCEPT ![c].decision = d]
      <3>1. Goes(c, "row", call[c].provider, event[c].status, event[c].actual)
        BY <2>3, PointDecided DEF Goto
      <3> QED
        BY <2>0, <3>1, EarlyStep DEF Early
    <2> QED
      BY <2>1, <2>2, <2>3 DEF CheckCaps
  <1>6. CASE \E c \in Call : ReserveThrows(c)
    <2> PICK c \in Call : ReserveThrows(c)
      BY <1>6
    <2>1. event' = event /\ spend' = spend /\ zeroed' = zeroed
      BY DEF ReserveThrows
    <2>2. CASE call[c].pc = "row"
      <3>1. Goes(c, "done", call[c].provider, event[c].status, event[c].actual)
        BY <2>1, <2>2, PointSet DEF ReserveThrows
      <3> QED
        BY <2>1, <2>2, <3>1, EarlyStep DEF Early
    <2>3. CASE call[c].pc = "debit"
      <3>1. Goes(c, "undebited", call[c].provider, event[c].status, event[c].actual)
        BY <2>1, <2>3, PointSet DEF ReserveThrows
      <3>2. Staged'
        BY <3>1, StagedKept DEF Early, Moving
      <3>3. Posted(c) = 0
        BY <2>3 DEF Posted
      <3>4. Ledger'
        BY <2>1, <3>1, <3>3, NothingPosted
      <3> QED
        BY <3>2, <3>4 DEF Kept
    <2> QED
      BY <2>2, <2>3 DEF ReserveThrows, At
  <1>7. CASE \E c \in Call : ReserveRow(c)
    <2> PICK c \in Call : ReserveRow(c)
      BY <1>7
    <2>1. call[c].pc = "row" /\ spend' = spend /\ zeroed' = zeroed
      BY DEF ReserveRow, At
    <2>2. Goes(c, "debit", call[c].provider, "reserved", event[c].actual)
      BY DEF ReserveRow, Goto, Goes, TypeOK, CallType, EventType
    <2>3. Staged'
      BY <2>2, StagedKept DEF Early
    <2>4. Posted(c) = 0
      BY <2>1, EarlyPosted DEF Early
    <2>5. Ledger'
      BY <2>1, <2>2, <2>4, NothingPosted
    <2> QED
      BY <2>3, <2>5 DEF Kept
  <1>8. CASE \E c \in Call : ReserveDebit(c)
    <2> PICK c \in Call : ReserveDebit(c)
      BY <1>8
    <2>1. /\ call[c].pc = "debit" /\ event' = event
          /\ spend' = Debited(Buckets(c), Estimate[c]) /\ zeroed' = zeroed
      BY DEF ReserveDebit, At
    <2>2. event[c].status # "none" /\ Estimate[c] \in Int /\ call[c].provider \in Provider
      BY <2>1, AmountAssumption DEF Staged, CallsHaveProviders
    <2>3. PICK pc \in {"awaiting", "execute"} :
            Goes(c, pc, call[c].provider, event[c].status, event[c].actual)
      BY <2>1, PointSet DEF ReserveDebit, Goto
    <2>4. Staged'
      BY <2>2, <2>3, StagedKept DEF Early
    <2>5. Posted(c) = 0 /\ Posted(c)' = Estimate[c]
      BY <2>1, <2>2, <2>3 DEF Posted, Goes
    <2>6. Posted(c)' = Posted(c) + Estimate[c]
      BY <2>2, <2>5
    <2>7. Ledger'
      BY <2>1, <2>2, <2>3, <2>6, PostedMoves
    <2> QED
      BY <2>4, <2>7 DEF Kept
  <1>9. CASE \E c \in Call : Execute(c)
    <2> PICK c \in Call : Execute(c)
      BY <1>9
    <2>1. call[c].pc = "execute" /\ spend' = spend /\ zeroed' = zeroed /\ event[c].status # "none"
      BY DEF Execute, At, Staged
    <2>2. PICK o \in Outcomes : event' = [event EXCEPT ![c].status = o.status, ![c].actual = o.actual]
      BY DEF Execute
    <2>3. o.status # "none"
      BY DEF Outcomes
    <2>4. Goes(c, "adjust", call[c].provider, o.status, o.actual)
      BY <2>2 DEF Execute, Goto, Goes, TypeOK, CallType, EventType
    <2>5. Staged'
      BY <2>3, <2>4, StagedKept DEF Early
    <2>6. Posted(c)' = Posted(c)
      BY <2>1, <2>3, <2>4 DEF Posted, Goes
    <2>7. Ledger'
      BY <2>1, <2>4, <2>6, PostedStays
    <2> QED
      BY <2>5, <2>7 DEF Kept
  <1>10. CASE \E c \in Call : Adjust(c)
    <2> PICK c \in Call : Adjust(c)
      BY <1>10
    <2>1. /\ call[c].pc = "adjust" /\ event' = event
          /\ spend' = Debited(Buckets(c), Delta(c)) /\ zeroed' = zeroed
      BY DEF Adjust, At
    <2>2. event[c].status # "none" /\ call[c].provider \in Provider
      BY <2>1 DEF Staged, CallsHaveProviders
    <2>3. event[c].actual \in Int /\ Estimate[c] \in Int
      BY AmountAssumption DEF TypeOK, EventType
    <2>4. PICK pc \in {"release", "done"} :
            Goes(c, pc, call[c].provider, event[c].status, event[c].actual)
      BY <2>1, PointSet DEF Adjust, Goto
    <2>5. Staged'
      BY <2>2, <2>4, StagedKept DEF Early
    <2>6. Posted(c) = Estimate[c] /\ Posted(c)' = event[c].actual
      BY <2>1, <2>2, <2>4 DEF Posted, Goes
    <2>7. Delta(c) \in Int /\ Posted(c)' = Posted(c) + Delta(c)
      BY <2>3, <2>6 DEF Delta
    <2>8. Ledger'
      BY <2>1, <2>2, <2>4, <2>7, PostedMoves
    <2> QED
      BY <2>5, <2>8 DEF Kept
  <1>11. CASE \E c \in Call : ReleaseOverride(c)
    <2> PICK c \in Call : ReleaseOverride(c)
      BY <1>11
    <2>1. call[c].pc = "release" /\ event' = event /\ spend' = spend /\ zeroed' = zeroed
      BY DEF ReleaseOverride, At
    <2>2. Goes(c, "done", call[c].provider, event[c].status, event[c].actual)
      BY <2>1, PointSet DEF ReleaseOverride
    <2>3. Staged'
      BY <2>2, StagedKept DEF Early, Moving
    <2>4. Posted(c)' = Posted(c)
      BY <2>1, <2>2 DEF Posted, Goes
    <2>5. Ledger'
      BY <2>1, <2>2, <2>4, PostedStays
    <2> QED
      BY <2>3, <2>5 DEF Kept
  <1>12. CASE \E c \in Call : Die(c)
    <2> PICK c \in Call : Die(c)
      BY <1>12
    <2>1. event' = event /\ spend' = spend /\ zeroed' = zeroed
      BY DEF Die
    <2>2. Goes(c, call[c].pc, call[c].provider, event[c].status, event[c].actual)
      BY <2>1 DEF Die, Goes, TypeOK, CallType
    <2>3. Staged'
      BY <2>2, StagedKept DEF Staged, Early, Moving
    <2>4. Posted(c)' = Posted(c)
      BY <2>1, <2>2 DEF Posted, Goes
    <2>5. Ledger'
      BY <2>1, <2>2, <2>4, PostedStays
    <2> QED
      BY <2>3, <2>5 DEF Kept
  <1>13. CASE \E b \in Bucket : PeriodEnds(b)
    BY <1>13 DEF PeriodEnds, Kept, Staged, Ledger, Posts, Posted, Posters, Buckets
  <1> QED
    BY StepCases, <1>1, <1>2, <1>3, <1>4, <1>5, <1>6, <1>7, <1>8, <1>9, <1>10, <1>11, <1>12, <1>13

LEMMA LedgerHolds == Spec => [](Staged /\ Ledger)
  <1>1. Init => Staged /\ Ledger
    <2> SUFFICES ASSUME Init PROVE Staged /\ Ledger
      OBVIOUS
    <2>1. \A c \in Call : call[c].pc = "idle" /\ call[c].provider = NoProvider /\ event[c].status = "none"
      BY DEF Init, NotCalled
    <2>2. Staged
      BY <2>1 DEF Staged
    <2>3. ASSUME NEW b \in Bucket
          PROVE  spend[b] + zeroed[b] = Total(Posts, Posters(b))
      <3>1. Posters(b) = {}
        BY <2>1 DEF Posters
      <3>2. Total(Posts, {}) = 0
        BY TotalEmpty
      <3>3. spend[b] = 0 /\ zeroed[b] = 0
        BY DEF Init
      <3> QED
        BY <3>1, <3>2, <3>3
    <2> QED
      BY <2>2, <2>3 DEF Ledger
  <1>2. TypeOK /\ TypeOK' /\ CallsHaveProviders /\ Staged /\ Ledger /\ [Next]_vars => (Staged /\ Ledger)'
    <2> SUFFICES ASSUME TypeOK, TypeOK', CallsHaveProviders, Staged, Ledger, [Next]_vars
                 PROVE  (Staged /\ Ledger)'
      OBVIOUS
    <2>1. CASE Next
      BY <2>1, LedgerStep DEF Kept
    <2>2. CASE UNCHANGED vars
      BY <2>2 DEF vars, counters, Staged, Ledger, Posts, Posted, Posters, Buckets
    <2> QED
      BY <2>1, <2>2
  <1>3. Spec => []TypeOK /\ []CallsHaveProviders
    BY InvHolds, PTL DEF Inv
  <1> QED
    BY <1>1, <1>2, <1>3, PTL DEF Spec

----------------------------------------------------------------------------
\* Whatever is called, fails, falls back or dies, calls, buckets and cost events
\* keep the values checkAndCall and BudgetService give them.
THEOREM CostTypeCorrect == Spec => []TypeOK
  BY InvHolds, PTL DEF Inv

\* However many calls look for the same override and claim it at once, one of them
\* pays with it, and while it does nobody else finds it unconsumed.
THEOREM OverridePaysOnce == Spec => []OverrideUsedOnce
  BY InvHolds, PTL DEF Inv

\* For every fallback chain, cap and price: a bucket is above its hard cap only
\* after a debit on a stale read, by an override, or for a bill above its estimate.
THEOREM CapHoldsUnlessExcused == Spec => []OverCapIsExcused
  BY InvHolds, PTL DEF Inv
\* However calls interleave, downgrade, fail or die, and whoever rolls a bucket over
\* meanwhile: it holds what the calls posted to it, less what roll-overs took out.
THEOREM SpendFollowsLedger == Spec => []SpendIsLedger
  <1>1. Ledger => SpendIsLedger
    BY LedgerIsSpend
  <1> QED
    BY <1>1, LedgerHolds, PTL

=============================================================================
