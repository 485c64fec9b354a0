-------------------------- MODULE LaunchRaceProofs --------------------------
(***************************************************************************)
(* Theorems about LaunchRace, for any sets of campaigns and launches: the   *)
(* claim on a campaign is held by one launch at a time, and no preparation  *)
(* replaces a campaign that is being launched.                              *)
(***************************************************************************)
EXTENDS LaunchRace, TLAPS

\* From its claim to its release or its activation, a launch holds the campaign.
Holding(l) == launcher[l].at \in {"send", "activate", "unclaim", "release"}

OnACampaign == \A l \in Launcher : launcher[l].at # "idle" => launcher[l].c \in Campaign

\* A campaign that is held is claimed, and was not replaced.
HeldIsClaimed ==
    \A l \in Launcher : Holding(l) =>
        claimed[launcher[l].c] /\ status[launcher[l].c] # "deleted"

HeldByOne ==
    \A l, m \in Launcher : Holding(l) /\ Holding(m) /\ launcher[l].c = launcher[m].c => l = m

CallType == [c: Campaign \cup {None},
             at: {"idle", "claim", "send", "activate", "unclaim", "report", "release"}]

\* Once a launch released its claim twice, nothing is promised any more.
Claims == unreported \/ (HeldIsClaimed /\ HeldByOne)

IInv == TypeOK /\ OnACampaign /\ Claims

-----------------------------------------------------------------------------

\* Rows and calls of the initial state.
LEMMA InitInv == Init => IInv
<1> SUFFICES ASSUME Init PROVE IInv
  OBVIOUS
<1>1. launcher \in [Launcher -> CallType]
  BY DEF Init, Resting, CallType
<1>2. TypeOK
  BY <1>1 DEF Init, TypeOK, Resting, NoChange, Status, CallType
<1>3. \A l \in Launcher : launcher[l].at = "idle"
  BY DEF Init, Resting
<1>4. OnACampaign /\ Claims
  BY <1>3 DEF OnACampaign, Claims, HeldIsClaimed, HeldByOne, Holding
<1>5. QED BY <1>2, <1>4 DEF IInv

\* A step that leaves the launches where they are, keeps every claim and
\* deletes no claimed campaign.
LEMMA ClaimsKept ==
  ASSUME IInv, UNCHANGED <<launcher, claimed, unreported>>,
         \A c \in Campaign : status'[c] = "deleted" =>
             status[c] = "deleted" \/ ~claimed[c]
  PROVE  OnACampaign' /\ Claims'
  BY DEF IInv, OnACampaign, Claims, HeldIsClaimed, HeldByOne, Holding

\* Preparing a draft.
LEMMA PrepareInv == ASSUME IInv, Prepare PROVE IInv'
<1>1. TypeOK'
  BY DEF IInv, TypeOK, Prepare, PrepareRead, PrepareReplace, PrepareCreate, Unclaimed, Status, rows
<1>2. UNCHANGED <<launcher, claimed, unreported>>
  BY DEF Prepare, PrepareRead, PrepareReplace, PrepareCreate, rows
<1>3. ASSUME NEW c \in Campaign, status'[c] = "deleted"
      PROVE  status[c] = "deleted" \/ ~claimed[c]
  BY <1>3 DEF IInv, TypeOK, Prepare, PrepareRead, PrepareReplace, PrepareCreate, Unclaimed,
              Status, rows
<1>4. QED BY <1>1, <1>2, <1>3, ClaimsKept DEF IInv

\* setStatus, the termination and the sweep delete nothing and claim nothing.
LEMMA OthersInv == ASSUME IInv, SetStatus \/ Contract \/ Sweep PROVE IInv'
<1>1. CASE SetStatus
  <2>1. TypeOK'
    BY <1>1 DEF IInv, TypeOK, SetStatus, SetRead, SetWrite, NoChange, Status, rows
  <2>2. UNCHANGED <<launcher, claimed, unreported>>
    BY <1>1 DEF SetStatus, SetRead, SetWrite, rows
  <2>3. ASSUME NEW c \in Campaign, status'[c] = "deleted" PROVE status[c] = "deleted"
    BY <1>1, <2>3 DEF IInv, TypeOK, SetStatus, SetRead, SetWrite, rows
  <2>4. QED BY <2>1, <2>2, <2>3, ClaimsKept DEF IInv
<1>2. CASE Contract
  <2>1. status' \in [Campaign -> Status] /\ held' \in BOOLEAN
    <3>1. status \in [Campaign -> Status] /\ held \in BOOLEAN
      BY DEF IInv, TypeOK
    <3>2. CASE TerminateCampaigns
      BY <3>1, <3>2 DEF TerminateCampaigns, Status
    <3>3. CASE TerminateContract \/ Recontract
      BY <3>1, <3>3 DEF TerminateContract, Recontract
    <3>4. QED BY <1>2, <3>2, <3>3 DEF Contract
  <2>2. terminator' \in {"idle", "campaigns"}
    BY <1>2 DEF IInv, TypeOK, Contract, TerminateContract, TerminateCampaigns, Recontract
  <2>3. UNCHANGED <<launcher, claimed, unreported, preparer, setter, sweep>>
    BY <1>2 DEF Contract, TerminateContract, TerminateCampaigns, Recontract
  <2>4. TypeOK'
    BY <2>1, <2>2, <2>3 DEF IInv, TypeOK
  <2>5. ASSUME NEW c \in Campaign, status'[c] = "deleted" PROVE status[c] = "deleted"
    BY <1>2, <2>5 DEF Contract, TerminateContract, TerminateCampaigns, Recontract
  <2>6. QED BY <2>3, <2>4, <2>5, ClaimsKept DEF IInv
<1>3. CASE Sweep
  <2>1. TypeOK'
    BY <1>3 DEF IInv, TypeOK, Sweep, SweepGone, SweepTimeUp, SweepWrite, Resting, Status, rows
  <2>2. UNCHANGED <<launcher, claimed, unreported>>
    BY <1>3 DEF Sweep, SweepGone, SweepTimeUp, SweepWrite, rows
  <2>3. ASSUME NEW c \in Campaign, status'[c] = "deleted" PROVE status[c] = "deleted"
    BY <1>3, <2>3 DEF IInv, TypeOK, Sweep, SweepGone, SweepTimeUp, SweepWrite, rows
  <2>4. QED BY <2>1, <2>2, <2>3, ClaimsKept DEF IInv
<1>4. QED BY <1>1, <1>2, <1>3

\* Where a launch that moves on, or returns, is afterwards.
LEMMA Moved ==
  ASSUME IInv, NEW l \in Launcher, launcher[l].at # "idle",
         NEW to \in {"send", "activate", "unclaim", "report", "release"},
         Goto(l, to) \/ Return(l)
  PROVE  /\ launcher' \in [Launcher -> CallType]
         /\ OnACampaign'
         /\ \A m \in Launcher \ {l} : launcher'[m] = launcher[m]
         /\ launcher'[l].at # "idle" =>
                launcher'[l].at = to /\ launcher'[l].c = launcher[l].c
<1>1. launcher \in [Launcher -> CallType] /\ launcher[l].c \in Campaign
  BY DEF IInv, TypeOK, OnACampaign, CallType
<1>2. CASE Goto(l, to)
  <2>1. launcher' = [launcher EXCEPT ![l] = [@ EXCEPT !.at = to]]
    BY <1>2 DEF Goto
  <2>2. /\ [launcher[l] EXCEPT !.at = to] \in CallType
        /\ [launcher[l] EXCEPT !.at = to].at = to
        /\ [launcher[l] EXCEPT !.at = to].c = launcher[l].c
    BY <1>1 DEF CallType
  <2>3. /\ launcher' \in [Launcher -> CallType]
        /\ launcher'[l] = [launcher[l] EXCEPT !.at = to]
        /\ \A m \in Launcher \ {l} : launcher'[m] = launcher[m]
    BY <1>1, <2>1, <2>2
  <2>4. QED BY <1>1, <2>2, <2>3 DEF IInv, OnACampaign
<1>3. CASE Return(l)
  <2>1. /\ launcher' \in [Launcher -> CallType]
        /\ launcher'[l].at = "idle"
        /\ \A m \in Launcher \ {l} : launcher'[m] = launcher[m]
    BY <1>1, <1>3 DEF Return, Resting, CallType
  <2>2. QED BY <2>1 DEF IInv, OnACampaign
<1>4. QED BY <1>2, <1>3

\* A step of a launch: it claims, sends, releases or activates.
LEMMA LaunchInv == ASSUME IInv, NEW l \in Launcher, Launch(l) PROVE IInv'
<1> USE DEF rows, Others
<1>1. CASE \E c \in Campaign : LaunchRead(l, c)
  <2>1. PICK c \in Campaign : LaunchRead(l, c)
    BY <1>1
  <2>2. TypeOK' /\ OnACampaign'
    BY <2>1 DEF IInv, TypeOK, OnACampaign, LaunchRead
  <2>3. Claims'
    BY <2>1 DEF IInv, TypeOK, Claims, HeldIsClaimed, HeldByOne, Holding, LaunchRead
  <2>4. QED BY <2>2, <2>3 DEF IInv
<1>2. CASE LaunchClaim(l)
  <2> DEFINE c == launcher[l].c
  <2>1. launcher[l].at # "idle" /\ c \in Campaign
    BY <1>2 DEF IInv, OnACampaign, LaunchClaim, At
  <2>2. Goto(l, "send") \/ Return(l)
    BY <1>2 DEF LaunchClaim
  <2>3. /\ launcher' \in [Launcher -> CallType]
        /\ OnACampaign'
        /\ \A m \in Launcher \ {l} : launcher'[m] = launcher[m]
        /\ launcher'[l].at # "idle" => launcher'[l].at = "send" /\ launcher'[l].c = c
    BY <2>1, <2>2, Moved
  <2>4. claimed' \in [Campaign -> BOOLEAN] /\ \A d \in Campaign : claimed[d] => claimed'[d]
    BY <1>2 DEF IInv, TypeOK, LaunchClaim
  <2>5. TypeOK'
    BY <1>2, <2>3, <2>4 DEF IInv, TypeOK, LaunchClaim, CallType
  <2>6. CASE Wins(c) /\ ~unreported
    <3>1. \A m \in Launcher : Holding(m) => launcher[m].c # c
      BY <2>6 DEF IInv, Claims, HeldIsClaimed, Wins
    <3>2. claimed'[c] /\ status[c] = "draft" /\ UNCHANGED status
      BY <1>2, <2>1, <2>6 DEF IInv, TypeOK, LaunchClaim, Wins
    <3>3. \A m \in Launcher \ {l} : Holding(m)' => Holding(m) /\ launcher'[m] = launcher[m]
      BY <2>3 DEF Holding
    <3>4. Holding(l)' => launcher'[l].c = c
      BY <2>3 DEF Holding
    <3>5. HeldByOne'
      BY <3>1, <3>3, <3>4, <2>6 DEF IInv, Claims, HeldByOne
    <3>6. \A m \in Launcher \ {l} : Holding(m) => launcher[m].c \in Campaign
      BY DEF IInv, OnACampaign, Holding
    <3>7. HeldIsClaimed'
      BY <3>2, <3>3, <3>4, <3>6, <2>4, <2>6 DEF IInv, Claims, HeldIsClaimed
    <3>8. QED BY <3>5, <3>7, <2>3, <2>5 DEF IInv, Claims
  <2>7. CASE ~Wins(c) /\ ~unreported
    <3>1. Return(l) /\ UNCHANGED status
      BY <1>2, <2>7 DEF LaunchClaim
    <3>2. ~Holding(l)'
      BY <3>1 DEF IInv, TypeOK, Holding, Return, Resting
    <3>3. \A m \in Launcher : Holding(m)' => m # l /\ Holding(m) /\ launcher'[m] = launcher[m]
      BY <2>3, <3>2 DEF Holding
    <3>4. \A m \in Launcher : Holding(m) => launcher[m].c \in Campaign
      BY DEF IInv, OnACampaign, Holding
    <3>5. HeldByOne' /\ HeldIsClaimed'
      BY <3>1, <3>3, <3>4, <2>4, <2>7 DEF IInv, Claims, HeldByOne, HeldIsClaimed
    <3>6. QED BY <3>5, <2>3, <2>5 DEF IInv, Claims
  <2>8. CASE unreported
    <3>1. unreported'
      BY <1>2, <2>8 DEF LaunchClaim
    <3>2. QED BY <2>3, <2>5, <3>1 DEF IInv, Claims
  <2>9. QED BY <2>6, <2>7, <2>8
<1>3. CASE LaunchSend(l)
  <2>1. launcher[l].at = "send"
    BY <1>3 DEF LaunchSend, At
  <2>2. PICK to \in {"activate", "release", "unclaim"} : Goto(l, to)
    BY <1>3 DEF LaunchSend
  <2>3. /\ launcher' \in [Launcher -> CallType]
        /\ OnACampaign'
        /\ \A m \in Launcher \ {l} : launcher'[m] = launcher[m]
        /\ launcher'[l].at # "idle" => launcher'[l].at = to /\ launcher'[l].c = launcher[l].c
    BY <2>1, <2>2, Moved
  <2>4. UNCHANGED <<rows, preparer, setter, terminator, sweep, unreported>>
    BY <1>3 DEF LaunchSend
  <2>5. TypeOK'
    BY <2>3, <2>4 DEF IInv, TypeOK, CallType
  <2>6. \A m \in Launcher : Holding(m)' => Holding(m) /\ launcher'[m].c = launcher[m].c
    BY <2>1, <2>3 DEF Holding
  <2>7. Claims'
    BY <2>4, <2>6 DEF IInv, Claims, HeldIsClaimed, HeldByOne
  <2>8. QED BY <2>3, <2>5, <2>7 DEF IInv
<1>4. CASE LaunchUnclaim(l) \/ LaunchRelease(l)
  <2> DEFINE c == launcher[l].c
  <2>1. launcher[l].at # "idle" /\ c \in Campaign /\ Holding(l)
    BY <1>4 DEF IInv, OnACampaign, LaunchUnclaim, LaunchRelease, At, Holding
  <2>2. claimed' = Released(c) /\ UNCHANGED <<status, held, unreported, preparer, setter,
                                              terminator, sweep>>
    BY <1>4 DEF LaunchUnclaim, LaunchRelease
  <2>3. Goto(l, "report") \/ Return(l)
    BY <1>4 DEF LaunchUnclaim, LaunchRelease
  <2>4. /\ launcher' \in [Launcher -> CallType]
        /\ OnACampaign'
        /\ \A m \in Launcher \ {l} : launcher'[m] = launcher[m]
        /\ launcher'[l].at # "idle" => launcher'[l].at = "report"
    BY <2>1, <2>3, Moved
  <2>5. TypeOK'
    BY <2>2, <2>4 DEF IInv, TypeOK, Released, CallType
  <2>6. CASE unreported
    BY <2>2, <2>4, <2>5, <2>6 DEF IInv, Claims
  <2>7. CASE ~unreported
    <3>1. \A m \in Launcher \ {l} : Holding(m) => launcher[m].c # c
      BY <2>1, <2>7 DEF IInv, Claims, HeldByOne
    <3>2. \A d \in Campaign \ {c} : claimed'[d] = claimed[d]
      BY <2>2 DEF IInv, TypeOK, Released
    <3>3. \A m \in Launcher : Holding(m)' => m # l /\ Holding(m) /\ launcher'[m] = launcher[m]
      BY <2>4 DEF Holding
    <3>4. HeldByOne'
      BY <3>3, <2>7 DEF IInv, Claims, HeldByOne
    <3>5. \A m \in Launcher : Holding(m) => launcher[m].c \in Campaign
      BY DEF IInv, OnACampaign, Holding
    <3>6. HeldIsClaimed'
      BY <3>1, <3>2, <3>3, <3>5, <2>2, <2>7 DEF IInv, Claims, HeldIsClaimed
    <3>7. QED BY <3>4, <3>6, <2>4, <2>5 DEF IInv, Claims
  <2>8. QED BY <2>6, <2>7
<1>5. CASE LaunchReport(l)
  <2>1. launcher[l].at = "report"
    BY <1>5 DEF LaunchReport, At
  <2>2. Goto(l, "release") \/ Return(l)
    BY <1>5 DEF LaunchReport
  <2>3. /\ launcher' \in [Launcher -> CallType]
        /\ OnACampaign'
        /\ \A m \in Launcher \ {l} : launcher'[m] = launcher[m]
    BY <2>1, <2>2, Moved
  <2>4. UNCHANGED <<rows, preparer, setter, terminator, sweep>> /\ unreported' \in {unreported, TRUE}
    BY <1>5 DEF LaunchReport
  <2>5. TypeOK'
    BY <2>3, <2>4 DEF IInv, TypeOK, CallType
  <2>6. CASE unreported'
    BY <2>3, <2>5, <2>6 DEF IInv, Claims
  <2>7. CASE ~unreported'
    <3>1. Return(l) /\ ~unreported
      BY <1>5, <2>7, <2>4 DEF LaunchReport
    <3>2. ~Holding(l)'
      BY <3>1 DEF IInv, TypeOK, Holding, Return, Resting
    <3>3. \A m \in Launcher : Holding(m)' => m # l /\ Holding(m) /\ launcher'[m] = launcher[m]
      BY <2>3, <3>2 DEF Holding
    <3>4. HeldByOne' /\ HeldIsClaimed'
      BY <3>1, <3>3, <2>4 DEF IInv, Claims, HeldByOne, HeldIsClaimed
    <3>5. QED BY <3>4, <2>3, <2>5 DEF IInv, Claims
  <2>8. QED BY <2>6, <2>7
<1>6. CASE LaunchActivate(l)
  <2> DEFINE c == launcher[l].c
  <2>1. launcher[l].at = "activate" /\ c \in Campaign /\ Holding(l)
    BY <1>6 DEF IInv, OnACampaign, LaunchActivate, At, Holding
  <2>2. Goto(l, "release") \/ Return(l)
    BY <1>6 DEF LaunchActivate
  <2>3. /\ launcher' \in [Launcher -> CallType]
        /\ OnACampaign'
        /\ \A m \in Launcher \ {l} : launcher'[m] = launcher[m]
        /\ launcher'[l].at # "idle" => launcher'[l].at = "release" /\ launcher'[l].c = c
    BY <2>1, <2>2, Moved
  <2>4. /\ status' \in [Campaign -> Status]
        /\ claimed' \in [Campaign -> BOOLEAN]
        /\ \A d \in Campaign : claimed[d] => claimed'[d]
        /\ \A d \in Campaign : status'[d] = "deleted" => status[d] = "deleted"
        /\ UNCHANGED <<held, preparer, setter, terminator, sweep, unreported>>
    BY <1>6, <2>1 DEF IInv, TypeOK, LaunchActivate, Status
  <2>5. TypeOK'
    BY <2>3, <2>4 DEF IInv, TypeOK, CallType
  <2>6. \A m \in Launcher : Holding(m)' => Holding(m) /\ launcher'[m].c = launcher[m].c
    BY <2>1, <2>3 DEF Holding
  <2>7. \A m \in Launcher : Holding(m) => launcher[m].c \in Campaign
    BY DEF IInv, OnACampaign, Holding
  <2>8. Claims'
    BY <2>4, <2>6, <2>7 DEF IInv, Claims, HeldIsClaimed, HeldByOne
  <2>9. QED BY <2>3, <2>5, <2>8 DEF IInv
<1>7. CASE LaunchDies(l)
  <2>1. launcher' = [launcher EXCEPT ![l] = Resting]
    BY <1>7 DEF LaunchDies, Return
  <2>2. TypeOK' /\ OnACampaign'
    BY <1>7, <2>1 DEF IInv, TypeOK, OnACampaign, LaunchDies, Resting
  <2>3. Claims'
    BY <1>7, <2>1 DEF IInv, TypeOK, Claims, HeldIsClaimed, HeldByOne, Holding, LaunchDies, Resting
  <2>4. QED BY <2>2, <2>3 DEF IInv
<1>8. QED BY <1>1, <1>2, <1>3, <1>4, <1>5, <1>6, <1>7 DEF Launch

\* Every step.
LEMMA StepInv == IInv /\ [Next]_vars => IInv'
<1> SUFFICES ASSUME IInv, [Next]_vars PROVE IInv'
  OBVIOUS
<1>1. CASE UNCHANGED vars
  BY <1>1 DEF IInv, TypeOK, OnACampaign, Claims, HeldIsClaimed, HeldByOne, Holding, vars, rows
<1>2. CASE Prepare
  BY <1>2, PrepareInv
<1>3. CASE \E l \in Launcher : Launch(l)
  BY <1>3, LaunchInv
<1>4. CASE SetStatus \/ Contract \/ Sweep
  BY <1>4, OthersInv
<1>5. QED BY <1>1, <1>2, <1>3, <1>4 DEF Next

LEMMA Invariant == Spec => []IInv
  BY InitInv, StepInv, PTL DEF Spec

-----------------------------------------------------------------------------

\* Every reachable state is made of values the columns and calls can hold, for
\* any number of campaigns and launches.
THEOREM LaunchTypeCorrect == Spec => []TypeOK
<1>1. IInv => TypeOK
  BY DEF IInv
<1>2. QED BY <1>1, Invariant, PTL

\* Two launches never send one campaign at the same time, however many there
\* are, as long as a launch that reached nobody does not fail in reporting it.
THEOREM OneLaunchPerCampaign == Spec => []OneLaunch
<1>1. IInv => OneLaunch
  BY DEF IInv, Claims, HeldByOne, OneLaunch, Sending, Holding
<1>2. QED BY <1>1, Invariant, PTL

\* No preparation replaces a campaign that is being sent.
THEOREM LaunchesSurvivePreparation == Spec => []LaunchingIsNotReplaced
<1>1. IInv => LaunchingIsNotReplaced
  BY DEF IInv, Claims, HeldIsClaimed, LaunchingIsNotReplaced, Sending, Holding
<1>2. QED BY <1>1, Invariant, PTL

=============================================================================
