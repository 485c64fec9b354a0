----------------------------- MODULE LaunchRace -----------------------------
(***************************************************************************)
(* CampaignsService at the granularity of its statements: preparing a       *)
(* draft, launching it, pausing, resuming or cancelling it, the sweep that  *)
(* ends it, and the termination of the seller contract, all of which read   *)
(* a campaign and later write it.  The buyer links each of them makes or    *)
(* revokes are Campaigns' subject and left out here.                        *)
(***************************************************************************)
EXTENDS Naturals, FiniteSets

CONSTANTS
    Campaign,     \* bound: campaigns ever prepared on the deal
    Launcher,     \* approveAndLaunch calls that may be in flight at once
    None

ASSUME NoneAssumption == None \notin Campaign

VARIABLES
    status,       \* disposition_campaigns.status
    claimed,      \* approvedAt is set
    held,         \* the seller contract is executed and may be marketed
    launcher,     \* where each launch is
    preparer,     \* where the one prepare call is
    setter,       \* where the one setStatus call is
    terminator,   \* where the one terminate call is
    sweep,        \* the campaign the hourly sweep is ending
    unreported    \* history: a launch that reached nobody failed in reporting it

rows == <<status, claimed, held>>
vars == <<rows, launcher, preparer, setter, terminator, sweep, unreported>>

\* "ended" is completed, cancelled or expired.
Status == {"none", "draft", "active", "paused", "ended", "deleted"}
Running == {"active", "paused"}

Resting == [c |-> None, at |-> "idle"]
NoChange == [c |-> None, to |-> "none", at |-> "idle"]

TypeOK ==
    /\ status \in [Campaign -> Status]
    /\ claimed \in [Campaign -> BOOLEAN]
    /\ held \in BOOLEAN
    /\ launcher \in [Launcher -> [c: Campaign \cup {None},
           at: {"idle", "claim", "send", "activate", "unclaim", "report", "release"}]]
    /\ preparer \in {"idle", "replace", "create"}
    /\ setter \in [c: Campaign \cup {None}, to: {"none", "active", "paused", "ended"},
                   at: {"idle", "write"}]
    /\ terminator \in {"idle", "campaigns"}
    /\ sweep \in [c: Campaign \cup {None}, at: {"idle", "write"}]
    /\ unreported \in BOOLEAN

Init ==
    /\ status = [c \in Campaign |-> "none"]
    /\ claimed = [c \in Campaign |-> FALSE]
    /\ held = TRUE
    /\ launcher = [l \in Launcher |-> Resting]
    /\ preparer = "idle"
    /\ setter = NoChange
    /\ terminator = "idle"
    /\ sweep = Resting
    /\ unreported = FALSE

-----------------------------------------------------------------------------
\* prepare

PrepareRead ==
    /\ preparer = "idle"
    /\ held
    /\ \A c \in Campaign : status[c] \notin Running
    /\ preparer' = "replace"
    /\ UNCHANGED <<rows, launcher, setter, terminator, sweep, unreported>>

\* The replacement without the "never one being launched" condition.
Replaced == [c \in Campaign |-> IF status[c] = "draft" THEN "deleted" ELSE status[c]]

\* An earlier draft is deleted, never one being launched.
Unclaimed ==
    [c \in Campaign |->
        IF status[c] = "draft" /\ ~claimed[c] THEN "deleted" ELSE status[c]]

PrepareReplace ==
    /\ preparer = "replace"
    /\ status' = Unclaimed
    /\ preparer' = "create"
    /\ UNCHANGED <<claimed, held, launcher, setter, terminator, sweep, unreported>>

\* Pricing or packaging may refuse; otherwise the draft is created.
PrepareCreate ==
    /\ preparer = "create"
    /\ \/ \E c \in Campaign :
             /\ status[c] = "none"
             /\ status' = [status EXCEPT ![c] = "draft"]
       \/ UNCHANGED status
    /\ preparer' = "idle"
    /\ UNCHANGED <<claimed, held, launcher, setter, terminator, sweep, unreported>>

Prepare == PrepareRead \/ PrepareReplace \/ PrepareCreate

-----------------------------------------------------------------------------
\* approveAndLaunch and launchClaimed

At(l, at) == launcher[l].at = at
Goto(l, at) == launcher' = [launcher EXCEPT ![l].at = at]
Return(l) == launcher' = [launcher EXCEPT ![l] = Resting]
Others == UNCHANGED <<preparer, setter, terminator, sweep, unreported>>

\* A draft, and the gate.
LaunchRead(l, c) ==
    /\ launcher[l] = Resting
    /\ status[c] = "draft"
    /\ held
    /\ launcher' = [launcher EXCEPT ![l] = [c |-> c, at |-> "claim"]]
    /\ UNCHANGED rows /\ Others

\* A claim that does not look for an earlier one.
WinsAnyDraft(c) == status[c] = "draft"

Wins(c) == status[c] = "draft" /\ ~claimed[c]

\* The first claim wins; a second launch is told it is under way.
LaunchClaim(l) ==
    LET c == launcher[l].c IN
    /\ At(l, "claim")
    /\ claimed' = [claimed EXCEPT ![c] = @ \/ Wins(c)]
    /\ IF Wins(c) THEN Goto(l, "send") ELSE Return(l)
    /\ UNCHANGED <<status, held>> /\ Others

\* An email per buyer: some sent, an error after some, or every one refused.
LaunchSend(l) ==
    /\ At(l, "send")
    /\ Goto(l, "activate") \/ Goto(l, "release") \/ Goto(l, "unclaim")
    /\ UNCHANGED rows /\ Others

\* release(): a draft may be launched again.
Released(c) == [claimed EXCEPT ![c] = @ /\ status[c] # "draft"]

LaunchUnclaim(l) ==
    /\ At(l, "unclaim")
    /\ claimed' = Released(launcher[l].c)
    /\ Goto(l, "report")
    /\ UNCHANGED <<status, held>> /\ Others

\* The event that says nobody was reached, and the campaign read back for the
\* answer.  If either fails, the catch releases the campaign a second time.
LaunchReport(l) ==
    /\ At(l, "report")
    /\ \/ Return(l) /\ UNCHANGED unreported
       \/ Goto(l, "release") /\ unreported' = TRUE
    /\ UNCHANGED <<rows, preparer, setter, terminator, sweep>>

LaunchRelease(l) ==
    /\ At(l, "release")
    /\ claimed' = Released(launcher[l].c)
    /\ Return(l)
    /\ UNCHANGED <<status, held>> /\ Others

\* "update where id": whatever became of the campaign meanwhile, unless it was
\* deleted, and then the update throws.
LaunchActivate(l) ==
    LET c == launcher[l].c IN
    /\ At(l, "activate")
    /\ IF status[c] = "deleted"
       THEN Goto(l, "release") /\ UNCHANGED <<status, claimed>>
       ELSE /\ status' = [status EXCEPT ![c] = "active"]
            /\ claimed' = [claimed EXCEPT ![c] = TRUE]
            /\ Return(l)
    /\ UNCHANGED held /\ Others

\* The API stops in the middle of a launch; the claim stays.
LaunchDies(l) ==
    /\ launcher[l] # Resting
    /\ Return(l)
    /\ UNCHANGED rows /\ Others

Launch(l) ==
    \/ \E c \in Campaign : LaunchRead(l, c)
    \/ LaunchClaim(l)
    \/ LaunchSend(l)
    \/ LaunchUnclaim(l)
    \/ LaunchReport(l)
    \/ LaunchRelease(l)
    \/ LaunchActivate(l)
    \/ LaunchDies(l)

-----------------------------------------------------------------------------
\* setStatus

AllowedChange(from) ==
    CASE from = "active" -> {"paused", "ended"}
      [] from = "paused" -> {"active", "ended"}
      [] from = "draft"  -> {"ended"}
      [] OTHER           -> {}

SetRead(c, to) ==
    /\ setter = NoChange
    /\ to \in AllowedChange(status[c])
    /\ to = "active" => held
    /\ setter' = [c |-> c, to |-> to, at |-> "write"]
    /\ UNCHANGED <<rows, launcher, preparer, terminator, sweep, unreported>>

\* "update where id" throws on a campaign deleted meanwhile.
SetWrite ==
    /\ setter.at = "write"
    /\ status' = [status EXCEPT ![setter.c] = IF @ = "deleted" THEN @ ELSE setter.to]
    /\ setter' = NoChange
    /\ UNCHANGED <<claimed, held, launcher, preparer, terminator, sweep, unreported>>

SetStatus == (\E c \in Campaign, to \in {"active", "paused", "ended"} : SetRead(c, to))
                 \/ SetWrite

-----------------------------------------------------------------------------
\* PurchaseAgreementsService.terminate

TerminateContract ==
    /\ terminator = "idle"
    /\ held
    /\ held' = FALSE
    /\ terminator' = "campaigns"
    /\ UNCHANGED <<status, claimed, launcher, preparer, setter, sweep, unreported>>

TerminateCampaigns ==
    /\ terminator = "campaigns"
    /\ status' = [c \in Campaign |->
           IF status[c] \in Running \cup {"draft"} THEN "ended" ELSE status[c]]
    /\ terminator' = "idle"
    /\ UNCHANGED <<claimed, held, launcher, preparer, setter, sweep, unreported>>

\* A new contract is executed and verified.
Recontract ==
    /\ terminator = "idle"
    /\ ~held
    /\ held' = TRUE
    /\ UNCHANGED <<status, claimed, launcher, preparer, setter, terminator, sweep, unreported>>

Contract == TerminateContract \/ TerminateCampaigns \/ Recontract

-----------------------------------------------------------------------------
\* expireCampaigns

\* The campaigns the sweep looks at, paused ones forgotten.
SweptActive(c) == status[c] = "active"

Swept(c) == status[c] \in Running

\* The contract behind a running campaign is gone.
SweepGone(c) ==
    /\ sweep = Resting
    /\ Swept(c)
    /\ ~held
    /\ sweep' = [c |-> c, at |-> "write"]
    /\ UNCHANGED <<rows, launcher, preparer, setter, terminator, unreported>>

\* The campaign's own time is up.
SweepTimeUp(c) ==
    /\ sweep = Resting
    /\ Swept(c)
    /\ sweep' = [c |-> c, at |-> "write"]
    /\ UNCHANGED <<rows, launcher, preparer, setter, terminator, unreported>>

SweepWrite ==
    /\ sweep.at = "write"
    /\ status' = [status EXCEPT ![sweep.c] = "ended"]
    /\ sweep' = Resting
    /\ UNCHANGED <<claimed, held, launcher, preparer, setter, terminator, unreported>>

Sweep == (\E c \in Campaign : SweepGone(c) \/ SweepTimeUp(c)) \/ SweepWrite

-----------------------------------------------------------------------------

Next ==
    \/ Prepare
    \/ \E l \in Launcher : Launch(l)
    \/ SetStatus
    \/ Contract
    \/ Sweep

Spec == Init /\ [][Next]_vars

\* The sweep runs every hour and takes up every running campaign; nothing else
\* is sure to happen.
FairSpec ==
    /\ Spec
    /\ \A c \in Campaign : WF_vars(SweepGone(c))
    /\ WF_vars(SweepWrite)

-----------------------------------------------------------------------------

Sending(l) == launcher[l].at \in {"send", "activate"}

\* "One launch per campaign, even on a double click or two people at once":
\* two launches never send the same campaign at the same time, through every
\* claim, failed send, release and relaunch, as long as a launch that reached
\* nobody can write its event and read the campaign back (the catch releases a
\* second time otherwise).
OneLaunch ==
    unreported \/ \A l, m \in Launcher :
        Sending(l) /\ Sending(m) /\ launcher[l].c = launcher[m].c => l = m

\* "A fresh preparation replaces an earlier draft (never one being launched)",
\* under the same condition.
LaunchingIsNotReplaced ==
    unreported \/ \A l \in Launcher : Sending(l) => status[launcher[l].c] # "deleted"

\* Once the contract is gone for good, marketing stops for good: the sweep
\* catches every campaign that a launch, a resume or a pause in flight brings
\* back over the termination.
MarketingStops ==
    <>[]~held => <>[](\A c \in Campaign : status[c] \notin Running)

=============================================================================
