-------------------------- MODULE MarketActivation --------------------------
(***************************************************************************)
(* How far a market may operate: the self-test, the status a person asks    *)
(* for with the campaigns a lower one pauses, the nationwide decision, the  *)
(* licence the policy requires, and a campaign that asks the market's leave *)
(* and starts later.                                                        *)
(***************************************************************************)
EXTENDS MarketRecord

TestOnly == UNCHANGED <<reviewVars, activationVars, template, licence>>

StatusOnly == UNCHANGED <<reviewVars, configVars, nationwide>>

Lowered == {"research", "acquisition", "restricted"}

\* selfTest reads the approved policy, or the draft when nothing is approved,
\* and the template in force; rendering and checking take a while.
TestRead(c) ==
    /\ \E v \in 0..MaxTemplate :
          /\ InForce(v)
          /\ Start(c, [Idle EXCEPT !.at = "test", !.text = Len(policy), !.n = v])
    /\ UNCHANGED <<test, fresh, crossed, unmarked>> /\ TestOnly

\* The result is stamped with the time of the write: whatever was marked while
\* it ran counts as tested.  An approval read before keeps its older time.
TestStamp(c, ok) ==
    /\ At(c, "test")
    /\ ok => call[c].n # 0
    /\ test' = [passed |-> ok, policy |-> call[c].text, template |-> call[c].n]
    /\ fresh' = TRUE
    /\ crossed' = (call[c].text # Len(policy) \/ ~InForce(call[c].n))
    /\ unmarked' = FALSE
    /\ call' = [d \in Call |->
           IF d = c THEN Idle
           ELSE IF call[d].at \in {"approve", "accept"} THEN [call[d] EXCEPT !.yes = TRUE]
           ELSE call[d]]
    /\ TestOnly

\* setOperator marks by the statement that writes the operator.
setOperator ==
    /\ fresh' = FALSE
    /\ UNCHANGED <<test, crossed, unmarked, call>> /\ TestOnly

-----------------------------------------------------------------------------
\* The status a person asks for

\* A rung above what is supported is refused; a restriction never is.  Under a
\* nationwide decision the market supports everything, unless it is restricted.
Supported(target) ==
    \/ nationwide /\ requested # "restricted"
    \/ ladderRank[maxStatus] >= ladderRank[target]

SetStatusRead(c, target) ==
    /\ Supported(target)
    /\ Start(c, [Idle EXCEPT !.at = "set", !.to = target])
    /\ UNCHANGED <<requested, campaign, late>> /\ StatusOnly

\* Only a stop pauses campaigns.
PausesWhenStopped(target) == target \in {"research", "restricted"}

\* RESTRICTED, BLOCKED and anything below disposition pause campaigns.
Pauses(target) == target \in Lowered

SetStatusWrite(c) ==
    /\ At(c, "set")
    /\ requested' = call[c].to
    /\ call' = [call EXCEPT ![c] =
           IF Pauses(call[c].to) THEN [Idle EXCEPT !.at = "pause"] ELSE Idle]
    /\ UNCHANGED <<campaign, late>> /\ StatusOnly

pauseCampaigns(c) ==
    /\ At(c, "pause")
    /\ campaign' = IF campaign = "active" THEN "paused" ELSE campaign
    /\ late' = FALSE
    /\ Return(c)
    /\ UNCHANGED requested /\ StatusOnly

\* approveAndLaunch and resume ask the gate first and write "active" later.
LaunchRead(c) ==
    /\ MarketingAllowed
    /\ campaign # "active"
    /\ Start(c, [Idle EXCEPT !.at = "launch"])
    /\ UNCHANGED <<requested, campaign, late>> /\ StatusOnly

LaunchWrite(c) ==
    /\ At(c, "launch")
    /\ campaign' = "active"
    /\ late' = (requested \in Lowered \/ late)
    /\ Return(c)
    /\ UNCHANGED requested /\ StatusOnly

\* A person pauses the campaign, or the sale ends it.
CampaignStops ==
    /\ campaign = "active"
    /\ campaign' = "paused"
    /\ late' = FALSE
    /\ UNCHANGED <<requested, call>> /\ StatusOnly

openNationwide ==
    /\ nationwide' = TRUE
    /\ UNCHANGED <<reviewVars, configVars, requested, campaign, late, call>>

\* Every state returns to its own approval; no campaign is paused.
closeNationwide ==
    /\ nationwide
    /\ nationwide' = FALSE
    /\ UNCHANGED <<reviewVars, configVars, requested, campaign, late, call>>

-----------------------------------------------------------------------------
\* The licence; every change marks the market in a second statement.

LicenceOnly == UNCHANGED <<reviewVars, activationVars, template, test, fresh, crossed, unmarked>>

createAuthorization(c) ==
    /\ At(c, "idle")
    /\ licence.status = "none"
    /\ licence' = [status |-> "pending", verified |-> FALSE, lapsed |-> FALSE]
    /\ ThenMark(c, TRUE)
    /\ LicenceOnly

UpdateRead(c) ==
    /\ licence.status # "none"
    /\ Start(c, [Idle EXCEPT !.at = "renew", !.yes = licence.verified])
    /\ UNCHANGED licence /\ LicenceOnly

\* A verified record that changes must be verified again, a revoked one too.
UpdateWrite(c, renewed) ==
    /\ At(c, "renew")
    /\ licence' = [status |-> IF call[c].yes THEN "pending" ELSE licence.status,
                   verified |-> licence.verified /\ ~call[c].yes,
                   lapsed |-> licence.lapsed /\ ~renewed]
    /\ ThenMark(c, TRUE)
    /\ LicenceOnly

VerifyRead(c) ==
    /\ licence.status \notin {"none", "revoked"}
    /\ ~licence.lapsed
    /\ Start(c, [Idle EXCEPT !.at = "verify"])
    /\ UNCHANGED licence /\ LicenceOnly

VerifyWrite(c) ==
    /\ At(c, "verify")
    /\ licence' = [licence EXCEPT !.status = "active", !.verified = TRUE]
    /\ ThenMark(c, TRUE)
    /\ LicenceOnly

revokeAuthorization(c) ==
    /\ At(c, "idle")
    /\ licence.status # "none"
    /\ licence' = [licence EXCEPT !.status = "revoked"]
    /\ ThenMark(c, TRUE)
    /\ LicenceOnly

LicenceLapses ==
    /\ licence.status # "none" /\ ~licence.lapsed
    /\ licence' = [licence EXCEPT !.lapsed = TRUE]
    /\ UNCHANGED call /\ LicenceOnly

\* An error or a restart ends a call wherever it is.  A change then stays
\* unmarked, and a campaign that should have been paused keeps running.
GiveUp(c) ==
    /\ ~At(c, "idle")
    /\ unmarked' = (unmarked \/ At(c, "mark"))
    /\ late' = (late \/ (At(c, "pause") /\ campaign = "active"))
    /\ Return(c)
    /\ UNCHANGED <<reviewVars, template, licence, test, fresh, crossed,
                   requested, nationwide, campaign>>

TestsNext == \/ \E c \in Call : TestRead(c) \/ \E ok \in BOOLEAN : TestStamp(c, ok)
             \/ setOperator

StatusNext ==
    \/ \E c \in Call :
        \/ \E target \in Requests : SetStatusRead(c, target)
        \/ SetStatusWrite(c) \/ pauseCampaigns(c)
        \/ LaunchRead(c) \/ LaunchWrite(c)
    \/ CampaignStops \/ openNationwide \/ closeNationwide

LicenceNext ==
    \/ \E c \in Call :
        \/ createAuthorization(c)
        \/ UpdateRead(c) \/ \E renewed \in BOOLEAN : UpdateWrite(c, renewed)
        \/ VerifyRead(c) \/ VerifyWrite(c)
        \/ revokeAuthorization(c)
    \/ LicenceLapses

=============================================================================
