------------------------------ MODULE Campaigns ------------------------------
(***************************************************************************)
(* CampaignsService: one campaign at a time offers the contract to ranked   *)
(* buyers, each through a link of their own; the hourly sweep ends it when  *)
(* the contract is gone.  A launch is one step here; LaunchRace opens it up.*)
(***************************************************************************)
EXTENDS DealRecord

\* Ending a campaign without touching its links.
NothingRevoked == links

CurrentRevoked == links \ {"current"}

LiveCampaign == {"active", "paused", "held"}

\* prepare: from an executed contract, with no live campaign.  An earlier
\* draft is deleted first, and stays deleted when pricing or packaging then
\* refuses; its links, if a launch of it failed half way, are not revoked.
Prepare ==
    /\ NewestExecuted
    /\ campaign \notin LiveCampaign
    /\ \/ campaign' = "draft"
       \/ campaign = "draft" /\ campaign' = "none"
    /\ links' = IF links = {} THEN {} ELSE {"replaced"}
    /\ UNCHANGED <<stage, agreements, cleared, offers, assignment, file, revenue>>

\* approveAndLaunch: the gate, then a link and an email per buyer.  With at
\* least one buyer reached the campaign is active.
Launch ==
    /\ campaign = "draft"
    /\ Eligible
    /\ campaign' = "active"
    /\ links' = links \cup {"current"}
    /\ revenue' = OpenedRevenue
    /\ UNCHANGED <<stage, agreements, cleared, offers, assignment, file>>

\* An error at a later buyer releases the claim: the campaign is a draft again
\* and the links made so far stay.
LaunchFailsHalfway ==
    /\ campaign = "draft"
    /\ Eligible
    /\ links' = links \cup {"current"}
    /\ UNCHANGED <<stage, agreements, cleared, campaign, offers, assignment, file, revenue>>

\* setStatus: pause, resume behind the gate, or cancel with the links revoked.
Pause ==
    /\ campaign = "active"
    /\ campaign' = "paused"
    /\ UNCHANGED <<stage, agreements, cleared, links, offers, assignment, file, revenue>>

Resume ==
    /\ campaign \in {"paused", "held"}
    /\ Eligible
    /\ campaign' = "active"
    /\ UNCHANGED <<stage, agreements, cleared, links, offers, assignment, file, revenue>>

CancelCampaign ==
    /\ campaign \in LiveCampaign \cup {"draft"}
    /\ campaign' = "cancelled"
    /\ links' = CurrentRevoked
    /\ UNCHANGED <<stage, agreements, cleared, offers, assignment, file, revenue>>

\* expireCampaigns: the contract is gone, or the campaign's own time is up
\* unless it is held for a buyer who is signing.
SweepCampaign ==
    /\ campaign \in LiveCampaign
    /\ ContractGone \/ campaign # "held"
    /\ campaign' = "expired"
    /\ links' = CurrentRevoked
    /\ UNCHANGED <<stage, agreements, cleared, offers, assignment, file, revenue>>

CampaignsNext ==
    Prepare \/ Launch \/ LaunchFailsHalfway \/ Pause \/ Resume \/ CancelCampaign \/ SweepCampaign

=============================================================================
