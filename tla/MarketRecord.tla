---------------------------- MODULE MarketRecord ----------------------------
(***************************************************************************)
(* One market of one account: its draft policy, the approved versions, the  *)
(* template its contracts are made from, the licence its policy asks for,   *)
(* the self-test, what a person asked for, and the campaign of one deal     *)
(* there.  Every handler reads the market first and writes by id later, so  *)
(* each call in flight keeps what it read.                                  *)
(***************************************************************************)
EXTENDS Naturals, Sequences, FiniteSets

CONSTANTS
    Call,          \* bound: calls of the API in flight at once
    MaxText,       \* bound: texts ever written into the draft
    MaxPolicy,     \* bound: policy versions
    MaxTemplate    \* bound: versions of the template

ASSUME BoundAssumption ==
    /\ MaxText \in Nat \ {0}
    /\ MaxPolicy \in Nat \ {0}
    /\ MaxTemplate \in Nat \ {0}

VARIABLES
    draft,         \* markets.draft and draftStatus
    written,       \* texts written so far; text 1 is the bundled research
    policy,        \* market_policy_versions; the last is approvedVersionId
    lapsed,        \* reviewExpiresAt of the last version has passed
    template,      \* document_template_versions, and whether each is for this market
    licence,       \* market_authorizations: the one the policy requires
    test,          \* the last self-test and what it tested
    fresh,         \* configChangedAt is not after selfTestAt
    requested,     \* markets.requestedStatus
    nationwide,    \* control_plane.nationwideOpenedAt is set
    campaign,      \* disposition_campaigns.status of a deal in this market
    call,          \* where each call is, and what it read
    reviewed,      \* history: texts that were submitted to counsel
    slipped,       \* history: texts put into a draft counsel had, unseen
    crossed,       \* history: what the last test tested had changed when it was stamped
    unmarked,      \* history: something changed since, and nothing marked the market
    late           \* history: the campaign was started, or left running by a call that
                   \* failed, when the request was already lowered

vars == <<draft, written, policy, lapsed, template, licence, test, fresh, requested,
          nationwide, campaign, call, reviewed, slipped, crossed, unmarked, late>>

Text == 1..MaxText
Version == 1..MaxTemplate

\* "research" is every rung below the first approval; RESTRICTED and BLOCKED,
\* one here, are not on the ladder and rank below it.
ladderRank == [restricted |-> 0, research |-> 1, acquisition |-> 2, disposition |-> 3, active |-> 4]
Requests == {"restricted", "research", "acquisition", "disposition", "active"}

TemplateStatus == {"none", "draft", "validated", "approved", "retired"}

Idle == [at |-> "idle", text |-> 0, n |-> 0, yes |-> FALSE, olds |-> {}, to |-> "research"]

Places == {"idle", "write", "import", "submit", "return", "approve", "accept",
           "scan", "commit", "retire", "mark", "test", "set", "pause", "launch",
           "renew", "verify"}

CallState == [at: Places, text: Nat, n: 0..MaxTemplate, yes: BOOLEAN,
              olds: SUBSET Version, to: Requests]

TypeOK ==
    /\ draft \in [text: Text, inReview: BOOLEAN]
    /\ written \in Text
    /\ policy \in Seq([text: Text, basis: {"counsel", "owner"}])
    /\ Len(policy) <= MaxPolicy
    /\ lapsed \in BOOLEAN
    /\ template \in [Version -> [status: TemplateStatus, here: BOOLEAN]]
    /\ licence \in [status: {"none", "pending", "active", "revoked"},
                   verified: BOOLEAN, lapsed: BOOLEAN]
    /\ test \in [passed: BOOLEAN, policy: 0..MaxPolicy, template: 0..MaxTemplate]
    /\ fresh \in BOOLEAN
    /\ requested \in Requests
    /\ nationwide \in BOOLEAN
    /\ campaign \in {"none", "active", "paused"}
    /\ call \in [Call -> CallState]
    /\ reviewed \subseteq Text
    /\ slipped \subseteq Text
    /\ crossed \in BOOLEAN
    /\ unmarked \in BOOLEAN
    /\ late \in BOOLEAN

Start(c, step) == call[c] = Idle /\ call' = [call EXCEPT ![c] = step]
At(c, place) == call[c].at = place
Return(c) == call' = [call EXCEPT ![c] = Idle]

\* After the change, a second statement marks the markets it names.
ThenMark(c, marks) ==
    call' = [call EXCEPT ![c] = IF marks THEN [Idle EXCEPT !.at = "mark"] ELSE Idle]

\* What a call changes, group by group.
reviewVars == <<draft, written, policy, lapsed, reviewed, slipped>>
configVars == <<template, licence, test, fresh, crossed, unmarked>>
activationVars == <<requested, nationwide, campaign, late>>

\* A new market, or one that operates: research accepted by the owner, the
\* template approved, the licence verified, the self-test passed.
Init ==
    /\ draft = [text |-> 1, inReview |-> FALSE]
    /\ written = 1
    /\ lapsed = FALSE
    /\ fresh = TRUE
    /\ nationwide = FALSE
    /\ campaign = "none"
    /\ call = [c \in Call |-> Idle]
    /\ reviewed = {} /\ slipped = {}
    /\ crossed = FALSE /\ unmarked = FALSE /\ late = FALSE
    /\ \/ /\ policy = <<>>
          /\ template = [v \in Version |-> [status |-> "none", here |-> FALSE]]
          /\ licence = [status |-> "none", verified |-> FALSE, lapsed |-> FALSE]
          /\ test = [passed |-> FALSE, policy |-> 0, template |-> 0]
          /\ requested = "research"
       \/ /\ policy = <<[text |-> 1, basis |-> "owner"]>>
          /\ template = [v \in Version |-> [status |-> IF v = 1 THEN "approved" ELSE "none",
                                            here |-> v = 1]]
          /\ licence = [status |-> "active", verified |-> TRUE, lapsed |-> FALSE]
          /\ test = [passed |-> TRUE, policy |-> 1, template |-> 1]
          /\ requested = "active"

-----------------------------------------------------------------------------
\* What is in force

HasStatus(v, s) == template[v].here /\ template[v].status = s

None(s) == \A w \in Version : ~HasStatus(w, s)

Newest(v, s) ==
    /\ v \in Version /\ HasStatus(v, s)
    /\ \A w \in Version : HasStatus(w, s) => w <= v

\* forState and the self-test's choice: the newest approved version that is for
\* this market, else the newest validated one, else none.
InForce(v) ==
    \/ Newest(v, "approved")
    \/ None("approved") /\ Newest(v, "validated")
    \/ None("approved") /\ None("validated") /\ v = 0

\* The requirement is met: active, verified and not past its date.
Licensed == licence.status = "active" /\ licence.verified /\ ~licence.lapsed

\* evaluateMarket: how far the approved policy and what is on file carry.
maxStatus ==
    IF policy = <<>> \/ lapsed \/ None("approved") THEN "research"
    ELSE IF ~Licensed THEN "acquisition"
    ELSE IF ~(test.passed /\ fresh) THEN "disposition"
    ELSE "active"

\* effectiveStatus for buyer marketing: a restriction outlasts the nationwide
\* decision, and otherwise the lower of the request and what is supported.
MarketingAllowed ==
    /\ requested # "restricted"
    /\ \/ nationwide
       \/ /\ ladderRank[requested] >= ladderRank["disposition"]
          /\ ladderRank[maxStatus] >= ladderRank["disposition"]

\* Something a self-test relies on is written; `marks` when the market is, or
\* will be, marked for it.
Changed(marks) ==
    /\ unmarked' = (unmarked \/ ~marks)
    /\ UNCHANGED crossed

=============================================================================
