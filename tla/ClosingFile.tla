----------------------------- MODULE ClosingFile -----------------------------
(***************************************************************************)
(* What makes a closing file clear to close: its milestones, which follow   *)
(* the structure of the deal, the issues raised on it, the assignment and   *)
(* the contract deadline.  Every handler that changes one of them is meant  *)
(* to end with refreshStatus.  Confirming a closing reads the file first    *)
(* and writes it afterwards, and other requests come in between.            *)
(*                                                                          *)
(* titleStatus is left out: it is shown to people, who may also set it, and *)
(* no other decision reads it.                                              *)
(***************************************************************************)
EXTENDS Naturals, FiniteSets

CONSTANTS
    Key,          \* bound: the milestones of the templates that are followed
    TitleIssue,   \* title issues that may be raised
    OtherIssue    \* issues of every other kind

CommonKeys == {"title_opened", "seller_emd_deposited", "title_commitment"}
BuyerKeys == {"buyer_emd_received", "buyer_funds_verified", "title_clear",
              "closing_scheduled", "settlement_reviewed"}
AssignmentKeys == CommonKeys \cup BuyerKeys \cup {"assignment_executed", "assignment_delivered"}
DoubleCloseKeys == CommonKeys \cup BuyerKeys
    \cup {"resale_contract_executed", "transactional_funding", "double_close_disclosed"}

ASSUME KeyAssumption == Key \subseteq AssignmentKeys \cup DoubleCloseKeys
ASSUME IssueAssumption == TitleIssue \cap OtherIssue = {}

VARIABLES
    status,       \* closing_files.status
    structure,    \* closing_files.structure
    milestone,    \* closing_milestones of the file, "absent" where there is no row
    issue,        \* closing_issues of the file
    newest,       \* the deal's newest assignment: live stands for draft and sent
    agreed,       \* the structure that assignment was made for
    late,         \* the contract deadline has passed, or the closing is scheduled after it
    confirming,   \* a confirmClosing has found the file clear and not yet written it
    lapsed        \* history: it became late, and no handler has refreshed the file since

fileVars == <<status, structure, milestone, issue, newest, agreed, late, confirming, lapsed>>

Issue == TitleIssue \cup OtherIssue
Structures == {"assignment", "double_close"}

FileTypeOK ==
    /\ status \in {"open", "clear_to_close", "closed", "cancelled"}
    /\ structure \in Structures
    /\ milestone \in [Key -> {"absent", "pending", "done", "waived"}]
    /\ issue \in [Issue -> {"none", "warning", "blocking", "resolved"}]
    /\ newest \in {"none", "live", "executed", "cancelled"}
    /\ agreed \in Structures
    /\ late \in BOOLEAN
    /\ confirming \in BOOLEAN
    /\ lapsed \in BOOLEAN

-----------------------------------------------------------------------------

milestoneTemplate(s) == Key \cap (IF s = "double_close" THEN DoubleCloseKeys ELSE AssignmentKeys)

\* The milestones cancelling an assignment sets back.
BUYER_MILESTONES ==
    Key \cap {"assignment_executed", "assignment_delivered", "buyer_emd_received",
              "buyer_funds_verified", "resale_contract_executed", "settlement_reviewed"}

IsOpen == status \in {"open", "clear_to_close"}

NothingPending(ms) == \A k \in Key : ms[k] # "pending"
NothingBlocking(is) == \A i \in Issue : is[i] # "blocking"

\* closingReadiness without a contract deadline, as the confirmation asks it.
ReadyWithin(ms, is) == NothingPending(ms) /\ NothingBlocking(is)

\* A refresh that only ever clears a file.
RefreshedForwardOnly(ms, is, asg, lt) ==
    IF status = "open" /\ asg = "executed" /\ ReadyWithin(ms, is) /\ ~lt
    THEN "clear_to_close" ELSE status

\* refreshStatus, the last call of the handlers below.
Refreshed(ms, is, asg, lt) ==
    IF ~IsOpen THEN status
    ELSE IF asg = "executed" /\ ReadyWithin(ms, is) /\ ~lt THEN "clear_to_close"
    ELSE "open"

Refresh ==
    /\ status' = Refreshed(milestone', issue', newest', late')
    /\ lapsed' = FALSE

\* A handler that throws before it, or swallows its failure.
NotRefreshed == UNCHANGED <<status, lapsed>>

\* changeStructure without createMany: no milestone of the new structure comes.
RestructuredKeepingOldRows(s) ==
    [k \in Key |->
        IF milestone[k] = "pending" /\ k \notin milestoneTemplate(s) THEN "absent"
        ELSE milestone[k]]

\* changeStructure: pending rows the new template lacks go, missing ones come.
Restructured(s) ==
    [k \in Key |->
        IF milestone[k] = "pending" /\ k \notin milestoneTemplate(s) THEN "absent"
        ELSE IF milestone[k] = "absent" /\ k \in milestoneTemplate(s) THEN "pending"
        ELSE milestone[k]]

\* "updateMany where status pending": a row that waits is done.
Done(ms, k) == [j \in Key |-> IF j = k /\ ms[j] = "pending" THEN "done" ELSE ms[j]]

-----------------------------------------------------------------------------

\* ensureFile.
FileInit ==
    /\ status = "open"
    /\ structure \in Structures
    /\ milestone = [k \in Key |-> IF k \in milestoneTemplate(structure) THEN "pending" ELSE "absent"]
    /\ issue = [i \in Issue |-> "none"]
    /\ newest = "none"
    /\ agreed \in Structures
    /\ late = FALSE
    /\ confirming = FALSE
    /\ lapsed = FALSE

\* update: the structure changes and the milestones follow.
ChangeStructure(s) ==
    /\ IsOpen
    /\ s # structure
    /\ structure' = s
    /\ milestone' = Restructured(s)
    /\ UNCHANGED <<issue, newest, agreed, late, confirming>>
    /\ Refresh

\* update: the closing is scheduled, after the deadline or within it.
Reschedule ==
    /\ IsOpen
    /\ late' \in BOOLEAN
    /\ UNCHANGED <<structure, milestone, issue, newest, agreed, confirming>>
    /\ Refresh

\* createFromOffer for an accepted buyer: the file follows the structure agreed,
\* and the buyer's funds may have been verified already.  On a cancelled file
\* another structure throws after the assignment was made.
AcceptBuyer(s, fundsVerified) ==
    /\ newest \in {"none", "cancelled"}
    /\ newest' = "live"
    /\ agreed' = s
    /\ IF s # structure /\ ~IsOpen
       THEN UNCHANGED <<structure, milestone>>
       ELSE /\ structure' = s
            /\ LET ms == IF s = structure THEN milestone ELSE Restructured(s)
               IN  milestone' = IF fundsVerified THEN Done(ms, "buyer_funds_verified") ELSE ms
    /\ UNCHANGED <<issue, late, confirming>>
    /\ Refresh

\* applyExecuted: the stage is written before the file is refreshed, and its
\* refusal throws.
ExecuteAssignment ==
    /\ newest = "live"
    /\ newest' = "executed"
    /\ milestone' = Done(milestone, IF agreed = "double_close"
                                    THEN "resale_contract_executed" ELSE "assignment_executed")
    /\ UNCHANGED <<structure, issue, agreed, late, confirming>>
    /\ Refresh \/ NotRefreshed

\* AssignmentsService.cancel: the buyer's milestones start again.
CancelAssignment ==
    /\ newest \in {"live", "executed"}
    /\ status # "closed"
    /\ newest' = "cancelled"
    /\ milestone' = [k \in Key |->
          IF k \in BUYER_MILESTONES /\ milestone[k] # "absent" THEN "pending" ELSE milestone[k]]
    /\ UNCHANGED <<structure, issue, agreed, late, confirming>>
    /\ Refresh

\* recordBuyerDeposit.
RecordBuyerDeposit ==
    /\ newest \in {"live", "executed"}
    /\ milestone' = Done(milestone, "buyer_emd_received")
    /\ UNCHANGED <<structure, issue, newest, agreed, late, confirming>>
    /\ Refresh

\* recordEarnestMoney: the only one that does not refresh.
RecordEarnestMoney ==
    /\ milestone' = Done(milestone, "seller_emd_deposited")
    /\ UNCHANGED <<structure, issue, newest, agreed, late, confirming>>
    /\ NotRefreshed

OpenTitleIssue == \E i \in TitleIssue : issue[i] = "blocking"

\* setMilestone: the row, then its side effects.  "Title clear" with a blocking
\* title issue open throws there: the row is written and the file not refreshed.
SetMilestone(k, to) ==
    /\ IsOpen
    /\ milestone[k] # "absent"
    /\ milestone' = [milestone EXCEPT ![k] = to]
    /\ UNCHANGED <<structure, issue, newest, agreed, late, confirming>>
    /\ IF k = "title_clear" /\ to = "done" /\ OpenTitleIssue
       THEN NotRefreshed
       ELSE Refresh

\* raiseIssue: a blocking title issue reopens "title clear".
RaiseIssue(i, severity) ==
    /\ IsOpen
    /\ issue[i] = "none"
    /\ issue' = [issue EXCEPT ![i] = severity]
    /\ milestone' = [k \in Key |->
          IF k = "title_clear" /\ i \in TitleIssue /\ severity = "blocking" /\ milestone[k] = "done"
          THEN "pending" ELSE milestone[k]]
    /\ UNCHANGED <<structure, newest, agreed, late, confirming>>
    /\ Refresh

\* resolveIssue, on a file of any status.
ResolveIssue(i) ==
    /\ issue[i] \in {"warning", "blocking"}
    /\ issue' = [issue EXCEPT ![i] = "resolved"]
    /\ UNCHANGED <<structure, milestone, newest, agreed, late, confirming>>
    /\ Refresh

\* The contract deadline passes, or the terms of the contract (update, or another
\* contract) put it elsewhere: nobody refreshes the file.
DeadlineMoves ==
    /\ late' = ~late
    /\ lapsed' = late'
    /\ UNCHANGED <<status, structure, milestone, issue, newest, agreed, confirming>>

\* extend: a signed extension, which may still be too early.  A refresh that fails
\* is swallowed.
ExtendDeadline ==
    /\ late' \in {late, FALSE}
    /\ UNCHANGED <<structure, milestone, issue, newest, agreed, confirming>>
    /\ Refresh \/ NotRefreshed

\* confirmClosing: the file, its milestones and issues are read and must allow
\* it; the deadline is compared with the date of the closing, not with today.
ConfirmRead ==
    /\ ~confirming
    /\ IsOpen
    /\ newest = "executed"
    /\ ReadyWithin(milestone, issue)
    /\ confirming' = TRUE
    /\ UNCHANGED <<status, structure, milestone, issue, newest, agreed, late, lapsed>>

\* The write, or a refusal of the closing date.
ConfirmWrite ==
    /\ confirming
    /\ confirming' = FALSE
    /\ status' \in {status, "closed"}
    /\ UNCHANGED <<structure, milestone, issue, newest, agreed, late, lapsed>>

\* cancelClosing.
CancelClosing ==
    /\ IsOpen
    /\ status' = "cancelled"
    /\ newest' = IF newest = "none" THEN "none" ELSE "cancelled"
    /\ UNCHANGED <<structure, milestone, issue, agreed, late, confirming, lapsed>>

FileNext ==
    \/ \E s \in Structures : ChangeStructure(s)
    \/ Reschedule
    \/ \E s \in Structures, fundsVerified \in BOOLEAN : AcceptBuyer(s, fundsVerified)
    \/ ExecuteAssignment
    \/ CancelAssignment
    \/ RecordBuyerDeposit
    \/ RecordEarnestMoney
    \/ \E k \in Key, to \in {"pending", "done", "waived"} : SetMilestone(k, to)
    \/ \E i \in Issue, severity \in {"warning", "blocking"} : RaiseIssue(i, severity)
    \/ \E i \in Issue : ResolveIssue(i)
    \/ DeadlineMoves
    \/ ExtendDeadline
    \/ ConfirmRead
    \/ ConfirmWrite
    \/ CancelClosing

FileSpec == FileInit /\ [][FileNext]_fileVars

-----------------------------------------------------------------------------

\* A file shown as clear to close has an executed assignment, no milestone
\* pending and no blocking issue open, and is in time for the contract deadline:
\* whoever takes one of them away also takes the status away.  The one exception
\* is the calendar and the terms of the contract, which refresh nothing: a file
\* may be shown clear that became late after the last handler looked at it.
ClearIsTrue ==
    status = "clear_to_close" =>
        /\ newest = "executed"
        /\ ReadyWithin(milestone, issue)
        /\ late => lapsed

\* Whatever the structure went through, every milestone of its template is on
\* the file: no change of structure, in any state of the rows, loses a blocking
\* step.
TemplateIsComplete ==
    \A k \in milestoneTemplate(structure) : milestone[k] # "absent"

=============================================================================
