---------------------------- MODULE Suppression ----------------------------
(***************************************************************************)
(* The do-not-contact list and the consents of one contact                 *)
(* (compliance/opt-out.service.ts, communications-admin.service.ts), each   *)
(* call opened where it awaits the database.  An entry an operator or a     *)
(* bounce made can be removed; one the recipient made cannot.               *)
(***************************************************************************)

VARIABLES
  dnc,         \* who made the contact's DNCList row: "none" when there is none
  consent,     \* the contact has a consent that is not revoked
  open,        \* switches, quiet hours, market and disclosure checks pass
  optOut,      \* an opt-out has listed the contact and not revoked consents yet
  consenting,  \* recordLeadConsent found no entry and has not written yet
  removing,    \* unsuppress found a removable entry and has not deleted it yet
  said,        \* history: the recipient asked not to be contacted
  operatorFirst \* history: an operator's entry was there when they did

suppressionVars ==
  <<dnc, consent, open, optOut, consenting, removing, said, operatorFirst>>

Sources == {"operator", "recipient"}

(* The facts and switches every send-time check reads together. *)
Sendable == open /\ consent /\ dnc = "none"

SuppressionInit ==
  /\ dnc \in {"none", "operator"} /\ consent = TRUE /\ open = TRUE
  /\ optOut = FALSE /\ consenting = FALSE /\ removing = FALSE
  /\ said = FALSE /\ operatorFirst = FALSE

SuppressionTypeOK ==
  /\ dnc \in Sources \union {"none"}
  /\ <<consent, open, optOut, consenting, removing, said, operatorFirst>>
       \in BOOLEAN \X BOOLEAN \X BOOLEAN \X BOOLEAN \X BOOLEAN \X BOOLEAN \X BOOLEAN

RelistedAsOperator(source) == "operator"

(* A repeat opt-out keeps the row it finds, with its source. *)
Listed(source) == IF dnc = "none" THEN source ELSE dnc

(* upsertDnc: a STOP, an unsubscribe or a complaint, a bounce, or an         *)
(* operator's suppress.  Consents are revoked by a later statement.          *)
ListOptOut(source) ==
  /\ ~optOut
  /\ optOut' = TRUE
  /\ dnc' = Listed(source)
  /\ said' = (said \/ source = "recipient")
  /\ operatorFirst' = (operatorFirst \/ (source = "recipient" /\ dnc = "operator"))
  /\ UNCHANGED <<consent, open, consenting, removing>>

RevokeConsents ==
  /\ optOut
  /\ optOut' = FALSE
  /\ consent' = FALSE
  /\ UNCHANGED <<dnc, open, consenting, removing, said, operatorFirst>>

(* recordLeadConsent refuses a contact on the list, then writes the row. *)
ConsentCheck ==
  /\ ~consenting /\ dnc = "none"
  /\ consenting' = TRUE
  /\ UNCHANGED <<dnc, consent, open, optOut, removing, said, operatorFirst>>

ConsentWrite ==
  /\ consenting
  /\ consenting' = FALSE
  /\ consent' = TRUE
  /\ UNCHANGED <<dnc, open, optOut, removing, said, operatorFirst>>

RevokeLeadConsent ==
  /\ consent
  /\ consent' = FALSE
  /\ UNCHANGED <<dnc, open, optOut, consenting, removing, said, operatorFirst>>

(* unsuppress reads the entry, refuses a recipient's, and deletes by id. *)
Removable == dnc = "operator"

UnsuppressRead ==
  /\ ~removing /\ Removable
  /\ removing' = TRUE
  /\ UNCHANGED <<dnc, consent, open, optOut, consenting, said, operatorFirst>>

UnsuppressDelete ==
  /\ removing
  /\ removing' = FALSE
  /\ dnc' = "none"
  /\ UNCHANGED <<consent, open, optOut, consenting, said, operatorFirst>>

(* A switch on the control plane, a quiet hour, a market or a disclosure. *)
ChecksChange ==
  /\ open' = ~open
  /\ UNCHANGED <<dnc, consent, optOut, consenting, removing, said, operatorFirst>>

(* Calls that begin, and the statements that end them. *)
SuppressionBegins ==
  \/ \E source \in Sources : ListOptOut(source)
  \/ ConsentCheck \/ RevokeLeadConsent
  \/ UnsuppressRead
  \/ ChecksChange

SuppressionContinues == RevokeConsents \/ ConsentWrite \/ UnsuppressDelete
=============================================================================
