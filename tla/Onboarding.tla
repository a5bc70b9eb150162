------------------------------- MODULE Onboarding -------------------------------
(***************************************************************************)
(* ONE participant: its profile and the status derived from it, its API    *)
(* keys, and its payment destination, which its owner proves with a secret *)
(* before suppliers are paid to it.  The destination is one JSON column    *)
(* that is read, changed and written back whole by calls that run at once. *)
(*                                                                         *)
(* Every submission of a destination draws a new secret, so a destination  *)
(* here stands for a submission.  Emails are not unique: two first         *)
(* creations at once make two rows, of which this module follows one.      *)
(***************************************************************************)
EXTENDS FiniteSets

CONSTANTS
  OnbCalls,      \* requests handled at once
  Fields,        \* fields a complete profile needs
  Destinations,  \* submissions of a payment destination
  NoDest

ASSUME OnbAssumption == NoDest \notin Destinations /\ Fields # {}

VARIABLES
  onbStatus,   \* the row's status, "NONE" before it exists
  onbFields,   \* required fields that are filled in
  onbPayment,  \* the destination column
  onbUsed,     \* submissions made
  onbLapsed,   \* submissions whose secret has expired
  onbProved,   \* history: submissions whose secret has been given
  onbKeys,     \* integrations: the calls that made one
  onbActive,   \* those with isActive
  onbPc,       \* where each call is
  onbData,     \* what an update is to change: fields and values
  onbView      \* what a call has read: fields, destination

onbProfile == <<onbStatus, onbFields>>
onbSecrets == <<onbUsed, onbLapsed>>
onbCall    == <<onbData, onbView>>
onbVars    == <<onbProfile, onbPayment, onbSecrets, onbProved, onbKeys, onbActive,
                onbPc, onbCall>>

Payments == [dest : Destinations \cup {NoDest},
             status : {"NONE", "PENDING_VERIFICATION", "VERIFIED"}]
NoPayment == [dest |-> NoDest, status |-> "NONE"]
Pending(d) == [dest |-> d, status |-> "PENDING_VERIFICATION"]
NoView == [fields |-> {}, payment |-> NoPayment]
NoData == [field |-> CHOOSE f \in Fields : TRUE, filled |-> FALSE]

(* Types.                                                                  *)
OnbTypeOK ==
  /\ onbStatus \in {"NONE", "DRAFT", "DOCUMENTS_SUBMITTED", "LIVE", "DELETED"}
  /\ onbFields \in SUBSET Fields
  /\ onbPayment \in Payments
  /\ onbUsed \in SUBSET Destinations /\ onbLapsed \in SUBSET Destinations
  /\ onbProved \in SUBSET Destinations
  /\ onbKeys \in SUBSET OnbCalls /\ onbActive \in SUBSET onbKeys
  /\ onbPc \in [OnbCalls -> {"idle", "profile", "activity", "verify", "attempt",
                             "participant", "keys", "live"}]
  /\ onbData \in [OnbCalls -> [field : Fields, filled : BOOLEAN]]
  /\ onbView \in [OnbCalls -> [fields : SUBSET Fields, payment : Payments]]

OnbInit ==
  /\ onbStatus = "NONE" /\ onbFields = {}
  /\ onbPayment = NoPayment
  /\ onbUsed = {} /\ onbLapsed = {} /\ onbProved = {}
  /\ onbKeys = {} /\ onbActive = {}
  /\ onbPc = [c \in OnbCalls |-> "idle"]
  /\ onbData = [c \in OnbCalls |-> NoData]
  /\ onbView = [c \in OnbCalls |-> NoView]

--------------------------------------------------------------------------------
OnbGoto(c, step) == onbPc' = [onbPc EXCEPT ![c] = step]
OnbDone(c) ==
  /\ OnbGoto(c, "idle")
  /\ onbData' = [onbData EXCEPT ![c] = NoData]
  /\ onbView' = [onbView EXCEPT ![c] = NoView]
Onboarded        == onbStatus \notin {"NONE", "DELETED"}
StatusFor(fields) == IF fields = Fields THEN "DOCUMENTS_SUBMITTED" ELSE "DRAFT"

(* Of the row a call reads, what it goes on to use.                        *)
ReadFields(c)  == onbView' = [onbView EXCEPT ![c].fields = onbFields]
ReadPayment(c) == onbView' = [onbView EXCEPT ![c].payment = onbPayment]

(* createParticipant; of a participant that exists, it changes nothing.    *)
CreateParticipant(c) ==
  /\ onbPc[c] = "idle" /\ onbStatus = "NONE"
  /\ \E fields \in SUBSET Fields, d \in (Destinations \ onbUsed) \cup {NoDest} :
       /\ onbFields' = fields
       /\ onbStatus' = StatusFor(fields)
       /\ onbPayment' = IF d = NoDest THEN NoPayment ELSE Pending(d)
       /\ onbUsed' = onbUsed \cup ({d} \ {NoDest})
  /\ UNCHANGED <<onbLapsed, onbProved, onbKeys, onbActive, onbPc, onbCall>>

(* updateParticipant: read the profile, ...                                *)
ReadProfile(c) ==
  /\ onbPc[c] = "idle" /\ Onboarded
  /\ ReadFields(c)
  /\ \E f \in Fields, b \in BOOLEAN :
       onbData' = [onbData EXCEPT ![c] = [field |-> f, filled |-> b]]
  /\ OnbGoto(c, "profile")
  /\ UNCHANGED <<onbProfile, onbPayment, onbSecrets, onbProved, onbKeys, onbActive>>

Changed(fields, data) ==
  IF data.filled THEN fields \cup {data.field} ELSE fields \ {data.field}

(* ... write what is to change, and the status of what was read so         *)
(* changed, whatever the status was; a destination may come with it, ...   *)
WriteProfile(c) ==
  /\ onbPc[c] = "profile"
  /\ \/ /\ Onboarded
        /\ onbFields' = Changed(onbFields, onbData[c])
        /\ onbStatus' = StatusFor(Changed(onbView[c].fields, onbData[c]))
        /\ \/ UNCHANGED <<onbPayment, onbUsed>>
           \/ \E d \in Destinations \ onbUsed :
                onbPayment' = Pending(d) /\ onbUsed' = onbUsed \cup {d}
        /\ OnbGoto(c, "activity")
        /\ UNCHANGED onbCall
     \/ ~Onboarded /\ OnbDone(c) /\ UNCHANGED <<onbProfile, onbPayment, onbUsed>>
  /\ UNCHANGED <<onbLapsed, onbProved, onbKeys, onbActive>>

(* ... then switch the integrations with that status.                      *)
WriteActivity(c) ==
  /\ onbPc[c] = "activity"
  /\ onbActive' = IF Changed(onbView[c].fields, onbData[c]) = Fields THEN onbKeys ELSE {}
  /\ OnbDone(c)
  /\ UNCHANGED <<onbProfile, onbPayment, onbSecrets, onbProved, onbKeys>>

--------------------------------------------------------------------------------
(* updatePayment: a new destination replaces the column.                   *)
UpdatePayment(c, d) ==
  /\ onbPc[c] = "idle" /\ Onboarded
  /\ d \notin onbUsed
  /\ onbPayment' = Pending(d)
  /\ onbUsed' = onbUsed \cup {d}
  /\ UNCHANGED <<onbProfile, onbLapsed, onbProved, onbKeys, onbActive, onbPc, onbCall>>

(* activatePayment reads the column and compares the secret it was given.  *)
CheckSecret(c) ==
  /\ onbPc[c] = "idle" /\ Onboarded
  /\ onbPayment.status = "PENDING_VERIFICATION"
  /\ onbPayment.dest \notin onbLapsed
  /\ ReadPayment(c)
  /\ \/ OnbGoto(c, "verify") /\ onbProved' = onbProved \cup {onbPayment.dest}
     \/ OnbGoto(c, "attempt") /\ UNCHANGED onbProved
  /\ UNCHANGED <<onbProfile, onbPayment, onbSecrets, onbKeys, onbActive, onbData>>

(* Mutant: the column is patched where it stands.                          *)
WriteVerifiedInPlace(c) ==
  /\ onbPc[c] = "verify"
  /\ onbPayment' = IF Onboarded /\ onbPayment # NoPayment
                     THEN [onbPayment EXCEPT !.status = "VERIFIED"] ELSE onbPayment
  /\ OnbDone(c)
  /\ UNCHANGED <<onbProfile, onbSecrets, onbProved, onbKeys, onbActive>>

(* It writes back the destination it has read, VERIFIED, ...               *)
WriteVerified(c) ==
  /\ onbPc[c] = "verify"
  /\ onbPayment' = IF Onboarded THEN [onbView[c].payment EXCEPT !.status = "VERIFIED"]
                   ELSE onbPayment
  /\ OnbDone(c)
  /\ UNCHANGED <<onbProfile, onbSecrets, onbProved, onbKeys, onbActive>>

(* ... or, one more failed attempt counted, as it was.                     *)
WriteAttempt(c) ==
  /\ onbPc[c] = "attempt"
  /\ onbPayment' = IF Onboarded THEN onbView[c].payment ELSE onbPayment
  /\ OnbDone(c)
  /\ UNCHANGED <<onbProfile, onbSecrets, onbProved, onbKeys, onbActive>>

(* A day after its submission.                                             *)
LapseSecret(d) ==
  /\ onbPayment = Pending(d) /\ d \notin onbLapsed
  /\ onbLapsed' = onbLapsed \cup {d}
  /\ UNCHANGED <<onbProfile, onbPayment, onbUsed, onbProved, onbKeys, onbActive, onbPc, onbCall>>

--------------------------------------------------------------------------------
(* generateApiKeys: the keys there are, or else an integration.            *)
LookupKeys(c) ==
  /\ onbPc[c] = "idle" /\ Onboarded
  /\ onbKeys = {}
  /\ OnbGoto(c, "participant")
  /\ UNCHANGED <<onbProfile, onbPayment, onbSecrets, onbProved, onbKeys, onbActive, onbCall>>

ReadForKeys(c) ==
  /\ onbPc[c] = "participant"
  /\ ReadFields(c)
  /\ OnbGoto(c, "keys")
  /\ UNCHANGED <<onbProfile, onbPayment, onbSecrets, onbProved, onbKeys, onbActive, onbData>>

CreateIntegration(c) ==
  /\ onbPc[c] = "keys"
  /\ onbKeys' = IF Onboarded THEN onbKeys \cup {c} ELSE onbKeys
  /\ onbActive' = IF Onboarded /\ onbView[c].fields = Fields
                    THEN onbActive \cup {c} ELSE onbActive
  /\ OnbDone(c)
  /\ UNCHANGED <<onbProfile, onbPayment, onbSecrets, onbProved>>

(* activateBusinessIfComplete, when a user registers.                      *)
CheckBusiness(c) ==
  /\ onbPc[c] = "idle"
  /\ onbStatus \in {"DRAFT", "DOCUMENTS_SUBMITTED"}
  /\ onbFields = Fields
  /\ onbPayment.status = "VERIFIED"
  /\ onbKeys # {}
  /\ OnbGoto(c, "live")
  /\ UNCHANGED <<onbProfile, onbPayment, onbSecrets, onbProved, onbKeys, onbActive, onbCall>>

WriteLive(c) ==
  /\ onbPc[c] = "live"
  /\ onbStatus' = IF Onboarded THEN "LIVE" ELSE onbStatus
  /\ OnbDone(c)
  /\ UNCHANGED <<onbFields, onbPayment, onbSecrets, onbProved, onbKeys, onbActive>>

(* deleteParticipant takes the integrations with it.                       *)
DeleteParticipant ==
  /\ Onboarded
  /\ onbStatus' = "DELETED"
  /\ onbFields' = {} /\ onbPayment' = NoPayment
  /\ onbKeys' = {} /\ onbActive' = {}
  /\ UNCHANGED <<onbSecrets, onbProved, onbPc, onbCall>>

OnbNext ==
  \/ \E c \in OnbCalls :
       \/ CreateParticipant(c)
       \/ ReadProfile(c) \/ WriteProfile(c) \/ WriteActivity(c)
       \/ CheckSecret(c) \/ WriteVerified(c) \/ WriteAttempt(c)
       \/ LookupKeys(c) \/ ReadForKeys(c) \/ CreateIntegration(c)
       \/ CheckBusiness(c) \/ WriteLive(c)
       \/ \E d \in Destinations : UpdatePayment(c, d)
  \/ \E d \in Destinations : LapseSecret(d)
  \/ DeleteParticipant

OnbSpec == OnbInit /\ [][OnbNext]_onbVars

--------------------------------------------------------------------------------
(* A destination counts as verified only if its own secret has been given, *)
(* however submissions and activations overlap; and a business that went   *)
(* LIVE has had one.                                                       *)
VerifiedByItsSecret ==
  /\ onbPayment.status = "VERIFIED" => onbPayment.dest \in onbProved
  /\ onbStatus = "LIVE" => onbProved # {}
================================================================================
