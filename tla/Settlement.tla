------------------------------- MODULE Settlement -------------------------------
(***************************************************************************)
(* The settlements of ONE merchant reference, from initiation to the split *)
(* that lets payouts go: requests that initiate it (a merchant may repeat  *)
(* one), the customer's M-Pesa collection with its STK pushes, payment     *)
(* callbacks and confirmations, and what each writes over the others.      *)
(*                                                                         *)
(* A request creates a primary row, written under its own name here, and   *)
(* one row for the supplier, Child: the latter's reference is unique and   *)
(* made from the merchant's, so there is only one.  Callbacks know the     *)
(* merchant's reference, which all those rows match: findFirst returns any *)
(* of them.  Every write of a row is by id, unconditional, and writes back *)
(* the metadata its writer has read or, during initiation, has in memory.  *)
(*                                                                         *)
(* The transaction that admits and reserves a CASH amount is one step here *)
(* (module EscrowFloat), and so are the payouts of a dispatch (Payouts).   *)
(***************************************************************************)
EXTENDS Integers, FiniteSets

CONSTANTS
  Requests,     \* initiation requests with the same merchant reference
  Handlers,     \* callbacks, confirmations and dispatch calls handled at once
  MaxAttempts,  \* STK pushes a request tries, maxAttempts
  MaxCalls,     \* bound on calls made by others than initiation and Safaricom
  Kinds,        \* how the customer pays: "MPESA", "CASH" or "MIXED"
  Child,
  Reference,    \* the merchant's reference; a row's own is generated
  None

ASSUME SettlementAssumption ==
  /\ Requests \cap Handlers = {}
  /\ Child \notin Requests
  /\ Reference \notin Requests \cup {Child}
  /\ None \notin Requests \cup {Child}
  /\ MaxAttempts \in Nat \ {0}
  /\ MaxCalls \in Nat
  /\ Kinds \subseteq {"MPESA", "CASH", "MIXED"}

Actors   == Requests \cup Handlers
Rows     == Requests \cup {Child}
Attempts == 1..MaxAttempts
Pushes   == Requests \X Attempts

VARIABLES
  kind,        \* how the customer pays, the same for every repetition
  row,         \* the settlement rows
  parent,      \* whose primary Child's parentSettlementId names
  record,      \* status of the MpesaTransaction of each push
  customer,    \* what the customer has done with the push on the phone
  admitted,    \* rows with an escrow transfer: the CASH amount is reserved
  vouched,     \* has anyone else reported the payment as made?
  calls,       \* calls of others so far
  dispatched,  \* rows under which payouts have been dispatched
  pc,          \* where each actor is
  attempt,     \* the push a request is at
  answer,      \* how that push's call ended
  report,      \* what a handler has been told
  target,      \* the row it has found
  view         \* and that row as it has read it

requestVars == <<attempt, answer>>
handlerVars == <<report, target, view>>
payVars     == <<record, customer>>
outside     == <<vouched, calls>>
vars == <<kind, row, parent, record, customer, admitted, vouched, calls,
          dispatched, pc, attempt, answer, report, target, view>>

Statuses == {"ABSENT", "INITIATED", "PENDING_PROCESSING", "PROCESSING",
             "COMPLETED", "FAILED"}

(* status and, of the metadata: originalMerchantReference, mpesaStatus of  *)
(* the funding plan, payoutSource of escrowFunding, a callback or          *)
(* confirmation of success, splitRecords.                                  *)
Settlements == [status : Statuses, tagged : BOOLEAN,
                plan : {"NONE", "WAITING", "SUCCESS"}, source : BOOLEAN,
                paid : BOOLEAN, split : BOOLEAN]

Absent == [status |-> "ABSENT", tagged |-> FALSE, plan |-> "NONE",
           source |-> FALSE, paid |-> FALSE, split |-> FALSE]

Exists(s) == row[s].status # "ABSENT"
Started   == {s \in Rows : Exists(s)}

PcValues == {"new", "create", "plan", "pending", "admit", "admitted", "source",
             "block", "record",
             "push", "answer", "fail", "children", "done",
             "idle", "lookup", "declined", "reported", "confirm", "split",
             "dispatch", "vouch", "pay"}

Answers == {"accepted", "refused", "network", "http"}

(* Types: which values the rows, records and actors take.                  *)
TypeOK ==
  /\ kind \in Kinds
  /\ row \in [Rows -> Settlements]
  /\ parent \in Requests \cup {None}
  /\ record \in [Pushes -> {"NONE", "PENDING", "COMPLETED", "FAILED"}]
  /\ customer \in [Pushes -> {"none", "asked", "paid", "declined"}]
  /\ admitted \in SUBSET Requests
  /\ vouched \in BOOLEAN
  /\ calls \in 0..MaxCalls
  /\ dispatched \in SUBSET Rows
  /\ pc \in [Actors -> PcValues]
  /\ attempt \in [Requests -> Attempts]
  /\ answer \in [Requests -> Answers \cup {"none"}]
  /\ report \in [Actors -> {"none", "paid", "failed", "cash"}]
  /\ target \in [Actors -> Rows \cup {None}]
  /\ view \in [Actors -> Settlements]

Init ==
  /\ kind \in Kinds
  /\ row = [s \in Rows |-> Absent]
  /\ parent = None
  /\ record = [p \in Pushes |-> "NONE"]
  /\ customer = [p \in Pushes |-> "none"]
  /\ admitted = {}
  /\ vouched = FALSE
  /\ calls = 0
  /\ dispatched = {}
  /\ pc = [a \in Actors |-> IF a \in Requests THEN "new" ELSE "idle"]
  /\ attempt = [r \in Requests |-> 1]
  /\ answer = [r \in Requests |-> "none"]
  /\ report = [a \in Actors |-> "none"]
  /\ target = [a \in Actors |-> None]
  /\ view = [a \in Actors |-> Absent]

--------------------------------------------------------------------------------
Goto(a, step) == pc' = [pc EXCEPT ![a] = step]

(* hasConfirmedCustomerPayment.                                            *)
Confirmed(s) ==
  \/ s.paid
  \/ s.status \in {"PENDING_PROCESSING", "PROCESSING", "COMPLETED"}

(* What initiation has in memory of r's row: it lacks the tag the create   *)
(* added, and has the plan once a mixed payment has made one.              *)
OwnCopy(status) ==
  [Absent EXCEPT !.status = status, !.plan = IF kind = "MIXED" THEN "WAITING" ELSE "NONE"]

(* findExistingSettlementResponse: looks for the tag.                      *)
FindExisting(r) ==
  /\ pc[r] = "new"
  /\ Goto(r, IF \E s \in Started : row[s].tagged THEN "done" ELSE "create")
  /\ UNCHANGED <<kind, row, parent, payVars, admitted, outside, dispatched,
                 requestVars, handlerVars>>

(* createSettlement, then initiateCustomerPayment on the funding methods.  *)
CreateSettlement(r) ==
  /\ pc[r] = "create"
  /\ row' = [row EXCEPT ![r] = [Absent EXCEPT !.status = "INITIATED", !.tagged = TRUE]]
  /\ Goto(r, CASE kind = "MPESA" -> "record"
               [] kind = "MIXED" -> "plan"
               [] kind = "CASH"  -> "pending")
  /\ UNCHANGED <<kind, parent, payVars, admitted, outside, dispatched,
                 requestVars, handlerVars>>

(* Mixed: the plan is written before the customer is asked.                *)
WritePlan(r) ==
  /\ pc[r] = "plan"
  /\ row' = [row EXCEPT ![r] = OwnCopy("PENDING_PROCESSING")]
  /\ Goto(r, "record")
  /\ UNCHANGED <<kind, parent, payVars, admitted, outside, dispatched,
                 requestVars, handlerVars>>

(* CASH: PENDING_PROCESSING before the ledger has admitted the amount.     *)
StartCash(r) ==
  /\ pc[r] = "pending"
  /\ row' = [row EXCEPT ![r] = OwnCopy("PENDING_PROCESSING")]
  /\ Goto(r, "admit")
  /\ UNCHANGED <<kind, parent, payVars, admitted, outside, dispatched,
                 requestVars, handlerVars>>

(* startForSettlement creates the transfer, with the amount reserved, or   *)
(* throws; ...                                                             *)
AdmitCash(r) ==
  /\ pc[r] = "admit"
  /\ \/ admitted' = admitted \cup {r} /\ Goto(r, "admitted")
     \/ admitted' = admitted /\ Goto(r, "block")
  /\ UNCHANGED <<kind, row, parent, payVars, outside, dispatched, requestVars,
                 handlerVars>>

(* ... then payoutSource is merged into the row's metadata, which are read *)
(* and written back.  An error here throws with the amount reserved.       *)
ReadSource(r) ==
  /\ pc[r] = "admitted"
  /\ \/ view' = [view EXCEPT ![r] = row[r]] /\ Goto(r, "source")
     \/ view' = view /\ Goto(r, "block")
  /\ UNCHANGED <<kind, row, parent, payVars, admitted, outside, dispatched,
                 requestVars, report, target>>

WriteSource(r) ==
  /\ pc[r] = "source"
  /\ row' = [row EXCEPT ![r] = [view[r] EXCEPT !.status = row[r].status, !.source = TRUE]]
  /\ view' = [view EXCEPT ![r] = Absent]
  /\ Goto(r, "children")
  /\ UNCHANGED <<kind, parent, payVars, admitted, outside, dispatched,
                 requestVars, report, target>>

RejectCash(r) ==
  /\ pc[r] = "block"
  /\ row' = [row EXCEPT ![r] = OwnCopy("FAILED")]
  /\ Goto(r, "done")
  /\ UNCHANGED <<kind, parent, payVars, admitted, outside, dispatched,
                 requestVars, handlerVars>>

--------------------------------------------------------------------------------
(* initiateStkPush, up to three times: a record, the call, its answer.     *)
CreateRecord(r) ==
  /\ pc[r] = "record"
  /\ record' = [record EXCEPT ![<<r, attempt[r]>>] = "PENDING"]
  /\ Goto(r, "push")
  /\ UNCHANGED <<kind, row, parent, customer, admitted, outside, dispatched,
                 requestVars, handlerVars>>

(* A network error or an HTTP error may come after the push went out.      *)
PushStk(r) ==
  /\ pc[r] = "push"
  /\ \E a \in Answers, asked \in BOOLEAN :
       /\ (a = "accepted") => asked
       /\ (a = "refused") => ~asked
       /\ answer' = [answer EXCEPT ![r] = a]
       /\ customer' = IF asked THEN [customer EXCEPT ![<<r, attempt[r]>>] = "asked"]
                      ELSE customer
  /\ Goto(r, "answer")
  /\ UNCHANGED <<kind, row, parent, record, admitted, outside, dispatched,
                 attempt, handlerVars>>

(* Mutant: the answer is written as the record's status.                   *)
RecordAnswerVerbatim(r) ==
  /\ pc[r] = "answer"
  /\ record' = [record EXCEPT ![<<r, attempt[r]>>] = answer[r]]
  /\ Goto(r, "children")
  /\ answer' = [answer EXCEPT ![r] = "none"]
  /\ UNCHANGED <<kind, row, parent, customer, admitted, outside, dispatched,
                 attempt, handlerVars>>

(* The record's update is by id: a callback that came first is overwritten. *)
(* Only a network error is tried again; a refusal counts as started.       *)
RecordAnswer(r) ==
  /\ pc[r] = "answer"
  /\ record' = [record EXCEPT ![<<r, attempt[r]>>] =
                  IF answer[r] = "accepted" THEN "PENDING" ELSE "FAILED"]
  /\ \/ /\ answer[r] \in {"accepted", "refused"}
        /\ Goto(r, "children")
        /\ attempt' = attempt
     \/ /\ answer[r] = "network" /\ attempt[r] < MaxAttempts
        /\ Goto(r, "record")
        /\ attempt' = [attempt EXCEPT ![r] = @ + 1]
     \/ /\ answer[r] = "http" \/ (answer[r] = "network" /\ attempt[r] = MaxAttempts)
        /\ Goto(r, "fail")
        /\ attempt' = attempt
  /\ answer' = [answer EXCEPT ![r] = IF pc'[r] = "fail" THEN @ ELSE "none"]
  /\ UNCHANGED <<kind, row, parent, customer, admitted, outside, dispatched,
                 handlerVars>>

(* The row is written from memory, whatever a callback has made of it.     *)
FailInitiation(r) ==
  /\ pc[r] = "fail"
  /\ row' = [row EXCEPT ![r] = OwnCopy(IF answer[r] = "network" THEN "INITIATED" ELSE "FAILED")]
  /\ answer' = [answer EXCEPT ![r] = "none"]
  /\ Goto(r, "done")
  /\ UNCHANGED <<kind, parent, payVars, admitted, outside, dispatched, attempt,
                 handlerVars>>

(* Mutant: the child's metadata are those the request has in memory.       *)
CreateChildrenUntagged(r) ==
  /\ pc[r] = "children"
  /\ IF Exists(Child)
       THEN /\ UNCHANGED <<row, parent, report>>
            /\ Goto(r, "done")
       ELSE /\ row' = [row EXCEPT ![Child] = OwnCopy("INITIATED")]
            /\ parent' = r
            /\ report' = [report EXCEPT ![r] = IF kind = "CASH" THEN "cash" ELSE "none"]
            /\ Goto(r, IF kind = "CASH" THEN "lookup" ELSE "done")
  /\ UNCHANGED <<kind, payVars, admitted, outside, dispatched, requestVars,
                 target, view>>

(* Mutant: an admitted CASH settlement is left to a callback to allocate.  *)
CreateChildrenOnly(r) ==
  /\ pc[r] = "children"
  /\ IF Exists(Child)
       THEN UNCHANGED <<row, parent>>
       ELSE /\ row' = [row EXCEPT ![Child] = [OwnCopy("INITIATED") EXCEPT !.tagged = TRUE]]
            /\ parent' = r
  /\ Goto(r, "done")
  /\ UNCHANGED <<kind, payVars, admitted, outside, dispatched, requestVars,
                 handlerVars>>

(* createSupplierSettlements.  A repetition's insert breaks the unique     *)
(* reference and ends it with an error, its customer already asked.        *)
CreateChildren(r) ==
  /\ pc[r] = "children"
  /\ IF Exists(Child)
       THEN /\ UNCHANGED <<row, parent, report>>
            /\ Goto(r, "done")
       ELSE /\ row' = [row EXCEPT ![Child] =
                 [OwnCopy("INITIATED") EXCEPT !.tagged = TRUE]]
            /\ parent' = r
            /\ report' = [report EXCEPT ![r] = IF kind = "CASH" THEN "cash" ELSE "none"]
            /\ Goto(r, IF kind = "CASH" THEN "lookup" ELSE "done")
  /\ UNCHANGED <<kind, payVars, admitted, outside, dispatched, requestVars,
                 target, view>>

--------------------------------------------------------------------------------
(* The customer answers a push on the phone, once.                         *)
CustomerResponds(p) ==
  /\ customer[p] = "asked"
  /\ \E c \in {"paid", "declined"} : customer' = [customer EXCEPT ![p] = c]
  /\ UNCHANGED <<kind, row, parent, record, admitted, outside, dispatched, pc,
                 requestVars, handlerVars>>

(* parseStkCallback: a result code of 0, or anything else.                 *)
ResultOf(p) == IF customer[p] = "paid" THEN "paid" ELSE "failed"

(* upsertFromMpesaCallback finds the record by the callback's token and    *)
(* writes it, whatever it was.                                             *)
UpsertRecord(p) ==
  record' = [record EXCEPT ![p] = IF ResultOf(p) = "paid" THEN "COMPLETED" ELSE "FAILED"]

(* What either callback route does next: a success goes to the split, a    *)
(* failure to recordFailedCollection, both by the merchant's reference.    *)
HandOver(h, result) ==
  /\ report' = [report EXCEPT ![h] = result]
  /\ Goto(h, "lookup")

(* startMixedCashEscrowAfterMpesa reserves the CASH part of a mixed        *)
(* payment for the row it finds by its own, internal reference, to which   *)
(* it is given the merchant's; without one it returns.                     *)
StartMixedEscrow(result) ==
  admitted' = admitted \cup (IF kind = "MIXED" /\ result = "paid"
                            THEN {s \in Started \cap Requests : s = Reference} ELSE {})

(* Mutant: the callback's result code is not looked at.                    *)
ReceiveCallbackUnparsed(h, p) ==
  /\ pc[h] = "idle"
  /\ customer[p] \in {"paid", "declined"}
  /\ record' = [record EXCEPT ![p] = "COMPLETED"]
  /\ StartMixedEscrow("paid")
  /\ HandOver(h, "paid")
  /\ UNCHANGED <<kind, row, parent, customer, outside, dispatched, requestVars,
                 target, view>>

(* A delivery of the push's result, on the route with its identifier.      *)
ReceiveCallback(h, p) ==
  /\ pc[h] = "idle"
  /\ customer[p] \in {"paid", "declined"}
  /\ UpsertRecord(p)
  /\ StartMixedEscrow(ResultOf(p))
  /\ HandOver(h, ResultOf(p))
  /\ UNCHANGED <<kind, row, parent, customer, outside, dispatched, requestVars,
                 target, view>>

(* findSettlementByReference on the merchant's reference: any row of it.   *)
FindSettlement(a) ==
  /\ pc[a] = "lookup"
  /\ \E s \in Started :
       /\ target' = [target EXCEPT ![a] = s]
       /\ view' = [view EXCEPT ![a] = row[s]]
  /\ Goto(a, IF report[a] = "failed" THEN "declined" ELSE "confirm")
  /\ UNCHANGED <<kind, row, parent, payVars, admitted, outside, dispatched,
                 requestVars, report>>

(* An actor is through: a handler is free again, a request is done.        *)
Finish(a) ==
  /\ Goto(a, IF a \in Requests THEN "done" ELSE "idle")
  /\ report' = [report EXCEPT ![a] = "none"]
  /\ target' = [target EXCEPT ![a] = None]
  /\ view' = [view EXCEPT ![a] = Absent]

(* Mutant: a failure only ends the delivery.                               *)
HandleDeclineIgnored(h) ==
  /\ pc[h] = "declined"
  /\ UNCHANGED row
  /\ Finish(h)
  /\ UNCHANGED <<kind, parent, payVars, admitted, outside, dispatched, requestVars>>

(* handlePaymentCallback of a failure: ignored if the row it has read      *)
(* counts as confirmed.                                                    *)
HandleDecline(h) ==
  /\ pc[h] = "declined"
  /\ \/ Confirmed(view[h]) /\ UNCHANGED row
     \/ /\ ~Confirmed(view[h])
        /\ row' = [row EXCEPT ![target[h]] = [view[h] EXCEPT !.status = "FAILED"]]
  /\ Finish(h)
  /\ UNCHANGED <<kind, parent, payVars, admitted, outside, dispatched, requestVars>>

--------------------------------------------------------------------------------
(* Mutant: the copy the split is made from keeps the waiting plan.         *)
ConfirmMpesaElsewhere(a) ==
  /\ pc[a] = "confirm"
  /\ row' = IF report[a] = "paid" /\ view[a].plan # "NONE"
              THEN [row EXCEPT ![target[a]].status = "PENDING_PROCESSING",
                               ![target[a]].plan = "SUCCESS"]
              ELSE row
  /\ Goto(a, "split")
  /\ UNCHANGED <<kind, parent, payVars, admitted, outside, dispatched,
                 requestVars, handlerVars>>

(* splitAndAllocateFunds: a plan that waits for the customer is settled    *)
(* first, with all that was read.                                          *)
ConfirmMpesa(a) ==
  /\ pc[a] = "confirm"
  /\ IF report[a] = "paid" /\ view[a].plan # "NONE"
       THEN LET confirmed == [view[a] EXCEPT !.status = "PENDING_PROCESSING",
                                             !.plan = "SUCCESS"]
            IN  /\ row' = [row EXCEPT ![target[a]] = confirmed]
                /\ view' = [view EXCEPT ![a] = confirmed]
       ELSE UNCHANGED <<row, view>>
  /\ Goto(a, "split")
  /\ UNCHANGED <<kind, parent, payVars, admitted, outside, dispatched,
                 requestVars, report, target>>

(* A row with an escrow transfer waits for payoutSource, which it read     *)
(* with the row, or for the transfer to succeed, after its payouts; a row  *)
(* without one, as the supplier's is, does not.                            *)
Funded(a)   == target[a] \in admitted => view[a].source \/ dispatched # {}
Unfunded(a) == target[a] \in admitted /\ ~view[a].source

(* The split is put off: the caller is told to wait for a callback.        *)
PostponeSplit(a) ==
  /\ pc[a] = "split"
  /\ view[a].plan = "WAITING" \/ Unfunded(a)
  /\ Finish(a)
  /\ UNCHANGED <<kind, row, parent, payVars, admitted, outside, dispatched, requestVars>>

RecordSplit(a) ==
  /\ pc[a] = "split"
  /\ view[a].plan # "WAITING"
  /\ Funded(a)
  /\ row' = [row EXCEPT ![target[a]] =
               [view[a] EXCEPT !.status = "PROCESSING", !.paid = TRUE, !.split = TRUE]]
  /\ Goto(a, "dispatch")
  /\ UNCHANGED <<kind, parent, payVars, admitted, outside, dispatched,
                 requestVars, handlerVars>>

(* The rows through which dispatching for s may be allowed: itself, its    *)
(* parent, and whatever another lookup by its tag returns.                 *)
Validating(s) ==
  {s} \cup (IF s = Child THEN {parent} ELSE {})
      \cup (IF row[s].tagged THEN Started ELSE {})

MayDispatch(s) == \E v \in Validating(s) \cap Rows : Confirmed(row[v])

(* Mutant: dispatchB2bPayouts does not ask for a confirmation.             *)
DispatchUngated(a) ==
  /\ pc[a] = "dispatch"
  /\ \E s \in Started : dispatched' = dispatched \cup {s}
  /\ Finish(a)
  /\ UNCHANGED <<kind, row, parent, payVars, admitted, outside, requestVars>>

(* dispatchB2bPayouts looks the reference up anew; the lookup by the tag   *)
(* may also miss, and then the payouts are refused.                        *)
Dispatch(a) ==
  /\ pc[a] = "dispatch"
  /\ \E s \in Started :
       \/ MayDispatch(s) /\ dispatched' = dispatched \cup {s}
       \/ ~Confirmed(row[s]) /\ UNCHANGED dispatched
  /\ Finish(a)
  /\ UNCHANGED <<kind, row, parent, payVars, admitted, outside, requestVars>>

CallFromOutside == calls < MaxCalls /\ calls' = calls + 1

(* POST payouts/dispatch.                                                  *)
RequestDispatch(h) ==
  /\ pc[h] = "idle"
  /\ Started # {}
  /\ CallFromOutside /\ UNCHANGED vouched
  /\ Goto(h, "dispatch")
  /\ UNCHANGED <<kind, row, parent, payVars, admitted, dispatched,
                 requestVars, handlerVars>>

--------------------------------------------------------------------------------
(* The gateway reports a payment by POST payment-callback.                 *)
ReportPayment(h) ==
  /\ pc[h] = "idle"
  /\ \E s \in Started :
       /\ target' = [target EXCEPT ![h] = s]
       /\ view' = [view EXCEPT ![h] = row[s]]
  /\ CallFromOutside /\ vouched' = TRUE
  /\ Goto(h, "reported")
  /\ UNCHANGED <<kind, row, parent, payVars, admitted, dispatched, requestVars,
                 report>>

(* handlePaymentCallback of a success: no split, no dispatch.              *)
HandleReport(h) ==
  /\ pc[h] = "reported"
  /\ row' = [row EXCEPT ![target[h]] =
               [view[h] EXCEPT !.status = "PENDING_PROCESSING", !.paid = TRUE]]
  /\ Finish(h)
  /\ UNCHANGED <<kind, parent, payVars, admitted, outside, dispatched, requestVars>>

(* POST payment-confirmation names a row by its id; a row that is being    *)
(* processed is left alone.                                                *)
ConfirmPayment(h, s) ==
  /\ pc[h] = "idle"
  /\ s \in Started
  /\ row[s].status \notin {"PENDING_PROCESSING", "PROCESSING", "COMPLETED"}
  /\ target' = [target EXCEPT ![h] = s]
  /\ view' = [view EXCEPT ![h] = row[s]]
  /\ CallFromOutside /\ vouched' = TRUE
  /\ Goto(h, "vouch")
  /\ UNCHANGED <<kind, row, parent, payVars, admitted, dispatched, requestVars,
                 report>>

WriteConfirmation(h) ==
  /\ pc[h] = "vouch"
  /\ row' = [row EXCEPT ![target[h]] =
               [view[h] EXCEPT !.status = "PENDING_PROCESSING", !.paid = TRUE]]
  /\ Goto(h, "pay")
  /\ UNCHANGED <<kind, parent, payVars, admitted, outside, dispatched,
                 requestVars, handlerVars>>

(* The internal reference is the row's own: this dispatch finds its row.   *)
DispatchConfirmed(h) ==
  /\ pc[h] = "pay"
  /\ \/ MayDispatch(target[h]) /\ dispatched' = dispatched \cup {target[h]}
     \/ ~Confirmed(row[target[h]]) /\ UNCHANGED dispatched
  /\ Finish(h)
  /\ UNCHANGED <<kind, row, parent, payVars, admitted, outside, requestVars>>

(* reconcileSettlement: COMPLETED by id, from any status.                  *)
Reconcile(s) ==
  /\ s \in Started
  /\ row[s].status # "COMPLETED"
  /\ row' = [row EXCEPT ![s].status = "COMPLETED"]
  /\ CallFromOutside /\ vouched' = TRUE
  /\ UNCHANGED <<kind, parent, payVars, admitted, dispatched, pc, requestVars,
                 handlerVars>>

Initiate(r) ==
  \/ FindExisting(r) \/ CreateSettlement(r) \/ WritePlan(r) \/ StartCash(r)
  \/ AdmitCash(r) \/ ReadSource(r) \/ WriteSource(r) \/ RejectCash(r)
  \/ CreateRecord(r) \/ PushStk(r)
  \/ RecordAnswer(r) \/ FailInitiation(r) \/ CreateChildren(r)

Allocate(a) ==
  \/ FindSettlement(a) \/ ConfirmMpesa(a) \/ PostponeSplit(a) \/ RecordSplit(a)
  \/ Dispatch(a)

Handle(h) ==
  \/ HandleDecline(h) \/ HandleReport(h) \/ WriteConfirmation(h) \/ DispatchConfirmed(h)

Next ==
  \/ \E r \in Requests : Initiate(r)
  \/ \E a \in Actors : Allocate(a)
  \/ \E h \in Handlers : Handle(h)
  \/ \E p \in Pushes : CustomerResponds(p)
  \/ \E h \in Handlers, p \in Pushes : ReceiveCallback(h, p)
  \/ \E h \in Handlers : RequestDispatch(h) \/ ReportPayment(h)
  \/ \E h \in Handlers, s \in Rows : ConfirmPayment(h, s)
  \/ \E s \in Rows : Reconcile(s)

(* Calls under way end, and Safaricom delivers each result at least once.  *)
Fairness ==
  /\ \A r \in Requests : WF_vars(Initiate(r))
  /\ \A a \in Actors : WF_vars(Allocate(a))
  /\ \A h \in Handlers : WF_vars(Handle(h))
  /\ \A p \in Pushes : SF_vars(\E h \in Handlers : ReceiveCallback(h, p))

Spec     == Init /\ [][Next]_vars
FairSpec == Spec /\ Fairness

--------------------------------------------------------------------------------
Collected == \E p \in Pushes : customer[p] = "paid"

(* SplitIsPaid: a settlement is split for payouts only when what was asked *)
(* of the customer by M-Pesa has been paid; a CASH one, when its amount is *)
(* reserved.  (The CASH part of a mixed one is SplitIsReserved's.)         *)
SplitIsPaid ==
  \A s \in Rows : row[s].split => IF kind = "CASH" THEN admitted # {} ELSE Collected

(* SplitIsReserved: what the documentation says of a mixed payment: its    *)
(* CASH part is reserved on the retailer's float before the split.         *)
SplitIsReserved ==
  \A s \in Rows : kind = "MIXED" /\ row[s].split => admitted # {}

(* The gate of dispatchB2bPayouts, which reads any row of the reference,   *)
(* opens for an M-Pesa settlement only once the customer has paid or       *)
(* someone has vouched for it, whatever initiation has written meanwhile.  *)
GateOpensOnPayment ==
  kind = "MPESA" /\ dispatched # {} => Collected \/ vouched

(* Once an initiation has got through, a repetition finds a settlement,    *)
(* whatever the rows' metadata have been overwritten with since.           *)
RepeatRecognised == Exists(Child) => \E s \in Started : row[s].tagged

(* A customer's payment leads to a split, by whichever push and row.       *)
PaidIsSplit == <>Collected => <>(\E s \in Rows : row[s].split)

(* A declined M-Pesa collection is recorded as failed, unless a payment is *)
(* known by another push or from outside.                                  *)
DeclineIsRecorded ==
  <>(kind = "MPESA" /\ \E p \in Pushes : customer[p] = "declined") =>
    <>(vouched \/ \E s \in Rows : row[s].status = "FAILED" \/ row[s].paid)

(* AdmittedIsAllocated: a CASH settlement that is initiated is allocated,  *)
(* as no callback will come for it, unless a confirmation from outside     *)
(* wrote back metadata it had read before payoutSource was there.          *)
SourceDropped == vouched /\ \E r \in admitted : ~row[r].source

AdmittedIsAllocated ==
  <>(kind = "CASH" /\ Exists(Child)) =>
    <>(Exists(Child) /\ (SourceDropped \/ \E s \in Rows : row[s].split))

(* Repeating a reference returns its settlement: a request that finds one  *)
(* already there does not go on to create a second.                        *)
RepeatReturnsExisting ==
  [][\A r \in Requests : pc[r] = "new" /\ Started # {} => pc'[r] # "create"]_vars
================================================================================
