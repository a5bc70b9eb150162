-------------------------------- MODULE Payouts --------------------------------
(***************************************************************************)
(* The payouts of ONE settlement whose CASH leg the central account pays:  *)
(* one attempt row per recipient, sent to Safaricom by whoever dispatches  *)
(* it (the split after a payment callback, POST payouts/dispatch, a manual *)
(* retry, the retry scheduler) and settled by Safaricom's result callback. *)
(* Once every attempt is COMPLETED the reserved CASH leg is debited        *)
(* (FinalizeDirectCash in module EscrowFloat).                             *)
(*                                                                         *)
(* Dispatchers and callbacks run concurrently, each await a step boundary; *)
(* every write of an attempt is by key and unconditional, and the          *)
(* settlement's metadata is written back from a copy read at the start.    *)
(***************************************************************************)
EXTENDS Integers, FiniteSets

CONSTANTS
  Payouts,     \* recipients with an amount to be paid
  Bank,        \* those paid by B2B, whose results do not carry our reference
  Workers,     \* requests that may dispatch at once
  Scheduler,   \* the retry scheduler, never twice at once (isRunning)
  Callbacks,   \* deliveries of results handled at once
  MaxRetries,  \* maxRetries of the retry policy
  BatchSize,   \* RETRY_BATCH_SIZE, 10 in the code
  Lossy,       \* may Safaricom's answer to a payment it took in be lost?
  Faulty,      \* may recording the answer fail?
  None

ASSUME PayoutAssumption ==
  /\ Payouts # {}
  /\ Bank \subseteq Payouts
  /\ Scheduler \notin Workers
  /\ None \notin Payouts
  /\ MaxRetries \in Nat \ {0}
  /\ BatchSize \in Nat \ {0}
  /\ Lossy \in BOOLEAN /\ Faulty \in BOOLEAN

Dispatchers == Workers \cup {Scheduler}

AttemptStatuses == {"NONE", "PENDING", "SUBMITTED", "COMPLETED", "FAILED", "RETRYING"}
Retriable       == {"FAILED", "RETRYING"}

(* What the metadata hold: the split record, and for a bank payout the     *)
(* dispatch record that its callback is looked up by.                      *)
Split   == "split"
Entries == {Split} \cup Bank

DispatchSteps == {"idle", "confirm", "split", "next", "lookup", "create", "send", "record",
                  "write", "schedule", "again", "exhausted"}
Free          == {"idle", "confirm", "split", "next"}   \* no payout in hand
CallbackSteps == {"idle", "mark", "write", "settlement", "attempts", "debit", "ack"}

VARIABLES
  attempt,     \* B2BPayoutAttempt.status of each payout, "NONE" without a row
  count,       \* attemptCount
  due,         \* payouts whose nextRetryAt is set (and passes in time)
  earlier,     \* the pairs <<q, p>> of them with the nextRetryAt of q before p's
  metadata,    \* entries of the settlement's metadata
  transfer,    \* status of the settlement's escrow transfer
  results,     \* results Safaricom has produced, delivered once, often or never
  pc, task,    \* where each dispatcher is, and the payout it dispatches
  todo,        \* the payouts it has still to dispatch after that
  isNew,       \* did this dispatch create the attempt?
  gateway,     \* the status the gateway's answer calls for
  view,        \* the metadata as a dispatcher or a delivery has read them
  cpc, report, \* where each delivery is, and the result it delivers
  unsplit      \* history: a delivery has found no split record to finalise by

attemptVars  == <<attempt, count, due, earlier>>
dispatchVars == <<pc, task, todo, isNew, gateway>>
callbackVars == <<cpc, report>>
metaVars     == <<metadata, unsplit>>
vars == <<attempt, count, due, earlier, metadata, transfer, results, pc, task, todo,
          isNew, gateway, view, cpc, report, unsplit>>

Results == [p : Payouts, ok : BOOLEAN]

TypeOK ==
  /\ attempt \in [Payouts -> AttemptStatuses]
  /\ count \in [Payouts -> Nat]
  /\ due \in SUBSET Payouts
  /\ earlier \in SUBSET (Payouts \X Payouts)
  /\ metadata \in SUBSET Entries
  /\ transfer \in {"BALANCE_VERIFIED", "SUCCEEDED"}
  /\ results \in SUBSET Results
  /\ pc \in [Dispatchers -> DispatchSteps]
  /\ task \in [Dispatchers -> Payouts \cup {None}]
  /\ todo \in [Dispatchers -> SUBSET Payouts]
  /\ isNew \in [Dispatchers -> BOOLEAN]
  /\ gateway \in [Dispatchers -> {"SUBMITTED", "FAILED"}]
  /\ view \in [Dispatchers \cup Callbacks -> SUBSET Entries]
  /\ cpc \in [Callbacks -> CallbackSteps]
  /\ report \in [Callbacks -> results \cup {None}]
  /\ unsplit \in BOOLEAN

(* The transfer has been admitted and payoutSource written (EscrowFloat).  *)
Init ==
  /\ attempt = [p \in Payouts |-> "NONE"]
  /\ count = [p \in Payouts |-> 1]
  /\ due = {}
  /\ earlier = {}
  /\ metadata = {}
  /\ transfer = "BALANCE_VERIFIED"
  /\ results = {}
  /\ pc = [w \in Dispatchers |-> "idle"]
  /\ task = [w \in Dispatchers |-> None]
  /\ todo = [w \in Dispatchers |-> {}]
  /\ isNew = [w \in Dispatchers |-> FALSE]
  /\ gateway = [w \in Dispatchers |-> "FAILED"]
  /\ view = [x \in Dispatchers \cup Callbacks |-> {}]
  /\ cpc = [c \in Callbacks |-> "idle"]
  /\ report = [c \in Callbacks |-> None]
  /\ unsplit = FALSE

--------------------------------------------------------------------------------
Goto(w, step) == pc' = [pc EXCEPT ![w] = step]

(* Every write of the metadata: the copy x has read, and the entries added. *)
WriteMetadata(x, entries) ==
  /\ metadata' = view[x] \cup entries
  /\ unsplit' = unsplit
  /\ view' = [view EXCEPT ![x] = {}]

(* A request that wants the payouts P dispatched.                          *)
Request(w, P) ==
  /\ pc[w] = "idle"
  /\ P # {}
  /\ todo' = [todo EXCEPT ![w] = P]
  /\ Goto(w, "next")
  /\ UNCHANGED <<attemptVars, metaVars, view, transfer, results, task, isNew,
                 gateway, callbackVars>>

(* splitAndAllocateFunds: reads the settlement, writes the split record    *)
(* and dispatches every payout.  Each payment callback does so again.      *)
BeginSplit(w) ==
  /\ w # Scheduler
  /\ pc[w] = "idle"
  /\ view' = [view EXCEPT ![w] = metadata]
  /\ Goto(w, "confirm")
  /\ UNCHANGED <<attemptVars, metaVars, transfer, results, task, todo, isNew,
                 gateway, callbackVars>>

(* If the customer pays a part by M-Pesa, that this part is in is written  *)
(* first, with all that was read.                                          *)
ConfirmMpesa(w) ==
  /\ pc[w] = "confirm"
  /\ metadata' \in {metadata, view[w]}
  /\ Goto(w, "split")
  /\ UNCHANGED <<attemptVars, unsplit, view, transfer, results, task, todo, isNew,
                 gateway, callbackVars>>

RecordSplit(w) ==
  /\ pc[w] = "split"
  /\ WriteMetadata(w, {Split})
  /\ todo' = [todo EXCEPT ![w] = Payouts]
  /\ Goto(w, "next")
  /\ UNCHANGED <<attemptVars, transfer, results, task, isNew, gateway, callbackVars>>

(* POST payouts/dispatch and POST payouts/manual-retry.                    *)
RequestDispatch(w, p) == w # Scheduler /\ Request(w, {p})

ManualRetry(w) == w # Scheduler /\ Request(w, {p \in Payouts : attempt[p] \in Retriable})

(* getPendingRetries, by nextRetryAt; an attempt that has been given up    *)
(* keeps its place.                                                        *)
Pending  == {p \in due : attempt[p] \in Retriable}
Ahead(p) == {q \in Pending : <<q, p>> \in earlier}

(* Mutant: the batch is cut from the end of the queue that is due last.    *)
ProcessRetriesLatest ==
  Request(Scheduler,
    {p \in Pending : Cardinality({q \in Pending : <<p, q>> \in earlier}) < BatchSize})

(* processRetries: the first of them, BatchSize at most.                   *)
ProcessRetries ==
  Request(Scheduler, {p \in Pending : Cardinality(Ahead(p)) < BatchSize})

(* The dispatch is over, by a return or by an exception its caller logs.   *)
EndDispatch(w) ==
  /\ Goto(w, IF todo[w] = {} THEN "idle" ELSE "next")
  /\ task' = [task EXCEPT ![w] = None]
  /\ isNew' = [isNew EXCEPT ![w] = FALSE]
  /\ gateway' = [gateway EXCEPT ![w] = "FAILED"]

--------------------------------------------------------------------------------
(* dispatchB2bPayouts.  The gate on the customer's payment is open: the    *)
(* settlement is PENDING_PROCESSING from before its CASH leg was admitted. *)
BeginDispatch(w, p) ==
  /\ pc[w] = "next"
  /\ p \in todo[w]
  /\ todo' = [todo EXCEPT ![w] = @ \ {p}]
  /\ task' = [task EXCEPT ![w] = p]
  /\ view' = [view EXCEPT ![w] = metadata]
  /\ Goto(w, "lookup")
  /\ UNCHANGED <<attemptVars, metaVars, transfer, results, isNew, gateway, callbackVars>>

(* createOrGetPayoutAttempt: a completed payout is not sent again.         *)
LookupAttempt(w) ==
  /\ pc[w] = "lookup"
  /\ \/ attempt[task[w]] = "NONE" /\ Goto(w, "create") /\ UNCHANGED <<task, isNew, gateway, view>>
     \/ attempt[task[w]] = "COMPLETED" /\ EndDispatch(w) /\ view' = [view EXCEPT ![w] = {}]
     \/ /\ attempt[task[w]] \notin {"NONE", "COMPLETED"}
        /\ Goto(w, "send")
        /\ UNCHANGED <<task, isNew, gateway, view>>
  /\ UNCHANGED <<attemptVars, metaVars, transfer, results, todo, callbackVars>>

(* The unique idempotencyKey makes the slower of two creations throw.      *)
CreateAttempt(w) ==
  /\ pc[w] = "create"
  /\ IF attempt[task[w]] = "NONE"
     THEN /\ attempt' = [attempt EXCEPT ![task[w]] = "PENDING"]
          /\ isNew' = [isNew EXCEPT ![w] = TRUE]
          /\ Goto(w, "send")
          /\ UNCHANGED <<task, gateway, view>>
     ELSE EndDispatch(w) /\ attempt' = attempt /\ view' = [view EXCEPT ![w] = {}]
  /\ UNCHANGED <<count, due, earlier, metaVars, transfer, results, todo, callbackVars>>

(* sendB2bGatewayPayoutRequest: every failure of the call is an answer     *)
(* without success, also when Safaricom has taken the payment in.          *)
SendPayout(w) ==
  /\ pc[w] = "send"
  /\ \E arrived, answered, ok \in BOOLEAN :
       /\ answered => arrived
       /\ ~Lossy => answered = arrived
       /\ results' = IF arrived THEN results \cup {[p |-> task[w], ok |-> ok]} ELSE results
       /\ gateway' = [gateway EXCEPT ![w] = IF answered THEN "SUBMITTED" ELSE "FAILED"]
  /\ Goto(w, "record")
  /\ UNCHANGED <<attemptVars, metaVars, view, transfer, task, todo, isNew, callbackVars>>

(* Mutant: the catch schedules a retry of any attempt, not just its own.   *)
RecordAnswerSchedulesAny(w) ==
  /\ pc[w] = "record"
  /\ \/ attempt' = [attempt EXCEPT ![task[w]] = gateway[w]] /\ Goto(w, "write") /\ view' = view
     \/ /\ Faulty
        /\ attempt' = attempt
        /\ Goto(w, "schedule")
        /\ view' = [view EXCEPT ![w] = {}]
  /\ UNCHANGED <<count, due, earlier, metaVars, transfer, results, task, todo, isNew, gateway,
                 callbackVars>>

(* updatePayoutAttemptStatus; when it throws, the catch schedules a retry  *)
(* of an attempt this dispatch created, and rethrows.                      *)
RecordAnswer(w) ==
  /\ pc[w] = "record"
  /\ \/ /\ attempt' = [attempt EXCEPT ![task[w]] = gateway[w]]
        /\ Goto(w, "write")
        /\ UNCHANGED <<task, isNew, gateway, view>>
     \/ /\ Faulty
        /\ attempt' = attempt
        /\ IF isNew[w]
           THEN Goto(w, "schedule") /\ UNCHANGED <<task, isNew, gateway>>
           ELSE EndDispatch(w)
        /\ view' = [view EXCEPT ![w] = {}]
  /\ UNCHANGED <<count, due, earlier, metaVars, transfer, results, todo, callbackVars>>

(* The last write of a dispatch; the scheduler then schedules the next     *)
(* try of a payout the gateway has refused.                                *)
WriteDispatch(w) ==
  /\ pc[w] = "write"
  /\ WriteMetadata(w, {task[w]} \cap Bank)
  /\ IF w = Scheduler /\ gateway[w] = "FAILED"
     THEN Goto(w, "schedule") /\ UNCHANGED <<task, isNew, gateway>>
     ELSE EndDispatch(w)
  /\ UNCHANGED <<attemptVars, transfer, results, todo, callbackVars>>

(* scheduleFailedPayoutForRetry: reads attemptCount and decides; ...       *)
ScheduleRetry(w) ==
  /\ pc[w] = "schedule"
  /\ Goto(w, IF count[task[w]] >= MaxRetries THEN "exhausted" ELSE "again")
  /\ UNCHANGED <<attemptVars, metaVars, view, transfer, results, task, todo, isNew,
                 gateway, callbackVars>>

(* nextRetryAt of p is set anew.  The delay depends on the number of tries *)
(* and is random in part: p may come before or after any other.            *)
Reschedule(p) ==
  \E before \in SUBSET (due \ {p}) :
    LET after == (due \ {p}) \ before
        rest  == {o \in earlier : p \notin {o[1], o[2]}}
    IN  /\ before \X after \subseteq earlier
        /\ due' = due \cup {p}
        /\ earlier' = rest \cup (before \X {p}) \cup ({p} \X after)

(* ... then writes by id whatever the row holds by now.  A payout that is  *)
(* given up keeps its nextRetryAt.                                         *)
WriteRetry(w) ==
  /\ \/ /\ pc[w] = "again"
        /\ attempt' = [attempt EXCEPT ![task[w]] = "RETRYING"]
        /\ count' = [count EXCEPT ![task[w]] = @ + 1]
        /\ Reschedule(task[w])
     \/ /\ pc[w] = "exhausted"
        /\ attempt' = [attempt EXCEPT ![task[w]] = "FAILED"]
        /\ UNCHANGED <<count, due, earlier>>
  /\ EndDispatch(w)
  /\ UNCHANGED <<metaVars, view, transfer, results, todo, callbackVars>>

--------------------------------------------------------------------------------
CGoto(c, step) == cpc' = [cpc EXCEPT ![c] = step]

(* handleB2bPayoutCallback.  A bank payout's result is matched through the *)
(* metadata, to the settlement only; without a match it is acknowledged.   *)
ReceiveResult(c, r) ==
  /\ r \in results
  /\ cpc[c] = "idle"
  /\ report' = [report EXCEPT ![c] = r]
  /\ view' = [view EXCEPT ![c] = metadata]
  /\ CGoto(c, IF r.p \notin Bank THEN "mark"
              ELSE IF r.p \in metadata THEN "write" ELSE "ack")
  /\ UNCHANGED <<attemptVars, metaVars, transfer, results, dispatchVars>>

(* Mutant: any result of the payment completes the attempt.                *)
MarkCallbackAnyResult(c) ==
  /\ cpc[c] = "mark"
  /\ attempt' = [attempt EXCEPT ![report[c].p] = "COMPLETED"]
  /\ CGoto(c, "write")
  /\ UNCHANGED <<count, due, earlier, metaVars, view, transfer, results, dispatchVars, report>>

(* Mutant: the status of the dispatch record, not of the attempt.          *)
MarkCallbackAsPaid(c) ==
  /\ cpc[c] = "mark"
  /\ attempt' = [attempt EXCEPT ![report[c].p] = IF report[c].ok THEN "PAID" ELSE "FAILED"]
  /\ CGoto(c, "write")
  /\ UNCHANGED <<count, due, earlier, metaVars, view, transfer, results, dispatchVars, report>>

(* markCallbackReceived: unconditional.                                    *)
MarkCallback(c) ==
  /\ cpc[c] = "mark"
  /\ attempt' = [attempt EXCEPT ![report[c].p] = IF report[c].ok THEN "COMPLETED" ELSE "FAILED"]
  /\ CGoto(c, "write")
  /\ UNCHANGED <<count, due, earlier, metaVars, view, transfer, results, dispatchVars, report>>

WriteCallback(c) ==
  /\ cpc[c] = "write"
  /\ WriteMetadata(c, {})
  /\ CGoto(c, IF report[c].ok THEN "settlement" ELSE "ack")
  /\ UNCHANGED <<attemptVars, transfer, results, dispatchVars, report>>

(* finalizeDirectCashLedger: three reads and a conditional update.         *)
CheckSettlement(c) ==
  /\ cpc[c] = "settlement"
  /\ CGoto(c, IF Split \in metadata /\ transfer = "BALANCE_VERIFIED" THEN "attempts" ELSE "ack")
  /\ unsplit' = (unsplit \/ Split \notin metadata)
  /\ UNCHANGED <<attemptVars, metadata, view, transfer, results, dispatchVars, report>>

(* Mutant: whatever else is under way counts as a failed payout.           *)
CheckAttemptsWhenIdle(c) ==
  /\ cpc[c] = "attempts"
  /\ CGoto(c, IF /\ \A p \in Payouts : attempt[p] = "COMPLETED"
                 /\ \A b \in Callbacks \ {c} : cpc[b] = "idle"
              THEN "debit" ELSE "ack")
  /\ UNCHANGED <<attemptVars, metaVars, view, transfer, results, dispatchVars, report>>

CheckAttempts(c) ==
  /\ cpc[c] = "attempts"
  /\ CGoto(c, IF \A p \in Payouts : attempt[p] = "COMPLETED" THEN "debit" ELSE "ack")
  /\ UNCHANGED <<attemptVars, metaVars, view, transfer, results, dispatchVars, report>>

Debit(c) ==
  /\ cpc[c] = "debit"
  /\ transfer' = "SUCCEEDED"
  /\ CGoto(c, "ack")
  /\ UNCHANGED <<attemptVars, metaVars, view, results, dispatchVars, report>>

Acknowledge(c) ==
  /\ cpc[c] = "ack"
  /\ report' = [report EXCEPT ![c] = None]
  /\ view' = [view EXCEPT ![c] = {}]
  /\ CGoto(c, "idle")
  /\ UNCHANGED <<attemptVars, metaVars, transfer, results, dispatchVars>>

--------------------------------------------------------------------------------
Dispatch(w) ==
  \/ ConfirmMpesa(w) \/ RecordSplit(w) \/ (\E p \in Payouts : BeginDispatch(w, p)) \/ LookupAttempt(w)
  \/ CreateAttempt(w) \/ SendPayout(w) \/ RecordAnswer(w) \/ WriteDispatch(w)
  \/ ScheduleRetry(w) \/ WriteRetry(w)

Handle(c) ==
  \/ MarkCallback(c) \/ WriteCallback(c) \/ CheckSettlement(c) \/ CheckAttempts(c)
  \/ Debit(c) \/ Acknowledge(c)

Next ==
  \/ \E w \in Workers :
       BeginSplit(w) \/ ManualRetry(w) \/ \E p \in Payouts : RequestDispatch(w, p)
  \/ ProcessRetries
  \/ \E w \in Dispatchers : Dispatch(w)
  \/ \E c \in Callbacks : Handle(c) \/ \E r \in results : ReceiveResult(c, r)

(* Node runs what it has started, and the interval timer never stops.      *)
Fairness ==
  /\ \A w \in Dispatchers : WF_vars(Dispatch(w))
  /\ \A c \in Callbacks : WF_vars(Handle(c))
  /\ WF_vars(ProcessRetries)

Spec == Init /\ [][Next]_vars /\ Fairness

--------------------------------------------------------------------------------
Paid(p) == [p |-> p, ok |-> TRUE] \in results

(* DebitedIsPaid: the retailer's balance is debited only when every        *)
(* recipient of the settlement has been paid, however results and          *)
(* dispatches interleave with the checks.                                  *)
DebitedIsPaid == transfer = "SUCCEEDED" => \A p \in Payouts : Paid(p)

(* ConfirmedIsDebited: when every attempt is COMPLETED and no delivery is  *)
(* being handled, the CASH leg has been debited (no two deliveries can     *)
(* each leave the debit to the other), unless a delivery came before the   *)
(* split record was written or after a stale write had dropped it.         *)
ConfirmedIsDebited ==
  /\ \A p \in Payouts : attempt[p] = "COMPLETED"
  /\ \A c \in Callbacks : cpc[c] = "idle"
  /\ ~unsplit
  => transfer = "SUCCEEDED"

(* RetriesBounded: attemptCount never passes maxRetries, although it is    *)
(* checked in one step and incremented in another, by requests and by the  *)
(* scheduler, and neither step excludes the other.                         *)
RetriesBounded == \A p \in Payouts : count[p] <= MaxRetries

(* RetryServed: a payout that is due for a retry is dispatched again by    *)
(* the scheduler or leaves FAILED and RETRYING otherwise, unless time and  *)
(* again a full batch is due before it.  (Payouts that were given up can   *)
(* be that batch for ever, and then it does starve.)                       *)
RetryServed ==
  \A p \in Payouts :
    p \in Pending ~> \/ task[Scheduler] = p
                     \/ p \notin Pending
                     \/ Cardinality(Ahead(p)) >= BatchSize

(* SentOnce: what the documentation guarantees of the idempotency key: no  *)
(* payment is taken in for a recipient that has already been paid.         *)
SentOnce ==
  [][\A w \in Dispatchers :
       pc[w] = "send" /\ gateway'[w] = "SUBMITTED" => ~Paid(task[w])]_vars

--------------------------------------------------------------------------------
(* What makes DebitedIsPaid and ConfirmedIsDebited inductive.              *)

(* Whoever works, works on something; a delivery carries a real result.    *)
BusyOK ==
  /\ \A w \in Dispatchers : pc[w] \notin Free => task[w] \in Payouts
  /\ \A c \in Callbacks : cpc[c] # "idle" => report[c] \in results

(* COMPLETED is only ever written for a result that says so, and a         *)
(* delivery about to debit has seen every attempt COMPLETED.               *)
PaidInv ==
  /\ DebitedIsPaid
  /\ \A p \in Payouts : attempt[p] = "COMPLETED" => Paid(p)
  /\ \A c \in Callbacks : cpc[c] = "debit" => \A p \in Payouts : Paid(p)

(* The delivery that completed the last attempt still has its check to do. *)
DebitComing ==
  \E c \in Callbacks :
    \/ cpc[c] \in {"settlement", "attempts", "debit"}
    \/ cpc[c] = "write" /\ report[c].ok

DebitInv ==
  (\A p \in Payouts : attempt[p] = "COMPLETED") /\ ~unsplit
    => transfer = "SUCCEEDED" \/ DebitComing

(* What makes RetriesBounded inductive: only the request that created an   *)
(* attempt, and after it the scheduler, ever schedule its next try, never  *)
(* both at once.                                                           *)
Scheduling(w) == pc[w] \in {"schedule", "again"}

RetryInv ==
  /\ \A p \in due : attempt[p] # "NONE"
  /\ task[Scheduler] # None => task[Scheduler] \in due
  /\ todo[Scheduler] \subseteq due /\ pc[Scheduler] \notin {"confirm", "split"}
  /\ \A w \in Dispatchers : isNew[w] => /\ pc[w] \notin Free
                                        /\ task[w] \notin due
                                        /\ attempt[task[w]] # "NONE"
  /\ \A w, v \in Dispatchers : isNew[w] /\ isNew[v] /\ task[w] = task[v] => w = v
  /\ \A w \in Dispatchers : Scheduling(w) => isNew[w] \/ w = Scheduler
  /\ \A w \in Dispatchers : pc[w] = "again" => count[task[w]] < MaxRetries
  /\ RetriesBounded
================================================================================
