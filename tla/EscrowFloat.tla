------------------------------ MODULE EscrowFloat ------------------------------
(***************************************************************************)
(* The virtual balance of ONE retailer (a row of retailer_escrow_floats)   *)
(* and the escrow transfers that draw on it.                               *)
(*                                                                         *)
(* A transfer is admitted against the balance in one database transaction, *)
(* holds its amount in reserve while money is collected and moved, and     *)
(* ends SUCCEEDED (debited) or FAILED / BALANCE_MISMATCH (released).  The  *)
(* balance is never stored: it is three SQL sums over the rows.            *)
(*                                                                         *)
(* Requests and callbacks run concurrently: a handler is one of them, and  *)
(* every await of the code is a step boundary.  PostgreSQL runs at its     *)
(* default isolation, READ COMMITTED: inside one transaction each          *)
(* statement sees what was committed when THAT statement started, and the  *)
(* writes of a transaction show together when it commits.                  *)
(***************************************************************************)
EXTENDS Integers, FiniteSets

CONSTANTS
  Transfers,    \* escrow transfers; a linked one stands for its settlement too
  Collected,    \* CASH legs started by the STK callback of a mixed settlement
  Standalone,   \* those of startStandaloneTransfer, linked to no settlement
  Legacy,       \* linked rows an earlier version left in BALANCE_PENDING
  Mixed,        \* legacy rows with mpesaAmount > 0: an STK push funds them
  Deposits,     \* float deposits of the retailer
  Amount,       \* KES amount of each transfer and deposit
  Total,        \* Total[S]: what SQL's SUM(amount) returns on the rows S
  Handlers,     \* requests and callbacks that may be in progress at once
  Lossy,        \* may the answer of a call that arrived be lost?
  Faulty,       \* may a statement of the database fail?
  None

Entries == Transfers \cup Deposits
Linked  == Transfers \ Standalone
Central == Transfers \ (Standalone \cup Legacy)   \* payoutSource CENTRAL_ACCOUNT
Moved   == Standalone \cup Legacy                 \* collected by a B2B transfer

ASSUME KindsAssumption ==
  /\ Collected \subseteq Central
  /\ Standalone \subseteq Transfers
  /\ Legacy \subseteq Linked
  /\ Mixed \subseteq Legacy
  /\ Transfers \cap Deposits = {}
  /\ None \notin Transfers \cup Handlers
  /\ Lossy \in BOOLEAN
  /\ Faulty \in BOOLEAN

ASSUME AmountAssumption == Amount \in [Entries -> Nat \ {0}]

(* All that is assumed of a sum: it is additive over disjoint sets of rows. *)
ASSUME TotalAssumption ==
  /\ Total \in [SUBSET Entries -> Nat]
  /\ Total[{}] = 0
  /\ \A e \in Entries : Total[{e}] = Amount[e]
  /\ \A S, T \in SUBSET Entries :
       S \cap T = {} => Total[S \cup T] = Total[S] + Total[T]

ReservedStatuses ==
  {"BALANCE_PENDING", "BALANCE_VERIFIED", "WAITING_FOR_MPESA", "TRANSFER_PENDING"}
FinalStatuses == {"FAILED", "BALANCE_MISMATCH", "SUCCEEDED"}
Statuses      == {"NONE"} \cup ReservedStatuses \cup FinalStatuses

MpesaStatuses == {"NOT_REQUIRED", "NOT_STARTED", "PENDING_CALLBACK", "SUCCESS"}

(* Results Safaricom has produced.  Each may be delivered late, several    *)
(* times, or never, so they are never removed.                             *)
Results == [type : {"STK", "B2B"}, t : Transfers, ok : BOOLEAN]

(* Where a handler is.  Those of LockSteps hold the open transaction.      *)
LockSteps    == {"sumPaid", "sumReserved", "commit"}
CentralSteps == LockSteps \cup
  {"reopen", "claim", "rejected", "created", "cashStatus", "cashKept", "cashBare"}
WriterSteps  == {"writeKept", "writeBare"}
MovedSteps   ==
  {"balanceOk", "fund", "stkPush", "stkSuccess", "dispatch", "pending",
   "b2b", "success", "successWrite", "fail", "failWrite", "mismatch", "mismatchWrite"}
Steps == {"idle"} \cup CentralSteps \cup WriterSteps \cup MovedSteps

VARIABLES
  status,            \* RetailerEscrowTransfer.status, "NONE" before the row exists
  mpesaStatus,       \* RetailerEscrowTransfer.mpesaStatus
  confirmed,         \* deposits whose status is SUCCEEDED
  credited,          \* history: deposits whose status has been SUCCEEDED
  activeTransferId,  \* the handler whose open transaction has claimed the float row
  sums,              \* the sums that transaction has read so far
  settlement,        \* what the escrow code makes of the linked settlement
  payoutSource,      \* settlements whose metadata say CENTRAL_ACCOUNT
  pc,                \* where each handler is
  task,              \* the transfer it works on
  results,           \* what Safaricom has to report
  b2bSent,           \* B2B payments Safaricom has carried out for each transfer
  slipped            \* history: CASH legs debited between the paid and the reserved sum

rowVars        == <<status, slipped>>
depositVars    == <<confirmed, credited>>
floatVars      == <<activeTransferId, sums>>
settlementVars == <<settlement, payoutSource>>
handlerVars    == <<pc, task>>
mpesaVars      == <<mpesaStatus, results, b2bSent>>
vars == <<status, mpesaStatus, confirmed, credited, activeTransferId, sums, settlement,
          payoutSource, pc, task, results, b2bSent, slipped>>

NoSums == [deposited |-> 0, paid |-> 0, reserved |-> 0]

TypeOK ==
  /\ status \in [Transfers -> Statuses]
  /\ mpesaStatus \in [Transfers -> MpesaStatuses]
  /\ confirmed \in SUBSET Deposits
  /\ credited \in SUBSET Deposits
  /\ activeTransferId \in Handlers \cup {None}
  /\ sums \in [deposited : Nat, paid : Nat, reserved : Nat]
  /\ settlement \in [Transfers -> {"NEW", "OPEN", "FAILED"}]
  /\ payoutSource \in SUBSET Central
  /\ pc \in [Handlers -> Steps]
  /\ task \in [Handlers -> Transfers \cup {None}]
  /\ results \in SUBSET Results
  /\ b2bSent \in [Transfers -> Nat]
  /\ slipped \in SUBSET Central

Init ==
  /\ status = [t \in Transfers |-> IF t \in Legacy THEN "BALANCE_PENDING" ELSE "NONE"]
  /\ mpesaStatus = [t \in Transfers |-> IF t \in Mixed THEN "NOT_STARTED" ELSE "NOT_REQUIRED"]
  /\ confirmed = {}
  /\ credited = {}
  /\ activeTransferId = None
  /\ sums = NoSums
  /\ settlement = [t \in Transfers |-> "NEW"]
  /\ payoutSource = {}
  /\ pc = [h \in Handlers |-> "idle"]
  /\ task = [h \in Handlers |-> None]
  /\ results = {}
  /\ b2bSent = [t \in Transfers |-> 0]
  /\ slipped = {}

--------------------------------------------------------------------------------
(* getBalanceSummary: the rows each aggregate of the balance ranges over.   *)

Paid      == {t \in Transfers : status[t] = "SUCCEEDED"}
Reserved  == {t \in Transfers : status[t] \in ReservedStatuses}
Committed == Paid \cup Reserved

AvailableBalance == sums.deposited - sums.paid - sums.reserved

(* Every write of a transfer's status.                                     *)
SetStatus(t, s) ==
  /\ status' = [status EXCEPT ![t] = s]
  /\ slipped' = IF /\ t \in Central /\ s = "SUCCEEDED"
                   /\ \E h \in Handlers : pc[h] = "sumReserved"
                THEN slipped \cup {t} ELSE slipped

Goto(h, step)     == pc' = [pc EXCEPT ![h] = step] /\ task' = task
Return(h)         == /\ pc' = [pc EXCEPT ![h] = "idle"]
                     /\ task' = [task EXCEPT ![h] = None]
Enter(h, t, step) == /\ pc[h] = "idle"
                     /\ pc' = [pc EXCEPT ![h] = step]
                     /\ task' = [task EXCEPT ![h] = t]

--------------------------------------------------------------------------------
(* A deposit callback has marked the deposit SUCCEEDED; or the request     *)
(* that asked for it, late, writes SUBMITTED or FAILED over that (module   *)
(* FloatDeposit).                                                          *)
ConfirmDeposit(d) ==
  /\ d \notin confirmed
  /\ confirmed' = confirmed \cup {d}
  /\ credited' = credited \cup {d}
  /\ UNCHANGED <<rowVars, floatVars, settlementVars, handlerVars, mpesaVars>>

ForgetDeposit(d) ==
  /\ d \in confirmed
  /\ confirmed' = confirmed \ {d}
  /\ UNCHANGED <<rowVars, floatVars, settlementVars, handlerVars, mpesaVars, credited>>

(* startLiveEscrowBalanceCheck: runs once, in the request that has just    *)
(* created the settlement.                                                 *)
StartCash(h, t) ==
  /\ t \in Central \ Collected
  /\ settlement[t] = "NEW"
  /\ settlement' = [settlement EXCEPT ![t] = "OPEN"]
  /\ Enter(h, t, "claim")
  /\ UNCHANGED <<rowVars, floatVars, mpesaVars, depositVars, payoutSource>>

(* startMixedCashEscrowAfterMpesa: runs in every delivery of the STK       *)
(* success callback; it looks for an existing transfer, then writes the    *)
(* settlement back with the metadata it read first.  It looks the          *)
(* settlement up by its internal reference, which a callback must carry in *)
(* its body: the payment record has only the merchant's.                   *)
StkConfirmed(h, t) ==
  /\ t \in Collected
  /\ status[t] = "NONE"
  /\ Enter(h, t, "reopen")
  /\ UNCHANGED <<rowVars, floatVars, settlementVars, mpesaVars, depositVars>>

ReopenSettlement(h) ==
  /\ pc[h] = "reopen"
  /\ settlement' = [settlement EXCEPT ![task[h]] = "OPEN"]
  /\ payoutSource' = payoutSource \ {task[h]}
  /\ Goto(h, "claim")
  /\ UNCHANGED <<rowVars, floatVars, mpesaVars, depositVars>>

(* Mutant: the float row is not claimed before it is read.                 *)
ClaimFloatUnlocked(h) ==
  /\ pc[h] = "claim"
  /\ sums' = [NoSums EXCEPT !.deposited = Total[confirmed]]
  /\ Goto(h, "sumPaid")
  /\ UNCHANGED <<rowVars, settlementVars, mpesaVars, activeTransferId, depositVars>>

(* startForSettlement.  Its transaction updates the float row, which keeps *)
(* every other claim waiting until it ends, then reads three sums, each    *)
(* from a snapshot of its own, then inserts the row.                       *)
ClaimFloat(h) ==
  /\ pc[h] = "claim"
  /\ activeTransferId = None
  /\ activeTransferId' = h
  /\ sums' = [NoSums EXCEPT !.deposited = Total[confirmed]]
  /\ Goto(h, "sumPaid")
  /\ UNCHANGED <<rowVars, settlementVars, mpesaVars, depositVars>>

SumPaid(h) ==
  /\ pc[h] = "sumPaid"
  /\ sums' = [sums EXCEPT !.paid = Total[Paid]]
  /\ Goto(h, "sumReserved")
  /\ UNCHANGED <<rowVars, settlementVars, mpesaVars, activeTransferId, depositVars>>

SumReserved(h) ==
  /\ pc[h] = "sumReserved"
  /\ sums' = [sums EXCEPT !.reserved = Total[Reserved]]
  /\ Goto(h, "commit")
  /\ UNCHANGED <<rowVars, settlementVars, mpesaVars, activeTransferId, depositVars>>

ReleaseFloat == activeTransferId' = None /\ sums' = NoSums

(* Mutant: the row is inserted without the balance check.                  *)
CreateTransferUnchecked(h) ==
  /\ pc[h] = "commit"
  /\ status[task[h]] = "NONE"
  /\ SetStatus(task[h], "BALANCE_VERIFIED")
  /\ ReleaseFloat
  /\ Goto(h, "created")
  /\ UNCHANGED <<settlementVars, mpesaVars, depositVars>>

CreateTransfer(h) ==
  /\ pc[h] = "commit"
  /\ AvailableBalance >= Amount[task[h]]
  /\ status[task[h]] = "NONE"
  /\ SetStatus(task[h], "BALANCE_VERIFIED")
  /\ ReleaseFloat
  /\ Goto(h, "created")
  /\ UNCHANGED <<settlementVars, mpesaVars, depositVars>>

(* Mutant: the exception is swallowed.                                     *)
RejectTransferSwallowed(h) ==
  /\ pc[h] = "commit"
  /\ AvailableBalance < Amount[task[h]] \/ status[task[h]] # "NONE"
  /\ ReleaseFloat
  /\ Return(h)
  /\ UNCHANGED <<rowVars, settlementVars, mpesaVars, depositVars>>

(* Too little balance, the unique settlementId, or a statement that fails: *)
(* the transaction is rolled back and the exception reaches the caller.    *)
RejectTransfer(h) ==
  /\ pc[h] = "commit"
  /\ Faulty \/ AvailableBalance < Amount[task[h]] \/ status[task[h]] # "NONE"
  /\ ReleaseFloat
  /\ Goto(h, "rejected")
  /\ UNCHANGED <<rowVars, settlementVars, mpesaVars, depositVars>>

(* Mutant: the catch also releases whatever transfer the settlement has.   *)
FailSettlementAndTransfer(h) ==
  /\ pc[h] = "rejected"
  /\ settlement' = [settlement EXCEPT ![task[h]] = "FAILED"]
  /\ payoutSource' = payoutSource \ {task[h]}
  /\ SetStatus(task[h], "FAILED")
  /\ Return(h)
  /\ UNCHANGED <<floatVars, mpesaVars, depositVars>>

(* The callers' catch: it too writes back the metadata read at the start,  *)
(* and leaves a reservation that is already committed as it is.            *)
FailSettlement(h) ==
  /\ pc[h] = "rejected"
  /\ settlement' = [settlement EXCEPT ![task[h]] = "FAILED"]
  /\ payoutSource' = payoutSource \ {task[h]}
  /\ Return(h)
  /\ UNCHANGED <<rowVars, floatVars, mpesaVars, depositVars>>

(* After the commit, outside its transaction; a failure here reaches the   *)
(* same catch.                                                             *)
RecordPayoutSource(h) ==
  /\ pc[h] = "created"
  /\ \/ /\ payoutSource' = payoutSource \cup {task[h]}
        /\ IF task[h] \in Collected THEN Goto(h, "cashStatus") ELSE Return(h)
     \/ Faulty /\ Goto(h, "rejected") /\ UNCHANGED payoutSource
  /\ UNCHANGED <<rowVars, floatVars, mpesaVars, depositVars, settlement>>

(* A writer of the settlement's metadata writes back the whole copy it has *)
(* read, and with it payoutSource as it was then.                          *)
WriteBack(h) ==
  payoutSource' = IF pc[h] \in {"cashKept", "writeKept"}
                  THEN payoutSource \cup {task[h]} ELSE payoutSource \ {task[h]}

(* startMixedCashEscrowAfterMpesa ends with one: it notes the cashStatus.  *)
ReadCashStatus(h) ==
  /\ pc[h] = "cashStatus"
  /\ Goto(h, IF task[h] \in payoutSource THEN "cashKept" ELSE "cashBare")
  /\ UNCHANGED <<rowVars, floatVars, settlementVars, mpesaVars, depositVars>>

WriteCashStatus(h) ==
  /\ pc[h] \in {"cashKept", "cashBare"}
  /\ \/ WriteBack(h) /\ Return(h)
     \/ Faulty /\ Goto(h, "rejected") /\ UNCHANGED payoutSource
  /\ UNCHANGED <<rowVars, floatVars, mpesaVars, depositVars, settlement>>

(* The others are the settlement service's: payment confirmations, the     *)
(* split, the payout dispatch and the payout callbacks.  Each writes a     *)
(* status too, FAILED when a payment or a payout has failed, and none      *)
(* looks at the transfer: a failed payout leaves it reserved.              *)
ReadSettlement(h, t) ==
  /\ t \in Linked
  /\ t \in Central \ Collected => settlement[t] # "NEW"
  /\ Enter(h, t, IF t \in payoutSource THEN "writeKept" ELSE "writeBare")
  /\ UNCHANGED <<rowVars, floatVars, settlementVars, mpesaVars, depositVars>>

(* Mutant: the write does not spread the metadata it has read.             *)
WriteSettlementAfresh(h) ==
  /\ pc[h] \in WriterSteps
  /\ payoutSource' = payoutSource \ {task[h]}
  /\ \E s \in {"OPEN", "FAILED"} : settlement' = [settlement EXCEPT ![task[h]] = s]
  /\ Return(h)
  /\ UNCHANGED <<rowVars, floatVars, mpesaVars, depositVars>>

WriteSettlement(h) ==
  /\ pc[h] \in WriterSteps
  /\ WriteBack(h)
  /\ \E s \in {"OPEN", "FAILED"} : settlement' = [settlement EXCEPT ![task[h]] = s]
  /\ Return(h)
  /\ UNCHANGED <<rowVars, floatVars, mpesaVars, depositVars>>

(* finalizeDirectCashLedger: every payout of the settlement is COMPLETED,  *)
(* so the reservation becomes the debit.  One conditional updateMany that  *)
(* claims nothing of the float.                                            *)
FinalizeDirectCash(t) ==
  /\ t \in payoutSource
  /\ status[t] = "BALANCE_VERIFIED"
  /\ SetStatus(t, "SUCCEEDED")
  /\ UNCHANGED <<floatVars, settlementVars, handlerVars, mpesaVars, depositVars>>

--------------------------------------------------------------------------------
(* startStandaloneTransfer: claims the float, checks no balance, inserts.  *)
StartStandalone(h, t) ==
  /\ t \in Standalone
  /\ status[t] = "NONE"
  /\ activeTransferId = None
  /\ SetStatus(t, "BALANCE_VERIFIED")
  /\ Enter(h, t, "dispatch")
  /\ UNCHANGED <<floatVars, settlementVars, mpesaVars, depositVars>>

(* Legacy rows: the result of the balance query, or its timeout ("fail").  *)
BalanceCallback(h, t) ==
  /\ status[t] = "BALANCE_PENDING"
  /\ \E step \in {"balanceOk", "fail", "mismatch"} : Enter(h, t, step)
  /\ UNCHANGED <<rowVars, floatVars, settlementVars, mpesaVars, depositVars>>

VerifyBalance(h) ==
  /\ pc[h] = "balanceOk"
  /\ SetStatus(task[h], "BALANCE_VERIFIED")
  /\ Goto(h, IF task[h] \in Mixed THEN "fund" ELSE "dispatch")
  /\ UNCHANGED <<floatVars, settlementVars, mpesaVars, depositVars>>

(* failEscrowTransfer: its transaction reads the row, then writes it by id. *)
FailRead(h) ==
  /\ pc[h] \in {"fail", "mismatch"}
  /\ IF status[task[h]] \in FinalStatuses THEN Return(h)
     ELSE Goto(h, IF pc[h] = "fail" THEN "failWrite" ELSE "mismatchWrite")
  /\ UNCHANGED <<rowVars, floatVars, settlementVars, mpesaVars, depositVars>>

FailWrite(h) ==
  /\ pc[h] \in {"failWrite", "mismatchWrite"}
  /\ SetStatus(task[h], IF pc[h] = "failWrite" THEN "FAILED" ELSE "BALANCE_MISMATCH")
  /\ settlement' = [settlement EXCEPT ![task[h]] =
                      IF task[h] \in Linked THEN "FAILED" ELSE @]
  /\ Return(h)
  /\ UNCHANGED <<floatVars, mpesaVars, depositVars, payoutSource>>

--------------------------------------------------------------------------------
(* A call to Safaricom: it may not arrive, and if it does the answer may   *)
(* still be lost; without an answer the code takes its catch.  A request   *)
(* that is refused at once counts as one that did not arrive.              *)
Call(h, type) ==
  \E arrived, answered, ok \in BOOLEAN :
    /\ answered => arrived
    /\ ~Lossy => answered = arrived
    /\ results' = IF arrived
                  THEN results \cup {[type |-> type, t |-> task[h], ok |-> ok]}
                  ELSE results
    /\ b2bSent' = IF arrived /\ ok /\ type = "B2B"
                  THEN [b2bSent EXCEPT ![task[h]] = @ + 1] ELSE b2bSent
    /\ IF answered THEN Return(h) ELSE Goto(h, "fail")

(* startFunding *)
BeginFunding(h) ==
  /\ pc[h] = "fund"
  /\ SetStatus(task[h], "WAITING_FOR_MPESA")
  /\ mpesaStatus' = [mpesaStatus EXCEPT ![task[h]] = "PENDING_CALLBACK"]
  /\ Goto(h, "stkPush")
  /\ UNCHANGED <<floatVars, settlementVars, results, b2bSent, depositVars>>

PushStk(h) ==
  /\ pc[h] = "stkPush"
  /\ Call(h, "STK")
  /\ UNCHANGED <<rowVars, floatVars, settlementVars, mpesaStatus, depositVars>>

(* Mutant: any result of the push counts as the customer's payment.        *)
FundingCallbackAnyResult(h, t, ok) ==
  /\ [type |-> "STK", t |-> t, ok |-> ok] \in results
  /\ status[t] = "WAITING_FOR_MPESA"
  /\ Enter(h, t, "stkSuccess")
  /\ UNCHANGED <<rowVars, floatVars, settlementVars, mpesaVars, depositVars>>

(* handleCallback of the funding service; a stale one changes nothing.     *)
FundingCallback(h, t, ok) ==
  /\ [type |-> "STK", t |-> t, ok |-> ok] \in results
  /\ status[t] = "WAITING_FOR_MPESA"
  /\ Enter(h, t, IF ok THEN "stkSuccess" ELSE "fail")
  /\ UNCHANGED <<rowVars, floatVars, settlementVars, mpesaVars, depositVars>>

(* Mutant: the vocabulary of status, not of mpesaStatus.                   *)
RecordFundingAsStatus(h) ==
  /\ pc[h] = "stkSuccess"
  /\ mpesaStatus' = [mpesaStatus EXCEPT ![task[h]] = "SUCCEEDED"]
  /\ Goto(h, "dispatch")
  /\ UNCHANGED <<rowVars, floatVars, settlementVars, results, b2bSent, depositVars>>

RecordFunding(h) ==
  /\ pc[h] = "stkSuccess"
  /\ mpesaStatus' = [mpesaStatus EXCEPT ![task[h]] = "SUCCESS"]
  /\ Goto(h, "dispatch")
  /\ UNCHANGED <<rowVars, floatVars, settlementVars, results, b2bSent, depositVars>>

(* dispatchB2bTransfer: read the row and check it, mark it, call.          *)
CheckDispatch(h) ==
  /\ pc[h] = "dispatch"
  /\ IF /\ status[task[h]] \in {"BALANCE_VERIFIED", "WAITING_FOR_MPESA"}
        /\ task[h] \in Mixed => mpesaStatus[task[h]] = "SUCCESS"
     THEN Goto(h, "pending")
     ELSE Return(h)
  /\ UNCHANGED <<rowVars, floatVars, settlementVars, mpesaVars, depositVars>>

MarkPending(h) ==
  /\ pc[h] = "pending"
  /\ SetStatus(task[h], "TRANSFER_PENDING")
  /\ Goto(h, "b2b")
  /\ UNCHANGED <<floatVars, settlementVars, mpesaVars, depositVars>>

SendB2b(h) ==
  /\ pc[h] = "b2b"
  /\ Call(h, "B2B")
  /\ UNCHANGED <<rowVars, floatVars, settlementVars, mpesaStatus, depositVars>>

(* Mutant: a reported failure is acknowledged and forgotten.               *)
TransferCallbackAckOnly(h, t, ok) ==
  /\ [type |-> "B2B", t |-> t, ok |-> ok] \in results
  /\ status[t] = "TRANSFER_PENDING"
  /\ IF ok THEN Enter(h, t, "success") ELSE pc[h] = "idle" /\ UNCHANGED handlerVars
  /\ UNCHANGED <<rowVars, floatVars, settlementVars, mpesaVars, depositVars>>

(* handleTransferCallback; a duplicate changes nothing.                    *)
TransferCallback(h, t, ok) ==
  /\ [type |-> "B2B", t |-> t, ok |-> ok] \in results
  /\ status[t] = "TRANSFER_PENDING"
  /\ Enter(h, t, IF ok THEN "success" ELSE "fail")
  /\ UNCHANGED <<rowVars, floatVars, settlementVars, mpesaVars, depositVars>>

SuccessRead(h) ==
  /\ pc[h] = "success"
  /\ IF status[task[h]] = "TRANSFER_PENDING" THEN Goto(h, "successWrite") ELSE Return(h)
  /\ UNCHANGED <<rowVars, floatVars, settlementVars, mpesaVars, depositVars>>

SuccessWrite(h) ==
  /\ pc[h] = "successWrite"
  /\ SetStatus(task[h], "SUCCEEDED")
  /\ Return(h)
  /\ UNCHANGED <<floatVars, settlementVars, mpesaVars, depositVars>>

(* Mutant: a queue timeout is taken for a failure.                         *)
TransferTimeoutFails(h, t) ==
  /\ \E m \in results : m.type = "B2B" /\ m.t = t
  /\ status[t] = "TRANSFER_PENDING"
  /\ Enter(h, t, "fail")
  /\ UNCHANGED <<rowVars, floatVars, settlementVars, mpesaVars, depositVars>>

(* handleTransferTimeout: a request Safaricom has taken in timed out in    *)
(* its queue.  The handler notes TRANSFER_OUTCOME_UNKNOWN in metadata that *)
(* nothing reads and leaves the row as it is.                              *)
TransferTimeout(h, t) ==
  /\ \E m \in results : m.type = "B2B" /\ m.t = t
  /\ status[t] = "TRANSFER_PENDING"
  /\ pc[h] = "idle"
  /\ UNCHANGED vars

(* The process stops: handlers are lost, the open transaction rolls back.  *)
Crash ==
  /\ \E h \in Handlers : pc[h] # "idle"
  /\ pc' = [h \in Handlers |-> "idle"]
  /\ task' = [h \in Handlers |-> None]
  /\ ReleaseFloat
  /\ UNCHANGED <<rowVars, settlementVars, mpesaVars, depositVars>>

--------------------------------------------------------------------------------
Arrival(h) ==
  \E t \in Transfers :
    \/ StartCash(h, t) \/ StkConfirmed(h, t) \/ StartStandalone(h, t)
    \/ ReadSettlement(h, t) \/ BalanceCallback(h, t) \/ TransferTimeout(h, t)
    \/ \E ok \in BOOLEAN : FundingCallback(h, t, ok) \/ TransferCallback(h, t, ok)

Continue(h) ==
  \/ ReopenSettlement(h) \/ ClaimFloat(h) \/ SumPaid(h) \/ SumReserved(h)
  \/ CreateTransfer(h) \/ RejectTransfer(h) \/ FailSettlement(h)
  \/ RecordPayoutSource(h) \/ ReadCashStatus(h) \/ WriteCashStatus(h)
  \/ WriteSettlement(h) \/ VerifyBalance(h) \/ FailRead(h) \/ FailWrite(h)
  \/ BeginFunding(h) \/ PushStk(h) \/ RecordFunding(h) \/ CheckDispatch(h)
  \/ MarkPending(h) \/ SendB2b(h) \/ SuccessRead(h) \/ SuccessWrite(h)

Step ==
  \/ \E d \in Deposits : ConfirmDeposit(d) \/ ForgetDeposit(d)
  \/ \E t \in Transfers : FinalizeDirectCash(t)
  \/ \E h \in Handlers : Arrival(h) \/ Continue(h)

Next == Step \/ Crash

Spec == Init /\ [][Next]_vars

(* While the process stays up, Node runs every handler it has started, and *)
(* Safaricom keeps repeating a B2B result until a handler has taken it in. *)
Fairness ==
  /\ \A h \in Handlers : WF_vars(Continue(h))
  /\ \A t \in Moved :
       SF_vars(\E h \in Handlers, ok \in BOOLEAN : TransferCallback(h, t, ok))

(* No crash. *)
ReliableSpec == Init /\ [][Step]_vars /\ Fairness

--------------------------------------------------------------------------------
(* LedgerBacked: the CASH legs the balance check admitted, reserved and    *)
(* debited together, never add up to more than the deposits credited,      *)
(* except by what was debited between the two sums of an admission (a row  *)
(* that moves from the second sum to the first is then in neither).        *)
LedgerBacked == Total[Committed \cap Central] <= Total[credited] + Total[slipped]

(* NoOverdraft: what the documentation promises, without that exception.   *)
NoOverdraft == Total[Committed \cap Central] <= Total[credited]

(* CollectedBeforeTransfer: the retailer's CASH leaves for the central     *)
(* account only after the customer's STK payment has succeeded.            *)
CollectedBeforeTransfer ==
  \A t \in Mixed : b2bSent[t] > 0 => [type |-> "STK", t |-> t, ok |-> TRUE] \in results

(* MovedIsLedgered: money Safaricom has moved is reserved or debited, even *)
(* after a queue timeout was reported for it.                              *)
MovedIsLedgered ==
  \A t \in Moved : b2bSent[t] > 0 => status[t] \in {"TRANSFER_PENDING", "SUCCEEDED"}

(* NotStranded: a CASH reservation is either still being worked on or can  *)
(* be finalised by the payout callbacks, which look for payoutSource.      *)
NotStranded ==
  \A t \in Central :
    status[t] = "BALANCE_VERIFIED" => t \in payoutSource \/ \E h \in Handlers : task[h] = t

(* CashFinal: no later callback takes a debited or released CASH leg out   *)
(* of its final status.                                                    *)
CashFinal ==
  [][\A t \in Central : status[t] \in FinalStatuses => status'[t] = status[t]]_vars

(* TransferResolved: a transfer under way is eventually debited or released. *)
TransferResolved ==
  \A t \in Moved : status[t] = "TRANSFER_PENDING" ~> status[t] \in FinalStatuses

(* AdmissionDecided: an admission that has begun ends with a reservation   *)
(* or with a settlement reported FAILED.                                   *)
AdmissionDecided ==
  \A t \in Central :
    (\E h \in Handlers : task[h] = t /\ pc[h] = "claim")
      ~> t \in Committed \/ settlement[t] = "FAILED"

--------------------------------------------------------------------------------
(* The strengthening that makes LedgerBacked inductive.                    *)

(* A CASH leg is only ever admitted and debited, by the steps of its own   *)
(* handlers; the B2B flow only works on the others.                        *)
TaskOK ==
  \A h \in Handlers :
    /\ pc[h] \in CentralSteps \cup {"writeKept"} => task[h] \in Central
    /\ pc[h] \in WriterSteps => task[h] \in Linked
    /\ pc[h] \in MovedSteps => task[h] \in Moved

CentralOK ==
  \A t \in Central : status[t] \in {"NONE", "BALANCE_VERIFIED", "SUCCEEDED"}

LockOK == \A h \in Handlers : pc[h] \in LockSteps <=> activeTransferId = h

HistoryOK == confirmed \subseteq credited /\ \A t \in slipped : status[t] = "SUCCEEDED"

(* What the sums an admission has read still bound, whatever was confirmed *)
(* or debited since.                                                       *)
SumsOK ==
  \A h \in Handlers :
    /\ pc[h] \in LockSteps => sums.deposited <= Total[credited]
    /\ pc[h] = "sumReserved" => Total[Paid \cap Central] <= sums.paid + Total[slipped]
    /\ pc[h] = "commit" =>
         Total[Committed \cap Central] <= sums.paid + sums.reserved + Total[slipped]

(* AdmissionInv: at most one admission at a time reads the sums, and each  *)
(* sum it holds is stale only in the directions SumsOK allows.             *)
AdmissionInv == TaskOK /\ CentralOK /\ LockOK /\ HistoryOK /\ SumsOK

--------------------------------------------------------------------------------
Ledger == INSTANCE FloatLedger WITH
            Transfers <- Central, credited <- credited,
            reserved <- Reserved \cap Central, debited <- Paid \cap Central,
            slack <- slipped

(* LedgerRefined: rows, locks and handlers implement the abstract ledger.  *)
LedgerRefined == Ledger!Spec

(* The strengthening that makes CollectedBeforeTransfer inductive.         *)
StkPaid(t) == [type |-> "STK", t |-> t, ok |-> TRUE] \in results

CollectInv ==
  /\ CollectedBeforeTransfer
  /\ \A t \in Mixed : mpesaStatus[t] = "SUCCESS" => StkPaid(t)
  /\ \A h \in Handlers :
       /\ pc[h] = "stkSuccess" => StkPaid(task[h])
       /\ pc[h] \in {"pending", "b2b"} /\ task[h] \in Mixed => StkPaid(task[h])
================================================================================
