------------------------ MODULE EscrowFloatOverlapProofs ------------------------
(***************************************************************************)
(* What EscrowFloat promises of a transfer as long as no two handlers work *)
(* on it at once, whatever happens to the others: invariants that run      *)
(* progress checks for one handler.                                        *)
(***************************************************************************)
EXTENDS EscrowFloatProofs

(* No two handlers work on one transfer of S.                              *)
NoOverlap(S) ==
  \A t \in S : \A g, h \in Handlers : task[g] = t /\ task[h] = t => g = h

IdleOK == \A h \in Handlers : pc[h] = "idle" => task[h] = None

LEMMA IdleInit == Init => IdleOK
BY DEF Init, IdleOK

(* A handler that is idle has no transfer in hand.                         *)
LEMMA IdleNext == Frame /\ IdleOK /\ [Next]_vars => IdleOK'
<1> SUFFICES ASSUME Frame, IdleOK, [Next]_vars PROVE IdleOK'
  OBVIOUS
<1>1. TypeOK /\ TaskOK
  BY DEF Frame
<1> USE DEF IdleOK, Goto, Return, Enter, handlerVars, TypeOK
<1>2. CASE UNCHANGED vars \/ Crash
  BY <1>2 DEF vars, Crash
<1>3. CASE \/ \E d \in Deposits : ConfirmDeposit(d) \/ ForgetDeposit(d)
           \/ \E t \in Transfers : FinalizeDirectCash(t)
  BY <1>3 DEF ConfirmDeposit, ForgetDeposit, FinalizeDirectCash
<1>4. ASSUME NEW h \in Handlers, Arrival(h) PROVE IdleOK'
  <2>1. PICK t \in Transfers :
          \/ StartCash(h, t) \/ StkConfirmed(h, t) \/ StartStandalone(h, t)
          \/ BalanceCallback(h, t) \/ TransferTimeout(h, t) \/ ReadSettlement(h, t)
          \/ \E ok \in BOOLEAN : FundingCallback(h, t, ok) \/ TransferCallback(h, t, ok)
    BY <1>4, Zenon DEF Arrival
  <2>2. CASE StartCash(h, t) \/ StkConfirmed(h, t) \/ StartStandalone(h, t)
    BY <1>1, <2>2 DEF StartCash, StkConfirmed, StartStandalone
  <2>3. CASE BalanceCallback(h, t) \/ TransferTimeout(h, t) \/ ReadSettlement(h, t)
    BY <1>1, <2>3 DEF BalanceCallback, TransferTimeout, ReadSettlement, vars
  <2>4. CASE \E ok \in BOOLEAN : FundingCallback(h, t, ok) \/ TransferCallback(h, t, ok)
    BY <1>1, <2>4 DEF FundingCallback, TransferCallback
  <2> QED
    BY <2>1, <2>2, <2>3, <2>4
<1>5. ASSUME NEW h \in Handlers,
             \/ ReopenSettlement(h) \/ ClaimFloat(h) \/ SumPaid(h) \/ SumReserved(h)
             \/ CreateTransfer(h) \/ RejectTransfer(h) \/ FailSettlement(h)
             \/ RecordPayoutSource(h) \/ VerifyBalance(h) \/ FailRead(h) \/ FailWrite(h)
      PROVE  IdleOK'
  BY <1>1, <1>5 DEF ReopenSettlement, ClaimFloat, SumPaid, SumReserved, CreateTransfer,
     RejectTransfer, FailSettlement, RecordPayoutSource, VerifyBalance, FailRead, FailWrite
<1>6. ASSUME NEW h \in Handlers,
             \/ BeginFunding(h) \/ RecordFunding(h) \/ CheckDispatch(h)
             \/ MarkPending(h) \/ SuccessRead(h) \/ SuccessWrite(h)
      PROVE  IdleOK'
  BY <1>1, <1>6 DEF BeginFunding, RecordFunding, CheckDispatch, MarkPending, SuccessRead,
     SuccessWrite
<1>7. ASSUME NEW h \in Handlers, PushStk(h) \/ SendB2b(h) PROVE IdleOK'
  BY <1>1, <1>7 DEF PushStk, SendB2b, Call
<1>8. ASSUME NEW h \in Handlers, ReadCashStatus(h) \/ WriteCashStatus(h) \/ WriteSettlement(h)
      PROVE  IdleOK'
  BY <1>1, <1>8 DEF ReadCashStatus, WriteCashStatus, WriteSettlement
<1> QED
  BY <1>2, <1>3, <1>4, <1>5, <1>6, <1>7, <1>8 DEF Next, Step, Continue

--------------------------------------------------------------------------------
(* What a step has to do with the transfer t.                              *)

(* Nothing.                                                                *)
Elsewhere(t) ==
  /\ status'[t] = status[t] /\ settlement'[t] = settlement[t]
  /\ t \in payoutSource' <=> t \in payoutSource
  /\ b2bSent'[t] = b2bSent[t]
  /\ \A m \in Results : m.t = t => (m \in results' <=> m \in results)
  /\ \A h \in Handlers : task[h] = t \/ task'[h] = t => task'[h] = task[h] /\ pc'[h] = pc[h]

ArrivalAt(h, t) ==
  \/ StartCash(h, t) \/ StkConfirmed(h, t) \/ StartStandalone(h, t) \/ BalanceCallback(h, t)
  \/ ReadSettlement(h, t)
  \/ \E ok \in BOOLEAN : FundingCallback(h, t, ok) \/ TransferCallback(h, t, ok)

LEMMA StepsOf ==
  ASSUME Frame, IdleOK, [Step]_vars, NEW t \in Transfers
  PROVE  \/ Elsewhere(t) \/ FinalizeDirectCash(t)
         \/ \E h \in Handlers : ArrivalAt(h, t)
         \/ \E h \in Handlers : task[h] = t /\ Continue(h)
<1>1. TypeOK /\ TaskOK
  BY DEF Frame
<1> USE DEF TypeOK, Goto, Return, Enter, rowVars, floatVars, depositVars, settlementVars,
            handlerVars, mpesaVars
<1>2. CASE UNCHANGED vars
  BY <1>2 DEF vars, Elsewhere
<1>3. ASSUME NEW d \in Deposits, ConfirmDeposit(d) \/ ForgetDeposit(d) PROVE Elsewhere(t)
  BY <1>3 DEF ConfirmDeposit, ForgetDeposit, Elsewhere
<1>4. ASSUME NEW u \in Transfers \ {t}, FinalizeDirectCash(u) PROVE Elsewhere(t)
  BY <1>1, <1>4 DEF FinalizeDirectCash, SetStatus, Elsewhere
<1>5. ASSUME NEW h \in Handlers, NEW u \in Transfers \ {t}, ArrivalAt(h, u) PROVE Elsewhere(t)
  <2>1. task[h] = None /\ None # t
    BY <1>5, KindsAssumption DEF ArrivalAt, StartCash, StkConfirmed, StartStandalone,
       BalanceCallback, ReadSettlement, FundingCallback, TransferCallback, IdleOK
  <2> QED
    BY <1>1, <1>5, <2>1 DEF ArrivalAt, StartCash, StkConfirmed, StartStandalone, BalanceCallback,
       ReadSettlement, FundingCallback, TransferCallback, SetStatus, Elsewhere
<1>6. ASSUME NEW h \in Handlers, NEW u \in Transfers, TransferTimeout(h, u) PROVE Elsewhere(t)
  BY <1>6 DEF TransferTimeout, vars, Elsewhere
<1>7. ASSUME NEW h \in Handlers, Continue(h), task[h] # t PROVE Elsewhere(t)
  <2>1. t # None
    BY KindsAssumption
  <2>2. CASE \/ ReopenSettlement(h) \/ ClaimFloat(h) \/ SumPaid(h) \/ SumReserved(h)
             \/ CreateTransfer(h) \/ RejectTransfer(h) \/ FailSettlement(h)
             \/ RecordPayoutSource(h)
    BY <1>1, <1>7, <2>1, <2>2 DEF ReopenSettlement, ClaimFloat, SumPaid, SumReserved,
       CreateTransfer, RejectTransfer, FailSettlement, RecordPayoutSource, SetStatus,
       Elsewhere
  <2>3. CASE \/ VerifyBalance(h) \/ FailRead(h) \/ FailWrite(h) \/ BeginFunding(h)
             \/ RecordFunding(h) \/ CheckDispatch(h) \/ MarkPending(h) \/ SuccessRead(h)
             \/ SuccessWrite(h)
    BY <1>1, <1>7, <2>1, <2>3 DEF VerifyBalance, FailRead, FailWrite, BeginFunding,
       RecordFunding, CheckDispatch, MarkPending, SuccessRead, SuccessWrite, SetStatus,
       Elsewhere
  <2>4. CASE PushStk(h) \/ SendB2b(h)
    BY <1>1, <1>7, <2>1, <2>4 DEF PushStk, SendB2b, Call, Elsewhere, Results
  <2>5. CASE ReadCashStatus(h) \/ WriteCashStatus(h) \/ WriteSettlement(h)
    BY <1>1, <1>7, <2>1, <2>5 DEF ReadCashStatus, WriteCashStatus, WriteSettlement, WriteBack,
       Elsewhere
  <2> QED
    BY <1>7, <2>2, <2>3, <2>4, <2>5 DEF Continue
<1> QED
  BY <1>2, <1>3, <1>4, <1>5, <1>6, <1>7 DEF Step, Arrival, ArrivalAt

(* Without overlap, the handler that takes a step on t is alone with it.   *)
LEMMA Alone ==
  ASSUME Frame, NEW t \in Transfers, NEW h \in Handlers,
         NoOverlap({t}), NoOverlap({t})',
         ArrivalAt(h, t) \/ (task[h] = t /\ Continue(h))
  PROVE  \A g \in Handlers \ {h} : task'[g] # t
<1>1. TypeOK /\ TaskOK
  BY DEF Frame
<1> USE DEF TypeOK, Goto, Return, Enter, NoOverlap, handlerVars
<1>2. CASE ArrivalAt(h, t)
  BY <1>1, <1>2 DEF ArrivalAt, StartCash, StkConfirmed, StartStandalone, BalanceCallback,
     ReadSettlement, FundingCallback, TransferCallback
<1>3. CASE task[h] = t /\ Continue(h)
  <2>1. \A g \in Handlers \ {h} : task'[g] = task[g]
    BY <1>1, <1>3 DEF Continue, ReopenSettlement, ClaimFloat, SumPaid, SumReserved,
       CreateTransfer, RejectTransfer, FailSettlement, RecordPayoutSource, ReadCashStatus,
       WriteCashStatus, WriteSettlement, VerifyBalance, FailRead, FailWrite, BeginFunding,
       PushStk, RecordFunding, CheckDispatch, MarkPending, SendB2b, SuccessRead, SuccessWrite,
       Call
  <2> QED
    BY <1>3, <2>1
<1> QED
  BY <1>2, <1>3

--------------------------------------------------------------------------------
(* A reservation that nothing could finish.                                *)

UnbookedSteps == LockSteps \cup {"reopen", "claim", "rejected"}

(* A CASH leg is not in the ledger until its handler has committed it, and *)
(* a reservation that no handler has in hand can be finalised: so whoever  *)
(* reads the settlement of a reserved leg reads its payoutSource as well.  *)
HeldOK(t) ==
  /\ t \notin Collected /\ settlement[t] = "NEW" => status[t] = "NONE"
  /\ status[t] = "BALANCE_VERIFIED" => t \in payoutSource \/ \E h \in Handlers : task[h] = t
  /\ \A h \in Handlers : task[h] = t =>
       /\ pc[h] \in UnbookedSteps => status[t] = "NONE"
       /\ pc[h] \in LockSteps \cup {"claim"} => settlement[t] # "NEW"
       /\ pc[h] \in {"cashStatus", "cashKept", "writeKept"} => t \in payoutSource
       /\ pc[h] # "cashBare"
       /\ pc[h] = "writeBare" => status[t] # "BALANCE_VERIFIED"

HeldInv == \A t \in Central : HeldOK(t)

LEMMA HeldInit == Init => HeldInv
BY KindsAssumption DEF Init, HeldInv, HeldOK, Central, UnbookedSteps, LockSteps

LEMMA HeldNext ==
  ASSUME ~Faulty, Frame, IdleOK, NoOverlap(Central), NoOverlap(Central)', HeldInv, [Step]_vars
  PROVE  HeldInv'
<1> SUFFICES ASSUME NEW t \in Central PROVE HeldOK(t)'
  BY DEF HeldInv
<1>1. TypeOK /\ TaskOK /\ HeldOK(t) /\ t \in Transfers /\ t \notin Moved
  BY DEF Frame, HeldInv, Central, Moved
<1> USE DEF Goto, Return, Enter, TypeOK, rowVars, settlementVars, handlerVars,
            UnbookedSteps, LockSteps, HeldOK
<1>2. CASE Elsewhere(t)
  BY <1>1, <1>2 DEF Elsewhere
<1>3. CASE FinalizeDirectCash(t)
  BY <1>1, <1>3 DEF FinalizeDirectCash, SetStatus
<1>4. ASSUME NEW h \in Handlers, ArrivalAt(h, t) PROVE HeldOK(t)'
  <2>1. \A g \in Handlers \ {h} : task'[g] # t
    BY <1>1, <1>4, Alone DEF NoOverlap
  <2>2. CASE StartCash(h, t)
    BY <1>1, <2>1, <2>2 DEF StartCash
  <2>3. CASE StkConfirmed(h, t)
    BY <1>1, <2>1, <2>3 DEF StkConfirmed
  <2>4. CASE StartStandalone(h, t)
    BY <1>1, <2>4 DEF StartStandalone, Moved
  <2>5. CASE BalanceCallback(h, t)
    BY <1>1, <2>1, <2>5 DEF BalanceCallback
  <2>6. CASE ReadSettlement(h, t)
    <3>1. \A g \in Handlers : task[g] # t
      BY <1>1, <2>1, <2>6, KindsAssumption DEF ReadSettlement, IdleOK
    <3> QED
      BY <1>1, <2>1, <2>6, <3>1 DEF ReadSettlement
  <2>7. ASSUME NEW ok \in BOOLEAN, FundingCallback(h, t, ok) \/ TransferCallback(h, t, ok)
        PROVE  HeldOK(t)'
    BY <1>1, <2>1, <2>7 DEF FundingCallback, TransferCallback
  <2> QED
    BY <1>4, <2>2, <2>3, <2>4, <2>5, <2>6, <2>7 DEF ArrivalAt
<1>5. ASSUME NEW h \in Handlers, task[h] = t, Continue(h) PROVE HeldOK(t)'
  <2>1. \A g \in Handlers \ {h} : task'[g] # t
    BY <1>1, <1>5, Alone DEF NoOverlap
  <2>2. pc[h] \notin MovedSteps
    BY <1>1, <1>5 DEF TaskOK
  <2>3. CASE ReopenSettlement(h)
    BY <1>1, <1>5, <2>1, <2>3 DEF ReopenSettlement
  <2>4. CASE ClaimFloat(h) \/ SumPaid(h) \/ SumReserved(h)
    BY <1>1, <1>5, <2>1, <2>4 DEF ClaimFloat, SumPaid, SumReserved
  <2>5. CASE CreateTransfer(h)
    BY <1>1, <1>5, <2>1, <2>5 DEF CreateTransfer, SetStatus
  <2>6. CASE RejectTransfer(h)
    BY <1>1, <1>5, <2>1, <2>6 DEF RejectTransfer
  <2>7. CASE FailSettlement(h)
    BY <1>1, <1>5, <2>1, <2>7 DEF FailSettlement
  <2>8. CASE RecordPayoutSource(h)
    BY <1>1, <1>5, <2>1, <2>8 DEF RecordPayoutSource
  <2>9. CASE ReadCashStatus(h)
    BY <1>1, <1>5, <2>1, <2>9 DEF ReadCashStatus
  <2>10. CASE WriteCashStatus(h)
    BY <1>1, <1>5, <2>1, <2>10 DEF WriteCashStatus, WriteBack
  <2>11. CASE WriteSettlement(h)
    BY <1>1, <1>5, <2>1, <2>11 DEF WriteSettlement, WriteBack, WriterSteps
  <2> QED
    BY <1>5, <2>2, <2>3, <2>4, <2>5, <2>6, <2>7, <2>8, <2>9, <2>10, <2>11 DEF Continue,
       VerifyBalance, FailRead, FailWrite, BeginFunding, PushStk, RecordFunding,
       CheckDispatch, MarkPending, SendB2b, SuccessRead, SuccessWrite, MovedSteps
<1> QED
  BY <1>2, <1>3, <1>4, <1>5, <1>1, StepsOf

(* NotStranded: as long as the process and the database stay up and no two *)
(* handlers work on one leg, a reservation is in hand or can be finalised, *)
(* whatever the settlement service writes to the settlement meanwhile.     *)
THEOREM Held ==
  ASSUME ~Faulty
  PROVE  Init /\ [][Step]_vars /\ []NoOverlap(Central) => []NotStranded
<1>1. HeldInv => NotStranded
  BY DEF HeldInv, HeldOK, NotStranded
<1>2. Frame /\ IdleOK /\ NoOverlap(Central) /\ NoOverlap(Central)' /\ HeldInv /\ [Step]_vars
        => IdleOK' /\ HeldInv'
  BY IdleNext, HeldNext DEF Next
<1>3. [Step]_vars => [Next]_vars
  BY DEF Next
<1> QED
  BY <1>1, <1>2, <1>3, IdleInit, HeldInit, FrameInvariant, PTL DEF Spec

--------------------------------------------------------------------------------
(* Money that Safaricom has moved.                                         *)

UnsentStatuses == {"NONE", "BALANCE_PENDING", "BALANCE_VERIFIED", "WAITING_FOR_MPESA"}
UnsentSteps    == {"balanceOk", "fund", "stkPush", "stkSuccess", "dispatch", "pending"}
FailSteps      == {"fail", "failWrite", "mismatch", "mismatchWrite"}

Reported(t, ok) == [type |-> "B2B", t |-> t, ok |-> ok] \in results
Unsent(t) == b2bSent[t] = 0 /\ ~Reported(t, TRUE) /\ ~Reported(t, FALSE)

(* A transfer is marked TRANSFER_PENDING once, before its only request.    *)
OnceOK(t) ==
  /\ status[t] \in UnsentStatuses => Unsent(t)
  /\ b2bSent[t] <= 1
  /\ \A h \in Handlers : task[h] = t =>
       /\ pc[h] \in UnsentSteps => status[t] \in UnsentStatuses
       /\ pc[h] = "b2b" => status[t] = "TRANSFER_PENDING" /\ Unsent(t)

OnceInv == \A t \in Moved : OnceOK(t)

(* If every answer that is given arrives, whoever is about to release the  *)
(* transfer has seen that Safaricom did not carry it out.                  *)
LedgeredOK(t) ==
  /\ b2bSent[t] > 0 => status[t] \in {"TRANSFER_PENDING", "SUCCEEDED"}
  /\ Reported(t, FALSE) => b2bSent[t] = 0
  /\ \A h \in Handlers : task[h] = t =>
       /\ pc[h] \in FailSteps => b2bSent[t] = 0
       /\ pc[h] \in {"success", "successWrite"} => status[t] = "TRANSFER_PENDING"

LedgeredInv == \A t \in Moved : LedgeredOK(t)

LEMMA MovedInit == Init => OnceInv /\ LedgeredInv
BY KindsAssumption DEF Init, OnceInv, OnceOK, LedgeredInv, LedgeredOK, Moved, Linked, Unsent,
   Reported, UnsentStatuses, UnsentSteps, FailSteps

LEMMA OnceNext ==
  ASSUME Frame, IdleOK, NoOverlap(Moved), NoOverlap(Moved)', OnceInv, [Next]_vars
  PROVE  OnceInv'
<1> SUFFICES ASSUME NEW t \in Moved PROVE OnceOK(t)'
  BY DEF OnceInv
<1>1. TypeOK /\ TaskOK /\ OnceOK(t) /\ t \in Transfers /\ t \notin Central
  BY KindsAssumption DEF Frame, OnceInv, Moved, Central, Linked
<1> USE DEF Goto, Return, Enter, TypeOK, rowVars, settlementVars, mpesaVars, handlerVars,
            OnceOK, Unsent, Reported, UnsentStatuses, UnsentSteps
<1>2. CASE Elsewhere(t)
  BY <1>1, <1>2 DEF Elsewhere, Results
<1>3. CASE Crash
  BY <1>1, <1>3, KindsAssumption DEF Crash
<1>4. CASE FinalizeDirectCash(t)
  BY <1>1, <1>4 DEF FinalizeDirectCash, SetStatus
<1>5. ASSUME NEW h \in Handlers, ArrivalAt(h, t) PROVE OnceOK(t)'
  <2>1. \A g \in Handlers \ {h} : task'[g] # t
    BY <1>1, <1>5, Alone DEF NoOverlap
  <2>2. CASE StartCash(h, t) \/ StkConfirmed(h, t)
    BY <1>1, <2>2, KindsAssumption DEF StartCash, StkConfirmed
  <2>3. CASE StartStandalone(h, t)
    BY <1>1, <2>1, <2>3 DEF StartStandalone, SetStatus
  <2>4. CASE BalanceCallback(h, t)
    BY <1>1, <2>1, <2>4 DEF BalanceCallback
  <2>5. ASSUME NEW ok \in BOOLEAN, FundingCallback(h, t, ok) \/ TransferCallback(h, t, ok)
        PROVE  OnceOK(t)'
    BY <1>1, <2>1, <2>5 DEF FundingCallback, TransferCallback
  <2>6. CASE ReadSettlement(h, t)
    BY <1>1, <2>1, <2>6 DEF ReadSettlement
  <2> QED
    BY <1>5, <2>2, <2>3, <2>4, <2>5, <2>6 DEF ArrivalAt
<1>6. ASSUME NEW h \in Handlers, task[h] = t, Continue(h) PROVE OnceOK(t)'
  <2>1. \A g \in Handlers \ {h} : task'[g] # t
    BY <1>1, <1>6, Alone DEF NoOverlap
  <2>2. pc[h] \notin CentralSteps
    BY <1>1, <1>6 DEF TaskOK
  <2>3. CASE VerifyBalance(h)
    BY <1>1, <1>6, <2>1, <2>3 DEF VerifyBalance, SetStatus
  <2>4. CASE BeginFunding(h)
    BY <1>1, <1>6, <2>1, <2>4 DEF BeginFunding, SetStatus
  <2>5. CASE MarkPending(h)
    BY <1>1, <1>6, <2>1, <2>5 DEF MarkPending, SetStatus
  <2>6. CASE FailWrite(h)
    BY <1>1, <1>6, <2>1, <2>6 DEF FailWrite, SetStatus
  <2>7. CASE SuccessWrite(h)
    BY <1>1, <1>6, <2>1, <2>7 DEF SuccessWrite, SetStatus
  <2>8. CASE FailRead(h) \/ RecordFunding(h) \/ CheckDispatch(h) \/ SuccessRead(h)
    BY <1>1, <1>6, <2>1, <2>8 DEF FailRead, RecordFunding, CheckDispatch, SuccessRead
  <2>9. CASE PushStk(h)
    BY <1>1, <1>6, <2>1, <2>9 DEF PushStk, Call
  <2>10. CASE SendB2b(h)
    BY <1>1, <1>6, <2>1, <2>10 DEF SendB2b, Call
  <2>11. CASE WriteSettlement(h)
    BY <1>1, <1>6, <2>1, <2>11 DEF WriteSettlement
  <2> QED
    BY <1>6, <2>2, <2>3, <2>4, <2>5, <2>6, <2>7, <2>8, <2>9, <2>10, <2>11 DEF Continue,
       ReopenSettlement, ClaimFloat, SumPaid, SumReserved, CreateTransfer, RejectTransfer,
       FailSettlement, RecordPayoutSource, ReadCashStatus, WriteCashStatus, CentralSteps,
       LockSteps
<1> QED
  BY <1>1, <1>2, <1>3, <1>4, <1>5, <1>6, StepsOf DEF Next

LEMMA LedgeredNext ==
  ASSUME ~Lossy, Frame, IdleOK, NoOverlap(Moved), NoOverlap(Moved)', OnceInv, LedgeredInv,
         [Next]_vars
  PROVE  LedgeredInv'
<1> SUFFICES ASSUME NEW t \in Moved PROVE LedgeredOK(t)'
  BY DEF LedgeredInv
<1>1. /\ TypeOK /\ TaskOK /\ OnceOK(t) /\ LedgeredOK(t)
      /\ t \in Transfers /\ t \notin Central
  BY KindsAssumption DEF Frame, OnceInv, LedgeredInv, Moved, Central, Linked
<1> USE DEF Goto, Return, Enter, TypeOK, rowVars, settlementVars, mpesaVars, handlerVars,
            LedgeredOK, Reported, FailSteps
<1>2. CASE Elsewhere(t)
  BY <1>1, <1>2 DEF Elsewhere, Results
<1>3. CASE Crash
  BY <1>1, <1>3, KindsAssumption DEF Crash
<1>4. CASE FinalizeDirectCash(t)
  BY <1>1, <1>4 DEF FinalizeDirectCash
<1>5. ASSUME NEW h \in Handlers, ArrivalAt(h, t) PROVE LedgeredOK(t)'
  <2>1. \A g \in Handlers \ {h} : task'[g] # t
    BY <1>1, <1>5, Alone DEF NoOverlap
  <2>2. CASE StartCash(h, t) \/ StkConfirmed(h, t)
    BY <1>1, <2>2, KindsAssumption DEF StartCash, StkConfirmed
  <2>3. CASE StartStandalone(h, t)
    BY <1>1, <2>1, <2>3 DEF StartStandalone, SetStatus, OnceOK, Unsent, UnsentStatuses
  <2>4. CASE BalanceCallback(h, t)
    BY <1>1, <2>1, <2>4 DEF BalanceCallback, OnceOK, Unsent, UnsentStatuses
  <2>5. ASSUME NEW ok \in BOOLEAN, FundingCallback(h, t, ok) PROVE LedgeredOK(t)'
    BY <1>1, <2>1, <2>5 DEF FundingCallback, OnceOK, Unsent, UnsentStatuses
  <2>6. ASSUME NEW ok \in BOOLEAN, TransferCallback(h, t, ok) PROVE LedgeredOK(t)'
    BY <1>1, <2>1, <2>6 DEF TransferCallback
  <2>7. CASE ReadSettlement(h, t)
    BY <1>1, <2>1, <2>7 DEF ReadSettlement
  <2> QED
    BY <1>5, <2>2, <2>3, <2>4, <2>5, <2>6, <2>7 DEF ArrivalAt
<1>6. ASSUME NEW h \in Handlers, task[h] = t, Continue(h) PROVE LedgeredOK(t)'
  <2>1. \A g \in Handlers \ {h} : task'[g] # t
    BY <1>1, <1>6, Alone DEF NoOverlap
  <2>2. pc[h] \notin CentralSteps
    BY <1>1, <1>6 DEF TaskOK
  <2>3. pc[h] \in UnsentSteps => b2bSent[t] = 0 /\ ~Reported(t, FALSE)
    BY <1>1, <1>6 DEF OnceOK, Unsent
  <2>4. CASE VerifyBalance(h) \/ BeginFunding(h) \/ MarkPending(h)
    <3>1. /\ pc[h] \in UnsentSteps /\ pc'[h] \in UnsentSteps \cup {"b2b"}
          /\ UNCHANGED <<b2bSent, results>>
      BY <1>1, <2>4 DEF VerifyBalance, BeginFunding, MarkPending, UnsentSteps
    <3> QED
      BY <2>1, <2>3, <3>1 DEF UnsentSteps
  <2>5. CASE FailWrite(h)
    BY <1>1, <1>6, <2>1, <2>5 DEF FailWrite, SetStatus
  <2>6. CASE SuccessWrite(h)
    BY <1>1, <1>6, <2>1, <2>6 DEF SuccessWrite, SetStatus
  <2>7. CASE FailRead(h) \/ RecordFunding(h) \/ CheckDispatch(h) \/ SuccessRead(h)
    BY <1>1, <1>6, <2>1, <2>7 DEF FailRead, RecordFunding, CheckDispatch, SuccessRead
  <2>8. CASE PushStk(h)
    BY <1>1, <1>6, <2>1, <2>3, <2>8 DEF PushStk, Call, UnsentSteps
  <2>9. CASE SendB2b(h)
    BY <1>1, <1>6, <2>1, <2>9 DEF SendB2b, Call, OnceOK, Unsent
  <2>10. CASE WriteSettlement(h)
    BY <1>1, <1>6, <2>1, <2>10 DEF WriteSettlement
  <2> QED
    BY <1>6, <2>2, <2>4, <2>5, <2>6, <2>7, <2>8, <2>9, <2>10 DEF Continue,
       ReopenSettlement, ClaimFloat, SumPaid, SumReserved, CreateTransfer, RejectTransfer,
       FailSettlement, RecordPayoutSource, ReadCashStatus, WriteCashStatus, CentralSteps,
       LockSteps
<1> QED
  BY <1>1, <1>2, <1>3, <1>4, <1>5, <1>6, StepsOf DEF Next

(* Safaricom carries out a transfer at most once, whatever answer is lost, *)
(* if no two handlers work on one at once.                                 *)
THEOREM MovedOnce == Spec /\ []NoOverlap(Moved) => [](\A t \in Moved : b2bSent[t] <= 1)
<1>1. OnceInv => \A t \in Moved : b2bSent[t] <= 1
  BY DEF OnceInv, OnceOK
<1>2. Frame /\ IdleOK /\ NoOverlap(Moved) /\ NoOverlap(Moved)' /\ OnceInv /\ [Next]_vars
        => IdleOK' /\ OnceInv'
  BY IdleNext, OnceNext
<1> QED
  BY <1>1, <1>2, IdleInit, MovedInit, FrameInvariant, PTL DEF Spec

(* MovedIsLedgered: if moreover no answer is lost, what Safaricom has      *)
(* moved is reserved or debited.  Run float_moved_ledgered shows that it   *)
(* is not when an answer is lost.                                          *)
THEOREM MovedLedgered ==
  ASSUME ~Lossy
  PROVE  Spec /\ []NoOverlap(Moved) => []MovedIsLedgered
<1>1. LedgeredInv => MovedIsLedgered
  BY DEF LedgeredInv, LedgeredOK, MovedIsLedgered
<1>2. Frame /\ IdleOK /\ NoOverlap(Moved) /\ NoOverlap(Moved)' /\ OnceInv /\ LedgeredInv
        /\ [Next]_vars => IdleOK' /\ OnceInv' /\ LedgeredInv'
  BY IdleNext, OnceNext, LedgeredNext
<1> QED
  BY <1>1, <1>2, IdleInit, MovedInit, FrameInvariant, PTL DEF Spec

--------------------------------------------------------------------------------
(* One handler at a time, as in run progress: NotStranded and              *)
(* MovedIsLedgered, each under the one condition it needs.                 *)
THEOREM Serial ==
  ASSUME \A g, h \in Handlers : g = h
  PROVE  /\ ~Faulty /\ ReliableSpec => []NotStranded
         /\ ~Lossy /\ ReliableSpec => []MovedIsLedgered
<1>1. NoOverlap(Central) /\ NoOverlap(Moved)
  BY DEF NoOverlap
<1>2. [Step]_vars => [Next]_vars
  BY DEF Next
<1>3. ASSUME ~Faulty PROVE ReliableSpec => []NotStranded
  BY <1>1, <1>3, Held, PTL DEF ReliableSpec
<1>4. ASSUME ~Lossy PROVE ReliableSpec => []MovedIsLedgered
  BY <1>1, <1>2, <1>4, MovedLedgered, PTL DEF ReliableSpec, Spec
<1> QED
  BY <1>3, <1>4
================================================================================
