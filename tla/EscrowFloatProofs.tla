--------------------------- MODULE EscrowFloatProofs ---------------------------
(***************************************************************************)
(* Proofs about EscrowFloat, for any number of transfers, deposits and     *)
(* handlers, any amounts, and with crashes and lost answers.               *)
(***************************************************************************)
EXTENDS EscrowFloat, TLAPS

--------------------------------------------------------------------------------
(* Types.                                                                  *)

Frame == TypeOK /\ TaskOK /\ CentralOK

LEMMA FrameInit == Init => Frame
BY KindsAssumption DEF Init, Frame, TypeOK, TaskOK, CentralOK, NoSums, Statuses,
   ReservedStatuses, MpesaStatuses, Steps, CentralSteps, LockSteps, MovedSteps,
   WriterSteps, Central, Linked

(* Every write of a status keeps the types of the two row variables.       *)
LEMMA SetStatusTypes ==
  ASSUME TypeOK, NEW t, NEW s \in Statuses, SetStatus(t, s)
  PROVE  /\ status' \in [Transfers -> Statuses]
         /\ slipped' \in SUBSET Central
         /\ \A u \in Transfers : status'[u] = IF u = t THEN s ELSE status[u]
BY DEF TypeOK, SetStatus

(* Every sum the balance is computed from is a natural number.             *)
LEMMA SumTypes ==
  ASSUME TypeOK
  PROVE  Total[confirmed] \in Nat /\ Total[Paid] \in Nat /\ Total[Reserved] \in Nat
BY TotalAssumption DEF TypeOK, Paid, Reserved, Entries

(* A call to Safaricom keeps the types of the variables it may write.      *)
LEMMA CallTypes ==
  ASSUME TypeOK, TaskOK, NEW h \in Handlers, pc[h] \in MovedSteps,
         NEW type \in {"STK", "B2B"}, Call(h, type)
  PROVE  /\ results' \in SUBSET Results
         /\ b2bSent' \in [Transfers -> Nat]
         /\ pc' \in [Handlers -> Steps]
         /\ task' \in [Handlers -> Transfers \cup {None}]
         /\ pc'[h] \in {"idle", "fail"}
         /\ \A g \in Handlers \ {h} : pc'[g] = pc[g] /\ task'[g] = task[g]
         /\ pc'[h] = "fail" => task'[h] = task[h]
<1>1. task[h] \in Transfers
  BY KindsAssumption DEF TaskOK, Moved, Linked
<1>2. PICK arrived \in BOOLEAN, answered \in BOOLEAN, ok \in BOOLEAN :
        /\ results' = IF arrived
                      THEN results \cup {[type |-> type, t |-> task[h], ok |-> ok]}
                      ELSE results
        /\ b2bSent' = IF arrived /\ ok /\ type = "B2B"
                      THEN [b2bSent EXCEPT ![task[h]] = @ + 1] ELSE b2bSent
        /\ IF answered THEN Return(h) ELSE Goto(h, "fail")
  BY DEF Call
<1>3. results' \in SUBSET Results
  <2>1. [type |-> type, t |-> task[h], ok |-> ok] \in Results
    BY <1>1 DEF Results
  <2> QED
    BY <1>2, <2>1 DEF TypeOK
<1>4. b2bSent' \in [Transfers -> Nat]
  BY <1>1, <1>2 DEF TypeOK
<1> QED
  BY <1>2, <1>3, <1>4 DEF Return, Goto, TypeOK, Steps, MovedSteps

(* Frame is inductive: one step per action.                                *)
LEMMA FrameNext == Frame /\ [Next]_vars => Frame'
<1> SUFFICES ASSUME Frame, [Next]_vars PROVE Frame'
  OBVIOUS
<1> USE KindsAssumption DEF Frame, Goto, Return, Enter, ReleaseFloat, rowVars, floatVars,
                            depositVars, settlementVars, handlerVars, mpesaVars
<1> USE DEF Steps, CentralSteps, LockSteps, MovedSteps, WriterSteps, Statuses, ReservedStatuses, FinalStatuses
<1>a. ASSUME UNCHANGED vars PROVE Frame'
  BY <1>a DEF vars, TypeOK, TaskOK, CentralOK
<1>b. ASSUME NEW d \in Deposits, ConfirmDeposit(d) \/ ForgetDeposit(d) PROVE Frame'
  BY <1>b DEF ConfirmDeposit, ForgetDeposit, TypeOK, TaskOK, CentralOK
<1>c. ASSUME NEW t \in Transfers, FinalizeDirectCash(t) PROVE Frame'
  BY <1>c, SetStatusTypes DEF FinalizeDirectCash, TypeOK, TaskOK, CentralOK, Central
<1>d. ASSUME Crash PROVE Frame'
  BY <1>d DEF Crash, TypeOK, TaskOK, CentralOK, NoSums
<1>1. ASSUME NEW h \in Handlers, NEW t \in Transfers, StartCash(h, t) PROVE Frame'
  BY <1>1 DEF StartCash, TypeOK, TaskOK, CentralOK, Central, Linked, Moved
<1>2. ASSUME NEW h \in Handlers, NEW t \in Transfers, StkConfirmed(h, t) PROVE Frame'
  BY <1>2 DEF StkConfirmed, TypeOK, TaskOK, CentralOK, Central, Moved
<1>3. ASSUME NEW h \in Handlers, NEW t \in Transfers, StartStandalone(h, t) PROVE Frame'
  BY <1>3, SetStatusTypes DEF StartStandalone, TypeOK, TaskOK, CentralOK, Central, Moved
<1>4. ASSUME NEW h \in Handlers, NEW t \in Transfers, BalanceCallback(h, t) PROVE Frame'
  BY <1>4 DEF BalanceCallback, TypeOK, TaskOK, CentralOK, Central, Moved
<1>5. ASSUME NEW h \in Handlers, NEW t \in Transfers, TransferTimeout(h, t) PROVE Frame'
  BY <1>5 DEF TransferTimeout, TypeOK, TaskOK, CentralOK, vars
<1>6. ASSUME NEW h \in Handlers, NEW t \in Transfers, NEW ok \in BOOLEAN, FundingCallback(h, t, ok)
      PROVE  Frame'
  BY <1>6 DEF FundingCallback, TypeOK, TaskOK, CentralOK, Central, Moved
<1>7. ASSUME NEW h \in Handlers, NEW t \in Transfers, NEW ok \in BOOLEAN, TransferCallback(h, t, ok)
      PROVE  Frame'
  BY <1>7 DEF TransferCallback, TypeOK, TaskOK, CentralOK, Central, Moved
<1>8. ASSUME NEW h \in Handlers, ReopenSettlement(h) PROVE Frame'
  BY <1>8 DEF ReopenSettlement, TypeOK, TaskOK, CentralOK
<1>9. ASSUME NEW h \in Handlers, ClaimFloat(h) PROVE Frame'
  BY <1>9, SumTypes DEF ClaimFloat, TypeOK, TaskOK, CentralOK, NoSums
<1>10. ASSUME NEW h \in Handlers, SumPaid(h) PROVE Frame'
  BY <1>10, SumTypes DEF SumPaid, TypeOK, TaskOK, CentralOK
<1>11. ASSUME NEW h \in Handlers, SumReserved(h) PROVE Frame'
  BY <1>11, SumTypes DEF SumReserved, TypeOK, TaskOK, CentralOK
<1>12. ASSUME NEW h \in Handlers, CreateTransfer(h) PROVE Frame'
  BY <1>12, SetStatusTypes DEF CreateTransfer, TypeOK, TaskOK, CentralOK, NoSums, Central
<1>13. ASSUME NEW h \in Handlers, RejectTransfer(h) PROVE Frame'
  BY <1>13 DEF RejectTransfer, TypeOK, TaskOK, CentralOK, NoSums
<1>14. ASSUME NEW h \in Handlers, FailSettlement(h) PROVE Frame'
  BY <1>14 DEF FailSettlement, TypeOK, TaskOK, CentralOK
<1>15. ASSUME NEW h \in Handlers, RecordPayoutSource(h) PROVE Frame'
  BY <1>15 DEF RecordPayoutSource, TypeOK, TaskOK, CentralOK
<1>16. ASSUME NEW h \in Handlers, ReadCashStatus(h) PROVE Frame'
  BY <1>16 DEF ReadCashStatus, TypeOK, TaskOK, CentralOK
<1>17. ASSUME NEW h \in Handlers, WriteCashStatus(h) PROVE Frame'
  BY <1>17 DEF WriteCashStatus, WriteBack, TypeOK, TaskOK, CentralOK
<1>18. ASSUME NEW h \in Handlers, NEW t \in Transfers, ReadSettlement(h, t) PROVE Frame'
  BY <1>18 DEF ReadSettlement, TypeOK, TaskOK, CentralOK, Linked
<1>19. ASSUME NEW h \in Handlers, WriteSettlement(h) PROVE Frame'
  BY <1>19 DEF WriteSettlement, WriteBack, TypeOK, TaskOK, CentralOK, Linked
<1>20. ASSUME NEW h \in Handlers, VerifyBalance(h) PROVE Frame'
  BY <1>20, SetStatusTypes DEF VerifyBalance, TypeOK, TaskOK, CentralOK, Moved, Central
<1>21. ASSUME NEW h \in Handlers, FailRead(h) PROVE Frame'
  BY <1>21 DEF FailRead, TypeOK, TaskOK, CentralOK
<1>22. ASSUME NEW h \in Handlers, FailWrite(h) PROVE Frame'
  <2> DEFINE s == IF pc[h] = "failWrite" THEN "FAILED" ELSE "BALANCE_MISMATCH"
  <2>1. task[h] \in Moved
    BY <1>22 DEF FailWrite, TaskOK
  <2>2. s \in Statuses /\ SetStatus(task[h], s)
    BY <1>22 DEF FailWrite
  <2>3. /\ status' \in [Transfers -> Statuses] /\ slipped' \in SUBSET Central
        /\ \A u \in Transfers : status'[u] = IF u = task[h] THEN s ELSE status[u]
    BY <2>2, SetStatusTypes
  <2> HIDE DEF s
  <2>4. TypeOK'
    BY <1>22, <2>3 DEF FailWrite, TypeOK
  <2>5. TaskOK' /\ CentralOK'
    BY <1>22, <2>1, <2>3 DEF FailWrite, TypeOK, TaskOK, CentralOK, Central, Moved
  <2> QED
    BY <2>4, <2>5
<1>23. ASSUME NEW h \in Handlers, BeginFunding(h) PROVE Frame'
  <2>1. TypeOK'
    BY <1>23, SetStatusTypes DEF BeginFunding, TypeOK, MpesaStatuses
  <2>2. TaskOK' /\ CentralOK'
    BY <1>23, SetStatusTypes DEF BeginFunding, TypeOK, TaskOK, CentralOK, Central, Moved
  <2> QED
    BY <2>1, <2>2
<1>24. ASSUME NEW h \in Handlers, PushStk(h) PROVE Frame'
  BY <1>24, CallTypes DEF PushStk, TypeOK, TaskOK, CentralOK
<1>25. ASSUME NEW h \in Handlers, RecordFunding(h) PROVE Frame'
  BY <1>25 DEF RecordFunding, TypeOK, TaskOK, CentralOK, MpesaStatuses
<1>26. ASSUME NEW h \in Handlers, CheckDispatch(h) PROVE Frame'
  BY <1>26 DEF CheckDispatch, TypeOK, TaskOK, CentralOK
<1>27. ASSUME NEW h \in Handlers, MarkPending(h) PROVE Frame'
  BY <1>27, SetStatusTypes DEF MarkPending, TypeOK, TaskOK, CentralOK, Moved, Central
<1>28. ASSUME NEW h \in Handlers, SendB2b(h) PROVE Frame'
  BY <1>28, CallTypes DEF SendB2b, TypeOK, TaskOK, CentralOK
<1>29. ASSUME NEW h \in Handlers, SuccessRead(h) PROVE Frame'
  BY <1>29 DEF SuccessRead, TypeOK, TaskOK, CentralOK
<1>30. ASSUME NEW h \in Handlers, SuccessWrite(h) PROVE Frame'
  BY <1>30, SetStatusTypes DEF SuccessWrite, TypeOK, TaskOK, CentralOK, Moved, Central
<1> QED
  BY <1>a, <1>b, <1>c, <1>d, <1>1, <1>2, <1>3, <1>4, <1>5, <1>6, <1>7, <1>8, <1>9, <1>10, <1>11,
     <1>12, <1>13, <1>14, <1>15, <1>16, <1>17, <1>18, <1>19, <1>20, <1>21, <1>22, <1>23, <1>24,
     <1>25, <1>26, <1>27, <1>28, <1>29, <1>30
     DEF Next, Step, Arrival, Continue

(* Frame: the types, and which steps work on which kind of transfer.       *)
THEOREM FrameInvariant == Spec => []Frame
<1> QED
  BY FrameInit, FrameNext, PTL DEF Spec

(* Typing: every variable keeps the shape its column or field has, and no  *)
(* sum is negative.                                                        *)
THEOREM Typing == Spec => []TypeOK
<1>1. Frame => TypeOK
  BY DEF Frame
<1> QED
  BY <1>1, FrameInvariant, PTL

--------------------------------------------------------------------------------
(* Sums.                                                                   *)

LEMMA TotalMonotone ==
  ASSUME NEW S \in SUBSET Entries, NEW T \in SUBSET Entries, S \subseteq T
  PROVE  Total[S] <= Total[T]
<1>1. S \cup (T \ S) = T /\ S \cap (T \ S) = {} /\ T \ S \in SUBSET Entries
  OBVIOUS
<1>2. Total[T] = Total[S] + Total[T \ S]
  BY <1>1, TotalAssumption
<1> QED
  BY <1>2, TotalAssumption

LEMMA TotalAddOne ==
  ASSUME NEW S \in SUBSET Entries, NEW e \in Entries \ S
  PROVE  Total[S \cup {e}] = Total[S] + Amount[e]
<1>1. {e} \in SUBSET Entries /\ S \cap {e} = {}
  OBVIOUS
<1> QED
  BY <1>1, TotalAssumption

(* The rows the two sums range over, restricted to CASH legs, partition    *)
(* the committed ones, and only legs are counted.                          *)
LEMMA CommittedSplit ==
  ASSUME TypeOK
  PROVE  /\ Total[Committed \cap Central] =
              Total[Paid \cap Central] + Total[Reserved \cap Central]
         /\ Total[Paid \cap Central] <= Total[Paid]
         /\ Total[Reserved \cap Central] <= Total[Reserved]
         /\ Total[Paid \cap Central] \in Nat
         /\ Total[Reserved \cap Central] \in Nat
         /\ Total[Committed \cap Central] \in Nat
         /\ Total[slipped] \in Nat
         /\ Total[credited] \in Nat
<1> DEFINE P == Paid \cap Central  R == Reserved \cap Central
<1>1. P \in SUBSET Entries /\ R \in SUBSET Entries /\ P \cap R = {}
  BY DEF Paid, Reserved, ReservedStatuses, Entries, Central
<1>2. Committed \cap Central = P \cup R
  BY DEF Committed
<1>3. P \subseteq Paid /\ Paid \in SUBSET Entries
  BY DEF Paid, Entries
<1>4. R \subseteq Reserved /\ Reserved \in SUBSET Entries
  BY DEF Reserved, Entries
<1>5. Total[P] <= Total[Paid] /\ Total[R] <= Total[Reserved]
  BY <1>1, <1>3, <1>4, TotalMonotone
<1>6. slipped \in SUBSET Entries /\ credited \in SUBSET Entries
  BY DEF TypeOK, Central, Entries
<1>7. Total[P \cup R] = Total[P] + Total[R] /\ P \cup R \in SUBSET Entries
  BY <1>1, TotalAssumption
<1> QED
  BY <1>1, <1>2, <1>5, <1>6, <1>7, TotalAssumption

--------------------------------------------------------------------------------
(* The ledger.                                                             *)

LedgerInv == Frame /\ LockOK /\ HistoryOK /\ SumsOK /\ LedgerBacked

LEMMA LedgerInit == Init => LedgerInv
<1> SUFFICES ASSUME Init PROVE LedgerInv
  OBVIOUS
<1>1. Frame
  BY FrameInit
<1>2. LockOK /\ HistoryOK /\ SumsOK
  BY KindsAssumption DEF Init, LockOK, HistoryOK, SumsOK, LockSteps
<1>3. Committed \cap Central = {}
  BY DEF Init, Committed, Paid, Reserved, ReservedStatuses, Central
<1>4. LedgerBacked
  BY <1>3, TotalAssumption DEF Init, LedgerBacked
<1> QED
  BY <1>1, <1>2, <1>4 DEF LedgerInv

(* A step that touches no CASH leg, no admission under way and none of its *)
(* sums; a deposit may be confirmed meanwhile.                             *)
Quiet ==
  /\ \A t \in Central : status'[t] = status[t]
  /\ \/ credited' = credited
     \/ \E d \in Deposits \ credited : credited' = credited \cup {d}
  /\ confirmed \subseteq credited => confirmed' \subseteq credited'
  /\ slipped' = slipped
  /\ UNCHANGED floatVars
  /\ \A g \in Handlers : pc[g] \in LockSteps \/ pc'[g] \in LockSteps => pc'[g] = pc[g]

LEMMA QuietStep ==
  ASSUME LedgerInv, Frame', Quiet
  PROVE  LedgerInv'
<1> USE DEF Quiet
<1>1. LockOK' /\ HistoryOK'
  BY DEF LedgerInv, Frame, TypeOK, LockOK, HistoryOK, floatVars
<1>2. Paid' \cap Central = Paid \cap Central /\ Committed' \cap Central = Committed \cap Central
  BY DEF Paid, Reserved, Committed, Central
<1>3. Total[credited] <= Total[credited'] /\ Total[credited] \in Nat /\ Total[credited'] \in Nat
  BY TotalMonotone, TotalAssumption DEF LedgerInv, Frame, TypeOK, Entries
<1>4. Total[Paid \cap Central] \in Nat /\ Total[Committed \cap Central] \in Nat /\ Total[slipped] \in Nat
  BY CommittedSplit DEF LedgerInv, Frame
<1>5. SumsOK'
  <2> SUFFICES ASSUME NEW g \in Handlers, pc'[g] \in LockSteps
               PROVE  /\ sums.deposited <= Total[credited']
                      /\ pc'[g] = "sumReserved" =>
                           Total[Paid \cap Central] <= sums.paid + Total[slipped]
                      /\ pc'[g] = "commit" =>
                           Total[Committed \cap Central] <= sums.paid + sums.reserved + Total[slipped]
    BY <1>2 DEF SumsOK, LockSteps, floatVars
  <2>1. pc'[g] = pc[g]
    OBVIOUS
  <2>2. sums.deposited \in Nat
    BY DEF LedgerInv, Frame, TypeOK
  <2>3. /\ sums.deposited <= Total[credited]
        /\ pc[g] = "sumReserved" => Total[Paid \cap Central] <= sums.paid + Total[slipped]
        /\ pc[g] = "commit" =>
             Total[Committed \cap Central] <= sums.paid + sums.reserved + Total[slipped]
    BY <2>1 DEF LedgerInv, SumsOK
  <2>4. sums.deposited <= Total[credited']
    BY <1>3, <2>2, <2>3
  <2> QED
    BY <2>1, <2>3, <2>4
<1>6. LedgerBacked'
  <2>1. Total[Committed \cap Central] <= Total[credited'] + Total[slipped]
    BY <1>3, <1>4 DEF LedgerInv, LedgerBacked
  <2> QED
    BY <1>2, <2>1 DEF LedgerBacked
<1> QED
  BY <1>1, <1>5, <1>6 DEF LedgerInv

(* A status write to a transfer that is no CASH leg leaves every leg alone. *)
LEMMA SetStatusMoved ==
  ASSUME TypeOK, NEW t \in Moved, NEW s \in Statuses, SetStatus(t, s)
  PROVE  (\A u \in Central : status'[u] = status[u]) /\ slipped' = slipped
BY SetStatusTypes DEF SetStatus, Central, Moved

(* The steps that read and use the sums.                                   *)
LEMMA ClaimStep ==
  ASSUME LedgerInv, Frame', NEW h \in Handlers, ClaimFloat(h)
  PROVE  LedgerInv'
<1> USE DEF rowVars, depositVars, settlementVars, mpesaVars
<1>1. TypeOK /\ LockOK /\ HistoryOK /\ SumsOK /\ LedgerBacked
  BY DEF LedgerInv, Frame
<1>2. LockOK'
  BY <1>1, KindsAssumption DEF ClaimFloat, Goto, LockOK, LockSteps, TypeOK
<1>3. SumsOK'
  <2> SUFFICES ASSUME NEW g \in Handlers, pc'[g] \in LockSteps
               PROVE  pc'[g] = "sumPaid" /\ sums'.deposited <= Total[credited']
    BY DEF SumsOK, LockSteps
  <2>1. g = h
    BY <1>1, KindsAssumption DEF ClaimFloat, Goto, LockOK, TypeOK, LockSteps
  <2>2. sums'.deposited = Total[confirmed] /\ credited' = credited
    BY DEF ClaimFloat, NoSums
  <2> QED
    <3>1. confirmed \subseteq credited /\ credited \in SUBSET Entries
      BY <1>1 DEF HistoryOK, TypeOK, Entries
    <3>2. Total[confirmed] <= Total[credited]
      BY <3>1, TotalMonotone
    <3> QED
      BY <1>1, <2>1, <2>2, <3>2 DEF ClaimFloat, Goto, TypeOK
<1>4. HistoryOK' /\ LedgerBacked'
  BY <1>1 DEF ClaimFloat, HistoryOK, LedgerBacked, Committed, Paid, Reserved
<1> QED
  BY <1>2, <1>3, <1>4 DEF LedgerInv

LEMMA SumPaidStep ==
  ASSUME LedgerInv, Frame', NEW h \in Handlers, SumPaid(h)
  PROVE  LedgerInv'
<1> USE DEF rowVars, depositVars, settlementVars, mpesaVars
<1>1. TypeOK /\ LockOK /\ HistoryOK /\ SumsOK /\ LedgerBacked
  BY DEF LedgerInv, Frame
<1>2. LockOK'
  BY <1>1 DEF SumPaid, Goto, LockOK, LockSteps, TypeOK
<1>3. /\ sums'.deposited = sums.deposited /\ sums'.paid = Total[Paid]
      /\ Paid' = Paid /\ credited' = credited /\ slipped' = slipped
  BY <1>1 DEF SumPaid, Paid, TypeOK
<1>4. Total[Paid \cap Central] <= Total[Paid] + Total[slipped]
  BY <1>1, CommittedSplit, SumTypes
<1>5. SumsOK'
  <2> SUFFICES ASSUME NEW g \in Handlers, pc'[g] \in LockSteps
               PROVE  /\ pc'[g] = "sumReserved"
                      /\ sums'.deposited <= Total[credited']
                      /\ Total[Paid' \cap Central] <= sums'.paid + Total[slipped']
    BY DEF SumsOK, LockSteps
  <2>1. g = h
    BY <1>1 DEF SumPaid, Goto, LockOK, TypeOK, LockSteps
  <2>2. sums.deposited <= Total[credited]
    BY <1>1 DEF SumPaid, SumsOK, LockSteps
  <2> QED
    BY <1>1, <1>3, <1>4, <2>1, <2>2 DEF SumPaid, Goto, TypeOK
<1>6. HistoryOK' /\ LedgerBacked'
  BY <1>1 DEF SumPaid, HistoryOK, LedgerBacked, Committed, Paid, Reserved
<1> QED
  BY <1>2, <1>5, <1>6 DEF LedgerInv

LEMMA SumReservedStep ==
  ASSUME LedgerInv, Frame', NEW h \in Handlers, SumReserved(h)
  PROVE  LedgerInv'
<1> USE DEF rowVars, depositVars, settlementVars, mpesaVars
<1>1. TypeOK /\ LockOK /\ HistoryOK /\ SumsOK /\ LedgerBacked
  BY DEF LedgerInv, Frame
<1>2. LockOK'
  BY <1>1 DEF SumReserved, Goto, LockOK, LockSteps, TypeOK
<1>3. /\ sums'.deposited = sums.deposited /\ sums'.paid = sums.paid
      /\ sums'.reserved = Total[Reserved] /\ sums.paid \in Nat
      /\ Committed' = Committed /\ credited' = credited /\ slipped' = slipped
  BY <1>1 DEF SumReserved, Paid, Reserved, Committed, TypeOK
<1>4. Total[Paid \cap Central] <= sums.paid + Total[slipped]
  BY <1>1 DEF SumReserved, SumsOK
<1>5. Total[Committed \cap Central] <= sums.paid + Total[Reserved] + Total[slipped]
  BY <1>1, <1>3, <1>4, CommittedSplit, SumTypes
<1>6. SumsOK'
  <2> SUFFICES ASSUME NEW g \in Handlers, pc'[g] \in LockSteps
               PROVE  /\ pc'[g] = "commit"
                      /\ sums'.deposited <= Total[credited']
                      /\ Total[Committed' \cap Central] <=
                           sums'.paid + sums'.reserved + Total[slipped']
    BY DEF SumsOK, LockSteps
  <2>1. g = h
    BY <1>1 DEF SumReserved, Goto, LockOK, TypeOK, LockSteps
  <2>2. sums.deposited <= Total[credited]
    BY <1>1 DEF SumReserved, SumsOK, LockSteps
  <2> QED
    BY <1>1, <1>3, <1>5, <2>1, <2>2 DEF SumReserved, Goto, TypeOK
<1>7. HistoryOK' /\ LedgerBacked'
  BY <1>1 DEF SumReserved, HistoryOK, LedgerBacked, Committed, Paid, Reserved
<1> QED
  BY <1>2, <1>6, <1>7 DEF LedgerInv

(* A transaction that ends leaves no handler with sums.                    *)
LEMMA Released ==
  ASSUME LedgerInv, Frame', NEW h \in Handlers, pc[h] \in LockSteps,
         activeTransferId' = None, pc'[h] \notin LockSteps,
         \A g \in Handlers \ {h} : pc'[g] = pc[g]
  PROVE  LockOK' /\ SumsOK'
<1>1. \A g \in Handlers : pc'[g] \notin LockSteps
  BY DEF LedgerInv, LockOK
<1> QED
  BY <1>1, KindsAssumption DEF LockOK, SumsOK, LockSteps

LEMMA CreateStep ==
  ASSUME LedgerInv, Frame', NEW h \in Handlers, CreateTransfer(h)
  PROVE  LedgerInv'
<1> DEFINE t == task[h]
<1>1. TypeOK /\ TaskOK /\ LockOK /\ HistoryOK /\ SumsOK /\ LedgerBacked
  BY DEF LedgerInv, Frame
<1>2. pc[h] = "commit" /\ t \in Central /\ t \in Transfers /\ status[t] = "NONE"
  BY <1>1 DEF CreateTransfer, TaskOK, CentralSteps, LockSteps, Central
<1>3. /\ status' = [status EXCEPT ![t] = "BALANCE_VERIFIED"]
      /\ slipped' = slipped /\ credited' = credited /\ confirmed' = confirmed
  BY DEF CreateTransfer, SetStatus, depositVars
<1>4. LockOK' /\ SumsOK'
  <2>1. /\ activeTransferId' = None /\ pc'[h] \notin LockSteps
        /\ \A g \in Handlers \ {h} : pc'[g] = pc[g]
    BY <1>1 DEF CreateTransfer, ReleaseFloat, Goto, LockSteps, TypeOK
  <2> QED
    BY <1>2, <2>1, Released DEF LockSteps
<1>5. HistoryOK'
  BY <1>1, <1>2, <1>3 DEF HistoryOK, TypeOK, Central
<1>6. LedgerBacked'
  <2>1. t \in Entries /\ t \notin Committed \cap Central /\ Committed \cap Central \in SUBSET Entries
    BY <1>2 DEF Committed, Paid, Reserved, ReservedStatuses, Entries
  <2>2. Committed' \cap Central = (Committed \cap Central) \cup {t}
    BY <1>1, <1>2, <1>3 DEF Committed, Paid, Reserved, ReservedStatuses, Central, TypeOK
  <2>3. Total[Committed' \cap Central] = Total[Committed \cap Central] + Amount[t]
    BY <2>1, <2>2, TotalAddOne
  <2>4. /\ sums.deposited <= Total[credited]
        /\ Total[Committed \cap Central] <= sums.paid + sums.reserved + Total[slipped]
    BY <1>1, <1>2 DEF SumsOK, LockSteps
  <2>5. sums.deposited - sums.paid - sums.reserved >= Amount[t]
    BY DEF CreateTransfer, AvailableBalance
  <2>6. /\ sums.deposited \in Nat /\ sums.paid \in Nat /\ sums.reserved \in Nat
        /\ Amount[t] \in Nat
    BY <1>1, <2>1, AmountAssumption DEF TypeOK
  <2>7. Total[Committed \cap Central] + Amount[t] <= Total[credited] + Total[slipped]
    <3> HIDE DEF t
    <3> QED
      BY <1>1, <2>4, <2>5, <2>6, CommittedSplit
  <2> QED
    BY <1>3, <2>3, <2>7 DEF LedgerBacked
<1> QED
  BY <1>4, <1>5, <1>6 DEF LedgerInv

LEMMA RejectStep ==
  ASSUME LedgerInv, Frame', NEW h \in Handlers, RejectTransfer(h)
  PROVE  LedgerInv'
<1>1. TypeOK /\ HistoryOK /\ LedgerBacked
  BY DEF LedgerInv, Frame
<1>2. /\ pc[h] \in LockSteps /\ activeTransferId' = None /\ pc'[h] \notin LockSteps
      /\ \A g \in Handlers \ {h} : pc'[g] = pc[g]
  BY <1>1 DEF RejectTransfer, ReleaseFloat, Goto, LockSteps, TypeOK
<1>3. LockOK' /\ SumsOK'
  BY <1>2, Released
<1>4. HistoryOK' /\ LedgerBacked'
  BY <1>1 DEF RejectTransfer, rowVars, depositVars, HistoryOK, LedgerBacked, Committed, Paid, Reserved
<1> QED
  BY <1>3, <1>4 DEF LedgerInv

LEMMA CrashStep ==
  ASSUME LedgerInv, Frame', Crash
  PROVE  LedgerInv'
<1>1. LockOK' /\ SumsOK'
  BY KindsAssumption DEF Crash, ReleaseFloat, LockOK, SumsOK, LockSteps
<1>2. HistoryOK' /\ LedgerBacked'
  BY DEF LedgerInv, Crash, rowVars, depositVars, HistoryOK, LedgerBacked, Committed, Paid, Reserved
<1> QED
  BY <1>1, <1>2 DEF LedgerInv

(* The debit of a leg: it may fall between the two sums of an admission.   *)
LEMMA FinalizeStep ==
  ASSUME LedgerInv, Frame', NEW t \in Transfers, FinalizeDirectCash(t)
  PROVE  LedgerInv'
<1>1. TypeOK /\ LockOK /\ HistoryOK /\ SumsOK /\ LedgerBacked
  BY DEF LedgerInv, Frame
<1>2. t \in Central /\ status[t] = "BALANCE_VERIFIED" /\ t \notin slipped /\ t \notin Paid
  BY <1>1 DEF FinalizeDirectCash, TypeOK, HistoryOK, Paid
<1>3. /\ status' = [status EXCEPT ![t] = "SUCCEEDED"]
      /\ sums' = sums /\ pc' = pc /\ credited' = credited /\ confirmed' = confirmed
      /\ activeTransferId' = activeTransferId
      /\ slipped' = slipped \/ slipped' = slipped \cup {t}
      /\ (\E h \in Handlers : pc[h] = "sumReserved") => slipped' = slipped \cup {t}
  BY <1>2 DEF FinalizeDirectCash, SetStatus, floatVars, handlerVars, depositVars
<1>4. LockOK' /\ HistoryOK'
  BY <1>1, <1>2, <1>3 DEF LockOK, HistoryOK, TypeOK
<1>5. /\ Committed' \cap Central = Committed \cap Central
      /\ Paid' \cap Central = (Paid \cap Central) \cup {t}
  BY <1>1, <1>2, <1>3 DEF Committed, Paid, Reserved, ReservedStatuses, Central, TypeOK
<1>6. t \in Entries /\ slipped \in SUBSET Entries /\ Paid \cap Central \in SUBSET Entries
  BY <1>1 DEF TypeOK, Entries, Paid, Central
<1>7. /\ Total[Paid' \cap Central] = Total[Paid \cap Central] + Amount[t]
      /\ Total[slipped \cup {t}] = Total[slipped] + Amount[t]
      /\ Amount[t] \in Nat
  BY <1>2, <1>5, <1>6, TotalAddOne, AmountAssumption
<1>8. Total[slipped] <= Total[slipped'] /\ Total[slipped'] \in Nat
  <2>1. Total[slipped] \in Nat
    BY <1>1, CommittedSplit
  <2>2. CASE slipped' = slipped
    BY <2>1, <2>2
  <2>3. CASE slipped' = slipped \cup {t}
    BY <1>7, <2>1, <2>3
  <2> QED
    BY <1>3, <2>2, <2>3
<1>9. /\ Total[Committed \cap Central] \in Nat /\ Total[Paid \cap Central] \in Nat
      /\ Total[slipped] \in Nat /\ Total[credited] \in Nat
      /\ sums.paid \in Nat /\ sums.reserved \in Nat
  BY <1>1, CommittedSplit DEF TypeOK
<1>10. SumsOK'
  <2> SUFFICES ASSUME NEW g \in Handlers
               PROVE  /\ pc[g] \in LockSteps => sums.deposited <= Total[credited]
                      /\ pc[g] = "sumReserved" =>
                           Total[Paid' \cap Central] <= sums.paid + Total[slipped']
                      /\ pc[g] = "commit" =>
                           Total[Committed \cap Central] <=
                             sums.paid + sums.reserved + Total[slipped']
    BY <1>3, <1>5 DEF SumsOK
  <2>1. pc[g] \in LockSteps => sums.deposited <= Total[credited]
    BY <1>1 DEF SumsOK
  <2>2. ASSUME pc[g] = "sumReserved"
        PROVE  Total[Paid' \cap Central] <= sums.paid + Total[slipped']
    <3>1. Total[Paid \cap Central] <= sums.paid + Total[slipped]
      BY <1>1, <2>2 DEF SumsOK
    <3>2. slipped' = slipped \cup {t}
      BY <1>3, <2>2
    <3> QED
      BY <1>7, <1>9, <3>1, <3>2
  <2>3. ASSUME pc[g] = "commit"
        PROVE  Total[Committed \cap Central] <= sums.paid + sums.reserved + Total[slipped']
    <3>1. Total[Committed \cap Central] <= sums.paid + sums.reserved + Total[slipped]
      BY <1>1, <2>3 DEF SumsOK
    <3> QED
      BY <1>8, <1>9, <3>1
  <2> QED
    BY <2>1, <2>2, <2>3
<1>11. LedgerBacked'
  <2>1. Total[Committed \cap Central] <= Total[credited] + Total[slipped']
    BY <1>1, <1>8, <1>9 DEF LedgerBacked
  <2> QED
    BY <1>3, <1>5, <2>1 DEF LedgerBacked
<1> QED
  BY <1>4, <1>10, <1>11 DEF LedgerInv

(* Every other step is quiet: one step per action.                         *)
LEMMA QuietOrNot ==
  ASSUME Frame, Frame', [Next]_vars
  PROVE  \/ Quiet
         \/ \E h \in Handlers : ClaimFloat(h) \/ SumPaid(h) \/ SumReserved(h)
                              \/ CreateTransfer(h) \/ RejectTransfer(h)
         \/ \E t \in Transfers : FinalizeDirectCash(t)
         \/ Crash
<1>1. TypeOK /\ TaskOK /\ CentralOK
  BY DEF Frame
<1> USE KindsAssumption DEF Goto, Return, Enter, rowVars, floatVars, depositVars, settlementVars, handlerVars,
                            mpesaVars, LockSteps, CentralSteps, MovedSteps, WriterSteps, TypeOK, Quiet
<1>2. ASSUME UNCHANGED vars PROVE Quiet
  BY <1>2 DEF vars
<1>3. ASSUME NEW d \in Deposits, ConfirmDeposit(d) \/ ForgetDeposit(d) PROVE Quiet
  BY <1>3 DEF ConfirmDeposit, ForgetDeposit
<1>4. ASSUME NEW h \in Handlers, NEW t \in Transfers, StartCash(h, t) PROVE Quiet
  BY <1>1, <1>4 DEF StartCash
<1>5. ASSUME NEW h \in Handlers, NEW t \in Transfers, StkConfirmed(h, t) PROVE Quiet
  BY <1>1, <1>5 DEF StkConfirmed
<1>6. ASSUME NEW h \in Handlers, NEW t \in Transfers, StartStandalone(h, t) PROVE Quiet
  BY <1>1, <1>6, SetStatusMoved DEF StartStandalone, Moved, Statuses, ReservedStatuses
<1>7. ASSUME NEW h \in Handlers, NEW t \in Transfers, BalanceCallback(h, t) PROVE Quiet
  BY <1>1, <1>7 DEF BalanceCallback
<1>8. ASSUME NEW h \in Handlers, NEW t \in Transfers, TransferTimeout(h, t) PROVE Quiet
  BY <1>8 DEF TransferTimeout, vars
<1>9. ASSUME NEW h \in Handlers, NEW t \in Transfers, NEW ok \in BOOLEAN, FundingCallback(h, t, ok)
      PROVE  Quiet
  BY <1>1, <1>9 DEF FundingCallback
<1>10. ASSUME NEW h \in Handlers, NEW t \in Transfers, NEW ok \in BOOLEAN, TransferCallback(h, t, ok)
       PROVE  Quiet
  BY <1>1, <1>10 DEF TransferCallback
<1>11. ASSUME NEW h \in Handlers, ReopenSettlement(h) PROVE Quiet
  BY <1>1, <1>11 DEF ReopenSettlement
<1>12. ASSUME NEW h \in Handlers, FailSettlement(h) PROVE Quiet
  BY <1>1, <1>12 DEF FailSettlement
<1>13. ASSUME NEW h \in Handlers, RecordPayoutSource(h) PROVE Quiet
  BY <1>1, <1>13 DEF RecordPayoutSource
<1>14. ASSUME NEW h \in Handlers, ReadCashStatus(h) \/ WriteCashStatus(h) PROVE Quiet
  BY <1>1, <1>14 DEF ReadCashStatus, WriteCashStatus, WriteBack
<1>15. ASSUME NEW h \in Handlers, NEW t \in Transfers, ReadSettlement(h, t) PROVE Quiet
  BY <1>1, <1>15 DEF ReadSettlement
<1>16. ASSUME NEW h \in Handlers, WriteSettlement(h) PROVE Quiet
  BY <1>1, <1>16 DEF WriteSettlement, WriteBack
<1>17. ASSUME NEW h \in Handlers, VerifyBalance(h) PROVE Quiet
  BY <1>1, <1>17, SetStatusMoved DEF VerifyBalance, TaskOK, Statuses, ReservedStatuses,
     FinalStatuses
<1>18. ASSUME NEW h \in Handlers, FailRead(h) PROVE Quiet
  BY <1>1, <1>18 DEF FailRead
<1>19. ASSUME NEW h \in Handlers, FailWrite(h) PROVE Quiet
  BY <1>1, <1>19, SetStatusMoved DEF FailWrite, TaskOK, Statuses, ReservedStatuses,
     FinalStatuses
<1>20. ASSUME NEW h \in Handlers, BeginFunding(h) PROVE Quiet
  BY <1>1, <1>20, SetStatusMoved DEF BeginFunding, TaskOK, Statuses, ReservedStatuses,
     FinalStatuses
<1>21. ASSUME NEW h \in Handlers, PushStk(h) PROVE Quiet
  BY <1>1, <1>21, CallTypes DEF PushStk
<1>22. ASSUME NEW h \in Handlers, RecordFunding(h) PROVE Quiet
  BY <1>1, <1>22 DEF RecordFunding
<1>23. ASSUME NEW h \in Handlers, CheckDispatch(h) PROVE Quiet
  BY <1>1, <1>23 DEF CheckDispatch
<1>24. ASSUME NEW h \in Handlers, MarkPending(h) PROVE Quiet
  BY <1>1, <1>24, SetStatusMoved DEF MarkPending, TaskOK, Statuses, ReservedStatuses,
     FinalStatuses
<1>25. ASSUME NEW h \in Handlers, SendB2b(h) PROVE Quiet
  BY <1>1, <1>25, CallTypes DEF SendB2b
<1>26. ASSUME NEW h \in Handlers, SuccessRead(h) PROVE Quiet
  BY <1>1, <1>26 DEF SuccessRead
<1>27. ASSUME NEW h \in Handlers, SuccessWrite(h) PROVE Quiet
  BY <1>1, <1>27, SetStatusMoved DEF SuccessWrite, TaskOK, Statuses, ReservedStatuses,
     FinalStatuses
<1> HIDE DEF Quiet
<1> QED
  BY <1>2, <1>3, <1>4, <1>5, <1>6, <1>7, <1>8, <1>9, <1>10, <1>11, <1>12, <1>13, <1>14, <1>15,
     <1>16, <1>17, <1>18, <1>19, <1>20, <1>21, <1>22, <1>23, <1>24, <1>25, <1>26, <1>27
     DEF Next, Step, Arrival, Continue

LEMMA LedgerNext == LedgerInv /\ [Next]_vars => LedgerInv'
<1> SUFFICES ASSUME LedgerInv, [Next]_vars PROVE LedgerInv'
  OBVIOUS
<1>1. Frame /\ Frame'
  BY FrameNext DEF LedgerInv
<1> QED
  BY <1>1, QuietOrNot, QuietStep, ClaimStep, SumPaidStep, SumReservedStep, CreateStep,
     RejectStep, CrashStep, FinalizeStep

(* LedgerBacked: whatever the interleaving of admissions, debits, crashes  *)
(* and replayed callbacks, the CASH legs held against the float exceed the *)
(* confirmed deposits by no more than the legs that were debited between   *)
(* the two sums of an admission.                                           *)
THEOREM Backed == Spec => []LedgerBacked
<1>1. LedgerInv => LedgerBacked
  BY DEF LedgerInv
<1> QED
  BY <1>1, LedgerInit, LedgerNext, PTL DEF Spec

(* AdmissionInv: one admission at a time holds sums, and they are stale    *)
(* only in the directions that LedgerBacked can stand.                     *)
THEOREM Admission == Spec => []AdmissionInv
<1>1. LedgerInv => AdmissionInv
  BY DEF LedgerInv, Frame, AdmissionInv
<1> QED
  BY <1>1, LedgerInit, LedgerNext, PTL DEF Spec

--------------------------------------------------------------------------------
(* What the other steps do to the legs.                                    *)

LEMMA LegSteps ==
  ASSUME Frame, Frame', [Next]_vars
  PROVE  \/ /\ UNCHANGED slipped
            /\ \A t \in Central : status'[t] = status[t]
            /\ \/ credited' = credited
               \/ \E d \in Deposits \ credited : credited' = credited \cup {d}
         \/ \E h \in Handlers : CreateTransfer(h)
         \/ \E t \in Transfers : FinalizeDirectCash(t)
<1> USE DEF rowVars, depositVars
<1>1. ASSUME NEW h \in Handlers,
             ClaimFloat(h) \/ SumPaid(h) \/ SumReserved(h) \/ RejectTransfer(h)
      PROVE  UNCHANGED <<status, slipped, credited>>
  BY <1>1 DEF ClaimFloat, SumPaid, SumReserved, RejectTransfer
<1>2. ASSUME Crash PROVE UNCHANGED <<status, slipped, credited>>
  BY <1>2 DEF Crash
<1> QED
  BY <1>1, <1>2, QuietOrNot DEF Quiet

(* CashFinal: no replayed or late callback takes a debited CASH leg out of *)
(* its final status.                                                       *)
THEOREM Final == Spec => CashFinal
<1>1. ASSUME Frame, Frame', [Next]_vars, NEW t \in Central, status[t] \in FinalStatuses
      PROVE  status'[t] = status[t]
  <2>1. t \in Transfers /\ status[t] = "SUCCEEDED" /\ TypeOK
    BY <1>1 DEF Frame, CentralOK, FinalStatuses, Central
  <2>2. ASSUME NEW h \in Handlers, CreateTransfer(h) PROVE status'[t] = status[t]
    BY <2>1, <2>2 DEF CreateTransfer, SetStatus, TypeOK
  <2>3. ASSUME NEW u \in Transfers, FinalizeDirectCash(u) PROVE status'[t] = status[t]
    BY <2>1, <2>3 DEF FinalizeDirectCash, SetStatus, TypeOK
  <2> QED
    BY <1>1, <2>2, <2>3, LegSteps
<1>2. Frame /\ Frame' /\ [Next]_vars =>
        [\A t \in Central : status[t] \in FinalStatuses => status'[t] = status[t]]_vars
  BY <1>1
<1> QED
  BY <1>2, FrameInvariant, PTL DEF Spec, CashFinal

(* LedgerRefined: the rows implement the abstract ledger, so that what is  *)
(* reserved was covered when it was reserved and is debited at most once.  *)
THEOREM Refinement == Spec => LedgerRefined
<1>1. Init => Ledger!Init
  BY DEF Init, Ledger!Init, Reserved, ReservedStatuses, Paid, Central
<1>2. ASSUME LedgerInv, LedgerInv', [Next]_vars PROVE [Ledger!Next]_(Ledger!ledger)
  <2>1. Frame /\ Frame' /\ TypeOK
    BY <1>2 DEF LedgerInv, Frame
  <2>2. CASE /\ UNCHANGED slipped
             /\ \A t \in Central : status'[t] = status[t]
             /\ \/ credited' = credited
                \/ \E d \in Deposits \ credited : credited' = credited \cup {d}
    <3>1. UNCHANGED <<Reserved \cap Central, Paid \cap Central>>
      BY <2>2 DEF Reserved, Paid, Central
    <3> QED
      BY <2>2, <3>1 DEF Ledger!Next, Ledger!Credit, Ledger!ledger
  <2>3. ASSUME NEW h \in Handlers, CreateTransfer(h) PROVE Ledger!Reserve
    <3> DEFINE t == task[h]
    <3>1. t \in Central /\ t \in Transfers /\ status[t] = "NONE"
      BY <2>1, <2>3 DEF CreateTransfer, Frame, TaskOK, CentralSteps, LockSteps, Central
    <3>2. /\ status' = [status EXCEPT ![t] = "BALANCE_VERIFIED"]
          /\ slipped' = slipped /\ credited' = credited
      BY <2>3 DEF CreateTransfer, SetStatus, depositVars
    <3>3. t \in Entries /\ t \notin Committed \cap Central /\ Committed \cap Central \in SUBSET Entries
      BY <3>1 DEF Committed, Paid, Reserved, ReservedStatuses, Entries
    <3>4. /\ Reserved' \cap Central = (Reserved \cap Central) \cup {t}
          /\ Paid' \cap Central = Paid \cap Central
          /\ Committed' \cap Central = (Committed \cap Central) \cup {t}
      BY <2>1, <3>1, <3>2 DEF Committed, Paid, Reserved, ReservedStatuses, Central, TypeOK
    <3>5. Total[Committed \cap Central] + Amount[t] <= Total[credited] + Total[slipped]
      <4>1. Total[Committed' \cap Central] = Total[Committed \cap Central] + Amount[t]
        BY <3>3, <3>4, TotalAddOne
      <4>2. Total[Committed' \cap Central] <= Total[credited] + Total[slipped]
        BY <1>2, <3>2 DEF LedgerInv, LedgerBacked
      <4> QED
        BY <4>1, <4>2
    <3>6. (Reserved \cap Central) \cup (Paid \cap Central) = Committed \cap Central
      BY DEF Committed
    <3> HIDE DEF t
    <3> QED
      BY <3>1, <3>2, <3>3, <3>4, <3>5, <3>6 DEF Ledger!Reserve, Committed
  <2>4. ASSUME NEW t \in Transfers, FinalizeDirectCash(t) PROVE Ledger!Debit
    <3>1. t \in Central /\ status[t] = "BALANCE_VERIFIED"
      BY <2>1, <2>4 DEF FinalizeDirectCash, TypeOK
    <3>2. /\ status' = [status EXCEPT ![t] = "SUCCEEDED"] /\ credited' = credited
          /\ slipped' \in {slipped, slipped \cup {t}}
      BY <2>4 DEF FinalizeDirectCash, SetStatus, depositVars
    <3>3. /\ t \in Reserved \cap Central
          /\ Reserved' \cap Central = (Reserved \cap Central) \ {t}
          /\ Paid' \cap Central = (Paid \cap Central) \cup {t}
      BY <2>1, <3>1, <3>2 DEF Paid, Reserved, ReservedStatuses, Central, TypeOK
    <3> QED
      BY <3>2, <3>3 DEF Ledger!Debit
  <2> QED
    BY <1>2, <2>1, <2>2, <2>3, <2>4, LegSteps DEF Ledger!Next
<1> QED
  BY <1>1, <1>2, LedgerInit, LedgerNext, PTL DEF Spec, LedgerRefined, Ledger!Spec

--------------------------------------------------------------------------------
(* The order of the two collections of a mixed legacy transfer.            *)

LEMMA CollectInit == Init => CollectInv
BY KindsAssumption DEF Init, CollectInv, CollectedBeforeTransfer, Linked

(* Results are never withdrawn; only the two senders touch them.           *)
LEMMA CollectNext == Frame /\ CollectInv /\ [Next]_vars => CollectInv'
<1> SUFFICES ASSUME Frame, CollectInv, [Next]_vars PROVE CollectInv'
  OBVIOUS
<1>1. TypeOK /\ TaskOK /\ CollectInv
  BY DEF Frame
<1> USE KindsAssumption DEF Goto, Return, Enter, rowVars, floatVars, depositVars, settlementVars, handlerVars,
                            mpesaVars, TypeOK
<1>2. ASSUME UNCHANGED vars PROVE CollectInv'
  BY <1>1, <1>2 DEF vars, CollectInv, CollectedBeforeTransfer, StkPaid
<1>3. ASSUME NEW d \in Deposits, ConfirmDeposit(d) \/ ForgetDeposit(d) PROVE CollectInv'
  BY <1>1, <1>3 DEF ConfirmDeposit, ForgetDeposit, CollectInv, CollectedBeforeTransfer, StkPaid
<1>4. ASSUME NEW t \in Transfers, FinalizeDirectCash(t) PROVE CollectInv'
  BY <1>1, <1>4 DEF FinalizeDirectCash, CollectInv, CollectedBeforeTransfer, StkPaid
<1>5. ASSUME Crash PROVE CollectInv'
  BY <1>1, <1>5 DEF Crash, CollectInv, CollectedBeforeTransfer, StkPaid
<1>6. ASSUME NEW h \in Handlers, NEW t \in Transfers, StartCash(h, t) PROVE CollectInv'
  BY <1>1, <1>6 DEF StartCash, CollectInv, CollectedBeforeTransfer, StkPaid
<1>7. ASSUME NEW h \in Handlers, NEW t \in Transfers, StkConfirmed(h, t) PROVE CollectInv'
  BY <1>1, <1>7 DEF StkConfirmed, CollectInv, CollectedBeforeTransfer, StkPaid
<1>8. ASSUME NEW h \in Handlers, NEW t \in Transfers, StartStandalone(h, t) PROVE CollectInv'
  BY <1>1, <1>8 DEF StartStandalone, CollectInv, CollectedBeforeTransfer, StkPaid
<1>9. ASSUME NEW h \in Handlers, NEW t \in Transfers, BalanceCallback(h, t) PROVE CollectInv'
  BY <1>1, <1>9 DEF BalanceCallback, CollectInv, CollectedBeforeTransfer, StkPaid
<1>10. ASSUME NEW h \in Handlers, NEW t \in Transfers, TransferTimeout(h, t) PROVE CollectInv'
  BY <1>1, <1>10 DEF TransferTimeout, CollectInv, CollectedBeforeTransfer, StkPaid, vars
<1>11. ASSUME NEW h \in Handlers, NEW t \in Transfers, NEW ok \in BOOLEAN, FundingCallback(h, t, ok)
       PROVE  CollectInv'
  BY <1>1, <1>11 DEF FundingCallback, CollectInv, CollectedBeforeTransfer, StkPaid,
     TaskOK, MovedSteps, Moved
<1>12. ASSUME NEW h \in Handlers, NEW t \in Transfers, NEW ok \in BOOLEAN, TransferCallback(h, t, ok)
       PROVE  CollectInv'
  BY <1>1, <1>12 DEF TransferCallback, CollectInv, CollectedBeforeTransfer, StkPaid
<1>13. ASSUME NEW h \in Handlers, ReopenSettlement(h) PROVE CollectInv'
  BY <1>1, <1>13 DEF ReopenSettlement, CollectInv, CollectedBeforeTransfer, StkPaid
<1>14. ASSUME NEW h \in Handlers, ClaimFloat(h) PROVE CollectInv'
  BY <1>1, <1>14 DEF ClaimFloat, CollectInv, CollectedBeforeTransfer, StkPaid
<1>15. ASSUME NEW h \in Handlers, SumPaid(h) PROVE CollectInv'
  BY <1>1, <1>15 DEF SumPaid, CollectInv, CollectedBeforeTransfer, StkPaid
<1>16. ASSUME NEW h \in Handlers, SumReserved(h) PROVE CollectInv'
  BY <1>1, <1>16 DEF SumReserved, CollectInv, CollectedBeforeTransfer, StkPaid
<1>17. ASSUME NEW h \in Handlers, CreateTransfer(h) PROVE CollectInv'
  BY <1>1, <1>17 DEF CreateTransfer, CollectInv, CollectedBeforeTransfer, StkPaid
<1>18. ASSUME NEW h \in Handlers, RejectTransfer(h) PROVE CollectInv'
  BY <1>1, <1>18 DEF RejectTransfer, CollectInv, CollectedBeforeTransfer, StkPaid
<1>19. ASSUME NEW h \in Handlers, FailSettlement(h) PROVE CollectInv'
  BY <1>1, <1>19 DEF FailSettlement, CollectInv, CollectedBeforeTransfer, StkPaid
<1>20. ASSUME NEW h \in Handlers, RecordPayoutSource(h) PROVE CollectInv'
  BY <1>1, <1>20 DEF RecordPayoutSource, CollectInv, CollectedBeforeTransfer, StkPaid
<1>21. ASSUME NEW h \in Handlers, ReadCashStatus(h) \/ WriteCashStatus(h) PROVE CollectInv'
  BY <1>1, <1>21 DEF ReadCashStatus, WriteCashStatus, CollectInv, CollectedBeforeTransfer,
     StkPaid
<1>22. ASSUME NEW h \in Handlers, NEW t \in Transfers, ReadSettlement(h, t) PROVE CollectInv'
  BY <1>1, <1>22 DEF ReadSettlement, CollectInv, CollectedBeforeTransfer, StkPaid
<1>23. ASSUME NEW h \in Handlers, WriteSettlement(h) PROVE CollectInv'
  BY <1>1, <1>23 DEF WriteSettlement, CollectInv, CollectedBeforeTransfer, StkPaid, WriterSteps
<1>24. ASSUME NEW h \in Handlers, VerifyBalance(h) PROVE CollectInv'
  BY <1>1, <1>24 DEF VerifyBalance, CollectInv, CollectedBeforeTransfer, StkPaid
<1>25. ASSUME NEW h \in Handlers, FailRead(h) PROVE CollectInv'
  BY <1>1, <1>25 DEF FailRead, CollectInv, CollectedBeforeTransfer, StkPaid
<1>26. ASSUME NEW h \in Handlers, FailWrite(h) PROVE CollectInv'
  BY <1>1, <1>26 DEF FailWrite, CollectInv, CollectedBeforeTransfer, StkPaid
<1>27. ASSUME NEW h \in Handlers, BeginFunding(h) PROVE CollectInv'
  BY <1>1, <1>27 DEF BeginFunding, CollectInv, CollectedBeforeTransfer, StkPaid
<1>28. ASSUME NEW h \in Handlers, PushStk(h) PROVE CollectInv'
  BY <1>1, <1>28 DEF PushStk, CollectInv, CollectedBeforeTransfer, StkPaid, TaskOK,
     MovedSteps, Moved, Call
<1>29. ASSUME NEW h \in Handlers, RecordFunding(h) PROVE CollectInv'
  BY <1>1, <1>29 DEF RecordFunding, CollectInv, CollectedBeforeTransfer, StkPaid, TaskOK,
     MovedSteps, Moved
<1>30. ASSUME NEW h \in Handlers, CheckDispatch(h) PROVE CollectInv'
  BY <1>1, <1>30 DEF CheckDispatch, CollectInv, CollectedBeforeTransfer, StkPaid
<1>31. ASSUME NEW h \in Handlers, MarkPending(h) PROVE CollectInv'
  BY <1>1, <1>31 DEF MarkPending, CollectInv, CollectedBeforeTransfer, StkPaid
<1>32. ASSUME NEW h \in Handlers, SendB2b(h) PROVE CollectInv'
  BY <1>1, <1>32 DEF SendB2b, CollectInv, CollectedBeforeTransfer, StkPaid, TaskOK,
     MovedSteps, Moved, Call
<1>33. ASSUME NEW h \in Handlers, SuccessRead(h) PROVE CollectInv'
  BY <1>1, <1>33 DEF SuccessRead, CollectInv, CollectedBeforeTransfer, StkPaid
<1>34. ASSUME NEW h \in Handlers, SuccessWrite(h) PROVE CollectInv'
  BY <1>1, <1>34 DEF SuccessWrite, CollectInv, CollectedBeforeTransfer, StkPaid
<1> QED
  BY <1>2, <1>3, <1>4, <1>5, <1>6, <1>7, <1>8, <1>9, <1>10, <1>11, <1>12, <1>13, <1>14, <1>15,
     <1>16, <1>17, <1>18, <1>19, <1>20, <1>21, <1>22, <1>23, <1>24, <1>25, <1>26, <1>27, <1>28,
     <1>29, <1>30, <1>31, <1>32, <1>33, <1>34
     DEF Next, Step, Arrival, Continue

(* CollectedBeforeTransfer: the retailer's CASH leg of a mixed transfer    *)
(* leaves for the central account only after the customer's STK payment,   *)
(* however callbacks are repeated, reordered or cut off by a crash.        *)
THEOREM CollectFirst == Spec => []CollectedBeforeTransfer
<1>1. CollectInv => CollectedBeforeTransfer
  BY DEF CollectInv
<1> QED
  BY <1>1, CollectInit, CollectNext, FrameInvariant, PTL DEF Spec
================================================================================
