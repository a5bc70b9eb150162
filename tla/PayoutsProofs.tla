----------------------------- MODULE PayoutsProofs -----------------------------
(***************************************************************************)
(* Proofs about Payouts, for any number of recipients, of requests and of  *)
(* deliveries handled at once, with lost answers and failing writes.       *)
(***************************************************************************)
EXTENDS Payouts, TLAPS

Inv == TypeOK /\ BusyOK /\ PaidInv /\ DebitInv

LEMMA InvInit == Init => Inv
<1> SUFFICES ASSUME Init PROVE Inv
  OBVIOUS
<1>1. TypeOK
  <2>1. 1 \in 1..MaxRetries
    BY PayoutAssumption
  <2> QED
    BY <2>1 DEF Init, TypeOK, AttemptStatuses, DispatchSteps, CallbackSteps
<1>2. BusyOK /\ PaidInv
  BY DEF Init, BusyOK, Free, PaidInv, DebitedIsPaid
<1>3. DebitInv
  BY PayoutAssumption DEF Init, DebitInv
<1> QED
  BY <1>1, <1>2, <1>3 DEF Inv

(* The steps of a dispatcher leave the callbacks, the transfer and the     *)
(* history alone, complete no attempt and take no result back.             *)
Outside ==
  /\ UNCHANGED <<callbackVars, transfer, unsplit>>
  /\ results \subseteq results'
  /\ \A p \in Payouts : attempt'[p] = "COMPLETED" => attempt[p] = "COMPLETED"

LEMMA OutsideKeeps ==
  ASSUME Inv, Outside, TypeOK',
         \A w \in Dispatchers : pc'[w] \notin Free => task'[w] \in Payouts
  PROVE  Inv'
<1>1. BusyOK'
  BY DEF Inv, Outside, BusyOK, callbackVars
<1>2. PaidInv'
  BY DEF Inv, Outside, PaidInv, DebitedIsPaid, Paid, callbackVars
<1>3. DebitInv'
  BY DEF Inv, Outside, DebitInv, DebitComing, callbackVars
<1> QED
  BY <1>1, <1>2, <1>3 DEF Inv

(* A payout scheduled again is due, at some place among the others.        *)
LEMMA Rescheduled ==
  ASSUME TypeOK, NEW p \in Payouts, Reschedule(p)
  PROVE  /\ due' = due \cup {p}
         /\ due' \in SUBSET Payouts
         /\ earlier' \in SUBSET (Payouts \X Payouts)
<1>1. due \in SUBSET Payouts /\ earlier \in SUBSET (Payouts \X Payouts)
  BY DEF TypeOK
<1> QED
  BY <1>1 DEF Reschedule

--------------------------------------------------------------------------------
(* Dispatchers.                                                            *)
LEMMA DispatcherNext ==
  ASSUME Inv, NEW w \in Dispatchers,
         \/ w # Scheduler /\ (BeginSplit(w) \/ ManualRetry(w))
         \/ \E p \in Payouts : RequestDispatch(w, p)
         \/ w = Scheduler /\ ProcessRetries
         \/ Dispatch(w)
  PROVE  Inv'
<1>0. TypeOK /\ BusyOK
  BY DEF Inv
<1> USE PayoutAssumption, <1>0 DEF Goto, Free, attemptVars, metaVars, callbackVars
<1> DEFINE Busy == \A v \in Dispatchers :
                     pc'[v] \notin Free => task'[v] \in Payouts
<1> SUFFICES TypeOK' /\ Outside /\ Busy
  BY OutsideKeeps
<1>1. CASE BeginSplit(w)
  BY <1>1 DEF BeginSplit, TypeOK, BusyOK, Outside, DispatchSteps
<1>2. ASSUME NEW P \in SUBSET Payouts, Request(w, P) PROVE TypeOK' /\ Outside /\ Busy
  BY <1>2 DEF Request, TypeOK, BusyOK, Outside, DispatchSteps
<1>3. CASE ManualRetry(w)
  BY <1>2, <1>3 DEF ManualRetry
<1>4. CASE \E p \in Payouts : RequestDispatch(w, p)
  BY <1>2, <1>4 DEF RequestDispatch
<1>5. CASE w = Scheduler /\ ProcessRetries
  <2>1. Request(w, {p \in Pending : Cardinality(Ahead(p)) < BatchSize})
    BY <1>5 DEF ProcessRetries
  <2> QED
    BY <1>2, <2>1 DEF TypeOK, Pending
<1>5a. CASE ConfirmMpesa(w)
  BY <1>5a DEF ConfirmMpesa, TypeOK, BusyOK, Outside, DispatchSteps
<1>6. CASE RecordSplit(w)
  BY <1>6 DEF RecordSplit, WriteMetadata, Entries, TypeOK, BusyOK, Outside, DispatchSteps
<1>7. ASSUME NEW p \in Payouts, BeginDispatch(w, p) PROVE TypeOK' /\ Outside /\ Busy
  BY <1>7 DEF BeginDispatch, TypeOK, BusyOK, Outside, DispatchSteps
<1>8. CASE LookupAttempt(w)
  <2>1. \/ /\ pc' = [pc EXCEPT ![w] = IF attempt[task[w]] = "NONE" THEN "create" ELSE "send"]
           /\ UNCHANGED <<task, isNew, gateway, view>>
        \/ EndDispatch(w) /\ view' = [view EXCEPT ![w] = {}]
    BY <1>8 DEF LookupAttempt
  <2>2. task[w] \in Payouts
        /\ UNCHANGED <<attemptVars, metaVars, transfer, results, todo, callbackVars>>
    BY <1>8 DEF LookupAttempt, BusyOK
  <2>3. TypeOK'
    BY <2>1, <2>2 DEF EndDispatch, TypeOK, DispatchSteps
  <2>4. Outside /\ Busy
    BY <2>1, <2>2 DEF EndDispatch, TypeOK, BusyOK, Outside, DispatchSteps
  <2> QED
    BY <2>3, <2>4
<1>9. CASE CreateAttempt(w)
  <2>1. task[w] \in Payouts
    BY <1>9 DEF CreateAttempt, BusyOK
  <2>2. CASE attempt[task[w]] = "NONE"
    BY <1>9, <2>1, <2>2 DEF CreateAttempt, TypeOK, BusyOK, Outside, DispatchSteps,
       AttemptStatuses
  <2>3. CASE attempt[task[w]] # "NONE"
    <3>1. /\ pc' = [pc EXCEPT ![w] = IF todo[w] = {} THEN "idle" ELSE "next"]
          /\ EndDispatch(w) /\ attempt' = attempt /\ view' = [view EXCEPT ![w] = {}]
          /\ UNCHANGED <<count, due, earlier, metaVars, transfer, results, todo, callbackVars>>
      BY <1>9, <2>3 DEF CreateAttempt, EndDispatch, Goto
    <3>2. TypeOK'
      BY <3>1 DEF EndDispatch, TypeOK, DispatchSteps
    <3>3. Outside /\ Busy
      BY <1>9, <3>1 DEF CreateAttempt, EndDispatch, TypeOK, BusyOK, Outside, DispatchSteps
    <3> QED
      BY <3>2, <3>3
  <2> QED
    BY <2>2, <2>3
<1>10. CASE SendPayout(w)
  <2>1. task[w] \in Payouts
    BY <1>10 DEF SendPayout, BusyOK
  <2>2. results \subseteq results' /\ results' \subseteq Results
        /\ gateway' \in [Dispatchers -> {"SUBMITTED", "FAILED"}]
    BY <1>10, <2>1 DEF SendPayout, TypeOK, Results
  <2> QED
    BY <1>10, <2>1, <2>2 DEF SendPayout, TypeOK, BusyOK, Outside, DispatchSteps
<1>11. CASE RecordAnswer(w)
  <2>1. task[w] \in Payouts /\ gateway[w] \in {"SUBMITTED", "FAILED"}
    BY <1>11 DEF RecordAnswer, BusyOK, TypeOK
  <2>2. attempt' \in [Payouts -> AttemptStatuses]
        /\ \A p \in Payouts : attempt'[p] = "COMPLETED" => attempt[p] = "COMPLETED"
    BY <1>11, <2>1 DEF RecordAnswer, TypeOK, AttemptStatuses
  <2>3. Busy /\ pc' \in [Dispatchers -> DispatchSteps]
    BY <1>11, <2>1 DEF RecordAnswer, EndDispatch, TypeOK, BusyOK, DispatchSteps
  <2>4. /\ task' \in [Dispatchers -> Payouts \cup {None}]
        /\ isNew' \in [Dispatchers -> BOOLEAN]
        /\ gateway' \in [Dispatchers -> {"SUBMITTED", "FAILED"}]
        /\ view' \in [Dispatchers \cup Callbacks -> SUBSET Entries]
    BY <1>11 DEF RecordAnswer, EndDispatch, TypeOK
  <2> QED
    BY <1>11, <2>2, <2>3, <2>4 DEF RecordAnswer, TypeOK, Outside
<1>12. CASE WriteDispatch(w)
  BY <1>12 DEF WriteDispatch, WriteMetadata, EndDispatch, Entries, TypeOK, BusyOK, Outside,
     DispatchSteps
<1>13. CASE ScheduleRetry(w)
  BY <1>13 DEF ScheduleRetry, TypeOK, BusyOK, Outside, DispatchSteps
<1>14. CASE WriteRetry(w)
  <2>1. task[w] \in Payouts
    BY <1>14 DEF WriteRetry, BusyOK
  <2>2. count' \in [Payouts -> Nat]
    BY <1>14, <2>1 DEF WriteRetry, TypeOK
  <2>3. attempt' \in [Payouts -> AttemptStatuses]
        /\ \A p \in Payouts : attempt'[p] = "COMPLETED" => attempt[p] = "COMPLETED"
    BY <1>14, <2>1 DEF WriteRetry, TypeOK, AttemptStatuses
  <2>4. due' \in SUBSET Payouts /\ earlier' \in SUBSET (Payouts \X Payouts)
    BY <1>14, <2>1, Rescheduled DEF WriteRetry, TypeOK
  <2> QED
    BY <1>14, <2>1, <2>2, <2>3, <2>4 DEF WriteRetry, EndDispatch, TypeOK, BusyOK, Outside,
       DispatchSteps
<1> QED
  BY <1>1, <1>3, <1>4, <1>5, <1>6, <1>7, <1>8, <1>9, <1>10, <1>11, <1>12, <1>13, <1>14,
     <1>5a DEF Dispatch

--------------------------------------------------------------------------------
(* Deliveries.                                                             *)
LEMMA CallbackNext ==
  ASSUME Inv, NEW c \in Callbacks,
         Handle(c) \/ \E r \in results : ReceiveResult(c, r)
  PROVE  Inv'
<1>0. TypeOK /\ BusyOK /\ PaidInv /\ DebitInv
  BY DEF Inv
<1> USE PayoutAssumption, <1>0 DEF CGoto, attemptVars, metaVars, dispatchVars
<1>1. ASSUME NEW r \in results, ReceiveResult(c, r) PROVE Inv'
  <2>1. TypeOK' /\ BusyOK'
    BY <1>1 DEF ReceiveResult, TypeOK, BusyOK, CallbackSteps
  <2>2. PaidInv'
    BY <1>1 DEF ReceiveResult, TypeOK, PaidInv, DebitedIsPaid, Paid
  <2>3. DebitInv'
    BY <1>1 DEF ReceiveResult, TypeOK, DebitInv, DebitComing
  <2> QED
    BY <2>1, <2>2, <2>3 DEF Inv
<1>2. CASE MarkCallback(c)
  <2>1. report[c] \in results /\ report[c].p \in Payouts
    BY <1>2 DEF MarkCallback, BusyOK, TypeOK, Results
  <2>2. report[c].ok => Paid(report[c].p)
    BY <2>1 DEF TypeOK, Results, Paid
  <2>3. TypeOK' /\ BusyOK'
    BY <1>2, <2>1 DEF MarkCallback, TypeOK, BusyOK, CallbackSteps, AttemptStatuses
  <2>4. PaidInv'
    BY <1>2, <2>1, <2>2 DEF MarkCallback, TypeOK, PaidInv, DebitedIsPaid, Paid
  <2>5. DebitInv'
    <3>1. CASE report[c].ok
      BY <1>2, <3>1 DEF MarkCallback, TypeOK, DebitInv, DebitComing
    <3>2. CASE ~report[c].ok
      BY <1>2, <2>1, <3>2 DEF MarkCallback, TypeOK, DebitInv
    <3> QED
      BY <3>1, <3>2
  <2> QED
    BY <2>3, <2>4, <2>5 DEF Inv
<1>3. CASE WriteCallback(c)
  <2>1. TypeOK' /\ BusyOK'
    BY <1>3 DEF WriteCallback, WriteMetadata, TypeOK, BusyOK, CallbackSteps
  <2>2. PaidInv'
    BY <1>3 DEF WriteCallback, WriteMetadata, TypeOK, PaidInv, DebitedIsPaid, Paid
  <2>3. DebitInv'
    BY <1>3 DEF WriteCallback, WriteMetadata, TypeOK, DebitInv, DebitComing
  <2> QED
    BY <2>1, <2>2, <2>3 DEF Inv
<1>4. CASE CheckSettlement(c)
  <2>1. TypeOK' /\ BusyOK'
    BY <1>4 DEF CheckSettlement, TypeOK, BusyOK, CallbackSteps
  <2>2. PaidInv'
    BY <1>4 DEF CheckSettlement, TypeOK, PaidInv, DebitedIsPaid, Paid
  <2>3. DebitInv'
    BY <1>4 DEF CheckSettlement, TypeOK, DebitInv, DebitComing
  <2> QED
    BY <2>1, <2>2, <2>3 DEF Inv
<1>5. CASE CheckAttempts(c)
  <2>1. TypeOK' /\ BusyOK'
    BY <1>5 DEF CheckAttempts, TypeOK, BusyOK, CallbackSteps
  <2>2. PaidInv'
    BY <1>5 DEF CheckAttempts, TypeOK, PaidInv, DebitedIsPaid, Paid
  <2>3. DebitInv'
    BY <1>5 DEF CheckAttempts, TypeOK, DebitInv, DebitComing
  <2> QED
    BY <2>1, <2>2, <2>3 DEF Inv
<1>6. CASE Debit(c)
  <2>1. TypeOK' /\ BusyOK'
    BY <1>6 DEF Debit, TypeOK, BusyOK, CallbackSteps
  <2>2. PaidInv'
    BY <1>6 DEF Debit, TypeOK, PaidInv, DebitedIsPaid, Paid
  <2>3. DebitInv'
    BY <1>6 DEF Debit, DebitInv
  <2> QED
    BY <2>1, <2>2, <2>3 DEF Inv
<1>7. CASE Acknowledge(c)
  <2>1. TypeOK' /\ BusyOK'
    BY <1>7 DEF Acknowledge, TypeOK, BusyOK, CallbackSteps
  <2>2. PaidInv'
    BY <1>7 DEF Acknowledge, TypeOK, PaidInv, DebitedIsPaid, Paid
  <2>3. DebitInv'
    BY <1>7 DEF Acknowledge, TypeOK, DebitInv, DebitComing
  <2> QED
    BY <2>1, <2>2, <2>3 DEF Inv
<1> QED
  BY <1>1, <1>2, <1>3, <1>4, <1>5, <1>6, <1>7 DEF Handle

LEMMA InvNext == Inv /\ [Next]_vars => Inv'
<1> SUFFICES ASSUME Inv, [Next]_vars PROVE Inv'
  OBVIOUS
<1>1. ASSUME UNCHANGED vars PROVE Inv'
  BY <1>1 DEF vars, Inv, TypeOK, BusyOK, PaidInv, DebitInv, DebitComing, DebitedIsPaid, Paid
<1>2. ASSUME NEW w \in Workers,
             BeginSplit(w) \/ ManualRetry(w) \/ \E p \in Payouts : RequestDispatch(w, p)
      PROVE  Inv'
  BY <1>2, DispatcherNext, PayoutAssumption DEF Dispatchers
<1>3. ASSUME ProcessRetries PROVE Inv'
  BY <1>3, DispatcherNext DEF Dispatchers
<1>4. ASSUME NEW w \in Dispatchers, Dispatch(w) PROVE Inv'
  BY <1>4, DispatcherNext
<1>5. ASSUME NEW c \in Callbacks, Handle(c) \/ \E r \in results : ReceiveResult(c, r)
      PROVE  Inv'
  BY <1>5, CallbackNext
<1> QED
  BY <1>1, <1>2, <1>3, <1>4, <1>5 DEF Next

THEOREM InvInvariant == Spec => []Inv
<1> QED
  BY InvInit, InvNext, PTL DEF Spec

(* TypeOK: an attempt keeps a status of its enumeration, and a delivery    *)
(* that is being handled carries a result Safaricom has produced.          *)
THEOREM PayoutTyping == Spec => []TypeOK
<1>1. Inv => TypeOK
  BY DEF Inv
<1> QED
  BY <1>1, InvInvariant, PTL

(* DebitedIsPaid: the CASH leg is debited only when every recipient of the *)
(* settlement has been paid.                                               *)
THEOREM DebitAfterPayouts == Spec => []DebitedIsPaid
<1>1. Inv => DebitedIsPaid
  BY DEF Inv, PaidInv
<1> QED
  BY <1>1, InvInvariant, PTL

(* ConfirmedIsDebited: of the deliveries handled at once, the one that     *)
(* completes the last attempt brings the debit about.                      *)
THEOREM DebitWhenConfirmed == Spec => []ConfirmedIsDebited
<1>1. Inv => ConfirmedIsDebited
  BY DEF Inv, DebitInv, DebitComing, ConfirmedIsDebited
<1> QED
  BY <1>1, InvInvariant, PTL

--------------------------------------------------------------------------------
(* The retry limit.                                                        *)
LEMMA RetryInit == Init => RetryInv
BY PayoutAssumption DEF Init, RetryInv, RetriesBounded, Scheduling, Dispatchers, Free

(* Of those about to schedule the next try of a payout there is but one.   *)
LEMMA SchedulesAlone ==
  ASSUME Inv, RetryInv, NEW w \in Dispatchers, NEW v \in Dispatchers,
         Scheduling(w), Scheduling(v), task[w] = task[v]
  PROVE  w = v
<1>1. task[w] \in Payouts /\ task[v] \in Payouts
  BY DEF Inv, BusyOK, Scheduling, Free
<1>2. (w = Scheduler \/ v = Scheduler) => task[w] \in due
  BY <1>1, PayoutAssumption DEF RetryInv
<1> QED
  BY <1>2 DEF RetryInv

LEMMA RetryNext == Inv /\ RetryInv /\ [Next]_vars => RetryInv'
<1> SUFFICES ASSUME Inv, RetryInv, [Next]_vars PROVE RetryInv'
  OBVIOUS
<1>0. TypeOK /\ BusyOK
  BY DEF Inv
<1> USE PayoutAssumption, <1>0 DEF Goto, CGoto, attemptVars, dispatchVars, callbackVars,
        metaVars, Dispatchers, Free
<1>1. ASSUME UNCHANGED vars PROVE RetryInv'
  BY <1>1 DEF vars, RetryInv, RetriesBounded, Scheduling
<1>2. ASSUME NEW w \in Workers, BeginSplit(w) PROVE RetryInv'
  BY <1>2 DEF BeginSplit, TypeOK, RetryInv, RetriesBounded, Scheduling
<1>3. ASSUME NEW w \in Workers, NEW P \in SUBSET Payouts, Request(w, P) PROVE RetryInv'
  BY <1>3 DEF Request, TypeOK, RetryInv, RetriesBounded, Scheduling
<1>4. ASSUME ProcessRetries PROVE RetryInv'
  <2>1. PICK P \in SUBSET due : Request(Scheduler, P)
    BY <1>4 DEF ProcessRetries, Pending
  <2> QED
    BY <2>1 DEF Request, TypeOK, RetryInv, RetriesBounded, Scheduling
<1>5. ASSUME NEW w \in Dispatchers, Dispatch(w) PROVE RetryInv'
  <2>0. CASE ConfirmMpesa(w)
    BY <2>0 DEF ConfirmMpesa, TypeOK, RetryInv, RetriesBounded, Scheduling
  <2>1. CASE RecordSplit(w)
    BY <2>1 DEF RecordSplit, TypeOK, RetryInv, RetriesBounded, Scheduling
  <2>2. ASSUME NEW p \in Payouts, BeginDispatch(w, p) PROVE RetryInv'
    BY <2>2 DEF BeginDispatch, TypeOK, RetryInv, RetriesBounded, Scheduling
  <2>3. CASE LookupAttempt(w)
    BY <2>3 DEF LookupAttempt, EndDispatch, TypeOK, RetryInv, RetriesBounded, Scheduling
  <2>4. CASE CreateAttempt(w)
    <3>1. task[w] \in Payouts
      BY <2>4 DEF CreateAttempt, BusyOK
    <3>2. CASE attempt[task[w]] = "NONE"
      <4>1. w # Scheduler /\ task[w] \notin due
        BY <3>1, <3>2 DEF RetryInv
      <4>2. \A v \in Dispatchers : isNew[v] => v # w /\ task[v] # task[w]
        BY <2>4, <3>2 DEF CreateAttempt, RetryInv
      <4>3. /\ attempt' = [attempt EXCEPT ![task[w]] = "PENDING"]
            /\ isNew' = [isNew EXCEPT ![w] = TRUE]
            /\ pc' = [pc EXCEPT ![w] = "send"]
            /\ UNCHANGED <<task, todo, count, due>>
        BY <2>4, <3>2 DEF CreateAttempt
      <4> QED
        BY <2>4, <3>1, <4>1, <4>2, <4>3 DEF TypeOK, RetryInv, RetriesBounded, Scheduling
    <3>3. CASE attempt[task[w]] # "NONE"
      BY <2>4, <3>3 DEF CreateAttempt, EndDispatch, TypeOK, RetryInv, RetriesBounded, Scheduling
    <3> QED
      BY <3>2, <3>3
  <2>5. CASE SendPayout(w)
    BY <2>5 DEF SendPayout, TypeOK, RetryInv, RetriesBounded, Scheduling
  <2>6. CASE RecordAnswer(w)
    BY <2>6 DEF RecordAnswer, EndDispatch, TypeOK, BusyOK, RetryInv, RetriesBounded, Scheduling
  <2>7. CASE WriteDispatch(w)
    BY <2>7 DEF WriteDispatch, EndDispatch, TypeOK, RetryInv, RetriesBounded, Scheduling
  <2>8. CASE ScheduleRetry(w)
    <3>1. task[w] \in Payouts /\ count[task[w]] \in Nat /\ MaxRetries \in Nat
      BY <2>8 DEF ScheduleRetry, BusyOK, TypeOK
    <3>2. UNCHANGED <<attempt, count, due, task, todo, isNew>>
      BY <2>8 DEF ScheduleRetry
    <3>3. pc' \in [Dispatchers -> DispatchSteps] /\ \A v \in Dispatchers \ {w} : pc'[v] = pc[v]
      BY <2>8 DEF ScheduleRetry, TypeOK, DispatchSteps
    <3>4. pc'[w] \in {"again", "exhausted"} /\ (pc'[w] = "again" => count[task[w]] < MaxRetries)
      BY <2>8, <3>1 DEF ScheduleRetry, TypeOK
    <3> QED
      BY <2>8, <3>2, <3>3, <3>4 DEF ScheduleRetry, RetryInv, RetriesBounded, Scheduling
  <2>9. CASE WriteRetry(w)
    <3>1. task[w] \in Payouts
      BY <2>9 DEF WriteRetry, BusyOK
    <3>2. /\ pc' \in [Dispatchers -> DispatchSteps] /\ pc'[w] \in {"idle", "next"}
          /\ task' = [task EXCEPT ![w] = None] /\ isNew' = [isNew EXCEPT ![w] = FALSE]
          /\ todo' = todo
          /\ \A v \in Dispatchers \ {w} : pc'[v] = pc[v]
      BY <2>9 DEF WriteRetry, EndDispatch, TypeOK, DispatchSteps
    <3>3. attempt'[task[w]] # "NONE" /\ \A p \in Payouts \ {task[w]} : attempt'[p] = attempt[p]
      BY <2>9, <3>1 DEF WriteRetry, TypeOK
    <3>4. CASE pc[w] = "again"
      <4>1. count' = [count EXCEPT ![task[w]] = @ + 1] /\ due' = due \cup {task[w]}
        BY <2>9, <3>1, <3>4, Rescheduled DEF WriteRetry
      <4>2. count[task[w]] < MaxRetries
        BY <3>4 DEF RetryInv
      <4>3. \A v \in Dispatchers \ {w} : task[v] = task[w] => ~Scheduling(v) /\ ~isNew[v]
        <5> SUFFICES ASSUME NEW v \in Dispatchers \ {w}, task[v] = task[w]
                     PROVE  ~Scheduling(v) /\ ~isNew[v]
          OBVIOUS
        <5>1. ~Scheduling(v)
          BY <3>4, SchedulesAlone DEF Scheduling
        <5>2. isNew[w] \/ w = Scheduler
          BY <3>4 DEF RetryInv, Scheduling
        <5>3. ~isNew[v]
          BY <3>1, <5>2 DEF RetryInv
        <5> QED
          BY <5>1, <5>3
      <4>4. RetriesBounded'
        BY <3>1, <4>1, <4>2 DEF RetryInv, RetriesBounded, TypeOK
      <4>5. \A v \in Dispatchers : pc'[v] = "again" => count'[task'[v]] < MaxRetries
        <5> SUFFICES ASSUME NEW v \in Dispatchers, pc'[v] = "again"
                     PROVE  count'[task'[v]] < MaxRetries
          OBVIOUS
        <5>1. v # w /\ pc[v] = "again" /\ task'[v] = task[v] /\ task[v] \in Payouts
          BY <3>2 DEF BusyOK, TypeOK
        <5>2. task[v] # task[w]
          BY <4>3, <5>1 DEF Scheduling
        <5> QED
          BY <4>1, <5>1, <5>2 DEF RetryInv, TypeOK
      <4>6. \A v \in Dispatchers : isNew'[v] => /\ pc'[v] \notin Free
                                               /\ task'[v] \notin due'
                                               /\ attempt'[task'[v]] # "NONE"
        BY <3>1, <3>2, <3>3, <4>1, <4>3 DEF RetryInv, BusyOK, TypeOK
      <4>7. /\ \A p \in due' : attempt'[p] # "NONE"
            /\ task'[Scheduler] # None => task'[Scheduler] \in due'
            /\ todo'[Scheduler] \subseteq due' /\ pc'[Scheduler] \notin {"confirm", "split"}
        BY <3>1, <3>2, <3>3, <4>1 DEF RetryInv, TypeOK
      <4>8. /\ \A v, u \in Dispatchers : isNew'[v] /\ isNew'[u] /\ task'[v] = task'[u] => v = u
            /\ \A v \in Dispatchers : Scheduling(v)' => isNew'[v] \/ v = Scheduler
        BY <3>2 DEF RetryInv, Scheduling, TypeOK
      <4> QED
        BY <4>4, <4>5, <4>6, <4>7, <4>8 DEF RetryInv
    <3>5. CASE pc[w] = "exhausted"
      <4>1. UNCHANGED <<count, due>>
        BY <2>9, <3>5 DEF WriteRetry
      <4> QED
        BY <3>1, <3>2, <3>3, <4>1 DEF TypeOK, BusyOK, RetryInv, RetriesBounded, Scheduling
    <3> QED
      BY <2>9, <3>4, <3>5 DEF WriteRetry
  <2> QED
    BY <1>5, <2>1, <2>2, <2>3, <2>4, <2>5, <2>6, <2>7, <2>8, <2>9, <2>0 DEF Dispatch
<1>6. ASSUME NEW c \in Callbacks, MarkCallback(c) PROVE RetryInv'
  BY <1>6 DEF MarkCallback, TypeOK, BusyOK, RetryInv, RetriesBounded, Scheduling
<1>7. ASSUME NEW c \in Callbacks,
             \/ WriteCallback(c) \/ CheckSettlement(c) \/ CheckAttempts(c) \/ Debit(c)
             \/ Acknowledge(c) \/ \E r \in results : ReceiveResult(c, r)
      PROVE  RetryInv'
  BY <1>7 DEF WriteCallback, CheckSettlement, CheckAttempts, Debit, Acknowledge, ReceiveResult,
     RetryInv, RetriesBounded, Scheduling
<1> QED
  BY <1>1, <1>2, <1>3, <1>4, <1>5, <1>6, <1>7 DEF Next, Handle, ManualRetry, RequestDispatch

(* RetriesBounded: attemptCount never passes maxRetries, however requests, *)
(* the scheduler, failing writes and deliveries interleave.                *)
THEOREM RetryLimit == Spec => []RetriesBounded
<1>1. RetryInv => RetriesBounded
  BY DEF RetryInv
<1> QED
  BY <1>1, RetryInit, RetryNext, InvInvariant, PTL DEF Spec
================================================================================
