---------------------------- MODULE SettlementProofs ----------------------------
(***************************************************************************)
(* Proofs about Settlement, for any number of repeated requests, of pushes *)
(* each may send and of callbacks and confirmations handled at once.       *)
(***************************************************************************)
EXTENDS Settlement, TLAPS

(* A push that has not been sent has no answer: a payment once made is not *)
(* forgotten.                                                              *)
PushInv ==
  \A r \in Requests, k \in Attempts :
    \/ k > attempt[r]
    \/ k = attempt[r] /\ pc[r] \in {"new", "create", "plan", "record", "push"}
    => customer[<<r, k>>] = "none"

(* Which steps a request takes for each kind of payment.                   *)
KindInv ==
  /\ \A r \in Requests :
       /\ pc[r] = "plan" => kind = "MIXED"
       /\ pc[r] \in {"pending", "admit", "admitted", "source", "block"} => kind = "CASH"
       /\ pc[r] \in {"admitted", "source"} => r \in admitted
       /\ pc[r] \in {"record", "push", "answer", "fail"} => kind # "CASH"
       /\ pc[r] = "children" /\ kind = "CASH" => r \in admitted
  /\ kind = "CASH" => \A p \in Pushes : customer[p] = "none"

Money == IF kind = "CASH" THEN admitted # {} ELSE Collected

(* Whoever is on the way to a split, or has read one, knows of the money.  *)
MoneyInv ==
  /\ \A s \in Rows : row[s].split => Money
  /\ \A a \in Actors :
       /\ view[a].split => Money
       /\ pc[a] \in {"confirm", "split"} => Money
       /\ pc[a] = "lookup" /\ report[a] # "failed" => Money

(* An M-Pesa row that counts as confirmed, as it stands or as someone has  *)
(* read it and may write it back, is confirmed by a payment.               *)
GateInv ==
  kind = "MPESA" =>
    /\ \A s \in Rows : Confirmed(row[s]) => Collected \/ vouched
    /\ \A a \in Actors : Confirmed(view[a]) => Collected \/ vouched
    /\ \A h \in Actors : pc[h] \in {"reported", "vouch"} => vouched
    /\ dispatched # {} => Collected \/ vouched

(* The supplier's row never loses the tag, whoever writes it back.         *)
TagInv ==
  /\ Exists(Child) => row[Child].tagged
  /\ \A a \in Actors :
       /\ target[a] = Child => view[a].tagged
       /\ pc[a] \in {"vouch", "pay"} => target[a] \in Rows
       /\ pc[a] \in {"new", "create", "pending", "admit", "admitted", "source"} => target[a] = None

Inv == TypeOK /\ PushInv /\ KindInv /\ MoneyInv /\ GateInv /\ TagInv

LEMMA InvInit == Init => Inv
<1> SUFFICES ASSUME Init PROVE Inv
  OBVIOUS
<1> USE SettlementAssumption DEF Init, Absent
<1>1. TypeOK
  <2>1. Absent \in Settlements
    BY DEF Settlements, Statuses
  <2>2. 1 \in Attempts /\ 0 \in 0..MaxCalls
    BY DEF Attempts
  <2> QED
    BY <2>1, <2>2 DEF TypeOK, Absent, PcValues
<1>2. PushInv /\ KindInv
  BY DEF PushInv, KindInv, Pushes, Actors
<1>3. MoneyInv /\ GateInv /\ TagInv
  BY DEF MoneyInv, GateInv, Confirmed, TagInv, Exists, Rows, Actors
<1> QED
  BY <1>1, <1>2, <1>3 DEF Inv

(* The values that rows and copies of them take.                           *)
LEMMA RowTypes ==
  /\ Absent \in Settlements
  /\ [Absent EXCEPT !.status = "INITIATED", !.tagged = TRUE] \in Settlements
  /\ \A status \in Statuses :
       /\ OwnCopy(status) \in Settlements
       /\ [OwnCopy(status) EXCEPT !.tagged = TRUE] \in Settlements
  /\ \A s \in Settlements :
       /\ [s EXCEPT !.status = "FAILED"] \in Settlements
       /\ [s EXCEPT !.status = "COMPLETED"] \in Settlements
       /\ [s EXCEPT !.status = "PENDING_PROCESSING", !.plan = "SUCCESS"] \in Settlements
       /\ [s EXCEPT !.status = "PENDING_PROCESSING", !.paid = TRUE] \in Settlements
       /\ [s EXCEPT !.status = "PROCESSING", !.paid = TRUE, !.split = TRUE] \in Settlements
       /\ \A status \in Statuses : [s EXCEPT !.status = status, !.source = TRUE] \in Settlements
  BY DEF Settlements, Statuses, Absent, OwnCopy

(* The merchant's reference is no row's own.                               *)
LEMMA NoMixedEscrow ==
  ASSUME NEW result, StartMixedEscrow(result)
  PROVE  admitted' = admitted
  BY SettlementAssumption DEF StartMixedEscrow

(* Types.                                                                  *)
LEMMA Types == Inv /\ [Next]_vars => TypeOK'
<1> SUFFICES ASSUME Inv, [Next]_vars PROVE TypeOK'
  OBVIOUS
<1>0. TypeOK /\ Absent \in Settlements
  BY RowTypes DEF Inv
<1> USE SettlementAssumption, <1>0
    DEF TypeOK, Goto, Finish, requestVars, handlerVars, payVars, outside, Actors, Rows
<1>1. ASSUME NEW r \in Requests, FindExisting(r) PROVE TypeOK'
  BY <1>1 DEF FindExisting, PcValues
<1>2. ASSUME NEW r \in Requests, CreateSettlement(r) PROVE TypeOK'
  <2>1. kind \in {"MPESA", "CASH", "MIXED"}
    OBVIOUS
  <2> QED
    BY <1>2, <2>1, RowTypes DEF CreateSettlement, PcValues
<1>3. ASSUME NEW r \in Requests, WritePlan(r) \/ StartCash(r) PROVE TypeOK'
  <2>1. OwnCopy("PENDING_PROCESSING") \in Settlements
    BY RowTypes DEF Statuses
  <2> QED
    BY <1>3, <2>1 DEF WritePlan, StartCash, PcValues
<1>4. ASSUME NEW r \in Requests, AdmitCash(r) \/ ReadSource(r) PROVE TypeOK'
  BY <1>4 DEF AdmitCash, ReadSource, PcValues
<1>4a. ASSUME NEW r \in Requests, WriteSource(r) PROVE TypeOK'
  <2>1. row[r].status \in Statuses
    BY DEF Settlements
  <2>2. [view[r] EXCEPT !.status = row[r].status, !.source = TRUE] \in Settlements
    BY <2>1, RowTypes
  <2> QED
    BY <1>4a, <2>2 DEF WriteSource, PcValues
<1>5. ASSUME NEW r \in Requests, RejectCash(r) PROVE TypeOK'
  <2>1. OwnCopy("FAILED") \in Settlements
    BY RowTypes DEF Statuses
  <2> QED
    BY <1>5, <2>1 DEF RejectCash, PcValues
<1>6. ASSUME NEW r \in Requests, CreateRecord(r) PROVE TypeOK'
  BY <1>6 DEF CreateRecord, PcValues, Pushes
<1>7. ASSUME NEW r \in Requests, PushStk(r) PROVE TypeOK'
  BY <1>7 DEF PushStk, PcValues, Pushes
<1>8. ASSUME NEW r \in Requests, RecordAnswer(r) PROVE TypeOK'
  <2>1. attempt[r] \in Nat /\ (attempt[r] < MaxAttempts => attempt[r] + 1 \in Attempts)
    BY DEF Attempts
  <2>2. record' \in [Pushes -> {"NONE", "PENDING", "COMPLETED", "FAILED"}]
    BY <1>8 DEF RecordAnswer, Pushes
  <2>3. attempt' \in [Requests -> Attempts]
    BY <1>8, <2>1 DEF RecordAnswer
  <2>4. pc' \in [Actors -> PcValues]
    BY <1>8 DEF RecordAnswer, PcValues
  <2>5. answer' \in [Requests -> Answers \cup {"none"}]
    BY <1>8 DEF RecordAnswer
  <2> QED
    BY <1>8, <2>2, <2>3, <2>4, <2>5 DEF RecordAnswer
<1>9. ASSUME NEW r \in Requests, FailInitiation(r) PROVE TypeOK'
  <2>1. OwnCopy("INITIATED") \in Settlements /\ OwnCopy("FAILED") \in Settlements
    BY RowTypes DEF Statuses
  <2> QED
    BY <1>9, <2>1 DEF FailInitiation, PcValues
<1>10. ASSUME NEW r \in Requests, CreateChildren(r) PROVE TypeOK'
  <2>1. [OwnCopy("INITIATED") EXCEPT !.tagged = TRUE] \in Settlements
    BY RowTypes DEF Statuses
  <2>2. row' \in [Rows -> Settlements]
    <3>1. row' = row
          \/ row' = [row EXCEPT ![Child] = [OwnCopy("INITIATED") EXCEPT !.tagged = TRUE]]
      BY <1>10 DEF CreateChildren
    <3> QED
      BY <2>1, <3>1
  <2>3. pc' \in [Actors -> PcValues]
    BY <1>10 DEF CreateChildren, PcValues
  <2>4. report' \in [Actors -> {"none", "paid", "failed", "cash"}]
    BY <1>10 DEF CreateChildren
  <2> QED
    BY <1>10, <2>2, <2>3, <2>4 DEF CreateChildren
<1>11. ASSUME NEW a \in Actors, FindSettlement(a) PROVE TypeOK'
  BY <1>11 DEF FindSettlement, Started, PcValues
<1>12. ASSUME NEW a \in Actors, ConfirmMpesa(a) PROVE TypeOK'
  <2>1. [view[a] EXCEPT !.status = "PENDING_PROCESSING", !.plan = "SUCCESS"] \in Settlements
    BY RowTypes
  <2> QED
    BY <1>12, <2>1 DEF ConfirmMpesa, PcValues
<1>13a. ASSUME NEW a \in Actors, PostponeSplit(a) PROVE TypeOK'
  BY <1>13a DEF PostponeSplit, PcValues
<1>13. ASSUME NEW a \in Actors, RecordSplit(a) PROVE TypeOK'
  <2>1. [view[a] EXCEPT !.status = "PROCESSING", !.paid = TRUE, !.split = TRUE] \in Settlements
    BY RowTypes
  <2> QED
    BY <1>13, <2>1 DEF RecordSplit, PcValues
<1>14. ASSUME NEW a \in Actors, Dispatch(a) PROVE TypeOK'
  BY <1>14 DEF Dispatch, Started, PcValues
<1>15. ASSUME NEW h \in Handlers, HandleDecline(h) PROVE TypeOK'
  <2>1. [view[h] EXCEPT !.status = "FAILED"] \in Settlements
    BY RowTypes
  <2> QED
    BY <1>15, <2>1 DEF HandleDecline, PcValues
<1>16. ASSUME NEW h \in Handlers, HandleReport(h) \/ WriteConfirmation(h) PROVE TypeOK'
  <2>1. [view[h] EXCEPT !.status = "PENDING_PROCESSING", !.paid = TRUE] \in Settlements
    BY RowTypes
  <2> QED
    BY <1>16, <2>1 DEF HandleReport, WriteConfirmation, PcValues
<1>17. ASSUME NEW h \in Handlers, DispatchConfirmed(h) PROVE TypeOK'
  BY <1>17 DEF DispatchConfirmed, PcValues, Inv, TagInv
<1>18. ASSUME NEW p \in Pushes, CustomerResponds(p) PROVE TypeOK'
  BY <1>18 DEF CustomerResponds
<1>19. ASSUME NEW h \in Handlers, NEW p \in Pushes, ReceiveCallback(h, p) PROVE TypeOK'
  BY <1>19, NoMixedEscrow DEF ReceiveCallback, UpsertRecord, HandOver, ResultOf, PcValues
<1>20. ASSUME NEW h \in Handlers, RequestDispatch(h) PROVE TypeOK'
  BY <1>20 DEF RequestDispatch, CallFromOutside, PcValues
<1>21. ASSUME NEW h \in Handlers, ReportPayment(h) PROVE TypeOK'
  BY <1>21 DEF ReportPayment, CallFromOutside, Started, PcValues
<1>22. ASSUME NEW h \in Handlers, NEW s \in Rows, ConfirmPayment(h, s) PROVE TypeOK'
  BY <1>22 DEF ConfirmPayment, CallFromOutside, PcValues
<1>23. ASSUME NEW s \in Rows, Reconcile(s) PROVE TypeOK'
  <2>1. [row[s] EXCEPT !.status = "COMPLETED"] \in Settlements
    BY RowTypes
  <2> QED
    BY <1>23, <2>1 DEF Reconcile, CallFromOutside
<1>24. CASE UNCHANGED vars
  BY <1>24 DEF vars
<1> QED
  BY <1>1, <1>2, <1>3, <1>4, <1>5, <1>6, <1>7, <1>8, <1>9, <1>10, <1>11, <1>12,
     <1>13, <1>14, <1>15, <1>16, <1>17, <1>18, <1>19, <1>20, <1>21, <1>22, <1>23, <1>24,
     <1>4a, <1>13a
  DEF Next, Initiate, Allocate, Handle

(* What is known of the money stays known.                                 *)
Monotonic ==
  /\ KindInv' /\ PushInv'
  /\ Money => Money'
  /\ Collected => Collected'
  /\ vouched => vouched'
  /\ kind' = kind

LEMMA Monotone == Inv /\ [Next]_vars => Monotonic
<1> SUFFICES ASSUME Inv, [Next]_vars PROVE Monotonic
  OBVIOUS
<1> USE SettlementAssumption DEF Monotonic, Inv, TypeOK, PushInv, KindInv, Money, Collected, Pushes, Attempts, Goto, Finish, requestVars, handlerVars, payVars, outside, Actors
<1>1. ASSUME NEW r \in Requests, FindExisting(r) \/ CreateSettlement(r) \/ WritePlan(r) \/ StartCash(r) PROVE Monotonic
  BY <1>1 DEF FindExisting, CreateSettlement, WritePlan, StartCash, OwnCopy
<1>2. ASSUME NEW r \in Requests,
             AdmitCash(r) \/ ReadSource(r) \/ WriteSource(r) \/ RejectCash(r) PROVE Monotonic
  BY <1>2 DEF AdmitCash, ReadSource, WriteSource, RejectCash
<1>3. ASSUME NEW r \in Requests, CreateRecord(r) \/ PushStk(r) PROVE Monotonic
  BY <1>3 DEF CreateRecord, PushStk, Answers
<1>4. ASSUME NEW r \in Requests, RecordAnswer(r) \/ FailInitiation(r) PROVE Monotonic
  BY <1>4 DEF RecordAnswer, FailInitiation, OwnCopy
<1>5. ASSUME NEW r \in Requests, CreateChildren(r) PROVE Monotonic
  BY <1>5 DEF CreateChildren, OwnCopy
<1>6. ASSUME NEW a \in Actors, FindSettlement(a) PROVE Monotonic
  BY <1>6 DEF FindSettlement, Started, Exists
<1>7. ASSUME NEW a \in Actors, ConfirmMpesa(a) \/ PostponeSplit(a) \/ RecordSplit(a) PROVE Monotonic
  BY <1>7 DEF ConfirmMpesa, PostponeSplit, RecordSplit
<1>8. ASSUME NEW a \in Actors, Dispatch(a) PROVE Monotonic
  BY <1>8 DEF Dispatch, Started, MayDispatch
<1>9. ASSUME NEW h \in Handlers, HandleDecline(h) \/ HandleReport(h) PROVE Monotonic
  BY <1>9 DEF HandleDecline, HandleReport
<1>10. ASSUME NEW h \in Handlers, WriteConfirmation(h) \/ DispatchConfirmed(h) PROVE Monotonic
  BY <1>10 DEF WriteConfirmation, DispatchConfirmed, MayDispatch
<1>11. ASSUME NEW p \in Pushes, CustomerResponds(p) PROVE Monotonic
  BY <1>11 DEF CustomerResponds
<1>12. ASSUME NEW h \in Handlers, NEW p \in Pushes, ReceiveCallback(h, p) PROVE Monotonic
  BY <1>12, NoMixedEscrow DEF ReceiveCallback, UpsertRecord, HandOver, ResultOf
<1>13. ASSUME NEW h \in Handlers, RequestDispatch(h) \/ ReportPayment(h) PROVE Monotonic
  BY <1>13 DEF RequestDispatch, ReportPayment, CallFromOutside, Started, Exists
<1>14. ASSUME NEW s \in Rows, Reconcile(s) \/ \E h \in Handlers : ConfirmPayment(h, s) PROVE Monotonic
  BY <1>14 DEF ConfirmPayment, Reconcile, CallFromOutside, Started, Exists
<1>15. CASE UNCHANGED vars
  BY <1>15 DEF vars
<1> QED
  BY <1>1, <1>2, <1>3, <1>4, <1>5, <1>6, <1>7,
     <1>8, <1>9, <1>10, <1>11, <1>12, <1>13, <1>14, <1>15
  DEF Next, Initiate, Allocate, Handle

(* A copy that is written back by initiation, or forgotten, says nothing.  *)
LEMMA Blank ==
  /\ Absent.status = "ABSENT"
  /\ Absent.split = FALSE /\ Absent.paid = FALSE
  /\ LET created == [Absent EXCEPT !.status = "INITIATED", !.tagged = TRUE]
     IN  created.status = "INITIATED" /\ created.split = FALSE /\ created.paid = FALSE
  /\ \A status \in Statuses :
       LET own == OwnCopy(status)
           kid == [OwnCopy(status) EXCEPT !.tagged = TRUE]
       IN  /\ own.status = status /\ own.split = FALSE /\ own.paid = FALSE
           /\ kid.status = status /\ kid.split = FALSE /\ kid.paid = FALSE
           /\ kid.tagged = TRUE
  /\ {"INITIATED", "FAILED", "PENDING_PROCESSING"} \subseteq Statuses
  BY DEF Absent, OwnCopy, Statuses

(* What a copy that is written back keeps of what was read.                *)
LEMMA Copies ==
  ASSUME NEW s \in Settlements
  PROVE  /\ [s EXCEPT !.status = "FAILED"].status = "FAILED"
         /\ [s EXCEPT !.status = "FAILED"].split = s.split
         /\ [s EXCEPT !.status = "FAILED"].paid = s.paid
         /\ [s EXCEPT !.status = "FAILED"].tagged = s.tagged
         /\ LET c == [s EXCEPT !.status = "PENDING_PROCESSING", !.plan = "SUCCESS"]
            IN  c.split = s.split /\ c.tagged = s.tagged
  BY DEF Settlements

(* Writing payoutSource keeps what was read, but for the status.           *)
LEMMA WritesSource ==
  ASSUME NEW s \in Settlements, NEW status
  PROVE  LET c == [s EXCEPT !.status = status, !.source = TRUE]
         IN  c.status = status /\ c.split = s.split /\ c.tagged = s.tagged
  BY DEF Settlements

(* A copy that is written back has its money, as the row it was read from. *)
LEMMA MoneyKept == Inv /\ [Next]_vars => MoneyInv'
<1> SUFFICES ASSUME Inv, [Next]_vars PROVE MoneyInv'
  OBVIOUS
<1>0. TypeOK /\ MoneyInv /\ KindInv /\ kind' = kind /\ (Money => Money')
  BY Monotone DEF Inv, Monotonic
<1> USE SettlementAssumption, Blank, <1>0 DEF TypeOK, MoneyInv, Goto, Finish, requestVars, handlerVars, payVars, outside, Actors, Rows
<1>1. ASSUME NEW r \in Requests, FindExisting(r) PROVE MoneyInv'
  BY <1>1 DEF FindExisting
<1>2. ASSUME NEW r \in Requests, CreateSettlement(r) PROVE MoneyInv'
  BY <1>2 DEF CreateSettlement
<1>3. ASSUME NEW r \in Requests, WritePlan(r) PROVE MoneyInv'
  BY <1>3 DEF WritePlan
<1>4. ASSUME NEW r \in Requests, StartCash(r) PROVE MoneyInv'
  BY <1>4 DEF StartCash
<1>5. ASSUME NEW r \in Requests, AdmitCash(r) \/ ReadSource(r) PROVE MoneyInv'
  BY <1>5 DEF AdmitCash, ReadSource
<1>4a. ASSUME NEW r \in Requests, WriteSource(r) PROVE MoneyInv'
  BY <1>4a, WritesSource DEF WriteSource, KindInv
<1>6. ASSUME NEW r \in Requests, RejectCash(r) PROVE MoneyInv'
  BY <1>6 DEF RejectCash
<1>7. ASSUME NEW r \in Requests, CreateRecord(r) \/ PushStk(r) PROVE MoneyInv'
  BY <1>7 DEF CreateRecord, PushStk
<1>8. ASSUME NEW r \in Requests, RecordAnswer(r) PROVE MoneyInv'
  BY <1>8 DEF RecordAnswer
<1>9. ASSUME NEW r \in Requests, FailInitiation(r) PROVE MoneyInv'
  BY <1>9 DEF FailInitiation
<1>10. ASSUME NEW r \in Requests, CreateChildren(r) PROVE MoneyInv'
  <2>1. row' = row
        \/ row' = [row EXCEPT ![Child] = [OwnCopy("INITIATED") EXCEPT !.tagged = TRUE]]
    BY <1>10 DEF CreateChildren
  <2>2. \A s \in Rows : row'[s].split => row[s].split
    <3> DEFINE kid == [OwnCopy("INITIATED") EXCEPT !.tagged = TRUE]
    <3>1. kid.status = "INITIATED" /\ kid.split = FALSE /\ kid.paid = FALSE /\ kid.tagged = TRUE
      BY DEF Statuses
    <3> HIDE DEF kid
    <3>2. row' = row \/ row' = [row EXCEPT ![Child] = kid]
      BY <2>1 DEF kid
    <3> QED
      BY <3>1, <3>2
  <2>3. pc'[r] = "lookup" => Money
    BY <1>10 DEF CreateChildren, KindInv, Money
  <2> QED
    BY <1>10, <2>2, <2>3 DEF CreateChildren
<1>11. ASSUME NEW a \in Actors, FindSettlement(a) PROVE MoneyInv'
  BY <1>11 DEF FindSettlement, Started, Exists
<1>12. ASSUME NEW a \in Actors, ConfirmMpesa(a) PROVE MoneyInv'
  BY <1>12 DEF ConfirmMpesa
<1>13a. ASSUME NEW a \in Actors, PostponeSplit(a) PROVE MoneyInv'
  BY <1>13a DEF PostponeSplit
<1>13. ASSUME NEW a \in Actors, RecordSplit(a) PROVE MoneyInv'
  BY <1>13 DEF RecordSplit
<1>14. ASSUME NEW a \in Actors, Dispatch(a) PROVE MoneyInv'
  BY <1>14 DEF Dispatch, Started, MayDispatch
<1>15. ASSUME NEW h \in Handlers, HandleDecline(h) PROVE MoneyInv'
  <2>1. row' = row \/ row' = [row EXCEPT ![target[h]] = [view[h] EXCEPT !.status = "FAILED"]]
    BY <1>15 DEF HandleDecline
  <2>2. \A s \in Rows : row'[s].split => Money
    <3> DEFINE failed == [view[h] EXCEPT !.status = "FAILED"]
    <3>1. /\ failed.status = "FAILED" /\ failed.split = view[h].split
          /\ failed.paid = view[h].paid /\ failed.tagged = view[h].tagged
      BY Copies
    <3> HIDE DEF failed
    <3>2. row' = row \/ row' = [row EXCEPT ![target[h]] = failed]
      BY <2>1 DEF failed
    <3> QED
      BY <3>1, <3>2
  <2> QED
    BY <1>15, <2>2 DEF HandleDecline
<1>16. ASSUME NEW h \in Handlers, HandleReport(h) PROVE MoneyInv'
  BY <1>16 DEF HandleReport
<1>17. ASSUME NEW h \in Handlers, WriteConfirmation(h) PROVE MoneyInv'
  BY <1>17 DEF WriteConfirmation
<1>18. ASSUME NEW h \in Handlers, DispatchConfirmed(h) PROVE MoneyInv'
  BY <1>18 DEF DispatchConfirmed, MayDispatch
<1>19. ASSUME NEW p \in Pushes, CustomerResponds(p) PROVE MoneyInv'
  BY <1>19 DEF CustomerResponds
<1>20. ASSUME NEW h \in Handlers, NEW p \in Pushes, ReceiveCallback(h, p) PROVE MoneyInv'
  <2>1. customer[p] = "paid" => Money
    BY DEF KindInv, Money, Collected
  <2> QED
    BY <1>20, <2>1 DEF ReceiveCallback, StartMixedEscrow, HandOver, ResultOf
<1>21. ASSUME NEW h \in Handlers, RequestDispatch(h) \/ ReportPayment(h) PROVE MoneyInv'
  BY <1>21 DEF RequestDispatch, ReportPayment, CallFromOutside, Started, Exists
<1>22. ASSUME NEW h \in Handlers, NEW s \in Rows, ConfirmPayment(h, s) PROVE MoneyInv'
  BY <1>22 DEF ConfirmPayment, CallFromOutside, Started, Exists
<1>23. ASSUME NEW s \in Rows, Reconcile(s) PROVE MoneyInv'
  BY <1>23 DEF Reconcile, CallFromOutside, Started, Exists
<1>24. CASE UNCHANGED vars
  BY <1>24 DEF vars
<1> QED
  BY <1>1, <1>2, <1>3, <1>4, <1>5, <1>6, <1>7, <1>8, <1>9, <1>10, <1>11, <1>12,
     <1>13, <1>14, <1>15, <1>16, <1>17, <1>18, <1>19, <1>20, <1>21, <1>22, <1>23, <1>24,
     <1>4a, <1>13a
  DEF Next, Initiate, Allocate, Handle

(* A copy of the supplier's row has its tag.                               *)
LEMMA TagKept == Inv /\ [Next]_vars => TagInv'
<1> SUFFICES ASSUME Inv, [Next]_vars PROVE TagInv'
  OBVIOUS
<1>0. TypeOK /\ TagInv
  BY DEF Inv
<1> USE SettlementAssumption, Blank, <1>0 DEF TypeOK, TagInv, Exists, Goto, Finish, requestVars, handlerVars, payVars, outside, Actors, Rows
<1>1. ASSUME NEW r \in Requests, FindExisting(r) PROVE TagInv'
  BY <1>1 DEF FindExisting
<1>2. ASSUME NEW r \in Requests, CreateSettlement(r) PROVE TagInv'
  BY <1>2 DEF CreateSettlement
<1>3. ASSUME NEW r \in Requests, WritePlan(r) PROVE TagInv'
  BY <1>3 DEF WritePlan
<1>4. ASSUME NEW r \in Requests, StartCash(r) PROVE TagInv'
  BY <1>4 DEF StartCash
<1>5. ASSUME NEW r \in Requests, AdmitCash(r) \/ ReadSource(r) PROVE TagInv'
  BY <1>5 DEF AdmitCash, ReadSource
<1>4a. ASSUME NEW r \in Requests, WriteSource(r) PROVE TagInv'
  BY <1>4a, WritesSource DEF WriteSource
<1>6. ASSUME NEW r \in Requests, RejectCash(r) PROVE TagInv'
  BY <1>6 DEF RejectCash
<1>7. ASSUME NEW r \in Requests, CreateRecord(r) \/ PushStk(r) PROVE TagInv'
  BY <1>7 DEF CreateRecord, PushStk
<1>8. ASSUME NEW r \in Requests, RecordAnswer(r) PROVE TagInv'
  BY <1>8 DEF RecordAnswer
<1>9. ASSUME NEW r \in Requests, FailInitiation(r) PROVE TagInv'
  BY <1>9 DEF FailInitiation
<1>10. ASSUME NEW r \in Requests, CreateChildren(r) PROVE TagInv'
  <2>1. row' = row
        \/ row' = [row EXCEPT ![Child] = [OwnCopy("INITIATED") EXCEPT !.tagged = TRUE]]
    BY <1>10 DEF CreateChildren
  <2>2. Exists(Child)' => row'[Child].tagged
    <3> DEFINE kid == [OwnCopy("INITIATED") EXCEPT !.tagged = TRUE]
    <3>1. kid.status = "INITIATED" /\ kid.split = FALSE /\ kid.paid = FALSE /\ kid.tagged = TRUE
      BY DEF Statuses
    <3> HIDE DEF kid
    <3>2. row' = row \/ row' = [row EXCEPT ![Child] = kid]
      BY <2>1 DEF kid
    <3> QED
      BY <3>1, <3>2
  <2> QED
    BY <1>10, <2>2 DEF CreateChildren
<1>11. ASSUME NEW a \in Actors, FindSettlement(a) PROVE TagInv'
  BY <1>11 DEF FindSettlement, Started, Exists
<1>12. ASSUME NEW a \in Actors, ConfirmMpesa(a) PROVE TagInv'
  <2> DEFINE confirmed == [view[a] EXCEPT !.status = "PENDING_PROCESSING", !.plan = "SUCCESS"]
  <2>1. confirmed.tagged = view[a].tagged
    BY Copies
  <2>2. \/ row' = row /\ view' = view
        \/ /\ row' = [row EXCEPT ![target[a]] = confirmed]
           /\ view' = [view EXCEPT ![a] = confirmed]
    BY <1>12 DEF ConfirmMpesa
  <2> HIDE DEF confirmed
  <2>3. /\ \A b \in Actors : view'[b].tagged = view[b].tagged
        /\ Exists(Child)' => row'[Child].tagged
    BY <2>1, <2>2
  <2> QED
    BY <1>12, <2>2, <2>3 DEF ConfirmMpesa
<1>13a. ASSUME NEW a \in Actors, PostponeSplit(a) PROVE TagInv'
  BY <1>13a DEF PostponeSplit
<1>13. ASSUME NEW a \in Actors, RecordSplit(a) PROVE TagInv'
  BY <1>13 DEF RecordSplit
<1>14. ASSUME NEW a \in Actors, Dispatch(a) PROVE TagInv'
  BY <1>14 DEF Dispatch, Started, MayDispatch
<1>15. ASSUME NEW h \in Handlers, HandleDecline(h) PROVE TagInv'
  <2>1. row' = row \/ row' = [row EXCEPT ![target[h]] = [view[h] EXCEPT !.status = "FAILED"]]
    BY <1>15 DEF HandleDecline
  <2>2. Exists(Child)' => row'[Child].tagged
    <3> DEFINE failed == [view[h] EXCEPT !.status = "FAILED"]
    <3>1. /\ failed.status = "FAILED" /\ failed.split = view[h].split
          /\ failed.paid = view[h].paid /\ failed.tagged = view[h].tagged
      BY Copies
    <3> HIDE DEF failed
    <3>2. row' = row \/ row' = [row EXCEPT ![target[h]] = failed]
      BY <2>1 DEF failed
    <3> QED
      BY <3>1, <3>2
  <2> QED
    BY <1>15, <2>2 DEF HandleDecline
<1>16. ASSUME NEW h \in Handlers, HandleReport(h) PROVE TagInv'
  BY <1>16 DEF HandleReport
<1>17. ASSUME NEW h \in Handlers, WriteConfirmation(h) PROVE TagInv'
  BY <1>17 DEF WriteConfirmation
<1>18. ASSUME NEW h \in Handlers, DispatchConfirmed(h) PROVE TagInv'
  BY <1>18 DEF DispatchConfirmed, MayDispatch
<1>19. ASSUME NEW p \in Pushes, CustomerResponds(p) PROVE TagInv'
  BY <1>19 DEF CustomerResponds
<1>20. ASSUME NEW h \in Handlers, NEW p \in Pushes, ReceiveCallback(h, p) PROVE TagInv'
  BY <1>20 DEF ReceiveCallback, StartMixedEscrow, HandOver, ResultOf
<1>21. ASSUME NEW h \in Handlers, RequestDispatch(h) \/ ReportPayment(h) PROVE TagInv'
  BY <1>21 DEF RequestDispatch, ReportPayment, CallFromOutside, Started, Exists
<1>22. ASSUME NEW h \in Handlers, NEW s \in Rows, ConfirmPayment(h, s) PROVE TagInv'
  BY <1>22 DEF ConfirmPayment, CallFromOutside, Started, Exists
<1>23. ASSUME NEW s \in Rows, Reconcile(s) PROVE TagInv'
  BY <1>23 DEF Reconcile, CallFromOutside, Started, Exists
<1>24. CASE UNCHANGED vars
  BY <1>24 DEF vars
<1> QED
  BY <1>1, <1>2, <1>3, <1>4, <1>5, <1>6, <1>7, <1>8, <1>9, <1>10, <1>11, <1>12,
     <1>13, <1>14, <1>15, <1>16, <1>17, <1>18, <1>19, <1>20, <1>21, <1>22, <1>23, <1>24,
     <1>4a, <1>13a
  DEF Next, Initiate, Allocate, Handle

(* What counts as confirmed is written only where a payment is known.      *)
LEMMA GateKept == Inv /\ [Next]_vars => GateInv'
<1> SUFFICES ASSUME Inv, [Next]_vars PROVE GateInv'
  OBVIOUS
<1>0. TypeOK /\ GateInv /\ kind' = kind /\ (Collected => Collected') /\ (vouched => vouched')
  BY Monotone DEF Inv, Monotonic
<1>00. KindInv /\ MoneyInv
  BY DEF Inv
<1> USE SettlementAssumption, Blank, <1>0 DEF TypeOK, GateInv, Confirmed, Goto, Finish, requestVars, handlerVars, payVars, outside, Actors, Rows
<1>1. ASSUME NEW r \in Requests, FindExisting(r) PROVE GateInv'
  BY <1>1 DEF FindExisting
<1>2. ASSUME NEW r \in Requests, CreateSettlement(r) PROVE GateInv'
  BY <1>2 DEF CreateSettlement
<1>3. ASSUME NEW r \in Requests, WritePlan(r) PROVE GateInv'
  BY <1>3, <1>00 DEF WritePlan, KindInv
<1>4. ASSUME NEW r \in Requests, StartCash(r) PROVE GateInv'
  BY <1>4, <1>00 DEF StartCash, KindInv
<1>5. ASSUME NEW r \in Requests, AdmitCash(r) \/ ReadSource(r) PROVE GateInv'
  BY <1>5 DEF AdmitCash, ReadSource
<1>4a. ASSUME NEW r \in Requests, WriteSource(r) PROVE GateInv'
  BY <1>4a, WritesSource DEF WriteSource, KindInv
<1>6. ASSUME NEW r \in Requests, RejectCash(r) PROVE GateInv'
  BY <1>6 DEF RejectCash
<1>7. ASSUME NEW r \in Requests, CreateRecord(r) \/ PushStk(r) PROVE GateInv'
  BY <1>7 DEF CreateRecord, PushStk
<1>8. ASSUME NEW r \in Requests, RecordAnswer(r) PROVE GateInv'
  BY <1>8 DEF RecordAnswer
<1>9. ASSUME NEW r \in Requests, FailInitiation(r) PROVE GateInv'
  BY <1>9 DEF FailInitiation
<1>10. ASSUME NEW r \in Requests, CreateChildren(r) PROVE GateInv'
  <2>1. row' = row
        \/ row' = [row EXCEPT ![Child] = [OwnCopy("INITIATED") EXCEPT !.tagged = TRUE]]
    BY <1>10 DEF CreateChildren
  <2>2. \A s \in Rows : Confirmed(row'[s]) => Confirmed(row[s])
    <3> DEFINE kid == [OwnCopy("INITIATED") EXCEPT !.tagged = TRUE]
    <3>1. kid.status = "INITIATED" /\ kid.split = FALSE /\ kid.paid = FALSE /\ kid.tagged = TRUE
      BY DEF Statuses
    <3> HIDE DEF kid
    <3>2. row' = row \/ row' = [row EXCEPT ![Child] = kid]
      BY <2>1 DEF kid
    <3> QED
      BY <3>1, <3>2
  <2> QED
    BY <1>10, <2>2 DEF CreateChildren
<1>11. ASSUME NEW a \in Actors, FindSettlement(a) PROVE GateInv'
  BY <1>11 DEF FindSettlement, Started, Exists
<1>12. ASSUME NEW a \in Actors, ConfirmMpesa(a) PROVE GateInv'
  <2>1. kind = "MPESA" => Collected
    BY <1>12, <1>00 DEF ConfirmMpesa, MoneyInv, Money
  <2> QED
    BY <1>12, <2>1 DEF ConfirmMpesa
<1>13a. ASSUME NEW a \in Actors, PostponeSplit(a) PROVE GateInv'
  BY <1>13a DEF PostponeSplit
<1>13. ASSUME NEW a \in Actors, RecordSplit(a) PROVE GateInv'
  <2>1. kind = "MPESA" => Collected
    BY <1>13, <1>00 DEF RecordSplit, MoneyInv, Money
  <2> QED
    BY <1>13, <2>1 DEF RecordSplit
<1>14. ASSUME NEW a \in Actors, Dispatch(a) PROVE GateInv'
  BY <1>14 DEF Dispatch, Started, MayDispatch
<1>15. ASSUME NEW h \in Handlers, HandleDecline(h) PROVE GateInv'
  <2>1. row' = row \/ row' = [row EXCEPT ![target[h]] = [view[h] EXCEPT !.status = "FAILED"]]
    BY <1>15 DEF HandleDecline
  <2>2. kind = "MPESA" => \A s \in Rows : Confirmed(row'[s]) => Collected \/ vouched
    <3> DEFINE failed == [view[h] EXCEPT !.status = "FAILED"]
    <3>1. /\ failed.status = "FAILED" /\ failed.split = view[h].split
          /\ failed.paid = view[h].paid /\ failed.tagged = view[h].tagged
      BY Copies
    <3> HIDE DEF failed
    <3>2. row' = row \/ row' = [row EXCEPT ![target[h]] = failed]
      BY <2>1 DEF failed
    <3> QED
      BY <3>1, <3>2
  <2> QED
    BY <1>15, <2>2 DEF HandleDecline
<1>16. ASSUME NEW h \in Handlers, HandleReport(h) PROVE GateInv'
  BY <1>16 DEF HandleReport
<1>17. ASSUME NEW h \in Handlers, WriteConfirmation(h) PROVE GateInv'
  BY <1>17 DEF WriteConfirmation
<1>18. ASSUME NEW h \in Handlers, DispatchConfirmed(h) PROVE GateInv'
  BY <1>18 DEF DispatchConfirmed, MayDispatch
<1>19. ASSUME NEW p \in Pushes, CustomerResponds(p) PROVE GateInv'
  BY <1>19 DEF CustomerResponds
<1>20. ASSUME NEW h \in Handlers, NEW p \in Pushes, ReceiveCallback(h, p) PROVE GateInv'
  BY <1>20 DEF ReceiveCallback, StartMixedEscrow, HandOver, ResultOf
<1>21. ASSUME NEW h \in Handlers, RequestDispatch(h) \/ ReportPayment(h) PROVE GateInv'
  BY <1>21 DEF RequestDispatch, ReportPayment, CallFromOutside, Started, Exists
<1>22. ASSUME NEW h \in Handlers, NEW s \in Rows, ConfirmPayment(h, s) PROVE GateInv'
  BY <1>22 DEF ConfirmPayment, CallFromOutside, Started, Exists
<1>23. ASSUME NEW s \in Rows, Reconcile(s) PROVE GateInv'
  BY <1>23 DEF Reconcile, CallFromOutside, Started, Exists
<1>24. CASE UNCHANGED vars
  BY <1>24 DEF vars
<1> QED
  BY <1>1, <1>2, <1>3, <1>4, <1>5, <1>6, <1>7, <1>8, <1>9, <1>10, <1>11, <1>12,
     <1>13, <1>14, <1>15, <1>16, <1>17, <1>18, <1>19, <1>20, <1>21, <1>22, <1>23, <1>24,
     <1>4a, <1>13a
  DEF Next, Initiate, Allocate, Handle

LEMMA InvNext == Inv /\ [Next]_vars => Inv'
  BY Types, Monotone, MoneyKept, TagKept, GateKept DEF Inv, Monotonic

--------------------------------------------------------------------------------
(* Every variable of the settlements keeps its type.                       *)
THEOREM SettlementTyping == Spec => []TypeOK
<1>1. Inv => TypeOK
  BY DEF Inv
<1> QED
  BY <1>1, InvInit, InvNext, PTL DEF Spec

(* No row is split for payouts before its money is there.                  *)
THEOREM SplitPaid == Spec => []SplitIsPaid
<1>1. Inv => SplitIsPaid
  BY DEF Inv, MoneyInv, Money, SplitIsPaid
<1> QED
  BY <1>1, InvInit, InvNext, PTL DEF Spec

(* Payouts of an M-Pesa settlement wait for the payment, or a voucher's    *)
(* word, whichever of its rows the gate reads.                             *)
THEOREM Gate == Spec => []GateOpensOnPayment
<1>1. Inv => GateOpensOnPayment
  BY DEF Inv, GateInv, GateOpensOnPayment
<1> QED
  BY <1>1, InvInit, InvNext, PTL DEF Spec

(* Once initiated, a reference is found by its tag, whatever is written.   *)
THEOREM Recognised == Spec => []RepeatRecognised
<1>1. Inv => RepeatRecognised
  BY DEF Inv, TagInv, RepeatRecognised, Started, Exists, Rows
<1> QED
  BY <1>1, InvInit, InvNext, PTL DEF Spec
================================================================================
