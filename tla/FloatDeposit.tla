------------------------------ MODULE FloatDeposit ------------------------------
(***************************************************************************)
(* Deposits into the retailers' escrow floats.  A request creates the row, *)
(* asks Safaricom for an STK push and, once answered, writes what the      *)
(* answer was; the customer's payment is reported by callbacks, which may  *)
(* come before that write, several times, and several at once.             *)
(*                                                                         *)
(* A deposit is credited to the float exactly while its status is          *)
(* SUCCEEDED: the balance sums those rows (module EscrowFloat, where the   *)
(* two directions a credit can change are ConfirmDeposit, ForgetDeposit).  *)
(***************************************************************************)
EXTENDS Integers

CONSTANTS
  FloatDeposits,
  DepCallbacks,    \* deliveries of callbacks that may be handled at once
  DepLossy,        \* may Safaricom's answer to an accepted STK push be lost?
  MaxDepCrashes,   \* bound on process stops
  NoDeposit

ASSUME DepositAssumption ==
  /\ NoDeposit \notin FloatDeposits
  /\ DepLossy \in BOOLEAN
  /\ MaxDepCrashes \in Nat

VARIABLES
  depStatus,     \* RetailerEscrowFloatDeposit.status, "NONE" before the row exists
  depRequest,    \* where the request that initiates the deposit is
  depPushed,     \* deposits whose STK push Safaricom has accepted
  depResult,     \* what Safaricom reports of it
  depAcked,      \* deposits for which a callback has been answered
  depPc,         \* where each delivery is
  depTask,       \* the deposit it reports
  depCrashes

depRequestVars  == <<depRequest, depPushed>>
depCallbackVars == <<depPc, depTask, depAcked>>
depVars == <<depStatus, depRequest, depPushed, depResult, depAcked, depPc, depTask, depCrashes>>

DepDecided  == {"SUCCEEDED", "FAILED"}
DepStatuses == {"NONE", "PENDING", "SUBMITTED"} \cup DepDecided

(* "accepted", "refused" and "threw" are the answers initiate acts on.     *)
DepRequests == {"new", "push", "accepted", "refused", "threw", "done"}
DepReports  == {"paid", "mismatched", "failed"}

DepTypeOK ==
  /\ depStatus \in [FloatDeposits -> DepStatuses]
  /\ depRequest \in [FloatDeposits -> DepRequests]
  /\ depPushed \in SUBSET FloatDeposits
  /\ depResult \in [FloatDeposits -> DepReports \cup {"none"}]
  /\ depAcked \in SUBSET FloatDeposits
  /\ depPc \in [DepCallbacks -> {"idle", "claim", "fail", "ack"}]
  /\ depTask \in [DepCallbacks -> FloatDeposits \cup {NoDeposit}]
  /\ depCrashes \in 0..MaxDepCrashes

DepInit ==
  /\ depStatus = [d \in FloatDeposits |-> "NONE"]
  /\ depRequest = [d \in FloatDeposits |-> "new"]
  /\ depPushed = {}
  /\ depResult = [d \in FloatDeposits |-> "none"]
  /\ depAcked = {}
  /\ depPc = [c \in DepCallbacks |-> "idle"]
  /\ depTask = [c \in DepCallbacks |-> NoDeposit]
  /\ depCrashes = 0

--------------------------------------------------------------------------------
(* initiate *)
CreateDeposit(d) ==
  /\ depRequest[d] = "new"
  /\ depStatus' = [depStatus EXCEPT ![d] = "PENDING"]
  /\ depRequest' = [depRequest EXCEPT ![d] = "push"]
  /\ UNCHANGED <<depPushed, depResult, depCallbackVars, depCrashes>>

(* Accepted, refused with a response code, or no usable answer; in the     *)
(* last case the push may have been accepted all the same.                 *)
PushDepositStk(d) ==
  /\ depRequest[d] = "push"
  /\ \E answer \in {"accepted", "refused", "threw"} :
       /\ depRequest' = [depRequest EXCEPT ![d] = answer]
       /\ \/ answer = "accepted" /\ depPushed' = depPushed \cup {d}
          \/ answer = "threw" /\ DepLossy /\ depPushed' = depPushed \cup {d}
          \/ answer # "accepted" /\ depPushed' = depPushed
  /\ UNCHANGED <<depStatus, depResult, depCallbackVars, depCrashes>>

(* Mutant: the response is recorded under Safaricom's word for it.         *)
RecordAnswerVerbatim(d) ==
  /\ depRequest[d] \in {"accepted", "refused", "threw"}
  /\ depStatus' = [depStatus EXCEPT ![d] = depRequest[d]]
  /\ depRequest' = [depRequest EXCEPT ![d] = "done"]
  /\ UNCHANGED <<depPushed, depResult, depCallbackVars, depCrashes>>

(* The update after the answer, in the try or in the catch: by id, without *)
(* a condition on the status, so a callback that came first is overwritten. *)
RecordAnswer(d) ==
  /\ depRequest[d] \in {"accepted", "refused", "threw"}
  /\ depStatus' = [depStatus EXCEPT ![d] =
                  IF depRequest[d] = "accepted" THEN "SUBMITTED" ELSE "FAILED"]
  /\ depRequest' = [depRequest EXCEPT ![d] = "done"]
  /\ UNCHANGED <<depPushed, depResult, depCallbackVars, depCrashes>>

(* The customer pays or does not; Safaricom settles on one report, which   *)
(* says "mismatched" when its amount is missing or not the one asked for.  *)
CustomerResponds(d) ==
  /\ d \in depPushed
  /\ depResult[d] = "none"
  /\ \E r \in DepReports : depResult' = [depResult EXCEPT ![d] = r]
  /\ UNCHANGED <<depStatus, depRequestVars, depCallbackVars, depCrashes>>

--------------------------------------------------------------------------------
(* Mutant: the amount reported is not compared with the deposit's.         *)
ReceiveCallbackAnyAmount(c, d) ==
  /\ depResult[d] # "none"
  /\ depPc[c] = "idle"
  /\ depPc' = [depPc EXCEPT ![c] = IF depStatus[d] \in DepDecided THEN "ack"
                             ELSE IF depResult[d] = "failed" THEN "fail" ELSE "claim"]
  /\ depTask' = [depTask EXCEPT ![c] = d]
  /\ UNCHANGED <<depStatus, depRequestVars, depResult, depAcked, depCrashes>>

(* handleCallback: reads the row, and decides from what it read.  (A       *)
(* callback of this push carries the deposit's token and request ids, so   *)
(* those checks pass.)                                                     *)
ReceiveCallback(c, d) ==
  /\ depResult[d] # "none"
  /\ depPc[c] = "idle"
  /\ depPc' = [depPc EXCEPT ![c] = IF depStatus[d] \in DepDecided THEN "ack"
                             ELSE IF depResult[d] = "paid" THEN "claim" ELSE "fail"]
  /\ depTask' = [depTask EXCEPT ![c] = d]
  /\ UNCHANGED <<depStatus, depRequestVars, depResult, depAcked, depCrashes>>

(* The update of a failed or mismatched payment: by id, unconditional.     *)
FailDeposit(c) ==
  /\ depPc[c] = "fail"
  /\ depStatus' = [depStatus EXCEPT ![depTask[c]] = "FAILED"]
  /\ depPc' = [depPc EXCEPT ![c] = "ack"]
  /\ UNCHANGED <<depRequestVars, depResult, depTask, depAcked, depCrashes>>

(* Mutant: the row is updated by id.                                       *)
ClaimDepositUnguarded(c) ==
  /\ depPc[c] = "claim"
  /\ depStatus' = [depStatus EXCEPT ![depTask[c]] = "SUCCEEDED"]
  /\ depPc' = [depPc EXCEPT ![c] = "ack"]
  /\ UNCHANGED <<depRequestVars, depResult, depTask, depAcked, depCrashes>>

(* Mutant: a callback is expected only once the answer is recorded.        *)
ClaimDepositSubmittedOnly(c) ==
  /\ depPc[c] = "claim"
  /\ depStatus' = [depStatus EXCEPT ![depTask[c]] = IF @ = "SUBMITTED" THEN "SUCCEEDED" ELSE @]
  /\ depPc' = [depPc EXCEPT ![c] = "ack"]
  /\ UNCHANGED <<depRequestVars, depResult, depTask, depAcked, depCrashes>>

(* The conditional updateMany of a successful payment.                     *)
ClaimDeposit(c) ==
  /\ depPc[c] = "claim"
  /\ depStatus' = [depStatus EXCEPT ![depTask[c]] =
                  IF @ \in {"PENDING", "SUBMITTED"} THEN "SUCCEEDED" ELSE @]
  /\ depPc' = [depPc EXCEPT ![c] = "ack"]
  /\ UNCHANGED <<depRequestVars, depResult, depTask, depAcked, depCrashes>>

(* The handler answers the delivery.                                       *)
Acknowledge(c) ==
  /\ depPc[c] = "ack"
  /\ depAcked' = depAcked \cup {depTask[c]}
  /\ depPc' = [depPc EXCEPT ![c] = "idle"]
  /\ depTask' = [depTask EXCEPT ![c] = NoDeposit]
  /\ UNCHANGED <<depStatus, depRequestVars, depResult, depCrashes>>

(* The process stops: requests and deliveries in progress are lost.        *)
DepCrash ==
  /\ depCrashes < MaxDepCrashes
  /\ depCrashes' = depCrashes + 1
  /\ depRequest' = [d \in FloatDeposits |-> IF depRequest[d] = "new" THEN "new" ELSE "done"]
  /\ depPc' = [c \in DepCallbacks |-> "idle"]
  /\ depTask' = [c \in DepCallbacks |-> NoDeposit]
  /\ UNCHANGED <<depStatus, depPushed, depResult, depAcked>>

--------------------------------------------------------------------------------
DepDeliver(d) == d \notin depAcked /\ \E c \in DepCallbacks : ReceiveCallback(c, d)
DepHandle(c)  == FailDeposit(c) \/ ClaimDeposit(c) \/ Acknowledge(c)

DepNext ==
  \/ \E d \in FloatDeposits :
       CreateDeposit(d) \/ PushDepositStk(d) \/ RecordAnswer(d) \/ CustomerResponds(d)
  \/ \E c \in DepCallbacks : DepHandle(c) \/ \E d \in FloatDeposits : ReceiveCallback(c, d)
  \/ DepCrash

(* Node runs every delivery it has taken in, and Safaricom goes on         *)
(* delivering a report until one delivery is answered, not longer.         *)
DepFairness ==
  /\ \A c \in DepCallbacks : WF_depVars(DepHandle(c))
  /\ \A d \in FloatDeposits : SF_depVars(DepDeliver(d))

DepSpec == DepInit /\ [][DepNext]_depVars /\ DepFairness

--------------------------------------------------------------------------------
DepConfirmed == {d \in FloatDeposits : depStatus[d] = "SUCCEEDED"}

(* CreditedIsCollected: the float is credited only with payments Safaricom *)
(* has reported as successful and of the deposit's exact amount.           *)
CreditedIsCollected == \A d \in DepConfirmed : depResult[d] = "paid"

(* FinalOnceAnswered: after the request has written its answer, a deposit  *)
(* that is SUCCEEDED or FAILED stays so, whatever callbacks are repeated   *)
(* or were already past their check: no second credit, no revival.         *)
FinalOnceAnswered ==
  [][\A d \in FloatDeposits : depRequest[d] = "done" /\ depStatus[d] \in DepDecided
                           => depStatus'[d] = depStatus[d]]_depVars


(* ReportDecides: a report that waits for delivery makes the deposit       *)
(* SUCCEEDED or FAILED, wherever the request is and if the process stops.  *)
DepWaiting(d) == depResult[d] # "none" /\ d \notin depAcked /\ \A c \in DepCallbacks : depTask[c] # d

ReportDecides == \A d \in FloatDeposits : DepWaiting(d) ~> depStatus[d] \in DepDecided

--------------------------------------------------------------------------------
(* What makes CreditedIsCollected inductive: no row before its request, no *)
(* report before its push, and a handler works for the report it has.      *)
DepositInv ==
  /\ CreditedIsCollected
  /\ \A c \in DepCallbacks :
       /\ depPc[c] # "idle" => depTask[c] \in FloatDeposits
       /\ depPc[c] = "claim" => depResult[depTask[c]] = "paid"
       /\ depPc[c] = "fail" => depResult[depTask[c]] \in {"mismatched", "failed"}
================================================================================
