--------------------------- MODULE FloatDepositProofs ---------------------------
(***************************************************************************)
(* Proofs about FloatDeposit, for any number of deposits and of callbacks  *)
(* handled at once, with lost answers and any number of process stops.     *)
(***************************************************************************)
EXTENDS FloatDeposit, TLAPS

Inv == DepTypeOK /\ DepositInv

LEMMA InvInit == DepInit => Inv
BY DepositAssumption DEF DepInit, Inv, DepTypeOK, DepositInv, CreditedIsCollected, DepConfirmed,
   DepStatuses, DepDecided, DepRequests, DepReports

(* What one step does to the deposit a delivery works for.                 *)
LEMMA HandlerTask ==
  ASSUME Inv, NEW c \in DepCallbacks, depPc[c] # "idle"
  PROVE  depTask[c] \in FloatDeposits
BY DEF Inv, DepositInv

LEMMA InvNext == Inv /\ [DepNext]_depVars => Inv'
<1> SUFFICES ASSUME Inv, [DepNext]_depVars PROVE Inv'
  OBVIOUS
<1>1. DepTypeOK /\ DepositInv
  BY DEF Inv
<1> USE DepositAssumption DEF depRequestVars, depCallbackVars
<1>2. ASSUME UNCHANGED depVars PROVE Inv'
  BY <1>1, <1>2 DEF depVars, Inv, DepTypeOK, DepositInv, CreditedIsCollected, DepConfirmed
<1>3. ASSUME NEW d \in FloatDeposits, CreateDeposit(d) PROVE Inv'
  BY <1>1, <1>3 DEF CreateDeposit, Inv, DepTypeOK, DepositInv, CreditedIsCollected, DepConfirmed,
     DepStatuses, DepRequests
<1>4. ASSUME NEW d \in FloatDeposits, PushDepositStk(d) PROVE Inv'
  BY <1>1, <1>4 DEF PushDepositStk, Inv, DepTypeOK, DepositInv, CreditedIsCollected, DepConfirmed, DepRequests
<1>5. ASSUME NEW d \in FloatDeposits, RecordAnswer(d) PROVE Inv'
  BY <1>1, <1>5 DEF RecordAnswer, Inv, DepTypeOK, DepositInv, CreditedIsCollected, DepConfirmed,
     DepStatuses, DepDecided, DepRequests
<1>6. ASSUME NEW d \in FloatDeposits, CustomerResponds(d) PROVE Inv'
  <2>1. DepTypeOK'
    BY <1>1, <1>6 DEF CustomerResponds, DepTypeOK
  <2>2. depStatus[d] # "SUCCEEDED" /\ \A c \in DepCallbacks : depTask[c] = d => depPc[c] \in {"idle", "ack"}
    BY <1>1, <1>6 DEF CustomerResponds, DepTypeOK, DepositInv, CreditedIsCollected, DepConfirmed, DepReports
  <2>3. \A e \in FloatDeposits \ {d} : depResult'[e] = depResult[e]
    BY <1>1, <1>6 DEF CustomerResponds, DepTypeOK
  <2>4. CreditedIsCollected'
    BY <1>1, <1>6, <2>2, <2>3 DEF CustomerResponds, DepositInv, CreditedIsCollected, DepConfirmed
  <2> QED
    BY <1>1, <1>6, <2>1, <2>2, <2>3, <2>4 DEF CustomerResponds, Inv, DepositInv
<1>7. ASSUME NEW c \in DepCallbacks, NEW d \in FloatDeposits, ReceiveCallback(c, d) PROVE Inv'
  <2>1. DepTypeOK'
    BY <1>1, <1>7 DEF ReceiveCallback, DepTypeOK
  <2>2. depResult[d] \in DepReports
    BY <1>1, <1>7 DEF ReceiveCallback, DepTypeOK
  <2> QED
    BY <1>1, <1>7, <2>1, <2>2 DEF ReceiveCallback, Inv, DepTypeOK, DepositInv, CreditedIsCollected,
       DepConfirmed, DepReports
<1>8. ASSUME NEW c \in DepCallbacks, FailDeposit(c) PROVE Inv'
  BY <1>1, <1>8 DEF FailDeposit, Inv, DepTypeOK, DepositInv, CreditedIsCollected, DepConfirmed,
     DepStatuses, DepDecided
<1>9. ASSUME NEW c \in DepCallbacks, ClaimDeposit(c) PROVE Inv'
  <2>1. depTask[c] \in FloatDeposits /\ depResult[depTask[c]] = "paid"
    BY <1>1, <1>9 DEF ClaimDeposit, DepositInv
  <2> QED
    BY <1>1, <1>9, <2>1 DEF ClaimDeposit, Inv, DepTypeOK, DepositInv, CreditedIsCollected,
       DepConfirmed, DepStatuses, DepDecided
<1>10. ASSUME NEW c \in DepCallbacks, Acknowledge(c) PROVE Inv'
  <2>1. depTask[c] \in FloatDeposits
    BY <1>10, HandlerTask DEF Acknowledge
  <2> QED
    BY <1>1, <1>10, <2>1 DEF Acknowledge, Inv, DepTypeOK, DepositInv, CreditedIsCollected, DepConfirmed
<1>11. ASSUME DepCrash PROVE Inv'
  BY <1>1, <1>11 DEF DepCrash, Inv, DepTypeOK, DepositInv, CreditedIsCollected, DepConfirmed, DepRequests
<1> QED
  BY <1>2, <1>3, <1>4, <1>5, <1>6, <1>7, <1>8, <1>9, <1>10, <1>11 DEF DepNext, DepHandle

THEOREM InvInvariant == DepSpec => []Inv
<1> QED
  BY InvInit, InvNext, PTL DEF DepSpec

(* DepositTyping: a deposit keeps a status the balance knows how to count. *)
THEOREM DepositTyping == DepSpec => []DepTypeOK
<1>1. Inv => DepTypeOK
  BY DEF Inv
<1> QED
  BY <1>1, InvInvariant, PTL

(* CreditedIsCollected: at no time is the float credited with a deposit    *)
(* that Safaricom has not reported as paid in full.                        *)
THEOREM Collected == DepSpec => []CreditedIsCollected
<1>1. Inv => CreditedIsCollected
  BY DEF Inv, DepositInv
<1> QED
  BY <1>1, InvInvariant, PTL

(* FinalOnceAnswered: once the request has written its answer, callbacks   *)
(* that are repeated, or were past their check, change no final status.    *)
THEOREM AnsweredFinal == DepSpec => FinalOnceAnswered
<1>1. ASSUME Inv, DepNext, NEW d \in FloatDeposits, depRequest[d] = "done", depStatus[d] \in DepDecided
      PROVE  depStatus'[d] = depStatus[d]
  <2>1. DepTypeOK /\ DepositInv
    BY <1>1 DEF Inv
  <2>2. ASSUME NEW e \in FloatDeposits, CreateDeposit(e) \/ RecordAnswer(e) PROVE depStatus'[d] = depStatus[d]
    BY <1>1, <2>1, <2>2 DEF CreateDeposit, RecordAnswer, DepTypeOK
  <2>3. ASSUME NEW e \in FloatDeposits, PushDepositStk(e) \/ CustomerResponds(e) PROVE depStatus'[d] = depStatus[d]
    BY <2>3 DEF PushDepositStk, CustomerResponds
  <2>4. ASSUME NEW c \in DepCallbacks, FailDeposit(c) PROVE depStatus'[d] = depStatus[d]
    <3>1. depTask[c] = d => depStatus[d] # "SUCCEEDED"
      BY <2>1, <2>4 DEF FailDeposit, DepositInv, CreditedIsCollected, DepConfirmed
    <3> QED
      BY <1>1, <2>1, <2>4, <3>1 DEF FailDeposit, DepTypeOK, DepDecided
  <2>5. ASSUME NEW c \in DepCallbacks, ClaimDeposit(c) PROVE depStatus'[d] = depStatus[d]
    BY <1>1, <2>1, <2>5 DEF ClaimDeposit, DepTypeOK, DepDecided
  <2>6. ASSUME NEW c \in DepCallbacks, Acknowledge(c) PROVE depStatus'[d] = depStatus[d]
    BY <2>6 DEF Acknowledge
  <2>7. ASSUME NEW c \in DepCallbacks, NEW e \in FloatDeposits, ReceiveCallback(c, e)
        PROVE  depStatus'[d] = depStatus[d]
    BY <2>7 DEF ReceiveCallback
  <2>8. ASSUME DepCrash PROVE depStatus'[d] = depStatus[d]
    BY <2>8 DEF DepCrash
  <2> QED
    BY <1>1, <2>2, <2>3, <2>4, <2>5, <2>6, <2>7, <2>8 DEF DepNext, DepHandle
<1>2. Inv /\ [DepNext]_depVars =>
        [\A d \in FloatDeposits : depRequest[d] = "done" /\ depStatus[d] \in DepDecided
                               => depStatus'[d] = depStatus[d]]_depVars
  BY <1>1
<1> QED
  BY <1>2, InvInvariant, PTL DEF DepSpec, FinalOnceAnswered
================================================================================
