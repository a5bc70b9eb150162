----------------------------- MODULE Reconciliation -----------------------------
(***************************************************************************)
(* The hourly comparison of the books with the shared M-Pesa account: the  *)
(* scheduler sums the deposits and transfers, asks Safaricom for the       *)
(* account's balance, and a callback, minutes later, decides the row.      *)
(*                                                                         *)
(* Money moves meanwhile.  A deposit is in the account before its callback *)
(* books it, and a payout has left it before its result is booked.  What   *)
(* is paid out of a CASH amount is net of the platform fee and what is     *)
(* booked is all of it, so the fees stay in the account, in no sum.        *)
(* Amounts are units; the tolerance of 0.01 KES is below one.              *)
(***************************************************************************)
EXTENDS Integers, FiniteSets

CONSTANTS
  Reconciliations,  \* rows, one a run of the scheduler
  ReconHandlers,    \* deliveries of results and timeouts handled at once
  ReconAmount,      \* of a deposit and of a CASH leg
  ReconFee,         \* platform fee of a CASH leg
  MaxLedger,        \* bound on the balance
  MaxKept           \* bound on the fees retained

ASSUME ReconAssumption ==
  /\ Reconciliations # {}
  /\ ReconAmount \in Nat \ {0} /\ ReconFee \in Nat /\ ReconFee < ReconAmount
  /\ MaxLedger \in Nat /\ ReconAmount <= MaxLedger
  /\ MaxKept \in Nat

VARIABLES
  reconLedger,    \* SUCCEEDED deposits less SUCCEEDED transfers
  reconCredits,   \* paid in, not booked
  reconDebits,    \* paid out, not booked
  reconFees,      \* platform fees retained of the transfers that are booked
  reconRunning,   \* the scheduler's flag
  reconStatus,    \* status, "NONE" before the row exists
  reconExpected,  \* expectedBalance
  reconQuery,     \* how far the request is
  reconAsked,     \* queries Safaricom has taken in
  reconResult,    \* what Safaricom reports
  reconTimedOut,  \* queries it has also reported as timed out
  reconPc, reconTask, reconVerdict,  \* each delivery: step, row, what it will write
  reconQuiet,     \* history: nothing unbooked or moving between sum and report
  reconKept       \* history: reconFees when the sums were taken

reconBooks    == <<reconLedger, reconCredits, reconDebits, reconFees>>
reconDelivery == <<reconPc, reconTask, reconVerdict>>
reconSide     == <<reconAsked, reconResult, reconTimedOut>>
reconVars == <<reconBooks, reconRunning, reconStatus, reconExpected, reconQuery,
               reconSide, reconDelivery, reconQuiet, reconKept>>

Balances == 0..MaxLedger
Verdicts == {"MATCHED", "MISMATCH", "FAILED"}
NoReport == -2
Unusable == -1    \* an error code, or no parseable Working Account

(* Types.                                                                  *)
ReconTypeOK ==
  /\ reconLedger \in Balances
  /\ reconCredits \in Nat /\ reconDebits \in Nat /\ reconFees \in Nat
  /\ reconRunning \in BOOLEAN
  /\ reconStatus \in [Reconciliations -> Verdicts \cup {"NONE", "PENDING"}]
  /\ reconExpected \in [Reconciliations -> Balances]
  /\ reconQuery \in [Reconciliations -> {"new", "query", "accepted", "threw", "done"}]
  /\ reconAsked \in SUBSET Reconciliations
  /\ reconResult \in [Reconciliations -> Int]
  /\ reconTimedOut \in SUBSET Reconciliations
  /\ reconPc \in [ReconHandlers -> {"idle", "complete"}]
  /\ reconTask \in [ReconHandlers -> Reconciliations]
  /\ reconVerdict \in [ReconHandlers -> Verdicts]
  /\ reconQuiet \in SUBSET Reconciliations
  /\ reconKept \in [Reconciliations -> Nat]

ReconInit ==
  /\ reconLedger = ReconAmount /\ reconCredits = 0 /\ reconDebits = 0 /\ reconFees = 0
  /\ reconRunning = FALSE
  /\ reconStatus = [i \in Reconciliations |-> "NONE"]
  /\ reconExpected = [i \in Reconciliations |-> 0]
  /\ reconKept = [i \in Reconciliations |-> 0]
  /\ reconQuery = [i \in Reconciliations |-> "new"]
  /\ reconAsked = {} /\ reconTimedOut = {} /\ reconQuiet = {}
  /\ reconResult = [i \in Reconciliations |-> NoReport]
  /\ reconPc = [h \in ReconHandlers |-> "idle"]
  /\ reconTask = [h \in ReconHandlers |-> CHOOSE i \in Reconciliations : TRUE]
  /\ reconVerdict = [h \in ReconHandlers |-> "FAILED"]

--------------------------------------------------------------------------------
Account == reconLedger + reconCredits - reconDebits + reconFees

(* Rows whose sum has been taken and whose balance has not been read.      *)
Open == {i \in Reconciliations : reconQuery[i] # "new" /\ reconResult[i] = NoReport}

MoneyMoves ==
  /\ reconQuiet' = reconQuiet \ Open
  /\ UNCHANGED <<reconRunning, reconStatus, reconExpected, reconQuery, reconSide,
                 reconDelivery, reconKept>>

(* A retailer pays a deposit in; its callback books it.                    *)
PayIn ==
  /\ reconCredits = 0 /\ reconLedger + ReconAmount <= MaxLedger
  /\ reconCredits' = ReconAmount
  /\ UNCHANGED <<reconLedger, reconDebits, reconFees>>
  /\ MoneyMoves

BookDeposit ==
  /\ reconCredits > 0
  /\ reconCredits' = 0 /\ reconLedger' = reconLedger + reconCredits
  /\ UNCHANGED <<reconDebits, reconFees>>
  /\ MoneyMoves

(* A CASH leg is paid out of what is booked, less the platform fee, if it  *)
(* does not round to nothing; ...                                          *)
PayOut ==
  /\ reconDebits = 0 /\ reconLedger >= ReconAmount
  /\ reconFees + ReconFee <= MaxKept
  /\ \E fee \in {0, ReconFee} : reconDebits' = ReconAmount - fee
  /\ UNCHANGED <<reconLedger, reconCredits, reconFees>>
  /\ MoneyMoves

(* ... the last result debits all of it.                                   *)
BookTransfer ==
  /\ reconDebits > 0
  /\ reconDebits' = 0 /\ reconLedger' = reconLedger - ReconAmount
  /\ reconFees' = reconFees + (ReconAmount - reconDebits)
  /\ UNCHANGED reconCredits
  /\ MoneyMoves

--------------------------------------------------------------------------------
(* Nothing is on its way when the sums are taken.                          *)
Settled == reconCredits = 0 /\ reconDebits = 0

(* Mutant: the deposits asked for count as well as those confirmed.        *)
RequestReconciliationUnconfirmed(i) ==
  /\ ~reconRunning /\ reconQuery[i] = "new"
  /\ reconRunning' = TRUE
  /\ reconExpected' = [reconExpected EXCEPT ![i] = reconLedger + ReconAmount - reconCredits]
  /\ reconStatus' = [reconStatus EXCEPT ![i] = "PENDING"]
  /\ reconQuery' = [reconQuery EXCEPT ![i] = "query"]
  /\ reconQuiet' = IF Settled THEN reconQuiet \cup {i} ELSE reconQuiet
  /\ reconKept' = [reconKept EXCEPT ![i] = reconFees]
  /\ UNCHANGED <<reconBooks, reconSide, reconDelivery>>

(* The scheduler's hour: not while the last request is under way.          *)
Tick == ~reconRunning

(* One RepeatableRead transaction takes both sums; the row is created      *)
(* PENDING.                                                                *)
RequestReconciliation(i) ==
  /\ Tick /\ reconQuery[i] = "new"
  /\ reconRunning' = TRUE
  /\ reconExpected' = [reconExpected EXCEPT ![i] = reconLedger]
  /\ reconStatus' = [reconStatus EXCEPT ![i] = "PENDING"]
  /\ reconQuery' = [reconQuery EXCEPT ![i] = "query"]
  /\ reconQuiet' = IF Settled THEN reconQuiet \cup {i} ELSE reconQuiet
  /\ reconKept' = [reconKept EXCEPT ![i] = reconFees]
  /\ UNCHANGED <<reconBooks, reconSide, reconDelivery>>

(* queryBalance: accepted, or refused, or no answer, which may hide that   *)
(* Safaricom has taken the query in.                                       *)
QueryBalance(i) ==
  /\ reconQuery[i] = "query"
  /\ \E answer \in {"accepted", "threw"} :
       /\ reconQuery' = [reconQuery EXCEPT ![i] = answer]
       /\ \/ reconAsked' = reconAsked \cup {i}
          \/ answer = "threw" /\ reconAsked' = reconAsked
  /\ UNCHANGED <<reconBooks, reconRunning, reconStatus, reconExpected, reconResult,
                 reconTimedOut, reconDelivery, reconQuiet, reconKept>>

(* Mutant: the request's progress is stored as the row's status.           *)
RecordQueryVerbatim(i) ==
  /\ reconQuery[i] \in {"accepted", "threw"}
  /\ reconStatus' = [reconStatus EXCEPT ![i] = reconQuery[i]]
  /\ reconQuery' = [reconQuery EXCEPT ![i] = "done"]
  /\ reconRunning' = FALSE
  /\ UNCHANGED <<reconBooks, reconExpected, reconSide, reconDelivery, reconQuiet, reconKept>>

(* Accepted: the conversation ids are stored.  Else the catch writes       *)
(* FAILED by id, over whatever a callback has written.                     *)
RecordQuery(i) ==
  /\ reconQuery[i] \in {"accepted", "threw"}
  /\ reconStatus' = IF reconQuery[i] = "threw"
                      THEN [reconStatus EXCEPT ![i] = "FAILED"] ELSE reconStatus
  /\ reconQuery' = [reconQuery EXCEPT ![i] = "done"]
  /\ reconRunning' = FALSE
  /\ UNCHANGED <<reconBooks, reconExpected, reconSide, reconDelivery, reconQuiet, reconKept>>

--------------------------------------------------------------------------------
(* Safaricom reads the account, or cannot; it may also report a timeout.   *)
ReadAccount(i) ==
  /\ i \in reconAsked /\ reconResult[i] = NoReport
  /\ \E balance \in {Account, Unusable} :
       reconResult' = [reconResult EXCEPT ![i] = balance]
  /\ UNCHANGED <<reconBooks, reconRunning, reconStatus, reconExpected, reconQuery,
                 reconAsked, reconTimedOut, reconDelivery, reconQuiet, reconKept>>

TimeOut(i) ==
  /\ i \in reconAsked \ reconTimedOut
  /\ reconTimedOut' = reconTimedOut \cup {i}
  /\ UNCHANGED <<reconBooks, reconRunning, reconStatus, reconExpected, reconQuery,
                 reconAsked, reconResult, reconDelivery, reconQuiet, reconKept>>

Compare(i) ==
  IF reconResult[i] = Unusable THEN "FAILED"
  ELSE IF reconResult[i] = reconExpected[i] THEN "MATCHED" ELSE "MISMATCH"

(* handleCallback and handleTimeout read the row; a decided one is a       *)
(* duplicate.                                                              *)
Deliver(h, i, verdict) ==
  /\ reconPc[h] = "idle"
  /\ reconStatus[i] = "PENDING"
  /\ reconPc' = [reconPc EXCEPT ![h] = "complete"]
  /\ reconTask' = [reconTask EXCEPT ![h] = i]
  /\ reconVerdict' = [reconVerdict EXCEPT ![h] = verdict]
  /\ UNCHANGED <<reconBooks, reconRunning, reconStatus, reconExpected, reconQuery,
                 reconSide, reconQuiet, reconKept>>

HandleResult(h, i)  == reconResult[i] # NoReport /\ Deliver(h, i, Compare(i))
HandleTimeout(h, i) == i \in reconTimedOut /\ Deliver(h, i, "FAILED")

(* Mutant: the row is updated by id.                                       *)
CompleteUnguarded(h) ==
  /\ reconPc[h] = "complete"
  /\ reconStatus' = [reconStatus EXCEPT ![reconTask[h]] = reconVerdict[h]]
  /\ reconPc' = [reconPc EXCEPT ![h] = "idle"]
  /\ UNCHANGED <<reconBooks, reconRunning, reconExpected, reconQuery, reconSide,
                 reconTask, reconVerdict, reconQuiet, reconKept>>

(* complete: only a PENDING row is updated.                                *)
Complete(h) ==
  /\ reconPc[h] = "complete"
  /\ reconStatus' = [reconStatus EXCEPT ![reconTask[h]] =
                       IF @ = "PENDING" THEN reconVerdict[h] ELSE @]
  /\ reconPc' = [reconPc EXCEPT ![h] = "idle"]
  /\ UNCHANGED <<reconBooks, reconRunning, reconExpected, reconQuery, reconSide,
                 reconTask, reconVerdict, reconQuiet, reconKept>>

ReconRequest(i) == QueryBalance(i) \/ RecordQuery(i)

ReconNext ==
  \/ PayIn \/ BookDeposit \/ PayOut \/ BookTransfer
  \/ \E i \in Reconciliations :
       RequestReconciliation(i) \/ ReconRequest(i) \/ ReadAccount(i) \/ TimeOut(i)
  \/ \E h \in ReconHandlers, i \in Reconciliations : HandleResult(h, i) \/ HandleTimeout(h, i)
  \/ \E h \in ReconHandlers : Complete(h)

ReconSpec == ReconInit /\ [][ReconNext]_reconVars

--------------------------------------------------------------------------------
(* A MISMATCH means what the runbook says, that money has to be looked     *)
(* for, unless some was in flight when the sum was taken or moved before   *)
(* Safaricom read the account: then it means that platform fees have been  *)
(* retained, and whenever they have been there is no MATCHED.              *)
MismatchIsReal ==
  \A i \in reconQuiet :
    /\ reconStatus[i] = "MISMATCH" => reconKept[i] > 0
    /\ reconStatus[i] = "MATCHED" => reconKept[i] = 0

(* A verdict stands: late, repeated and racing callbacks and timeouts do   *)
(* not change it, only the request whose query got no usable answer does.  *)
VerdictStands ==
  [][\A i \in Reconciliations :
       reconStatus[i] \in Verdicts =>
         \/ reconStatus'[i] = reconStatus[i]
         \/ reconStatus'[i] = "FAILED" /\ reconQuery[i] = "threw"]_reconVars
================================================================================
