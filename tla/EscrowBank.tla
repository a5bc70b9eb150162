------------------------------- MODULE EscrowBank -------------------------------
(***************************************************************************)
(* The simulated escrow bank of development and test systems: the account  *)
(* of ONE retailer, seeded, collected from and refunded by calls that run  *)
(* at once.  Each call is three statements without a transaction: create   *)
(* the row if there is none, write the new balance, record the movement.   *)
(* Any of them may throw.  A seed or refund then goes to an account kept   *)
(* in memory; a collection is reported as successful all the same.         *)
(***************************************************************************)
EXTENDS Integers

CONSTANTS
  BankCalls,    \* requests handled at once
  BankAmounts,  \* amounts moved
  MaxBalance    \* bound on balances

ASSUME BankAssumption ==
  BankAmounts \subseteq Nat \ {0} /\ BankAmounts # {} /\ MaxBalance \in Nat

VARIABLES
  bankRow,      \* the row's balance, NoRow before it exists
  bankMemory,   \* balance of the account in memory
  bankDown,     \* is a failure mode set?
  bankDebits,   \* recorded collections: amount and balanceAfter
  bankCredits,  \* recorded deposits and refunds, likewise
  bankHeld,     \* history: balances the row has had
  bankPc, bankWork, bankAmount,  \* each call: step, kind, amount
  bankView      \* the balance it has read or, before, that of a new row

bankAccount == <<bankRow, bankMemory, bankHeld>>
bankRecords == <<bankDebits, bankCredits>>
bankCall    == <<bankWork, bankAmount>>
bankVars    == <<bankAccount, bankDown, bankRecords, bankPc, bankCall, bankView>>

NoRow     == -1
Movements == [amount : BankAmounts, after : Nat]

(* Types.                                                                  *)
BankTypeOK ==
  /\ bankRow \in Nat \cup {NoRow}
  /\ bankMemory \in Nat
  /\ bankDown \in BOOLEAN
  /\ bankDebits \in SUBSET Movements /\ bankCredits \in SUBSET Movements
  /\ bankHeld \in SUBSET Nat
  /\ bankPc \in [BankCalls -> {"idle", "upsert", "write", "record"}]
  /\ bankWork \in [BankCalls -> {"collect", "seed", "refund"}]
  /\ bankAmount \in [BankCalls -> BankAmounts]
  /\ bankView \in [BankCalls -> Nat]

BankInit ==
  /\ bankRow = NoRow /\ bankMemory = 0 /\ bankHeld = {}
  /\ bankDown = FALSE
  /\ bankDebits = {} /\ bankCredits = {}
  /\ bankPc = [c \in BankCalls |-> "idle"]
  /\ bankWork = [c \in BankCalls |-> "collect"]
  /\ bankAmount = [c \in BankCalls |-> CHOOSE a \in BankAmounts : TRUE]
  /\ bankView = [c \in BankCalls |-> 0]

--------------------------------------------------------------------------------
BankGoto(c, step) ==
  /\ bankPc' = [bankPc EXCEPT ![c] = step]
  /\ UNCHANGED bankCall

(* A call ends; what it had in hand is forgotten.                          *)
BankDone(c) ==
  /\ bankPc' = [bankPc EXCEPT ![c] = "idle"]
  /\ bankWork' = [bankWork EXCEPT ![c] = "collect"]
  /\ bankAmount' = [bankAmount EXCEPT ![c] = CHOOSE a \in BankAmounts : TRUE]
  /\ bankView' = [bankView EXCEPT ![c] = 0]

Begin(c, work, amount, first) ==
  /\ bankPc' = [bankPc EXCEPT ![c] = "upsert"]
  /\ bankWork' = [bankWork EXCEPT ![c] = work]
  /\ bankAmount' = [bankAmount EXCEPT ![c] = amount]
  /\ bankView' = [bankView EXCEPT ![c] = first]
  /\ UNCHANGED <<bankAccount, bankDown, bankRecords>>

(* getCustomerEscrowBalance: the row, or what memory holds if there is     *)
(* none or it cannot be read.                                              *)
ReadBalances == (IF bankRow = NoRow THEN {} ELSE {bankRow}) \cup {bankMemory}

(* simulateCollection of CASH: no failure mode blocks it and the balance   *)
(* covers it.                                                              *)
Collectable(amount) == ~bankDown /\ \E balance \in ReadBalances : balance >= amount

(* A row that has to be created holds what memory holds, that of a seed    *)
(* the amount seeded.                                                      *)
StartCollection(c, amount) ==
  bankPc[c] = "idle" /\ Collectable(amount) /\ Begin(c, "collect", amount, bankMemory)

StartSeed(c, amount)   == bankPc[c] = "idle" /\ Begin(c, "seed", amount, amount)
StartRefund(c, amount) == bankPc[c] = "idle" /\ Begin(c, "refund", amount, bankMemory)

SetFailureMode ==
  /\ bankDown' = ~bankDown
  /\ UNCHANGED <<bankAccount, bankRecords, bankPc, bankCall, bankView>>

UpsertAccount(c) ==
  /\ bankPc[c] = "upsert"
  /\ bankRow' = IF bankRow = NoRow THEN bankView[c] ELSE bankRow
  /\ bankHeld' = bankHeld \cup {bankRow'}
  /\ bankView' = [bankView EXCEPT ![c] = bankRow']
  /\ BankGoto(c, "write")
  /\ UNCHANGED <<bankMemory, bankDown, bankRecords>>

(* Mutant: the row's balance is not compared a second time.                *)
WriteDebitUnchecked(c) ==
  /\ bankPc[c] = "write" /\ bankWork[c] = "collect"
  /\ bankRow' = IF bankView[c] > bankAmount[c] THEN bankView[c] - bankAmount[c] ELSE 0
  /\ bankHeld' = bankHeld \cup {bankRow'}
  /\ bankView' = [bankView EXCEPT ![c] = bankRow']
  /\ BankGoto(c, "record")
  /\ UNCHANGED <<bankMemory, bankDown, bankRecords>>

(* persistCollectionToDatabase compares the row's balance with the amount  *)
(* once more and writes what remains.                                      *)
WriteDebit(c) ==
  /\ bankPc[c] = "write" /\ bankWork[c] = "collect"
  /\ \/ /\ bankView[c] >= bankAmount[c]
        /\ bankRow' = bankView[c] - bankAmount[c]
        /\ bankHeld' = bankHeld \cup {bankRow'}
        /\ bankView' = [bankView EXCEPT ![c] = bankRow']
        /\ BankGoto(c, "record")
     \/ /\ bankView[c] < bankAmount[c]
        /\ UNCHANGED <<bankRow, bankHeld>>
        /\ BankDone(c)
  /\ UNCHANGED <<bankMemory, bankDown, bankRecords>>

WriteCredit(c) ==
  /\ bankPc[c] = "write" /\ bankWork[c] # "collect"
  /\ bankView[c] + bankAmount[c] <= MaxBalance
  /\ bankRow' = bankView[c] + bankAmount[c]
  /\ bankHeld' = bankHeld \cup {bankRow'}
  /\ bankView' = [bankView EXCEPT ![c] = bankRow']
  /\ BankGoto(c, "record")
  /\ UNCHANGED <<bankMemory, bankDown, bankRecords>>

RecordMovement(c) ==
  /\ bankPc[c] = "record"
  /\ LET movement == {[amount |-> bankAmount[c], after |-> bankView[c]]}
     IN  IF bankWork[c] = "collect"
           THEN bankDebits' = bankDebits \cup movement /\ UNCHANGED bankCredits
           ELSE bankCredits' = bankCredits \cup movement /\ UNCHANGED bankDebits
  /\ BankDone(c)
  /\ UNCHANGED <<bankAccount, bankDown>>

(* A statement throws.  What has been written stays.                       *)
FailCollection(c) ==
  /\ bankPc[c] # "idle" /\ bankWork[c] = "collect"
  /\ BankDone(c)
  /\ UNCHANGED <<bankAccount, bankDown, bankRecords>>

CreditMemory(c) ==
  /\ bankPc[c] # "idle" /\ bankWork[c] # "collect"
  /\ bankMemory + bankAmount[c] <= MaxBalance
  /\ bankMemory' = bankMemory + bankAmount[c]
  /\ BankDone(c)
  /\ UNCHANGED <<bankRow, bankHeld, bankDown, bankRecords>>

BankNext ==
  \/ \E c \in BankCalls, a \in BankAmounts :
       StartCollection(c, a) \/ StartSeed(c, a) \/ StartRefund(c, a)
  \/ \E c \in BankCalls :
       \/ UpsertAccount(c) \/ WriteDebit(c) \/ WriteCredit(c) \/ RecordMovement(c)
       \/ FailCollection(c) \/ CreditMemory(c)
  \/ SetFailureMode

BankSpec == BankInit /\ [][BankNext]_bankVars

--------------------------------------------------------------------------------
(* A recorded collection took its amount from a balance the account really *)
(* had: the check made before the row is written covers for the one made   *)
(* on a balance that is stale, or memory's, by then.                       *)
CollectionWasCovered ==
  \A m \in bankDebits : m.amount + m.after \in bankHeld
================================================================================
