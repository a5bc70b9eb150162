---------------------------- MODULE ServicesProofs -----------------------------
(***************************************************************************)
(* Proofs about Reconciliation, WebhookDelivery and EscrowBank: for any    *)
(* number of hourly runs, deliveries, notifications, endpoints, attempts   *)
(* and collections handled at once; and about the six services of          *)
(* MCServices side by side.                                                *)
(***************************************************************************)
EXTENDS MCServices, AccessProofs, SettlementAmountsProofs, TLAPS

--------------------------------------------------------------------------------
(* Reconciliation, while money moves.                                      *)

(* One deposit and one payout at a time are on their way, within bounds.   *)
BooksInv ==
  /\ reconCredits \in {0, ReconAmount}
  /\ reconDebits \in {0, ReconAmount, ReconAmount - ReconFee}
  /\ reconCredits > 0 => reconLedger + ReconAmount <= MaxLedger
  /\ reconDebits > 0 => reconLedger >= ReconAmount

(* Nothing is known of a row before its request.                           *)
FreshInv ==
  \A i \in Reconciliations : reconQuery[i] = "new" =>
    /\ reconStatus[i] = "NONE"
    /\ i \notin reconQuiet /\ i \notin reconAsked /\ i \notin reconTimedOut
    /\ reconResult[i] = NoReport
    /\ \A h \in ReconHandlers : reconPc[h] = "complete" => reconTask[h] # i

(* What a verdict says of row i is so.                                     *)
Truthful(i, verdict) ==
  /\ verdict = "MISMATCH" => reconKept[i] > 0
  /\ verdict = "MATCHED" => reconKept[i] = 0

(* While nothing moves the account holds what was expected and the fees,   *)
(* and so does the report of it; no verdict on the way says otherwise.     *)
QuietInv ==
  \A i \in reconQuiet :
    /\ reconResult[i] = NoReport =>
         Settled /\ reconLedger = reconExpected[i] /\ reconFees = reconKept[i]
    /\ reconResult[i] \in {NoReport, Unusable, reconExpected[i] + reconKept[i]}
    /\ Truthful(i, reconStatus[i])
    /\ \A h \in ReconHandlers :
         reconPc[h] = "complete" /\ reconTask[h] = i => Truthful(i, reconVerdict[h])

ReconInv == ReconTypeOK /\ BooksInv /\ FreshInv /\ QuietInv

LEMMA ReconInvInit == ReconInit => ReconInv
<1> SUFFICES ASSUME ReconInit PROVE ReconInv
  OBVIOUS
<1>1. 0 \in Balances /\ ReconAmount \in Balances
  BY ReconAssumption DEF Balances
<1>2. reconTask \in [ReconHandlers -> Reconciliations]
  <2> DEFINE first == CHOOSE i \in Reconciliations : TRUE
  <2>1. first \in Reconciliations
    BY ReconAssumption
  <2>2. reconTask = [h \in ReconHandlers |-> first]
    BY DEF ReconInit
  <2> HIDE DEF first
  <2> QED
    BY <2>1, <2>2
<1>3. ReconTypeOK
  <2>1. /\ reconStatus \in [Reconciliations -> Verdicts \cup {"NONE", "PENDING"}]
        /\ reconVerdict \in [ReconHandlers -> Verdicts]
        /\ reconPc \in [ReconHandlers -> {"idle", "complete"}]
    BY DEF ReconInit, Verdicts
  <2>2. /\ reconExpected \in [Reconciliations -> Balances]
        /\ reconResult \in [Reconciliations -> Int]
        /\ reconLedger \in Balances /\ reconCredits \in Nat /\ reconDebits \in Nat
        /\ reconFees \in Nat /\ reconKept \in [Reconciliations -> Nat]
    BY <1>1 DEF ReconInit, NoReport
  <2> QED
    BY <1>2, <2>1, <2>2 DEF ReconInit, ReconTypeOK
<1>4. BooksInv /\ FreshInv /\ QuietInv
  BY ReconAssumption DEF ReconInit, BooksInv, FreshInv, QuietInv
<1> QED
  BY <1>3, <1>4 DEF ReconInv

(* Money moves only between the books and the account.                     *)
LEMMA MoneyStep ==
  ASSUME ReconInv, PayIn \/ BookDeposit \/ PayOut \/ BookTransfer
  PROVE  ReconInv'
<1> USE ReconAssumption DEF ReconInv, BooksInv, reconBooks, reconSide, reconDelivery,
        PayIn, BookDeposit, PayOut, BookTransfer, MoneyMoves
<1>1. ReconTypeOK'
  BY DEF ReconTypeOK, Balances
<1>2. BooksInv'
  BY DEF ReconTypeOK, Balances
<1>3. FreshInv'
  BY DEF FreshInv
<1>4. QuietInv'
  BY DEF QuietInv, Truthful, Settled, Open, ReconTypeOK, FreshInv
<1> QED
  BY <1>1, <1>2, <1>3, <1>4

LEMMA RequestStep ==
  ASSUME ReconInv, NEW i \in Reconciliations,
         RequestReconciliation(i) \/ QueryBalance(i) \/ RecordQuery(i)
  PROVE  ReconInv'
<1> USE DEF ReconInv, BooksInv, reconBooks, reconSide, reconDelivery
<1>1. CASE RequestReconciliation(i)
  <2>1. ReconTypeOK' /\ BooksInv'
    BY <1>1 DEF RequestReconciliation, ReconTypeOK
  <2>2. FreshInv'
    BY <1>1 DEF RequestReconciliation, FreshInv, ReconTypeOK
  <2>3. QuietInv'
    BY <1>1 DEF RequestReconciliation, QuietInv, Truthful, Settled, FreshInv, ReconTypeOK
  <2> QED
    BY <2>1, <2>2, <2>3
<1>2. CASE QueryBalance(i)
  <2>1. ReconTypeOK' /\ BooksInv'
    BY <1>2 DEF QueryBalance, ReconTypeOK
  <2>2. FreshInv'
    BY <1>2 DEF QueryBalance, FreshInv, ReconTypeOK
  <2>3. QuietInv'
    BY <1>2 DEF QueryBalance, QuietInv, Truthful, Settled
  <2> QED
    BY <2>1, <2>2, <2>3
<1>3. CASE RecordQuery(i)
  <2>1. ReconTypeOK' /\ BooksInv'
    BY <1>3 DEF RecordQuery, ReconTypeOK, Verdicts
  <2>2. FreshInv'
    BY <1>3 DEF RecordQuery, FreshInv, ReconTypeOK
  <2>3. QuietInv'
    BY <1>3 DEF RecordQuery, QuietInv, Truthful, Settled, ReconTypeOK
  <2> QED
    BY <2>1, <2>2, <2>3
<1> QED
  BY <1>1, <1>2, <1>3

LEMMA ReportStep ==
  ASSUME ReconInv, NEW i \in Reconciliations, ReadAccount(i) \/ TimeOut(i)
  PROVE  ReconInv'
<1> USE DEF ReconInv, BooksInv, reconBooks, reconSide, reconDelivery
<1>1. Account \in Int
  BY DEF Account, ReconTypeOK, Balances
<1>2. ReconTypeOK' /\ BooksInv'
  BY <1>1 DEF ReadAccount, TimeOut, ReconTypeOK, Unusable
<1>3. FreshInv'
  BY DEF ReadAccount, TimeOut, FreshInv, ReconTypeOK
<1>4. QuietInv'
  BY DEF ReadAccount, TimeOut, QuietInv, Truthful, Settled, ReconTypeOK, Account, Balances
<1> QED
  BY <1>2, <1>3, <1>4

LEMMA DeliveryStep ==
  ASSUME ReconInv, NEW h \in ReconHandlers,
         \/ Complete(h)
         \/ \E i \in Reconciliations : HandleResult(h, i) \/ HandleTimeout(h, i)
  PROVE  ReconInv'
<1> USE DEF ReconInv, BooksInv, reconBooks, reconSide, reconDelivery
<1>1. CASE Complete(h)
  <2>1. ReconTypeOK' /\ BooksInv'
    BY <1>1 DEF Complete, ReconTypeOK
  <2>2. FreshInv'
    BY <1>1 DEF Complete, FreshInv, ReconTypeOK
  <2>3. QuietInv'
    BY <1>1 DEF Complete, QuietInv, Truthful, Settled, ReconTypeOK
  <2> QED
    BY <2>1, <2>2, <2>3
<1>2. ASSUME NEW i \in Reconciliations, NEW verdict \in Verdicts, Deliver(h, i, verdict),
             i \in reconQuiet => Truthful(i, verdict)
      PROVE  ReconInv'
  <2>1. ReconTypeOK' /\ BooksInv'
    BY <1>2 DEF Deliver, ReconTypeOK
  <2>2. FreshInv'
    BY <1>2 DEF Deliver, FreshInv, ReconTypeOK
  <2>3. QuietInv'
    BY <1>2 DEF Deliver, QuietInv, Truthful, Settled, ReconTypeOK
  <2> QED
    BY <2>1, <2>2, <2>3
<1>3. ASSUME NEW i \in Reconciliations, HandleResult(h, i)
      PROVE  ReconInv'
  <2>1. Compare(i) \in Verdicts /\ (i \in reconQuiet => Truthful(i, Compare(i)))
    BY <1>3 DEF HandleResult, Compare, QuietInv, Truthful, Verdicts, ReconTypeOK, Balances
  <2> QED
    BY <1>2, <1>3, <2>1 DEF HandleResult
<1>4. ASSUME NEW i \in Reconciliations, HandleTimeout(h, i)
      PROVE  ReconInv'
  BY <1>2, <1>4 DEF HandleTimeout, Verdicts, Truthful
<1> QED
  BY <1>1, <1>3, <1>4

LEMMA ReconInvNext == ReconInv /\ [ReconNext]_reconVars => ReconInv'
<1>1. ASSUME ReconInv, UNCHANGED reconVars PROVE ReconInv'
  BY <1>1 DEF ReconInv, ReconTypeOK, BooksInv, FreshInv, QuietInv, Truthful, Settled, reconVars,
     reconBooks, reconSide, reconDelivery
<1> QED
  BY <1>1, MoneyStep, RequestStep, ReportStep, DeliveryStep DEF ReconNext, ReconRequest

--------------------------------------------------------------------------------
(* Every variable of the reconciliations keeps its type.                   *)
THEOREM ReconTyping == ReconSpec => []ReconTypeOK
<1>1. ReconInv => ReconTypeOK
  BY DEF ReconInv
<1> QED
  BY <1>1, ReconInvInit, ReconInvNext, PTL DEF ReconSpec

(* When no money is on its way from the sums to the report, a mismatch     *)
(* means retained fees, and retained fees are never reported as a match.   *)
THEOREM MismatchReal == ReconSpec => []MismatchIsReal
<1>1. ReconInv => MismatchIsReal
  BY DEF ReconInv, QuietInv, Truthful, MismatchIsReal
<1> QED
  BY <1>1, ReconInvInit, ReconInvNext, PTL DEF ReconSpec

(* A verdict stands, but for the request whose query got no answer.        *)
THEOREM Verdict == ReconSpec => VerdictStands
<1>1. ReconInv /\ [ReconNext]_reconVars =>
        [\A i \in Reconciliations :
           reconStatus[i] \in Verdicts =>
             \/ reconStatus'[i] = reconStatus[i]
             \/ reconStatus'[i] = "FAILED" /\ reconQuery[i] = "threw"]_reconVars
  <2> SUFFICES ASSUME ReconInv, ReconNext, NEW i \in Reconciliations,
                      reconStatus[i] \in Verdicts
               PROVE  \/ reconStatus'[i] = reconStatus[i]
                      \/ reconStatus'[i] = "FAILED" /\ reconQuery[i] = "threw"
    OBVIOUS
  <2> USE DEF ReconInv, ReconTypeOK, Verdicts
  <2>1. CASE PayIn \/ BookDeposit \/ PayOut \/ BookTransfer
    BY <2>1 DEF PayIn, BookDeposit, PayOut, BookTransfer, MoneyMoves
  <2>2. ASSUME NEW j \in Reconciliations,
               RequestReconciliation(j) \/ ReconRequest(j) \/ ReadAccount(j) \/ TimeOut(j)
        PROVE  \/ reconStatus'[i] = reconStatus[i]
               \/ reconStatus'[i] = "FAILED" /\ reconQuery[i] = "threw"
    BY <2>2 DEF RequestReconciliation, ReconRequest, QueryBalance, RecordQuery, ReadAccount,
       TimeOut, FreshInv
  <2>3. ASSUME NEW h \in ReconHandlers, NEW j \in Reconciliations,
               HandleResult(h, j) \/ HandleTimeout(h, j)
        PROVE  reconStatus'[i] = reconStatus[i]
    BY <2>3 DEF HandleResult, HandleTimeout, Deliver
  <2>4. ASSUME NEW h \in ReconHandlers, Complete(h)
        PROVE  reconStatus'[i] = reconStatus[i]
    BY <2>4 DEF Complete
  <2> QED
    BY <2>1, <2>2, <2>3, <2>4 DEF ReconNext
<1> QED
  BY <1>1, ReconInvInit, ReconInvNext, PTL DEF ReconSpec, VerdictStands

--------------------------------------------------------------------------------
(* Webhook delivery.                                                       *)

(* Attempts are counted, and made only to an endpoint.                     *)
TriesInv ==
  \A n \in Notifications :
    /\ hookPc[n] \in {"new", "settlement", "retailer", "payouts"} => hookTries[n] = 0
    /\ hookPc[n] \in {"post", "backoff"} => hookTries[n] < MaxTries
    /\ hookPc[n] \in {"payouts", "post", "backoff"} => hookTo[n] \in Endpoints

(* What is read comes after what is announced, in the order it is read.    *)
OrderInv ==
  \A n \in Notifications :
    /\ hookSince[n] <= hookVersion
    /\ hookPc[n] \in {"retailer", "payouts", "post", "backoff"} =>
         /\ hookSince[n] <= hookBody[n].settlement
         /\ hookBody[n].settlement <= hookVersion
    /\ hookPc[n] \in {"post", "backoff"} => hookBody[n].settlement <= hookBody[n].payouts

(* What has been received is the one message its event makes.              *)
ReceivedInv ==
  \A x \in hookReceived :
    /\ hookPc[x.event] \in {"post", "backoff", "done"}
    /\ x = Message(x.event)

HookInv == HookTypeOK /\ TriesInv /\ OrderInv /\ ReceivedInv /\ PayloadIsCurrent

LEMMA HookInvInit == HookInit => HookInv
<1> SUFFICES ASSUME HookInit PROVE HookInv
  OBVIOUS
<1>1. 0 \in Versions /\ 0 \in 0..MaxTries
  BY HookAssumption DEF Versions
<1>2. HookTypeOK
  BY <1>1 DEF HookInit, HookTypeOK, Bodies
<1>3. TriesInv /\ OrderInv /\ ReceivedInv /\ PayloadIsCurrent
  BY DEF HookInit, TriesInv, OrderInv, ReceivedInv, PayloadIsCurrent
<1> QED
  BY <1>2, <1>3 DEF HookInv

(* Updates, of the settlement or of the endpoint, are not read until they  *)
(* are made.                                                               *)
LEMMA UpdateStep ==
  ASSUME HookInv,
         UpdateSilently \/ ChangeEndpoint \/ \E n \in Notifications : Announce(n)
  PROVE  HookInv'
<1> USE HookAssumption DEF HookInv, hookMessage, HookGoto
<1>1. CASE UpdateSilently
  BY <1>1 DEF UpdateSilently, HookTypeOK, Versions, Bodies, TriesInv, OrderInv, ReceivedInv,
     Message, PayloadIsCurrent
<1>2. CASE ChangeEndpoint
  BY <1>2 DEF ChangeEndpoint, HookTypeOK, TriesInv, OrderInv, ReceivedInv, Message,
     PayloadIsCurrent
<1>3. ASSUME NEW n \in Notifications, Announce(n) PROVE HookInv'
  <2>1. hookVersion' \in Versions /\ hookVersion' = hookVersion + 1 /\ hookVersion \in Int
    BY <1>3 DEF Announce, HookTypeOK, Versions
  <2>2. HookTypeOK'
    BY <1>3, <2>1 DEF Announce, HookTypeOK
  <2>3. TriesInv' /\ OrderInv'
    BY <1>3, <2>1 DEF Announce, HookTypeOK, TriesInv, OrderInv, Versions, Bodies
  <2>4. \A x \in hookReceived : x.event # n
    BY <1>3 DEF Announce, ReceivedInv
  <2>5. ReceivedInv' /\ PayloadIsCurrent'
    BY <1>3, <2>4 DEF Announce, HookTypeOK, Messages, ReceivedInv, Message, PayloadIsCurrent
  <2> QED
    BY <2>2, <2>3, <2>5
<1> QED
  BY <1>1, <1>2, <1>3

(* Reading makes the message.                                              *)
LEMMA ReadStep ==
  ASSUME HookInv, NEW n \in Notifications,
         ReadEvent(n) \/ ResolveRetailer(n) \/ ReadPayouts(n)
  PROVE  HookInv'
<1> USE HookAssumption DEF HookInv, HookGoto
<1>1. \A x \in hookReceived : x.event \in Notifications /\ x.event # n
  BY DEF ReadEvent, ResolveRetailer, ReadPayouts, ReceivedInv, HookTypeOK, Messages
<1>2. CASE ReadEvent(n)
  <2>1. HookTypeOK'
    BY <1>2 DEF ReadEvent, HookTypeOK, Bodies
  <2>2. TriesInv' /\ OrderInv'
    BY <1>2 DEF ReadEvent, HookTypeOK, TriesInv, OrderInv, Versions, Bodies
  <2>3. ReceivedInv' /\ PayloadIsCurrent'
    BY <1>1, <1>2 DEF ReadEvent, HookTypeOK, ReceivedInv, Message, PayloadIsCurrent
  <2> QED
    BY <2>1, <2>2, <2>3
<1>3. CASE ResolveRetailer(n)
  <2>1. HookTypeOK' /\ TriesInv' /\ OrderInv'
    BY <1>3 DEF ResolveRetailer, HookTypeOK, TriesInv, OrderInv
  <2>2. ReceivedInv' /\ PayloadIsCurrent'
    BY <1>1, <1>3 DEF ResolveRetailer, HookTypeOK, ReceivedInv, Message, PayloadIsCurrent
  <2> QED
    BY <2>1, <2>2
<1>4. CASE ReadPayouts(n)
  <2>1. HookTypeOK'
    BY <1>4 DEF ReadPayouts, HookTypeOK, Bodies
  <2>2. TriesInv' /\ OrderInv'
    BY <1>4 DEF ReadPayouts, HookTypeOK, TriesInv, OrderInv, Versions, Bodies
  <2>3. ReceivedInv' /\ PayloadIsCurrent'
    BY <1>1, <1>4 DEF ReadPayouts, HookTypeOK, ReceivedInv, Message, PayloadIsCurrent
  <2> QED
    BY <2>1, <2>2, <2>3
<1> QED
  BY <1>2, <1>3, <1>4

(* Posting repeats it as it is.                                            *)
LEMMA PostStep ==
  ASSUME HookInv, NEW n \in Notifications, Post(n) \/ BackOff(n)
  PROVE  HookInv'
<1> USE HookAssumption DEF HookInv, HookGoto, hookMessage
<1>1. CASE Post(n)
  <2>1. hookReceived' = hookReceived \/ hookReceived' = hookReceived \cup {Message(n)}
    BY <1>1 DEF Post
  <2>2. Message(n) \in Messages /\ Message(n).event = n /\ Message(n).body = hookBody[n]
    BY <1>1 DEF Post, Message, Messages, HookTypeOK, TriesInv
  <2>3. hookTries[n] + 1 \in 0..MaxTries
    BY <1>1 DEF Post, HookTypeOK, TriesInv
  <2>4. HookTypeOK'
    BY <1>1, <2>1, <2>2, <2>3 DEF Post, HookTypeOK
  <2>5. TriesInv' /\ OrderInv'
    BY <1>1, <2>3 DEF Post, HookTypeOK, TriesInv, OrderInv
  <2>6. ReceivedInv'
    BY <1>1, <2>1, <2>2 DEF Post, HookTypeOK, ReceivedInv, Message, Messages
  <2>7. PayloadIsCurrent'
    BY <1>1, <2>1, <2>2 DEF Post, OrderInv, PayloadIsCurrent
  <2> QED
    BY <2>4, <2>5, <2>6, <2>7
<1>2. CASE BackOff(n)
  BY <1>2 DEF BackOff, HookTypeOK, TriesInv, OrderInv, ReceivedInv, Message, PayloadIsCurrent
<1> QED
  BY <1>1, <1>2

LEMMA HookInvNext == HookInv /\ [HookNext]_hookVars => HookInv'
<1>1. ASSUME HookInv, UNCHANGED hookVars PROVE HookInv'
  BY <1>1 DEF HookInv, HookTypeOK, TriesInv, OrderInv, ReceivedInv, Message, PayloadIsCurrent,
     hookVars
<1> QED
  BY <1>1, UpdateStep, ReadStep, PostStep DEF HookNext, Notify

--------------------------------------------------------------------------------
(* Every variable of the notifications keeps its type.                     *)
THEOREM HookTyping == HookSpec => []HookTypeOK
<1>1. HookInv => HookTypeOK
  BY DEF HookInv
<1> QED
  BY <1>1, HookInvInit, HookInvNext, PTL DEF HookSpec

(* All deliveries of an event are of one message.                          *)
THEOREM OneMessage == HookSpec => []OneMessagePerEvent
<1>1. HookInv => OneMessagePerEvent
  BY DEF HookInv, ReceivedInv, OneMessagePerEvent
<1> QED
  BY <1>1, HookInvInit, HookInvNext, PTL DEF HookSpec

(* No message shows less than the update it announces.                     *)
THEOREM PayloadCurrent == HookSpec => []PayloadIsCurrent
<1>1. HookInv => PayloadIsCurrent
  BY DEF HookInv
<1> QED
  BY <1>1, HookInvInit, HookInvNext, PTL DEF HookSpec

--------------------------------------------------------------------------------
(* The simulated bank.                                                     *)

(* A collection about to be recorded took its amount from a balance the    *)
(* row had when it was read; what another call wrote since does not matter. *)
HeldInv ==
  /\ bankRow # NoRow => bankRow \in bankHeld
  /\ \A c \in BankCalls :
       /\ bankPc[c] = "write" => bankView[c] \in bankHeld
       /\ bankPc[c] = "record" /\ bankWork[c] = "collect" =>
            bankAmount[c] + bankView[c] \in bankHeld

BankInv == BankTypeOK /\ HeldInv /\ CollectionWasCovered

LEMMA BankInvInit == BankInit => BankInv
<1>1. (CHOOSE a \in BankAmounts : TRUE) \in BankAmounts
  BY BankAssumption
<1> SUFFICES ASSUME BankInit PROVE BankInv
  OBVIOUS
<1>2. BankTypeOK
  BY <1>1 DEF BankInit, BankTypeOK
<1>3. HeldInv /\ CollectionWasCovered
  BY DEF BankInit, HeldInv, CollectionWasCovered
<1> QED
  BY <1>2, <1>3 DEF BankInv

(* A call that ends, one way or another, holds nothing any more.           *)
LEMMA BankDoneTypes ==
  ASSUME BankInv, NEW c \in BankCalls, BankDone(c)
  PROVE  /\ bankPc' \in [BankCalls -> {"idle", "upsert", "write", "record"}]
         /\ bankWork' \in [BankCalls -> {"collect", "seed", "refund"}]
         /\ bankAmount' \in [BankCalls -> BankAmounts]
         /\ bankView' \in [BankCalls -> Nat]
         /\ bankPc'[c] = "idle"
         /\ \A b \in BankCalls \ {c} :
              /\ bankPc'[b] = bankPc[b] /\ bankWork'[b] = bankWork[b]
              /\ bankAmount'[b] = bankAmount[b] /\ bankView'[b] = bankView[b]
<1>1. (CHOOSE a \in BankAmounts : TRUE) \in BankAmounts
  BY BankAssumption
<1> QED
  BY <1>1 DEF BankDone, BankInv, BankTypeOK

LEMMA BankInvNext == BankInv /\ [BankNext]_bankVars => BankInv'
<1> SUFFICES ASSUME BankInv, [BankNext]_bankVars PROVE BankInv'
  OBVIOUS
<1> USE BankAssumption DEF BankInv, BankTypeOK, HeldInv, CollectionWasCovered
<1> USE DEF bankAccount, bankRecords, bankCall, BankGoto, NoRow
<1>1. CASE UNCHANGED bankVars \/ SetFailureMode
  BY <1>1 DEF bankVars, SetFailureMode
<1>2. ASSUME NEW c \in BankCalls, NEW a \in BankAmounts,
             StartCollection(c, a) \/ StartSeed(c, a) \/ StartRefund(c, a)
      PROVE  BankInv'
  <2>1. PICK work \in {"collect", "seed", "refund"}, first \in Nat : Begin(c, work, a, first)
    BY <1>2 DEF StartCollection, StartSeed, StartRefund
  <2> QED
    BY <2>1 DEF Begin
<1>3. ASSUME NEW c \in BankCalls, UpsertAccount(c) PROVE BankInv'
  BY <1>3 DEF UpsertAccount
<1>4. ASSUME NEW c \in BankCalls, WriteDebit(c) PROVE BankInv'
  <2>3. bankView[c] \in Nat /\ bankAmount[c] \in Nat /\ bankPc[c] = "write" /\ bankWork[c] = "collect"
    BY <1>4 DEF WriteDebit
  <2>1. CASE bankView[c] >= bankAmount[c]
    <3>1. /\ bankRow' = bankView[c] - bankAmount[c] /\ bankRow' \in Nat
          /\ bankHeld' = bankHeld \cup {bankRow'}
          /\ bankView' = [bankView EXCEPT ![c] = bankRow']
          /\ bankPc' = [bankPc EXCEPT ![c] = "record"]
          /\ bankAmount[c] + bankRow' = bankView[c] /\ bankView[c] \in bankHeld
      BY <1>4, <2>3, <2>1 DEF WriteDebit
    <3>2. UNCHANGED <<bankWork, bankAmount, bankMemory, bankDown, bankDebits, bankCredits>>
      BY <1>4, <2>3, <2>1 DEF WriteDebit
    <3> QED
      BY <3>1, <3>2
  <2>2. CASE bankView[c] < bankAmount[c]
    <3>1. BankDone(c) /\ UNCHANGED <<bankRow, bankHeld, bankMemory, bankDown, bankRecords>>
      BY <1>4, <2>3, <2>2 DEF WriteDebit
    <3> QED
      BY <3>1, BankDoneTypes
  <2> QED
    BY <1>4, <2>1, <2>2 DEF WriteDebit
<1>5. ASSUME NEW c \in BankCalls, WriteCredit(c) PROVE BankInv'
  <2>1. bankView[c] \in Nat /\ bankAmount[c] \in Nat
    OBVIOUS
  <2>2. bankView[c] + bankAmount[c] \in Nat
    BY <2>1
  <2> QED
    BY <1>5, <2>2 DEF WriteCredit
<1>6. ASSUME NEW c \in BankCalls, RecordMovement(c) PROVE BankInv'
  <2>1. [amount |-> bankAmount[c], after |-> bankView[c]] \in Movements
    BY DEF Movements
  <2> QED
    BY <1>6, <2>1, BankDoneTypes DEF RecordMovement
<1>7. ASSUME NEW c \in BankCalls, FailCollection(c) \/ CreditMemory(c) PROVE BankInv'
  <2>1. bankMemory \in Nat /\ bankAmount[c] \in Nat
    OBVIOUS
  <2>2. bankMemory' \in Nat
    BY <1>7, <2>1 DEF FailCollection, CreditMemory
  <2>3. BankDone(c) /\ UNCHANGED <<bankRow, bankHeld, bankDown, bankRecords>>
    BY <1>7 DEF FailCollection, CreditMemory
  <2> QED
    BY <2>2, <2>3, BankDoneTypes
<1> QED
  BY <1>1, <1>2, <1>3, <1>4, <1>5, <1>6, <1>7 DEF BankNext

(* Typing: no balance of the simulated bank is negative.                   *)
THEOREM BankTyping == BankSpec => []BankTypeOK
<1>1. BankInv => BankTypeOK
  BY DEF BankInv
<1> QED
  BY <1>1, BankInvInit, BankInvNext, PTL DEF BankSpec

(* CollectionWasCovered: however calls interleave and fail, a collection   *)
(* that is recorded took its amount from a balance the account had.        *)
THEOREM Covered == BankSpec => []CollectionWasCovered
<1>1. BankInv => CollectionWasCovered
  BY DEF BankInv
<1> QED
  BY <1>1, BankInvInit, BankInvNext, PTL DEF BankSpec

--------------------------------------------------------------------------------
(* The services side by side.                                              *)

ServicesInv == ReconInv /\ HookInv /\ AcctInv /\ OnbInv /\ BankInv /\ AmtInv

LEMMA ServicesInvInit == ServicesInit => ServicesInv
  BY ReconInvInit, HookInvInit, AcctInvInit, OnbInvInit, BankInvInit, AmtInvInit
     DEF ServicesInit, ServicesInv

(* Every step of the six is a step, or none, of each.                      *)
LEMMA StepOfEach ==
  ASSUME [ServicesNext]_serviceVars
  PROVE  /\ [ReconNext]_reconVars /\ [HookNext]_hookVars /\ [AcctNext]_acctVars
         /\ [OnbNext]_onbVars /\ [BankNext]_bankVars /\ [AmtNext]_amtVars
<1>1. CASE ServicesNext
  BY <1>1, Zenon DEF ServicesNext
<1>2. CASE UNCHANGED serviceVars
  BY <1>2, Zenon DEF serviceVars
<1> QED
  BY <1>1, <1>2

LEMMA ServicesInvNext == ServicesInv /\ [ServicesNext]_serviceVars => ServicesInv'
  BY StepOfEach, ReconInvNext, HookInvNext, AcctInductive, OnbInvNext, BankInvNext, AmtInvNext,
     Zenon DEF ServicesInv

(* Types of all six, whichever runs.                                       *)
THEOREM ServicesTyping == ServicesSpec => []ServicesTypeOK
<1>1. ServicesInv => ServicesTypeOK
  BY DEF ServicesInv, ServicesTypeOK, ReconInv, HookInv, AcctInv, OnbInv, BankInv, AmtInv
<1> QED
  BY <1>1, ServicesInvInit, ServicesInvNext, PTL DEF ServicesSpec
================================================================================
