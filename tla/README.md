# A TLA+ model of the PayAssure settlement engine

PayAssure takes a sale of a retailer, collects what the customer owes (M-Pesa STK push, or CASH the retailer has taken
at the till), splits it between suppliers, retailer and platform, and pays the recipients out of a central M-Pesa
account. A CASH leg is money PayAssure never saw: it is covered by a *virtual balance* the retailer has deposited
beforehand. The engine is a NestJS process over PostgreSQL (Prisma, isolation READ COMMITTED) that talks to Safaricom,
whose answers come back later as HTTP callbacks: late, repeated, out of order or never.

This directory holds TLA+ modules for the parts of it where money can be lost, counted twice or stuck, the TLC
configurations that check them on small instances, and TLAPS proofs of what matters most for instances of any size.
`PROJECT.json` maps every definition to the source lines it stands for.

## 1. Inventory

Paths are under `src/src/`. "Hard" names the behaviour that tests hardly reach.

| component | state | operations | interacts with | hard | correct means |
|---|---|---|---|---|---|
| **CASH ledger and escrow transfers** `retailer/services/{balance,transfer}`, `retailer-escrow-float.service.ts`, `settlement/.../start-live-escrow-balance-check.ts`, `payment/.../start-mixed-cash-escrow.ts` | `RetailerEscrowFloat.activeTransferId`, `RetailerEscrowTransfer.status/mpesaStatus`, settlement status, `metadata.escrowFunding.payoutSource` | admit a CASH leg, standalone transfer, balance callback, STK funding, B2B transfer, its callbacks and timeout, debit | called by settlement initiation and STK callbacks; debited by payout callbacks; B2B and STK calls to Safaricom | concurrent admissions, three sums in three snapshots, read-then-write callbacks, stale metadata, lost answers, crashes | admission never over-commits; money moved stays in the ledger; no reservation is stranded; every transfer ends |
| **Float deposits** `retailer/services/deposit` | `RetailerEscrowFloatDeposit.status` | initiate, callback | balance sums read SUCCEEDED deposits; STK push | callback before the answer, repeated callbacks, lost answers | credited once, only what was collected |
| **Payouts** `settlement/service-operations/{allocation,payout-dispatch,payout-callback,gateway-request,retry-management}`, `settlement/services/{idempotency,retry,retry-scheduler}-operations` | `B2BPayoutAttempt` (status, attemptCount, nextRetryAt), `metadata.splitRecords/dispatches` | split, dispatch, manual retry, scheduled retry, result callback, CASH debit | debits the CASH leg; B2C/B2B calls | concurrent dispatchers and deliveries, unconditional writes, lost answers, retry limit | debited only when all are paid; paid once; retried, and not for ever |
| **Escrow reconciliation** `retailer/services/reconciliation` | `RetailerEscrowReconciliation.status`, expected and observed balance | request, callback, timeout, hourly schedule | reads both sums (REPEATABLE READ); account balance query | catch that overwrites a final status; balance that moves during the query | a stored result is final; no false match |
| **Settlement initiation** `settlement/operations/initiate*` | `Settlement` (unique reference, status, metadata), supplier child rows | initiate, track, reconcile | starts STK push or CASH leg | same reference twice at once; status and metadata written by several handlers from old copies; unordered lookups | a repetition is recognised; a split follows the money |
| **Settlement amounts** `settlement/operations/initiate/helpers` | none | group items, fees, totals, rounding | used by initiation | rounding | parts add up to the total |
| **STK collection** `payment/services/payment-record.service.ts`, `mpesa-operations/stk-operations.base.ts`, `payment/controllers/callback-operations` | `MpesaTransaction.status` | push, callback, query | starts the mixed CASH leg and the split | answer written over a callback's result, two pushes of one sale | a payment leads to a split, a decline is recorded |
| **Payment confirmation** `settlement/service-operations/payment-{confirmation,callback,validation}.base.ts` | settlement status, metadata | confirm, gate of a dispatch | dispatches payouts | read-then-write of the status, a gate that asks any row | dispatched after payment |
| **Merchant webhooks** `settlement/services/settlement-webhook-delivery.service.ts` | none persisted | notify with three tries | after most settlement events | timeouts, reordering, process stop | copies of an event are one message; it is never older than its cause; the caller gets on |
| **Sessions** `settlement/helpers/session.helpers.ts` | `SettlementSession` | authenticate, validate, touch | precedes initiation | expiry between check and use | only live sessions are accepted |
| **Accounts** `auth/` | user, refresh token version, reset codes | register, login, refresh, logout, reset, deactivate | guards the API | two uses of one refresh token, racing uses of a code, partial reset | what is void stays void; a code works once |
| **Onboarding** `onbordings/` | participant, integration, payment destination | create, update, API keys, activate payment | payouts read the destinations | read-then-write of JSON and of derived status | a destination is verified by its own secret |
| **Escrow intelligence** `escrow-intelligence/` | mock bank balance, expected transactions | seed, collect, refund, reconcile | none in production paths | balance checked twice, lost updates, two copies of an account | a collection came out of a balance there was |
| **M-Pesa client; KCB, Equity, Co-op clients; supplier directory; application shell** | none to speak of | I/O | - | - | - |

## 2. Modules

| module | what it is |
|---|---|
| `EscrowFloat` | the virtual balance of one retailer and the transfers that draw on it |
| `FloatLedger` | abstract specification: what that ledger promises (credit, reserve, debit) |
| `EscrowFloatProofs` | proofs about `EscrowFloat`, including that it implements `FloatLedger` |
| `EscrowFloatOverlapProofs` | proofs of what `EscrowFloat` promises of a transfer that no two handlers work on at once |
| `FloatDeposit`, `FloatDepositProofs` | the life of float deposits, and proofs about it |
| `Payouts`, `PayoutsProofs` | the payouts of one settlement, and proofs about them |
| `Settlement`, `SettlementProofs` | the settlements of one merchant reference, and proofs about them |
| `Reconciliation` | the comparison of the books with the M-Pesa account |
| `WebhookDelivery` | the events of one settlement on their way to the retailer |
| `Accounts` | one user account, its tokens and one-time codes |
| `Onboarding` | one participant, its payment destination and API keys |
| `EscrowBank` | one account of the simulated bank |
| `SettlementAmounts`, `SettlementAmountsProofs` | what becomes of the amounts of one request, and proofs about it |
| `AccessProofs` | proofs about `Accounts` and `Onboarding` |
| `ServicesProofs` | proofs about `Reconciliation`, `WebhookDelivery` and `EscrowBank`, and about all six services side by side |
| `MCServices` | the six services side by side, of which the initial state chooses one to run |
| `MCEscrowFloat` | amounts of a small float, and the bounds of its runs |
| `MCPlatform` | the float under two handlers, or one of `MCServices`' services |
| `MCProgress` | the webhook delivery, the deposits, or the float under one handler, with fairness |
| `MCPayouts`, `MCSettlement` | two corners each of `Payouts` and `Settlement` |

### EscrowFloat

One retailer, because float, balance and admission are per retailer. A *handler* is a request or callback in progress;
every `await` that reads or writes shared state is a step boundary, so a handler's program counter `pc` walks through
the code's statements. `task` is the transfer it works on.

* Transfers differ in how they begin and are disjoint sets of constants: plain CASH legs, CASH legs started by the STK
  callback of a mixed settlement (`Collected`), `Standalone` transfers, and `Legacy` rows. Mixed transfers
  (`mpesaAmount > 0`) exist only among the legacy rows: no present caller of `startForSettlement` passes an M-Pesa
  amount, while the callbacks that serve such rows are all still there. `Collected` legs need a callback whose body
  names the settlement's internal reference: that is what `startMixedCashEscrowAfterMpesa` looks it up by, while the
  payment record has the merchant's (a mixed settlement's CASH is not reserved otherwise, see the finding
  `settlement_mixed`).
* `ClaimFloat`, `SumPaid`, `SumReserved`, `CreateTransfer`/`RejectTransfer` are the statements of one transaction. The
  claim locks the float row until the transaction ends; each sum is a statement with a snapshot of its own (Prisma
  runs the aggregates of one interactive transaction on one connection, in array order: deposits, debited, reserved).
  The deposit sum is read right after the claim; merging the two hides nothing, since what a later read would add only
  enlarges it.
* `Call` is any request to Safaricom: it may not arrive; if it does, its answer may be lost (`Lossy`), and the code
  then takes its catch. What Safaricom will report stays in `results` for ever, so a callback may come late,
  repeatedly or never.
* After the commit, outside the transaction, `RecordPayoutSource` marks the settlement's metadata. It, the insert
  before it and the last write of a collected leg may fail (`Faulty`); the exception reaches the catch of the caller,
  `FailSettlement`, which writes the settlement FAILED, with the metadata it read at the start, and leaves a committed
  reservation as it is.
* The settlement service writes the same row: confirmations, splits, dispatches and payout callbacks each read it
  (`ReadSettlement`) and later write it back (`WriteSettlement`) with its metadata as they were read, so with or
  without `payoutSource` (`writeKept`, `writeBare`), and with a status that is FAILED after a failed payment or
  payout. The transfer is not looked at, so a FAILED settlement may well hold a reservation, as
  `CASH_SETTLEMENT_FLOW.md:287` says of failed payouts.
* `Crash` loses all handlers and rolls the open transaction back.
* `credited`, `slipped` and `b2bSent` are history: nothing in the code reads them.
* `ForgetDeposit` lets a confirmed deposit drop out again, because the deposit's request may write over `SUCCEEDED`
  (see `FloatDeposit`); it allows more than that code does.
* Amounts: `Total` is what SQL's SUM returns on a set of rows; the only thing assumed is that it is additive over
  disjoint sets (`TotalAssumption`), so the proofs need no recursion.

Left out: `escrowStatus` in the metadata (written, never read back; all `TransferTimeout` does is write it), the final
update of `fundingPlan.cashStatus`, and the configuration of the float row.

### FloatLedger

`Credit`, `Reserve`, `Debit` over sets. Its `Reserve` requires that everything held plus the new leg is covered by
what was credited *plus the legs in `slack`*: those debited while an admission was reading its sums. That exception is
the most the code delivers; see the finding `float_overdraft`.

### FloatDeposit

One deposit has one request (`CreateDeposit`, `PushStk`, `RecordAnswer`), one STK push and any number of callback
deliveries (`ReceiveCallback`, then `FailDeposit` or `ClaimDeposit`, `Acknowledge`); variables begin with `dep`.
`CustomerResponds` is the environment: one push has one result, so a success *and* a failure of one deposit are not in
the model. Amounts are abstracted to whether the report carries the full amount. `MaxDepCrashes` bounds the process
stops.

### Payouts

One settlement whose CASH leg has been admitted and whose `payoutSource` is written (that is `Init`; `EscrowFloat`
models how it gets there). *Workers* are requests that dispatch (a split, a dispatch, a manual retry), `Scheduler` is
the retry timer, which `isRunning` keeps from running twice in one process, and *callbacks* are deliveries of
Safaricom's results.

* The settlement's metadata is one JSON column that everybody reads at the start and writes back whole at the end:
  `view` holds what each dispatcher or delivery has read, `WriteMetadata` writes it back. Of its content the model
  keeps what later code looks for: the split record (`Split`) and the dispatch record of a bank payout.
* `CheckSettlement`, `CheckAttempts` and `Debit` are the three stages of `finalizeDirectCashLedger`. The metadata and
  the transfer are read in one step, as the transfer changes only once.
* `due` says that `nextRetryAt` is set, `earlier` which of two comes first. The delay grows with the tries and is
  random in part, so `Reschedule` inserts anywhere; that it has passed is left to the scheduler's fairness.
  `ProcessRetries` takes what is FAILED or RETRYING and has fewer than `BatchSize` (10 in the code) before it. A
  payout that is given up keeps its `nextRetryAt`, hence its place in the queue.
* `Bank` payouts go by B2B, whose result carries no payout reference: `ReceiveResult` finds the settlement through the
  dispatch record, and no attempt.
* Outside the model: the webhook events sent along the way, amounts and recipients, other gates of a dispatch (the
  settlement is already `PENDING_PROCESSING`), the other settlements whose payouts stand in the same queue, crashes
  and failing writes between the mark of an attempt and the debit, and a second process, whose scheduler would run
  beside the first.

### Settlement

All rows that one merchant reference leads to: a primary per initiation request, and one supplier child, whose
reference is unique and made from the merchant's. A request walks through `initiateOperation` (`FindExisting` ..
`CreateChildren`); a *handler* is a delivery of an STK result, a payment callback, a confirmation or a dispatch.

* Lookups by the merchant's reference use `findFirst` without an order over columns that all these rows match, so
  `FindSettlement`, `ReportPayment` and `Dispatch` take any of them.
* Writes are by id, unconditional, of the status and the whole metadata column. `view` is a handler's copy; a
  request's copy is `OwnCopy`: it never holds the tag `originalMerchantReference`, which `createSettlement` adds to
  the row only.
* Of the metadata the model keeps what is read back: that tag, `fundingPlan.mpesaStatus`, `escrowFunding.payoutSource`
  (`source`), a recorded success, the split.
* `AdmitCash` reserves, `ReadSource` and `WriteSource` then merge `payoutSource` into the metadata in two statements;
  an error in between fails the initiation (`RejectCash`) with the amount reserved. A writer that read before and
  writes after drops it.
* `Funded` is the gate of `splitAndAllocateFunds`: a row with a transfer is split if the copy in hand has
  `payoutSource`, or once the transfer has succeeded, which is after payouts; otherwise, or while the plan waits for
  the customer, `PostponeSplit` returns. A row without a transfer passes, which is what mixed settlements are:
  `StartMixedEscrow` looks for an internal reference among rows that it is given the merchant's for (`s = Reference`
  holds of none) and returns.
* Each push has its own record; the answer of a call (`Answers`) is accepted, refused, a network error, which alone is
  tried again, or an HTTP error, after either of which the customer may have been asked.
* A callback only goes on to the split or to recording the failure; payouts are reduced to the set `dispatched`.
* `vouched` is history: someone else, by confirmation, payment callback or reconcile, has said that it is paid.

A mixed payment of a retailer without a float row, which fails at once, and the requests of other references are left
out.

### Services

`MCServices` holds six modules whose variables are disjoint; prefixes keep them apart.

* `Reconciliation`: one row per run of the scheduler. `reconLedger` is the books, `reconCredits` and `reconDebits`
  what has moved but is not booked; `Account` is what Safaricom sees. `PayOut` pays a CASH leg net of the platform
  fee, `BookTransfer` debits all of it, so the fee stays in the account and in no sum: `reconFees`; `reconKept` is
  what it was at the sum (history). `RequestReconciliation` sums, `QueryBalance` asks, `RecordQuery` is the rest of
  the request with its catch; deliveries read the row and `Complete` writes it if it is still PENDING. `reconQuiet` is
  history: no money was in flight or moved between sum and report.
* `WebhookDelivery`: `hookVersion` counts updates; a message is an event with the versions it shows. `ReadEvent`,
  `ResolveRetailer`, `ReadPayouts` are `notify`'s reads, `Post` one attempt of `deliver`. A post without an answer in
  five seconds counts as received ("silent"), one that fails as not.
* `Accounts`: a token is the version it carries and, as history, the password of the login it goes back to through
  however many refreshes, and whether one of them `raced`: found at its increment another version than it had checked.
  Every statement of refresh, logout and reset is a step; `FailUserWrite` is a failing one.
* `Onboarding`: a destination stands for a submission, since each draws its own secret. `onbView` is what a call has
  read before it writes the column, the status or an integration.
* `EscrowBank`: the row and the account in memory; `bankView` is the balance a call goes by. `bankHeld` is history.
* `SettlementAmounts`: amounts in cents. Doubles are modelled by what they may do: an exact half rounds either way
  (`up`), and sums that differ by one cent may or may not count as equal. Canonical requests are grouped and charged
  the fee, legacy requests bring groups, of any number of items, and amounts and fees of their own (constants); both
  are validated, filtered and aggregated. Each loop of the code is a function of the length of the prefix it has seen
  (`PartialSums`, `Maps`, `Filters`), whose last value is its result.

### How the modules meet

`FinalizeDirectCash` in `EscrowFloat` is the whole of `CheckSettlement` .. `Debit` in `Payouts` seen from the ledger:
`Payouts` shows when it happens, `EscrowFloat` what it does to the balance, and both use the same guard
(`payoutSource`, `BALANCE_VERIFIED`). `ConfirmDeposit` and `ForgetDeposit` are `ClaimDeposit` and `RecordAnswer` of
`FloatDeposit` seen from the ledger. `AdmitCash` .. `RejectCash` of `Settlement` are `EscrowFloat`'s admission of a
`Central` leg, seen from the row; `ReadSettlement` and `WriteSettlement` of `EscrowFloat` are all the writes of
`Settlement`'s handlers and of `Payouts`, seen from the leg. `RecordSplit` is `Payouts`' `RecordSplit`, and `Dispatch`
is where a `Payouts` worker begins; `Payouts` starts where `Settlement`'s gate has opened. `BookDeposit` and
`BookTransfer` of `Reconciliation` are `ClaimDeposit` and `Debit`. The modules are checked apart: a product of them is
out of TLC's reach. Where a run holds several, its initial state chooses one (`part`, `service`) and the others stand
still.

## 3. Runs

| run | question | instance |
|---|---|---|
| `platform` | is the ledger sound whatever handlers, crashes, failing statements and lost answers do? and does each of the six services keep what it promises? | float: 2 handlers; a CASH leg, a collected leg, a legacy mixed transfer; one deposit. Services: 2 calls, deliveries or notifications each |
| `progress` | does what has begun end: a notification, a deposit, a transfer and an admission of each kind when nothing fails? | 1 notification; 2 deposits, 2 deliveries, lost answers, 1 stop; float: 1 handler, all four kinds, with the settlement's other writers |
| `payouts` | is the CASH leg debited when, and only when, all is paid? are retries bounded, and served? | 2 payouts, 1 worker, scheduler, lost answers; 2 deliveries, or failing writes and batches of 1 |
| `settlement_flow` | do split, gate and status follow the money, and does every payment, decline and admission have its effect? | 1 request of each kind, 2 pushes; 2 deliveries, or 1 handler and 2 calls from outside |
| `float_overdraft` | *violated*: reservations never exceed deposits | 1 handler, two legs |
| `float_moved_ledgered` | *violated*: moved money stays reserved or debited | 1 handler, lost answers |
| `deposit_lifecycle` | *violated*: `PENDING -> SUBMITTED -> SUCCEEDED or FAILED` | 1 deposit, 1 delivery |
| `payout_sent_once` | *violated*: nobody is paid twice | 1 bank payout |
| `settlement_repeat` | *violated*: repeating a reference returns its settlement | 2 mixed requests |
| `settlement_mixed` | *violated*: the CASH part of a mixed settlement is reserved before its split | 1 mixed request |
| `accounts_reset` | *violated*: a reset voids every token issued before it | 2 calls |
| `amounts_fee_exact` | *violated*: the fee that is charged is retained | 3 suppliers with equal parts |

What they show:

* **LedgerBacked**, **AdmissionInv**, **LedgerRefined**: the lock on the float row does serialise admissions; with two
  handlers, a crash between any two steps, failing statements and lost answers the reserved and debited legs are
  covered by the deposits, except for legs that moved from one sum to the other during an admission.
* **CashFinal**, **CollectedBeforeTransfer**: no callback revives or reverses a CASH leg; no transfer is sent before
  the customer's part is in.
* **MovedIsLedgered**, **NotStranded**, **TransferResolved**, **AdmissionDecided** hold with one handler at a time, no
  crash, no failing statement and no lost answer, though other writers put a settlement's status and metadata back as
  they read them. What each of the first two needs the proofs say (section 4). They do not hold of more: two handlers
  on one leg lose `payoutSource`, an answer that is lost releases a transfer that is carried out (finding), and after
  a stop or an error between the row's commit and the write of `payoutSource` nothing finishes the reservation.
  Nothing is claimed of two callbacks of one moved transfer that run at once.
* **CreditedIsCollected**, **FinalOnceAnswered**, **ReportDecides**: a deposit is credited only for a full payment;
  each report finds its deposit decided or decides it; once the request has written its answer no delivery changes the
  decision. The FAILED of the request's own catch is a decision too: a success that is reported after it is
  acknowledged without a credit.
* **DebitedIsPaid**, **ConfirmedIsDebited**: deliveries that race each other can neither debit early nor both leave
  the debit to the other. A delivery that finds no split record is excepted (`unsplit`): then nobody debits. A stop of
  the process, or a failing write, between the mark and the debit is not in the model: it too leaves the debit to
  another delivery.
* **RetriesBounded**, **RetryServed**: `attemptCount` respects the limit though comparing and incrementing are
  separate steps, because only the request that created an attempt and, after it, the scheduler ever schedule it; and
  a due payout is picked up unless, time and again, a full batch is before it. In the code ten payouts that were given
  up, of whatever settlements, are such a batch for ever, and every later retry then starves: the property says no
  more than the code keeps.
* **SplitIsPaid**, **GateOpensOnPayment**: initiation and handlers write each other's rows over with old copies, and
  still no copy of a row says more than the money does: what the customer was asked for is collected, or a CASH amount
  is reserved; of a mixed payment only the first (finding). For M-Pesa the gate opens only on a payment or someone's
  word. With CASH and mixed payments initiation itself writes PENDING_PROCESSING, which opens the gate before the
  money is there.
* **RepeatRecognised**: once the child exists some row always carries the tag. Before that it does not (finding).
* **PaidIsSplit**, **DeclineIsRecorded**, **AdmittedIsAllocated**: overwritten records and rows do not swallow a
  payment, a decline or a reservation; of the last those are excepted whose `payoutSource` a confirmation from outside
  wrote away (`SourceDropped`), as the split then waits for good. They hold for one request; of two, the second one's
  CASH reservation is stranded, because its child cannot be created.
* **VerdictStands**, **MismatchIsReal**: callbacks, timeouts and repetitions never change a reconciliation's verdict,
  only the request's own catch does. A comparison of books that stood still, with nothing in flight, ends in MISMATCH
  exactly if platform fees have been retained by then: they are in the account and in no sum, so from the first fee on
  no reconciliation matches (finding).
* **OneMessagePerEvent**, **PayloadIsCurrent**, **NotifyReturns**: retries repeat the message and do not remake it; no
  event shows a state older than its cause; and its caller is released after three posts. Events may still overtake
  each other, and be lost, as nothing is persisted.
* **VoidStaysVoid**, **OldLoginsAreVoid**, **OtpSingleUse**: increments in SQL and the guarded consumption carry
  accounts through races: when a reset has returned, only a token that came through a raced refresh still goes back to
  an older password (finding). Between a reset's last two statements old tokens work, and they go on working if the
  second one fails.
* **VerifiedByItsSecret**: whole-column writes may undo a verification, but never lend it to another destination.
* **CollectionWasCovered**: of the bank's two checks the second makes the difference. That one of two collections is
  lost when both write the balance they read less their own amount is not excluded; it happens.
* **AcceptedAddsUp**, **FeeIsRetained**: parts add up to the cent that `areAmountsEqual` may overlook, none is
  negative, and the fee is kept up to the rounding of shares (half of it if there is no retailer part): how far the
  code is from the documented fee, not that it keeps it (finding). Excepted are groups of one supplier with and
  without items (`amtMixed`): `aggregateSuppliers` puts them together, `createSupplierSettlements` then counts only
  the items, and the other group's total is lost.

**Bounds.** Two handlers or deliveries suffice for every conflict of the code, which is always a read and a write of
one against a write of the other; two legs (plus the deposit) for every conflict over the balance, with amounts such
that either leg fits alone and both do not. Two payouts are the fewest for which "all completed" differs from "this
one completed". `MaxRetries = 3` is the least for which two concurrent schedulings could pass the limit. `MaxDepCrashes = 1`
bounds stops of a deposit's process. In `settlement_flow` two pushes are the least at which one is paid and one
declined, and two outside calls the least that race each other; all of them at once is too large, so `corner` takes
either. `payouts` has two corners too: in "results" recording an answer does not fail and two deliveries are at work,
in "retries" it may fail, requests dispatch one payout, only the supplier's payments are taken in and one delivery is
handled at a time, with batches of 1, the least that can be full; payouts and deliveries are alike, so the first of
each goes first (`InOrder`). In `platform` the constraint `FewWriters` admits one writer of settlements at a time,
beside the other handler, and only on the collected leg, whose flow is the longest; the proofs are without it. Each
counter of a service lets its event happen twice, `MaxTries` is the code's 3, `MaxKept` lets one fee be retained, and
the cents include one that rounds to nothing, an odd one and amounts whose fee is an exact half. None of these bounds
appears in the proofs.

**Fairness.** A handler that has started continues while the process is up (weak fairness of its steps): Node does not
abandon a promise. Strong fairness of `TransferCallback` and of the delivery of a deposit's report says that Safaricom
repeats a result until a handler has answered it, and no longer; strong, because the small number of handlers in an
instance may be busy, while Node always has room for another. The same holds of `ReceiveCallback` of `Settlement`
(Safaricom delivers each result at least once), while nothing is assumed of the customer, of outside calls or of
`Reconcile`. `Notify` is weakly fair: `fetch` is aborted after five seconds. `ProcessRetries` is weakly fair: the
interval timer never stops. `ReliableSpec` leaves out `Crash`, after which nothing in the code resumes the work of a
lost handler. `CHECK_DEADLOCK FALSE` is set throughout because the system does stop when all work is done. The
symmetry of `platform`, over its two handlers, is sound: they are interchangeable and only invariants and action
properties are checked, no liveness.

## 4. Proofs

All proofs are for arbitrary finite or infinite constants under the named assumptions of the modules, and for the full
specification with crashes, lost answers and failing writes; only the theorems of `EscrowFloatOverlapProofs` have
hypotheses of their own, named there. Every invariant and every action property that a passing run checks is stated by
a theorem.

* `EscrowFloatProofs`. First the frame (`Typing`): types, `TaskOK` (a handler at a step of the CASH flow works on a
  CASH leg) and `CentralOK`. Then `AdmissionInv`. `LedgerBacked` is not inductive: a transaction holds sums read some
  steps ago, so `SumsOK` states what they still bound: the deposits read are credited; after the second sum, what is
  debited now is at most that sum plus `slipped`; after the third, all that is committed now is at most both sums plus
  `slipped`. It needs `LockOK`: the handler in the transaction is the one that holds the claim, so nobody else
  reserves meanwhile. From it follow `Backed`, `Admission` and `Refinement` (`[Next]_vars` implies `[Next]_ledger`
  under the mapping reserved, debited, credited). `Final` and `CollectFirst` are separate: the latter needs that a
  handler past the funding gate has `StkPaid` (`CollectInv`).
* `EscrowFloatOverlapProofs`. Callbacks read a transfer and write it a few statements later, so two of them on one
  transfer may undo each other, and what follows cannot be an invariant of `Spec`. It is one as long as
  `NoOverlap(S)`: no two handlers have the same transfer of `S` in hand. The hypothesis is a `[]` of a state
  predicate, says nothing of handlers on different transfers, and leaves crashes, lost answers, and late and repeated
  callbacks in. The settlement's writers are handlers too, so it excludes that one of them works on a leg beside
  another; it does not exclude them before and after. `StepsOf` says what a step can do to one transfer, `Alone` that
  whoever does it is alone with it. `HeldInv`: a leg is outside the ledger until its handler commits it, and every
  reservation is in the hand of a handler or has its `payoutSource`; whoever is about to write it away has no
  reservation in hand (`Held`, without crashes and failing statements). `OnceInv`: a transfer is requested once
  (`MovedOnce`); `LedgeredInv`: if answers are not lost, a handler about to release it knows that Safaricom has not
  carried it out (`MovedLedgered`, which the run `float_moved_ledgered` shows to need that). `Serial` is the float of
  `progress`: one handler, any transfers and amounts.
* `FloatDepositProofs`. `DepositInv` says which report a delivery past its check carries; `Collected` and
  `DepositTyping` follow, and `AnsweredFinal` as an action property.
* `PayoutsProofs`. `PaidInv`: COMPLETED is only written for a result that says so, and a delivery about to debit has
  seen all COMPLETED; attempts may leave COMPLETED later, results do not go away (`DebitAfterPayouts`). `DebitInv`:
  while all attempts are COMPLETED and the leg is not debited, some delivery still has its check before it
  (`DebitWhenConfirmed`). `RetryInv`: an attempt's creator is unique, works on a payout that is not yet due, and the
  scheduler only on payouts that are, so of those about to increment a count there is one (`SchedulesAlone`), hence
  `RetryLimit`.

* `SettlementProofs`. `Inv` is the conjunction of `TypeOK`, `PushInv` (a push not yet sent has no answer, so a payment
  once made is not forgotten), `KindInv` (which steps a kind of payment reaches), `MoneyInv` (every row *and every
  copy* that says split, and everyone on the way to a split, has the money), `GateInv` (for M-Pesa, every row and copy
  that counts as confirmed does so because of a payment or a voucher) and `TagInv` (the child keeps its tag through
  all copies made of it). That copies are included is what makes them inductive: a stale copy may be written back at
  any later time. `Monotone` says that money, once there, stays.
* `AccessProofs`. Accounts: `VersionInv`: no token or copy is ahead of the row's version, which with the version's
  growth gives `Void`. `LoginInv`: an accepted token of an earlier password has raced, or waits for a reset that is
  about to increment the version. `OtpInv`: a call about to set a password has used its code up, alone, and the code
  has set nothing before. Onboarding: `SecretInv`: a copy about to be written back as verified is of a destination
  whose secret was given.
* `ServicesProofs`. Reconciliation: `FreshInv`: nothing is known of a row before its request. `QuietInv`: while a row
  is quiet the account holds what was expected and the fees retained by then, and so do the report and the verdict a
  delivery has in hand. `BooksInv` bounds what is in flight. Webhooks: `TriesInv` counts attempts, `OrderInv` says
  that what is read is not older than what was read before it nor than the cause, `ReceivedInv` that what was received
  is the message its notification still holds. The bank: `HeldInv`: the row, what a call has read of it, and what a
  debit about to be recorded was taken from are balances the account has had (`Covered`). At the end `StepOfEach`: a
  step of `MCServices` is a step or a stutter of each service, so their invariants hold side by side
  (`ServicesTyping`).
* `SettlementAmountsProofs`. Loops are functions over prefixes, so what they compute is proved with one induction over
  the length, stated for *sets* of lengths (`Climb`, from the well-foundedness of `<` on the naturals); `Recursion`
  says that such a function exists. From these: sums (`SumAppend`, `SumConcat`, `SumUpdate`, `SumWithin`, `SumAdd`),
  the Map by supplier (`TogetherIn`: its groups have distinct suppliers; `TogetherAlone`: it leaves such groups as
  they are; `TogetherAdds`: it keeps the sum, if no supplier has groups with and without items), and the filter
  (`KeepIn`). `RoundedWithin` bounds a rounding by half a cent, `SideCharged` what the shares of a side then charge,
  and `Charged` puts the two sides together to `FeeKept`. `AmtInv` carries through the steps of a request that its
  groups have passed the checks (`Checked`, which joining groups preserves), that their sum has been compared with the
  total and the total with the payments, and that a canonical request has kept its fee: `AddsUp` and `FeeRetained`.

Only model-checked: the liveness properties (`TransferResolved`, `AdmissionDecided`, `ReportDecides`, `RetryServed`,
`PaidIsSplit`, `DeclineIsRecorded`, `AdmittedIsAllocated`, `NotifyReturns`), which need fairness and so ENABLED, of
which the provers know nothing.

## 5. Findings

1. *Overdraft by read skew* (`float_overdraft`): the debit of one leg between the sums of another's admission hides it
   from both; documented as impossible (`CASH_SETTLEMENT_FLOW.md:161`, `MPESA_ESCROW_FLOAT.md:13`).
2. *A lost answer releases a transfer that Safaricom carries out* (`float_moved_ledgered`).
3. *A late answer takes a credited deposit back* (`deposit_lifecycle`).
4. *A bank payout can be paid twice* (`payout_sent_once`): its attempt never becomes COMPLETED.
5. *A repeated mixed initiation creates a second settlement* (`settlement_repeat`): the first one's write of its
   funding plan drops the merchant's reference from the metadata, by which a repetition is recognised. CASH
   initiations drop it likewise, and it is back only with the supplier child.
6. *The CASH part of a mixed settlement is not reserved* (`settlement_mixed`): `startMixedCashEscrowAfterMpesa` looks
   the settlement up by its internal reference and is given the merchant's; the split then pays the whole amount
   without a transfer. Three documents and a test with a mocked lookup say otherwise (`MPESA_ESCROW_FLOAT.md:237`,
   `SETTLEMENT_MODULE.md:154`, `CASH_SETTLEMENT_FLOW.md:279`).
7. *A login survives a password reset* (`accounts_reset`): a refresh that has checked the version before the reset and
   increments it after issues a valid pair (`AUTH_MODULE.md:320`).
8. *The retained fee is not the documented one* (`amounts_fee_exact`): shares are rounded to whole per cents. On the
   example of `SETTLEMENT_MODULE.md:174-200` the code retains 1,021.08 and pays the retailer 9,486.92, not 1,016 and
   9,492.
9. *Reconciliations end in MISMATCH once a platform fee is retained* (`platform`, `MismatchIsReal`): debits are gross,
   payouts net. `MPESA_ESCROW_FLOAT.md:13` compares the account with the sum of the retailers' balances, in which no
   fee is.

Observed while modelling and not the subject of a run: `aggregateSuppliers` loses the total of a group without items
(above); an HTTP 5xx answer to an STK push is not tried again, since only messages of network errors are; a
participant's email is not unique, so two first creations make two rows; ten payouts that were given up block the
retry queue; `authenticate.operation.ts:34` asks for a status that nothing writes (LIVE is written); an update of the
profile takes a LIVE business back to DOCUMENTS_SUBMITTED.

## 6. Not modelled, and what could follow

* Sessions (`session.helpers.ts`): a row created once, whose only later write is `lastUsedAt`; nothing but a clock is
  compared.
* M-Pesa, KCB, Equity and Co-op clients: I/O and formatting; how their calls fail is modelled at the caller.
* The supplier directory, products, the application shell: single reads and writes that no modelled step depends on.
* Of the modelled parts: the float row's configuration; recipients and amounts of payouts; integrations from before
  the hashed API keys; the simulated bank's own comparison, which only reads; several suppliers of one settlement; a
  second server process.

Next would be the metadata column under all its writers at once, which `Settlement`, `Payouts` and `EscrowFloat` each
see a part of (what `unsplit` stands for in `Payouts`); and the stop of a process inside an initiation.
