--------------------------- MODULE SettlementAmounts ---------------------------
(***************************************************************************)
(* What becomes of the amounts of ONE initiation request until its         *)
(* settlement rows are created: a canonical request (a flat list of items) *)
(* is grouped by supplier and PayAssure's fee taken off; a legacy request  *)
(* brings its supplier groups; both are validated, suppliers that fail are *)
(* left out, and groups of one supplier are put together.                  *)
(*                                                                         *)
(* Amounts are cents.  The code computes in doubles and rounds to cents,   *)
(* so an exact half may go either way, and two sums that differ by one     *)
(* cent may or may not differ by less than areAmountsEqual's 0.01.  The    *)
(* fee rate is the default, 0.8 per cent.                                  *)
(***************************************************************************)
EXTENDS Integers, Sequences

CONSTANTS
  AmtSuppliers,     \* merchant ids of suppliers
  Cents,            \* amounts an item may name
  MaxItems,         \* bound on a request's items or groups
  LegacyCents,      \* supplier's amounts a legacy group or its items may name
  LegacyRetailers,  \* retailer's amounts it may name
  LegacyFees,       \* fees it may name
  MaxLegacyItems    \* bound on its items

ASSUME AmtAssumption ==
  /\ Cents \subseteq Nat /\ MaxItems \in Nat \ {0}
  /\ LegacyCents \subseteq Nat /\ LegacyRetailers \subseteq Nat /\ LegacyFees \subseteq Nat
  /\ MaxLegacyItems \in Nat

VARIABLES
  amtPc,        \* "new", "validate", "aggregate", "accepted", "rejected"
  amtCanonical, \* is it a canonical request?
  amtGroups,    \* data.suppliers
  amtTotal,     \* data.totalAmount
  amtCharged,   \* the sum of its payment methods, what the customer pays
  amtExcluded,  \* has a supplier been left out?
  amtMixed      \* history: was a group with items put to one without?

amtVars == <<amtPc, amtCanonical, amtGroups, amtTotal, amtCharged, amtExcluded, amtMixed>>

Groups == [id : AmtSuppliers, items : Seq(Int), supplier : Int, retailer : Int, fee : Int]

(* Types.                                                                  *)
AmtTypeOK ==
  /\ amtPc \in {"new", "validate", "aggregate", "accepted", "rejected"}
  /\ amtCanonical \in BOOLEAN
  /\ amtGroups \in Seq(Groups)
  /\ amtTotal \in Int /\ amtCharged \in Int
  /\ amtExcluded \in BOOLEAN /\ amtMixed \in BOOLEAN

AmtInit ==
  /\ amtPc = "new"
  /\ amtCanonical = FALSE
  /\ amtGroups = <<>>
  /\ amtTotal = 0 /\ amtCharged = 0
  /\ amtExcluded = FALSE /\ amtMixed = FALSE

--------------------------------------------------------------------------------
(* What a sequence of numbers adds up to, after each of its members.       *)
PartialSums(v) ==
  LET sum[i \in 0..Len(v)] == IF i = 0 THEN 0 ELSE sum[i - 1] + v[i]
  IN  sum

AmtSum(v)      == PartialSums(v)[Len(v)]
SeqsUpTo(S, n) == UNION {[1..k -> S] : k \in 1..n}

(* roundMoney of num / den cents.                                          *)
Rounded(num, den, up) ==
  IF up THEN (2 * num + den) \div (2 * den) ELSE -((den - 2 * num) \div (2 * den))

Items == [id : AmtSuppliers, supplier : Cents \ {0}, retailer : Cents]

LineAmounts(items) == [k \in DOMAIN items |-> items[k].supplier + items[k].retailer]

Suppliers(groups) == [k \in DOMAIN groups |-> groups[k].supplier]
Retailers(groups) == [k \in DOMAIN groups |-> groups[k].retailer]
Fees(groups)      == [k \in DOMAIN groups |-> groups[k].fee]

(* The Map by supplier that both grouping loops fill: a group joins that   *)
(* of its supplier, or is the first of it.                                 *)
Joined(a, b) ==
  [id |-> a.id, items |-> a.items \o b.items, supplier |-> a.supplier + b.supplier,
   retailer |-> a.retailer + b.retailer, fee |-> a.fee + b.fee]

Put(map, g) ==
  IF \E k \in DOMAIN map : map[k].id = g.id
    THEN [k \in DOMAIN map |-> IF map[k].id = g.id THEN Joined(map[k], g) ELSE map[k]]
    ELSE Append(map, g)

Maps(groups) ==
  LET map[i \in 0..Len(groups)] == IF i = 0 THEN <<>> ELSE Put(map[i - 1], groups[i])
  IN  map

PutTogether(groups) == Maps(groups)[Len(groups)]

OneItem(item) ==
  [id |-> item.id, items |-> <<item.supplier>>,
   supplier |-> item.supplier, retailer |-> item.retailer, fee |-> 0]

(* groupCanonicalItems.                                                    *)
GroupItems(items) == PutTogether([k \in DOMAIN items |-> OneItem(items[k])])

PlatformFee(total, up) == Rounded(8 * total, 1000, up)

(* A side's deduction: its half of the fee by its share in that side's     *)
(* total, a share that is itself rounded to two decimals.                  *)
Deduction(half, part, whole, up) ==
  IF whole = 0 THEN 0 ELSE Rounded(half * Rounded(100 * part, whole, up), 100, up)

(* Mutant: every supplier is charged the whole half.                       *)
ApplyFeesWhole(groups, total, up) ==
  LET fee == PlatformFee(total, up)
      Charge(g) ==
        [g EXCEPT !.supplier = @ - Rounded(fee, 2, up),
                  !.retailer = @ - (fee - Rounded(fee, 2, up)), !.fee = fee,
                  !.items = [j \in DOMAIN @ |->
                     Rounded(@[j] * (g.supplier - Rounded(fee, 2, up)), g.supplier, up)]]
  IN  [k \in DOMAIN groups |-> Charge(groups[k])]

(* applyCanonicalPlatformFees.  Items are rounded each for itself.         *)
ApplyFees(groups, total, up) ==
  LET fee          == PlatformFee(total, up)
      supplierHalf == Rounded(fee, 2, up)
      supplierAll  == AmtSum(Suppliers(groups))
      retailerAll  == AmtSum(Retailers(groups))
      Charge(g) ==
        LET s == Deduction(supplierHalf, g.supplier, supplierAll, up)
            r == Deduction(fee - supplierHalf, g.retailer, retailerAll, up)
        IN  [g EXCEPT !.supplier = @ - s, !.retailer = @ - r, !.fee = s + r,
                      !.items = [j \in DOMAIN @ |->
                         Rounded(@[j] * (g.supplier - s), g.supplier, up)]]
  IN  [k \in DOMAIN groups |-> Charge(groups[k])]

(* validateCanonicalSettlement: amount, payments and items must agree.     *)
Reconciles(items, amount, charged) ==
  charged = amount /\ AmtSum(LineAmounts(items)) = amount

Normalize(items) ==
  /\ amtPc = "new"
  /\ \E amount, charged \in {AmtSum(LineAmounts(items)), AmtSum(LineAmounts(items)) + 1},
        up \in BOOLEAN :
       IF Reconciles(items, amount, charged)
         THEN /\ amtGroups' = ApplyFees(GroupItems(items), amount, up)
              /\ amtTotal' = amount /\ amtCharged' = charged
              /\ amtPc' = "validate"
         ELSE amtPc' = "rejected" /\ UNCHANGED <<amtGroups, amtTotal, amtCharged>>
  /\ amtCanonical' = TRUE
  /\ UNCHANGED <<amtExcluded, amtMixed>>

(* What a group adds up to; items count before the supplier's total.       *)
SupplierPart(g) == IF g.items = <<>> THEN g.supplier ELSE AmtSum(g.items)
GroupAmount(g)  == SupplierPart(g) + g.retailer + g.fee
Parts(groups)   == [k \in DOMAIN groups |-> GroupAmount(groups[k])]
AllParts        == AmtSum(Parts(amtGroups))

(* SupplierDto: any amounts but for the items', which are positive.        *)
LegacyGroups ==
  [id : AmtSuppliers, items : {<<>>} \cup SeqsUpTo(LegacyCents \ {0}, MaxLegacyItems),
   supplier : LegacyCents, retailer : LegacyRetailers, fee : LegacyFees]

(* A legacy request is taken as it comes.                                  *)
SubmitLegacy(groups) ==
  /\ amtPc = "new"
  /\ amtGroups' = groups
  /\ \E total, charged \in {AmtSum(Parts(groups)) + d : d \in {0, 1, 2}} :
       /\ total > 0
       /\ amtTotal' = total /\ amtCharged' = charged
  /\ amtPc' = "validate"
  /\ UNCHANGED <<amtCanonical, amtExcluded, amtMixed>>

--------------------------------------------------------------------------------
Apart(a, b, cents) == a - b >= cents \/ b - a >= cents

(* areAmountsEqual over the items, their signs, the supplier's status and  *)
(* destination (eligible).                                                 *)
GroupFails(g, eligible, tolerance) ==
  \/ g.id \notin eligible
  \/ \E j \in DOMAIN g.items : g.items[j] <= 0
  \/ g.retailer < 0
  \/ g.fee < 0
  \/ Apart(g.supplier, SupplierPart(g), tolerance)

Filters(groups, failed) ==
  LET kept[i \in 0..Len(groups)] ==
        IF i = 0 THEN <<>>
        ELSE IF i \in failed THEN kept[i - 1] ELSE Append(kept[i - 1], groups[i])
  IN  kept

Keep(groups, failed) == Filters(groups, failed)[Len(groups)]

(* Mutant: the total is not compared with the sum of the allocations.      *)
ValidateUncompared ==
  /\ amtPc = "validate"
  /\ \E eligible \in SUBSET AmtSuppliers :
       LET failed == {i \in DOMAIN amtGroups : GroupFails(amtGroups[i], eligible, 2)}
       IN  /\ failed = {} /\ ~Apart(amtCharged, amtTotal, 2)
           /\ amtPc' = "aggregate"
  /\ UNCHANGED <<amtCanonical, amtGroups, amtTotal, amtCharged, amtExcluded, amtMixed>>

(* validateSettlementData and validateAndFilterSuppliers.  A request with  *)
(* one group fails with it; of several, the failing ones are left out and  *)
(* the total is that of the rest, while the payments stay as they were.    *)
Validate ==
  /\ amtPc = "validate"
  /\ \E eligible \in SUBSET AmtSuppliers, failed \in SUBSET DOMAIN amtGroups :
       /\ {i \in DOMAIN amtGroups : GroupFails(amtGroups[i], eligible, 2)} \subseteq failed
       /\ failed \subseteq {i \in DOMAIN amtGroups : GroupFails(amtGroups[i], eligible, 1)}
       /\ \/ /\ \/ Apart(amtCharged, amtTotal, 1)
                \/ failed = DOMAIN amtGroups
                \/ failed = {} /\ Apart(amtTotal, AllParts, 1)
             /\ amtPc' = "rejected"
             /\ UNCHANGED <<amtGroups, amtTotal, amtExcluded>>
          \/ /\ ~Apart(amtCharged, amtTotal, 2)
             /\ failed = {} /\ ~Apart(amtTotal, AllParts, 2)
             /\ amtPc' = "aggregate"
             /\ UNCHANGED <<amtGroups, amtTotal, amtExcluded>>
          \/ /\ ~Apart(amtCharged, amtTotal, 2)
             /\ failed # {} /\ failed # DOMAIN amtGroups
             /\ amtGroups' = Keep(amtGroups, failed)
             /\ amtTotal' = AmtSum(Parts(Keep(amtGroups, failed)))
             /\ amtExcluded' = TRUE
             /\ amtPc' = "aggregate"
  /\ UNCHANGED <<amtCanonical, amtCharged, amtMixed>>

(* aggregateSuppliers puts groups of one supplier together.  The total of  *)
(* a group without items is lost beside the items of another: from here on *)
(* only items count.                                                       *)
Aggregate ==
  /\ amtPc = "aggregate"
  /\ amtMixed' = \E i, j \in DOMAIN amtGroups :
       /\ amtGroups[i].id = amtGroups[j].id
       /\ amtGroups[i].items = <<>> /\ amtGroups[j].items # <<>>
  /\ amtGroups' = PutTogether(amtGroups)
  /\ amtPc' = "accepted"
  /\ UNCHANGED <<amtCanonical, amtTotal, amtCharged, amtExcluded>>

AmtNext ==
  \/ \E items \in SeqsUpTo(Items, MaxItems) : Normalize(items)
  \/ \E groups \in SeqsUpTo(LegacyGroups, MaxItems) : SubmitLegacy(groups)
  \/ Validate \/ Aggregate

AmtSpec == AmtInit /\ [][AmtNext]_amtVars

--------------------------------------------------------------------------------
(* The parts the settlement rows are created with, the children's amounts  *)
(* (createSupplierSettlements), the retailer's and PayAssure's, add up to  *)
(* the settlement's amount to the cent areAmountsEqual may overlook, none  *)
(* is negative, and the customer pays that unless a supplier was left out. *)
(* Excepted are groups of one supplier with and without items, see above.  *)
AcceptedAddsUp ==
  amtPc = "accepted" /\ ~amtMixed =>
    /\ ~Apart(amtTotal, AllParts, 2)
    /\ \A i \in DOMAIN amtGroups :
         /\ SupplierPart(amtGroups[i]) >= 0
         /\ amtGroups[i].retailer >= 0 /\ amtGroups[i].fee >= 0
    /\ ~amtExcluded => ~Apart(amtTotal, amtCharged, 2)

(* SETTLEMENT_MODULE.md:174-200: PayAssure retains its fee, here to a cent *)
(* for each supplier.  It fails: a supplier's share in its side is rounded *)
(* to a whole per cent before the deduction is taken by it, and the shares *)
(* of several suppliers may add up to more, or less, than one.             *)
FeeIsExact ==
  amtCanonical /\ amtPc = "accepted" /\ ~amtExcluded =>
    \E up \in BOOLEAN :
      ~Apart(AmtSum(Fees(amtGroups)), PlatformFee(amtTotal, up), Len(amtGroups) + 1)

(* How far it can fail: to the cent the fee is kept of a request with one  *)
(* supplier and something for the retailer; half a per cent of it is added *)
(* or missing, besides the cents, for every supplier there is; and half of *)
(* it is missing if the retailer has no part to charge.                    *)
FeeIsRetained ==
  amtCanonical /\ amtPc = "accepted" /\ ~amtExcluded =>
    LET fee  == PlatformFee(amtTotal, TRUE)
        kept == AmtSum(Fees(amtGroups))
        slip == Len(amtGroups) * (fee + 400)
        both == \E i \in DOMAIN amtGroups : amtGroups[i].retailer > 0
    IN  /\ Len(amtGroups) = 1 /\ both => kept \in {fee, PlatformFee(amtTotal, FALSE)}
        /\ 200 * (kept - fee) <= slip
        /\ 200 * (fee - kept) <= slip + (IF both THEN 0 ELSE 100 * fee)
================================================================================
