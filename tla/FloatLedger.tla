------------------------------ MODULE FloatLedger ------------------------------
(***************************************************************************)
(* What the retailer's CASH ledger promises, without rows, transactions or *)
(* handlers: deposits only add to it, a leg is reserved only if the ledger *)
(* covers it on top of everything held, and a reservation ends as a debit. *)
(* "Covers" is as much as the code delivers: the legs in `slack' were      *)
(* debited while an admission was reading its sums, and may count twice.   *)
(***************************************************************************)
EXTENDS Integers

CONSTANTS Transfers, Deposits, Amount, Total

VARIABLES credited, reserved, debited, slack

ledger == <<credited, reserved, debited, slack>>

Init == credited = {} /\ reserved = {} /\ debited = {} /\ slack = {}

Credit == /\ \E d \in Deposits \ credited : credited' = credited \cup {d}
          /\ UNCHANGED <<reserved, debited, slack>>

Reserve ==
  \E t \in Transfers \ (reserved \cup debited) :
    /\ Total[reserved \cup debited] + Amount[t] <= Total[credited] + Total[slack]
    /\ reserved' = reserved \cup {t}
    /\ UNCHANGED <<credited, debited, slack>>

Debit ==
  \E t \in reserved :
    /\ reserved' = reserved \ {t}
    /\ debited' = debited \cup {t}
    /\ slack' \in {slack, slack \cup {t}}
    /\ UNCHANGED credited

Next == Credit \/ Reserve \/ Debit

Spec == Init /\ [][Next]_ledger
================================================================================
