------------------------------- MODULE MCPayouts -------------------------------
(***************************************************************************)
(* Two corners of Payouts in one run.  "results": recording an answer does *)
(* not fail, and every delivery may be at work.  "retries": it may fail,   *)
(* there is no split, requests dispatch one payout, Safaricom takes in     *)
(* only the supplier's payments, and one delivery is handled at a time.    *)
(***************************************************************************)
EXTENDS Payouts

CONSTANTS supplier, retailer, c1, c2

VARIABLE corner
mcVars == <<vars, corner>>

MCInit == Init /\ corner \in {"results", "retries"}

(* Payouts are alike, and so are deliveries: supplier is the first that is *)
(* dispatched, and c2 is only taken while c1 is busy.                      *)
InOrder ==
  /\ attempt[supplier] = "NONE" => \A w \in Dispatchers : task'[w] # retailer
  /\ cpc[c1] = "idle" /\ cpc[c2] = "idle" => cpc'[c2] = "idle"

WithoutFaults ==
  /\ \A w \in Dispatchers : pc[w] = "record" => pc'[w] \in {"record", "write"}
  /\ \A w \in Workers : pc[w] = "idle" => \A p \in todo'[w] : attempt[p] \in Retriable

Retries ==
  /\ \A w \in Workers : pc'[w] # "confirm"
  /\ \A r \in results' : r.p = supplier
  /\ cpc'[c2] = "idle"

MCNext ==
  /\ Next
  /\ InOrder
  /\ IF corner = "results" THEN WithoutFaults ELSE Retries
  /\ UNCHANGED corner

MCSpec == MCInit /\ [][MCNext]_mcVars /\ Fairness
================================================================================
