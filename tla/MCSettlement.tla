------------------------------ MODULE MCSettlement ------------------------------
(***************************************************************************)
(* Two corners of the settlement model in one run: every handler may be at *)
(* work on deliveries, with no call from outside, or one handler is, with  *)
(* MaxCalls of them.                                                       *)
(***************************************************************************)
EXTENDS Settlement, TLC

VARIABLE corner
mcVars == <<vars, corner>>

First == CHOOSE h \in Handlers : TRUE

MCInit == Init /\ corner \in {"deliveries", "calls"}

MCNext ==
  /\ Next
  /\ corner = "deliveries" => calls' = 0
  /\ corner = "calls" => \A h \in Handlers \ {First} : pc'[h] = "idle"
  /\ UNCHANGED corner

MCSpec == MCInit /\ [][MCNext]_mcVars /\ Fairness
================================================================================
