------------------------------- MODULE MCProgress -------------------------------
(***************************************************************************)
(* What must come to an end, checked in one run: a webhook's delivery, the *)
(* deposits into a float, and a float whose requests come one at a time    *)
(* and whose process does not stop.  The initial state chooses, as they    *)
(* share no state, and of the others no action is enabled.                 *)
(***************************************************************************)
EXTENDS WebhookDelivery, FloatDeposit, MCEscrowFloat

VARIABLE part

progressVars == <<part, hookVars, depVars, vars>>

ProgressInit ==
  /\ part \in {"webhooks", "deposits", "float"}
  /\ HookInit /\ DepInit /\ Init
  /\ part # "webhooks" => hookEndpoint = NoEndpoint

ProgressNext ==
  /\ UNCHANGED part
  /\ \/ part = "webhooks" /\ HookNext /\ UNCHANGED <<depVars, vars>>
     \/ part = "deposits" /\ DepNext /\ UNCHANGED <<hookVars, vars>>
     \/ part = "float" /\ Step /\ UNCHANGED <<hookVars, depVars>>

ProgressSpec ==
  /\ ProgressInit /\ [][ProgressNext]_progressVars
  /\ HookFairness /\ DepFairness /\ Fairness
================================================================================
