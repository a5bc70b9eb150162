------------------------------- MODULE MCServices -------------------------------
(***************************************************************************)
(* The services that share no state, of which the initial state chooses    *)
(* the one that runs, while the others stand still.                        *)
(***************************************************************************)
EXTENDS Reconciliation, WebhookDelivery, Accounts, Onboarding, EscrowBank,
        SettlementAmounts

VARIABLE service

serviceVars == <<service, reconVars, hookVars, acctVars, onbVars, bankVars, amtVars>>

ServicesInit ==
  /\ service \in {"reconciliation", "webhooks", "accounts", "onboarding", "bank", "amounts"}
  /\ ReconInit /\ HookInit /\ AcctInit /\ OnbInit /\ BankInit /\ AmtInit
  /\ service # "webhooks" => hookEndpoint = NoEndpoint

ServicesNext ==
  /\ UNCHANGED service
  /\ \/ /\ service = "reconciliation" /\ ReconNext
        /\ UNCHANGED <<hookVars, acctVars, onbVars, bankVars, amtVars>>
     \/ /\ service = "webhooks" /\ HookNext
        /\ UNCHANGED <<reconVars, acctVars, onbVars, bankVars, amtVars>>
     \/ /\ service = "accounts" /\ AcctNext
        /\ UNCHANGED <<reconVars, hookVars, onbVars, bankVars, amtVars>>
     \/ /\ service = "onboarding" /\ OnbNext
        /\ UNCHANGED <<reconVars, hookVars, acctVars, bankVars, amtVars>>
     \/ /\ service = "bank" /\ BankNext
        /\ UNCHANGED <<reconVars, hookVars, acctVars, onbVars, amtVars>>
     \/ /\ service = "amounts" /\ AmtNext
        /\ UNCHANGED <<reconVars, hookVars, acctVars, onbVars, bankVars>>

(* Of a service that stands still no action is enabled.                    *)
ServicesSpec == ServicesInit /\ [][ServicesNext]_serviceVars /\ HookFairness

(* Types of all six services.                                              *)
ServicesTypeOK ==
  ReconTypeOK /\ HookTypeOK /\ AcctTypeOK /\ OnbTypeOK /\ BankTypeOK /\ AmtTypeOK
================================================================================
