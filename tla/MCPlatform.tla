------------------------------- MODULE MCPlatform -------------------------------
(***************************************************************************)
(* The CASH float under two handlers, or one of the services of MCServices: *)
(* the initial state chooses, as they share no state, and of the others no *)
(* action is enabled.                                                      *)
(***************************************************************************)
EXTENDS MCServices, MCEscrowFloat

VARIABLE part

platformVars == <<part, serviceVars, vars>>

PlatformInit ==
  /\ part \in {"services", "float"}
  /\ ServicesInit /\ Init
  /\ part # "services" => service = "accounts"

PlatformNext ==
  /\ UNCHANGED part
  /\ \/ part = "services" /\ ServicesNext /\ UNCHANGED vars
     \/ part = "float" /\ Next /\ UNCHANGED serviceVars

PlatformSpec == PlatformInit /\ [][PlatformNext]_platformVars
================================================================================
