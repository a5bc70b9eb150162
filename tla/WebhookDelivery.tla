----------------------------- MODULE WebhookDelivery -----------------------------
(***************************************************************************)
(* Events about ONE settlement, sent to its retailer: notify reads the     *)
(* settlement, the endpoint and the payouts in three statements, makes one *)
(* message of them and posts it up to three times.  The settlement and the *)
(* endpoint change meanwhile, several notifications are under way at once, *)
(* and each holds up the operation that called it.                         *)
(***************************************************************************)
EXTENDS Integers, FiniteSets

CONSTANTS
  Notifications,  \* calls of notify
  Endpoints,      \* URLs the retailer may configure
  NoEndpoint,     \* none, or no signing secret, or not a retailer
  MaxTries,       \* attempts of deliver
  MaxVersion      \* bound on updates of the settlement

ASSUME HookAssumption ==
  /\ NoEndpoint \notin Endpoints
  /\ MaxTries \in Nat \ {0}
  /\ MaxVersion \in Nat

VARIABLES
  hookVersion,   \* how often the settlement or its payouts have been updated
  hookEndpoint,  \* the retailer's endpoint
  hookPc,        \* where each notification is
  hookSince,     \* the update it announces
  hookBody,      \* the versions of settlement and payouts it has read
  hookTo,        \* the endpoint it has read
  hookTries,     \* posts so far
  hookReceived   \* messages the retailer's servers have taken in

hookVars == <<hookVersion, hookEndpoint, hookPc, hookSince, hookBody, hookTo,
              hookTries, hookReceived>>
hookMessage == <<hookSince, hookBody, hookTo>>

Versions == 0..MaxVersion
Bodies   == [settlement : Versions, payouts : Versions]
Messages == [event : Notifications, to : Endpoints, body : Bodies]

(* Types.                                                                  *)
HookTypeOK ==
  /\ hookVersion \in Versions
  /\ hookEndpoint \in Endpoints \cup {NoEndpoint}
  /\ hookPc \in [Notifications -> {"new", "settlement", "retailer", "payouts",
                                   "post", "backoff", "done"}]
  /\ hookSince \in [Notifications -> Versions]
  /\ hookBody \in [Notifications -> Bodies]
  /\ hookTo \in [Notifications -> Endpoints \cup {NoEndpoint}]
  /\ hookTries \in [Notifications -> 0..MaxTries]
  /\ hookReceived \in SUBSET Messages

HookInit ==
  /\ hookVersion = 0
  /\ hookEndpoint \in Endpoints \cup {NoEndpoint}
  /\ hookPc = [n \in Notifications |-> "new"]
  /\ hookSince = [n \in Notifications |-> 0]
  /\ hookBody = [n \in Notifications |-> [settlement |-> 0, payouts |-> 0]]
  /\ hookTo = [n \in Notifications |-> NoEndpoint]
  /\ hookTries = [n \in Notifications |-> 0]
  /\ hookReceived = {}

--------------------------------------------------------------------------------
HookGoto(n, step) == hookPc' = [hookPc EXCEPT ![n] = step]

(* An operation updates the settlement or a payout of it and, unless this  *)
(* update is not announced, awaits notify.                                 *)
Announce(n) ==
  /\ hookVersion < MaxVersion
  /\ hookPc[n] = "new"
  /\ hookVersion' = hookVersion + 1
  /\ hookSince' = [hookSince EXCEPT ![n] = hookVersion']
  /\ HookGoto(n, "settlement")
  /\ UNCHANGED <<hookEndpoint, hookBody, hookTo, hookTries, hookReceived>>

UpdateSilently ==
  /\ hookVersion < MaxVersion
  /\ hookVersion' = hookVersion + 1
  /\ UNCHANGED <<hookEndpoint, hookPc, hookMessage, hookTries, hookReceived>>

(* updateWebhook, or the integration's secret is revoked.                  *)
ChangeEndpoint ==
  /\ \E e \in Endpoints \cup {NoEndpoint} : e # hookEndpoint /\ hookEndpoint' = e
  /\ UNCHANGED <<hookVersion, hookPc, hookMessage, hookTries, hookReceived>>

(* Mutant: the payload is what the caller had before its update.           *)
ReadEventBefore(n) ==
  /\ hookPc[n] = "settlement"
  /\ hookBody' = [hookBody EXCEPT ![n].settlement = hookSince[n] - 1]
  /\ HookGoto(n, "retailer")
  /\ UNCHANGED <<hookVersion, hookEndpoint, hookSince, hookTo, hookTries, hookReceived>>

ReadEvent(n) ==
  /\ hookPc[n] = "settlement"
  /\ hookBody' = [hookBody EXCEPT ![n].settlement = hookVersion]
  /\ HookGoto(n, "retailer")
  /\ UNCHANGED <<hookVersion, hookEndpoint, hookSince, hookTo, hookTries, hookReceived>>

(* resolveRetailer: without an endpoint and a secret nothing is sent.      *)
ResolveRetailer(n) ==
  /\ hookPc[n] = "retailer"
  /\ hookTo' = [hookTo EXCEPT ![n] = hookEndpoint]
  /\ HookGoto(n, IF hookEndpoint = NoEndpoint THEN "done" ELSE "payouts")
  /\ UNCHANGED <<hookVersion, hookEndpoint, hookSince, hookBody, hookTries, hookReceived>>

(* The payout attempts; then the message gets its id.                      *)
ReadPayouts(n) ==
  /\ hookPc[n] = "payouts"
  /\ hookBody' = [hookBody EXCEPT ![n].payouts = hookVersion]
  /\ HookGoto(n, "post")
  /\ UNCHANGED <<hookVersion, hookEndpoint, hookSince, hookTo, hookTries, hookReceived>>

Message(n) == [event |-> n, to |-> hookTo[n], body |-> hookBody[n]]

(* Mutant: every attempt makes the message anew.                           *)
PostAnew(n) ==
  /\ hookPc[n] = "post"
  /\ hookTries' = [hookTries EXCEPT ![n] = @ + 1]
  /\ \E answer \in {"ok", "refused", "failed", "silent"} :
       /\ hookReceived' = IF answer = "failed" THEN hookReceived
            ELSE hookReceived \cup {[Message(n) EXCEPT !.body.payouts = hookVersion]}
       /\ HookGoto(n, IF answer \in {"ok", "refused"} \/ hookTries'[n] = MaxTries
                      THEN "done" ELSE "backoff")
  /\ UNCHANGED <<hookVersion, hookEndpoint, hookMessage>>

(* Mutant: it goes on until it is answered.                                *)
PostForever(n) ==
  /\ hookPc[n] = "post"
  /\ hookTries' = [hookTries EXCEPT ![n] = 1]
  /\ \E answer \in {"ok", "refused", "failed", "silent"} :
       /\ hookReceived' = IF answer = "failed" THEN hookReceived
                          ELSE hookReceived \cup {Message(n)}
       /\ HookGoto(n, IF answer \in {"ok", "refused"} THEN "done" ELSE "backoff")
  /\ UNCHANGED <<hookVersion, hookEndpoint, hookMessage>>

(* One attempt of deliver, at most five seconds.  2xx, or a 4xx that will  *)
(* not change: through.  Otherwise ("failed": not received, "silent":      *)
(* received without an answer in time) it is tried again; after the last   *)
(* attempt the event is dropped.                                           *)
Post(n) ==
  /\ hookPc[n] = "post"
  /\ hookTries' = [hookTries EXCEPT ![n] = @ + 1]
  /\ \E answer \in {"ok", "refused", "failed", "silent"} :
       /\ hookReceived' = IF answer = "failed" THEN hookReceived
                          ELSE hookReceived \cup {Message(n)}
       /\ HookGoto(n, IF answer \in {"ok", "refused"} \/ hookTries'[n] = MaxTries
                      THEN "done" ELSE "backoff")
  /\ UNCHANGED <<hookVersion, hookEndpoint, hookMessage>>

BackOff(n) ==
  /\ hookPc[n] = "backoff"
  /\ HookGoto(n, "post")
  /\ UNCHANGED <<hookVersion, hookEndpoint, hookMessage, hookTries, hookReceived>>

Notify(n) ==
  ReadEvent(n) \/ ResolveRetailer(n) \/ ReadPayouts(n) \/ Post(n) \/ BackOff(n)

HookNext ==
  \/ UpdateSilently \/ ChangeEndpoint
  \/ \E n \in Notifications : Announce(n) \/ Notify(n)

HookSpec     == HookInit /\ [][HookNext]_hookVars
HookFairness == \A n \in Notifications : WF_hookVars(Notify(n))

--------------------------------------------------------------------------------
(* The copies of an event that its retries leave behind are one message:   *)
(* same endpoint, same body, however settlement and endpoint change        *)
(* between attempts.  That is what makes its id safe to deduplicate by.    *)
OneMessagePerEvent ==
  \A x, y \in hookReceived : x.event = y.event => x = y

(* An event never shows the settlement or its payouts as they were before  *)
(* the update it announces.                                                *)
PayloadIsCurrent ==
  \A x \in hookReceived :
    /\ x.body.settlement >= hookSince[x.event]
    /\ x.body.payouts >= x.body.settlement

(* The operation that announces an update is not held up for ever, whether *)
(* the retailer's server answers or not.                                   *)
NotifyReturns ==
  \A n \in Notifications : hookPc[n] = "settlement" ~> hookPc[n] = "done"
================================================================================
