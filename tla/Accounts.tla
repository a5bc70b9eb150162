-------------------------------- MODULE Accounts --------------------------------
(***************************************************************************)
(* ONE user account: registration, login, token refresh, logout, password  *)
(* reset by a one-time code, deletion.  Every call is a sequence of single *)
(* statements, and calls run at once.                                      *)
(*                                                                         *)
(* A token is accepted, as an access token by JwtStrategy and as a refresh *)
(* token by refresh alike, while the version it carries is the account's   *)
(* refreshTokenVersion; that tokens also expire is left out.  A password   *)
(* is known by how many resets came before it.                             *)
(***************************************************************************)
EXTENDS Integers, FiniteSets

CONSTANTS
  Calls,        \* requests handled at once
  Otps,         \* one-time codes the server may draw
  NoOtp,
  MaxChanges    \* bound on versions and on passwords

ASSUME AcctAssumption == NoOtp \notin Otps /\ MaxChanges \in Nat

VARIABLES
  acctUser,      \* the row: "none", "active" or "deleted"
  acctVersion,   \* refreshTokenVersion
  acctPassword,  \* the password passwordHash is of
  acctTokens,    \* tokens issued
  acctOtp,       \* the code's row: "none", "live", "used"; expired is "none"
  acctResets,    \* history: passwords set by each code
  acctDone,      \* history: the password when a reset or a logout last returned
  acctPc,        \* where each call is
  acctSeen,      \* the token it has been given or is to issue
  acctCode       \* the code it handles

acctRow  == <<acctUser, acctVersion, acctPassword>>
acctCall == <<acctSeen, acctCode>>
acctVars == <<acctRow, acctTokens, acctOtp, acctResets, acctDone, acctPc, acctCall>>

Generations == 0..MaxChanges

(* A token with, as history, the password of the login it comes from, and  *)
(* whether a refresh on the way there had read a version raised since.     *)
Tokens == [version : Generations, password : Generations, raced : BOOLEAN]
NoToken == [version |-> 0, password |-> 0, raced |-> FALSE]

(* Types.                                                                  *)
AcctTypeOK ==
  /\ acctUser \in {"none", "active", "deleted"}
  /\ acctVersion \in Generations /\ acctPassword \in Generations
  /\ acctTokens \in SUBSET Tokens
  /\ acctOtp \in [Otps -> {"none", "live", "used"}]
  /\ acctResets \in [Otps -> Nat]
  /\ acctDone \in Generations
  /\ acctPc \in [Calls -> {"idle", "register", "issue", "rotate", "revoke",
                           "otp", "mail", "consume", "password"}]
  /\ acctSeen \in [Calls -> Tokens]
  /\ acctCode \in [Calls -> Otps \cup {NoOtp}]

AcctInit ==
  /\ acctUser = "none"
  /\ acctVersion = 0 /\ acctPassword = 0 /\ acctDone = 0
  /\ acctTokens = {}
  /\ acctOtp = [o \in Otps |-> "none"]
  /\ acctResets = [o \in Otps |-> 0]
  /\ acctPc = [c \in Calls |-> "idle"]
  /\ acctSeen = [c \in Calls |-> NoToken]
  /\ acctCode = [c \in Calls |-> NoOtp]

--------------------------------------------------------------------------------
AcctGoto(c, step) == acctPc' = [acctPc EXCEPT ![c] = step] /\ UNCHANGED acctCall

(* A call returns; what it had in hand is forgotten.                        *)
AcctEnd(c) ==
  /\ acctPc' = [acctPc EXCEPT ![c] = "idle"]
  /\ acctSeen' = [acctSeen EXCEPT ![c] = NoToken]
  /\ acctCode' = [acctCode EXCEPT ![c] = NoOtp]
Active   == acctUser = "active"
Valid(t) == Active /\ t.version = acctVersion
Room     == acctVersion < MaxChanges   \* a bound, not a guard of the code

(* registerBeforeOnboarding, registerOnboardedUser, registerAdmin: neither *)
(* the email nor the username is taken.                                    *)
Register(c) ==
  /\ acctPc[c] = "idle" /\ acctUser = "none"
  /\ AcctGoto(c, "register")
  /\ UNCHANGED <<acctRow, acctTokens, acctOtp, acctResets, acctDone>>

(* createUser; of two that have found no user, one breaks a unique key.    *)
CreateUser(c) ==
  /\ acctPc[c] = "register"
  /\ acctUser' = IF acctUser = "none" THEN "active" ELSE acctUser
  /\ AcctEnd(c)
  /\ UNCHANGED <<acctVersion, acctPassword, acctTokens, acctOtp, acctResets, acctDone>>

(* login reads the user and compares the password.                         *)
Login(c) ==
  /\ acctPc[c] = "idle" /\ Active
  /\ acctSeen' = [acctSeen EXCEPT ![c] =
       [version |-> acctVersion, password |-> acctPassword, raced |-> FALSE]]
  /\ acctPc' = [acctPc EXCEPT ![c] = "issue"]
  /\ UNCHANGED <<acctRow, acctTokens, acctOtp, acctResets, acctDone, acctCode>>

(* issueTokens, of the user as it was read.                                *)
IssueTokens(c) ==
  /\ acctPc[c] = "issue"
  /\ acctTokens' = acctTokens \cup {acctSeen[c]}
  /\ AcctEnd(c)
  /\ UNCHANGED <<acctRow, acctOtp, acctResets, acctDone>>

(* refresh checks the version, in one statement,                           *)
Refresh(c) ==
  /\ acctPc[c] = "idle"
  /\ \E t \in acctTokens : Valid(t) /\ acctSeen' = [acctSeen EXCEPT ![c] = t]
  /\ acctPc' = [acctPc EXCEPT ![c] = "rotate"]
  /\ UNCHANGED <<acctRow, acctTokens, acctOtp, acctResets, acctDone, acctCode>>

(* Mutant: the version read is written back, one higher.                   *)
RotateRead(c) ==
  /\ acctPc[c] = "rotate"
  /\ acctSeen[c].version < MaxChanges
  /\ IF Active
       THEN LET next == acctSeen[c].version + 1
            IN  /\ acctVersion' = next
                /\ acctTokens' = acctTokens \cup {[acctSeen[c] EXCEPT !.version = next]}
       ELSE UNCHANGED <<acctVersion, acctTokens>>
  /\ AcctEnd(c)
  /\ UNCHANGED <<acctUser, acctPassword, acctOtp, acctResets, acctDone>>

(* and increments it in another, issuing tokens of the version that made.  *)
Rotate(c) ==
  /\ acctPc[c] = "rotate"
  /\ Room
  /\ IF Active
       THEN /\ acctVersion' = acctVersion + 1
            /\ acctTokens' = acctTokens \cup
                 {[version |-> acctVersion + 1, password |-> acctSeen[c].password,
                   raced |-> acctSeen[c].raced \/ acctSeen[c].version # acctVersion]}
       ELSE UNCHANGED <<acctVersion, acctTokens>>
  /\ AcctEnd(c)
  /\ UNCHANGED <<acctUser, acctPassword, acctOtp, acctResets, acctDone>>

(* logout, with a token the guard has accepted.                            *)
Logout(c) ==
  /\ acctPc[c] = "idle"
  /\ \E t \in acctTokens : Valid(t)
  /\ AcctGoto(c, "revoke")
  /\ UNCHANGED <<acctRow, acctTokens, acctOtp, acctResets, acctDone>>

(* incrementRefreshTokenVersion, of logout and of a reset.                 *)
Revoke(c) ==
  /\ acctPc[c] = "revoke"
  /\ Room
  /\ IF Active
       THEN acctVersion' = acctVersion + 1 /\ acctDone' = acctPassword
       ELSE UNCHANGED <<acctVersion, acctDone>>
  /\ AcctEnd(c)
  /\ UNCHANGED <<acctUser, acctPassword, acctTokens, acctOtp, acctResets>>

--------------------------------------------------------------------------------
DeleteOtps == acctOtp' = [o \in Otps |-> IF acctOtp[o] = "live" THEN "none" ELSE acctOtp[o]]

(* requestPasswordReset: delete the user's codes, create one, mail it, and *)
(* delete them again if it cannot be mailed.                               *)
RequestReset(c) ==
  /\ acctPc[c] = "idle" /\ Active
  /\ DeleteOtps
  /\ AcctGoto(c, "otp")
  /\ UNCHANGED <<acctRow, acctTokens, acctResets, acctDone>>

CreateOtp(c) ==
  /\ acctPc[c] = "otp"
  /\ \/ /\ Active
        /\ \E o \in Otps : acctOtp[o] = "none" /\ acctResets[o] = 0
                           /\ acctOtp' = [acctOtp EXCEPT ![o] = "live"]
        /\ AcctGoto(c, "mail")
     \/ /\ ~Active \/ \A o \in Otps : acctOtp[o] # "none" \/ acctResets[o] # 0
        /\ AcctEnd(c) /\ UNCHANGED acctOtp
  /\ UNCHANGED <<acctRow, acctTokens, acctResets, acctDone>>

SendEmail(c) ==
  /\ acctPc[c] = "mail"
  /\ \/ AcctEnd(c) /\ UNCHANGED acctOtp
     \/ AcctEnd(c) /\ DeleteOtps
  /\ UNCHANGED <<acctRow, acctTokens, acctResets, acctDone>>

ExpireOtp(o) ==
  /\ acctOtp[o] = "live"
  /\ acctOtp' = [acctOtp EXCEPT ![o] = "none"]
  /\ UNCHANGED <<acctRow, acctTokens, acctResets, acctDone, acctPc, acctCall>>

(* resetPassword: find the code, ...                                       *)
FindOtp(c, o) ==
  /\ acctPc[c] = "idle" /\ Active
  /\ acctOtp[o] = "live"
  /\ acctCode' = [acctCode EXCEPT ![c] = o]
  /\ acctPc' = [acctPc EXCEPT ![c] = "consume"]
  /\ UNCHANGED <<acctRow, acctTokens, acctOtp, acctResets, acctDone, acctSeen>>

(* Mutant: the code found is marked used by its id.                        *)
ConsumeAny(c) ==
  /\ acctPc[c] = "consume"
  /\ acctOtp' = [acctOtp EXCEPT ![acctCode[c]] = "used"]
  /\ AcctGoto(c, "password")
  /\ UNCHANGED <<acctRow, acctTokens, acctResets, acctDone>>

(* ... mark it used if it is still unused and not expired, ...             *)
ConsumeOtp(c) ==
  /\ acctPc[c] = "consume"
  /\ IF acctOtp[acctCode[c]] = "live"
       THEN acctOtp' = [acctOtp EXCEPT ![acctCode[c]] = "used"] /\ AcctGoto(c, "password")
       ELSE acctOtp' = acctOtp /\ AcctEnd(c)
  /\ UNCHANGED <<acctRow, acctTokens, acctResets, acctDone>>

(* Mutant: the reset ends here.                                            *)
UpdatePasswordOnly(c) ==
  /\ acctPc[c] = "password"
  /\ acctPassword < MaxChanges
  /\ acctPassword' = IF Active THEN acctPassword + 1 ELSE acctPassword
  /\ acctResets' = [acctResets EXCEPT ![acctCode[c]] = @ + 1]
  /\ acctDone' = acctPassword'
  /\ AcctEnd(c)
  /\ UNCHANGED <<acctUser, acctVersion, acctTokens, acctOtp>>

(* ... write the new password, and in another statement the version.       *)
UpdatePassword(c) ==
  /\ acctPc[c] = "password"
  /\ acctPassword < MaxChanges
  /\ IF Active
       THEN /\ acctPassword' = acctPassword + 1
            /\ acctResets' = [acctResets EXCEPT ![acctCode[c]] = @ + 1]
            /\ AcctGoto(c, "revoke")
       ELSE UNCHANGED <<acctPassword, acctResets>> /\ AcctEnd(c)
  /\ UNCHANGED <<acctUser, acctVersion, acctTokens, acctOtp, acctDone>>

(* A write of the user's row fails and ends the call: of a reset whose     *)
(* password is written, that leaves the tokens as they are.                *)
FailUserWrite(c) ==
  /\ acctPc[c] \in {"rotate", "revoke", "password"}
  /\ AcctEnd(c)
  /\ UNCHANGED <<acctRow, acctTokens, acctOtp, acctResets, acctDone>>

(* deleteUser takes the codes with it; updates of the user then throw.     *)
DeleteUser ==
  /\ Active
  /\ acctUser' = "deleted"
  /\ DeleteOtps
  /\ UNCHANGED <<acctVersion, acctPassword, acctTokens, acctResets, acctDone, acctPc, acctCall>>

AcctNext ==
  \/ \E c \in Calls :
       \/ Register(c) \/ CreateUser(c) \/ Login(c) \/ IssueTokens(c)
       \/ Refresh(c) \/ Rotate(c) \/ Logout(c) \/ Revoke(c)
       \/ RequestReset(c) \/ CreateOtp(c) \/ SendEmail(c)
       \/ ConsumeOtp(c) \/ UpdatePassword(c) \/ FailUserWrite(c)
       \/ \E o \in Otps : FindOtp(c, o)
  \/ \E o \in Otps : ExpireOtp(o)
  \/ DeleteUser

AcctSpec == AcctInit /\ [][AcctNext]_acctVars

--------------------------------------------------------------------------------
(* A token that has been refused, because of a logout, a reset, a rotation *)
(* or the account's end, is never accepted again, whatever increments race. *)
VoidStaysVoid == [][\A t \in acctTokens : ~Valid(t) => ~Valid(t)']_acctVars

(* When a reset has returned, no token that is accepted goes back to a     *)
(* login with an earlier password, by whatever chain of refreshes and also *)
(* if that login was under way; except through a refresh that had read the *)
(* version before it was raised and raised it again after.                 *)
OldLoginsAreVoid ==
  \A t \in acctTokens : Valid(t) => t.raced \/ t.password >= acctDone

(* AUTH_MODULE.md:320-322, "After a successful reset, all existing refresh *)
(* tokens are invalidated": the same without the exception.  It fails:     *)
(* refresh compares the version in one statement and raises it in another. *)
ResetVoidsAll ==
  \A t \in acctTokens : Valid(t) => t.password >= acctDone

(* A code sets one password, however often and at once it is sent.         *)
OtpSingleUse == \A o \in Otps : acctResets[o] <= 1
================================================================================
