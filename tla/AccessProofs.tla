----------------------------- MODULE AccessProofs ------------------------------
(***************************************************************************)
(* Proofs about Accounts and Onboarding: for any number of calls handled at *)
(* once, of one-time codes, of fields and of submissions.                  *)
(***************************************************************************)
EXTENDS Accounts, Onboarding, TLAPS

--------------------------------------------------------------------------------
(* Accounts.                                                               *)

(* No token, issued or in hand, is ahead of the row; a user that does not  *)
(* exist yet has none.                                                     *)
VersionInv ==
  /\ \A t \in acctTokens : t.version <= acctVersion
  /\ \A c \in Calls : acctSeen[c].version <= acctVersion
  /\ acctUser = "none" => /\ acctTokens = {}
                          /\ \A c \in Calls : acctPc[c] \in {"idle", "register"}

(* A token that is accepted is not of a password before the last reset's,  *)
(* unless a refresh has raced; nor is one that is to be issued, and what   *)
(* is to be refreshed.                                                     *)
Current(t) == Valid(t) => t.raced \/ t.password >= acctDone

LoginInv ==
  /\ acctDone <= acctPassword
  /\ \A t \in acctTokens : Current(t)
  /\ \A c \in Calls : acctPc[c] \in {"issue", "rotate"} => Current(acctSeen[c])

(* A call that is about to set a password has used its code up, alone.     *)
OtpInv ==
  /\ \A o \in Otps : acctResets[o] <= 1
  /\ \A o \in Otps : acctOtp[o] # "used" => acctResets[o] = 0
  /\ \A c \in Calls : acctPc[c] \in {"consume", "password"} => acctCode[c] \in Otps
  /\ \A c \in Calls : acctPc[c] = "password" =>
       acctOtp[acctCode[c]] = "used" /\ acctResets[acctCode[c]] = 0
  /\ \A c, d \in Calls : acctPc[c] = "password" /\ acctPc[d] = "password"
                         /\ acctCode[c] = acctCode[d] => c = d

AcctInv == AcctTypeOK /\ VersionInv /\ LoginInv /\ OtpInv

LEMMA AcctInvInit == AcctInit => AcctInv
<1> SUFFICES ASSUME AcctInit PROVE AcctInv
  OBVIOUS
<1>1. 0 \in Generations
  BY AcctAssumption DEF Generations
<1>2. AcctTypeOK
  BY <1>1 DEF AcctInit, AcctTypeOK, Tokens, NoToken
<1>3. VersionInv /\ LoginInv /\ OtpInv
  BY DEF AcctInit, VersionInv, LoginInv, OtpInv, NoToken
<1> QED
  BY <1>2, <1>3 DEF AcctInv

--------------------------------------------------------------------------------
(* Types.                                                                  *)
LEMMA AcctTypes == AcctTypeOK /\ [AcctNext]_acctVars => AcctTypeOK'
<1> SUFFICES ASSUME AcctTypeOK, [AcctNext]_acctVars PROVE AcctTypeOK'
  OBVIOUS
<1>0. NoToken \in Tokens
  BY AcctAssumption DEF NoToken, Tokens, Generations
<1> USE AcctAssumption, <1>0
    DEF AcctTypeOK, acctRow, acctCall, AcctGoto, AcctEnd, DeleteOtps, Active
<1>1. ASSUME NEW c \in Calls, Register(c) \/ CreateUser(c) PROVE AcctTypeOK'
  BY <1>1 DEF Register, CreateUser
<1>2. ASSUME NEW c \in Calls, Login(c) \/ IssueTokens(c) PROVE AcctTypeOK'
  <2>1. [version |-> acctVersion, password |-> acctPassword, raced |-> FALSE] \in Tokens
    BY DEF Tokens
  <2>2. CASE Login(c)
    BY <2>1, <2>2 DEF Login
  <2>3. CASE IssueTokens(c)
    BY <2>3 DEF IssueTokens
  <2> QED
    BY <1>2, <2>2, <2>3
<1>3. ASSUME NEW c \in Calls, Refresh(c) \/ Logout(c) PROVE AcctTypeOK'
  BY <1>3 DEF Refresh, Logout
<1>4. ASSUME NEW c \in Calls, Rotate(c) PROVE AcctTypeOK'
  <2>1. acctVersion + 1 \in Generations
    BY <1>4 DEF Rotate, Room, Generations
  <2>2. [version |-> acctVersion + 1, password |-> acctSeen[c].password,
         raced |-> acctSeen[c].raced \/ acctSeen[c].version # acctVersion] \in Tokens
    BY <2>1 DEF Tokens
  <2> QED
    BY <1>4, <2>1, <2>2 DEF Rotate
<1>5. ASSUME NEW c \in Calls, Revoke(c) PROVE AcctTypeOK'
  <2>1. acctVersion + 1 \in Generations
    BY <1>5 DEF Revoke, Room, Generations
  <2> QED
    BY <1>5, <2>1 DEF Revoke
<1>6. ASSUME NEW c \in Calls, RequestReset(c) \/ CreateOtp(c) \/ SendEmail(c)
      PROVE  AcctTypeOK'
  BY <1>6 DEF RequestReset, CreateOtp, SendEmail
<1>7. ASSUME NEW c \in Calls,
             ConsumeOtp(c) \/ FailUserWrite(c) \/ \E o \in Otps : FindOtp(c, o)
      PROVE  AcctTypeOK'
  BY <1>7 DEF ConsumeOtp, FailUserWrite, FindOtp
<1>8. ASSUME NEW c \in Calls, UpdatePassword(c) PROVE AcctTypeOK'
  <2>1. acctPassword + 1 \in Generations
    BY <1>8 DEF UpdatePassword, Generations
  <2> QED
    BY <1>8, <2>1 DEF UpdatePassword
<1>9. ASSUME DeleteUser \/ \E o \in Otps : ExpireOtp(o) PROVE AcctTypeOK'
  BY <1>9 DEF DeleteUser, ExpireOtp
<1>10. CASE UNCHANGED acctVars
  BY <1>10 DEF acctVars
<1> QED
  BY <1>1, <1>2, <1>3, <1>4, <1>5, <1>6, <1>7, <1>8, <1>9, <1>10 DEF AcctNext

(* The version only grows, and with it go the tokens.                      *)
LEMMA AcctVersions == AcctInv /\ [AcctNext]_acctVars => VersionInv' /\ acctVersion <= acctVersion'
<1> SUFFICES ASSUME AcctInv, [AcctNext]_acctVars
             PROVE  VersionInv' /\ acctVersion <= acctVersion'
  OBVIOUS
<1> USE DEF AcctInv, AcctTypeOK, VersionInv, acctRow, acctCall, AcctGoto, AcctEnd, NoToken, Active, Tokens, Generations
<1>1. ASSUME NEW c \in Calls, Register(c) \/ CreateUser(c)
      PROVE  VersionInv' /\ acctVersion <= acctVersion'
  BY <1>1 DEF Register, CreateUser
<1>2. ASSUME NEW c \in Calls, Login(c) \/ IssueTokens(c) \/ Refresh(c) \/ Logout(c)
      PROVE  VersionInv' /\ acctVersion <= acctVersion'
  BY <1>2 DEF Login, IssueTokens, Refresh, Logout, Valid
<1>3. ASSUME NEW c \in Calls, Rotate(c) \/ Revoke(c)
      PROVE  VersionInv' /\ acctVersion <= acctVersion'
  BY <1>3 DEF Rotate, Revoke
<1>4. ASSUME NEW c \in Calls, RequestReset(c) \/ CreateOtp(c) \/ SendEmail(c)
      PROVE  VersionInv' /\ acctVersion <= acctVersion'
  BY <1>4 DEF RequestReset, CreateOtp, SendEmail
<1>5. ASSUME NEW c \in Calls,
             \/ ConsumeOtp(c) \/ UpdatePassword(c) \/ FailUserWrite(c)
             \/ \E o \in Otps : FindOtp(c, o)
      PROVE  VersionInv' /\ acctVersion <= acctVersion'
  BY <1>5 DEF ConsumeOtp, UpdatePassword, FailUserWrite, FindOtp
<1>6. ASSUME DeleteUser \/ \E o \in Otps : ExpireOtp(o)
      PROVE  VersionInv' /\ acctVersion <= acctVersion'
  BY <1>6 DEF DeleteUser, ExpireOtp
<1>7. CASE UNCHANGED acctVars
  BY <1>7 DEF acctVars
<1> QED
  BY <1>1, <1>2, <1>3, <1>4, <1>5, <1>6, <1>7 DEF AcctNext

(* Raising the version refuses every token there is; the token of a        *)
(* refresh is then as current as the one it was given for.                 *)
LEMMA AcctLogins == AcctInv /\ [AcctNext]_acctVars => LoginInv'
<1> SUFFICES ASSUME AcctInv, [AcctNext]_acctVars PROVE LoginInv'
  OBVIOUS
<1> USE DEF AcctInv, AcctTypeOK, VersionInv, LoginInv, Current, Valid, Active,
            acctRow, acctCall, AcctGoto, AcctEnd, NoToken
<1>1. ASSUME NEW c \in Calls, Register(c) \/ CreateUser(c) PROVE LoginInv'
  BY <1>1 DEF Register, CreateUser
<1>2. ASSUME NEW c \in Calls, Login(c) \/ IssueTokens(c) PROVE LoginInv'
  BY <1>2 DEF Login, IssueTokens
<1>3. ASSUME NEW c \in Calls, Refresh(c) \/ Logout(c) PROVE LoginInv'
  BY <1>3 DEF Refresh, Logout
<1>4. ASSUME NEW c \in Calls, Rotate(c) PROVE LoginInv'
  <2>1. ASSUME Active PROVE \A t \in acctTokens : ~Valid(t)'
    BY <1>4, <2>1 DEF Rotate, Tokens, Generations
  <2>2. ASSUME Active PROVE \A d \in Calls : ~Valid(acctSeen[d])'
    BY <1>4, <2>2 DEF Rotate, Tokens, Generations
  <2> DEFINE new == [version |-> acctVersion + 1, password |-> acctSeen[c].password,
                     raced |-> acctSeen[c].raced \/ acctSeen[c].version # acctVersion]
  <2>3. ASSUME Active PROVE new.raced \/ new.password >= acctDone
    BY <1>4, <2>3 DEF Rotate, Tokens
  <2>4. CASE Active
    <3>1. acctTokens' = acctTokens \cup {new} /\ acctDone' = acctDone
      BY <1>4, <2>4 DEF Rotate
    <3>2. acctDone' <= acctPassword'
      BY <1>4, <2>4 DEF Rotate
    <3> HIDE DEF new
    <3>3. \A t \in acctTokens' : Current(t)'
      BY <2>1, <2>3, <2>4, <3>1
    <3> QED
      BY <2>2, <2>4, <3>2, <3>3
  <2> QED
    BY <1>4, <2>4 DEF Rotate
<1>5. ASSUME NEW c \in Calls, Revoke(c) PROVE LoginInv'
  <2>1. ASSUME Active
        PROVE  /\ \A t \in acctTokens : ~Valid(t)'
               /\ \A d \in Calls : ~Valid(acctSeen[d])'
    BY <1>5, <2>1 DEF Revoke, Tokens, Generations
  <2>2. acctDone' <= acctPassword'
    BY <1>5 DEF Revoke, Generations
  <2> QED
    BY <1>5, <2>1, <2>2 DEF Revoke
<1>6. ASSUME NEW c \in Calls, RequestReset(c) \/ CreateOtp(c) \/ SendEmail(c)
      PROVE  LoginInv'
  BY <1>6 DEF RequestReset, CreateOtp, SendEmail
<1>7. ASSUME NEW c \in Calls,
             \/ ConsumeOtp(c) \/ UpdatePassword(c) \/ FailUserWrite(c)
             \/ \E o \in Otps : FindOtp(c, o)
      PROVE  LoginInv'
  <2>1. acctDone' <= acctPassword'
    BY <1>7 DEF ConsumeOtp, UpdatePassword, FailUserWrite, FindOtp, Generations
  <2> QED
    BY <1>7, <2>1 DEF ConsumeOtp, UpdatePassword, FailUserWrite, FindOtp
<1>8. ASSUME DeleteUser \/ \E o \in Otps : ExpireOtp(o) PROVE LoginInv'
  BY <1>8 DEF DeleteUser, ExpireOtp
<1>9. CASE UNCHANGED acctVars
  BY <1>9 DEF acctVars
<1> QED
  BY <1>1, <1>2, <1>3, <1>4, <1>5, <1>6, <1>7, <1>8, <1>9 DEF AcctNext

(* A code that is used stays used.                                         *)
LEMMA AcctOtps == AcctInv /\ [AcctNext]_acctVars => OtpInv'
<1> SUFFICES ASSUME AcctInv, [AcctNext]_acctVars PROVE OtpInv'
  OBVIOUS
<1> USE DEF AcctInv, AcctTypeOK, OtpInv, acctRow, acctCall, AcctGoto, AcctEnd, NoToken, Active, DeleteOtps
<1>1. ASSUME NEW c \in Calls, Register(c) \/ CreateUser(c) \/ Login(c) \/ IssueTokens(c)
      PROVE  OtpInv'
  BY <1>1 DEF Register, CreateUser, Login, IssueTokens
<1>2. ASSUME NEW c \in Calls, Refresh(c) \/ Rotate(c) \/ Logout(c) \/ Revoke(c)
      PROVE  OtpInv'
  BY <1>2 DEF Refresh, Rotate, Logout, Revoke
<1>3. ASSUME NEW c \in Calls, RequestReset(c) \/ CreateOtp(c) \/ SendEmail(c)
      PROVE  OtpInv'
  BY <1>3 DEF RequestReset, CreateOtp, SendEmail
<1>4. ASSUME NEW c \in Calls, ConsumeOtp(c) \/ FailUserWrite(c) PROVE OtpInv'
  BY <1>4 DEF ConsumeOtp, FailUserWrite
<1>5. ASSUME NEW c \in Calls, UpdatePassword(c) PROVE OtpInv'
  BY <1>5 DEF UpdatePassword
<1>6. ASSUME NEW c \in Calls, NEW o \in Otps, FindOtp(c, o) PROVE OtpInv'
  BY <1>6 DEF FindOtp
<1>7. ASSUME DeleteUser \/ \E o \in Otps : ExpireOtp(o) PROVE OtpInv'
  BY <1>7 DEF DeleteUser, ExpireOtp
<1>8. CASE UNCHANGED acctVars
  BY <1>8 DEF acctVars
<1> QED
  BY <1>1, <1>2, <1>3, <1>4, <1>5, <1>6, <1>7, <1>8 DEF AcctNext

LEMMA AcctInductive == AcctInv /\ [AcctNext]_acctVars => AcctInv'
  BY AcctTypes, AcctVersions, AcctLogins, AcctOtps DEF AcctInv

--------------------------------------------------------------------------------
(* Every variable of the account keeps its type.                           *)
THEOREM AcctTyping == AcctSpec => []AcctTypeOK
<1>1. AcctInv => AcctTypeOK
  BY DEF AcctInv
<1> QED
  BY <1>1, AcctInvInit, AcctInductive, PTL DEF AcctSpec

(* After a reset the only tokens accepted that go back to a login with an  *)
(* earlier password come of a refresh that had read the version before.    *)
THEOREM LoginsVoid == AcctSpec => []OldLoginsAreVoid
<1>1. AcctInv => OldLoginsAreVoid
  BY DEF AcctInv, LoginInv, Current, OldLoginsAreVoid
<1> QED
  BY <1>1, AcctInvInit, AcctInductive, PTL DEF AcctSpec

(* A code sets at most one password.                                       *)
THEOREM OtpOnce == AcctSpec => []OtpSingleUse
<1>1. AcctInv => OtpSingleUse
  BY DEF AcctInv, OtpInv, OtpSingleUse
<1> QED
  BY <1>1, AcctInvInit, AcctInductive, PTL DEF AcctSpec

(* A token refused once is refused for ever.                               *)
THEOREM Void == AcctSpec => VoidStaysVoid
<1>1. AcctInv /\ [AcctNext]_acctVars =>
        [\A t \in acctTokens : ~Valid(t) => ~Valid(t)']_acctVars
  <2> SUFFICES ASSUME AcctInv, [AcctNext]_acctVars, NEW t \in acctTokens, ~Valid(t)
               PROVE  ~Valid(t)'
    OBVIOUS
  <2>1. acctUser # "none" /\ t.version <= acctVersion /\ acctVersion <= acctVersion'
    BY AcctVersions DEF AcctInv, VersionInv
  <2>2. t.version \in Int /\ acctVersion \in Int /\ acctVersion' \in Int
    BY AcctTypes DEF AcctInv, AcctTypeOK, Tokens, Generations
  <2>3. acctUser' = "active" => acctUser = "active"
    <3>1. acctUser' = acctUser \/ acctUser' = "deleted" \/ acctUser = "none"
      BY DEF AcctNext, acctVars, acctRow, acctCall, Register, CreateUser, Login, IssueTokens,
             Refresh, Rotate, Logout, Revoke, RequestReset, CreateOtp, SendEmail, ConsumeOtp,
             UpdatePassword, FailUserWrite, FindOtp, ExpireOtp, DeleteUser
    <3> QED
      BY <2>1, <3>1
  <2> QED
    BY <2>1, <2>2, <2>3 DEF Valid, Active
<1> QED
  BY <1>1, AcctInvInit, AcctInductive, PTL DEF AcctSpec, VoidStaysVoid

--------------------------------------------------------------------------------
(* Onboarding.                                                             *)

(* A copy of the column that is to be written back as verified is of a     *)
(* destination whose secret was given, and so is a verified one.           *)
SecretInv ==
  /\ VerifiedByItsSecret
  /\ onbPayment.status # "NONE" => onbPayment.dest \in Destinations
  /\ \A c \in OnbCalls :
       /\ onbPc[c] \in {"verify", "attempt"} => onbView[c].payment.dest \in Destinations
       /\ onbView[c].payment.status = "VERIFIED" => onbView[c].payment.dest \in onbProved
       /\ onbPc[c] = "verify" => onbView[c].payment.dest \in onbProved
       /\ onbPc[c] = "live" => onbProved # {}

OnbInv == OnbTypeOK /\ SecretInv

(* Values that calls start from.                                           *)
LEMMA Values ==
  /\ NoPayment \in Payments
  /\ \A d \in Destinations :
       Pending(d) \in Payments /\ Pending(d).status # "VERIFIED" /\ Pending(d).dest = d
  /\ \A p \in Payments :
       /\ [p EXCEPT !.status = "VERIFIED"] \in Payments
       /\ [p EXCEPT !.status = "VERIFIED"].dest = p.dest
  /\ NoView \in [fields : SUBSET Fields, payment : Payments]
  /\ NoView.payment.status = "NONE"
  /\ NoPayment.status = "NONE"
<1>1. NoPayment \in Payments /\ NoPayment.status = "NONE"
  BY DEF NoPayment, Payments
<1>2. NoView \in [fields : SUBSET Fields, payment : Payments] /\ NoView.payment = NoPayment
  BY <1>1 DEF NoView
<1> QED
  BY <1>1, <1>2 DEF Payments, Pending

LEMMA NoDataType == NoData \in [field : Fields, filled : BOOLEAN]
<1> DEFINE f == CHOOSE g \in Fields : TRUE
<1>1. f \in Fields
  BY OnbAssumption
<1>2. NoData = [field |-> f, filled |-> FALSE]
  BY DEF NoData
<1> HIDE DEF f
<1> QED
  BY <1>1, <1>2

LEMMA OnbInvInit == OnbInit => OnbInv
  BY Values, NoDataType DEF OnbInit, OnbInv, OnbTypeOK, SecretInv, VerifiedByItsSecret

--------------------------------------------------------------------------------
(* Types.                                                                  *)
LEMMA OnbTypes == OnbInv /\ [OnbNext]_onbVars => OnbTypeOK'
<1> SUFFICES ASSUME OnbTypeOK, SecretInv, [OnbNext]_onbVars PROVE OnbTypeOK'
  BY DEF OnbInv
<1> USE DEF OnbTypeOK, OnbGoto, OnbDone, ReadFields, ReadPayment, onbProfile, onbSecrets, onbCall
<1>1. ASSUME NEW c \in OnbCalls, CreateParticipant(c) PROVE OnbTypeOK'
  BY <1>1, Values DEF CreateParticipant, StatusFor
<1>2. ASSUME NEW c \in OnbCalls, ReadProfile(c) PROVE OnbTypeOK'
  BY <1>2 DEF ReadProfile
<1>3. ASSUME NEW c \in OnbCalls, WriteProfile(c) PROVE OnbTypeOK'
  <2>1. onbFields' \in SUBSET Fields
    BY <1>3 DEF WriteProfile, Changed
  <2>2. onbPayment' \in Payments /\ onbUsed' \in SUBSET Destinations
    BY <1>3, Values DEF WriteProfile
  <2>3. onbStatus' \in {"NONE", "DRAFT", "DOCUMENTS_SUBMITTED", "LIVE", "DELETED"}
    BY <1>3 DEF WriteProfile, StatusFor
  <2>4. /\ onbData' \in [OnbCalls -> [field : Fields, filled : BOOLEAN]]
        /\ onbView' \in [OnbCalls -> [fields : SUBSET Fields, payment : Payments]]
    <3>1. UNCHANGED onbCall \/ OnbDone(c)
      BY <1>3 DEF WriteProfile
    <3>2. CASE OnbDone(c)
      BY <3>2, Values, NoDataType
    <3>3. CASE UNCHANGED onbCall
      BY <3>3
    <3> QED
      BY <3>1, <3>2, <3>3
  <2>5. /\ UNCHANGED <<onbLapsed, onbProved, onbKeys, onbActive>>
        /\ onbPc' = [onbPc EXCEPT ![c] = "activity"] \/ onbPc' = [onbPc EXCEPT ![c] = "idle"]
    BY <1>3 DEF WriteProfile
  <2> QED
    BY <2>1, <2>2, <2>3, <2>4, <2>5
<1>4. ASSUME NEW c \in OnbCalls, WriteActivity(c) PROVE OnbTypeOK'
  BY <1>4, Values, NoDataType DEF WriteActivity
<1>5. ASSUME NEW c \in OnbCalls, CheckSecret(c) PROVE OnbTypeOK'
  <2>1. onbPayment.dest \in Destinations
    BY <1>5 DEF CheckSecret, SecretInv
  <2>2. onbProved' \in SUBSET Destinations
    BY <1>5, <2>1 DEF CheckSecret
  <2> QED
    BY <1>5, <2>2 DEF CheckSecret
<1>6. ASSUME NEW c \in OnbCalls, WriteVerified(c) \/ WriteAttempt(c) PROVE OnbTypeOK'
  <2>1. onbPayment' \in Payments
    BY <1>6, Values DEF WriteVerified, WriteAttempt
  <2>2. OnbDone(c) /\ UNCHANGED <<onbProfile, onbSecrets, onbProved, onbKeys, onbActive>>
    BY <1>6 DEF WriteVerified, WriteAttempt
  <2> QED
    BY <2>1, <2>2, Values, NoDataType
<1>7. ASSUME NEW c \in OnbCalls, LookupKeys(c) \/ ReadForKeys(c) PROVE OnbTypeOK'
  BY <1>7 DEF LookupKeys, ReadForKeys
<1>8. ASSUME NEW c \in OnbCalls, CreateIntegration(c) PROVE OnbTypeOK'
  BY <1>8, Values, NoDataType DEF CreateIntegration
<1>9. ASSUME NEW c \in OnbCalls, CheckBusiness(c) \/ WriteLive(c) PROVE OnbTypeOK'
  <2>1. CASE CheckBusiness(c)
    BY <2>1 DEF CheckBusiness
  <2>2. CASE WriteLive(c)
    BY <2>2, Values, NoDataType DEF WriteLive
  <2> QED
    BY <1>9, <2>1, <2>2
<1>10. ASSUME NEW c \in OnbCalls, NEW d \in Destinations, UpdatePayment(c, d)
       PROVE  OnbTypeOK'
  BY <1>10, Values DEF UpdatePayment
<1>11. ASSUME NEW d \in Destinations, LapseSecret(d) PROVE OnbTypeOK'
  BY <1>11 DEF LapseSecret
<1>12. CASE DeleteParticipant
  BY <1>12, Values DEF DeleteParticipant
<1>13. CASE UNCHANGED onbVars
  BY <1>13 DEF onbVars
<1> QED
  BY <1>1, <1>2, <1>3, <1>4, <1>5, <1>6, <1>7, <1>8, <1>9, <1>10, <1>11, <1>12, <1>13
  DEF OnbNext

(* No call writes back more than was proved.                               *)
LEMMA Secrets == OnbInv /\ [OnbNext]_onbVars => SecretInv'
<1> SUFFICES ASSUME OnbTypeOK, SecretInv, [OnbNext]_onbVars PROVE SecretInv'
  BY DEF OnbInv
<1> USE DEF OnbTypeOK, SecretInv, VerifiedByItsSecret, OnbGoto, OnbDone, ReadFields, ReadPayment,
            onbProfile, onbSecrets, onbCall
<1>1. ASSUME NEW c \in OnbCalls, CreateParticipant(c) PROVE SecretInv'
  BY <1>1, Values DEF CreateParticipant, StatusFor
<1>2. ASSUME NEW c \in OnbCalls, ReadProfile(c) PROVE SecretInv'
  BY <1>2 DEF ReadProfile
<1>3. ASSUME NEW c \in OnbCalls, WriteProfile(c) PROVE SecretInv'
  BY <1>3, Values DEF WriteProfile, StatusFor
<1>4. ASSUME NEW c \in OnbCalls, WriteActivity(c) PROVE SecretInv'
  BY <1>4, Values DEF WriteActivity
<1>5. ASSUME NEW c \in OnbCalls, CheckSecret(c) PROVE SecretInv'
  BY <1>5 DEF CheckSecret
<1>6. ASSUME NEW c \in OnbCalls, WriteVerified(c) PROVE SecretInv'
  BY <1>6, Values DEF WriteVerified
<1>7. ASSUME NEW c \in OnbCalls, WriteAttempt(c) PROVE SecretInv'
  BY <1>7, Values DEF WriteAttempt
<1>8. ASSUME NEW c \in OnbCalls, LookupKeys(c) \/ ReadForKeys(c) PROVE SecretInv'
  BY <1>8 DEF LookupKeys, ReadForKeys
<1>9. ASSUME NEW c \in OnbCalls, CreateIntegration(c) PROVE SecretInv'
  BY <1>9, Values DEF CreateIntegration
<1>10. ASSUME NEW c \in OnbCalls, CheckBusiness(c) \/ WriteLive(c) PROVE SecretInv'
  BY <1>10, Values DEF CheckBusiness, WriteLive
<1>11. ASSUME NEW c \in OnbCalls, NEW d \in Destinations, UpdatePayment(c, d)
       PROVE  SecretInv'
  BY <1>11, Values DEF UpdatePayment
<1>12. ASSUME NEW d \in Destinations, LapseSecret(d) PROVE SecretInv'
  BY <1>12 DEF LapseSecret
<1>13. CASE DeleteParticipant
  BY <1>13, Values DEF DeleteParticipant
<1>14. CASE UNCHANGED onbVars
  BY <1>14 DEF onbVars
<1> QED
  BY <1>1, <1>2, <1>3, <1>4, <1>5, <1>6, <1>7, <1>8, <1>9, <1>10, <1>11, <1>12, <1>13, <1>14
  DEF OnbNext

LEMMA OnbInvNext == OnbInv /\ [OnbNext]_onbVars => OnbInv'
  BY OnbTypes, Secrets DEF OnbInv

--------------------------------------------------------------------------------
(* Every variable of the participant keeps its type.                       *)
THEOREM OnbTyping == OnbSpec => []OnbTypeOK
<1>1. OnbInv => OnbTypeOK
  BY DEF OnbInv
<1> QED
  BY <1>1, OnbInvInit, OnbInvNext, PTL DEF OnbSpec

(* A destination is verified only by its own secret.                       *)
THEOREM Verified == OnbSpec => []VerifiedByItsSecret
<1>1. OnbInv => VerifiedByItsSecret
  BY DEF OnbInv, SecretInv
<1> QED
  BY <1>1, OnbInvInit, OnbInvNext, PTL DEF OnbSpec
================================================================================
