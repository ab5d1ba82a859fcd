---------------------------- MODULE AuthSessions ----------------------------
(***************************************************************************)
(* The auth module of bisakerja-api for one email address: registration,   *)
(* email verification, login with a password or with Google, refresh       *)
(* rotation, logout and password reset.  Requests interleave at every      *)
(* await; each step is one statement or one transaction of the repository  *)
(* with what follows it up to the next await.  A request that is refused   *)
(* at its first read changes nothing and is not a step.  A token, a code   *)
(* or a password is the row that holds its hash.                           *)
(***************************************************************************)
EXTENDS Naturals, FiniteSets

CONSTANTS
  Requests,    \* concurrent HTTP requests
  Tokens,      \* ids of refresh token rows
  Resets,      \* ids of password reset token rows
  GoogleIds,   \* Google accounts whose verified email is the modelled address
  None,        \* the absent token, reset token or Google account
  MaxFaults    \* bound: how many requests die half way

ASSUME AuthConstants ==
  /\ None \notin Tokens \cup Resets \cup GoogleIds
  /\ MaxFaults \in Nat

VARIABLES
  account,  \* the user row with its LOCAL and GOOGLE credentials
  otp,      \* its email verification token
  token,    \* its refresh tokens
  reset,    \* its password reset tokens
  request,  \* the requests in flight and what they read
  faults,   \* how many requests died
  overlapped \* history: two requests have been in flight at once

vars == <<account, otp, token, reset, request, faults, overlapped>>

(* password 0 is an account without LOCAL credential; every reset stores a  *)
(* new password, the next number.                                          *)
Accounts ==
  [status : {"none", "ACTIVE", "DISABLED"}, verified : BOOLEAN,
   password : Nat, google : GoogleIds \cup {None}]

Otps == [state : {"absent", "active", "used"}, expired : BOOLEAN]

(* parent and family trace rotation.  password and google are history: the *)
(* password in force, and the Google account presented, when the session   *)
(* was authorised.                                                         *)
RefreshTokens ==
  [state : {"absent", "live", "revoked"}, expired : BOOLEAN,
   parent : Tokens \cup {None}, family : Tokens \cup {None},
   password : Nat, google : GoogleIds \cup {None}]

(* applied is history: how many times the token changed the password.      *)
ResetTokens ==
  [state : {"absent", "active", "used"}, expired : BOOLEAN, applied : Nat]

Steps ==
  {"idle", "create", "issue", "rotate", "revoke", "mark_verified", "use_otp",
   "by_email", "link", "verify", "reread", "create_google",
   "create_reset", "set_password", "use_reset", "revoke_all"}

RequestStates ==
  [at : Steps, token : Tokens \cup {None}, reset : Resets \cup {None},
   google : GoogleIds \cup {None}, password : Nat, unverified : BOOLEAN]

NoAccount == [status |-> "none", verified |-> FALSE, password |-> 0, google |-> None]
NoOtp     == [state |-> "absent", expired |-> FALSE]
NoReset   == [state |-> "absent", expired |-> FALSE, applied |-> 0]
NoToken   == [state |-> "absent", expired |-> FALSE, parent |-> None,
              family |-> None, password |-> 0, google |-> None]
Idle      == [at |-> "idle", token |-> None, reset |-> None, google |-> None,
              password |-> 0, unverified |-> FALSE]

Init ==
  /\ account = NoAccount
  /\ otp = NoOtp
  /\ token = [t \in Tokens |-> NoToken]
  /\ reset = [x \in Resets |-> NoReset]
  /\ request = [r \in Requests |-> Idle]
  /\ faults = 0
  /\ overlapped = FALSE

---------------------------------------------------------------------------
Goto(r, at) == request' = [request EXCEPT ![r].at = at]
Done(r)     == request' = [request EXCEPT ![r] = Idle]

(* A new request; note whether another one is in flight.                   *)
Start(r) ==
  /\ request[r].at = "idle"
  /\ overlapped' = (overlapped \/ \E q \in Requests \ {r} : request[q].at # "idle")

(* A request that needs token t, reset token x or Google account g next.    *)
Begin(r, at, t, x, g) ==
  /\ Start(r)
  /\ request' = [request EXCEPT
       ![r] = [at |-> at, token |-> t, reset |-> x, google |-> g,
               password |-> 0, unverified |-> FALSE]]

(* issueSession will run for the user as just read, authorised by Google    *)
(* account g unless g is None.                                             *)
Authorise(r, g) ==
  request' = [request EXCEPT
    ![r] = [at |-> "issue", token |-> None, reset |-> None, google |-> g,
            password |-> account.password, unverified |-> FALSE]]

(* assertLoginAllowed, and the check of the auth middleware.               *)
LoginAllowed == account.status = "ACTIVE" /\ account.verified

---------------------------------------------------------------------------
(* Registration and email verification *)

Register(r) ==
  /\ account.status = "none"
  /\ Begin(r, "create", None, None, None)
  /\ UNCHANGED <<account, otp, token, reset, faults>>

(* One transaction: user, LOCAL credential, code and the email's outbox    *)
(* row; a concurrent registration loses on the unique email.               *)
CreateAccount(r) ==
  /\ request[r].at = "create"
  /\ IF account.status = "none"
     THEN /\ account' = [status |-> "ACTIVE", verified |-> FALSE,
                         password |-> 1, google |-> None]
          /\ otp' = [NoOtp EXCEPT !.state = "active"]
     ELSE UNCHANGED <<account, otp>>
  /\ Done(r)
  /\ UNCHANGED <<token, reset, faults, overlapped>>

(* Regression: the lookup itself spends the code. *)
VerifyEmailSpending(r) ==
  /\ otp.state = "active" /\ ~otp.expired
  /\ Begin(r, "mark_verified", None, None, None)
  /\ otp' = [otp EXCEPT !.state = "used"]
  /\ UNCHANGED <<account, token, reset, faults>>

VerifyEmail(r) ==
  /\ otp.state = "active" /\ ~otp.expired
  /\ Begin(r, "mark_verified", None, None, None)
  /\ UNCHANGED <<account, otp, token, reset, faults>>

MarkVerified(r) ==
  /\ request[r].at = "mark_verified"
  /\ account' = [account EXCEPT !.verified = TRUE]
  /\ request' = [request EXCEPT
       ![r] = [@ EXCEPT !.at = "use_otp", !.password = account.password]]
  /\ UNCHANGED <<otp, token, reset, faults, overlapped>>

UseOtp(r) ==
  /\ request[r].at = "use_otp"
  /\ otp' = [otp EXCEPT !.state = "used"]
  /\ Goto(r, "issue")
  /\ UNCHANGED <<account, token, reset, faults, overlapped>>

---------------------------------------------------------------------------
(* Login *)

(* The password is compared with the hash just read.                       *)
Login(r) ==
  /\ account.password # 0
  /\ LoginAllowed
  /\ Start(r)
  /\ Authorise(r, None)
  /\ UNCHANGED <<account, otp, token, reset, faults>>

GoogleLogin(r, g) ==
  /\ IF account.google = g
     THEN LoginAllowed /\ Start(r) /\ Authorise(r, g)
     ELSE Begin(r, "by_email", None, None, g)
  /\ UNCHANGED <<account, otp, token, reset, faults>>

(* Regression: an account found by its email counts as verified. *)
GoogleByEmailTrusting(r) ==
  LET g == request[r].google IN
  /\ request[r].at = "by_email"
  /\ CASE account.status = "none" -> Goto(r, "create_google")
       [] account.status = "ACTIVE" /\ account.google = None -> Goto(r, "link")
       [] account.status = "ACTIVE" /\ account.google = g -> Goto(r, "reread")
       [] OTHER -> Done(r)
  /\ UNCHANGED <<account, otp, token, reset, faults, overlapped>>

(* findUserByEmail: create, link, verify or refuse.                        *)
GoogleByEmail(r) ==
  LET g == request[r].google
      Proceed(at) == request' = [request EXCEPT
                       ![r].at = at, ![r].unverified = ~account.verified]
  IN
  /\ request[r].at = "by_email"
  /\ CASE account.status = "none" -> Goto(r, "create_google")
       [] account.status = "ACTIVE" /\ account.google = None -> Proceed("link")
       [] account.status = "ACTIVE" /\ account.google = g ->
            Proceed(IF account.verified THEN "reread" ELSE "verify")
       [] OTHER -> Done(r)
  /\ UNCHANGED <<account, otp, token, reset, faults, overlapped>>

(* Regression: an upsert in place of the create. *)
GoogleLinkUpsert(r) ==
  /\ request[r].at = "link"
  /\ account' = [account EXCEPT !.google = request[r].google]
  /\ Goto(r, IF request[r].unverified THEN "verify" ELSE "reread")
  /\ UNCHANGED <<otp, token, reset, faults, overlapped>>

(* linkGoogleCredential: (user, provider) is unique.                       *)
GoogleLink(r) ==
  /\ request[r].at = "link"
  /\ IF account.google = None
     THEN /\ account' = [account EXCEPT !.google = request[r].google]
          /\ Goto(r, IF request[r].unverified THEN "verify" ELSE "reread")
     ELSE UNCHANGED account /\ Done(r)
  /\ UNCHANGED <<otp, token, reset, faults, overlapped>>

GoogleVerify(r) ==
  /\ request[r].at = "verify"
  /\ account' = [account EXCEPT !.verified = TRUE]
  /\ Goto(r, "reread")
  /\ UNCHANGED <<otp, token, reset, faults, overlapped>>

(* findUserById; the status is not checked again.                          *)
GoogleReread(r) ==
  /\ request[r].at = "reread"
  /\ Authorise(r, request[r].google)
  /\ UNCHANGED <<account, otp, token, reset, faults, overlapped>>

GoogleCreate(r) ==
  /\ request[r].at = "create_google"
  /\ IF account.status = "none"
     THEN /\ account' = [status |-> "ACTIVE", verified |-> TRUE,
                         password |-> 0, google |-> request[r].google]
          /\ Goto(r, "issue")
     ELSE UNCHANGED account /\ Done(r)
  /\ UNCHANGED <<otp, token, reset, faults, overlapped>>

(* createRefreshToken: a new family.                                       *)
Issue(r) ==
  /\ request[r].at = "issue"
  /\ \E t \in Tokens :
       /\ token[t].state = "absent"
       /\ token' = [token EXCEPT ![t] =
            [state |-> "live", expired |-> FALSE, parent |-> None, family |-> t,
             password |-> request[r].password, google |-> request[r].google]]
  /\ Done(r)
  /\ UNCHANGED <<account, otp, reset, faults, overlapped>>

---------------------------------------------------------------------------
(* Refresh and logout *)

(* findActiveRefreshToken, then the expiry and the account are checked.     *)
Refresh(r, t) ==
  /\ token[t].state = "live"
  /\ \/ token[t].expired /\ Begin(r, "revoke", t, None, None)
     \/ ~token[t].expired /\ LoginAllowed /\ Begin(r, "rotate", t, None, None)
  /\ UNCHANGED <<account, otp, token, reset, faults>>

Successor(t) ==
  [state |-> "live", expired |-> FALSE, parent |-> t, family |-> token[t].family,
   password |-> token[t].password, google |-> token[t].google]

(* Regression: the successor is committed without revoking its parent. *)
RotateKeepingParent(r) ==
  /\ request[r].at = "rotate"
  /\ \E n \in Tokens :
       /\ token[n].state = "absent"
       /\ token' = [token EXCEPT ![n] = Successor(request[r].token)]
  /\ Done(r)
  /\ UNCHANGED <<account, otp, reset, faults, overlapped>>

(* rotateRefreshToken: one transaction, which does not look at the state   *)
(* of the token it replaces.                                               *)
Rotate(r) ==
  LET t == request[r].token IN
  /\ request[r].at = "rotate"
  /\ \E n \in Tokens :
       /\ token[n].state = "absent"
       /\ token' = [token EXCEPT ![n] = Successor(t), ![t].state = "revoked"]
  /\ Done(r)
  /\ UNCHANGED <<account, otp, reset, faults, overlapped>>

Logout(r, t) ==
  /\ LoginAllowed
  /\ token[t].state = "live"
  /\ Begin(r, "revoke", t, None, None)
  /\ UNCHANGED <<account, otp, token, reset, faults>>

(* revokeRefreshToken, for logout and for an expired token.                *)
Revoke(r) ==
  /\ request[r].at = "revoke"
  /\ token' = [token EXCEPT ![request[r].token].state = "revoked"]
  /\ Done(r)
  /\ UNCHANGED <<account, otp, reset, faults, overlapped>>

---------------------------------------------------------------------------
(* Password reset *)

ForgotPassword(r) ==
  /\ account.status = "ACTIVE"
  /\ Begin(r, "create_reset", None, None, None)
  /\ UNCHANGED <<account, otp, token, reset, faults>>

(* One transaction with the email's outbox row.                            *)
CreateReset(r) ==
  /\ request[r].at = "create_reset"
  /\ \E x \in Resets :
       /\ reset[x].state = "absent"
       /\ reset' = [reset EXCEPT ![x].state = "active"]
  /\ Done(r)
  /\ UNCHANGED <<account, otp, token, faults, overlapped>>

(* Regression: the lookup itself spends the reset token. *)
ResetPasswordSpending(r, x) ==
  /\ reset[x].state = "active" /\ ~reset[x].expired
  /\ Begin(r, "set_password", None, x, None)
  /\ reset' = [reset EXCEPT ![x].state = "used"]
  /\ UNCHANGED <<account, otp, token, faults>>

ResetPassword(r, x) ==
  /\ reset[x].state = "active" /\ ~reset[x].expired
  /\ Begin(r, "set_password", None, x, None)
  /\ UNCHANGED <<account, otp, token, reset, faults>>

(* The three statements of completePasswordReset.  The first one throws    *)
(* for an account without LOCAL credential.                                *)
SetPassword(r) ==
  /\ request[r].at = "set_password"
  /\ IF account.password = 0
     THEN Done(r) /\ UNCHANGED <<account, reset>>
     ELSE /\ account' = [account EXCEPT !.password = @ + 1]
          /\ reset' = [reset EXCEPT ![request[r].reset].applied = @ + 1]
          /\ Goto(r, "use_reset")
  /\ UNCHANGED <<otp, token, faults, overlapped>>

UseReset(r) ==
  /\ request[r].at = "use_reset"
  /\ reset' = [reset EXCEPT ![request[r].reset].state = "used"]
  /\ Goto(r, "revoke_all")
  /\ UNCHANGED <<account, otp, token, faults, overlapped>>

(* Regression: only the sessions opened with a password are revoked. *)
RevokePasswordSessions(r) ==
  /\ request[r].at = "revoke_all"
  /\ token' = [t \in Tokens |->
       IF token[t].state = "live" /\ token[t].google = None
       THEN [token[t] EXCEPT !.state = "revoked"] ELSE token[t]]
  /\ Done(r)
  /\ UNCHANGED <<account, otp, reset, faults, overlapped>>

RevokeAll(r) ==
  /\ request[r].at = "revoke_all"
  /\ token' = [t \in Tokens |->
       IF token[t].state = "live" THEN [token[t] EXCEPT !.state = "revoked"] ELSE token[t]]
  /\ Done(r)
  /\ UNCHANGED <<account, otp, reset, faults, overlapped>>

---------------------------------------------------------------------------
(* Time, the operators of the service, and failures *)

ExpireToken(t) ==
  /\ token[t].state = "live"
  /\ token' = [token EXCEPT ![t].expired = TRUE]
  /\ UNCHANGED <<account, otp, reset, request, faults, overlapped>>

ExpireReset(x) ==
  /\ reset[x].state = "active"
  /\ reset' = [reset EXCEPT ![x].expired = TRUE]
  /\ UNCHANGED <<account, otp, token, request, faults, overlapped>>

ExpireOtp ==
  /\ otp.state = "active"
  /\ otp' = [otp EXCEPT !.expired = TRUE]
  /\ UNCHANGED <<account, token, reset, request, faults, overlapped>>

(* The status is changed in the database; DISABLED stands for DELETED too.  *)
SetStatus ==
  /\ account.status # "none"
  /\ \E s \in {"ACTIVE", "DISABLED"} : account' = [account EXCEPT !.status = s]
  /\ UNCHANGED <<otp, token, reset, request, faults, overlapped>>

(* A request dies between two statements: its next statement fails, or its *)
(* process ends.                                                           *)
Die(r) ==
  /\ request[r].at # "idle"
  /\ faults < MaxFaults
  /\ faults' = faults + 1
  /\ Done(r)
  /\ UNCHANGED <<account, otp, token, reset, overlapped>>

---------------------------------------------------------------------------
RegisterStep(r) == Register(r) \/ CreateAccount(r)
VerifyStep(r)   == VerifyEmail(r) \/ MarkVerified(r) \/ UseOtp(r)
GoogleStep(r)   ==
  \/ \E g \in GoogleIds : GoogleLogin(r, g)
  \/ GoogleByEmail(r)
  \/ GoogleLink(r)
  \/ GoogleVerify(r)
  \/ GoogleReread(r)
  \/ GoogleCreate(r)
SessionStep(r)  ==
  \/ Login(r) \/ Issue(r)
  \/ \E t \in Tokens : Refresh(r, t) \/ Logout(r, t)
  \/ Rotate(r) \/ Revoke(r)
ResetStep(r)    ==
  \/ ForgotPassword(r) \/ CreateReset(r)
  \/ \E x \in Resets : ResetPassword(r, x)
  \/ SetPassword(r) \/ UseReset(r) \/ RevokeAll(r)

Next ==
  \/ \E r \in Requests :
       RegisterStep(r) \/ VerifyStep(r) \/ GoogleStep(r) \/ SessionStep(r)
       \/ ResetStep(r) \/ Die(r)
  \/ \E t \in Tokens : ExpireToken(t)
  \/ \E x \in Resets : ExpireReset(x)
  \/ ExpireOtp
  \/ SetStatus

Spec == Init /\ [][Next]_vars

---------------------------------------------------------------------------
RequestsOK ==
  /\ request \in [Requests -> RequestStates]
  /\ \A r \in Requests :
       request[r].at \in {"rotate", "revoke"} => request[r].token \in Tokens

TypeOK ==
  /\ account \in Accounts
  /\ otp \in Otps
  /\ token \in [Tokens -> RefreshTokens]
  /\ reset \in [Resets -> ResetTokens]
  /\ RequestsOK
  /\ faults \in Nat
  /\ overlapped \in BOOLEAN

Live(t) == token[t].state = "live"

(* Nobody gets a refresh token before the address is verified, by whatever *)
(* path (password, code, Google link) and interleaving: registration "does *)
(* not issue a refresh cookie before email verification" (auth.md).        *)
SessionsAreVerified ==
  (\E t \in Tokens : token[t].state # "absent") => account.verified

(* Two Google accounts with this address racing to be linked: a session    *)
(* opened through Google belongs to the account that is linked.            *)
SessionsOfLinkedIdentity ==
  \A t \in Tokens : token[t].google # None => account.google = token[t].google

(* An interrupted verification can be repeated: as long as the address is  *)
(* unverified its code has not been spent.                                 *)
UnverifiedKeepsItsCode ==
  account.status # "none" /\ ~account.verified => otp.state = "active"

(* An interrupted reset can be repeated: a reset token is spent only after *)
(* the password it stands for was stored.                                  *)
UsedResetChangedPassword ==
  \A x \in Resets : reset[x].state = "used" => reset[x].applied >= 1

(* A refresh token family is one chain with one live end.                  *)
OneLiveTokenPerFamily ==
  \A s, t \in Tokens : Live(s) /\ Live(t) /\ token[s].family = token[t].family => s = t

(* Once the request that used a reset token is over, no session opened     *)
(* under an older password is left: "Invalidate refresh tokens after       *)
(* password reset" (auth.md).                                              *)
ResetEndsOldSessions ==
  (\E x \in Resets : reset[x].state = "used")
    /\ (\A r \in Requests : request[r].at \notin {"use_reset", "revoke_all"})
  => \A t \in Tokens : Live(t) => token[t].password = account.password

(* "Invalidate used reset token" (auth.md): one token changes the password *)
(* once.                                                                   *)
ResetTokenUsedOnce == \A x \in Resets : reset[x].applied <= 1

(* A new token replaces one that is still live.                            *)
ExchangesLiveToken ==
  \A t \in Tokens :
    token[t].state = "absent" /\ token'[t].state = "live" /\ token'[t].parent # None
      => Live(token'[t].parent)

(* "Refresh token rotation invalidates the previous token" (security.md):  *)
(* a token that was invalidated, by a rotation, a logout or a reset, is    *)
(* not exchanged for a new one.                                            *)
InvalidatedIsNotExchanged == [][ExchangesLiveToken]_vars

(* As long as every request ran to its end before the next one began.      *)
Undisturbed == ~overlapped /\ faults = 0

(* Undisturbed, a family is one chain of which only the end is live,       *)
(* whatever expires, is logged out or disabled in between.                 *)
SequentialRotation == Undisturbed => OneLiveTokenPerFamily

(* Undisturbed, a password reset keeps both its promises.                  *)
SequentialReset == Undisturbed => ResetEndsOldSessions /\ ResetTokenUsedOnce

---------------------------------------------------------------------------
(* The inductive invariant behind the five safety properties above.        *)

BlankUntilUsed == \A t \in Tokens : token[t].state = "absent" => token[t] = NoToken

BlankAccount == account.status = "none" => account = NoAccount /\ otp = NoOtp

(* What a request read before an await is still true of the account and of *)
(* the rows it is going to write after it.                                 *)
Justified(r) ==
  LET q == request[r] IN
  /\ q.at \in {"mark_verified", "link", "verify", "reread"} => account.status # "none"
  /\ q.at \in {"issue", "use_otp", "reread"} => account.verified
  /\ q.at \in {"mark_verified", "use_otp"} => q.google = None
  /\ q.at = "link" /\ ~q.unverified => account.verified
  /\ q.at \in {"by_email", "link", "verify", "reread", "create_google"} => q.google # None
  /\ q.at \in {"verify", "reread", "issue"} /\ q.google # None => account.google = q.google
  /\ q.at \in {"rotate", "revoke"} => token[q.token].state # "absent"
  /\ q.at \in {"set_password", "use_reset"} => q.reset \in Resets
  /\ q.at = "use_reset" => reset[q.reset].applied >= 1

AuthInv ==
  /\ BlankUntilUsed
  /\ BlankAccount
  /\ \A r \in Requests : Justified(r)
  /\ SessionsAreVerified
  /\ SessionsOfLinkedIdentity
  /\ UnverifiedKeepsItsCode
  /\ UsedResetChangedPassword
=============================================================================
