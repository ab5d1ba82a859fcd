-------------------------- MODULE AuthSessionsProofs ------------------------
(***************************************************************************)
(* TLAPS proofs about AuthSessions, for any number of requests, tokens and *)
(* Google accounts.                                                        *)
(***************************************************************************)
EXTENDS AuthSessions, TLAPS

---------------------------------------------------------------------------
(* How a request record changes: typing *)

LEMMA IdleType == Idle \in RequestStates
BY DEF Idle, RequestStates, Steps

LEMMA DoneType ==
  ASSUME TypeOK, NEW r \in Requests, Done(r)
  PROVE  RequestsOK'
BY IdleType DEF TypeOK, RequestsOK, Done, Idle

LEMMA GotoType ==
  ASSUME TypeOK, NEW r \in Requests, NEW at \in Steps \ {"rotate", "revoke"}, Goto(r, at)
  PROVE  RequestsOK'
BY DEF TypeOK, RequestsOK, Goto, RequestStates

LEMMA StartType ==
  ASSUME NEW r \in Requests, Start(r)
  PROVE  overlapped' \in BOOLEAN
BY DEF Start

LEMMA BeginType ==
  ASSUME TypeOK, NEW r \in Requests, NEW at \in Steps, NEW t \in Tokens \cup {None},
         NEW x \in Resets \cup {None}, NEW g \in GoogleIds \cup {None}, Begin(r, at, t, x, g),
         at \in {"rotate", "revoke"} => t \in Tokens
  PROVE  RequestsOK'
BY DEF TypeOK, RequestsOK, Begin, RequestStates

LEMMA AuthoriseType ==
  ASSUME TypeOK, NEW r \in Requests, NEW g \in GoogleIds \cup {None}, Authorise(r, g)
  PROVE  RequestsOK'
BY DEF TypeOK, RequestsOK, Authorise, Accounts, RequestStates, Steps

LEMMA TypeInit == Init => TypeOK
<1> SUFFICES ASSUME Init PROVE TypeOK
  OBVIOUS
<1>1. account \in Accounts /\ otp \in Otps
  BY DEF Init, Accounts, Otps, NoAccount, NoOtp
<1>2. token \in [Tokens -> RefreshTokens] /\ reset \in [Resets -> ResetTokens]
  BY DEF Init, RefreshTokens, ResetTokens, NoReset, NoToken
<1>3. RequestsOK
  BY DEF Init, RequestsOK, RequestStates, Steps, Idle
<1>4. faults \in Nat /\ overlapped \in BOOLEAN
  BY DEF Init
<1> QED
  BY <1>1, <1>2, <1>3, <1>4 DEF TypeOK

LEMMA TypeStep == TypeOK /\ [Next]_vars => TypeOK'
<1> SUFFICES ASSUME TypeOK, [Next]_vars PROVE TypeOK'
  OBVIOUS
<1>1. ASSUME NEW r \in Requests, Register(r) PROVE TypeOK'
  BY <1>1, BeginType, StartType DEF TypeOK, Register, Begin, Steps
<1>2. ASSUME NEW r \in Requests, CreateAccount(r) PROVE TypeOK'
  <2>1. RequestsOK'
    BY <1>2, DoneType DEF CreateAccount
  <2>2. account' \in Accounts
    <3>1. [status |-> "ACTIVE", verified |-> FALSE, password |-> 1, google |-> None] \in Accounts
      BY Zenon DEF Accounts
    <3> QED
      BY <1>2, <3>1 DEF TypeOK, CreateAccount
  <2>3. otp' \in Otps
    BY <1>2 DEF TypeOK, CreateAccount, NoOtp, Otps
  <2> QED
    BY <1>2, <2>1, <2>2, <2>3 DEF TypeOK, CreateAccount
<1>3. ASSUME NEW r \in Requests, VerifyEmail(r) PROVE TypeOK'
  BY <1>3, BeginType, StartType DEF TypeOK, VerifyEmail, Begin, Steps
<1>4. ASSUME NEW r \in Requests, MarkVerified(r) PROVE TypeOK'
  BY <1>4 DEF TypeOK, MarkVerified, Accounts, RequestsOK, RequestStates, Steps
<1>5. ASSUME NEW r \in Requests, UseOtp(r) PROVE TypeOK'
  BY <1>5, GotoType DEF TypeOK, UseOtp, Otps, Steps
<1>6. ASSUME NEW r \in Requests, Login(r) PROVE TypeOK'
  BY <1>6, AuthoriseType, StartType DEF TypeOK, Login
<1>7. ASSUME NEW r \in Requests, NEW g \in GoogleIds, GoogleLogin(r, g) PROVE TypeOK'
  BY <1>7, BeginType, AuthoriseType, StartType DEF TypeOK, GoogleLogin, Begin, Steps
<1>8. ASSUME NEW r \in Requests, GoogleByEmail(r) PROVE TypeOK'
  BY <1>8, DoneType, GotoType DEF TypeOK, GoogleByEmail, RequestsOK, RequestStates, Steps
<1>9. ASSUME NEW r \in Requests, GoogleLink(r) PROVE TypeOK'
  BY <1>9, DoneType, GotoType DEF TypeOK, GoogleLink, Accounts, RequestsOK, RequestStates, Steps
<1>10. ASSUME NEW r \in Requests, GoogleVerify(r) PROVE TypeOK'
  BY <1>10, GotoType DEF TypeOK, GoogleVerify, Accounts, Steps
<1>11. ASSUME NEW r \in Requests, GoogleReread(r) PROVE TypeOK'
  BY <1>11, AuthoriseType DEF TypeOK, GoogleReread, RequestsOK, RequestStates
<1>12. ASSUME NEW r \in Requests, GoogleCreate(r) PROVE TypeOK'
  <2>1. RequestsOK'
    BY <1>12, DoneType, GotoType DEF GoogleCreate, Steps
  <2>2. request[r].google \in GoogleIds \cup {None}
    BY DEF TypeOK, RequestsOK, RequestStates
  <2>3. account' \in Accounts
    <3>1. [status |-> "ACTIVE", verified |-> TRUE, password |-> 0,
           google |-> request[r].google] \in Accounts
      BY <2>2, Zenon DEF Accounts
    <3> QED
      BY <1>12, <3>1 DEF TypeOK, GoogleCreate
  <2> QED
    BY <1>12, <2>1, <2>3 DEF TypeOK, GoogleCreate
<1>13. ASSUME NEW r \in Requests, Issue(r) PROVE TypeOK'
  BY <1>13, DoneType DEF TypeOK, Issue, RefreshTokens, RequestsOK, RequestStates
<1>14. ASSUME NEW r \in Requests, NEW t \in Tokens, Refresh(r, t) PROVE TypeOK'
  BY <1>14, BeginType, StartType DEF TypeOK, Refresh, Begin, Steps
<1>15. ASSUME NEW r \in Requests, Rotate(r) PROVE TypeOK'
  <2>1. RequestsOK'
    BY <1>15, DoneType DEF Rotate
  <2>2. token' \in [Tokens -> RefreshTokens]
    <3> DEFINE t == request[r].token
    <3>1. t \in Tokens
      BY <1>15 DEF TypeOK, RequestsOK, Rotate
    <3>2. Successor(t) \in RefreshTokens
      BY <3>1 DEF TypeOK, RefreshTokens, Successor
    <3> QED
      BY <1>15, <3>1, <3>2 DEF TypeOK, Rotate, RefreshTokens
  <2> QED
    BY <1>15, <2>1, <2>2 DEF TypeOK, Rotate
<1>16. ASSUME NEW r \in Requests, NEW t \in Tokens, Logout(r, t) PROVE TypeOK'
  BY <1>16, BeginType, StartType DEF TypeOK, Logout, Begin, Steps
<1>17. ASSUME NEW r \in Requests, Revoke(r) PROVE TypeOK'
  BY <1>17, DoneType DEF TypeOK, Revoke, RefreshTokens
<1>18. ASSUME NEW r \in Requests, ForgotPassword(r) PROVE TypeOK'
  BY <1>18, BeginType, StartType DEF TypeOK, ForgotPassword, Begin, Steps
<1>19. ASSUME NEW r \in Requests, CreateReset(r) PROVE TypeOK'
  BY <1>19, DoneType DEF TypeOK, CreateReset, ResetTokens
<1>20. ASSUME NEW r \in Requests, NEW x \in Resets, ResetPassword(r, x) PROVE TypeOK'
  BY <1>20, BeginType, StartType DEF TypeOK, ResetPassword, Begin, Steps
<1>21. ASSUME NEW r \in Requests, SetPassword(r) PROVE TypeOK'
  <2>1. RequestsOK'
    BY <1>21, DoneType, GotoType DEF SetPassword, Steps
  <2>2. account' \in Accounts
    BY <1>21 DEF TypeOK, SetPassword, Accounts
  <2>3. reset' \in [Resets -> ResetTokens]
    BY <1>21 DEF TypeOK, SetPassword, ResetTokens
  <2> QED
    BY <1>21, <2>1, <2>2, <2>3 DEF TypeOK, SetPassword
<1>22. ASSUME NEW r \in Requests, UseReset(r) PROVE TypeOK'
  BY <1>22, GotoType DEF TypeOK, UseReset, ResetTokens, Steps
<1>23. ASSUME NEW r \in Requests, RevokeAll(r) PROVE TypeOK'
  BY <1>23, DoneType DEF TypeOK, RevokeAll, RefreshTokens
<1>24. ASSUME NEW t \in Tokens, ExpireToken(t) PROVE TypeOK'
  BY <1>24 DEF TypeOK, ExpireToken, RequestsOK, RefreshTokens
<1>25. ASSUME NEW x \in Resets, ExpireReset(x) PROVE TypeOK'
  BY <1>25 DEF TypeOK, ExpireReset, RequestsOK, ResetTokens
<1>26. ASSUME ExpireOtp PROVE TypeOK'
  BY <1>26 DEF TypeOK, ExpireOtp, RequestsOK, Otps
<1>27. ASSUME SetStatus PROVE TypeOK'
  BY <1>27 DEF TypeOK, SetStatus, RequestsOK, Accounts
<1>28. ASSUME NEW r \in Requests, Die(r) PROVE TypeOK'
  BY <1>28, DoneType DEF TypeOK, Die
<1>29. CASE UNCHANGED vars
  BY <1>29 DEF vars, TypeOK, RequestsOK
<1> QED
  BY <1>1, <1>2, <1>3, <1>4, <1>5, <1>6, <1>7, <1>8, <1>9, <1>10, <1>11, <1>12, <1>13, <1>14,
     <1>15, <1>16, <1>17, <1>18, <1>19, <1>20, <1>21, <1>22, <1>23, <1>24, <1>25, <1>26, <1>27,
     <1>28, <1>29 DEF Next, RegisterStep, VerifyStep, GoogleStep,
    SessionStep, ResetStep

(* Every variable keeps its type, whatever the number of requests, tokens  *)
(* and Google accounts.                                                    *)
THEOREM TypeCorrect == Spec => []TypeOK
BY TypeInit, TypeStep, PTL DEF Spec

---------------------------------------------------------------------------
LEMMA AuthInit == Init => AuthInv
BY DEF Init, AuthInv, BlankUntilUsed, BlankAccount, Justified, SessionsAreVerified,
  SessionsOfLinkedIdentity, UnverifiedKeepsItsCode,
  UsedResetChangedPassword, NoAccount, NoOtp, NoReset, NoToken, Idle

LEMMA AuthStep == TypeOK /\ AuthInv /\ [Next]_vars => AuthInv'
<1> SUFFICES ASSUME TypeOK, AuthInv, [Next]_vars PROVE AuthInv'
  OBVIOUS
<1> USE DEF TypeOK, RequestsOK, Accounts, Otps, RefreshTokens, ResetTokens, RequestStates,
      NoAccount, NoOtp, NoReset, NoToken, Idle, Goto, Done, Begin, Authorise,
      AuthInv, BlankUntilUsed, BlankAccount, Justified, SessionsAreVerified,
      SessionsOfLinkedIdentity, UnverifiedKeepsItsCode,
      UsedResetChangedPassword
<1>1. ASSUME NEW r \in Requests, Register(r) PROVE AuthInv'
  BY <1>1 DEF Register
<1>2. ASSUME NEW r \in Requests, CreateAccount(r) PROVE AuthInv'
  BY <1>2 DEF CreateAccount
<1>3. ASSUME NEW r \in Requests, VerifyEmail(r) PROVE AuthInv'
  <2>1. BlankUntilUsed'
    BY <1>3 DEF VerifyEmail
  <2>2. BlankAccount'
    BY <1>3 DEF VerifyEmail
  <2>3. (\A q \in Requests : Justified(q))'
    <3> SUFFICES ASSUME NEW q \in Requests PROVE Justified(q)'
      OBVIOUS
    <3>1. CASE q = r
      BY <1>3, <3>1 DEF VerifyEmail
    <3>2. CASE q # r
      BY <1>3, <3>2 DEF VerifyEmail
    <3> QED
      BY <3>1, <3>2
  <2>4. SessionsAreVerified'
    BY <1>3 DEF VerifyEmail
  <2>5. SessionsOfLinkedIdentity'
    BY <1>3 DEF VerifyEmail
  <2>6. UnverifiedKeepsItsCode'
    BY <1>3 DEF VerifyEmail
  <2>7. UsedResetChangedPassword'
    BY <1>3 DEF VerifyEmail
  <2> QED
    BY <2>1, <2>2, <2>3, <2>4, <2>5, <2>6, <2>7
<1>4. ASSUME NEW r \in Requests, MarkVerified(r) PROVE AuthInv'
  BY <1>4 DEF MarkVerified
<1>5. ASSUME NEW r \in Requests, UseOtp(r) PROVE AuthInv'
  <2>1. BlankUntilUsed'
    BY <1>5 DEF UseOtp
  <2>2. BlankAccount'
    BY <1>5 DEF UseOtp
  <2>3. (\A q \in Requests : Justified(q))'
    <3> SUFFICES ASSUME NEW q \in Requests PROVE Justified(q)'
      OBVIOUS
    <3>1. CASE q = r
      BY <1>5, <3>1 DEF UseOtp
    <3>2. CASE q # r
      BY <1>5, <3>2 DEF UseOtp
    <3> QED
      BY <3>1, <3>2
  <2>4. SessionsAreVerified'
    BY <1>5 DEF UseOtp
  <2>5. SessionsOfLinkedIdentity'
    BY <1>5 DEF UseOtp
  <2>6. UnverifiedKeepsItsCode'
    BY <1>5 DEF UseOtp
  <2>7. UsedResetChangedPassword'
    BY <1>5 DEF UseOtp
  <2> QED
    BY <2>1, <2>2, <2>3, <2>4, <2>5, <2>6, <2>7
<1>6. ASSUME NEW r \in Requests, Login(r) PROVE AuthInv'
  BY <1>6 DEF Login, LoginAllowed
<1>7. ASSUME NEW r \in Requests, NEW g \in GoogleIds, GoogleLogin(r, g) PROVE AuthInv'
  <2>1. BlankUntilUsed'
    BY <1>7 DEF GoogleLogin, LoginAllowed
  <2>2. BlankAccount'
    BY <1>7 DEF GoogleLogin, LoginAllowed
  <2>3. (\A q \in Requests : Justified(q))'
    <3> SUFFICES ASSUME NEW q \in Requests PROVE Justified(q)'
      OBVIOUS
    <3>1. CASE q = r
      BY <1>7, <3>1, AuthConstants DEF GoogleLogin, LoginAllowed
    <3>2. CASE q # r
      BY <1>7, <3>2 DEF GoogleLogin, LoginAllowed
    <3> QED
      BY <3>1, <3>2
  <2>4. SessionsAreVerified'
    BY <1>7 DEF GoogleLogin, LoginAllowed
  <2>5. SessionsOfLinkedIdentity'
    BY <1>7 DEF GoogleLogin, LoginAllowed
  <2>6. UnverifiedKeepsItsCode'
    BY <1>7 DEF GoogleLogin, LoginAllowed
  <2>7. UsedResetChangedPassword'
    BY <1>7 DEF GoogleLogin, LoginAllowed
  <2> QED
    BY <2>1, <2>2, <2>3, <2>4, <2>5, <2>6, <2>7
<1>8. ASSUME NEW r \in Requests, GoogleByEmail(r) PROVE AuthInv'
  BY <1>8 DEF GoogleByEmail
<1>9. ASSUME NEW r \in Requests, GoogleLink(r) PROVE AuthInv'
  BY <1>9 DEF GoogleLink
<1>10. ASSUME NEW r \in Requests, GoogleVerify(r) PROVE AuthInv'
  BY <1>10 DEF GoogleVerify
<1>11. ASSUME NEW r \in Requests, GoogleReread(r) PROVE AuthInv'
  BY <1>11 DEF GoogleReread
<1>12. ASSUME NEW r \in Requests, GoogleCreate(r) PROVE AuthInv'
  <2>1. BlankUntilUsed'
    BY <1>12 DEF GoogleCreate
  <2>2. BlankAccount'
    BY <1>12 DEF GoogleCreate
  <2>3. (\A q \in Requests : Justified(q))'
    BY <1>12 DEF GoogleCreate
  <2>4. SessionsAreVerified'
    BY <1>12 DEF GoogleCreate
  <2>5. SessionsOfLinkedIdentity'
    BY <1>12 DEF GoogleCreate
  <2>6. UnverifiedKeepsItsCode'
    BY <1>12 DEF GoogleCreate
  <2>7. UsedResetChangedPassword'
    BY <1>12 DEF GoogleCreate
  <2> QED
    BY <2>1, <2>2, <2>3, <2>4, <2>5, <2>6, <2>7
<1>13. ASSUME NEW r \in Requests, Issue(r) PROVE AuthInv'
  <2>1. BlankUntilUsed'
    <3>1. ASSUME NEW s \in Tokens, token'[s].state = "absent" PROVE token'[s] = token[s]
      BY <1>13, <3>1 DEF Issue
    <3> HIDE DEF NoToken
    <3> QED
      BY <3>1
  <2>2. BlankAccount'
    BY <1>13 DEF Issue
  <2>3. (\A q \in Requests : Justified(q))'
    BY <1>13 DEF Issue
  <2>4. SessionsAreVerified'
    BY <1>13 DEF Issue
  <2>5. SessionsOfLinkedIdentity'
    BY <1>13 DEF Issue
  <2>6. UnverifiedKeepsItsCode'
    BY <1>13 DEF Issue
  <2>7. UsedResetChangedPassword'
    BY <1>13 DEF Issue
  <2> QED
    BY <2>1, <2>2, <2>3, <2>4, <2>5, <2>6, <2>7
<1>14. ASSUME NEW r \in Requests, NEW t \in Tokens, Refresh(r, t) PROVE AuthInv'
  <2>1. CASE token[t].expired /\ Begin(r, "revoke", t, None, None)
    BY <1>14, <2>1 DEF Refresh
  <2>2. CASE LoginAllowed /\ Begin(r, "rotate", t, None, None)
    BY <1>14, <2>2 DEF Refresh
  <2> QED
    BY <1>14, <2>1, <2>2 DEF Refresh
<1>15. ASSUME NEW r \in Requests, Rotate(r) PROVE AuthInv'
  <2>1. BlankUntilUsed'
    <3>1. ASSUME NEW s \in Tokens, token'[s].state = "absent" PROVE token'[s] = token[s]
      BY <1>15, <3>1 DEF Rotate, Successor
    <3> HIDE DEF NoToken
    <3> QED
      BY <3>1
  <2>2. BlankAccount'
    BY <1>15 DEF Rotate, Successor
  <2>3. (\A q \in Requests : Justified(q))'
    <3> SUFFICES ASSUME NEW q \in Requests PROVE Justified(q)'
      OBVIOUS
    <3>1. \A s \in Tokens : token[s].state # "absent" => token'[s].state # "absent"
      BY <1>15 DEF Rotate, Successor
    <3>2. request[q].at \in {"rotate", "revoke"} => request[q].token \in Tokens
      BY <1>15
    <3>3. CASE q = r
      BY <1>15, <3>3 DEF Rotate
    <3>4. CASE q # r
      BY <1>15, <3>1, <3>2, <3>4 DEF Rotate
    <3> QED
      BY <3>3, <3>4
  <2>4. SessionsAreVerified'
    BY <1>15 DEF Rotate, Successor
  <2>5. SessionsOfLinkedIdentity'
    BY <1>15 DEF Rotate, Successor
  <2>6. UnverifiedKeepsItsCode'
    BY <1>15 DEF Rotate, Successor
  <2>7. UsedResetChangedPassword'
    BY <1>15 DEF Rotate, Successor
  <2> QED
    BY <2>1, <2>2, <2>3, <2>4, <2>5, <2>6, <2>7
<1>16. ASSUME NEW r \in Requests, NEW t \in Tokens, Logout(r, t) PROVE AuthInv'
  BY <1>16 DEF Logout
<1>17. ASSUME NEW r \in Requests, Revoke(r) PROVE AuthInv'
  <2>1. BlankUntilUsed'
    <3>1. ASSUME NEW s \in Tokens, token'[s].state = "absent" PROVE token'[s] = token[s]
      BY <1>17, <3>1 DEF Revoke
    <3> HIDE DEF NoToken
    <3> QED
      BY <3>1
  <2>2. BlankAccount'
    BY <1>17 DEF Revoke
  <2>3. (\A q \in Requests : Justified(q))'
    BY <1>17 DEF Revoke
  <2>4. SessionsAreVerified'
    BY <1>17 DEF Revoke
  <2>5. SessionsOfLinkedIdentity'
    BY <1>17 DEF Revoke
  <2>6. UnverifiedKeepsItsCode'
    BY <1>17 DEF Revoke
  <2>7. UsedResetChangedPassword'
    BY <1>17 DEF Revoke
  <2> QED
    BY <2>1, <2>2, <2>3, <2>4, <2>5, <2>6, <2>7
<1>18. ASSUME NEW r \in Requests, ForgotPassword(r) PROVE AuthInv'
  BY <1>18 DEF ForgotPassword
<1>19. ASSUME NEW r \in Requests, CreateReset(r) PROVE AuthInv'
  BY <1>19 DEF CreateReset
<1>20. ASSUME NEW r \in Requests, NEW x \in Resets, ResetPassword(r, x) PROVE AuthInv'
  BY <1>20 DEF ResetPassword
<1>21. ASSUME NEW r \in Requests, SetPassword(r) PROVE AuthInv'
  <2>1. BlankUntilUsed'
    BY <1>21 DEF SetPassword
  <2>2. BlankAccount'
    BY <1>21 DEF SetPassword
  <2>3. (\A q \in Requests : Justified(q))'
    <3> SUFFICES ASSUME NEW q \in Requests PROVE Justified(q)'
      OBVIOUS
    <3>1. \A x \in Resets : reset[x].applied \in Nat /\ reset'[x].applied >= reset[x].applied
      <4> SUFFICES ASSUME NEW x \in Resets
                   PROVE  reset[x].applied \in Nat /\ reset'[x].applied >= reset[x].applied
        OBVIOUS
      <4>1. reset[x].applied \in Nat
        OBVIOUS
      <4>2. reset'[x].applied = reset[x].applied \/ reset'[x].applied = reset[x].applied + 1
        BY <1>21 DEF SetPassword
      <4> QED
        BY <4>1, <4>2
    <3>2. CASE q = r /\ account.password = 0
      BY <1>21, <3>2 DEF SetPassword
    <3>3. CASE q = r /\ account.password # 0
      <4>1. request[r].reset \in Resets /\ reset'[request[r].reset].applied >= 1
        BY <1>21, <3>1, <3>3 DEF SetPassword
      <4>2. request'[q].at = "use_reset" /\ request'[q].reset = request[r].reset
        BY <1>21, <3>3 DEF SetPassword
      <4> QED
        BY <4>1, <4>2
    <3>4. CASE q # r
      <4>1. request'[q] = request[q] /\ token' = token
        BY <1>21, <3>4 DEF SetPassword
      <4>2. account'.status = account.status /\ account'.verified = account.verified
            /\ account'.google = account.google
        BY <1>21 DEF SetPassword
      <4>3. ASSUME request[q].at = "use_reset" PROVE reset'[request[q].reset].applied >= 1
        <5>1. request[q].reset \in Resets /\ reset[request[q].reset].applied >= 1
          BY <4>3
        <5>2. /\ reset[request[q].reset].applied \in Nat
              /\ reset'[request[q].reset].applied \in Nat
          BY <5>1, TypeStep
        <5> QED
          BY <3>1, <5>1, <5>2
      <4> QED
        BY <4>1, <4>2, <4>3
    <3> QED
      BY <3>2, <3>3, <3>4
  <2>4. SessionsAreVerified'
    BY <1>21 DEF SetPassword
  <2>5. SessionsOfLinkedIdentity'
    BY <1>21 DEF SetPassword
  <2>6. UnverifiedKeepsItsCode'
    BY <1>21 DEF SetPassword
  <2>7. UsedResetChangedPassword'
    <3> SUFFICES ASSUME NEW x \in Resets, reset'[x].state = "used"
                 PROVE  reset'[x].applied >= 1
      OBVIOUS
    <3>1. reset[x].state = "used" /\ reset[x].applied \in Nat /\ reset[x].applied >= 1
      <4>1. reset'[x].state = reset[x].state
        BY <1>21 DEF SetPassword
      <4> QED
        BY <4>1
    <3>2. reset'[x].applied = reset[x].applied \/ reset'[x].applied = reset[x].applied + 1
      <4>1. CASE account.password = 0
        BY <1>21, <4>1 DEF SetPassword
      <4>2. CASE account.password # 0
        <5>1. reset' = [reset EXCEPT ![request[r].reset].applied = @ + 1]
          BY <1>21, <4>2 DEF SetPassword
        <5> QED
          BY <5>1
      <4> QED
        BY <4>1, <4>2
    <3> QED
      BY <3>1, <3>2
  <2> QED
    BY <2>1, <2>2, <2>3, <2>4, <2>5, <2>6, <2>7
<1>22. ASSUME NEW r \in Requests, UseReset(r) PROVE AuthInv'
  BY <1>22 DEF UseReset
<1>23. ASSUME NEW r \in Requests, RevokeAll(r) PROVE AuthInv'
  <2>1. BlankUntilUsed'
    <3>1. ASSUME NEW s \in Tokens, token'[s].state = "absent" PROVE token'[s] = token[s]
      BY <1>23, <3>1 DEF RevokeAll
    <3> HIDE DEF NoToken
    <3> QED
      BY <3>1
  <2>2. BlankAccount'
    BY <1>23 DEF RevokeAll
  <2>3. (\A q \in Requests : Justified(q))'
    BY <1>23 DEF RevokeAll
  <2>4. SessionsAreVerified'
    BY <1>23 DEF RevokeAll
  <2>5. SessionsOfLinkedIdentity'
    BY <1>23 DEF RevokeAll
  <2>6. UnverifiedKeepsItsCode'
    BY <1>23 DEF RevokeAll
  <2>7. UsedResetChangedPassword'
    BY <1>23 DEF RevokeAll
  <2> QED
    BY <2>1, <2>2, <2>3, <2>4, <2>5, <2>6, <2>7
<1>24. ASSUME NEW t \in Tokens, ExpireToken(t) PROVE AuthInv'
  <2>1. BlankUntilUsed'
    <3>1. ASSUME NEW s \in Tokens, token'[s].state = "absent" PROVE token'[s] = token[s]
      BY <1>24, <3>1 DEF ExpireToken
    <3> HIDE DEF NoToken
    <3> QED
      BY <3>1
  <2>2. BlankAccount'
    BY <1>24 DEF ExpireToken
  <2>3. (\A q \in Requests : Justified(q))'
    BY <1>24 DEF ExpireToken
  <2>4. SessionsAreVerified'
    BY <1>24 DEF ExpireToken
  <2>5. SessionsOfLinkedIdentity'
    BY <1>24 DEF ExpireToken
  <2>6. UnverifiedKeepsItsCode'
    BY <1>24 DEF ExpireToken
  <2>7. UsedResetChangedPassword'
    BY <1>24 DEF ExpireToken
  <2> QED
    BY <2>1, <2>2, <2>3, <2>4, <2>5, <2>6, <2>7
<1>25. ASSUME NEW x \in Resets, ExpireReset(x) PROVE AuthInv'
  BY <1>25 DEF ExpireReset
<1>26. ASSUME ExpireOtp PROVE AuthInv'
  BY <1>26 DEF ExpireOtp
<1>27. ASSUME SetStatus PROVE AuthInv'
  BY <1>27 DEF SetStatus
<1>28. ASSUME NEW r \in Requests, Die(r) PROVE AuthInv'
  BY <1>28 DEF Die
<1>29. CASE UNCHANGED vars
  BY <1>29 DEF vars
<1> QED
  BY <1>1, <1>2, <1>3, <1>4, <1>5, <1>6, <1>7, <1>8, <1>9, <1>10, <1>11, <1>12, <1>13, <1>14,
     <1>15, <1>16, <1>17, <1>18, <1>19, <1>20, <1>21, <1>22, <1>23, <1>24, <1>25, <1>26, <1>27,
     <1>28, <1>29 DEF Next, RegisterStep, VerifyStep, GoogleStep,
    SessionStep, ResetStep
(* The inductive invariant: what a request read before an await still      *)
(* holds when it writes after it.                                          *)
THEOREM AuthCorrect == Spec => []AuthInv
<1>1. TypeOK /\ AuthInv /\ [Next]_vars => TypeOK' /\ AuthInv'
  BY TypeStep, AuthStep
<1>2. Init => TypeOK /\ AuthInv
  BY TypeInit, AuthInit
<1> QED
  BY <1>1, <1>2, PTL DEF Spec

(* No refresh token exists before the address is verified.                 *)
THEOREM SessionsNeedVerification == Spec => []SessionsAreVerified
<1>1. AuthInv => SessionsAreVerified
  BY DEF AuthInv
<1> QED
  BY <1>1, AuthCorrect, PTL

(* A session opened through Google belongs to the linked Google account.   *)
THEOREM GoogleSessionsAreLinked == Spec => []SessionsOfLinkedIdentity
<1>1. AuthInv => SessionsOfLinkedIdentity
  BY DEF AuthInv
<1> QED
  BY <1>1, AuthCorrect, PTL

(* An interrupted verification has not spent its code.                     *)
THEOREM VerificationCanBeRepeated == Spec => []UnverifiedKeepsItsCode
<1>1. AuthInv => UnverifiedKeepsItsCode
  BY DEF AuthInv
<1> QED
  BY <1>1, AuthCorrect, PTL

(* An interrupted reset has not spent its token.                           *)
THEOREM ResetCanBeRepeated == Spec => []UsedResetChangedPassword
<1>1. AuthInv => UsedResetChangedPassword
  BY DEF AuthInv
<1> QED
  BY <1>1, AuthCorrect, PTL

---------------------------------------------------------------------------
(***************************************************************************)
(* Where requests neither overlap nor die: rotation and reset keep their   *)
(* promises in every sequence of requests.                                 *)
(***************************************************************************)

(* The inductive invariant *)

Busy(r) == request[r].at # "idle"
OneRequest == \A q, r \in Requests : Busy(q) /\ Busy(r) => q = r

(* A family begins with the token it is named for, and a request rotates a *)
(* token that is still live.                                               *)
Families ==
  /\ OneLiveTokenPerFamily
  /\ \A t \in Tokens : token[t].family # None => token[token[t].family].state # "absent"
  /\ \A r \in Requests : request[r].at = "rotate" => Live(request[r].token)

(* A session is opened under the password in force. *)
PresentPassword ==
  \A r \in Requests :
    /\ request[r].at \in {"issue", "use_otp"} => request[r].password = account.password
    /\ request[r].at \in {"by_email", "create_google"} => request[r].password = 0

(* A reset token that is not spent has changed no password, but where the  *)
(* request that is at it is between the two statements.                    *)
ResetsOnce ==
  /\ \A x \in Resets :
       /\ reset[x].applied <= 1
       /\ reset[x].state # "used" /\ reset[x].applied # 0 =>
            \E r \in Requests : request[r].at = "use_reset" /\ request[r].reset = x
  /\ \A r \in Requests : request[r].at = "set_password" => reset[request[r].reset].state # "used"

SeqParts == OneRequest /\ Families /\ PresentPassword /\ ResetsOnce /\ ResetEndsOldSessions
SeqInv == Undisturbed => SeqParts

LEMMA SeqInit == Init => SeqInv
BY DEF Init, SeqInv, SeqParts, OneRequest, Busy, Families, OneLiveTokenPerFamily, Live,
   PresentPassword, ResetsOnce, ResetEndsOldSessions, Idle, NoToken, NoReset

---------------------------------------------------------------------------
(* Steps *)

(* An undisturbed request is alone from its first step to its last.        *)
LEMMA Alone ==
  ASSUME TypeOK, SeqInv, Undisturbed', faults' = faults, NEW r \in Requests, NEW p,
         request' = [request EXCEPT ![r] = p],
         Start(r) \/ (Busy(r) /\ overlapped' = overlapped)
  PROVE  /\ Undisturbed /\ SeqParts
         /\ \A q \in Requests \ {r} : ~Busy(q) /\ request'[q] = request[q]
         /\ request'[r] = p
         /\ OneRequest'
<1>1. Undisturbed
  <2>1. CASE Start(r)
    BY <2>1 DEF Undisturbed, Start
  <2>2. CASE Busy(r) /\ overlapped' = overlapped
    BY <2>2 DEF Undisturbed
  <2> QED
    BY <2>1, <2>2
<1>2. SeqParts
  BY <1>1 DEF SeqInv
<1>3. /\ \A q \in Requests \ {r} : request'[q] = request[q]
      /\ request'[r] = p
  BY DEF TypeOK, RequestsOK
<1>4. \A q \in Requests \ {r} : ~Busy(q)
  <2>1. CASE Start(r)
    BY <2>1 DEF Undisturbed, Start, Busy
  <2>2. CASE Busy(r)
    BY <1>2, <2>2 DEF SeqParts, OneRequest
  <2> QED
    BY <2>1, <2>2
<1>5. OneRequest'
  BY <1>3, <1>4 DEF OneRequest, Busy
<1> QED
  BY <1>1, <1>2, <1>3, <1>4, <1>5

(* A step that changes no token and no password.                           *)
LEMMA QuietSeq ==
  ASSUME TypeOK, SeqInv, faults' = faults, NEW r \in Requests, NEW p,
         request' = [request EXCEPT ![r] = p],
         Start(r) \/ (Busy(r) /\ overlapped' = overlapped),
         UNCHANGED <<token, reset>>, account'.password = account.password,
         request[r].at \notin {"use_reset", "revoke_all"},
         p.at \notin {"use_reset", "revoke_all"},
         p.at = "rotate" => Live(p.token),
         Undisturbed /\ p.at \in {"issue", "use_otp"} => p.password = account.password,
         Undisturbed /\ p.at \in {"by_email", "create_google"} => p.password = 0,
         p.at = "set_password" => reset[p.reset].state # "used"
  PROVE  SeqInv'
<1> SUFFICES ASSUME Undisturbed' PROVE SeqParts'
  BY DEF SeqInv
<1>1. /\ Undisturbed /\ SeqParts /\ OneRequest' /\ request'[r] = p
      /\ \A q \in Requests \ {r} : request[q].at = "idle" /\ request'[q] = request[q]
  BY Alone DEF Busy
<1>2. Families'
  BY <1>1 DEF SeqParts, Families, OneLiveTokenPerFamily, Live
<1>3. PresentPassword'
  BY <1>1 DEF SeqParts, PresentPassword
<1>4. ResetsOnce'
  BY <1>1 DEF SeqParts, ResetsOnce
<1>5. ResetEndsOldSessions'
  BY <1>1 DEF SeqParts, ResetEndsOldSessions, Live
<1> QED
  BY <1>1, <1>2, <1>3, <1>4, <1>5 DEF SeqParts

(* The account is created: there is no token yet.                          *)
LEMMA CreatingSeq ==
  ASSUME TypeOK, AuthInv, SeqInv, faults' = faults, overlapped' = overlapped,
         NEW r \in Requests, NEW p, Busy(r), request' = [request EXCEPT ![r] = p],
         request[r].at \notin {"use_reset", "revoke_all"},
         account.status = "none", UNCHANGED <<token, reset>>,
         p.at \in {"idle", "issue"}, Undisturbed /\ p.at = "issue" => p.password = account'.password
  PROVE  SeqInv'
<1> SUFFICES ASSUME Undisturbed' PROVE SeqParts'
  BY DEF SeqInv
<1>1. /\ Undisturbed /\ SeqParts /\ OneRequest' /\ request'[r] = p
      /\ \A q \in Requests \ {r} : request[q].at = "idle" /\ request'[q] = request[q]
  BY Alone DEF Busy
<1>2. \A t \in Tokens : token'[t].state = "absent"
  BY DEF AuthInv, BlankAccount, SessionsAreVerified, NoAccount
<1>3. Families'
  BY <1>1, <1>2 DEF SeqParts, Families, OneLiveTokenPerFamily, Live
<1>4. PresentPassword'
  BY <1>1 DEF SeqParts, PresentPassword
<1>5. ResetsOnce'
  BY <1>1 DEF SeqParts, ResetsOnce
<1>6. ResetEndsOldSessions'
  BY <1>2 DEF ResetEndsOldSessions, Live
<1> QED
  BY <1>1, <1>3, <1>4, <1>5, <1>6 DEF SeqParts

(* The steps that change tokens.  The request that takes one has no other   *)
(* beside it.                                                              *)
LEMMA IssuingSeq ==
  ASSUME TypeOK, AuthInv, SeqInv, NEW r \in Requests, Issue(r)
  PROVE  SeqInv'
<1> SUFFICES ASSUME Undisturbed' PROVE SeqParts'
  BY DEF SeqInv
<1>1. /\ SeqParts /\ OneRequest' /\ request'[r] = Idle
      /\ \A q \in Requests \ {r} : request[q].at = "idle" /\ request'[q] = request[q]
  BY Alone DEF Issue, Done, Busy
<1>2. PICK t \in Tokens :
         /\ token[t].state = "absent"
         /\ token' = [token EXCEPT ![t] =
              [state |-> "live", expired |-> FALSE, parent |-> None, family |-> t,
               password |-> request[r].password, google |-> request[r].google]]
  BY DEF Issue
<1>3. /\ \A s \in Tokens \ {t} : token'[s] = token[s]
      /\ token'[t].state = "live" /\ token'[t].family = t
      /\ token'[t].password = account.password
  BY <1>1, <1>2 DEF TypeOK, SeqParts, PresentPassword, Issue
<1>4. \A s \in Tokens : token[s].family # t
  <2>1. \A s \in Tokens : token[s].family # None => token[token[s].family].state # "absent"
    BY <1>1 DEF SeqParts, Families
  <2>2. t # None
    BY AuthConstants
  <2> QED
    BY <1>2, <2>1, <2>2
<1>5. Families'
  BY <1>1, <1>2, <1>3, <1>4 DEF SeqParts, Families, OneLiveTokenPerFamily, Live, Idle, TypeOK,
     RefreshTokens
<1>6. PresentPassword'
  BY <1>1 DEF SeqParts, PresentPassword, Idle
<1>7. ResetsOnce'
  BY <1>1 DEF SeqParts, ResetsOnce, Idle, Issue
<1>8. ResetEndsOldSessions'
  BY <1>1, <1>3 DEF SeqParts, ResetEndsOldSessions, Live, Idle, Issue
<1> QED
  BY <1>1, <1>5, <1>6, <1>7, <1>8 DEF SeqParts

LEMMA RotatingSeq ==
  ASSUME TypeOK, AuthInv, SeqInv, NEW r \in Requests, Rotate(r)
  PROVE  SeqInv'
<1> SUFFICES ASSUME Undisturbed' PROVE SeqParts'
  BY DEF SeqInv
<1> DEFINE t == request[r].token
<1>1. /\ SeqParts /\ OneRequest' /\ request'[r] = Idle
      /\ \A q \in Requests \ {r} : request[q].at = "idle" /\ request'[q] = request[q]
  BY Alone DEF Rotate, Done, Busy
<1>2. t \in Tokens /\ token[t].state = "live"
  BY <1>1 DEF Rotate, TypeOK, RequestsOK, SeqParts, Families, Live
<1>3. PICK n \in Tokens :
         /\ token[n].state = "absent"
         /\ token' = [token EXCEPT ![n] = Successor(t), ![t].state = "revoked"]
  BY DEF Rotate
<1>4. /\ \A s \in Tokens \ {t, n} : token'[s] = token[s]
      /\ n # t
      /\ token'[n].state = "live" /\ token'[n].family = token[t].family
      /\ token'[n].password = token[t].password
      /\ token'[t].state = "revoked" /\ token'[t].family = token[t].family
  BY <1>2, <1>3 DEF TypeOK, RefreshTokens, Successor
<1> HIDE DEF t
<1>5. Families'
  <2>1. OneLiveTokenPerFamily'
    BY <1>1, <1>2, <1>4 DEF SeqParts, Families, OneLiveTokenPerFamily, Live
  <2>2. \A s \in Tokens : token'[s].family # None => token'[token'[s].family].state # "absent"
    <3>1. \A s \in Tokens : token[s].state # "absent" => token'[s].state # "absent"
      BY <1>2, <1>3, <1>4
    <3>2. \A s \in Tokens : \E o \in Tokens : token'[s].family = token[o].family
      BY <1>2, <1>4
    <3>3. \A o \in Tokens : token[o].family # None =>
             token[o].family \in Tokens /\ token[token[o].family].state # "absent"
      BY <1>1 DEF SeqParts, Families, TypeOK, RefreshTokens
    <3> QED
      BY <3>1, <3>2, <3>3
  <2>3. \A q \in Requests : request'[q].at # "rotate"
    BY <1>1 DEF Idle
  <2> QED
    BY <2>1, <2>2, <2>3 DEF Families
<1>6. PresentPassword'
  BY <1>1 DEF SeqParts, PresentPassword, Idle
<1>7. ResetsOnce'
  BY <1>1 DEF SeqParts, ResetsOnce, Idle, Rotate
<1>8. ResetEndsOldSessions'
  <2>1. UNCHANGED <<account, reset>> /\ request[r].at = "rotate"
    BY DEF Rotate
  <2>2. \A q \in Requests : request[q].at \notin {"use_reset", "revoke_all"}
    BY <1>1, <2>1
  <2>3. \A s \in Tokens : Live(s)' =>
           \/ Live(s) /\ token'[s].password = token[s].password
           \/ token'[s].password = token[t].password
    BY <1>4 DEF Live
  <2>4. ResetEndsOldSessions /\ Live(t)
    BY <1>1, <1>2 DEF SeqParts, Live
  <2> QED
    BY <1>2, <2>1, <2>2, <2>3, <2>4 DEF ResetEndsOldSessions
<1> QED
  BY <1>1, <1>5, <1>6, <1>7, <1>8 DEF SeqParts

LEMMA RevokingSeq ==
  ASSUME TypeOK, AuthInv, SeqInv, NEW r \in Requests, Revoke(r) \/ RevokeAll(r)
  PROVE  SeqInv'
<1> SUFFICES ASSUME Undisturbed' PROVE SeqParts'
  BY DEF SeqInv
<1>1. /\ SeqParts /\ OneRequest' /\ request'[r] = Idle
      /\ \A q \in Requests \ {r} : request[q].at = "idle" /\ request'[q] = request[q]
  BY Alone DEF Revoke, RevokeAll, Done, Busy
<1>2. /\ \A s \in Tokens : /\ token'[s].state = "live" => token[s].state = "live"
                           /\ token'[s].state = "absent" => token[s].state = "absent"
                           /\ token'[s].family = token[s].family
                           /\ token'[s].password = token[s].password
      /\ RevokeAll(r) => \A s \in Tokens : token'[s].state # "live"
  <2>1. CASE Revoke(r)
    <3>1. request[r].token \in Tokens /\ ~RevokeAll(r)
      BY <2>1 DEF Revoke, RevokeAll, TypeOK, RequestsOK
    <3> QED
      BY <2>1, <3>1 DEF Revoke, TypeOK, RefreshTokens
  <2>2. CASE RevokeAll(r)
    BY <2>2 DEF RevokeAll, TypeOK, RefreshTokens
  <2> QED
    BY <2>1, <2>2
<1>3. Families'
  <2>1. OneLiveTokenPerFamily'
    BY <1>1, <1>2 DEF SeqParts, Families, OneLiveTokenPerFamily, Live
  <2>2. \A s \in Tokens : token'[s].family # None => token'[token'[s].family].state # "absent"
    BY <1>1, <1>2 DEF SeqParts, Families, TypeOK, RefreshTokens
  <2>3. \A q \in Requests : request'[q].at # "rotate"
    BY <1>1 DEF Idle
  <2> QED
    BY <2>1, <2>2, <2>3 DEF Families
<1>4. PresentPassword'
  BY <1>1 DEF SeqParts, PresentPassword, Idle
<1>5. ResetsOnce'
  BY <1>1 DEF SeqParts, ResetsOnce, Idle, Revoke, RevokeAll
<1>6. ResetEndsOldSessions'
  BY <1>1, <1>2 DEF SeqParts, ResetEndsOldSessions, Live, Idle, Revoke, RevokeAll
<1> QED
  BY <1>1, <1>3, <1>4, <1>5, <1>6 DEF SeqParts

(* The statements of a password reset. *)
LEMMA ResettingSeq ==
  ASSUME TypeOK, AuthInv, SeqInv, NEW r \in Requests,
         CreateReset(r) \/ SetPassword(r) \/ UseReset(r)
  PROVE  SeqInv'
<1> SUFFICES ASSUME Undisturbed' PROVE SeqParts'
  BY DEF SeqInv
<1>1. request[r] \in RequestStates
  BY DEF TypeOK, RequestsOK
<1>2. CASE CreateReset(r)
  <2>1. /\ SeqParts /\ OneRequest' /\ request'[r] = Idle
        /\ \A q \in Requests \ {r} : request[q].at = "idle" /\ request'[q] = request[q]
    BY <1>2, Alone DEF CreateReset, Done, Busy
  <2>2. PICK x \in Resets : /\ reset[x].state = "absent"
                            /\ reset' = [reset EXCEPT ![x].state = "active"]
    BY <1>2 DEF CreateReset
  <2>3. \A y \in Resets : /\ reset'[y].applied = reset[y].applied
                          /\ reset'[y].state = "used" <=> reset[y].state = "used"
    BY <2>2 DEF TypeOK, ResetTokens
  <2>4. Families' /\ PresentPassword'
    BY <1>2, <2>1 DEF SeqParts, Families, OneLiveTokenPerFamily, Live, PresentPassword, Idle,
       CreateReset
  <2>5. ResetsOnce'
    BY <1>2, <2>1, <2>3 DEF SeqParts, ResetsOnce, Idle, CreateReset
  <2>6. ResetEndsOldSessions'
    BY <1>2, <2>1, <2>3 DEF SeqParts, ResetEndsOldSessions, Live, Idle, CreateReset
  <2> QED
    BY <2>1, <2>4, <2>5, <2>6 DEF SeqParts
<1>3. CASE SetPassword(r) /\ account.password = 0
  <2>1. /\ SeqParts /\ OneRequest' /\ request'[r] = Idle
        /\ \A q \in Requests \ {r} : request[q].at = "idle" /\ request'[q] = request[q]
    BY <1>3, Alone DEF SetPassword, Done, Busy
  <2>2. UNCHANGED <<account, token, reset>> /\ request[r].at = "set_password"
    BY <1>3 DEF SetPassword
  <2>3. Families' /\ PresentPassword' /\ ResetsOnce' /\ ResetEndsOldSessions'
    BY <2>1, <2>2 DEF SeqParts, Families, OneLiveTokenPerFamily, Live, PresentPassword, Idle,
       ResetsOnce, ResetEndsOldSessions
  <2> QED
    BY <2>1, <2>3 DEF SeqParts
<1>4. CASE SetPassword(r) /\ account.password # 0
  <2>1. PICK p : p = [request[r] EXCEPT !.at = "use_reset"]
    OBVIOUS
  <2>2. p.at = "use_reset" /\ p.reset = request[r].reset
    BY <1>1, <2>1 DEF RequestStates
  <2>3. request' = [request EXCEPT ![r] = p]
    BY <1>4, <2>1 DEF SetPassword, Goto
  <2>4. /\ SeqParts /\ OneRequest' /\ request'[r] = p
        /\ \A q \in Requests \ {r} : request[q].at = "idle" /\ request'[q] = request[q]
    BY <1>4, <2>3, Alone DEF SetPassword, Busy
  <2> DEFINE x == request[r].reset
  <2>5. x \in Resets /\ reset[x].state # "used" /\ reset[x].applied = 0
    BY <1>4, <2>4 DEF SetPassword, AuthInv, Justified, SeqParts, ResetsOnce
  <2>6. /\ \A y \in Resets \ {x} : reset'[y] = reset[y]
        /\ reset'[x].applied = 1 /\ reset'[x].state = reset[x].state
    BY <1>4, <2>5 DEF SetPassword, TypeOK, ResetTokens
  <2> HIDE DEF x
  <2>7. Families' /\ PresentPassword'
    BY <1>4, <2>2, <2>4 DEF SeqParts, Families, OneLiveTokenPerFamily, Live, PresentPassword,
       SetPassword
  <2>8. ResetsOnce'
    <3>1. \A y \in Resets \ {x} : reset[y].state # "used" => reset[y].applied = 0
      BY <1>4, <2>4 DEF SetPassword, SeqParts, ResetsOnce
    <3>2. request'[r].reset = x
      BY <2>2, <2>4 DEF x
    <3>3. \A q \in Requests : request'[q].at # "set_password"
      BY <2>2, <2>4
    <3> QED
      BY <2>2, <2>4, <2>6, <3>1, <3>2, <3>3 DEF SeqParts, ResetsOnce
  <2>9. ResetEndsOldSessions'
    BY <2>2, <2>4 DEF ResetEndsOldSessions
  <2> QED
    BY <2>4, <2>7, <2>8, <2>9 DEF SeqParts
<1>5. CASE UseReset(r)
  <2>1. PICK p : p = [request[r] EXCEPT !.at = "revoke_all"]
    OBVIOUS
  <2>2. p.at = "revoke_all"
    BY <1>1, <2>1 DEF RequestStates
  <2>3. request' = [request EXCEPT ![r] = p]
    BY <1>5, <2>1 DEF UseReset, Goto
  <2>4. /\ SeqParts /\ OneRequest' /\ request'[r] = p
        /\ \A q \in Requests \ {r} : request[q].at = "idle" /\ request'[q] = request[q]
    BY <1>5, <2>3, Alone DEF UseReset, Busy
  <2> DEFINE x == request[r].reset
  <2>5. x \in Resets /\ request[r].at = "use_reset"
    BY <1>5 DEF UseReset, AuthInv, Justified
  <2>6. /\ \A y \in Resets \ {x} : reset'[y] = reset[y]
        /\ reset'[x].applied = reset[x].applied /\ reset'[x].state = "used"
    BY <1>5, <2>5 DEF UseReset, TypeOK, ResetTokens
  <2>7. Families' /\ PresentPassword'
    BY <1>5, <2>2, <2>4 DEF SeqParts, Families, OneLiveTokenPerFamily, Live, PresentPassword,
       UseReset
  <2>8. ResetsOnce'
    BY <2>2, <2>4, <2>5, <2>6 DEF SeqParts, ResetsOnce
  <2>9. ResetEndsOldSessions'
    BY <2>2, <2>4 DEF ResetEndsOldSessions
  <2> QED
    BY <2>4, <2>7, <2>8, <2>9 DEF SeqParts
<1> QED
  BY <1>2, <1>3, <1>4, <1>5

(* Steps that are no request's. *)
LEMMA IdleSeq ==
  ASSUME TypeOK, AuthInv, SeqInv,
         (\E t \in Tokens : ExpireToken(t)) \/ (\E x \in Resets : ExpireReset(x))
            \/ ExpireOtp \/ SetStatus \/ UNCHANGED vars
  PROVE  SeqInv'
<1> SUFFICES ASSUME Undisturbed' PROVE SeqParts'
  BY DEF SeqInv
<1>1. UNCHANGED <<request, faults, overlapped>> /\ account'.password = account.password
  BY DEF ExpireToken, ExpireReset, ExpireOtp, SetStatus, vars, TypeOK, Accounts
<1>2. SeqParts
  BY <1>1 DEF SeqInv, Undisturbed
<1>3. \A t \in Tokens : /\ token'[t].state = token[t].state
                        /\ token'[t].family = token[t].family
                        /\ token'[t].password = token[t].password
  BY DEF ExpireToken, ExpireReset, ExpireOtp, SetStatus, vars, TypeOK, RefreshTokens
<1>4. \A x \in Resets : /\ reset'[x].state = reset[x].state
                        /\ reset'[x].applied = reset[x].applied
  BY DEF ExpireToken, ExpireReset, ExpireOtp, SetStatus, vars, TypeOK, ResetTokens
<1>5. OneRequest' /\ PresentPassword'
  BY <1>1, <1>2 DEF SeqParts, OneRequest, Busy, PresentPassword
<1>6. Families'
  <2>1. OneLiveTokenPerFamily'
    BY <1>2, <1>3 DEF SeqParts, Families, OneLiveTokenPerFamily, Live
  <2>2. \A s \in Tokens : token'[s].family # None => token'[token'[s].family].state # "absent"
    BY <1>2, <1>3 DEF SeqParts, Families, TypeOK, RefreshTokens
  <2>3. \A q \in Requests : request'[q].at = "rotate" => Live(request[q].token)'
    BY <1>1, <1>2, <1>3 DEF SeqParts, Families, Live, TypeOK, RequestsOK
  <2> QED
    BY <2>1, <2>2, <2>3 DEF Families
<1>7. ResetsOnce'
  <2>1. \A q \in Requests : request'[q].at = "set_password" => reset'[request'[q].reset].state # "used"
    BY <1>1, <1>2, <1>4 DEF SeqParts, ResetsOnce, AuthInv, Justified
  <2> QED
    BY <1>1, <1>2, <1>4, <2>1 DEF SeqParts, ResetsOnce
<1>8. ResetEndsOldSessions'
  BY <1>1, <1>2, <1>3, <1>4 DEF SeqParts, ResetEndsOldSessions, Live
<1> QED
  BY <1>5, <1>6, <1>7, <1>8 DEF SeqParts

LEMMA SeqStep == TypeOK /\ AuthInv /\ SeqInv /\ [Next]_vars => SeqInv'
<1> SUFFICES ASSUME TypeOK, AuthInv, SeqInv, [Next]_vars PROVE SeqInv'
  OBVIOUS
<1>1. ASSUME NEW r \in Requests, NEW at \in {"create", "mark_verified", "by_email", "revoke",
                                            "create_reset", "rotate", "set_password"},
             NEW t, NEW x, NEW g, Begin(r, at, t, x, g),
             UNCHANGED <<account, token, reset, faults>>,
             at = "rotate" => Live(t), at = "set_password" => reset[x].state # "used"
      PROVE SeqInv'
  <2> DEFINE p == [at |-> at, token |-> t, reset |-> x, google |-> g,
                   password |-> 0, unverified |-> FALSE]
  <2>1. request' = [request EXCEPT ![r] = p] /\ Start(r)
    BY <1>1 DEF Begin
  <2>2. p.at = at /\ p.token = t /\ p.reset = x /\ p.password = 0
    OBVIOUS
  <2>3. request[r].at = "idle"
    BY <2>1 DEF Start
  <2> HIDE DEF p
  <2> QED
    BY <1>1, <2>1, <2>2, <2>3, QuietSeq
<1>2. ASSUME NEW r \in Requests, NEW g, Authorise(r, g),
             Start(r) \/ (request[r].at = "reread" /\ overlapped' = overlapped),
             UNCHANGED <<account, token, reset, faults>>
      PROVE SeqInv'
  <2> DEFINE p == [at |-> "issue", token |-> None, reset |-> None, google |-> g,
                   password |-> account.password, unverified |-> FALSE]
  <2>1. request' = [request EXCEPT ![r] = p]
    BY <1>2 DEF Authorise
  <2>2. p.at = "issue" /\ p.password = account.password
    OBVIOUS
  <2>3. request[r].at \in {"idle", "reread"}
    BY <1>2 DEF Start
  <2> HIDE DEF p
  <2> QED
    BY <1>2, <2>1, <2>2, <2>3, QuietSeq DEF Busy
<1>3. ASSUME NEW r \in Requests, NEW p, Busy(r), request' = [request EXCEPT ![r] = p],
             UNCHANGED <<token, reset, faults, overlapped>>, account'.password = account.password,
             request[r].at \notin {"use_reset", "revoke_all"},
             p.at \in {"idle", "use_otp", "issue", "link", "verify", "reread", "create_google"},
             Undisturbed /\ p.at \in {"use_otp", "issue"} => p.password = account.password,
             Undisturbed /\ p.at = "create_google" => p.password = 0
      PROVE SeqInv'
  BY <1>3, QuietSeq
<1>4. \A r \in Requests : request[r] \in RequestStates
  BY DEF TypeOK, RequestsOK
<1>5. ASSUME NEW r \in Requests, RegisterStep(r) PROVE SeqInv'
  <2>1. CASE Register(r)
    BY <1>1, <2>1 DEF Register
  <2>2. CASE CreateAccount(r)
    <3>1. Busy(r) /\ request[r].at = "create" /\ request' = [request EXCEPT ![r] = Idle]
      BY <2>2 DEF CreateAccount, Done, Busy
    <3>2. CASE account.status = "none"
      BY <2>2, <3>1, <3>2, CreatingSeq DEF CreateAccount, Idle
    <3>3. CASE account.status # "none"
      BY <1>3, <2>2, <3>1, <3>3 DEF CreateAccount, Idle
    <3> QED
      BY <3>2, <3>3
  <2> QED
    BY <1>5, <2>1, <2>2 DEF RegisterStep
<1>6. ASSUME NEW r \in Requests, VerifyStep(r) PROVE SeqInv'
  <2>1. CASE VerifyEmail(r)
    BY <1>1, <2>1 DEF VerifyEmail
  <2>2. CASE MarkVerified(r)
    <3>1. PICK p : p = [request[r] EXCEPT !.at = "use_otp", !.password = account.password]
      OBVIOUS
    <3>2. p.at = "use_otp" /\ p.password = account.password
      BY <1>4, <3>1 DEF RequestStates
    <3>3. request' = [request EXCEPT ![r] = p]
      BY <2>2, <3>1 DEF MarkVerified
    <3>4. account'.password = account.password
      BY <2>2 DEF MarkVerified, TypeOK, Accounts
    <3> QED
      BY <1>3, <2>2, <3>2, <3>3, <3>4 DEF MarkVerified, Busy
  <2>3. CASE UseOtp(r)
    <3>1. PICK p : p = [request[r] EXCEPT !.at = "issue"]
      OBVIOUS
    <3>2. p.at = "issue" /\ p.password = request[r].password
      BY <1>4, <3>1 DEF RequestStates
    <3>3. request' = [request EXCEPT ![r] = p]
      BY <2>3, <3>1 DEF UseOtp, Goto
    <3>4. Undisturbed => request[r].password = account.password
      BY <2>3 DEF UseOtp, SeqInv, SeqParts, PresentPassword
    <3> QED
      BY <1>3, <2>3, <3>2, <3>3, <3>4 DEF UseOtp, Busy
  <2> QED
    BY <1>6, <2>1, <2>2, <2>3 DEF VerifyStep
<1>7. ASSUME NEW r \in Requests, GoogleStep(r) PROVE SeqInv'
  <2>1. ASSUME NEW g \in GoogleIds, GoogleLogin(r, g) PROVE SeqInv'
    <3>1. CASE account.google = g
      BY <1>2, <2>1, <3>1 DEF GoogleLogin
    <3>2. CASE account.google # g
      BY <1>1, <2>1, <3>2 DEF GoogleLogin
    <3> QED
      BY <3>1, <3>2
  <2>2. CASE GoogleByEmail(r)
    <3>1. PICK p : /\ request' = [request EXCEPT ![r] = p]
                   /\ p.at \in {"create_google", "link", "reread", "verify", "idle"}
                   /\ p.at = "create_google" => p.password = request[r].password
      <4>1. CASE account.status = "none"
        <5>1. PICK p : p = [request[r] EXCEPT !.at = "create_google"]
          OBVIOUS
        <5>2. request' = [request EXCEPT ![r] = p]
          BY <2>2, <4>1, <5>1 DEF GoogleByEmail, Goto
        <5>3. p.at = "create_google" /\ p.password = request[r].password
          BY <1>4, <5>1 DEF RequestStates
        <5> QED
          BY <5>2, <5>3
      <4>2. CASE account.status # "none"
        <5>1. PICK at \in {"link", "reread", "verify"} :
                 \/ request' = [request EXCEPT ![r].at = at, ![r].unverified = ~account.verified]
                 \/ request' = [request EXCEPT ![r] = Idle]
          BY <2>2, <4>2 DEF GoogleByEmail, Done
        <5>2. \/ request' = [request EXCEPT ![r] = [@ EXCEPT !.at = at, !.unverified = ~account.verified]]
              \/ request' = [request EXCEPT ![r] = Idle]
          BY <5>1 DEF TypeOK, RequestsOK, RequestStates
        <5>3. [request[r] EXCEPT !.at = at, !.unverified = ~account.verified].at = at
          BY <1>4 DEF RequestStates
        <5> QED
          BY <5>2, <5>3 DEF Idle
      <4> QED
        BY <4>1, <4>2
    <3>2. Undisturbed => request[r].password = 0
      BY <2>2 DEF GoogleByEmail, SeqInv, SeqParts, PresentPassword
    <3> QED
      BY <1>3, <2>2, <3>1, <3>2 DEF GoogleByEmail, Busy
  <2>3. CASE GoogleLink(r) \/ GoogleVerify(r)
    <3>1. /\ Busy(r) /\ request[r].at \in {"link", "verify"}
          /\ UNCHANGED <<token, reset, faults, overlapped>>
          /\ account'.password = account.password
      BY <2>3 DEF GoogleLink, GoogleVerify, Busy, TypeOK, Accounts
    <3>2. PICK p : /\ request' = [request EXCEPT ![r] = p]
                   /\ p.at \in {"reread", "verify", "idle"}
      <4>1. PICK at \in {"reread", "verify"} :
               \/ request' = [request EXCEPT ![r].at = at]
               \/ request' = [request EXCEPT ![r] = Idle]
        BY <2>3 DEF GoogleLink, GoogleVerify, Goto, Done
      <4>2. [request[r] EXCEPT !.at = at].at = at
        BY <1>4 DEF RequestStates
      <4> QED
        BY <4>1, <4>2 DEF Idle
    <3> QED
      BY <1>3, <3>1, <3>2
  <2>4. CASE GoogleReread(r)
    BY <1>2, <2>4 DEF GoogleReread
  <2>5. CASE GoogleCreate(r)
    <3>1. Busy(r) /\ request[r].at = "create_google"
      BY <2>5 DEF GoogleCreate, Busy
    <3>2. CASE account.status = "none"
      <4>1. PICK p : p = [request[r] EXCEPT !.at = "issue"]
        OBVIOUS
      <4>2. p.at = "issue" /\ p.password = request[r].password
        BY <1>4, <4>1 DEF RequestStates
      <4>3. request' = [request EXCEPT ![r] = p] /\ account'.password = 0
        BY <2>5, <3>2, <4>1 DEF GoogleCreate, Goto
      <4>4. Undisturbed => request[r].password = 0
        BY <3>1 DEF SeqInv, SeqParts, PresentPassword
      <4> QED
        BY <2>5, <3>1, <3>2, <4>2, <4>3, <4>4, CreatingSeq DEF GoogleCreate
    <3>3. CASE account.status # "none"
      BY <1>3, <2>5, <3>1, <3>3 DEF GoogleCreate, Done, Idle
    <3> QED
      BY <3>2, <3>3
  <2> QED
    BY <1>7, <2>1, <2>2, <2>3, <2>4, <2>5 DEF GoogleStep
<1>8. ASSUME NEW r \in Requests, Login(r) PROVE SeqInv'
  BY <1>2, <1>8 DEF Login
<1>9. ASSUME NEW r \in Requests, NEW t \in Tokens, Refresh(r, t) \/ Logout(r, t) PROVE SeqInv'
  <2>1. PICK at \in {"revoke", "rotate"} : Begin(r, at, t, None, None)
    BY <1>9 DEF Refresh, Logout
  <2> QED
    BY <1>1, <1>9, <2>1 DEF Refresh, Logout, Live
<1>10. ASSUME NEW r \in Requests, Issue(r) PROVE SeqInv'
  BY <1>10, IssuingSeq
<1>11. ASSUME NEW r \in Requests, Rotate(r) PROVE SeqInv'
  BY <1>11, RotatingSeq
<1>12. ASSUME NEW r \in Requests, Revoke(r) \/ RevokeAll(r) PROVE SeqInv'
  BY <1>12, RevokingSeq
<1>13. ASSUME NEW r \in Requests, ForgotPassword(r) PROVE SeqInv'
  BY <1>1, <1>13 DEF ForgotPassword
<1>14. ASSUME NEW r \in Requests, CreateReset(r) \/ SetPassword(r) \/ UseReset(r) PROVE SeqInv'
  BY <1>14, ResettingSeq
<1>15. ASSUME NEW r \in Requests, NEW x \in Resets, ResetPassword(r, x) PROVE SeqInv'
  BY <1>1, <1>15 DEF ResetPassword
<1>16. ASSUME NEW r \in Requests, Die(r) PROVE SeqInv'
  BY <1>16 DEF Die, SeqInv, Undisturbed, TypeOK
<1>17. CASE (\E t \in Tokens : ExpireToken(t)) \/ (\E x \in Resets : ExpireReset(x))
            \/ ExpireOtp \/ SetStatus \/ UNCHANGED vars
  BY <1>17, IdleSeq
<1> QED
  BY <1>5, <1>6, <1>7, <1>8, <1>9, <1>10, <1>11, <1>12, <1>13, <1>14, <1>15, <1>16, <1>17
  DEF Next, SessionStep, ResetStep

---------------------------------------------------------------------------
(* The theorems *)

LEMMA SeqCorrect == Spec => []SeqInv
<1>1. TypeOK /\ AuthInv /\ SeqInv /\ [Next]_vars => SeqInv'
  BY SeqStep
<1>2. Init => SeqInv
  BY SeqInit
<1> QED
  BY <1>1, <1>2, TypeCorrect, AuthCorrect, PTL DEF Spec

(* Where requests neither overlap nor die, a refresh token family is one   *)
(* chain of which only the end is live.                                    *)
THEOREM RotationInSequence == Spec => []SequentialRotation
<1>1. SeqInv => SequentialRotation
  BY DEF SeqInv, SeqParts, Families, SequentialRotation
<1> QED
  BY <1>1, SeqCorrect, PTL

(* Where requests neither overlap nor die, a reset ends the sessions of    *)
(* older passwords, and its token changes the password once.               *)
THEOREM ResetInSequence == Spec => []SequentialReset
<1>1. SeqInv => SequentialReset
  BY DEF SeqInv, SeqParts, ResetsOnce, SequentialReset, ResetTokenUsedOnce
<1> QED
  BY <1>1, SeqCorrect, PTL

=============================================================================
