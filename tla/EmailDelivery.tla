--------------------------- MODULE EmailDelivery ---------------------------
(***************************************************************************)
(* Sending an e-mail through Resend with retries and an idempotency key    *)
(* (shared/email, modules/auth/auth.email).  The senders are attempts of   *)
(* outbox jobs: one job may be attempted again while an attempt that lost  *)
(* its lease still sleeps between two tries.                               *)
(***************************************************************************)
EXTENDS Naturals, FiniteSets

CONSTANTS Senders,     \* attempts running at once
          Messages,
          EmailKey,    \* [Messages -> idempotency key]: kind, address, expiry
          MaxRetries, MaxSends, NoMessage

ASSUME EmailConstants ==
    /\ MaxRetries \in Nat /\ MaxSends \in Nat
    /\ NoMessage \notin Messages

VARIABLES sender,      \* [Senders -> Sender]
          processing,  \* [keys -> message the provider works on]
          accepted,    \* [keys -> message the provider took]
          mailbox,     \* [Messages -> how often it was delivered]
          reported,    \* messages a send returned for
          sends        \* calls of send

emailVars == <<sender, processing, accepted, mailbox, reported, sends>>

Keys == {EmailKey[m] : m \in Messages}
Resting == [at |-> "idle"]
Move(s, next) == sender' = [sender EXCEPT ![s] = next]

\* send(): the first try of the loop.
Send(s, m) ==
    /\ sender[s].at = "idle"
    /\ sends < MaxSends
    /\ sends' = sends + 1
    /\ Move(s, [at |-> "sent", message |-> m, attempt |-> 0])
    /\ UNCHANGED <<processing, accepted, mailbox, reported>>

(***************************************************************************)
(* The provider.  A key it has taken answers as the first time, a key it   *)
(* works on and a key of another message are errors.                       *)
(***************************************************************************)
Options(m) == EmailKey[m]
ProviderReceives(s) ==
    LET m == sender[s].message
        k == Options(m)
    IN /\ sender[s].at = "sent"
       /\ \/ /\ accepted[k] = m
             /\ Move(s, [sender[s] EXCEPT !.at = "ok"])
             /\ UNCHANGED processing
          \/ /\ accepted[k] \notin {m, NoMessage}
             /\ Move(s, [sender[s] EXCEPT !.at = "invalid_idempotent_request"])
             /\ UNCHANGED processing
          \/ /\ accepted[k] = NoMessage /\ processing[k] # NoMessage
             /\ Move(s, [sender[s] EXCEPT !.at = "concurrent_idempotent_requests"])
             /\ UNCHANGED processing
          \/ /\ accepted[k] = NoMessage /\ processing[k] = NoMessage
             /\ processing' = [processing EXCEPT ![k] = m]
             /\ Move(s, [sender[s] EXCEPT !.at = "awaiting"])
          \/ /\ \E e \in {"rate_limit_exceeded", "application_error", "validation_error"} :
                    Move(s, [sender[s] EXCEPT !.at = e])
             /\ UNCHANGED processing
       /\ UNCHANGED <<accepted, mailbox, reported, sends>>
ProviderDelivers(k) ==
    LET m == processing[k] IN
    /\ m # NoMessage
    /\ processing' = [processing EXCEPT ![k] = NoMessage]
    /\ accepted' = [accepted EXCEPT ![k] = m]
    /\ mailbox' = [mailbox EXCEPT ![m] = @ + 1]
    /\ sender' = [s \in Senders |->
                     IF sender[s].at = "awaiting" /\ Options(sender[s].message) = k
                     THEN [sender[s] EXCEPT !.at = "ok"] ELSE sender[s]]
    /\ UNCHANGED <<reported, sends>>

\* The connection breaks before or after the provider has the request; what
\* it works on it finishes.
AnswerLost(s) ==
    /\ sender[s].at \in {"sent", "awaiting", "ok"}
    /\ Move(s, [sender[s] EXCEPT !.at = "runtime_error"])
    /\ UNCHANGED <<processing, accepted, mailbox, reported, sends>>

(***************************************************************************)
(* The answer in the loop.                                                 *)
(***************************************************************************)
RetryableErrorNames == {"rate_limit_exceeded", "application_error",
                        "concurrent_idempotent_requests"}
IsRetryable(e) == e \in RetryableErrorNames \cup {"runtime_error"}
(* Regression: a key that was used with another text counts as sent. *)
TakenIsSent(e) == e \in {"ok", "invalid_idempotent_request"}
Answered(e) == e = "ok"

HandleAnswer(s) ==
    LET q == sender[s] IN
    /\ q.at \notin {"idle", "sent", "awaiting", "sleeping"}
    /\ IF Answered(q.at)
       THEN /\ reported' = reported \cup {q.message}
            /\ Move(s, Resting)
       ELSE /\ reported' = reported
            /\ Move(s, IF IsRetryable(q.at) /\ q.attempt < MaxRetries
                       THEN [q EXCEPT !.at = "sleeping"] ELSE Resting)
    /\ UNCHANGED <<processing, accepted, mailbox, sends>>

\* After the backoff, or what the retry-after header asks for.
TryAgain(s) ==
    /\ sender[s].at = "sleeping"
    /\ Move(s, [sender[s] EXCEPT !.at = "sent", !.attempt = @ + 1])
    /\ UNCHANGED <<processing, accepted, mailbox, reported, sends>>

EmailInit ==
    /\ sender = [s \in Senders |-> Resting]
    /\ processing = [k \in Keys |-> NoMessage]
    /\ accepted = [k \in Keys |-> NoMessage]
    /\ mailbox = [m \in Messages |-> 0]
    /\ reported = {} /\ sends = 0

EmailNext ==
    \/ \E s \in Senders : \/ \E m \in Messages : Send(s, m)
                          \/ ProviderReceives(s) \/ AnswerLost(s)
                          \/ HandleAnswer(s) \/ TryAgain(s)
    \/ \E k \in Keys : ProviderDelivers(k)

\* However answers are lost, tries overlap and jobs are attempted again, one
\* message goes out per idempotency key, and a send that returned is of a
\* message that went out.
EmailOncePerKey ==
    /\ \A m \in Messages : mailbox[m] <= 1
    /\ \A m, n \in Messages :
           EmailKey[m] = EmailKey[n] /\ mailbox[m] > 0 /\ mailbox[n] > 0 => m = n
    /\ \A m \in reported : mailbox[m] = 1
=============================================================================
