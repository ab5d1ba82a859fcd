--------------------------- MODULE OutboundProofs ---------------------------
(***************************************************************************)
(* TLAPS proofs about what is in flight towards other services: e-mails    *)
(* (EmailDelivery), recommendations, job fit and the probe (Assistant), at *)
(* once (Outbound), for any number of requests, senders and tries.         *)
(***************************************************************************)
EXTENDS Outbound, FunctionTheorems, FiniteSetTheorems, SequenceTheorems,
        WellFoundedInduction, TLAPS

---------------------------------------------------------------------------
(* E-mails: the inductive invariant *)

Errors == {"rate_limit_exceeded", "application_error", "validation_error",
           "invalid_idempotent_request", "concurrent_idempotent_requests",
           "runtime_error"}
Trying == {q \in [at : {"sent", "awaiting", "ok", "sleeping"} \cup Errors,
                  message : Messages, attempt : 0..MaxRetries] :
              q.at = "sleeping" => q.attempt < MaxRetries}

EmailShaped ==
    /\ sender \in [Senders -> {Resting} \cup Trying]
    /\ processing \in [Keys -> Messages \cup {NoMessage}]
    /\ accepted \in [Keys -> Messages \cup {NoMessage}]
    /\ mailbox = [m \in Messages |-> IF accepted[EmailKey[m]] = m THEN 1 ELSE 0]

(* The provider works on a message under its own key, and on none under a  *)
(* key it has taken.                                                       *)
KeysApart ==
    \A k \in Keys :
        /\ processing[k] # NoMessage => EmailKey[processing[k]] = k /\ accepted[k] = NoMessage
        /\ accepted[k] # NoMessage => EmailKey[accepted[k]] = k

(* Who waits for the provider waits for its own message, and whoever was   *)
(* told that it was taken sent the one that was.                           *)
AnswersAreTrue ==
    /\ \A s \in Senders :
          /\ sender[s].at = "awaiting" =>
                processing[EmailKey[sender[s].message]] = sender[s].message
          /\ sender[s].at = "ok" =>
                accepted[EmailKey[sender[s].message]] = sender[s].message
    /\ reported \subseteq {m \in Messages : accepted[EmailKey[m]] = m}

EmailInv == EmailShaped /\ KeysApart /\ AnswersAreTrue

LEMMA EmailInvInit == EmailInit => EmailInv
BY EmailConstants DEF EmailInit, EmailInv, EmailShaped, KeysApart, AnswersAreTrue, Keys, Resting

(* A step of one sender that neither the provider nor the caller sees.     *)
LEMMA SenderStep ==
  ASSUME EmailInv, NEW s \in Senders, NEW q \in {Resting} \cup Trying,
         sender' = [sender EXCEPT ![s] = q],
         q.at = "ok" => accepted[EmailKey[q.message]] = q.message,
         q.at = "awaiting" => processing[EmailKey[q.message]] = q.message,
         UNCHANGED <<processing, accepted, mailbox>>,
         reported' \subseteq {m \in Messages : accepted[EmailKey[m]] = m}
  PROVE  EmailInv'
BY DEF EmailInv, EmailShaped, KeysApart, AnswersAreTrue

LEMMA EmailStep == EmailInv /\ [EmailNext]_emailVars => EmailInv'
<1> SUFFICES ASSUME EmailInv, [EmailNext]_emailVars PROVE EmailInv'
  OBVIOUS
<1> USE EmailConstants
<1>1. /\ \A s \in Senders : sender[s] \in {Resting} \cup Trying
      /\ \A s \in Senders : sender[s].at # "idle" => sender[s] \in Trying
      /\ reported \subseteq {m \in Messages : accepted[EmailKey[m]] = m}
  BY DEF EmailInv, EmailShaped, AnswersAreTrue, Resting
<1>2. ASSUME NEW s \in Senders, NEW m \in Messages, Send(s, m) PROVE EmailInv'
  <2> DEFINE q == [at |-> "sent", message |-> m, attempt |-> 0]
  <2>1. q \in Trying /\ q.at = "sent"
    BY DEF Trying
  <2>2. sender' = [sender EXCEPT ![s] = q] /\ UNCHANGED <<processing, accepted, mailbox, reported>>
    BY <1>2 DEF Send, Move
  <2> QED
    BY <1>1, <2>1, <2>2, SenderStep
<1>3. ASSUME NEW s \in Senders, ProviderReceives(s) PROVE EmailInv'
  <2> DEFINE m == sender[s].message
             k == EmailKey[m]
  <2>1. /\ sender[s] \in Trying /\ m \in Messages /\ k \in Keys
        /\ UNCHANGED <<accepted, mailbox, reported>>
    BY <1>1, <1>3 DEF ProviderReceives, Trying, Keys
  <2>2. CASE /\ accepted[k] = m /\ Move(s, [sender[s] EXCEPT !.at = "ok"])
             /\ UNCHANGED processing
    <3> DEFINE q == [sender[s] EXCEPT !.at = "ok"]
    <3>1. q \in Trying /\ q.at = "ok" /\ q.message = m
      BY <2>1 DEF Trying
    <3>2. sender' = [sender EXCEPT ![s] = q]
      BY <2>2 DEF Move
    <3> QED
      BY <1>1, <2>1, <2>2, <3>1, <3>2, SenderStep
  <2>3. CASE /\ \E e \in Errors : Move(s, [sender[s] EXCEPT !.at = e])
             /\ UNCHANGED processing
    <3>1. PICK e \in Errors : sender' = [sender EXCEPT ![s] = [sender[s] EXCEPT !.at = e]]
      BY <2>3 DEF Move
    <3> DEFINE q == [sender[s] EXCEPT !.at = e]
    <3>2. q \in Trying /\ q.at \notin {"ok", "awaiting"}
      BY <2>1 DEF Trying, Errors
    <3> QED
      BY <1>1, <2>1, <2>3, <3>1, <3>2, SenderStep
  <2>4. CASE /\ accepted[k] = NoMessage /\ processing[k] = NoMessage
             /\ processing' = [processing EXCEPT ![k] = m]
             /\ Move(s, [sender[s] EXCEPT !.at = "awaiting"])
    <3> DEFINE q == [sender[s] EXCEPT !.at = "awaiting"]
    <3>1. q \in Trying /\ q.at = "awaiting" /\ q.message = m
      BY <2>1 DEF Trying
    <3>2. sender' = [sender EXCEPT ![s] = q]
      BY <2>4 DEF Move
    <3>3. processing'[k] = m /\ \A l \in Keys \ {k} : processing'[l] = processing[l]
      BY <2>1, <2>4 DEF EmailInv, EmailShaped
    <3>4. EmailShaped'
      BY <2>1, <2>4, <3>1, <3>2 DEF EmailInv, EmailShaped
    <3>5. KeysApart'
      BY <2>1, <2>4, <3>3 DEF EmailInv, KeysApart
    <3>6. AnswersAreTrue'
      <4>1. \A t \in Senders \ {s} : sender'[t] = sender[t]
        BY <3>2 DEF EmailInv, EmailShaped
      <4>2. sender'[s] = q
        BY <3>2 DEF EmailInv, EmailShaped
      <4>3. ASSUME NEW t \in Senders \ {s}, sender[t].at = "awaiting"
            PROVE  processing'[EmailKey[sender[t].message]] = sender[t].message
        <5>1. /\ sender[t].message \in Messages
              /\ processing[EmailKey[sender[t].message]] = sender[t].message
          BY <1>1, <4>3 DEF EmailInv, AnswersAreTrue, Trying
        <5>2. EmailKey[sender[t].message] \in Keys \ {k}
          BY <2>4, <5>1 DEF Keys
        <5> QED
          BY <3>3, <5>1, <5>2
      <4>4. ASSUME NEW t \in Senders
            PROVE  /\ sender'[t].at = "awaiting" =>
                         processing'[EmailKey[sender'[t].message]] = sender'[t].message
                   /\ sender'[t].at = "ok" =>
                         accepted[EmailKey[sender'[t].message]] = sender'[t].message
        <5>1. CASE t = s
          BY <3>1, <3>3, <4>2, <5>1
        <5>2. CASE t # s
          BY <4>1, <4>3, <5>2 DEF EmailInv, AnswersAreTrue
        <5> QED
          BY <5>1, <5>2
      <4> QED
        BY <1>1, <2>1, <4>4 DEF AnswersAreTrue
    <3> QED
      BY <3>4, <3>5, <3>6 DEF EmailInv
  <2> QED
    BY <1>3, <2>2, <2>3, <2>4 DEF ProviderReceives, Options, Errors
<1>4. ASSUME NEW k \in Keys, ProviderDelivers(k) PROVE EmailInv'
  <2> DEFINE m == processing[k]
  <2>1. m \in Messages /\ EmailKey[m] = k /\ accepted[k] = NoMessage
    BY <1>4 DEF ProviderDelivers, EmailInv, EmailShaped, KeysApart
  <2>2. /\ processing' = [processing EXCEPT ![k] = NoMessage]
        /\ accepted' = [accepted EXCEPT ![k] = m]
        /\ mailbox' = [mailbox EXCEPT ![m] = @ + 1]
        /\ sender' = [s \in Senders |->
                        IF sender[s].at = "awaiting" /\ EmailKey[sender[s].message] = k
                        THEN [sender[s] EXCEPT !.at = "ok"] ELSE sender[s]]
        /\ UNCHANGED reported
    BY <1>4 DEF ProviderDelivers, Options
  <2>3. /\ accepted'[k] = m /\ processing'[k] = NoMessage
        /\ \A l \in Keys \ {k} : accepted'[l] = accepted[l] /\ processing'[l] = processing[l]
    BY <2>2 DEF EmailInv, EmailShaped
  <2>4. \A n \in Messages : EmailKey[n] \in Keys
    BY DEF Keys
  <2>5. sender' \in [Senders -> {Resting} \cup Trying]
    <3>1. ASSUME NEW s \in Senders, sender[s].at = "awaiting"
          PROVE  [sender[s] EXCEPT !.at = "ok"] \in Trying
      BY <1>1, <3>1 DEF Trying
    <3> QED
      BY <1>1, <2>2, <3>1
  <2>6. mailbox' = [n \in Messages |-> IF accepted'[EmailKey[n]] = n THEN 1 ELSE 0]
    <3>1. mailbox = [n \in Messages |-> IF accepted[EmailKey[n]] = n THEN 1 ELSE 0]
      BY DEF EmailInv, EmailShaped
    <3>2. ASSUME NEW n \in Messages
          PROVE  mailbox'[n] = IF accepted'[EmailKey[n]] = n THEN 1 ELSE 0
      <4>1. CASE n = m
        BY <2>1, <2>2, <2>3, <3>1, <4>1
      <4>2. CASE n # m /\ EmailKey[n] = k
        BY <2>1, <2>2, <2>3, <3>1, <4>2
      <4>3. CASE EmailKey[n] # k
        BY <2>1, <2>2, <2>3, <2>4, <3>1, <4>3
      <4> QED
        BY <4>1, <4>2, <4>3
    <3>3. mailbox' = [n \in Messages |-> mailbox'[n]]
      BY <2>2, <3>1
    <3> QED
      BY <3>2, <3>3
  <2>7. EmailShaped'
    BY <2>1, <2>2, <2>5, <2>6 DEF EmailInv, EmailShaped
  <2>8. KeysApart'
    BY <2>1, <2>3 DEF EmailInv, KeysApart
  <2>9. reported' \subseteq {n \in Messages : accepted'[EmailKey[n]] = n}
    BY <1>1, <2>1, <2>2, <2>3, <2>4
  <2>10. ASSUME NEW s \in Senders
         PROVE  /\ sender'[s].at = "awaiting" =>
                      processing'[EmailKey[sender'[s].message]] = sender'[s].message
                /\ sender'[s].at = "ok" =>
                      accepted'[EmailKey[sender'[s].message]] = sender'[s].message
    <3>1. CASE sender[s].at = "awaiting" /\ EmailKey[sender[s].message] = k
      <4>1. sender[s] \in Trying /\ sender[s].message = m
        BY <1>1, <3>1 DEF EmailInv, AnswersAreTrue
      <4>2. sender'[s].at = "ok" /\ sender'[s].message = m
        BY <2>2, <3>1, <4>1 DEF Trying
      <4> QED
        BY <2>1, <2>3, <4>2
    <3>2. CASE ~(sender[s].at = "awaiting" /\ EmailKey[sender[s].message] = k)
      <4>1. sender'[s] = sender[s]
        BY <2>2, <3>2
      <4>2. CASE sender[s].at \in {"awaiting", "ok"}
        <5>1. sender[s].message \in Messages
          BY <1>1, <4>2 DEF Trying
        <5>2. EmailKey[sender[s].message] \in Keys \ {k}
          BY <2>1, <2>4, <3>2, <4>2, <5>1 DEF EmailInv, AnswersAreTrue
        <5> QED
          BY <2>3, <4>1, <4>2, <5>2 DEF EmailInv, AnswersAreTrue
      <4> QED
        BY <4>1, <4>2
    <3> QED
      BY <3>1, <3>2
  <2> QED
    BY <2>7, <2>8, <2>9, <2>10 DEF EmailInv, AnswersAreTrue
<1>5. ASSUME NEW s \in Senders, AnswerLost(s) PROVE EmailInv'
  <2> DEFINE q == [sender[s] EXCEPT !.at = "runtime_error"]
  <2>1. q \in Trying /\ q.at = "runtime_error"
    BY <1>1, <1>5 DEF AnswerLost, Trying, Errors
  <2>2. sender' = [sender EXCEPT ![s] = q] /\ UNCHANGED <<processing, accepted, mailbox, reported>>
    BY <1>5 DEF AnswerLost, Move
  <2> QED
    BY <1>1, <2>1, <2>2, SenderStep
<1>6. ASSUME NEW s \in Senders, HandleAnswer(s) PROVE EmailInv'
  <2>1. sender[s] \in Trying /\ UNCHANGED <<processing, accepted, mailbox>>
    BY <1>1, <1>6 DEF HandleAnswer
  <2>2. CASE sender[s].at = "ok"
    <3>1. /\ sender' = [sender EXCEPT ![s] = Resting]
          /\ reported' = reported \cup {sender[s].message}
      BY <1>6, <2>2 DEF HandleAnswer, Answered, Move
    <3>2. sender[s].message \in Messages /\ accepted[EmailKey[sender[s].message]] = sender[s].message
      BY <2>1, <2>2 DEF Trying, EmailInv, AnswersAreTrue
    <3> QED
      BY <1>1, <2>1, <3>1, <3>2, SenderStep DEF Resting
  <2>3. CASE sender[s].at # "ok"
    <3> DEFINE q == IF IsRetryable(sender[s].at) /\ sender[s].attempt < MaxRetries
                    THEN [sender[s] EXCEPT !.at = "sleeping"] ELSE Resting
    <3>1. sender' = [sender EXCEPT ![s] = q] /\ reported' = reported
      BY <1>6, <2>3 DEF HandleAnswer, Answered, Move
    <3>2. /\ q \in {Resting} \cup Trying
          /\ q.at \notin {"ok", "awaiting"}
      BY <2>1 DEF Trying, Resting
    <3> QED
      BY <1>1, <2>1, <3>1, <3>2, SenderStep
  <2> QED
    BY <2>2, <2>3
<1>7. ASSUME NEW s \in Senders, TryAgain(s) PROVE EmailInv'
  <2> DEFINE q == [sender[s] EXCEPT !.at = "sent", !.attempt = @ + 1]
  <2>1. q \in Trying /\ q.at = "sent"
    <3>1. sender[s] \in Trying /\ sender[s].attempt \in 0..(MaxRetries - 1)
      BY <1>1, <1>7 DEF TryAgain, Trying
    <3>2. sender[s].attempt + 1 \in 0..MaxRetries
      BY <3>1
    <3> QED
      BY <3>1, <3>2 DEF Trying
  <2>2. sender' = [sender EXCEPT ![s] = q] /\ UNCHANGED <<processing, accepted, mailbox, reported>>
    BY <1>7 DEF TryAgain, Move
  <2> QED
    BY <1>1, <2>1, <2>2, SenderStep
<1>8. CASE UNCHANGED emailVars
  BY <1>8 DEF emailVars, EmailInv, EmailShaped, KeysApart, AnswersAreTrue
<1> QED
  BY <1>2, <1>3, <1>4, <1>5, <1>6, <1>7, <1>8 DEF EmailNext

---------------------------------------------------------------------------
(* Requests: the inductive invariant *)

PlainSteps == {"recommend", "resolve", "latest", "detail", "fit", "fitModel",
               "fitScore", "skillGaps", "ready"}
ListSteps == {"recommend", "resolve", "latest", "detail", "candidates", "model", "store"}
Runs == [user : {input.user : input \in Inputs}, key : {input.key : input \in Inputs},
         analysis : 1..Len(Analyses), items : BoundedSeq(Jobs, MaxList), created : Stamps]

(* The status of an answer is one the tables document for its cause.       *)
StatusOK(status, cause) ==
    /\ cause \in DOMAIN Documented => status = Documented[cause]
    /\ status = 500 => cause \in {"db", "key", "size"}

(* An answer shows items of a run of its user, and after a generation the  *)
(* run has the key that was sent.                                          *)
AnswerOK(q) ==
    /\ StatusOK(q.status, q.cause)
    /\ q.run # None =>
          /\ q.run \in RunsOf(q.input.user)
          /\ q.shown \subseteq ToSet(runs[q.run].items)
          /\ Cardinality(q.shown) <= q.input.limit
    /\ q.status = 201 => /\ q.run \in 1..Len(runs)
                         /\ q.input.key \in {None, runs[q.run].key}

(* What a handler carries from one await to the next stays true.           *)
RequestOK(q) ==
    /\ q.at \in PlainSteps \cup {"idle", "answered", "candidates", "model", "store", "redis"}
    /\ q.at \in PlainSteps => q \in [at : PlainSteps, input : Inputs, id : 1..calls]
    /\ q.at # "idle" => q.input \in Inputs /\ q.id \in 1..calls
    /\ q.at \in ListSteps => q.input.limit \in Nat
    /\ q.at \in {"candidates", "model", "store"} => q.analysis \in Stored(q.input.user)
    /\ q.at = "model" => q.candidates \subseteq Jobs
    /\ q.at = "store" => /\ q.items \in BoundedSeq(Jobs, MaxList) /\ IsInjective(q.items)
                         /\ q.created \in Stamps
    /\ q.at = "skillGaps" => q.id \in fits
    /\ q.at = "answered" => AnswerOK(q)

Counted ==
    /\ listing \in [Jobs -> {"open", "closed", "hidden"}]
    /\ applied \subseteq Users \X Jobs
    /\ analyses \in 0..Len(Analyses)
    /\ fits \cup gaps \subseteq 1..calls
    /\ calls \in 0..MaxCalls /\ changes \in 0..MaxChanges
    /\ faults \in 0..MaxFaults /\ torn \in BOOLEAN

RunsOK ==
    /\ runs \in Seq(Runs)
    /\ \A i \in 1..Len(runs) : Analyses[runs[i].analysis].owner = runs[i].user

KeysUsedOnce ==
    \A i, k \in 1..Len(runs) :
        runs[i].key # None /\ runs[i].user = runs[k].user /\ runs[i].key = runs[k].key
            => i = k

RequestsOK ==
    /\ request = [r \in Requests |-> request[r]]
    /\ \A r \in Requests : RequestOK(request[r])

AssistantInv == Counted /\ RunsOK /\ KeysUsedOnce /\ RequestsOK /\ FitScoresHaveGaps

LEMMA AssistantInvInit == AssistantInit => AssistantInv
<1> SUFFICES ASSUME AssistantInit PROVE AssistantInv
  OBVIOUS
<1>1. Counted
  <2>1. torn \in BOOLEAN
    BY DEF AssistantInit
  <2>2. listing \in [Jobs -> {"open", "closed", "hidden"}]
    BY DEF AssistantInit
  <2> QED
    BY <2>1, <2>2, AssistantConstants DEF AssistantInit, Counted
<1>2. runs = <<>> /\ Len(runs) = 0 /\ runs \in Seq(Runs)
  BY DEF AssistantInit
<1>3. RunsOK /\ KeysUsedOnce
  BY <1>2 DEF RunsOK, KeysUsedOnce
<1>4. RequestsOK
  BY DEF AssistantInit, RequestsOK, RequestOK, Idle, PlainSteps, ListSteps
<1>5. FitScoresHaveGaps
  BY DEF AssistantInit, FitScoresHaveGaps
<1> QED
  BY <1>1, <1>3, <1>4, <1>5 DEF AssistantInv

---------------------------------------------------------------------------
(* Lemmas on what the handlers compute *)

(* At most n of a set of numbers come first.                               *)
LEMMA BestAreFew ==
  ASSUME NEW n \in Nat, NEW S \in SUBSET Nat, IsFiniteSet(S)
  PROVE  IsFiniteSet(Best(n, S, <)) /\ Cardinality(Best(n, S, <)) <= n
<1> DEFINE B == Best(n, S, <)
           Below(j) == {i \in S : i < j}
           f == [j \in B |-> Cardinality(Below(j))]
<1>1. B \subseteq S /\ \A j \in B : Cardinality(Below(j)) < n
  BY DEF Best
<1>2. \A j \in S : IsFiniteSet(Below(j)) /\ Cardinality(Below(j)) \in Nat
  <2> SUFFICES ASSUME NEW j \in S
               PROVE  IsFiniteSet(Below(j)) /\ Cardinality(Below(j)) \in Nat
    OBVIOUS
  <2>1. Below(j) \in SUBSET S
    OBVIOUS
  <2> HIDE DEF Below
  <2> QED
    BY <2>1, FS_Subset, FS_CardinalityType
<1>3. ASSUME NEW i \in S, NEW j \in S, i < j
      PROVE  Cardinality(Below(i)) < Cardinality(Below(j))
  <2>1. Below(i) \subseteq Below(j) /\ i \in Below(j) /\ i \notin Below(i)
    <3>1. \A k \in S : k \in Nat
      OBVIOUS
    <3>2. \A k \in S : k < i => k < j
      BY <1>3, <3>1
    <3>3. ~(i < i)
      BY <3>1
    <3> QED
      BY <1>3, <3>2, <3>3
  <2>2. /\ Cardinality(Below(i)) <= Cardinality(Below(j))
        /\ Cardinality(Below(j)) = Cardinality(Below(i)) => Below(j) = Below(i)
    <3> HIDE DEF Below
    <3> QED
      BY <1>2, <2>1, FS_Subset
  <2> HIDE DEF Below
  <2> QED
    BY <1>2, <2>1, <2>2
<1>4. f \in [B -> 0..(n - 1)]
  <2>1. \A j \in B : Cardinality(Below(j)) \in 0..(n - 1)
    <3> HIDE DEF Below, B
    <3> QED
      BY <1>1, <1>2
  <2> QED
    BY <2>1
<1>5. \A i, j \in B : f[i] = f[j] => i = j
  <2> SUFFICES ASSUME NEW i \in B, NEW j \in B, f[i] = f[j], i # j PROVE FALSE
    OBVIOUS
  <2>1. i \in S /\ j \in S /\ (i < j \/ j < i)
    <3>1. i \in S /\ j \in S
      BY <1>1
    <3>2. i \in Nat /\ j \in Nat /\ i # j
      BY <3>1
    <3> HIDE DEF B, f
    <3> QED
      BY <3>1, <3>2
  <2>2. Cardinality(Below(i)) = Cardinality(Below(j))
    OBVIOUS
  <2> HIDE DEF Below, B, f
  <2> QED
    BY <1>1, <1>2, <1>3, <2>1, <2>2
<1>6. f \in Injection(B, 0..(n - 1))
  BY <1>4, <1>5 DEF Injection, IsInjective
<1>7. IsFiniteSet(0..(n - 1)) /\ Cardinality(0..(n - 1)) = n
  BY FS_Interval
<1> HIDE DEF f, B
<1>8. IsFiniteSet(B) /\ Cardinality(B) <= n
  BY <1>6, <1>7, FS_Injection
<1> QED
  BY <1>8 DEF B

(* What is shown of a run are items of it, no more than asked for.         *)
LEMMA ResourceShows ==
  ASSUME NEW run, run.items \in BoundedSeq(Jobs, MaxList), NEW limit \in Nat
  PROVE  /\ Resource(run, limit) \subseteq ToSet(run.items)
         /\ Cardinality(Resource(run, limit)) <= limit
<1> DEFINE shown == {i \in 1..Len(run.items) : Visible(run.items[i])}
           B == Best(limit, shown, <)
           image == {run.items[i] : i \in B}
           f == [i \in B |-> run.items[i]]
<1>1. Len(run.items) \in Nat /\ DOMAIN run.items = 1..Len(run.items)
  BY AssistantConstants DEF BoundedSeq, SeqOf
<1>2. shown \in SUBSET Nat /\ IsFiniteSet(shown)
  <2>1. IsFiniteSet(1..Len(run.items))
    BY <1>1, FS_Interval
  <2>2. shown \in SUBSET (1..Len(run.items)) /\ shown \in SUBSET Nat
    BY <1>1
  <2> HIDE DEF shown
  <2> QED
    BY <2>1, <2>2, FS_Subset
<1>3. IsFiniteSet(B) /\ Cardinality(B) <= limit
  BY <1>2, BestAreFew
<1>4. B \subseteq shown
  BY DEF Best
<1>5. f \in Surjection(B, image)
  BY DEF Surjection
<1>6. IsFiniteSet(image) /\ Cardinality(image) <= Cardinality(B)
  <2> HIDE DEF f, B, image
  <2> QED
    BY <1>3, <1>5, FS_Surjection
<1>7. Cardinality(image) \in Nat /\ Cardinality(B) \in Nat
  <2> HIDE DEF B, image
  <2> QED
    BY <1>3, <1>6, FS_CardinalityType
<1>8. image = Resource(run, limit)
  BY DEF Resource
<1>9. image \subseteq ToSet(run.items)
  BY <1>1, <1>4 DEF ToSet
<1> HIDE DEF image, B
<1> QED
  BY <1>3, <1>6, <1>7, <1>8, <1>9

(* The newest of the analyses of a user is one of them. *)
LEMMA LatestIsStored ==
  ASSUME AssistantInv, NEW user, Stored(user) # {}
  PROVE  Latest(Stored(user)) \in Stored(user)
<1> DEFINE S == Stored(user)
           Rest == {analyses - i : i \in S}
<1>1. S \subseteq 1..analyses /\ analyses \in Nat
  BY AssistantConstants DEF Stored, AssistantInv, Counted
<1>2. Rest \subseteq Nat /\ Rest # {}
  BY <1>1
<1>3. PICK m \in Rest : \A k \in Rest : ~ (<<k, m>> \in OpToRel(<, Nat))
  <2> HIDE DEF Rest
  <2> QED
    BY <1>2, NatLessThanWellFounded, WFMin
<1>4. PICK i \in S : m = analyses - i
  OBVIOUS
<1>5. \A k \in S : k <= i
  <2> SUFFICES ASSUME NEW k \in S PROVE k <= i
    OBVIOUS
  <2>1. analyses - k \in Rest
    OBVIOUS
  <2>2. i \in Nat /\ k \in Nat /\ m \in Nat /\ analyses - k \in Nat
    BY <1>1, <1>2, <1>4
  <2>3. ~(analyses - k < m)
    BY <1>3, <2>1, <2>2 DEF OpToRel
  <2> HIDE DEF S, Rest
  <2> QED
    BY <1>1, <1>4, <2>2, <2>3
<1> HIDE DEF S
<1>6. \E j \in S : \A k \in S : k <= j
  BY <1>5
<1> QED
  BY <1>6 DEF Latest, S

(* What a failure of the Model API and an error class answer.              *)
LEMMA FailureStatus ==
  ASSUME NEW f \in Failures
  PROVE  StatusOK(Normalized(RequestError(f)), f) /\ Normalized(RequestError(f)) # 201
<1> USE DEF StatusOK, Documented, Normalized, StatusOf, RequestError, Caught, Thrown,
        ParseJsonBody, MapModelApiHttpError
<1>1. CASE f = "refused"
  BY <1>1
<1>2. CASE f = "timeout"
  BY <1>2
<1>3. CASE f = "cut"
  BY <1>3
<1>4. CASE f = "server"
  BY <1>4
<1>5. CASE f = "client"
  BY <1>5
<1>6. CASE f = "garbled"
  BY <1>6
<1>7. CASE f = "shape"
  BY <1>7
<1> QED
  BY <1>1, <1>2, <1>3, <1>4, <1>5, <1>6, <1>7 DEF Failures

LEMMA ClassStatus ==
  /\ StatusOK(Normalized("NotFound"), "analysis") /\ Normalized("NotFound") # 201
  /\ StatusOK(Normalized("Validation"), "analysis") /\ Normalized("Validation") # 201
  /\ StatusOK(Normalized("NotFound"), "run") /\ StatusOK(Normalized("NotFound"), "job")
  /\ StatusOK(Normalized("Conflict"), "profile") /\ Normalized("Conflict") # 201
  /\ StatusOK(Normalized("Conflict"), "preference")
  /\ StatusOK(Normalized("Downstream"), "list") /\ Normalized("Downstream") # 201
  /\ StatusOK(Normalized("Unavailable"), "dependency") /\ Normalized("Unavailable") # 201
  /\ StatusOK(Normalized("ZodError"), "size") /\ Normalized("ZodError") # 201
  /\ StatusOK(Normalized("PrismaError"), "key") /\ Normalized("PrismaError") # 201
  /\ StatusOK(Normalized("PrismaError"), "db")
BY DEF StatusOK, Documented, Normalized, StatusOf

---------------------------------------------------------------------------
(* Steps of one request *)

storeVars == <<listing, applied, analyses, runs, fits, gaps, calls, changes>>

(* A handler goes on, or answers, and changes nothing that others see.     *)
LEMMA QuietStep ==
  ASSUME AssistantInv, NEW r \in Requests, NEW q,
         request' = [request EXCEPT ![r] = q], RequestOK(q),
         UNCHANGED storeVars, faults' \in 0..MaxFaults, torn' \in BOOLEAN,
         torn => torn', request[r].at # "skillGaps" \/ torn'
  PROVE  AssistantInv'
<1>1. /\ request' = [t \in Requests |-> request'[t]] /\ request'[r] = q
      /\ \A t \in Requests \ {r} : request'[t] = request[t]
  BY DEF AssistantInv, RequestsOK
<1>2. \A t \in Requests : RequestOK(request'[t])
  BY <1>1 DEF AssistantInv, RequestsOK
<1>3. ASSUME NEW t \in Requests PROVE RequestOK(request[t])'
  <2>1. PICK p : p = request'[t]
    OBVIOUS
  <2>2. RequestOK(p)
    BY <1>2, <2>1
  <2>3. RequestOK(p)'
    BY <2>2 DEF storeVars, RequestOK, AnswerOK, RunsOf, Stored
  <2> QED
    BY <2>1, <2>3
<1>4. RequestsOK'
  BY <1>1, <1>3 DEF RequestsOK
<1>5. Counted' /\ RunsOK' /\ KeysUsedOnce'
  BY DEF storeVars, AssistantInv, Counted, RunsOK, KeysUsedOnce
<1>6. FitScoresHaveGaps'
  BY <1>1 DEF storeVars, AssistantInv, FitScoresHaveGaps
<1> QED
  BY <1>4, <1>5, <1>6 DEF AssistantInv

(* A handler answers without a run. *)
LEMMA AnswerStep ==
  ASSUME AssistantInv, NEW r \in Requests, NEW status, NEW cause,
         Answer(r, status, cause, None, {}), request[r].at # "idle",
         StatusOK(status, cause), status # 201,
         UNCHANGED storeVars, faults' \in 0..MaxFaults, torn' \in BOOLEAN,
         torn => torn', request[r].at # "skillGaps" \/ torn'
  PROVE  AssistantInv'
<1>1. PICK q : q = [at |-> "answered", input |-> request[r].input, id |-> request[r].id,
                    status |-> status, cause |-> cause, run |-> None, shown |-> {}]
  OBVIOUS
<1>2. request[r].input \in Inputs /\ request[r].id \in 1..calls
  BY DEF AssistantInv, RequestsOK, RequestOK
<1>3. RequestOK(q)
  BY <1>1, <1>2 DEF RequestOK, AnswerOK, PlainSteps, ListSteps
<1>4. request' = [request EXCEPT ![r] = q]
  BY <1>1 DEF Answer, Goto
<1> QED
  BY <1>3, <1>4, QuietStep

(* A handler answers with a stored run of its user. *)
LEMMA RunStep ==
  ASSUME AssistantInv, NEW r \in Requests, NEW status, NEW cause, NEW i,
         i \in RunsOf(request[r].input.user),
         Answer(r, status, cause, i, Resource(runs[i], request[r].input.limit)),
         request[r].at \in ListSteps, StatusOK(status, cause),
         status = 201 => runs[i].key = request[r].input.key,
         UNCHANGED storeVars, UNCHANGED <<faults, torn>>
  PROVE  AssistantInv'
<1>1. PICK q : q = [at |-> "answered", input |-> request[r].input, id |-> request[r].id,
                    status |-> status, cause |-> cause, run |-> i,
                    shown |-> Resource(runs[i], request[r].input.limit)]
  OBVIOUS
<1>2. /\ request[r].input \in Inputs /\ request[r].id \in 1..calls
      /\ request[r].input.limit \in Nat
  BY DEF AssistantInv, RequestsOK, RequestOK, ListSteps
<1>3. i \in 1..Len(runs) /\ runs[i].items \in BoundedSeq(Jobs, MaxList)
  <2>1. i \in 1..Len(runs) /\ runs \in Seq(Runs)
    BY DEF AssistantInv, RunsOK, RunsOf
  <2>2. runs[i] \in Runs
    BY <2>1
  <2> QED
    BY <2>1, <2>2 DEF Runs
<1>4. /\ q.shown \subseteq ToSet(runs[i].items)
      /\ Cardinality(q.shown) <= q.input.limit
  BY <1>1, <1>2, <1>3, ResourceShows
<1>5. AnswerOK(q)
  BY <1>1, <1>3, <1>4 DEF AnswerOK
<1>6. RequestOK(q)
  BY <1>1, <1>2, <1>5 DEF RequestOK, PlainSteps, ListSteps
<1>7. request' = [request EXCEPT ![r] = q]
  BY <1>1 DEF Answer, Goto
<1>8. /\ faults' \in 0..MaxFaults /\ torn' \in BOOLEAN
      /\ torn => torn'
      /\ request[r].at # "skillGaps"
  BY DEF AssistantInv, Counted, ListSteps
<1> QED
  BY <1>6, <1>7, <1>8, QuietStep

(* A call of generateRecommendations up to its insert. *)
LEMMA RecommendStep ==
  ASSUME AssistantInv, NEW r \in Requests,
         \/ FindKeyedRun(r) \/ ResolveCvAnalysisResult(r) \/ ReadCandidates(r)
         \/ ModelRecommends(r)
  PROVE  AssistantInv'
<1> DEFINE o == request[r]
<1>1. RequestOK(o) /\ faults \in 0..MaxFaults /\ torn \in BOOLEAN
  BY DEF AssistantInv, RequestsOK, Counted
<1>2. CASE FindKeyedRun(r)
  <2>1. /\ o.at = "recommend" /\ UNCHANGED storeVars /\ UNCHANGED <<faults, torn>>
    BY <1>2 DEF FindKeyedRun, storeVars
  <2>2. CASE /\ o.input.key # None
             /\ \E i \in KeyedRuns(o.input.user, o.input.key) :
                   Answer(r, 201, "replay", i, Resource(runs[i], o.input.limit))
    <3>1. PICK i \in KeyedRuns(o.input.user, o.input.key) :
             Answer(r, 201, "replay", i, Resource(runs[i], o.input.limit))
      BY <2>2
    <3>2. i \in RunsOf(o.input.user) /\ runs[i].key = o.input.key
      BY DEF KeyedRuns
    <3>3. StatusOK(201, "replay") /\ o.at \in ListSteps
      BY <2>1 DEF StatusOK, Documented, ListSteps
    <3> QED
      BY <2>1, <3>1, <3>2, <3>3, RunStep
  <2>3. CASE Goto(r, [o EXCEPT !.at = "resolve"])
    <3>1. PICK q : q = [o EXCEPT !.at = "resolve"]
      OBVIOUS
    <3>2. o \in [at : PlainSteps, input : Inputs, id : 1..calls] /\ o.input.limit \in Nat
      BY <1>1, <2>1 DEF RequestOK, PlainSteps, ListSteps
    <3>3. RequestOK(q)
      BY <3>1, <3>2 DEF RequestOK, PlainSteps, ListSteps
    <3> QED
      BY <1>1, <2>1, <2>3, <3>1, <3>3, QuietStep DEF Goto
  <2> QED
    BY <1>2, <2>2, <2>3 DEF FindKeyedRun
<1>3. CASE ResolveCvAnalysisResult(r)
  <2> DEFINE given == o.input.analysis
             found == IF given # None THEN {given} \cap Stored(o.input.user)
                      ELSE IF Stored(o.input.user) = {} THEN {}
                      ELSE {Latest(Stored(o.input.user))}
             usable == {i \in found : Analyses[i].job # None}
  <2>1. o.at = "resolve" /\ UNCHANGED storeVars /\ UNCHANGED <<faults, torn>>
    BY <1>3 DEF ResolveCvAnalysisResult, storeVars
  <2>2. CASE Fail(r, IF given # None THEN "NotFound" ELSE "Validation", "analysis")
    <3>1. PICK class \in {"NotFound", "Validation"} :
             Answer(r, Normalized(class), "analysis", None, {})
      BY <2>2 DEF Fail
    <3> QED
      BY <1>1, <2>1, <3>1, ClassStatus, AnswerStep
  <2>3. CASE \E i \in usable : Goto(r, [at |-> "candidates", input |-> o.input,
                                       id |-> o.id, analysis |-> i])
    <3>1. PICK i \in usable : Goto(r, [at |-> "candidates", input |-> o.input,
                                        id |-> o.id, analysis |-> i])
      BY <2>3
    <3> DEFINE q == [at |-> "candidates", input |-> o.input, id |-> o.id, analysis |-> i]
    <3>2. i \in Stored(o.input.user)
      BY LatestIsStored
    <3>3. RequestOK(q)
      BY <1>1, <2>1, <3>1, <3>2 DEF RequestOK, PlainSteps, ListSteps
    <3> QED
      BY <1>1, <2>1, <3>1, <3>3, QuietStep DEF Goto
  <2> QED
    BY <1>3, <2>2, <2>3 DEF ResolveCvAnalysisResult
<1>4. CASE ReadCandidates(r)
  <2>1. o.at = "candidates" /\ UNCHANGED storeVars /\ UNCHANGED <<faults, torn>>
    BY <1>4 DEF ReadCandidates, storeVars
  <2>6. PICK found \in FindCandidateJobs(o) :
           \/ \E t \in Stamps :
                 Goto(r, [at |-> "store", input |-> o.input, id |-> o.id,
                          analysis |-> o.analysis, items |-> <<>>, created |-> t])
           \/ Fail(r, "ZodError", "size")
           \/ Goto(r, [at |-> "model", input |-> o.input, id |-> o.id,
                        analysis |-> o.analysis, candidates |-> found,
                        sent |-> RankCandidates(o.input.user, found)])
    BY <1>4 DEF ReadCandidates
  <2> DEFINE sent == RankCandidates(o.input.user, found)
  <2>2. o.analysis \in Stored(o.input.user) /\ o.input.limit \in Nat
        /\ o.input \in Inputs /\ o.id \in 1..calls
    BY <1>1, <2>1 DEF RequestOK, ListSteps
  <2>3. CASE \E t \in Stamps :
                Goto(r, [at |-> "store", input |-> o.input, id |-> o.id,
                         analysis |-> o.analysis, items |-> <<>>, created |-> t])
    <3>1. PICK t \in Stamps :
             Goto(r, [at |-> "store", input |-> o.input, id |-> o.id,
                      analysis |-> o.analysis, items |-> <<>>, created |-> t])
      BY <2>3
    <3> DEFINE q == [at |-> "store", input |-> o.input, id |-> o.id,
                     analysis |-> o.analysis, items |-> <<>>, created |-> t]
    <3>2. <<>> \in BoundedSeq(Jobs, MaxList) /\ IsInjective(<<>>)
      <4>1. <<>> \in [1..0 -> Jobs] /\ 0 \in 0..MaxList
        BY AssistantConstants
      <4> QED
        BY <4>1 DEF BoundedSeq, SeqOf, IsInjective
    <3>3. RequestOK(q)
      BY <2>2, <3>1, <3>2 DEF RequestOK, PlainSteps, ListSteps
    <3> QED
      BY <1>1, <2>1, <3>1, <3>3, QuietStep DEF Goto
  <2>4. CASE Fail(r, "ZodError", "size")
    <3>1. Answer(r, Normalized("ZodError"), "size", None, {})
      BY <2>4 DEF Fail
    <3> QED
      BY <1>1, <2>1, <3>1, ClassStatus, AnswerStep
  <2>5. CASE Goto(r, [at |-> "model", input |-> o.input, id |-> o.id,
                      analysis |-> o.analysis, candidates |-> found, sent |-> sent])
    <3>1. PICK q : /\ q = [at |-> "model", input |-> o.input, id |-> o.id,
                           analysis |-> o.analysis, candidates |-> found, sent |-> sent]
                   /\ Goto(r, q)
      BY <2>5
    <3>2. found \subseteq Jobs
      BY <2>6 DEF FindCandidateJobs, BuildCandidateWhere
    <3>3. RequestOK(q)
      BY <2>2, <3>1, <3>2 DEF RequestOK, PlainSteps, ListSteps
    <3> QED
      BY <1>1, <2>1, <3>1, <3>3, QuietStep DEF Goto
  <2> QED
    BY <2>6, <2>3, <2>4, <2>5
<1>5. CASE ModelRecommends(r)
  <2>1. o.at = "model" /\ UNCHANGED storeVars /\ UNCHANGED <<faults, torn>>
    BY <1>5 DEF ModelRecommends, storeVars
  <2>2. /\ o.analysis \in Stored(o.input.user) /\ o.input.limit \in Nat
        /\ o.input \in Inputs /\ o.id \in 1..calls /\ o.candidates \subseteq Jobs
    BY <1>1, <2>1 DEF RequestOK, ListSteps
  <2>3. ASSUME NEW list \in Lists, ValidateAndSelect(r, list) PROVE AssistantInv'
    <3> DEFINE chosen == Inspected(list, o.input.limit)
    <3>1. CASE ~ValidList(chosen, o.candidates)
      <4>1. Answer(r, Normalized("Downstream"), "list", None, {})
        BY <2>3, <3>1 DEF ValidateAndSelect, Fail
      <4> QED
        BY <1>1, <2>1, <4>1, ClassStatus, AnswerStep
    <3>2. CASE ValidList(chosen, o.candidates)
      <4>1. PICK t \in Stamps :
               Goto(r, [at |-> "store", input |-> o.input, id |-> o.id,
                        analysis |-> o.analysis, items |-> chosen, created |-> t])
        BY <2>3, <3>2 DEF ValidateAndSelect
      <4> DEFINE q == [at |-> "store", input |-> o.input, id |-> o.id,
                       analysis |-> o.analysis, items |-> chosen, created |-> t]
      <4>2. ToSet(chosen) \subseteq Jobs /\ IsInjective(chosen)
        BY <2>2, <3>2 DEF ValidList
      <4>3. chosen \in BoundedSeq(Jobs, MaxList)
        <5>1. PICK m \in 0..MaxList : list \in [1..m -> Jobs \cup {Alien}]
          BY <2>3 DEF Lists, BoundedSeq, SeqOf
        <5>2. list \in Seq(Jobs \cup {Alien}) /\ Len(list) = m
          BY <5>1, AssistantConstants
        <5>3. PICK n \in 0..m : chosen = SubSeq(list, 1, n)
          BY <2>2, <5>1, <5>2, AssistantConstants DEF Inspected
        <5>4. chosen \in [1..n -> Jobs \cup {Alien}] /\ n \in 0..MaxList
          <6>1. n \in 0..MaxList /\ n \in Nat /\ \A i \in 1..n : list[i] \in Jobs \cup {Alien}
            BY <5>1, AssistantConstants
          <6>2. SubSeq(list, 1, n) \in Seq(Jobs \cup {Alien}) /\ Len(SubSeq(list, 1, n)) = n
            BY <6>1, SubSeqProperties
          <6>3. SubSeq(list, 1, n) \in [1..n -> Jobs \cup {Alien}]
            BY <6>2, LenProperties
          <6> HIDE DEF chosen
          <6> QED
            BY <5>3, <6>1, <6>3
        <5>5. \A i \in 1..n : chosen[i] \in Jobs
          <6> HIDE DEF chosen
          <6> QED
            BY <4>2, <5>4 DEF ToSet
        <5>6. chosen \in [1..n -> Jobs]
          <6> HIDE DEF chosen
          <6> QED
            BY <5>4, <5>5
        <5> QED
          BY <5>4, <5>6 DEF BoundedSeq, SeqOf
      <4>4. RequestOK(q)
        <5> HIDE DEF chosen
        <5> QED
          BY <2>2, <4>1, <4>2, <4>3 DEF RequestOK, PlainSteps, ListSteps
      <4> QED
        BY <1>1, <2>1, <4>1, <4>4, QuietStep DEF Goto
    <3> QED
      BY <3>1, <3>2
  <2>4. ASSUME NEW f \in Failures, Fail(r, RequestError(f), f) PROVE AssistantInv'
    <3>1. Answer(r, Normalized(RequestError(f)), f, None, {})
      BY <2>4 DEF Fail
    <3> QED
      BY <1>1, <2>1, <3>1, FailureStatus, AnswerStep
  <2> QED
    BY <1>5, <2>3, <2>4 DEF ModelRecommends
<1> QED
  BY <1>2, <1>3, <1>4, <1>5

---------------------------------------------------------------------------
(* Steps that store something *)

(* Nothing that is stored is taken back or changed. *)
Grows ==
    /\ calls <= calls' /\ analyses <= analyses' /\ fits \subseteq fits'
    /\ calls' \in Nat /\ analyses' \in Nat
    /\ Len(runs') \in Nat /\ Len(runs) <= Len(runs')
    /\ \A i \in 1..Len(runs) : runs'[i] = runs[i]

LEMMA StaysOK ==
  ASSUME AssistantInv, Grows, NEW t \in Requests, request'[t] = request[t]
  PROVE  RequestOK(request[t])'
<1>1. PICK q : q = request[t] /\ q = request'[t]
  OBVIOUS
<1>2. RequestOK(q)
  BY <1>1 DEF AssistantInv, RequestsOK
<1>3. /\ \A i \in 1..calls : i \in 1..calls'
      /\ \A user : Stored(user) \subseteq Stored(user)'
      /\ \A i \in 1..Len(runs) : i \in 1..Len(runs') /\ runs'[i] = runs[i]
  BY AssistantConstants DEF Grows, AssistantInv, Counted, RunsOK, Stored
<1>4. \A user : RunsOf(user) \subseteq RunsOf(user)'
  BY <1>3 DEF RunsOf
<1>5. q.at \in PlainSteps => q \in [at : PlainSteps, input : Inputs, id : 1..calls']
  BY <1>2, <1>3 DEF RequestOK
<1>6. q.at = "answered" => AnswerOK(q)'
  BY <1>2, <1>3, <1>4 DEF RequestOK, AnswerOK, RunsOf
<1>7. RequestOK(q)'
  BY <1>2, <1>3, <1>5, <1>6 DEF RequestOK, Grows
<1> QED
  BY <1>1, <1>7

LEMMA GrowStep ==
  ASSUME AssistantInv, Grows, NEW r \in Requests, NEW q,
         request' = [request EXCEPT ![r] = q], RequestOK(q)'
  PROVE  /\ RequestsOK' /\ request'[r] = q
         /\ \A t \in Requests \ {r} : request'[t] = request[t]
<1>1. /\ request' = [t \in Requests |-> request'[t]] /\ request'[r] = q
      /\ \A t \in Requests \ {r} : request'[t] = request[t]
  BY DEF AssistantInv, RequestsOK
<1>2. ASSUME NEW t \in Requests PROVE RequestOK(request[t])'
  <2>1. CASE t = r
    BY <1>1, <2>1
  <2>2. CASE t # r
    BY <1>1, <2>2, StaysOK
  <2> QED
    BY <2>1, <2>2
<1> QED
  BY <1>1, <1>2 DEF RequestsOK

LEMMA ReceiveStep ==
  ASSUME AssistantInv, NEW r \in Requests, ReceiveRequest(r)
  PROVE  AssistantInv'
<1>1. PICK input \in Inputs :
         /\ Free(r) /\ calls < MaxCalls /\ calls' = calls + 1
         /\ Goto(r, [at |-> input.kind, input |-> input, id |-> calls + 1])
         /\ UNCHANGED <<listing, applied, analyses, runs, fits, gaps, changes, faults, torn>>
  BY DEF ReceiveRequest, Receive
<1>2. PICK q :
         /\ q = [at |-> input.kind, input |-> input, id |-> calls + 1]
         /\ Free(r) /\ calls < MaxCalls /\ calls' = calls + 1 /\ Goto(r, q)
         /\ UNCHANGED <<listing, applied, analyses, runs, fits, gaps, changes, faults, torn>>
  BY <1>1
<1>3. calls \in Nat /\ calls' \in 0..MaxCalls /\ analyses \in Nat /\ Len(runs) \in Nat
  BY <1>2, AssistantConstants DEF AssistantInv, Counted, RunsOK
<1>4. Grows
  BY <1>2, <1>3 DEF Grows
<1>5. /\ input.kind \in {"recommend", "latest", "detail", "fit", "ready"}
      /\ input.kind \in {"recommend", "latest", "detail"} => input.limit \in Nat
      /\ calls + 1 \in 1..calls'
  BY <1>2, <1>3, AssistantConstants
<1>6. RequestOK(q)'
  BY <1>2, <1>5 DEF RequestOK, PlainSteps, ListSteps
<1>7. /\ RequestsOK' /\ request'[r] = q
      /\ \A t \in Requests \ {r} : request'[t] = request[t]
  BY <1>2, <1>4, <1>6, GrowStep DEF Goto
<1>8. Counted' /\ RunsOK' /\ KeysUsedOnce'
  BY <1>2, <1>3 DEF AssistantInv, Counted, RunsOK, KeysUsedOnce
<1>9. FitScoresHaveGaps'
  BY <1>2, <1>7 DEF AssistantInv, FitScoresHaveGaps, Free
<1> QED
  BY <1>7, <1>8, <1>9 DEF AssistantInv

LEMMA StoreRunStep ==
  ASSUME AssistantInv, NEW r \in Requests, CreateRecommendationRun(r)
  PROVE  AssistantInv'
<1> DEFINE o == request[r]
           run == [user |-> o.input.user, key |-> o.input.key,
                   analysis |-> o.analysis, items |-> o.items, created |-> o.created]
<1>1. /\ RequestOK(o) /\ faults \in 0..MaxFaults /\ torn \in BOOLEAN
      /\ o.at = "store"
  BY DEF AssistantInv, RequestsOK, Counted, CreateRecommendationRun
<1>2. /\ o.items \in BoundedSeq(Jobs, MaxList) /\ IsInjective(o.items)
      /\ o.created \in Stamps /\ o.analysis \in Stored(o.input.user)
      /\ o.input \in Inputs /\ o.id \in 1..calls /\ o.input.limit \in Nat
  BY <1>1 DEF RequestOK, ListSteps
<1>3. CASE ~UniqueKey(o)
  <2>1. /\ Answer(r, Normalized("PrismaError"), "key", None, {})
        /\ UNCHANGED storeVars /\ UNCHANGED <<faults, torn>>
    BY <1>3 DEF CreateRecommendationRun, Fail, storeVars
  <2> QED
    BY <1>1, <2>1, ClassStatus, AnswerStep
<1>4. CASE UniqueKey(o)
  <2>1. /\ runs' = Append(runs, run)
        /\ Answer(r, 201, "generated", Len(runs) + 1, Resource(run, o.input.limit))
        /\ UNCHANGED <<listing, applied, analyses, fits, gaps, calls, changes, faults, torn>>
    BY <1>2, <1>4 DEF CreateRecommendationRun
  <2>2. run \in Runs
    BY <1>2, AssistantConstants DEF Runs, Stored, AssistantInv, Counted
  <2>3. /\ runs \in Seq(Runs) /\ Len(runs) \in Nat
    BY DEF AssistantInv, RunsOK
  <2> HIDE DEF run
  <2>4. /\ runs' \in Seq(Runs) /\ Len(runs') = Len(runs) + 1
        /\ \A i \in 1..Len(runs) : runs'[i] = runs[i]
        /\ runs'[Len(runs) + 1] = run
    BY <2>1, <2>2, <2>3, AppendProperties
  <2>5. calls \in Nat /\ analyses \in Nat
    BY AssistantConstants DEF AssistantInv, Counted
  <2>6. Grows
    BY <2>1, <2>3, <2>4, <2>5 DEF Grows
  <2>7. /\ run.user = o.input.user /\ run.key = o.input.key
        /\ run.items = o.items /\ run.analysis = o.analysis
    BY DEF run
  <2>8. PICK q : /\ q = [at |-> "answered", input |-> o.input, id |-> o.id, status |-> 201,
                         cause |-> "generated", run |-> Len(runs) + 1,
                         shown |-> Resource(run, o.input.limit)]
                 /\ request' = [request EXCEPT ![r] = q]
    BY <2>1 DEF Answer, Goto
  <2>9. /\ q.run \in 1..Len(runs') /\ runs'[q.run] = run
        /\ q.run \in RunsOf(q.input.user)'
    BY <2>3, <2>4, <2>7, <2>8 DEF RunsOf
  <2>10. q.shown \subseteq ToSet(run.items) /\ Cardinality(q.shown) <= q.input.limit
    BY <1>2, <2>7, <2>8, ResourceShows
  <2>11. StatusOK(201, "generated")
    BY DEF StatusOK, Documented
  <2>12. AnswerOK(q)'
    BY <2>7, <2>8, <2>9, <2>10, <2>11 DEF AnswerOK, StatusOK
  <2>13. RequestOK(q)'
    BY <1>2, <2>1, <2>8, <2>12 DEF RequestOK, PlainSteps, ListSteps
  <2>14. /\ RequestsOK' /\ request'[r] = q
         /\ \A t \in Requests \ {r} : request'[t] = request[t]
    BY <2>6, <2>8, <2>13, GrowStep
  <2>15. RunsOK'
    <3>1. Analyses[run.analysis].owner = run.user
      BY <1>2, <2>7 DEF Stored
    <3> QED
      BY <2>3, <2>4, <3>1 DEF AssistantInv, RunsOK
  <2>16. KeysUsedOnce'
    <3> SUFFICES ASSUME NEW i \in 1..Len(runs'), NEW k \in 1..Len(runs'),
                        runs'[i].key # None, runs'[i].user = runs'[k].user,
                        runs'[i].key = runs'[k].key
                 PROVE  i = k
      BY DEF KeysUsedOnce
    <3>1. ASSUME NEW j \in 1..Len(runs), run.key # None
          PROVE  ~(runs[j].user = run.user /\ runs[j].key = run.key)
      BY <1>4, <2>7, <3>1 DEF UniqueKey, KeyedRuns, RunsOf
    <3>2. /\ i \in 1..Len(runs) \/ i = Len(runs) + 1
          /\ k \in 1..Len(runs) \/ k = Len(runs) + 1
      BY <2>3, <2>4
    <3> QED
      BY <2>4, <3>1, <3>2 DEF AssistantInv, KeysUsedOnce
  <2>17. Counted'
    BY <2>1 DEF AssistantInv, Counted
  <2>18. FitScoresHaveGaps'
    BY <1>1, <2>1, <2>14 DEF AssistantInv, FitScoresHaveGaps
  <2> QED
    BY <2>14, <2>15, <2>16, <2>17, <2>18 DEF AssistantInv
<1> QED
  BY <1>3, <1>4

(* The two inserts of a job fit. *)
LEMMA SnapshotStep ==
  ASSUME AssistantInv, NEW r \in Requests, CreateFitScore(r) \/ CreateSkillGaps(r)
  PROVE  AssistantInv'
<1> DEFINE o == request[r]
<1>1. /\ o.at \in {"fitScore", "skillGaps"} /\ RequestOK(o)
      /\ UNCHANGED <<listing, applied, analyses, runs, calls, changes, faults, torn>>
  BY DEF CreateFitScore, CreateSkillGaps, AssistantInv, RequestsOK
<1>2. /\ o \in [at : PlainSteps, input : Inputs, id : 1..calls]
      /\ o.input \in Inputs /\ o.id \in 1..calls
  BY <1>1 DEF RequestOK, PlainSteps
<1>3. /\ calls \in Nat /\ analyses \in Nat /\ Len(runs) \in Nat
  BY AssistantConstants DEF AssistantInv, Counted, RunsOK
<1>4. fits \subseteq fits' => Grows
  BY <1>1, <1>3 DEF Grows
<1>5. Counted /\ RunsOK /\ KeysUsedOnce /\ FitScoresHaveGaps
  BY DEF AssistantInv
<1>6. CASE CreateFitScore(r)
  <2>1. PICK q : q = [o EXCEPT !.at = "skillGaps"]
    OBVIOUS
  <2>2. /\ o.at = "fitScore" /\ fits' = fits \cup {o.id} /\ gaps' = gaps
        /\ request' = [request EXCEPT ![r] = q]
    BY <1>6, <2>1 DEF CreateFitScore, Goto
  <2>3. /\ q \in [at : PlainSteps, input : Inputs, id : 1..calls]
        /\ q.at = "skillGaps" /\ q.id = o.id
    BY <1>2, <2>1 DEF PlainSteps
  <2>4. RequestOK(q)'
    BY <1>1, <2>2, <2>3 DEF RequestOK, PlainSteps, ListSteps
  <2>5. /\ RequestsOK' /\ request'[r] = q
        /\ \A t \in Requests \ {r} : request'[t] = request[t]
    BY <1>4, <2>2, <2>4, GrowStep
  <2>6. Counted' /\ RunsOK' /\ KeysUsedOnce'
    BY <1>1, <1>2, <1>5, <2>2 DEF Counted, RunsOK, KeysUsedOnce
  <2>7. FitScoresHaveGaps'
    BY <1>1, <1>5, <2>2, <2>3, <2>5 DEF FitScoresHaveGaps
  <2> QED
    BY <2>5, <2>6, <2>7 DEF AssistantInv
<1>7. CASE CreateSkillGaps(r)
  <2>1. PICK q : q = [at |-> "answered", input |-> o.input, id |-> o.id, status |-> 200,
                      cause |-> "scored", run |-> None, shown |-> {}]
    OBVIOUS
  <2>2. /\ o.at = "skillGaps" /\ gaps' = gaps \cup {o.id} /\ fits' = fits
        /\ request' = [request EXCEPT ![r] = q]
    BY <1>7, <2>1 DEF CreateSkillGaps, Answer, Goto
  <2>3. o.id \in fits
    BY <1>1, <2>2 DEF RequestOK
  <2>4. RequestOK(q)'
    BY <1>1, <1>2, <2>1 DEF RequestOK, PlainSteps, ListSteps, AnswerOK, StatusOK, Documented
  <2>5. /\ RequestsOK' /\ request'[r] = q
        /\ \A t \in Requests \ {r} : request'[t] = request[t]
    BY <1>4, <2>2, <2>4, GrowStep
  <2>6. Counted' /\ RunsOK' /\ KeysUsedOnce'
    BY <1>1, <1>2, <1>5, <2>2 DEF Counted, RunsOK, KeysUsedOnce
  <2>7. FitScoresHaveGaps'
    <3>1. gaps' \subseteq fits'
      BY <1>5, <2>2, <2>3 DEF FitScoresHaveGaps
    <3>2. ASSUME NEW c \in fits' \ gaps', ~torn'
          PROVE  \E t \in Requests : request'[t].at = "skillGaps" /\ request'[t].id = c
      <4>1. c \in fits \ gaps /\ c # o.id
        BY <2>2
      <4>2. PICK t \in Requests : request[t].at = "skillGaps" /\ request[t].id = c
        BY <1>1, <1>5, <3>2, <4>1 DEF FitScoresHaveGaps
      <4> QED
        BY <2>5, <4>1, <4>2
    <3> QED
      BY <3>1, <3>2 DEF FitScoresHaveGaps
  <2> QED
    BY <2>5, <2>6, <2>7 DEF AssistantInv
<1> QED
  BY <1>6, <1>7

(* Reading runs, a job fit up to its inserts, the probe, a failed statement. *)
LEMMA OtherStep ==
  ASSUME AssistantInv, NEW r \in Requests,
         \/ ReadRecommendations(r) \/ ReadFitContext(r) \/ ModelScores(r)
         \/ CheckDependency(r) \/ StatementFails(r)
  PROVE  AssistantInv'
<1> DEFINE o == request[r]
<1>1. RequestOK(o) /\ faults \in 0..MaxFaults /\ torn \in BOOLEAN
  BY DEF AssistantInv, RequestsOK, Counted
<1>2. CASE ReadRecommendations(r)
  <2>1. /\ o.at \in {"latest", "detail"} /\ UNCHANGED storeVars /\ UNCHANGED <<faults, torn>>
    BY <1>2 DEF ReadRecommendations, storeVars
  <2>2. CASE Fail(r, "NotFound", "run")
    <3>1. Answer(r, Normalized("NotFound"), "run", None, {})
      BY <2>2 DEF Fail
    <3> QED
      BY <1>1, <2>1, <3>1, ClassStatus, AnswerStep
  <2>3. CASE \E i \in RunsOf(o.input.user) :
                Answer(r, 200, "read", i, Resource(runs[i], o.input.limit))
    <3>1. PICK i \in RunsOf(o.input.user) :
             Answer(r, 200, "read", i, Resource(runs[i], o.input.limit))
      BY <2>3
    <3>2. StatusOK(200, "read") /\ o.at \in ListSteps
      BY <2>1 DEF StatusOK, Documented, ListSteps
    <3> QED
      BY <2>1, <3>1, <3>2, RunStep
  <2> QED
    BY <1>2, <2>2, <2>3 DEF ReadRecommendations, ReadableRuns
<1>3. CASE ReadFitContext(r)
  <2>1. o.at = "fit" /\ UNCHANGED storeVars /\ UNCHANGED <<faults, torn>>
    BY <1>3 DEF ReadFitContext, storeVars
  <2>2. CASE Goto(r, [o EXCEPT !.at = "fitModel"])
    <3>1. PICK q : q = [o EXCEPT !.at = "fitModel"]
      OBVIOUS
    <3>2. o \in [at : PlainSteps, input : Inputs, id : 1..calls]
      BY <1>1, <2>1 DEF RequestOK, PlainSteps
    <3>3. RequestOK(q)
      BY <3>1, <3>2 DEF RequestOK, PlainSteps, ListSteps
    <3> QED
      BY <1>1, <2>1, <2>2, <3>1, <3>3, QuietStep DEF Goto
  <2>3. CASE \/ Fail(r, "NotFound", "job") \/ Fail(r, "Conflict", "profile")
             \/ Fail(r, "Conflict", "preference") \/ Fail(r, "ZodError", "size")
    <3>1. PICK status, cause : /\ Answer(r, status, cause, None, {})
                               /\ StatusOK(status, cause) /\ status # 201
      BY <2>3, ClassStatus DEF Fail
    <3> QED
      BY <1>1, <2>1, <3>1, AnswerStep
  <2> QED
    BY <1>3, <2>2, <2>3 DEF ReadFitContext
<1>4. CASE ModelScores(r)
  <2>1. o.at = "fitModel" /\ UNCHANGED storeVars /\ UNCHANGED <<faults, torn>>
    BY <1>4 DEF ModelScores, storeVars
  <2>2. CASE Goto(r, [o EXCEPT !.at = "fitScore"])
    <3>1. PICK q : q = [o EXCEPT !.at = "fitScore"]
      OBVIOUS
    <3>2. o \in [at : PlainSteps, input : Inputs, id : 1..calls]
      BY <1>1, <2>1 DEF RequestOK, PlainSteps
    <3>3. RequestOK(q)
      BY <3>1, <3>2 DEF RequestOK, PlainSteps, ListSteps
    <3> QED
      BY <1>1, <2>1, <2>2, <3>1, <3>3, QuietStep DEF Goto
  <2>3. CASE Answer(r, 200, "scored", None, {})
    <3>1. StatusOK(200, "scored")
      BY DEF StatusOK, Documented
    <3> QED
      BY <1>1, <2>1, <2>3, <3>1, AnswerStep
  <2>4. ASSUME NEW f \in Failures, Fail(r, RequestError(f), f) PROVE AssistantInv'
    <3>1. Answer(r, Normalized(RequestError(f)), f, None, {})
      BY <2>4 DEF Fail
    <3> QED
      BY <1>1, <2>1, <3>1, FailureStatus, AnswerStep
  <2> QED
    BY <1>4, <2>2, <2>3, <2>4 DEF ModelScores
<1>5. CASE CheckDependency(r)
  <2>1. o.at \in {"ready", "redis"} /\ UNCHANGED storeVars /\ UNCHANGED <<faults, torn>>
    BY <1>5 DEF CheckDependency, storeVars
  <2>2. ASSUME NEW healthy \in BOOLEAN,
               Goto(r, [at |-> "redis", input |-> o.input, id |-> o.id,
                        postgresql |-> healthy])
        PROVE  AssistantInv'
    <3>1. PICK q : q = [at |-> "redis", input |-> o.input, id |-> o.id,
                        postgresql |-> healthy]
      OBVIOUS
    <3>2. o.input \in Inputs /\ o.id \in 1..calls
      BY <1>1, <2>1 DEF RequestOK
    <3>3. RequestOK(q)
      BY <3>1, <3>2 DEF RequestOK, PlainSteps, ListSteps
    <3> QED
      BY <1>1, <2>1, <2>2, <3>1, <3>3, QuietStep DEF Goto
  <2>3. CASE Answer(r, 200, "ready", None, {})
    <3>1. StatusOK(200, "ready")
      BY DEF StatusOK, Documented
    <3> QED
      BY <1>1, <2>1, <2>3, <3>1, AnswerStep
  <2>4. CASE Fail(r, "Unavailable", "dependency")
    <3>1. Answer(r, Normalized("Unavailable"), "dependency", None, {})
      BY <2>4 DEF Fail
    <3> QED
      BY <1>1, <2>1, <3>1, ClassStatus, AnswerStep
  <2> QED
    BY <1>5, <2>2, <2>3, <2>4 DEF CheckDependency
<1>6. CASE StatementFails(r)
  <2>1. /\ Answer(r, Normalized("PrismaError"), "db", None, {})
        /\ o.at # "idle" /\ UNCHANGED storeVars
        /\ faults < MaxFaults /\ faults' = faults + 1
        /\ torn' = (torn \/ o.at = "skillGaps")
    BY <1>6 DEF StatementFails, Fail, storeVars
  <2>2. faults' \in 0..MaxFaults
    BY <1>1, <2>1, AssistantConstants
  <2>3. torn' \in BOOLEAN /\ (torn => torn') /\ (o.at # "skillGaps" \/ torn')
    BY <2>1
  <2> QED
    BY <2>1, <2>2, <2>3, ClassStatus, AnswerStep
<1> QED
  BY <1>2, <1>3, <1>4, <1>5, <1>6

(* What the rest of the system does meanwhile. *)
LEMMA WorldStep ==
  ASSUME AssistantInv,
         \/ ListingChanges \/ Apply \/ Analyse \/ UNCHANGED assistantVars
  PROVE  AssistantInv'
<1>a. Counted /\ RunsOK /\ KeysUsedOnce /\ RequestsOK /\ FitScoresHaveGaps
  BY DEF AssistantInv
<1>b. calls \in Nat /\ analyses \in Nat
  BY <1>a, AssistantConstants DEF Counted
<1>c. Len(runs) \in Nat
  BY <1>a DEF RunsOK
<1>1. /\ calls \in Nat /\ analyses \in Nat /\ Len(runs) \in Nat
      /\ Counted /\ RunsOK /\ KeysUsedOnce /\ RequestsOK /\ FitScoresHaveGaps
  BY <1>a, <1>b, <1>c
<1>2. /\ UNCHANGED <<runs, fits, gaps, request, calls, faults, torn>>
      /\ analyses' \in 0..Len(Analyses) /\ analyses <= analyses'
      /\ listing' \in [Jobs -> {"open", "closed", "hidden"}]
      /\ applied' \subseteq Users \X Jobs /\ changes' \in 0..MaxChanges
  <2>1. CASE ListingChanges
    BY <1>1, <2>1, AssistantConstants DEF ListingChanges, Counted
  <2>2. CASE Apply
    BY <1>1, <2>2, AssistantConstants DEF Apply, Counted
  <2>3. CASE Analyse
    BY <1>1, <2>3, AssistantConstants DEF Analyse, Counted
  <2>4. CASE UNCHANGED assistantVars
    BY <1>1, <2>4 DEF assistantVars, Counted
  <2> QED
    BY <2>1, <2>2, <2>3, <2>4
<1>3. Grows
  BY <1>1, <1>2, AssistantConstants DEF Grows
<1>4. RequestsOK'
  <2>1. \A t \in Requests : RequestOK(request[t])'
    BY <1>2, <1>3, StaysOK
  <2> QED
    BY <1>1, <1>2, <2>1 DEF RequestsOK
<1>5. Counted' /\ RunsOK' /\ KeysUsedOnce' /\ FitScoresHaveGaps'
  BY <1>1, <1>2 DEF Counted, RunsOK, KeysUsedOnce, FitScoresHaveGaps
<1> QED
  BY <1>4, <1>5 DEF AssistantInv

LEMMA AssistantStep == AssistantInv /\ [AssistantNext]_assistantVars => AssistantInv'
BY ReceiveStep, RecommendStep, StoreRunStep, OtherStep, SnapshotStep, WorldStep
   DEF AssistantNext

---------------------------------------------------------------------------
(* The theorems *)

(* In every reachable state of what is in flight both inductive invariants *)
(* hold: the loop of send() and the provider agree on what was taken under *)
(* which key, and what a handler carries across an await stays true.       *)
THEOREM Inductive == Spec => [](EmailInv /\ AssistantInv)
<1>1. Init => EmailInv /\ AssistantInv
  BY EmailInvInit, AssistantInvInit DEF Init
<1>2. EmailInv /\ AssistantInv /\ [Next]_vars => (EmailInv /\ AssistantInv)'
  <2>1. [Next]_vars => [EmailNext]_emailVars /\ [AssistantNext]_assistantVars
    BY DEF Next, vars
  <2> QED
    BY <2>1, EmailStep, AssistantStep
<1> QED
  BY <1>1, <1>2, PTL DEF Spec

(* The ids that runs, fit scores and answers refer to exist, an answer     *)
(* shows at most the limit of items of a run of its own user, and every    *)
(* sender is at a step of the loop with a try within the maximum.          *)
THEOREM TypeCorrect == Spec => []TypeOK
<1>1. AssistantInv => AssistantTypeOK
  <2> SUFFICES ASSUME AssistantInv PROVE AssistantTypeOK
    OBVIOUS
  <2>1. Counted /\ RunsOK /\ RequestsOK
    BY DEF AssistantInv
  <2>2. \A i \in 1..Len(runs) : runs[i].items \in BoundedSeq(Jobs, MaxList)
    <3>1. \A i \in 1..Len(runs) : runs[i] \in Runs
      BY <2>1 DEF RunsOK
    <3> QED
      BY <3>1 DEF Runs
  <2>3. \A r \in Requests : request[r].at = "answered" /\ request[r].run # None
          => /\ request[r].run \in RunsOf(request[r].input.user)
             /\ request[r].shown \subseteq ToSet(runs[request[r].run].items)
             /\ Cardinality(request[r].shown) <= request[r].input.limit
    BY <2>1 DEF RequestsOK, RequestOK, AnswerOK
  <2> QED
    BY <2>1, <2>2, <2>3 DEF Counted, RunsOK, AssistantTypeOK
<1>2. EmailInv /\ AssistantInv => TypeOK
  <2> SUFFICES ASSUME EmailInv, AssistantInv PROVE TypeOK
    OBVIOUS
  <2>1. reported \subseteq Messages
    BY DEF EmailInv, AnswersAreTrue
  <2>2. \A s \in Senders : sender[s].at # "idle" =>
           sender[s].message \in Messages /\ sender[s].attempt \in 0..MaxRetries
    BY DEF EmailInv, EmailShaped, Trying, Resting
  <2> QED
    BY <1>1, <2>1, <2>2 DEF EmailInv, EmailShaped, TypeOK
<1> QED
  BY <1>2, Inductive, PTL

(* However often send() tries again after a lost answer, and however the   *)
(* attempts of an outbox job overlap, one message goes out per idempotency *)
(* key, and a send() that returned is of a message that went out.          *)
THEOREM SentOnce == Spec => []EmailOncePerKey
<1>1. EmailInv => EmailOncePerKey
  <2> SUFFICES ASSUME EmailInv PROVE EmailOncePerKey
    OBVIOUS
  <2>1. \A m \in Messages : mailbox[m] = IF accepted[EmailKey[m]] = m THEN 1 ELSE 0
    BY DEF EmailInv, EmailShaped
  <2>2. \A m, n \in Messages :
           EmailKey[m] = EmailKey[n] /\ mailbox[m] > 0 /\ mailbox[n] > 0 => m = n
    BY <2>1
  <2>3. \A m \in reported : mailbox[m] = 1
    BY <2>1 DEF EmailInv, AnswersAreTrue
  <2> QED
    BY <2>1, <2>2, <2>3 DEF EmailOncePerKey
<1> QED
  BY <1>1, Inductive, PTL

(* The look-up of the idempotency key, the call of the model and the       *)
(* nested create are apart, and the unique index alone lets one of two     *)
(* overlapping generations win; the loser and every later request are      *)
(* answered with the stored run or an error.                               *)
THEOREM OneRun == Spec => []OneRunPerKey
<1>1. AssistantInv => OneRunPerKey
  <2> SUFFICES ASSUME AssistantInv PROVE OneRunPerKey
    OBVIOUS
  <2>1. \A r \in Requests :
            request[r].at = "answered" /\ request[r].input.kind = "recommend"
              /\ request[r].status = 201
            => request[r].input.key \in {None, runs[request[r].run].key}
    BY DEF AssistantInv, RequestsOK, RequestOK, AnswerOK
  <2> QED
    BY <2>1 DEF AssistantInv, KeysUsedOnce, OneRunPerKey
<1> QED
  BY <1>1, Inductive, PTL

(* createSnapshot inserts the score and its gaps without a transaction: no *)
(* gaps are ever stored without their score, and a score is without gaps   *)
(* only while its handler is between the inserts or after one failed.      *)
THEOREM ScoresHaveGaps == Spec => []FitScoresHaveGaps
<1>1. AssistantInv => FitScoresHaveGaps
  BY DEF AssistantInv
<1> QED
  BY <1>1, Inductive, PTL

(* Whatever fails on the way, a handler answers with the status the tables *)
(* of docs/integrations/model-api.md give for it, and with 500 only for a  *)
(* failed statement, a key taken meanwhile or a payload over its limits.   *)
THEOREM Statuses == Spec => []DocumentedStatus
<1>1. AssistantInv => DocumentedStatus
  <2> SUFFICES ASSUME AssistantInv PROVE DocumentedStatus
    OBVIOUS
  <2>1. \A r \in Requests : request[r].at = "answered" =>
            StatusOK(request[r].status, request[r].cause)
    BY DEF AssistantInv, RequestsOK, RequestOK, AnswerOK
  <2> QED
    BY <2>1 DEF StatusOK, DocumentedStatus
<1> QED
  BY <1>1, Inductive, PTL
=============================================================================
