------------------------------ MODULE Outbound ------------------------------
(***************************************************************************)
(* Everything in flight towards other services at once: requests that wait *)
(* for the Model API and probes of one process, e-mails of the worker.     *)
(***************************************************************************)
EXTENDS Assistant, EmailDelivery

CONSTANT MaxLoad   \* what one behaviour starts: a request weighs 3, an e-mail 2

vars == <<assistantVars, emailVars>>

Init == AssistantInit /\ EmailInit
Next ==
    /\ \/ AssistantNext /\ UNCHANGED emailVars
       \/ EmailNext /\ UNCHANGED assistantVars
    /\ 3 * calls' + 2 * sends' <= MaxLoad
Spec == Init /\ [][Next]_vars

\* Ids that are referred to exist, and every sender is at a step of the loop.
TypeOK ==
    /\ AssistantTypeOK
    /\ processing \in [Keys -> Messages \cup {NoMessage}]
    /\ accepted \in [Keys -> Messages \cup {NoMessage}]
    /\ reported \subseteq Messages
    /\ \A s \in Senders : sender[s].at # "idle" =>
           sender[s].message \in Messages /\ sender[s].attempt \in 0..MaxRetries
=============================================================================
