------------------------------ MODULE JobLease ------------------------------
(***************************************************************************)
(* What the asynchronous workloads promise of one job, without the queue,  *)
(* the attempt numbers and the statements that implement it: a job is      *)
(* leased to one worker at a time, only the lease holder decides how the   *)
(* job goes on, a finished job stays finished, and it is recorded as done  *)
(* only after its side effect ran.  A lease can be lost (its holder died)  *)
(* or handed over (it expired); the side effect itself is at least once.   *)
(***************************************************************************)
CONSTANTS Jobs, Workers, NoWorker

VARIABLES
  phase,   \* absent, open, done or dead, for each job
  holder,  \* the worker holding the job's lease
  ran      \* jobs whose side effect ran

vars == <<phase, holder, ran>>

Init ==
  /\ phase = [j \in Jobs |-> "absent"]
  /\ holder = [j \in Jobs |-> NoWorker]
  /\ ran = {}

Accept(j) ==
  /\ phase[j] = "absent"
  /\ phase' = [phase EXCEPT ![j] = "open"]
  /\ UNCHANGED <<holder, ran>>

(* A free job is leased, or an expired lease passes to another worker. *)
Grant(j, w) ==
  /\ phase[j] = "open"
  /\ holder[j] # w
  /\ holder' = [holder EXCEPT ![j] = w]
  /\ UNCHANGED <<phase, ran>>

(* The side effect ends; a worker that lost its lease may still end it. *)
Run(j) ==
  /\ phase[j] # "absent"
  /\ ran' = ran \cup {j}
  /\ UNCHANGED <<phase, holder>>

Finish(j, w, outcome) ==
  /\ phase[j] = "open"
  /\ holder[j] = w
  /\ outcome = "done" => j \in ran
  /\ phase' = [phase EXCEPT ![j] = outcome]
  /\ holder' = [holder EXCEPT ![j] = NoWorker]
  /\ UNCHANGED ran

(* The holder gives the job back for a retry, or dies. *)
Release(j) ==
  /\ holder[j] # NoWorker
  /\ holder' = [holder EXCEPT ![j] = NoWorker]
  /\ UNCHANGED <<phase, ran>>

Next ==
  \E j \in Jobs :
    \/ Accept(j)
    \/ Run(j)
    \/ Release(j)
    \/ \E w \in Workers : Grant(j, w) \/ Finish(j, w, "done") \/ Finish(j, w, "dead")

Spec == Init /\ [][Next]_vars
=============================================================================
