---------------------------- MODULE AsyncOutbox ----------------------------
(***************************************************************************)
(* The asynchronous workloads of bisakerja-api: a PostgreSQL outbox (the   *)
(* source of truth), a BullMQ queue that accelerates delivery, publishers  *)
(* (an HTTP request, the cleanup script, and the worker's recovery timer)  *)
(* and the worker's job handlers.                                          *)
(*                                                                         *)
(* Every await of the code is a step boundary here.  The clock is coarse:  *)
(* one unit is long compared with a database statement, so no unit passes  *)
(* between a handler's read of the row and its claim (see Tick).           *)
(***************************************************************************)
EXTENDS Naturals, FiniteSets

CONSTANTS
  Jobs,        \* outbox row ids, numbered in the order of (scheduledAt, createdAt)
  Workers,     \* concurrent job handlers, over all worker processes
  Publishers,  \* concurrent runs of publish / publishPending
  NoWorker,    \* the owner of a queue entry nobody is processing
  MaxAttempts, \* maxAttempts of a row, and the attempts option of its queue entry
  StaleAfter,  \* JOB_STALE_AFTER_HOURS in units of the clock
  BatchSize,   \* ASYNC_QUEUE_RECOVERY_BATCH_SIZE
  MaxStalls,   \* BullMQ's maxStalledCount
  FaultKinds,  \* the faults the environment may inject
  MaxFaults,   \* bound: how many faults it injects
  MaxClock     \* bound: the last value of the clock

ASSUME ConstantsAssumption ==
  /\ Jobs \subseteq Nat \ {0}
  /\ NoWorker \notin Workers
  /\ MaxAttempts \in Nat \ {0}
  /\ StaleAfter \in Nat \ {0}
  /\ BatchSize \in Nat \ {0}
  /\ MaxStalls \in Nat
  /\ MaxFaults \in Nat
  /\ MaxClock \in Nat

VARIABLES
  outbox,     \* the rows of async_job_outbox
  entry,      \* what BullMQ holds under the id of each row
  handler,    \* the invocations of the worker's callback
  publisher,  \* the invocations of publish and publishPending
  delivered,  \* history: rows whose side effect ran to its end
  now,        \* the coarse clock
  faults      \* how many faults were injected

vars == <<outbox, entry, handler, publisher, delivered, now, faults>>

NoJob == 0
Pending  == {"PENDING", "QUEUED", "PROCESSING"}
Terminal == {"SUCCEEDED", "DEAD_LETTER"}
Closed   == Terminal \cup {"ABSENT"}   \* publish and the worker return early

Rows ==
  [status : {"ABSENT"} \cup Pending \cup Terminal, attempts : Nat, startedAt : Nat]

Entries ==
  [state : {"none", "waiting", "active", "completed", "failed"},
   made : Nat, stalls : Nat, owner : Workers \cup {NoWorker}]

Handlers ==
  [pc : {"idle", "find", "claim", "process", "succeed", "fail", "returned", "thrown"},
   job : Jobs \cup {NoJob}, made : Nat, attempt : Nat, startedAt : Nat]

PublisherStates == [pc : {"idle", "find", "add", "mark"}, todo : SUBSET Jobs]

NoRow       == [status |-> "ABSENT", attempts |-> 0, startedAt |-> 0]
NoEntry     == [state |-> "none", made |-> 0, stalls |-> 0, owner |-> NoWorker]
NewEntry    == [NoEntry EXCEPT !.state = "waiting"]
Idle        == [pc |-> "idle", job |-> NoJob, made |-> 0, attempt |-> 0, startedAt |-> 0]
NoPublish   == [pc |-> "idle", todo |-> {}]

Init ==
  /\ outbox = [j \in Jobs |-> NoRow]
  /\ entry = [j \in Jobs |-> NoEntry]
  /\ handler = [w \in Workers |-> Idle]
  /\ publisher = [p \in Publishers |-> NoPublish]
  /\ delivered = {}
  /\ now = 0
  /\ faults = 0

(* A fault of the given kind, while the budget lasts.  The bound on the    *)
(* clock leaves room to see a claim the fault abandons become stale.       *)
Fault(kind) ==
  /\ kind \in FaultKinds
  /\ now + StaleAfter <= MaxClock
  /\ faults < MaxFaults
  /\ faults' = faults + 1

---------------------------------------------------------------------------
(* The conditional updates of the repository, as functions of the row.     *)
(* A definition marked "regression" is what its neighbour would be after a *)
(* plausible slip in the code; no specification uses it.                   *)

(* Regression: markQueued without its status guard. *)
MarkQueuedAlways(row) == [row EXCEPT !.status = "QUEUED"]

(* markQueued: a producer moves a row only out of PENDING. *)
MarkQueued(row) ==
  IF row.status = "PENDING" THEN [row EXCEPT !.status = "QUEUED"] ELSE row

(* Regression: every PROCESSING row can be claimed again. *)
ClaimableAnytime(row, startedAt) == row.status \in Pending

(* The WHERE clause of markProcessing.  The cut-off is computed from the    *)
(* handler's own startedAt, read before the statement is sent.             *)
Claimable(row, startedAt) ==
  \/ row.status \in {"PENDING", "QUEUED"}
  \/ row.status = "PROCESSING" /\ row.startedAt + StaleAfter <= startedAt

(* attempt = max(record.attempts + 1, job.attemptsMade + 1) *)
NextAttempt(row, made) ==
  IF row.attempts >= made THEN row.attempts + 1 ELSE made + 1

(* Regression: terminal updates without the attempt guard. *)
OwnedByAny(row, attempt) == row.status = "PROCESSING"

(* The guard of every terminal update: status PROCESSING and own attempt. *)
Owned(row, attempt) == row.status = "PROCESSING" /\ row.attempts = attempt

MarkSucceeded(row, attempt) ==
  IF Owned(row, attempt) THEN [row EXCEPT !.status = "SUCCEEDED"] ELSE row

(* Regression: one attempt more than BullMQ grants. *)
ExhaustedLate(attempt) == attempt > MaxAttempts

Exhausted(attempt) == attempt >= MaxAttempts

(* markDeadLetter or markRetryableFailure, as the handler's catch chooses. *)
MarkFailure(row, attempt) ==
  IF ~Owned(row, attempt) THEN row
  ELSE IF Exhausted(attempt) THEN [row EXCEPT !.status = "DEAD_LETTER"]
  ELSE [row EXCEPT !.status = "QUEUED"]

(* Regression: recovery looks at unpublished rows only. *)
UnpublishedJobs == {j \in Jobs : outbox[j].status = "PENDING"}

(* listPendingJobs: the first BatchSize non-terminal rows. *)
PendingJobs == {j \in Jobs : outbox[j].status \in Pending}

Batch == {j \in PendingJobs : Cardinality({k \in PendingJobs : k < j}) < BatchSize}

(* queue.add with jobId: a no-op while BullMQ keeps any entry of that id,  *)
(* the retained completed and failed ones included.                        *)
Added(e) == IF e.state = "none" THEN NewEntry ELSE e

---------------------------------------------------------------------------
(* Publishers *)

Current(p) == CHOOSE j \in publisher[p].todo : \A k \in publisher[p].todo : j <= k

AdvanceTo(p, pc) == publisher' = [publisher EXCEPT ![p].pc = pc]

(* The loop of publishPending moves to its next row, or ends. *)
NextRow(p) ==
  LET rest == publisher[p].todo \ {Current(p)}
  IN  publisher' = [publisher EXCEPT
        ![p] = [pc |-> IF rest = {} THEN "idle" ELSE "find", todo |-> rest]]

(* publish throws: the rest of the batch is abandoned. *)
Abort(p) == publisher' = [publisher EXCEPT ![p] = NoPublish]

(* A request (or the cleanup script) commits the row with its domain write *)
(* and then triggers publish without waiting for it.                       *)
CreateJob(p, j) ==
  /\ publisher[p].pc = "idle"
  /\ outbox[j].status = "ABSENT"
  /\ outbox' = [outbox EXCEPT ![j].status = "PENDING"]
  /\ publisher' = [publisher EXCEPT ![p] = [pc |-> "find", todo |-> {j}]]
  /\ UNCHANGED <<entry, handler, delivered, now, faults>>

(* publishPending, run at worker start and by the recovery timer, which    *)
(* does not wait for the previous run.                                     *)
Recover(p) ==
  /\ publisher[p].pc = "idle"
  /\ Batch # {}
  /\ publisher' = [publisher EXCEPT ![p] = [pc |-> "find", todo |-> Batch]]
  /\ UNCHANGED <<outbox, entry, handler, delivered, now, faults>>

PublishFind(p) ==
  /\ publisher[p].pc = "find"
  /\ IF outbox[Current(p)].status \in Closed THEN NextRow(p) ELSE AdvanceTo(p, "add")
  /\ UNCHANGED <<outbox, entry, handler, delivered, now, faults>>

PublishAdd(p) ==
  /\ publisher[p].pc = "add"
  /\ entry' = [entry EXCEPT ![Current(p)] = Added(@)]
  /\ AdvanceTo(p, "mark")
  /\ UNCHANGED <<outbox, handler, delivered, now, faults>>

(* Redis rejects the add, or accepts it and loses the answer. *)
PublishAddFails(p) ==
  /\ publisher[p].pc = "add"
  /\ Fault("queue")
  /\ \/ UNCHANGED entry
     \/ entry' = [entry EXCEPT ![Current(p)] = Added(@)]
  /\ Abort(p)
  /\ UNCHANGED <<outbox, handler, delivered, now>>

PublishMark(p) ==
  /\ publisher[p].pc = "mark"
  /\ outbox' = [outbox EXCEPT ![Current(p)] = MarkQueued(@)]
  /\ NextRow(p)
  /\ UNCHANGED <<entry, handler, delivered, now, faults>>

(* A database error in findById or markQueued rejects the publish. *)
PublishDbFails(p) ==
  /\ publisher[p].pc \in {"find", "mark"}
  /\ Fault("db")
  /\ Abort(p)
  /\ UNCHANGED <<outbox, entry, handler, delivered, now>>

(* The publishing process dies. *)
PublisherCrash(p) ==
  /\ publisher[p].pc # "idle"
  /\ Fault("crash")
  /\ Abort(p)
  /\ UNCHANGED <<outbox, entry, handler, delivered, now>>

---------------------------------------------------------------------------
(* The worker's callback *)

Goto(w, pc) == handler' = [handler EXCEPT ![w].pc = pc]

(* BullMQ hands a waiting entry to a free handler slot. *)
Take(w, j) ==
  /\ handler[w].pc = "idle"
  /\ entry[j].state = "waiting"
  /\ entry' = [entry EXCEPT ![j] = [@ EXCEPT !.state = "active", !.owner = w]]
  /\ handler' = [handler EXCEPT
       ![w] = [Idle EXCEPT !.pc = "find", !.job = j, !.made = entry[j].made]]
  /\ UNCHANGED <<outbox, publisher, delivered, now, faults>>

(* findById, the early return on a terminal row, and the attempt number    *)
(* and startedAt of the claim to come.                                     *)
Find(w) ==
  LET row == outbox[handler[w].job] IN
  /\ handler[w].pc = "find"
  /\ IF row.status \in Closed
     THEN Goto(w, "returned")
     ELSE handler' = [handler EXCEPT
            ![w].pc = "claim",
            ![w].attempt = NextAttempt(row, handler[w].made),
            ![w].startedAt = now]
  /\ UNCHANGED <<outbox, entry, publisher, delivered, now, faults>>

(* markProcessing; a refused claim returns normally, so BullMQ completes.  *)
Claim(w) ==
  LET h == handler[w] IN
  /\ h.pc = "claim"
  /\ IF Claimable(outbox[h.job], h.startedAt)
     THEN /\ outbox' = [outbox EXCEPT ![h.job] =
               [status |-> "PROCESSING", attempts |-> h.attempt, startedAt |-> h.startedAt]]
          /\ Goto(w, "process")
     ELSE Goto(w, "returned") /\ UNCHANGED outbox
  /\ UNCHANGED <<entry, publisher, delivered, now, faults>>

(* Regression: the handler swallows a provider error. *)
ProcessSwallowing(w) ==
  /\ handler[w].pc = "process"
  /\ Goto(w, "succeed")
  /\ \/ delivered' = delivered \cup {handler[w].job}
     \/ UNCHANGED delivered
  /\ UNCHANGED <<outbox, entry, publisher, now, faults>>

(* processor.process: the side effect ends well, or the provider refuses,  *)
(* or it happened and its answer was lost.                                 *)
Process(w) ==
  /\ handler[w].pc = "process"
  /\ \/ Goto(w, "succeed") /\ delivered' = delivered \cup {handler[w].job}
     \/ Goto(w, "fail") /\ UNCHANGED delivered
     \/ Goto(w, "fail") /\ delivered' = delivered \cup {handler[w].job}
  /\ UNCHANGED <<outbox, entry, publisher, now, faults>>

Succeed(w) ==
  LET h == handler[w] IN
  /\ h.pc = "succeed"
  /\ outbox' = [outbox EXCEPT ![h.job] = MarkSucceeded(@, h.attempt)]
  /\ Goto(w, "returned")
  /\ UNCHANGED <<entry, publisher, delivered, now, faults>>

Fail(w) ==
  LET h == handler[w] IN
  /\ h.pc = "fail"
  /\ outbox' = [outbox EXCEPT ![h.job] = MarkFailure(@, h.attempt)]
  /\ Goto(w, "thrown")
  /\ UNCHANGED <<entry, publisher, delivered, now, faults>>

(* A database error: outside the try block it rejects the callback at      *)
(* once, in markSucceeded it enters the catch, in the catch it rejects.    *)
HandlerDbFails(w) ==
  /\ handler[w].pc \in {"find", "claim", "succeed", "fail"}
  /\ Fault("db")
  /\ Goto(w, IF handler[w].pc = "succeed" THEN "fail" ELSE "thrown")
  /\ UNCHANGED <<outbox, entry, publisher, delivered, now>>

(* The callback's promise settles.  BullMQ moves the entry only while this *)
(* handler still holds its lock; removeOnFail is false, so an entry out of *)
(* attempts stays in the failed set.                                       *)
Settled(e, pc) ==
  CASE pc = "returned" -> [e EXCEPT !.state = "completed", !.owner = NoWorker]
    [] pc = "thrown" ->
         [state |-> IF e.made + 1 < MaxAttempts THEN "waiting" ELSE "failed",
          made |-> e.made + 1, stalls |-> e.stalls, owner |-> NoWorker]

Holds(w, j) == entry[j].state = "active" /\ entry[j].owner = w

(* removeOnComplete has no timer of its own: a job that completes takes     *)
(* with it the completed entries beyond the age or the count.              *)
Trimmed(old) == [k \in Jobs |-> IF k \in old THEN NoEntry ELSE entry[k]]

CompletedJobs == {k \in Jobs : entry[k].state = "completed"}

(* What the settling of a handler may trim. *)
Removable(pc) == IF pc = "returned" THEN SUBSET CompletedJobs ELSE {{}}

Settle(w) ==
  LET h == handler[w] IN
  /\ h.pc \in {"returned", "thrown"}
  /\ IF Holds(w, h.job)
     THEN \E old \in Removable(h.pc) :
            entry' = [Trimmed(old) EXCEPT ![h.job] = Settled(@, h.pc)]
     ELSE UNCHANGED entry
  /\ handler' = [handler EXCEPT ![w] = Idle]
  /\ UNCHANGED <<outbox, publisher, delivered, now, faults>>

(* The worker process dies; another takes its place at once.                *)
WorkerCrash(w) ==
  /\ handler[w].pc # "idle"
  /\ Fault("crash")
  /\ handler' = [handler EXCEPT ![w] = Idle]
  /\ UNCHANGED <<outbox, entry, publisher, delivered, now>>

---------------------------------------------------------------------------
(* BullMQ and time *)

Stalled(e) ==
  [state |-> IF e.stalls < MaxStalls THEN "waiting" ELSE "failed",
   made |-> e.made, stalls |-> e.stalls + 1, owner |-> NoWorker]

(* The lock of an entry whose handler died expires. *)
StallDead(j) ==
  /\ entry[j].state = "active"
  /\ \A w \in Workers : entry[j].owner = w => handler[w].job # j
  /\ entry' = [entry EXCEPT ![j] = Stalled(@)]
  /\ UNCHANGED <<outbox, handler, publisher, delivered, now, faults>>

(* The lock of a live handler expires (a blocked event loop). *)
StallLive(j) ==
  /\ entry[j].state = "active"
  /\ Fault("stall")
  /\ entry' = [entry EXCEPT ![j] = Stalled(@)]
  /\ UNCHANGED <<outbox, handler, publisher, delivered, now>>

(* A job of the queue that is none of Jobs completes.  Nothing says that   *)
(* there ever is another one.                                              *)
OtherJobCompletes ==
  /\ \E old \in SUBSET CompletedJobs : entry' = Trimmed(old)
  /\ UNCHANGED <<outbox, handler, publisher, delivered, now, faults>>

(* Redis loses its data. *)
QueueLoss ==
  /\ Fault("loss")
  /\ entry' = [j \in Jobs |-> NoEntry]
  /\ UNCHANGED <<outbox, handler, publisher, delivered, now>>

Tick ==
  /\ now < MaxClock
  /\ \A w \in Workers : handler[w].pc # "claim"
  /\ now' = now + 1
  /\ UNCHANGED <<outbox, entry, handler, publisher, delivered, faults>>

---------------------------------------------------------------------------
PublisherStep(p) == PublishFind(p) \/ PublishAdd(p) \/ PublishMark(p)

HandlerStep(w) ==
  \/ Find(w)
  \/ Claim(w)
  \/ Process(w)
  \/ Succeed(w)
  \/ Fail(w)
  \/ Settle(w)

FaultStep ==
  \/ \E p \in Publishers : PublishAddFails(p) \/ PublishDbFails(p) \/ PublisherCrash(p)
  \/ \E w \in Workers : HandlerDbFails(w) \/ WorkerCrash(w)
  \/ \E j \in Jobs : StallLive(j)
  \/ QueueLoss

Next ==
  \/ \E p \in Publishers, j \in Jobs : CreateJob(p, j)
  \/ \E p \in Publishers : Recover(p) \/ PublisherStep(p)
  \/ \E w \in Workers, j \in Jobs : Take(w, j)
  \/ \E w \in Workers : HandlerStep(w)
  \/ \E j \in Jobs : StallDead(j)
  \/ OtherJobCompletes
  \/ Tick
  \/ FaultStep

Spec == Init /\ [][Next]_vars

(* The scheduling the code justifies: its promises settle, the recovery    *)
(* timer keeps firing, BullMQ delivers and detects stalls, and time passes. *)
(* Not that completed entries go: that takes another job of the queue.     *)
Fairness ==
  /\ \A p \in Publishers : WF_vars(PublisherStep(p))
  /\ WF_vars(\E p \in Publishers : Recover(p))
  /\ \A w \in Workers : WF_vars(HandlerStep(w))
  /\ \A j \in Jobs : WF_vars(\E w \in Workers : Take(w, j))
  /\ \A j \in Jobs : WF_vars(StallDead(j))
  /\ SF_vars(Tick)

FairSpec == Spec /\ Fairness

---------------------------------------------------------------------------
TypeOK ==
  /\ outbox \in [Jobs -> Rows]
  /\ entry \in [Jobs -> Entries]
  /\ handler \in [Workers -> Handlers]
  /\ \A w \in Workers : handler[w].pc # "idle" => handler[w].job \in Jobs
  /\ publisher \in [Publishers -> PublisherStates]
  /\ delivered \subseteq Jobs
  /\ now \in Nat
  /\ faults \in Nat

(* Between its claim and the end of its attempt. *)
Acting(w) == handler[w].pc \in {"process", "succeed", "fail"}

ActingOn(w, j) == Acting(w) /\ handler[w].job = j

(* The side effect of a row (the email, the cleanup) is not run by two     *)
(* handlers at once, unless the claim of the older one is stale: "active   *)
(* jobs are protected by a claim step" (deployment.md).                    *)
ExclusiveSideEffects ==
  \A j \in Jobs, v, w \in Workers :
    v # w /\ ActingOn(v, j) /\ ActingOn(w, j) =>
      \/ handler[v].startedAt + StaleAfter <= handler[w].startedAt
      \/ handler[w].startedAt + StaleAfter <= handler[v].startedAt

(* A row is SUCCEEDED only after its side effect ran to its end, whoever   *)
(* ran it and whatever was redelivered in between.                         *)
SucceededWasDelivered ==
  \A j \in Jobs : outbox[j].status = "SUCCEEDED" => j \in delivered

(* SUCCEEDED and DEAD_LETTER rows never change again: neither a publisher  *)
(* that read the row before it ended nor a late handler can reopen it.     *)
TerminalIsFinal ==
  [][\A j \in Jobs : outbox[j].status \in Terminal => outbox'[j] = outbox[j]]_vars

(* While an attempt is in progress the row is changed only by the handler  *)
(* that owns this attempt, or by a claim made StaleAfter later that takes  *)
(* a larger attempt number: "older attempts cannot regress newer state"    *)
(* (observability.md) and producers never overwrite worker progress.       *)
OnlyOwnerEndsAttempt ==
  [][\A j \in Jobs :
       outbox[j].status = "PROCESSING" /\ outbox'[j] # outbox[j] =>
         \E w \in Workers :
           /\ handler[w].job = j
           /\ \/ /\ Acting(w)
                 /\ handler[w].startedAt = outbox[j].startedAt
                 /\ outbox'[j].attempts = outbox[j].attempts
              \/ /\ handler[w].pc = "claim"
                 /\ outbox'[j].startedAt >= outbox[j].startedAt + StaleAfter
                 /\ outbox'[j].attempts > outbox[j].attempts]_vars

(* The two attempt counters, the row's and BullMQ's, agree on when a job   *)
(* is exhausted: an entry BullMQ gave up on (and keeps for ever) belongs   *)
(* to a row that has ended, so recovery never needs to add it again.       *)
FailedEntryMeansTerminal ==
  \A j \in Jobs : entry[j].state = "failed" => outbox[j].status \in Terminal

(* Every committed row ends: "non-terminal rows drain to SUCCEEDED or fail *)
(* into DEAD_LETTER" (observability.md).                                   *)
JobsDrain ==
  \A j \in Jobs : outbox[j].status = "PENDING" ~> outbox[j].status \in Terminal

(* Every committed row ends, except one whose claim a crash abandoned and  *)
(* whose redelivered entry was completed by a refused claim: recovery's    *)
(* add does nothing while BullMQ keeps that entry.                         *)
JobsDrainUnlessKept ==
  \A j \in Jobs : outbox[j].status = "PENDING" ~>
    \/ outbox[j].status \in Terminal
    \/ [](outbox[j].status = "PROCESSING" /\ entry[j].state = "completed" /\ faults > 0)

(* A handler about to record success has seen the side effect end. *)
SuccessIsEarned ==
  \A w \in Workers : handler[w].pc = "succeed" => handler[w].job \in delivered

---------------------------------------------------------------------------
(* The inductive invariant behind ExclusiveSideEffects and                 *)
(* OnlyOwnerEndsAttempt.                                                   *)

(* A claim in flight was prepared in the current unit of time. *)
ClaimIsPrompt ==
  \A w \in Workers : handler[w].pc = "claim" => handler[w].startedAt = now

(* An acting handler is the row's owner, or was superseded by a later      *)
(* claim with a larger attempt number.                                     *)
OwnerOrSuperseded ==
  \A w \in Workers : Acting(w) =>
    LET h == handler[w]
        row == outbox[h.job]
    IN  \/ h.startedAt = row.startedAt /\ Owned(row, h.attempt)
        \/ h.startedAt + StaleAfter <= row.startedAt /\ h.attempt < row.attempts

(* A claim in flight that is newer than the row's last claim was numbered  *)
(* after it.                                                               *)
ClaimIsNewer ==
  \A w \in Workers : handler[w].pc = "claim" =>
    LET h == handler[w]
        row == outbox[h.job]
    IN  row.startedAt < h.startedAt => row.attempts < h.attempt

(* The same, against the handlers still acting on an older claim.          *)
ClaimPassesActing ==
  \A v, w \in Workers :
    /\ Acting(v)
    /\ handler[w].pc = "claim"
    /\ handler[v].job = handler[w].job
    /\ handler[v].startedAt < handler[w].startedAt
    => handler[v].attempt < handler[w].attempt

ClockBoundsClaims == \A j \in Jobs : outbox[j].startedAt <= now

LeaseInv ==
  /\ ClaimIsPrompt
  /\ OwnerOrSuperseded
  /\ ClaimIsNewer
  /\ ClaimPassesActing
  /\ ClockBoundsClaims
  /\ ExclusiveSideEffects
=============================================================================
