------------------------- MODULE AsyncOutboxProofs -------------------------
(***************************************************************************)
(* TLAPS proofs about AsyncOutbox, for every value of its constants: its   *)
(* safety properties, and that it implements JobLease.                     *)
(***************************************************************************)
EXTENDS AsyncOutboxRefinement, TLAPS

USE ConstantsAssumption

---------------------------------------------------------------------------
(* What the row updates return. *)

(* The conditional updates of the repository keep a row well typed. *)
LEMMA RowUpdates ==
  ASSUME NEW row \in Rows, NEW a \in Nat
  PROVE  /\ MarkQueued(row) \in Rows
         /\ MarkSucceeded(row, a) \in Rows
         /\ MarkFailure(row, a) \in Rows
  BY DEF Rows, MarkQueued, MarkSucceeded, MarkFailure, Owned, Exhausted, Pending, Terminal

(* What BullMQ does to an entry keeps it well typed. *)
LEMMA EntryUpdates ==
  ASSUME NEW e \in Entries
  PROVE  /\ Added(e) \in Entries
         /\ Stalled(e) \in Entries
         /\ NoEntry \in Entries
         /\ Settled(e, "returned") \in Entries
         /\ Settled(e, "thrown") \in Entries
<1>1. NoEntry \in Entries /\ NewEntry \in Entries
  BY DEF Entries, NoEntry, NewEntry
<1>2. Added(e) \in Entries
  BY <1>1 DEF Added
<1>3. Stalled(e) \in Entries
  BY DEF Stalled, Entries
<1>4. Settled(e, "returned") \in Entries
  <2>1. Settled(e, "returned") = [e EXCEPT !.state = "completed", !.owner = NoWorker]
    BY DEF Settled
  <2> QED BY <2>1 DEF Entries
<1>5. Settled(e, "thrown") \in Entries
  <2>1. Settled(e, "thrown") =
          [state |-> IF e.made + 1 < MaxAttempts THEN "waiting" ELSE "failed",
           made |-> e.made + 1, stalls |-> e.stalls, owner |-> NoWorker]
    BY DEF Settled
  <2> QED BY <2>1 DEF Entries
<1> QED BY <1>1, <1>2, <1>3, <1>4, <1>5

(* A completion elsewhere changes nothing but completed entries. *)
LEMMA TrimmedEntries ==
  ASSUME TypeOK, NEW old \in SUBSET CompletedJobs
  PROVE  /\ Trimmed(old) \in [Jobs -> Entries]
         /\ \A k \in Jobs : \/ Trimmed(old)[k] = entry[k]
                            \/ entry[k].state = "completed" /\ Trimmed(old)[k] = NoEntry
<1>1. NoEntry \in Entries
  BY DEF Entries, NoEntry
<1>2. \A k \in Jobs : Trimmed(old)[k] = IF k \in old THEN NoEntry ELSE entry[k]
  BY DEF Trimmed
<1>3. \A k \in old : entry[k].state = "completed"
  BY DEF CompletedJobs
<1>4. \A k \in Jobs : entry[k] \in Entries
  BY DEF TypeOK
<1>5. Trimmed(old) \in [Jobs -> Entries]
  BY <1>1, <1>4 DEF Trimmed
<1> QED BY <1>2, <1>3, <1>5

(* The queue after a handler settled. *)
LEMMA SettleEntries ==
  ASSUME TypeOK, NEW w \in Workers, Settle(w)
  PROVE  /\ entry' \in [Jobs -> Entries]
         /\ Holds(w, handler[w].job)
              => entry'[handler[w].job] = Settled(entry[handler[w].job], handler[w].pc)
         /\ ~Holds(w, handler[w].job) => entry' = entry
         /\ \A k \in Jobs \ {handler[w].job} :
              \/ entry'[k] = entry[k]
              \/ entry[k].state = "completed" /\ entry'[k] = NoEntry
<1> DEFINE h == handler[w]
<1>1. h.pc \in {"returned", "thrown"} /\ h.job \in Jobs
  BY DEF Settle, TypeOK
<1>2. CASE ~Holds(w, h.job)
  BY <1>1, <1>2 DEF Settle, TypeOK
<1>3. CASE Holds(w, h.job)
  <2>1. PICK old \in Removable(h.pc) : entry' = [Trimmed(old) EXCEPT ![h.job] = Settled(@, h.pc)]
    BY <1>3 DEF Settle
  <2>2. old \in SUBSET CompletedJobs
    BY DEF Removable
  <2>3. Trimmed(old) \in [Jobs -> Entries] /\ Trimmed(old)[h.job] = entry[h.job]
    BY <1>1, <1>3, <2>2, TrimmedEntries DEF Holds
  <2>4. entry[h.job] \in Entries
    BY <1>1 DEF TypeOK
  <2>5. Settled(entry[h.job], h.pc) \in Entries
    BY <1>1, <2>4, EntryUpdates
  <2>6. /\ entry' \in [Jobs -> Entries]
        /\ entry'[h.job] = Settled(entry[h.job], h.pc)
        /\ \A k \in Jobs \ {h.job} : entry'[k] = Trimmed(old)[k]
    BY <1>1, <2>1, <2>3, <2>5
  <2> QED BY <1>3, <2>2, <2>6, TrimmedEntries
<1> QED BY <1>2, <1>3

(* The type invariant is inductive. *)
LEMMA TypeStep ==
  ASSUME TypeOK, [Next]_vars
  PROVE  TypeOK'
<1> USE DEF TypeOK
<1>1. ASSUME NEW p \in Publishers, NEW j \in Jobs, CreateJob(p, j) PROVE TypeOK'
  BY <1>1 DEF CreateJob, Rows, NoRow, PublisherStates, Pending
<1>2. ASSUME NEW p \in Publishers, Recover(p) PROVE TypeOK'
  BY <1>2 DEF Recover, PublisherStates, Batch, PendingJobs
<1>3. ASSUME NEW p \in Publishers, PublisherStep(p) PROVE TypeOK'
  <2>1. CASE PublishFind(p)
    BY <2>1 DEF PublishFind, NextRow, AdvanceTo, PublisherStates
  <2>2. CASE PublishAdd(p)
    BY <2>2, EntryUpdates DEF PublishAdd, AdvanceTo, PublisherStates
  <2>3. CASE PublishMark(p)
    BY <2>3, RowUpdates DEF PublishMark, NextRow, PublisherStates
  <2> QED BY <1>3, <2>1, <2>2, <2>3 DEF PublisherStep
<1>4. ASSUME NEW w \in Workers, NEW j \in Jobs, Take(w, j) PROVE TypeOK'
  <2>1. entry[j] \in Entries /\ entry[j].made \in Nat
    BY DEF Entries
  <2>2. [entry[j] EXCEPT !.state = "active", !.owner = w] \in Entries
    BY <2>1 DEF Entries
  <2>3. [Idle EXCEPT !.pc = "find", !.job = j, !.made = entry[j].made] \in Handlers
    BY <2>1 DEF Handlers, Idle
  <2> QED BY <1>4, <2>2, <2>3 DEF Take, Idle
<1>5. ASSUME NEW w \in Workers, HandlerStep(w) PROVE TypeOK'
  <2>1. CASE Find(w)
    BY <2>1 DEF Find, Goto, Handlers, NextAttempt, Rows
  <2>2. CASE Claim(w)
    BY <2>2 DEF Claim, Goto, Handlers, Rows, Pending
  <2>3. CASE Process(w)
    BY <2>3 DEF Process, Goto, Handlers
  <2>4. CASE Succeed(w)
    BY <2>4, RowUpdates DEF Succeed, Goto, Handlers
  <2>5. CASE Fail(w)
    BY <2>5, RowUpdates DEF Fail, Goto, Handlers
  <2>6. CASE Settle(w)
    BY <2>6, SettleEntries DEF Settle, Handlers, Idle
  <2> QED BY <1>5, <2>1, <2>2, <2>3, <2>4, <2>5, <2>6 DEF HandlerStep
<1>6. ASSUME NEW j \in Jobs, StallDead(j) PROVE TypeOK'
  BY <1>6, EntryUpdates DEF StallDead
<1>10. CASE OtherJobCompletes
  BY <1>10, TrimmedEntries DEF OtherJobCompletes
<1>7. CASE Tick
  BY <1>7 DEF Tick
<1>8. CASE FaultStep
  <2>1. ASSUME NEW p \in Publishers,
               PublishAddFails(p) \/ PublishDbFails(p) \/ PublisherCrash(p)
        PROVE  TypeOK'
    <3>1. publisher' \in [Publishers -> PublisherStates]
      BY <2>1 DEF PublishAddFails, PublishDbFails, PublisherCrash, Abort, NoPublish,
                  PublisherStates
    <3>2. faults' \in Nat
      BY <2>1 DEF PublishAddFails, PublishDbFails, PublisherCrash, Fault
    <3>3. entry' \in [Jobs -> Entries]
      BY <2>1, EntryUpdates DEF PublishAddFails, PublishDbFails, PublisherCrash
    <3> QED
      BY <2>1, <3>1, <3>2, <3>3 DEF PublishAddFails, PublishDbFails, PublisherCrash
  <2>2. ASSUME NEW w \in Workers, HandlerDbFails(w) \/ WorkerCrash(w) PROVE TypeOK'
    BY <2>2 DEF HandlerDbFails, WorkerCrash, Fault, Goto, Handlers, Idle
  <2>3. ASSUME NEW j \in Jobs, StallLive(j) PROVE TypeOK'
    BY <2>3, EntryUpdates DEF StallLive, Fault
  <2>4. CASE QueueLoss
    BY <2>4 DEF QueueLoss, Fault, Entries, NoEntry
  <2> QED BY <1>8, <2>1, <2>2, <2>3, <2>4 DEF FaultStep
<1>9. CASE UNCHANGED vars
  BY <1>9 DEF vars
<1> QED
  BY <1>1, <1>2, <1>3, <1>4, <1>5, <1>6, <1>7, <1>8, <1>9, <1>10 DEF Next

(* Rows, queue entries, handlers and publishers always have the shape the  *)
(* schema and the callback give them.                                      *)
THEOREM TypeCorrect == Spec => []TypeOK
<1>1. Init => TypeOK
  BY DEF Init, TypeOK, NoRow, NoEntry, Idle, NoPublish, Rows, Entries, Handlers,
         PublisherStates, Pending
<1>2. TypeOK /\ [Next]_vars => TypeOK'
  BY TypeStep
<1> QED BY <1>1, <1>2, PTL DEF Spec

---------------------------------------------------------------------------
(* The lease a claim gives: LeaseInv is inductive. *)

(* A step preserves the lease invariant when it leaves the clock, the last *)
(* claim of every row and every PROCESSING status alone and lets no        *)
(* handler start a claim or an attempt.                                    *)
LEMMA LeaseQuiet ==
  ASSUME TypeOK, TypeOK', LeaseInv, now' = now,
         \A j \in Jobs : /\ outbox'[j].startedAt = outbox[j].startedAt
                         /\ outbox'[j].attempts = outbox[j].attempts
                         /\ outbox[j].status = "PROCESSING" => outbox'[j].status = "PROCESSING",
         \A w \in Workers : Acting(w)' \/ handler'[w].pc = "claim" =>
                         /\ handler'[w].job = handler[w].job
                         /\ handler'[w].attempt = handler[w].attempt
                         /\ handler'[w].startedAt = handler[w].startedAt,
         \A w \in Workers : Acting(w)' => Acting(w),
         \A w \in Workers : handler'[w].pc = "claim" => handler[w].pc = "claim"
  PROVE  LeaseInv'
<1> USE DEF LeaseInv
<1>1. \A w \in Workers : Acting(w) \/ handler[w].pc = "claim" => handler[w].job \in Jobs
  BY DEF TypeOK, Acting
<1>2. ClaimIsPrompt'
  BY DEF ClaimIsPrompt
<1>3. OwnerOrSuperseded'
  <2> SUFFICES ASSUME NEW w \in Workers, Acting(w)'
               PROVE  \/ /\ handler'[w].startedAt = outbox'[handler'[w].job].startedAt
                         /\ Owned(outbox'[handler'[w].job], handler'[w].attempt)
                      \/ /\ handler'[w].startedAt + StaleAfter
                              <= outbox'[handler'[w].job].startedAt
                         /\ handler'[w].attempt < outbox'[handler'[w].job].attempts
    BY DEF OwnerOrSuperseded, Owned
  <2> DEFINE j == handler[w].job
  <2>1. /\ Acting(w) /\ j \in Jobs /\ handler'[w].job = j
        /\ handler'[w].attempt = handler[w].attempt
        /\ handler'[w].startedAt = handler[w].startedAt
    BY <1>1
  <2>2. /\ outbox'[j].startedAt = outbox[j].startedAt
        /\ outbox'[j].attempts = outbox[j].attempts
        /\ outbox[j].status = "PROCESSING" => outbox'[j].status = "PROCESSING"
    BY <2>1
  <2>3. \/ handler[w].startedAt = outbox[j].startedAt /\ Owned(outbox[j], handler[w].attempt)
        \/ /\ handler[w].startedAt + StaleAfter <= outbox[j].startedAt
           /\ handler[w].attempt < outbox[j].attempts
    BY <2>1 DEF OwnerOrSuperseded
  <2> QED BY <2>1, <2>2, <2>3 DEF Owned
<1>4. ClaimIsNewer'
  <2> SUFFICES ASSUME NEW w \in Workers, handler'[w].pc = "claim",
                      outbox'[handler'[w].job].startedAt < handler'[w].startedAt
               PROVE  outbox'[handler'[w].job].attempts < handler'[w].attempt
    BY DEF ClaimIsNewer
  <2> DEFINE j == handler[w].job
  <2>1. /\ handler[w].pc = "claim" /\ j \in Jobs /\ handler'[w].job = j
        /\ handler'[w].attempt = handler[w].attempt
        /\ handler'[w].startedAt = handler[w].startedAt
    BY <1>1
  <2>2. /\ outbox'[j].startedAt = outbox[j].startedAt
        /\ outbox'[j].attempts = outbox[j].attempts
    BY <2>1
  <2>3. outbox[j].startedAt < handler[w].startedAt => outbox[j].attempts < handler[w].attempt
    BY <2>1 DEF ClaimIsNewer
  <2> QED BY <2>1, <2>2, <2>3
<1>5. ClaimPassesActing'
  BY DEF ClaimPassesActing
<1>6. ClockBoundsClaims'
  BY DEF ClockBoundsClaims
<1>7. ExclusiveSideEffects'
  BY DEF ExclusiveSideEffects, ActingOn
<1> QED BY <1>2, <1>3, <1>4, <1>5, <1>6, <1>7

(* A claim in flight that finds its row stale is newer than every claim of *)
(* the row, and so is one that finds the row released in its own unit.     *)
LEMMA LeaseClaim ==
  ASSUME TypeOK, TypeOK', LeaseInv, NEW w \in Workers, Claim(w)
  PROVE  LeaseInv'
<1> DEFINE h == handler[w]
           j == h.job
<1>1. /\ h.pc = "claim" /\ j \in Jobs /\ h.startedAt = now
      /\ h.attempt \in Nat /\ now \in Nat /\ now' = now
      /\ h \in Handlers /\ handler \in [Workers -> Handlers]
      /\ outbox \in [Jobs -> Rows]
      /\ \A i \in Jobs : outbox[i].startedAt \in Nat /\ outbox[i].attempts \in Nat
      /\ \A v \in Workers : handler[v].startedAt \in Nat /\ handler[v].attempt \in Nat
  BY DEF Claim, TypeOK, LeaseInv, ClaimIsPrompt, Rows, Handlers
<1>2. CASE ~Claimable(outbox[j], h.startedAt)
  <2>1. handler' = [handler EXCEPT ![w].pc = "returned"] /\ UNCHANGED outbox
    BY <1>2 DEF Claim, Goto
  <2> QED BY <1>1, <2>1, LeaseQuiet DEF Acting
<1>3. CASE Claimable(outbox[j], h.startedAt)
  <2>1. /\ outbox' = [outbox EXCEPT ![j] = [status |-> "PROCESSING",
                          attempts |-> h.attempt, startedAt |-> h.startedAt]]
        /\ handler' = [handler EXCEPT ![w].pc = "process"]
    BY <1>3 DEF Claim, Goto
  <2>2. /\ outbox'[j].status = "PROCESSING"
        /\ outbox'[j].attempts = h.attempt
        /\ outbox'[j].startedAt = now
        /\ \A i \in Jobs \ {j} : outbox'[i] = outbox[i]
    BY <1>1, <2>1
  <2>3. /\ \A v \in Workers : /\ handler'[v].job = handler[v].job
                              /\ handler'[v].attempt = handler[v].attempt
                              /\ handler'[v].startedAt = handler[v].startedAt
        /\ \A v \in Workers \ {w} : handler'[v].pc = handler[v].pc
        /\ handler'[w].pc = "process"
    BY <1>1, <2>1 DEF Handlers
  <2>4. \A v \in Workers : Acting(v) /\ handler[v].job = j =>
              /\ handler[v].startedAt + StaleAfter <= now
              /\ handler[v].attempt < h.attempt
    <3> SUFFICES ASSUME NEW v \in Workers, Acting(v), handler[v].job = j
                 PROVE  /\ handler[v].startedAt + StaleAfter <= now
                        /\ handler[v].attempt < h.attempt
      OBVIOUS
    <3>1. handler[v].startedAt + StaleAfter <= now
      <4>1. CASE handler[v].startedAt + StaleAfter <= outbox[j].startedAt
        <5>1. outbox[j].startedAt <= now
          BY <1>1 DEF LeaseInv, ClockBoundsClaims
        <5>2. outbox[j].startedAt \in Nat /\ handler[v].startedAt \in Nat
          BY <1>1
        <5> QED BY <1>1, <4>1, <5>1, <5>2
      <4>2. CASE handler[v].startedAt = outbox[j].startedAt /\ Owned(outbox[j], handler[v].attempt)
        BY <1>1, <1>3, <4>2 DEF Claimable, Owned
      <4> QED BY <4>1, <4>2 DEF LeaseInv, OwnerOrSuperseded
    <3>2. handler[v].attempt < h.attempt
      BY <1>1, <3>1 DEF LeaseInv, ClaimPassesActing
    <3> QED BY <3>1, <3>2
  <2>5. \A v \in Workers : Acting(v)' => v = w \/ Acting(v)
    BY <2>3 DEF Acting
  <2>6. \A v \in Workers : handler'[v].pc = "claim" => handler[v].pc = "claim" /\ v # w
    BY <2>3
  <2>7. \A v \in Workers : Acting(v) \/ handler[v].pc = "claim" => handler[v].job \in Jobs
    BY DEF TypeOK, Acting
  <2>8. ClaimIsPrompt'
    BY <1>1, <2>3, <2>6 DEF LeaseInv, ClaimIsPrompt
  <2>9. OwnerOrSuperseded'
    <3> SUFFICES ASSUME NEW v \in Workers, Acting(v)'
                 PROVE  \/ /\ handler'[v].startedAt = outbox'[handler'[v].job].startedAt
                           /\ Owned(outbox'[handler'[v].job], handler'[v].attempt)
                        \/ /\ handler'[v].startedAt + StaleAfter
                                <= outbox'[handler'[v].job].startedAt
                           /\ handler'[v].attempt < outbox'[handler'[v].job].attempts
      BY DEF OwnerOrSuperseded, Owned
    <3>1. CASE v = w
      BY <1>1, <2>2, <2>3, <3>1 DEF Owned
    <3>2. CASE v # w /\ handler[v].job = j
      BY <1>1, <2>2, <2>3, <2>4, <2>5, <3>2
    <3>3. CASE v # w /\ handler[v].job # j
      BY <1>1, <2>2, <2>3, <2>5, <2>7, <3>3 DEF LeaseInv, OwnerOrSuperseded
    <3> QED BY <3>1, <3>2, <3>3
  <2>10. ClaimIsNewer'
    <3> SUFFICES ASSUME NEW v \in Workers, handler'[v].pc = "claim",
                        outbox'[handler'[v].job].startedAt < handler'[v].startedAt
                 PROVE  outbox'[handler'[v].job].attempts < handler'[v].attempt
      BY DEF ClaimIsNewer
    <3>1. /\ handler[v].pc = "claim" /\ handler[v].job \in Jobs
          /\ handler'[v].job = handler[v].job
          /\ handler'[v].attempt = handler[v].attempt
          /\ handler'[v].startedAt = handler[v].startedAt
          /\ handler[v].startedAt = now
      BY <2>3, <2>6, <2>7 DEF LeaseInv, ClaimIsPrompt
    <3>2. CASE handler[v].job = j
      BY <1>1, <2>2, <3>1, <3>2
    <3>3. CASE handler[v].job # j
      <4>1. outbox'[handler[v].job] = outbox[handler[v].job]
        BY <2>2, <3>1, <3>3
      <4>2. outbox[handler[v].job].startedAt < handler[v].startedAt
        BY <3>1, <4>1
      <4> QED BY <3>1, <4>1, <4>2 DEF LeaseInv, ClaimIsNewer
    <3> QED BY <3>2, <3>3
  <2>11. ClaimPassesActing'
    BY <1>1, <2>3, <2>5, <2>6 DEF LeaseInv, ClaimPassesActing, ClaimIsPrompt
  <2>12. ClockBoundsClaims'
    BY <1>1, <2>2 DEF LeaseInv, ClockBoundsClaims
  <2>13. ExclusiveSideEffects'
    BY <1>1, <2>3, <2>4, <2>5 DEF LeaseInv, ExclusiveSideEffects, ActingOn
  <2> QED BY <2>8, <2>9, <2>10, <2>11, <2>12, <2>13 DEF LeaseInv
<1> QED BY <1>2, <1>3

(* A claim prepared by findById is numbered past the row and past every    *)
(* handler still acting on it.                                             *)
LEMMA LeaseFind ==
  ASSUME TypeOK, TypeOK', LeaseInv, NEW w \in Workers, Find(w)
  PROVE  LeaseInv'
<1> DEFINE j == handler[w].job
           a == NextAttempt(outbox[j], handler[w].made)
<1>1. /\ handler[w].pc = "find" /\ j \in Jobs /\ now' = now /\ outbox' = outbox
      /\ handler \in [Workers -> Handlers] /\ now \in Nat
      /\ outbox[j].attempts \in Nat /\ handler[w].made \in Nat
      /\ \A v \in Workers : handler[v].startedAt \in Nat /\ handler[v].attempt \in Nat
  BY DEF Find, TypeOK, Handlers, Rows
<1>2. CASE outbox[j].status \in Closed
  <2>1. handler' = [handler EXCEPT ![w].pc = "returned"]
    BY <1>2 DEF Find, Goto
  <2> QED BY <1>1, <2>1, LeaseQuiet DEF Acting
<1>3. CASE outbox[j].status \notin Closed
  <2>1. handler' = [handler EXCEPT ![w].pc = "claim", ![w].attempt = a, ![w].startedAt = now]
    BY <1>3 DEF Find
  <2>2. /\ handler'[w].pc = "claim" /\ handler'[w].attempt = a
        /\ handler'[w].startedAt = now /\ handler'[w].job = j
        /\ \A v \in Workers \ {w} : handler'[v] = handler[v]
    BY <1>1, <2>1 DEF Handlers
  <2>3. a \in Nat /\ outbox[j].attempts < a
    BY <1>1 DEF NextAttempt
  <2>4. \A v \in Workers : Acting(v)' => v # w /\ Acting(v) /\ handler'[v] = handler[v]
    BY <2>2 DEF Acting
  <2>5. \A v \in Workers : Acting(v) /\ handler[v].job = j => handler[v].attempt < a
    <3> SUFFICES ASSUME NEW v \in Workers, Acting(v), handler[v].job = j
                 PROVE  handler[v].attempt < a
      OBVIOUS
    <3>1. handler[v].attempt = outbox[j].attempts \/ handler[v].attempt < outbox[j].attempts
      BY DEF LeaseInv, OwnerOrSuperseded, Owned
    <3> QED BY <1>1, <2>3, <3>1
  <2>6. ClaimIsPrompt'
    BY <1>1, <2>2 DEF LeaseInv, ClaimIsPrompt
  <2>7. OwnerOrSuperseded'
    BY <1>1, <2>4 DEF LeaseInv, OwnerOrSuperseded
  <2>8. ClaimIsNewer'
    BY <1>1, <2>2, <2>3 DEF LeaseInv, ClaimIsNewer
  <2>9. ClaimPassesActing'
    BY <1>1, <2>2, <2>4, <2>5 DEF LeaseInv, ClaimPassesActing
  <2>10. ClockBoundsClaims'
    BY <1>1 DEF LeaseInv, ClockBoundsClaims
  <2>11. ExclusiveSideEffects'
    BY <2>4 DEF LeaseInv, ExclusiveSideEffects, ActingOn
  <2> QED BY <2>6, <2>7, <2>8, <2>9, <2>10, <2>11 DEF LeaseInv
<1> QED BY <1>2, <1>3

(* The owner of a row is unique: another acting handler of the same row    *)
(* fails the guard of the terminal updates.                                *)
LEMMA OwnerIsUnique ==
  ASSUME TypeOK, LeaseInv, NEW v \in Workers, NEW w \in Workers,
         Acting(v), Acting(w), v # w, handler[v].job = handler[w].job,
         Owned(outbox[handler[w].job], handler[w].attempt)
  PROVE  /\ handler[w].startedAt = outbox[handler[w].job].startedAt
         /\ handler[v].startedAt + StaleAfter <= outbox[handler[w].job].startedAt
         /\ handler[v].attempt < outbox[handler[w].job].attempts
<1> DEFINE j == handler[w].job
<1>1. /\ j \in Jobs
      /\ outbox[j].startedAt \in Nat /\ outbox[j].attempts \in Nat
      /\ handler[v].startedAt \in Nat /\ handler[v].attempt \in Nat
      /\ handler[w].startedAt \in Nat /\ handler[w].attempt \in Nat
  BY DEF TypeOK, Rows, Handlers, Acting
<1>2. handler[w].startedAt = outbox[j].startedAt
  BY <1>1 DEF LeaseInv, OwnerOrSuperseded, Owned
<1>3. handler[v].startedAt # handler[w].startedAt
  <2>1. \/ handler[v].startedAt + StaleAfter <= handler[w].startedAt
        \/ handler[w].startedAt + StaleAfter <= handler[v].startedAt
    BY <1>1 DEF LeaseInv, ExclusiveSideEffects, ActingOn
  <2> QED BY <1>1, <2>1
<1> QED BY <1>1, <1>2, <1>3 DEF LeaseInv, OwnerOrSuperseded

(* Ending an attempt releases the row only for its owner.                  *)
LEMMA LeaseEnd ==
  ASSUME TypeOK, TypeOK', LeaseInv, NEW w \in Workers, Succeed(w) \/ Fail(w)
  PROVE  LeaseInv'
<1> DEFINE h == handler[w]
           j == h.job
<1>1. /\ Acting(w) /\ j \in Jobs /\ now' = now
      /\ handler \in [Workers -> Handlers] /\ outbox \in [Jobs -> Rows]
      /\ \A v \in Workers : Acting(v) => handler[v].job \in Jobs
  BY DEF Succeed, Fail, Acting, TypeOK
<1>2. PICK row : /\ outbox' = [outbox EXCEPT ![j] = row]
                 /\ row.startedAt = outbox[j].startedAt
                 /\ row.attempts = outbox[j].attempts
                 /\ row # outbox[j] => Owned(outbox[j], h.attempt)
  <2>1. CASE Succeed(w)
    <3> DEFINE r == MarkSucceeded(outbox[j], h.attempt)
    <3>1. outbox' = [outbox EXCEPT ![j] = r]
      BY <2>1 DEF Succeed
    <3>2. /\ r.startedAt = outbox[j].startedAt /\ r.attempts = outbox[j].attempts
          /\ r # outbox[j] => Owned(outbox[j], h.attempt)
      BY <1>1 DEF MarkSucceeded, Rows
    <3> QED BY <3>1, <3>2
  <2>2. CASE Fail(w)
    <3> DEFINE r == MarkFailure(outbox[j], h.attempt)
    <3>1. outbox' = [outbox EXCEPT ![j] = r]
      BY <2>2 DEF Fail
    <3>2. /\ r.startedAt = outbox[j].startedAt /\ r.attempts = outbox[j].attempts
          /\ r # outbox[j] => Owned(outbox[j], h.attempt)
      BY <1>1 DEF MarkFailure, Rows
    <3> QED BY <3>1, <3>2
  <2> QED BY <2>1, <2>2
<1>3. /\ ~Acting(w)' /\ handler'[w].pc # "claim"
      /\ \A v \in Workers \ {w} : handler'[v] = handler[v]
  BY <1>1 DEF Succeed, Fail, Goto, Acting, Handlers
<1>4. \A i \in Jobs : /\ outbox'[i].startedAt = outbox[i].startedAt
                      /\ outbox'[i].attempts = outbox[i].attempts
                      /\ i # j => outbox'[i] = outbox[i]
  BY <1>1, <1>2
<1>5. \A v \in Workers : Acting(v)' => v # w /\ Acting(v) /\ handler'[v] = handler[v]
  BY <1>3 DEF Acting
<1>6. \A v \in Workers : handler'[v].pc = "claim" =>
                           handler[v].pc = "claim" /\ handler'[v] = handler[v]
  BY <1>3
<1>7. ClaimIsPrompt'
  BY <1>1, <1>6 DEF LeaseInv, ClaimIsPrompt
<1>8. OwnerOrSuperseded'
  <2> SUFFICES ASSUME NEW v \in Workers, Acting(v)'
               PROVE  \/ /\ handler'[v].startedAt = outbox'[handler'[v].job].startedAt
                         /\ Owned(outbox'[handler'[v].job], handler'[v].attempt)
                      \/ /\ handler'[v].startedAt + StaleAfter
                              <= outbox'[handler'[v].job].startedAt
                         /\ handler'[v].attempt < outbox'[handler'[v].job].attempts
    BY DEF OwnerOrSuperseded, Owned
  <2>1. v # w /\ Acting(v) /\ handler'[v] = handler[v] /\ handler[v].job \in Jobs
    BY <1>1, <1>5
  <2>2. CASE outbox'[handler[v].job] = outbox[handler[v].job]
    BY <2>1, <2>2 DEF LeaseInv, OwnerOrSuperseded
  <2>3. CASE outbox'[handler[v].job] # outbox[handler[v].job]
    <3>1. handler[v].job = j /\ Owned(outbox[j], h.attempt)
      BY <1>1, <1>2, <1>4, <2>1, <2>3
    <3>2. /\ handler[v].startedAt + StaleAfter <= outbox[j].startedAt
          /\ handler[v].attempt < outbox[j].attempts
      BY <1>1, <2>1, <3>1, OwnerIsUnique
    <3> QED BY <1>1, <1>4, <2>1, <3>1, <3>2
  <2> QED BY <2>2, <2>3
<1>9. ClaimIsNewer'
  <2> SUFFICES ASSUME NEW v \in Workers, handler'[v].pc = "claim",
                      outbox'[handler'[v].job].startedAt < handler'[v].startedAt
               PROVE  outbox'[handler'[v].job].attempts < handler'[v].attempt
    BY DEF ClaimIsNewer
  <2>1. handler[v].pc = "claim" /\ handler'[v] = handler[v] /\ handler[v].job \in Jobs
    BY <1>6 DEF TypeOK
  <2>2. /\ outbox'[handler[v].job].startedAt = outbox[handler[v].job].startedAt
        /\ outbox'[handler[v].job].attempts = outbox[handler[v].job].attempts
    BY <1>4, <2>1
  <2> QED BY <2>1, <2>2 DEF LeaseInv, ClaimIsNewer
<1>10. ClaimPassesActing'
  BY <1>5, <1>6 DEF LeaseInv, ClaimPassesActing
<1>11. ClockBoundsClaims'
  BY <1>1, <1>4 DEF LeaseInv, ClockBoundsClaims
<1>12. ExclusiveSideEffects'
  BY <1>5 DEF LeaseInv, ExclusiveSideEffects, ActingOn
<1> QED BY <1>7, <1>8, <1>9, <1>10, <1>11, <1>12 DEF LeaseInv

(* Time passes only when no claim is in flight. *)
LEMMA LeaseTick ==
  ASSUME TypeOK, LeaseInv, Tick
  PROVE  LeaseInv'
<1>1. /\ now \in Nat /\ now' = now + 1 /\ outbox' = outbox /\ handler' = handler
      /\ \A w \in Workers : handler[w].pc # "claim"
      /\ \A j \in Jobs : outbox[j].startedAt \in Nat
  BY DEF Tick, TypeOK, Rows
<1>2. ClaimIsPrompt' /\ ClaimIsNewer' /\ ClaimPassesActing'
  BY <1>1 DEF ClaimIsPrompt, ClaimIsNewer, ClaimPassesActing
<1>3. OwnerOrSuperseded' /\ ExclusiveSideEffects'
  BY <1>1 DEF LeaseInv, OwnerOrSuperseded, ExclusiveSideEffects, Acting, ActingOn, Owned
<1>4. ClockBoundsClaims'
  BY <1>1 DEF LeaseInv, ClockBoundsClaims
<1> QED BY <1>2, <1>3, <1>4 DEF LeaseInv

(* No other step touches a claim: publishers move rows out of PENDING      *)
(* only, and the queue and the faults leave rows and claims alone.         *)
LEMMA LeaseStep ==
  ASSUME TypeOK, TypeOK', LeaseInv, [Next]_vars
  PROVE  LeaseInv'
<1>1. /\ handler \in [Workers -> Handlers] /\ outbox \in [Jobs -> Rows]
  BY DEF TypeOK
<1>2. ASSUME NEW p \in Publishers, NEW j \in Jobs, CreateJob(p, j) PROVE LeaseInv'
  BY <1>1, <1>2, LeaseQuiet DEF CreateJob, Rows, Acting
<1>3. ASSUME NEW p \in Publishers, Recover(p) \/ PublishFind(p) \/ PublishAdd(p)
      PROVE  LeaseInv'
  BY <1>3, LeaseQuiet DEF Recover, PublishFind, PublishAdd, Acting
<1>4. ASSUME NEW p \in Publishers, PublishMark(p) PROVE LeaseInv'
  <2>1. handler' = handler /\ now' = now
    BY <1>4 DEF PublishMark
  <2>2. \A j \in Jobs : outbox'[j] = outbox[j] \/ outbox'[j] = MarkQueued(outbox[j])
    BY <1>1, <1>4 DEF PublishMark
  <2>3. \A j \in Jobs :
          /\ outbox'[j].startedAt = outbox[j].startedAt
          /\ outbox'[j].attempts = outbox[j].attempts
          /\ outbox[j].status = "PROCESSING" => outbox'[j].status = "PROCESSING"
    BY <1>1, <2>2 DEF MarkQueued, Rows
  <2> QED BY <2>1, <2>3, LeaseQuiet DEF Acting
<1>5. ASSUME NEW w \in Workers, NEW j \in Jobs, Take(w, j) PROVE LeaseInv'
  BY <1>1, <1>5, LeaseQuiet DEF Take, Acting, Idle
<1>6. ASSUME NEW w \in Workers, HandlerStep(w) PROVE LeaseInv'
  <2>1. CASE Process(w)
    BY <1>1, <2>1, LeaseQuiet DEF Process, Goto, Acting, Handlers
  <2>2. CASE Settle(w)
    BY <1>1, <2>2, LeaseQuiet DEF Settle, Acting, Idle
  <2> QED BY <1>6, <2>1, <2>2, LeaseFind, LeaseClaim, LeaseEnd DEF HandlerStep
<1>7. ASSUME \/ \E j \in Jobs : StallDead(j) \/ StallLive(j)
             \/ OtherJobCompletes
      PROVE  LeaseInv'
  BY <1>7, LeaseQuiet DEF StallDead, OtherJobCompletes, StallLive, Acting
<1>8. CASE Tick
  BY <1>8, LeaseTick
<1>9. ASSUME NEW p \in Publishers,
             PublishAddFails(p) \/ PublishDbFails(p) \/ PublisherCrash(p)
      PROVE  LeaseInv'
  BY <1>9, LeaseQuiet DEF PublishAddFails, PublishDbFails, PublisherCrash, Acting
<1>10. ASSUME NEW w \in Workers, HandlerDbFails(w) \/ WorkerCrash(w) PROVE LeaseInv'
  <2>1. outbox' = outbox /\ now' = now
    BY <1>10 DEF HandlerDbFails, WorkerCrash
  <2>2. \A v \in Workers \ {w} : handler'[v] = handler[v]
    BY <1>1, <1>10 DEF HandlerDbFails, WorkerCrash, Goto
  <2>3. \/ handler'[w].pc \in {"idle", "thrown"}
        \/ /\ Acting(w) /\ handler'[w].pc = "fail"
           /\ handler'[w].job = handler[w].job
           /\ handler'[w].attempt = handler[w].attempt
           /\ handler'[w].startedAt = handler[w].startedAt
    BY <1>1, <1>10 DEF HandlerDbFails, WorkerCrash, Goto, Idle, Acting, Handlers
  <2> QED BY <2>1, <2>2, <2>3, LeaseQuiet DEF Acting
<1>11. CASE QueueLoss
  BY <1>11, LeaseQuiet DEF QueueLoss, Acting
<1>12. CASE UNCHANGED vars
  BY <1>12, LeaseQuiet DEF vars, Acting
<1> QED
  BY <1>2, <1>3, <1>4, <1>5, <1>6, <1>7, <1>8, <1>9, <1>10, <1>11, <1>12
     DEF Next, PublisherStep, FaultStep

(* The lease invariant holds of every reachable state: an acting handler   *)
(* owns its row or was superseded by a later, larger claim.                *)
THEOREM LeaseCorrect == Spec => []LeaseInv
<1>1. Init => LeaseInv
  BY DEF Init, LeaseInv, ClaimIsPrompt, OwnerOrSuperseded, ClaimIsNewer, ClaimPassesActing,
         ClockBoundsClaims, ExclusiveSideEffects, ActingOn, Acting, NoRow, Idle
<1>2. TypeOK /\ TypeOK' /\ LeaseInv /\ [Next]_vars => LeaseInv'
  BY LeaseStep
<1> QED BY <1>1, <1>2, TypeCorrect, PTL DEF Spec

(* The side effect of one row never runs in two handlers at once unless    *)
(* the older claim is at least StaleAfter older.                           *)
THEOREM SideEffectsAreExclusive == Spec => []ExclusiveSideEffects
<1>1. LeaseInv => ExclusiveSideEffects
  BY DEF LeaseInv
<1> QED BY <1>1, LeaseCorrect, PTL

---------------------------------------------------------------------------
(* What a step may never do to a row. *)

(* A row changes only in CreateJob, PublishMark, Claim, Succeed and Fail,  *)
(* and a PROCESSING row only through the last three.                       *)
LEMMA RowChange ==
  ASSUME TypeOK, [Next]_vars, NEW j \in Jobs, outbox'[j] # outbox[j]
  PROVE  \/ outbox[j].status = "ABSENT" /\ outbox'[j].status = "PENDING"
         \/ outbox[j].status = "PENDING" /\ outbox'[j].status = "QUEUED"
         \/ \E w \in Workers :
              /\ handler[w].job = j
              /\ \/ /\ handler[w].pc = "claim"
                    /\ Claimable(outbox[j], handler[w].startedAt)
                    /\ outbox'[j] = [status |-> "PROCESSING",
                                     attempts |-> handler[w].attempt,
                                     startedAt |-> handler[w].startedAt]
                 \/ /\ Acting(w)
                    /\ Owned(outbox[j], handler[w].attempt)
                    /\ outbox'[j].attempts = outbox[j].attempts
                    /\ outbox'[j].status # "ABSENT"
                    /\ handler[w].pc = "succeed" \/ outbox'[j].status # "SUCCEEDED"
<1>1. outbox \in [Jobs -> Rows] /\ outbox[j] \in Rows
  BY DEF TypeOK
<1>2. ASSUME NEW p \in Publishers, NEW i \in Jobs, CreateJob(p, i)
      PROVE  outbox[j].status = "ABSENT" /\ outbox'[j].status = "PENDING"
  BY <1>1, <1>2 DEF CreateJob, Rows
<1>3. ASSUME NEW p \in Publishers, PublishMark(p)
      PROVE  outbox[j].status = "PENDING" /\ outbox'[j].status = "QUEUED"
  <2>1. outbox'[j] = MarkQueued(outbox[j])
    BY <1>1, <1>3 DEF PublishMark
  <2> QED BY <1>1, <2>1 DEF MarkQueued, Rows
<1>4. ASSUME NEW w \in Workers, Claim(w)
      PROVE  /\ handler[w].job = j /\ handler[w].pc = "claim"
             /\ Claimable(outbox[j], handler[w].startedAt)
             /\ outbox'[j] = [status |-> "PROCESSING", attempts |-> handler[w].attempt,
                              startedAt |-> handler[w].startedAt]
  BY <1>1, <1>4 DEF Claim
<1>5. ASSUME NEW w \in Workers, Succeed(w) \/ Fail(w)
      PROVE  /\ handler[w].job = j /\ Acting(w)
             /\ Owned(outbox[j], handler[w].attempt)
             /\ outbox'[j].attempts = outbox[j].attempts
             /\ outbox'[j].status # "ABSENT"
             /\ handler[w].pc = "succeed" \/ outbox'[j].status # "SUCCEEDED"
  <2>1. CASE Succeed(w)
    <3>1. handler[w].job = j /\ outbox'[j] = MarkSucceeded(outbox[j], handler[w].attempt)
      BY <1>1, <2>1 DEF Succeed
    <3> QED BY <1>1, <2>1, <3>1 DEF Succeed, Acting, MarkSucceeded, Rows
  <2>2. CASE Fail(w)
    <3>1. handler[w].job = j /\ outbox'[j] = MarkFailure(outbox[j], handler[w].attempt)
      BY <1>1, <2>2 DEF Fail
    <3> QED BY <1>1, <2>2, <3>1 DEF Fail, Acting, MarkFailure, Rows
  <2> QED BY <1>5, <2>1, <2>2
<1>6. CASE UNCHANGED outbox
  BY <1>6
<1>7. \/ \E p \in Publishers, i \in Jobs : CreateJob(p, i)
      \/ \E p \in Publishers : PublishMark(p)
      \/ \E w \in Workers : Claim(w) \/ Succeed(w) \/ Fail(w)
      \/ UNCHANGED outbox
  BY DEF Next, vars, PublisherStep, HandlerStep, FaultStep, Recover, PublishFind, PublishAdd,
         Take, Find, Process, Settle, StallDead, OtherJobCompletes, StallLive, Tick, QueueLoss,
         PublishAddFails, PublishDbFails, PublisherCrash, HandlerDbFails, WorkerCrash
<1> QED BY <1>2, <1>3, <1>4, <1>5, <1>6, <1>7

(* SUCCEEDED and DEAD_LETTER are final. *)
THEOREM TerminalRowsAreFinal == Spec => TerminalIsFinal
<1>1. TypeOK /\ [Next]_vars =>
        \A j \in Jobs : outbox[j].status \in Terminal => outbox'[j] = outbox[j]
  <2> SUFFICES ASSUME TypeOK, [Next]_vars, NEW j \in Jobs, outbox[j].status \in Terminal,
                      outbox'[j] # outbox[j]
               PROVE  FALSE
    OBVIOUS
  <2> QED BY RowChange DEF Terminal, Claimable, Owned
<1> QED BY <1>1, TypeCorrect, PTL DEF Spec, TerminalIsFinal

(* An attempt in progress is ended only by its owner, or by a claim at     *)
(* least StaleAfter later that takes a larger attempt number.              *)
THEOREM OnlyTheOwnerEndsAnAttempt == Spec => OnlyOwnerEndsAttempt
<1> DEFINE Ended(j) ==
      \E w \in Workers :
        /\ handler[w].job = j
        /\ \/ /\ Acting(w)
              /\ handler[w].startedAt = outbox[j].startedAt
              /\ outbox'[j].attempts = outbox[j].attempts
           \/ /\ handler[w].pc = "claim"
              /\ outbox'[j].startedAt >= outbox[j].startedAt + StaleAfter
              /\ outbox'[j].attempts > outbox[j].attempts
<1>1. TypeOK /\ LeaseInv /\ [Next]_vars =>
        \A j \in Jobs : outbox[j].status = "PROCESSING" /\ outbox'[j] # outbox[j] => Ended(j)
  <2> SUFFICES ASSUME TypeOK, LeaseInv, [Next]_vars, NEW j \in Jobs,
                      outbox[j].status = "PROCESSING", outbox'[j] # outbox[j]
               PROVE  Ended(j)
    OBVIOUS
  <2>1. PICK w \in Workers :
          /\ handler[w].job = j
          /\ \/ /\ handler[w].pc = "claim"
                /\ Claimable(outbox[j], handler[w].startedAt)
                /\ outbox'[j] = [status |-> "PROCESSING", attempts |-> handler[w].attempt,
                                 startedAt |-> handler[w].startedAt]
             \/ /\ Acting(w)
                /\ Owned(outbox[j], handler[w].attempt)
                /\ outbox'[j].attempts = outbox[j].attempts
    BY RowChange
  <2>2. /\ outbox[j].startedAt \in Nat /\ outbox[j].attempts \in Nat
        /\ handler[w].startedAt \in Nat /\ handler[w].attempt \in Nat
    BY DEF TypeOK, Rows, Handlers
  <2>3. CASE Acting(w) /\ Owned(outbox[j], handler[w].attempt)
             /\ outbox'[j].attempts = outbox[j].attempts
    <3>1. handler[w].startedAt = outbox[j].startedAt
      BY <2>1, <2>2, <2>3 DEF LeaseInv, OwnerOrSuperseded, Owned
    <3> QED BY <2>1, <2>3, <3>1
  <2>4. CASE /\ handler[w].pc = "claim"
             /\ Claimable(outbox[j], handler[w].startedAt)
             /\ outbox'[j] = [status |-> "PROCESSING", attempts |-> handler[w].attempt,
                              startedAt |-> handler[w].startedAt]
    <3>1. outbox[j].startedAt + StaleAfter <= handler[w].startedAt
      BY <2>4 DEF Claimable
    <3>2. outbox[j].attempts < handler[w].attempt
      BY <2>1, <2>2, <2>4, <3>1 DEF LeaseInv, ClaimIsNewer
    <3> QED BY <2>1, <2>2, <2>4, <3>1, <3>2
  <2> QED BY <2>1, <2>3, <2>4
<1> QED BY <1>1, TypeCorrect, LeaseCorrect, PTL DEF Spec, OnlyOwnerEndsAttempt

---------------------------------------------------------------------------
(* A row recorded as SUCCEEDED was delivered. *)

(* Only a handler that saw the side effect end is about to record success. *)
LEMMA EarnedStep ==
  ASSUME TypeOK, SuccessIsEarned, [Next]_vars
  PROVE  SuccessIsEarned' /\ delivered \subseteq delivered'
<1>1. handler \in [Workers -> Handlers]
  BY DEF TypeOK
<1>2. ASSUME NEW w \in Workers, Process(w)
      PROVE  SuccessIsEarned' /\ delivered \subseteq delivered'
  BY <1>1, <1>2 DEF Process, Goto, SuccessIsEarned, Handlers
<1>3. CASE /\ delivered' = delivered
           /\ \A v \in Workers : handler'[v].pc = "succeed" => handler'[v] = handler[v]
  BY <1>3 DEF SuccessIsEarned
<1>4. ASSUME NEW w \in Workers, NEW j \in Jobs, Take(w, j)
      PROVE  /\ delivered' = delivered
             /\ \A v \in Workers : handler'[v].pc = "succeed" => handler'[v] = handler[v]
  BY <1>1, <1>4 DEF Take, Idle
<1>5. ASSUME NEW w \in Workers,
             \/ Find(w) \/ Claim(w) \/ Succeed(w) \/ Fail(w) \/ Settle(w)
             \/ HandlerDbFails(w) \/ WorkerCrash(w)
      PROVE  /\ delivered' = delivered
             /\ \A v \in Workers : handler'[v].pc = "succeed" => handler'[v] = handler[v]
  BY <1>1, <1>5 DEF Find, Claim, Succeed, Fail, Settle, HandlerDbFails, WorkerCrash, Goto,
                    Idle, Handlers
<1>6. \/ \E w \in Workers : Process(w)
      \/ \E w \in Workers, j \in Jobs : Take(w, j)
      \/ \E w \in Workers : \/ Find(w) \/ Claim(w) \/ Succeed(w) \/ Fail(w) \/ Settle(w)
                            \/ HandlerDbFails(w) \/ WorkerCrash(w)
      \/ UNCHANGED <<handler, delivered>>
  BY DEF Next, vars, PublisherStep, HandlerStep, FaultStep, CreateJob, Recover, PublishFind,
         PublishAdd, PublishMark, StallDead, OtherJobCompletes, StallLive, Tick, QueueLoss,
         PublishAddFails, PublishDbFails, PublisherCrash
<1> QED BY <1>2, <1>3, <1>4, <1>5, <1>6

LEMMA EarnedCorrect == Spec => []SuccessIsEarned
<1>1. Init => SuccessIsEarned
  BY DEF Init, SuccessIsEarned, Idle
<1>2. TypeOK /\ SuccessIsEarned /\ [Next]_vars => SuccessIsEarned'
  BY EarnedStep
<1> QED BY <1>1, <1>2, TypeCorrect, PTL DEF Spec

(* A row is recorded as SUCCEEDED only after its side effect ended.        *)
THEOREM SucceededRowsWereDelivered == Spec => []SucceededWasDelivered
<1>1. Init => SucceededWasDelivered
  BY DEF Init, SucceededWasDelivered, NoRow
<1>2. TypeOK /\ SuccessIsEarned /\ SucceededWasDelivered /\ [Next]_vars => SucceededWasDelivered'
  <2> SUFFICES ASSUME TypeOK, SuccessIsEarned, SucceededWasDelivered, [Next]_vars,
                      NEW j \in Jobs, outbox'[j].status = "SUCCEEDED"
               PROVE  j \in delivered'
    BY DEF SucceededWasDelivered
  <2>1. CASE outbox'[j] = outbox[j]
    BY EarnedStep, <2>1 DEF SucceededWasDelivered
  <2>2. CASE outbox'[j] # outbox[j]
    <3>1. PICK w \in Workers :
            /\ handler[w].job = j
            /\ \/ /\ handler[w].pc = "claim"
                  /\ outbox'[j] = [status |-> "PROCESSING", attempts |-> handler[w].attempt,
                                   startedAt |-> handler[w].startedAt]
               \/ handler[w].pc = "succeed" \/ outbox'[j].status # "SUCCEEDED"
      BY <2>2, RowChange
    <3>2. handler[w].pc = "succeed"
      BY <3>1
    <3> QED BY EarnedStep, <3>1, <3>2 DEF SuccessIsEarned
  <2> QED BY <2>1, <2>2
<1> QED BY <1>1, <1>2, EarnedCorrect, TypeCorrect, PTL DEF Spec

---------------------------------------------------------------------------
(* The two attempt counters agree: an entry that BullMQ gave up belongs to *)
(* a row that has ended.                                                   *)

(* What must not happen for it: a database error that rejects the callback *)
(* before the row moves, more crashes than BullMQ tolerates stalls, and a  *)
(* second handler of one row, which takes a live handler that loses its    *)
(* lock, or another worker and a queue that forgets the entry.             *)
CountersMayAgree ==
  /\ "db" \notin FaultKinds /\ "stall" \notin FaultKinds
  /\ MaxFaults <= MaxStalls
  /\ "loss" \notin FaultKinds \/ \E w : Workers = {w}

Busy(w) == handler[w].pc # "idle"
Orphaned(j) ==
  entry[j].state = "active" /\ \A w \in Workers : entry[j].owner = w => handler[w].job # j

(* A handler holds its entry, unless the queue lost it, and then carries   *)
(* the entry's count.                                                      *)
HandlersHold ==
  \A w \in Workers :
    /\ ~Busy(w) => handler[w].job = NoJob
    /\ Busy(w) /\ "loss" \notin FaultKinds => Holds(w, handler[w].job)
    /\ Busy(w) /\ Holds(w, handler[w].job) => entry[handler[w].job].made = handler[w].made

(* The number of an attempt is above BullMQ's count, an acting handler     *)
(* owns its row, and one that throws has ended it if it was the last.      *)
AttemptsCount ==
  \A w \in Workers :
    /\ handler[w].pc \in {"claim", "process", "succeed", "fail", "thrown"}
         => handler[w].attempt > handler[w].made
    /\ Acting(w) => Owned(outbox[handler[w].job], handler[w].attempt)
    /\ handler[w].pc = "thrown" /\ Exhausted(handler[w].attempt)
         => outbox[handler[w].job].status \in Terminal

(* Every stall of an entry was a crash, an orphan is one more to come.     *)
StallsAreCrashes ==
  /\ faults <= MaxFaults
  /\ \A j \in Jobs : /\ entry[j].stalls <= faults
                     /\ Orphaned(j) => entry[j].stalls < faults

CountersInv == HandlersHold /\ AttemptsCount /\ StallsAreCrashes /\ FailedEntryMeansTerminal

(* One handler at a time works on a row. *)
LEMMA OneHandler ==
  ASSUME TypeOK, CountersMayAgree, HandlersHold, NEW v \in Workers, NEW w \in Workers,
         Busy(v), Busy(w), handler[v].job = handler[w].job
  PROVE  v = w
BY DEF CountersMayAgree, HandlersHold, Holds

(* Publishers, the clock and faults that leave the handlers alone: rows    *)
(* that were published move on, entries are added where there was none.    *)
LEMMA CountersQuiet ==
  ASSUME TypeOK, TypeOK', CountersInv, UNCHANGED handler,
         faults' \in {faults, faults + 1}, faults' <= MaxFaults,
         \A j \in Jobs : outbox'[j] = outbox[j] \/ outbox[j].status \in {"ABSENT", "PENDING"},
         \A j \in Jobs : \/ entry'[j] = entry[j]
                         \/ entry[j].state = "none" /\ entry'[j] = NewEntry
                         \/ "loss" \in FaultKinds /\ entry'[j] = NoEntry
                         \/ entry[j].state = "completed" /\ entry'[j] = NoEntry
  PROVE  CountersInv'
<1>1. /\ \A w \in Workers : Busy(w) => handler[w].job \in Jobs
      /\ faults \in Nat /\ MaxFaults \in Nat
  BY DEF TypeOK, Busy
<1>2. NoEntry.state = "none" /\ NewEntry.state = "waiting" /\ NoEntry.stalls = 0
      /\ NewEntry.stalls = 0
  BY DEF NoEntry, NewEntry
<1>3. \A w \in Workers, j \in Jobs : Holds(w, j)' => Holds(w, j) /\ entry'[j] = entry[j]
  BY <1>2 DEF Holds
<1>4. HandlersHold'
  <2>1. ASSUME NEW w \in Workers, Busy(w), Holds(w, handler[w].job), "loss" \notin FaultKinds
        PROVE  Holds(w, handler[w].job)'
    BY <1>1, <2>1 DEF Holds
  <2> QED BY <1>1, <1>3, <2>1 DEF CountersInv, HandlersHold, Busy
<1>5. AttemptsCount'
  <2>1. ASSUME NEW w \in Workers, Acting(w)
        PROVE  Owned(outbox[handler[w].job], handler[w].attempt)'
    <3>1. Busy(w) /\ Owned(outbox[handler[w].job], handler[w].attempt)
      BY <2>1 DEF CountersInv, AttemptsCount, Acting, Busy
    <3> QED BY <1>1, <3>1 DEF Owned
  <2>2. ASSUME NEW w \in Workers, handler[w].pc = "thrown", Exhausted(handler[w].attempt)
        PROVE  outbox'[handler[w].job].status \in Terminal
    BY <1>1, <2>2 DEF CountersInv, AttemptsCount, Busy, Terminal
  <2> QED BY <2>1, <2>2 DEF CountersInv, AttemptsCount, Acting
<1>6. StallsAreCrashes'
  <2>1. ASSUME NEW j \in Jobs PROVE entry'[j].stalls <= faults'
    BY <1>1, <1>2, <2>1 DEF CountersInv, StallsAreCrashes, TypeOK, Entries
  <2>2. ASSUME NEW j \in Jobs, Orphaned(j)' PROVE entry'[j].stalls < faults'
    <3>1. entry'[j] = entry[j] BY <1>2, <2>2 DEF Orphaned
    <3>2. Orphaned(j) BY <2>2, <3>1 DEF Orphaned
    <3> QED BY <1>1, <3>1, <3>2 DEF CountersInv, StallsAreCrashes, TypeOK, Entries
  <2> QED BY <2>1, <2>2 DEF StallsAreCrashes
<1>7. FailedEntryMeansTerminal'
  BY <1>2 DEF CountersInv, FailedEntryMeansTerminal, Terminal
<1> QED BY <1>4, <1>5, <1>6, <1>7 DEF CountersInv

(* BullMQ hands an entry to a handler. *)
LEMMA CountersTake ==
  ASSUME TypeOK, CountersInv, NEW w \in Workers, NEW j \in Jobs, Take(w, j)
  PROVE  CountersInv'
<1>1. /\ handler'[w] = [pc |-> "find", job |-> j, made |-> entry[j].made, attempt |-> 0,
                        startedAt |-> 0]
      /\ \A v \in Workers \ {w} : handler'[v] = handler[v]
      /\ entry'[j] = [entry[j] EXCEPT !.state = "active", !.owner = w]
      /\ \A k \in Jobs \ {j} : entry'[k] = entry[k]
      /\ handler[w].pc = "idle" /\ entry[j].state = "waiting"
      /\ UNCHANGED <<outbox, faults>>
  BY DEF Take, TypeOK, Idle
<1>2. /\ entry'[j].state = "active" /\ entry'[j].owner = w /\ entry'[j].made = entry[j].made
      /\ entry'[j].stalls = entry[j].stalls
  BY <1>1 DEF TypeOK, Entries
<1>3. \A v \in Workers : Busy(v) => handler[v].job \in Jobs
  BY DEF TypeOK, Busy
<1>4. HandlersHold'
  <2>1. ASSUME NEW v \in Workers, v # w, Busy(v) PROVE
          /\ Holds(v, handler[v].job) <=> Holds(v, handler[v].job)'
          /\ Holds(v, handler[v].job) => entry'[handler[v].job] = entry[handler[v].job]
    <3>1. handler'[v] = handler[v] BY <1>1, <2>1
    <3>2. CASE handler[v].job = j BY <1>1, <1>2, <2>1, <3>1, <3>2 DEF Holds
    <3>3. CASE handler[v].job # j
      <4>1. entry'[handler[v].job] = entry[handler[v].job] BY <1>1, <1>3, <2>1, <3>3
      <4> QED BY <3>1, <4>1 DEF Holds
    <3> QED BY <3>2, <3>3
  <2>2. ASSUME NEW v \in Workers, v # w PROVE
          /\ ~Busy(v)' => handler'[v].job = NoJob
          /\ Busy(v)' /\ "loss" \notin FaultKinds => Holds(v, handler[v].job)'
          /\ Busy(v)' /\ Holds(v, handler[v].job)'
               => entry'[handler'[v].job].made = handler'[v].made
    <3>1. handler'[v] = handler[v] /\ (Busy(v)' <=> Busy(v)) BY <1>1, <2>2 DEF Busy
    <3> QED BY <2>1, <2>2, <3>1 DEF CountersInv, HandlersHold
  <2>3. Busy(w)' /\ handler'[w].job = j /\ handler'[w].made = entry'[j].made
    BY <1>1, <1>2 DEF Busy
  <2>4. Holds(w, handler[w].job)' BY <1>2, <2>3 DEF Holds
  <2> QED BY <2>2, <2>3, <2>4 DEF HandlersHold
<1>5. AttemptsCount' BY <1>1 DEF CountersInv, AttemptsCount, Acting
<1>6. StallsAreCrashes'
  <2>1. ASSUME NEW k \in Jobs, Orphaned(k)' PROVE Orphaned(k) /\ entry'[k] = entry[k]
    <3>1. k # j
      <4>1. handler'[w].job = j BY <1>1
      <4> QED BY <1>2, <2>1, <4>1 DEF Orphaned
    <3>2. handler[w].job = NoJob /\ NoJob # k
      BY <1>1 DEF CountersInv, HandlersHold, Busy, NoJob
    <3> QED BY <1>1, <2>1, <3>1, <3>2 DEF Orphaned
  <2> QED BY <1>1, <1>2, <2>1 DEF CountersInv, StallsAreCrashes
<1>7. FailedEntryMeansTerminal' BY <1>1, <1>2 DEF CountersInv, FailedEntryMeansTerminal
<1> QED BY <1>4, <1>5, <1>6, <1>7 DEF CountersInv

(* A handler goes on, without its entry being touched: from Find to Fail.  *)
LEMMA CountersHandler ==
  ASSUME TypeOK, TypeOK', CountersMayAgree, CountersInv, NEW w \in Workers,
         Find(w) \/ Claim(w) \/ Process(w) \/ Succeed(w) \/ Fail(w)
  PROVE  CountersInv'
<1> DEFINE h == handler[w]  j == handler[w].job
<1>1. Busy(w) /\ j \in Jobs
  BY DEF TypeOK, Busy, Find, Claim, Process, Succeed, Fail
<1>2. /\ UNCHANGED <<entry, faults>>
      /\ \A v \in Workers \ {w} : handler'[v] = handler[v]
      /\ handler'[w].job = j /\ handler'[w].made = h.made /\ Busy(w)'
  BY DEF TypeOK, Handlers, Find, Claim, Process, Succeed, Fail, Goto, Busy
<1>3. \A k \in Jobs \ {j} : outbox'[k] = outbox[k]
  BY DEF TypeOK, Find, Claim, Process, Succeed, Fail
<1>4. HandlersHold' BY <1>1, <1>2 DEF CountersInv, HandlersHold, Busy, Holds
<1>5. StallsAreCrashes' BY <1>2 DEF CountersInv, StallsAreCrashes, Orphaned
<1>6. \A v \in Workers \ {w} : Busy(v) => handler[v].job # j
  BY <1>1, OneHandler DEF CountersInv
<1>7. \/ outbox'[j] = outbox[j] \/ outbox[j].status \notin Terminal
  BY DEF TypeOK, Find, Claim, Process, Succeed, Fail, MarkSucceeded, MarkFailure, Owned,
         Claimable, Terminal
<1>8. FailedEntryMeansTerminal'
  BY <1>2, <1>3, <1>7 DEF CountersInv, FailedEntryMeansTerminal
<1>9. /\ handler'[w].pc \in {"claim", "process", "succeed", "fail", "thrown"}
           => handler'[w].attempt > handler'[w].made
      /\ Acting(w)' => Owned(outbox'[j], handler'[w].attempt)
      /\ handler'[w].pc = "thrown" /\ Exhausted(handler'[w].attempt)
           => outbox'[j].status \in Terminal
  <2>1. h \in Handlers /\ h.made \in Nat /\ h.attempt \in Nat /\ outbox[j].attempts \in Nat
    BY <1>1 DEF TypeOK, Handlers, Rows
  <2>2. CASE Find(w)
    <3>1. CASE outbox[j].status \in Closed
      <4>1. handler'[w].pc = "returned" BY <2>2, <3>1 DEF Find, Goto, TypeOK, Handlers
      <4> QED BY <4>1 DEF Acting
    <3>2. CASE outbox[j].status \notin Closed
      <4>1. handler'[w].pc = "claim" /\ handler'[w].attempt = NextAttempt(outbox[j], h.made)
        BY <2>2, <3>2 DEF Find, TypeOK, Handlers
      <4>2. NextAttempt(outbox[j], h.made) > h.made BY <2>1 DEF NextAttempt
      <4> QED BY <1>2, <4>1, <4>2 DEF Acting
    <3> QED BY <3>1, <3>2
  <2>3. CASE Claim(w)
    <3>1. handler'[w].pc \in {"process", "returned"} /\ handler'[w].attempt = h.attempt
      BY <2>3 DEF Claim, Goto, TypeOK, Handlers
    <3>2. h.attempt > h.made BY <2>3 DEF Claim, CountersInv, AttemptsCount
    <3>3. handler'[w].pc = "process" => outbox'[j].status = "PROCESSING"
                                        /\ outbox'[j].attempts = h.attempt
      BY <1>1, <2>3 DEF Claim, Goto, TypeOK, Handlers
    <3> QED BY <1>2, <3>1, <3>2, <3>3 DEF Acting, Owned
  <2>4. CASE Process(w)
    <3>1. handler'[w].pc \in {"succeed", "fail"} /\ handler'[w].attempt = h.attempt
      BY <2>4 DEF Process, Goto, TypeOK, Handlers
    <3>2. h.attempt > h.made /\ Owned(outbox[j], h.attempt)
      BY <2>4 DEF Process, CountersInv, AttemptsCount, Acting
    <3>3. outbox' = outbox BY <2>4 DEF Process
    <3> QED BY <1>2, <3>1, <3>2, <3>3 DEF Acting
  <2>5. CASE Succeed(w)
    <3>1. handler'[w].pc = "returned" BY <2>5 DEF Succeed, Goto, TypeOK, Handlers
    <3> QED BY <3>1 DEF Acting
  <2>6. CASE Fail(w)
    <3>1. handler'[w].pc = "thrown" /\ handler'[w].attempt = h.attempt
      BY <2>6 DEF Fail, Goto, TypeOK, Handlers
    <3>2. h.attempt > h.made /\ Owned(outbox[j], h.attempt)
      BY <2>6 DEF Fail, CountersInv, AttemptsCount, Acting
    <3>3. Exhausted(h.attempt) => outbox'[j].status = "DEAD_LETTER"
      BY <1>1, <2>6, <3>2 DEF Fail, MarkFailure, TypeOK, Rows
    <3> QED BY <1>2, <3>1, <3>2, <3>3 DEF Acting, Terminal
  <2> QED BY <2>2, <2>3, <2>4, <2>5, <2>6
<1>10. AttemptsCount'
  <2>1. ASSUME NEW v \in Workers \ {w} PROVE
          /\ handler[v].pc \in {"claim", "process", "succeed", "fail", "thrown"}
               => handler[v].attempt > handler[v].made
          /\ Acting(v) => Owned(outbox'[handler[v].job], handler[v].attempt)
          /\ handler[v].pc = "thrown" /\ Exhausted(handler[v].attempt)
               => outbox'[handler[v].job].status \in Terminal
    <3>1. Busy(v) => outbox'[handler[v].job] = outbox[handler[v].job]
      BY <1>3, <1>6, <2>1 DEF TypeOK, Busy
    <3> QED BY <2>1, <3>1 DEF CountersInv, AttemptsCount, Acting, Busy
  <2>2. \A v \in Workers \ {w} : handler'[v] = handler[v] BY <1>2
  <2> QED BY <1>2, <1>9, <2>1, <2>2 DEF AttemptsCount, Acting
<1> QED BY <1>4, <1>5, <1>8, <1>10 DEF CountersInv

(* The callback ends: an entry that has used its attempts has a row that   *)
(* ended, because the handler's attempt is above its count.                *)
LEMMA CountersSettle ==
  ASSUME TypeOK, TypeOK', CountersInv, NEW w \in Workers, Settle(w)
  PROVE  CountersInv'
<1> DEFINE h == handler[w]  j == handler[w].job
<1>1. Busy(w) /\ j \in Jobs BY DEF TypeOK, Busy, Settle
<1>2. /\ UNCHANGED <<outbox, faults>> /\ handler'[w] = Idle
      /\ \A v \in Workers \ {w} : handler'[v] = handler[v]
      /\ \A k \in Jobs \ {j} : \/ entry'[k] = entry[k]
                               \/ entry[k].state = "completed" /\ entry'[k] = NoEntry
      /\ ~Holds(w, j) => entry'[j] = entry[j]
      /\ Holds(w, j) => entry'[j] = Settled(entry[j], h.pc)
      /\ h.pc \in {"returned", "thrown"}
  <2>1. /\ UNCHANGED <<outbox, faults>> /\ handler'[w] = Idle
        /\ \A v \in Workers \ {w} : handler'[v] = handler[v]
        /\ h.pc \in {"returned", "thrown"}
    BY DEF TypeOK, Settle
  <2>2. /\ Holds(w, j) => entry'[j] = Settled(entry[j], h.pc)
        /\ ~Holds(w, j) => entry' = entry
    BY SettleEntries
  <2>3. \A k \in Jobs \ {j} : \/ entry'[k] = entry[k]
                              \/ entry[k].state = "completed" /\ entry'[k] = NoEntry
    BY SettleEntries
  <2> QED BY <1>1, <2>1, <2>2, <2>3
<1>3. /\ Settled(entry[j], h.pc).state \in {"completed", "waiting", "failed"}
      /\ Settled(entry[j], h.pc).stalls = entry[j].stalls
  <2>1. CASE h.pc = "returned"
    <3>1. Settled(entry[j], h.pc) = [entry[j] EXCEPT !.state = "completed", !.owner = NoWorker]
      BY <2>1 DEF Settled
    <3> QED BY <1>1, <3>1 DEF TypeOK, Entries
  <2>2. CASE h.pc = "thrown" BY <2>2 DEF Settled
  <2> QED BY <1>2, <2>1, <2>2
<1>4. \A v \in Workers : Busy(v) => handler[v].job \in Jobs BY DEF TypeOK, Busy
<1>5. /\ handler'[w].pc = "idle" /\ handler'[w].job = NoJob
      /\ NoEntry.state = "none" /\ NoEntry.stalls = 0
  BY <1>2 DEF Idle, NoEntry
<1>6. HandlersHold'
  <2>1. ASSUME NEW v \in Workers \ {w}, Busy(v), Holds(v, handler[v].job)
        PROVE  entry'[handler[v].job] = entry[handler[v].job]
    BY <1>2, <1>4, <2>1 DEF Holds
  <2>2. ASSUME NEW v \in Workers \ {w}, Busy(v), Holds(v, handler[v].job)'
        PROVE  Holds(v, handler[v].job)
    <3>1. handler'[v].job = handler[v].job /\ handler[v].job \in Jobs BY <1>2, <1>4, <2>2
    <3>2. entry'[handler[v].job].state = "active" BY <2>2, <3>1 DEF Holds
    <3>3. entry'[handler[v].job] = entry[handler[v].job]
      <4>1. entry'[handler[v].job] # NoEntry BY <1>5, <3>2
      <4>2. CASE handler[v].job = j
        <5>1. Settled(entry[j], h.pc).state # "active" BY <1>3
        <5>2. entry'[j].state = "active" BY <3>2, <4>2
        <5>3. ~Holds(w, j) BY <1>2, <5>1, <5>2
        <5> QED BY <1>2, <4>2, <5>3
      <4>3. CASE handler[v].job # j BY <1>2, <3>1, <4>1, <4>3
      <4> QED BY <4>2, <4>3
    <3> QED BY <2>2, <3>1, <3>3 DEF Holds
  <2>3. \A v \in Workers \ {w} : handler'[v] = handler[v] BY <1>2
  <2> QED BY <1>5, <2>1, <2>2, <2>3 DEF CountersInv, HandlersHold, Busy, Holds
<1>7. AttemptsCount' BY <1>2, <1>5 DEF CountersInv, AttemptsCount, Acting
<1>8. StallsAreCrashes'
  <2>1. \A k \in Jobs : entry'[k].stalls = entry[k].stalls \/ entry'[k].stalls = 0
    BY <1>2, <1>3, <1>5
  <2>2. ASSUME NEW k \in Jobs, Orphaned(k)' PROVE Orphaned(k) /\ entry'[k] = entry[k]
    <3>1. entry'[k] = entry[k] BY <1>2, <1>3, <1>5, <2>2 DEF Orphaned
    <3>2. ASSUME entry[k].owner = w PROVE handler[w].job # k
      BY <1>2, <1>3, <2>2, <3>1, <3>2 DEF Orphaned, Holds
    <3> QED BY <1>2, <2>2, <3>1, <3>2 DEF Orphaned
  <2>3. \A k \in Jobs : entry'[k].stalls <= faults
    BY <2>1 DEF CountersInv, StallsAreCrashes, TypeOK
  <2> QED BY <1>2, <2>2, <2>3 DEF CountersInv, StallsAreCrashes
<1>9. FailedEntryMeansTerminal'
  <2>1. ASSUME Holds(w, j), entry'[j].state = "failed" PROVE outbox[j].status \in Terminal
    <3>1. h.pc = "thrown"
      <4>1. h.pc = "returned"
            => Settled(entry[j], h.pc) = [entry[j] EXCEPT !.state = "completed", !.owner = NoWorker]
        BY DEF Settled
      <4>2. h.pc = "returned" => entry'[j].state = "completed"
        <5>1. entry'[j] = Settled(entry[j], h.pc) BY <1>2, <2>1
        <5>2. entry[j] \in Entries BY <1>1 DEF TypeOK
        <5> QED BY <4>1, <5>1, <5>2 DEF Entries
      <4>3. h.pc \in {"returned", "thrown"} BY <1>2
      <4> QED BY <2>1, <4>2, <4>3
    <3>2. entry[j].made + 1 >= MaxAttempts
      BY <1>1, <1>2, <2>1, <3>1 DEF Settled, TypeOK, Entries
    <3>3. entry[j].made = h.made /\ h.attempt > h.made
      BY <1>1, <2>1, <3>1 DEF CountersInv, HandlersHold, AttemptsCount
    <3>4. h.attempt \in Nat /\ h.made \in Nat BY DEF TypeOK, Handlers
    <3>5. Exhausted(h.attempt) BY <3>2, <3>3, <3>4 DEF Exhausted
    <3> QED BY <3>1, <3>5 DEF CountersInv, AttemptsCount
  <2> QED BY <1>2, <1>5, <2>1 DEF CountersInv, FailedEntryMeansTerminal
<1> QED BY <1>6, <1>7, <1>8, <1>9 DEF CountersInv

(* A worker dies: its entry is an orphan, and one more fault is counted.   *)
LEMMA CountersCrash ==
  ASSUME TypeOK, CountersInv, NEW w \in Workers, WorkerCrash(w)
  PROVE  CountersInv'
<1>1. /\ UNCHANGED <<outbox, entry>> /\ handler'[w] = Idle
      /\ \A v \in Workers \ {w} : handler'[v] = handler[v]
      /\ faults' = faults + 1 /\ faults < MaxFaults
  BY DEF TypeOK, WorkerCrash, Fault
<1>2. handler'[w].pc = "idle" /\ handler'[w].job = NoJob BY <1>1 DEF Idle
<1>3. HandlersHold' BY <1>1, <1>2 DEF CountersInv, HandlersHold, Busy, Holds
<1>4. AttemptsCount' BY <1>1, <1>2 DEF CountersInv, AttemptsCount, Acting
<1>5. StallsAreCrashes'
  <2>1. \A j \in Jobs : entry[j].stalls \in Nat BY DEF TypeOK, Entries
  <2>2. faults \in Nat BY DEF TypeOK
  <2> QED BY <1>1, <2>1, <2>2 DEF CountersInv, StallsAreCrashes
<1>6. FailedEntryMeansTerminal' BY <1>1 DEF CountersInv, FailedEntryMeansTerminal
<1> QED BY <1>3, <1>4, <1>5, <1>6 DEF CountersInv

(* The lock of an orphan expires: BullMQ tolerates it, since it tolerates  *)
(* as many stalls as there are faults.                                     *)
LEMMA CountersStall ==
  ASSUME TypeOK, CountersMayAgree, CountersInv, NEW j \in Jobs, StallDead(j)
  PROVE  CountersInv'
<1>1. /\ UNCHANGED <<outbox, handler, faults>> /\ Orphaned(j)
      /\ entry'[j] = Stalled(entry[j])
      /\ \A k \in Jobs \ {j} : entry'[k] = entry[k]
  BY DEF TypeOK, StallDead, Orphaned
<1>2. entry[j].stalls \in Nat /\ faults \in Nat /\ entry[j].stalls < faults /\ faults <= MaxFaults
  BY <1>1 DEF TypeOK, Entries, CountersInv, StallsAreCrashes
<1>3. entry[j].stalls < MaxStalls BY <1>2 DEF CountersMayAgree
<1>4. entry'[j].state = "waiting" /\ entry'[j].stalls = entry[j].stalls + 1
  BY <1>1, <1>3 DEF Stalled
<1>5. \A w \in Workers : handler[w].job = j => ~Holds(w, j)
  BY <1>1 DEF Orphaned, Holds
<1>6. HandlersHold'
  <2>1. \A w \in Workers : Busy(w) => handler[w].job \in Jobs BY DEF TypeOK, Busy
  <2>2. ASSUME NEW w \in Workers, Busy(w)
        PROVE  /\ Holds(w, handler[w].job)' <=> Holds(w, handler[w].job)
               /\ Holds(w, handler[w].job) => entry'[handler[w].job] = entry[handler[w].job]
    BY <1>1, <1>4, <1>5, <2>1, <2>2 DEF Holds
  <2> QED BY <1>1, <2>2 DEF CountersInv, HandlersHold, Busy
<1>7. AttemptsCount' BY <1>1 DEF CountersInv, AttemptsCount, Acting
<1>8. StallsAreCrashes'
  <2>1. ASSUME NEW k \in Jobs, Orphaned(k)' PROVE k # j /\ Orphaned(k)
    BY <1>1, <1>4, <2>1 DEF Orphaned
  <2> QED BY <1>1, <1>2, <1>4, <2>1 DEF CountersInv, StallsAreCrashes
<1>9. FailedEntryMeansTerminal' BY <1>1, <1>4 DEF CountersInv, FailedEntryMeansTerminal
<1> QED BY <1>6, <1>7, <1>8, <1>9 DEF CountersInv

LEMMA CountersStep ==
  ASSUME TypeOK, TypeOK', CountersMayAgree, CountersInv, [Next]_vars
  PROVE  CountersInv'
<1>1. faults \in Nat /\ faults <= MaxFaults
  BY DEF TypeOK, CountersInv, StallsAreCrashes
<1>2. ASSUME NEW p \in Publishers, NEW j \in Jobs, CreateJob(p, j) PROVE CountersInv'
  <2>1. UNCHANGED <<handler, entry, faults>>
        /\ (\A k \in Jobs : outbox'[k] = outbox[k] \/ outbox[k].status \in {"ABSENT", "PENDING"})
    BY <1>2 DEF CreateJob, TypeOK
  <2> QED BY <1>1, <2>1, CountersQuiet
<1>3. ASSUME NEW p \in Publishers, Recover(p) \/ PublisherStep(p) PROVE CountersInv'
  <2>1. UNCHANGED <<handler, faults>>
    BY <1>3 DEF Recover, PublisherStep, PublishFind, PublishAdd, PublishMark
  <2>2. \A k \in Jobs : outbox'[k] = outbox[k] \/ outbox[k].status \in {"ABSENT", "PENDING"}
    BY <1>3 DEF Recover, PublisherStep, PublishFind, PublishAdd, PublishMark, MarkQueued, TypeOK
  <2>3. \A k \in Jobs : entry'[k] = entry[k] \/ (entry[k].state = "none" /\ entry'[k] = NewEntry)
    BY <1>3 DEF Recover, PublisherStep, PublishFind, PublishAdd, PublishMark, Added, TypeOK
  <2> QED BY <1>1, <2>1, <2>2, <2>3, CountersQuiet
<1>4. ASSUME NEW w \in Workers, HandlerStep(w) PROVE CountersInv'
  BY <1>4, CountersHandler, CountersSettle DEF HandlerStep
<1>5. CASE OtherJobCompletes
  <2>1. UNCHANGED <<handler, outbox, faults>>
    BY <1>5 DEF OtherJobCompletes
  <2>2. \A k \in Jobs : entry'[k] = entry[k] \/ (entry[k].state = "completed" /\ entry'[k] = NoEntry)
    BY <1>5, TrimmedEntries DEF OtherJobCompletes
  <2> QED BY <1>1, <2>1, <2>2, CountersQuiet
<1>6. CASE Tick \/ UNCHANGED vars
  <2>1. UNCHANGED <<handler, outbox, entry, faults>> BY <1>6 DEF Tick, vars
  <2> QED BY <1>1, <2>1, CountersQuiet
<1>7. CASE FaultStep
  <2>1. ASSUME NEW p \in Publishers, PublishAddFails(p) \/ PublishDbFails(p) \/ PublisherCrash(p)
        PROVE  CountersInv'
    <3>1. UNCHANGED <<handler, outbox>> /\ faults' = faults + 1 /\ faults < MaxFaults
      BY <2>1 DEF PublishAddFails, PublishDbFails, PublisherCrash, Fault
    <3>2. \A k \in Jobs : entry'[k] = entry[k] \/ (entry[k].state = "none" /\ entry'[k] = NewEntry)
      BY <2>1 DEF PublishAddFails, PublishDbFails, PublisherCrash, Added, TypeOK
    <3> QED BY <1>1, <3>1, <3>2, CountersQuiet
  <2>2. ASSUME NEW w \in Workers, WorkerCrash(w) PROVE CountersInv'
    BY <2>2, CountersCrash
  <2>3. CASE QueueLoss
    <3>1. UNCHANGED <<handler, outbox>> /\ faults' = faults + 1 /\ faults < MaxFaults
          /\ "loss" \in FaultKinds /\ entry' = [j \in Jobs |-> NoEntry]
      BY <2>3 DEF QueueLoss, Fault
    <3>2. \A k \in Jobs : entry'[k] = NoEntry BY <3>1
    <3> QED BY <1>1, <3>1, <3>2, CountersQuiet
  <2>4. ASSUME NEW w \in Workers, HandlerDbFails(w) PROVE FALSE
    BY <2>4 DEF HandlerDbFails, Fault, CountersMayAgree
  <2>5. ASSUME NEW j \in Jobs, StallLive(j) PROVE FALSE
    BY <2>5 DEF StallLive, Fault, CountersMayAgree
  <2> QED BY <1>7, <2>1, <2>2, <2>3, <2>4, <2>5 DEF FaultStep
<1> QED BY <1>2, <1>3, <1>4, <1>5, <1>6, <1>7, CountersTake, CountersStall DEF Next

(* BullMQ gives an entry up only when its row has ended, so recovery never *)
(* has to publish it again (buildQueueAddOptions keeps failed entries, so  *)
(* it could not): for any number of rows and attempts, with crashes up to  *)
(* the stalls BullMQ tolerates, and with one worker or a queue that keeps  *)
(* its data.                                                               *)
THEOREM FailedEntriesHaveEnded ==
  ASSUME CountersMayAgree PROVE Spec => []FailedEntryMeansTerminal
<1>1. Init => CountersInv
  BY DEF Init, CountersInv, HandlersHold, AttemptsCount, StallsAreCrashes,
         FailedEntryMeansTerminal, Busy, Acting, Orphaned, Idle, NoEntry
<1>2. TypeOK /\ TypeOK' /\ CountersInv /\ [Next]_vars => CountersInv'
  BY CountersStep
<1>3. CountersInv => FailedEntryMeansTerminal BY DEF CountersInv
<1> QED BY <1>1, <1>2, <1>3, TypeCorrect, PTL DEF Spec

---------------------------------------------------------------------------
(***************************************************************************)
(* AsyncOutbox implements JobLease: every step of publishers, handlers,    *)
(* queue and faults is a step of the lease or leaves it alone.             *)
(***************************************************************************)

(* A row that was not created has not been attempted. *)
AbsentIsBlank == \A j \in Jobs : outbox[j].status = "ABSENT" => outbox[j].attempts = 0

LEMMA BlankCorrect == Spec => []AbsentIsBlank
<1>1. Init => AbsentIsBlank
  BY DEF Init, AbsentIsBlank, NoRow
<1>2. TypeOK /\ AbsentIsBlank /\ [Next]_vars => AbsentIsBlank'
  <2> SUFFICES ASSUME TypeOK, AbsentIsBlank, [Next]_vars, NEW j \in Jobs,
                      outbox'[j].status = "ABSENT"
               PROVE  outbox'[j].attempts = 0
    BY DEF AbsentIsBlank
  <2>1. CASE outbox'[j] = outbox[j]
    BY <2>1 DEF AbsentIsBlank
  <2>2. CASE outbox'[j] # outbox[j]
    <3>1. PICK w \in Workers :
            \/ outbox'[j] = [status |-> "PROCESSING", attempts |-> handler[w].attempt,
                             startedAt |-> handler[w].startedAt]
            \/ outbox'[j].status # "ABSENT"
      BY <2>2, RowChange
    <3> QED
      BY <3>1
  <2> QED
    BY <2>1, <2>2
<1> QED
  BY <1>1, <1>2, TypeCorrect, PTL DEF Spec

LeaseFacts == TypeOK /\ LeaseInv /\ SuccessIsEarned /\ AbsentIsBlank

---------------------------------------------------------------------------
(* The refinement mapping *)

LEMMA PhaseOf ==
  ASSUME NEW j, outbox[j].status \in {"ABSENT"} \cup Pending \cup Terminal
  PROVE  /\ Phase(j) = "absent" <=> outbox[j].status = "ABSENT"
         /\ Phase(j) = "open" <=> outbox[j].status \in Pending
         /\ Phase(j) = "done" <=> outbox[j].status = "SUCCEEDED"
         /\ Phase(j) = "dead" <=> outbox[j].status = "DEAD_LETTER"
  BY DEF Phase, Pending, Terminal

(* The lease has one holder. *)
LEMMA SoleOwner ==
  ASSUME TypeOK, LeaseInv, NEW j \in Jobs, NEW w \in Owners(j)
  PROVE  Owners(j) = {w} /\ Holder(j) = w
<1>1. ASSUME NEW v \in Owners(j), v # w PROVE FALSE
  <2>1. handler[v].attempt < outbox[j].attempts
    BY <1>1, OwnerIsUnique DEF Owners, ActingOn
  <2>2. handler[v].attempt = outbox[j].attempts /\ outbox[j].attempts \in Nat
    BY <1>1 DEF Owners, Owned, TypeOK, Rows
  <2> QED
    BY <2>1, <2>2
<1>2. Owners(j) = {w}
  BY <1>1
<1> QED
  BY <1>2 DEF Holder

LEMMA NoOwner ==
  ASSUME NEW j, Owners(j) = {}
  PROVE  Holder(j) = NoWorker
  BY DEF Holder

(* What the lease shows of a job does not change. *)
Quiet(j) == Phase(j)' = Phase(j) /\ Owners(j)' = Owners(j)

LEMMA QuietJob ==
  ASSUME NEW j, outbox'[j] = outbox[j],
         \A v \in Workers : /\ ActingOn(v, j)' <=> ActingOn(v, j)
                            /\ ActingOn(v, j) => handler'[v].attempt = handler[v].attempt
  PROVE  Quiet(j)
<1>1. Phase(j)' = Phase(j)
  BY DEF Phase
<1>2. Owners(j)' = Owners(j)
  BY DEF Owners, Owned
<1> QED
  BY <1>1, <1>2 DEF Quiet

LEMMA QuietHolder ==
  ASSUME NEW j, Quiet(j)
  PROVE  Phase(j)' = Phase(j) /\ Holder(j)' = Holder(j)
  BY DEF Quiet, Holder

(* A step that changes nothing of any job. *)
LEMMA Unseen ==
  ASSUME \A j \in Jobs : Quiet(j), delivered' = delivered
  PROVE  UNCHANGED Lease!vars
<1>1. \A j \in Jobs : Phase(j)' = Phase(j) /\ Holder(j)' = Holder(j)
  BY QuietHolder
<1> QED
  BY <1>1 DEF Lease!vars

(* A step that no handler between its claim and its end takes part in.     *)
LEMMA Invisible ==
  ASSUME outbox' = outbox, delivered' = delivered,
         \A v \in Workers : /\ Acting(v)' <=> Acting(v)
                            /\ Acting(v) => /\ handler'[v].job = handler[v].job
                                            /\ handler'[v].attempt = handler[v].attempt
  PROVE  UNCHANGED Lease!vars
<1>1. \A j \in Jobs : Quiet(j)
  BY QuietJob DEF ActingOn
<1> QED
  BY <1>1, Unseen

---------------------------------------------------------------------------
(* The steps of the lease *)

LEMMA AcceptStep ==
  ASSUME TypeOK, NEW p \in Publishers, NEW j \in Jobs, CreateJob(p, j)
  PROVE  Lease!Next
<1>1. /\ outbox[j].status = "ABSENT" /\ outbox'[j].status = "PENDING"
      /\ \A i \in Jobs \ {j} : outbox'[i] = outbox[i]
      /\ handler' = handler /\ delivered' = delivered
  BY DEF CreateJob, TypeOK, Rows
<1>2. Phase(j) = "absent" /\ Phase(j)' = "open"
  BY <1>1 DEF Phase, Pending
<1>3. Owners(j) = {} /\ Owners(j)' = {}
  BY <1>1 DEF Owners, Owned
<1>4. \A i \in Jobs \ {j} : Phase(i)' = Phase(i) /\ Holder(i)' = Holder(i)
  BY <1>1, QuietJob, QuietHolder DEF ActingOn, Acting
<1>5. Holder(j)' = Holder(j)
  BY <1>3 DEF Holder
<1>6. Lease!Accept(j)
  BY <1>1, <1>2, <1>4, <1>5 DEF Lease!Accept
<1> QED
  BY <1>6 DEF Lease!Next

LEMMA MarkStep ==
  ASSUME TypeOK, NEW p \in Publishers, PublishMark(p)
  PROVE  UNCHANGED Lease!vars
<1>1. handler' = handler /\ delivered' = delivered
  BY DEF PublishMark
<1>2. ASSUME NEW j \in Jobs PROVE Quiet(j)
  <2>1. CASE outbox'[j] = outbox[j]
    BY <1>1, <2>1, QuietJob DEF ActingOn, Acting
  <2>2. CASE outbox'[j] # outbox[j]
    <3>1. outbox'[j] = MarkQueued(outbox[j])
      BY <2>2 DEF PublishMark, TypeOK
    <3>2. outbox[j].status = "PENDING" /\ outbox'[j].status = "QUEUED"
      BY <2>2, <3>1 DEF MarkQueued, TypeOK, Rows
    <3>3. Phase(j) = "open" /\ Phase(j)' = "open"
      BY <3>2 DEF Phase, Pending
    <3>4. Owners(j) = {} /\ Owners(j)' = {}
      BY <3>2 DEF Owners, Owned
    <3> QED
      BY <3>3, <3>4 DEF Quiet
  <2> QED
    BY <2>1, <2>2
<1> QED
  BY <1>1, <1>2, Unseen

(* A claim that finds its row claimable is a grant: the handlers still     *)
(* acting on older claims have smaller attempt numbers.                    *)
LEMMA ClaimStep ==
  ASSUME LeaseFacts, NEW w \in Workers, Claim(w)
  PROVE  [Lease!Next]_(Lease!vars)
<1> DEFINE h == handler[w]
<1> PICK j : j = h.job
  OBVIOUS
<1>1. /\ TypeOK /\ LeaseInv
      /\ h.pc = "claim" /\ j \in Jobs /\ delivered' = delivered
      /\ \A v \in Workers \ {w} : handler'[v] = handler[v]
      /\ h.attempt \in Nat /\ h.startedAt \in Nat
      /\ outbox[j] \in Rows
  BY DEF Claim, LeaseFacts, TypeOK, Handlers, Goto
<1>2. handler'[w].job = j /\ handler'[w].attempt = h.attempt /\ ~Acting(w)
  BY <1>1 DEF Claim, TypeOK, Handlers, Goto, Acting
<1>3. CASE ~Claimable(outbox[j], h.startedAt)
  <2>1. outbox' = outbox /\ ~Acting(w)'
    BY <1>1, <1>3 DEF Claim, Goto, TypeOK, Handlers, Acting
  <2> QED
    BY <1>1, <1>2, <2>1, Invisible DEF Acting
<1>4. CASE Claimable(outbox[j], h.startedAt)
  <2>1. /\ handler'[w].pc = "process"
        /\ outbox'[j] = [status |-> "PROCESSING", attempts |-> h.attempt, startedAt |-> h.startedAt]
        /\ \A i \in Jobs \ {j} : outbox'[i] = outbox[i]
    BY <1>1, <1>4 DEF Claim, Goto, TypeOK, Handlers
  <2>2. outbox[j].status \in Pending
    BY <1>4 DEF Claimable, Pending
  <2>3. Phase(j) = "open" /\ Phase(j)' = "open"
    BY <2>1, <2>2 DEF Phase, Pending
  <2>4. ASSUME NEW v \in Workers \ {w}, ActingOn(v, j) PROVE handler[v].attempt < h.attempt
    <3>1. /\ Acting(v) /\ handler[v].job = j
          /\ handler[v].attempt \in Nat /\ handler[v].startedAt \in Nat
          /\ outbox[j].attempts \in Nat /\ outbox[j].startedAt \in Nat
          /\ outbox[j].startedAt <= now /\ h.startedAt = now /\ now \in Nat
      BY <1>1, <2>4 DEF ActingOn, TypeOK, Handlers, Rows, LeaseInv, ClockBoundsClaims, ClaimIsPrompt
    <3>2. \/ /\ handler[v].startedAt = outbox[j].startedAt
             /\ Owned(outbox[j], handler[v].attempt)
          \/ handler[v].startedAt + StaleAfter <= outbox[j].startedAt
      BY <1>1, <3>1 DEF LeaseInv, OwnerOrSuperseded
    <3>3. handler[v].startedAt < h.startedAt
      BY <1>4, <3>1, <3>2, ConstantsAssumption DEF Claimable, Owned
    <3> QED
      BY <1>1, <3>1, <3>3 DEF LeaseInv, ClaimPassesActing
  <2> HIDE DEF h
  <2>5. Owners(j)' = {w}
    <3>1. w \in Owners(j)'
      BY <1>2, <2>1 DEF Owners, ActingOn, Acting, Owned
    <3>2. ASSUME NEW v \in Owners(j)', v # w PROVE FALSE
      <4>1. v \in Workers \ {w} /\ ActingOn(v, j) /\ handler'[v].attempt = h.attempt
        BY <1>1, <2>1, <3>2 DEF Owners, ActingOn, Acting, Owned
      <4>2. handler[v].attempt < h.attempt /\ handler[v].attempt = h.attempt
        BY <1>1, <2>4, <4>1
      <4> QED
        BY <1>1, <4>2
    <3> QED
      BY <3>1, <3>2
  <2>6. Holder(j)' = w
    BY <2>5 DEF Holder
  <2>7. Holder(j) # w
    <3>1. w \notin Owners(j)
      BY <1>2 DEF Owners, ActingOn
    <3> QED
      BY <3>1, ConstantsAssumption DEF Holder
  <2>8. \A i \in Jobs \ {j} : Phase(i)' = Phase(i) /\ Holder(i)' = Holder(i)
    BY <1>1, <1>2, <2>1, QuietJob, QuietHolder DEF ActingOn, Acting
  <2>9. Lease!Grant(j, w)
    BY <1>1, <2>3, <2>6, <2>7, <2>8 DEF Lease!Grant
  <2> QED
    BY <1>1, <2>9 DEF Lease!Next
<1> QED
  BY <1>3, <1>4

(* The side effect ends, whoever holds the lease. *)
LEMMA RunStep ==
  ASSUME LeaseFacts, NEW w \in Workers, Process(w)
  PROVE  [Lease!Next]_(Lease!vars)
<1> PICK j : j = handler[w].job
  OBVIOUS
<1>1. /\ TypeOK /\ LeaseInv /\ AbsentIsBlank
      /\ outbox' = outbox /\ j \in Jobs /\ Acting(w)
      /\ \A v \in Workers \ {w} : handler'[v] = handler[v]
      /\ handler'[w].pc \in {"succeed", "fail"}
      /\ handler'[w].job = j /\ handler'[w].attempt = handler[w].attempt
  BY DEF Process, LeaseFacts, TypeOK, Handlers, Goto, Acting
<1>2. \A i \in Jobs : Quiet(i)
  BY <1>1, QuietJob DEF ActingOn, Acting
<1>3. CASE delivered' = delivered
  BY <1>2, <1>3, Unseen
<1>4. CASE delivered' = delivered \cup {j}
  <2>1. \A i \in Jobs : Phase(i)' = Phase(i) /\ Holder(i)' = Holder(i)
    BY <1>2, QuietHolder
  <2>2. handler[w].attempt \in Nat /\ outbox[j] \in Rows
    BY <1>1 DEF TypeOK, Handlers
  <2>3. outbox[j].status # "ABSENT"
    BY <1>1, <2>2 DEF LeaseInv, OwnerOrSuperseded, Owned, AbsentIsBlank
  <2>4. Phase(j) # "absent"
    BY <2>2, <2>3, PhaseOf DEF Rows
  <2>5. Lease!Run(j)
    BY <1>4, <2>1, <2>4, <1>1 DEF Lease!Run
  <2> QED
    BY <1>1, <2>5 DEF Lease!Next
<1> QED
  BY <1>3, <1>4 DEF Process

(* A handler stops acting on its job.  Only the owner changes the row, and *)
(* what it writes ends the lease or gives it back.                         *)
LEMMA StopStep ==
  ASSUME LeaseFacts, NEW w \in Workers, Acting(w), ~Acting(w)',
         \A v \in Workers \ {w} : handler'[v] = handler[v],
         \A i \in Jobs \ {handler[w].job} : outbox'[i] = outbox[i],
         delivered' = delivered,
         \/ outbox'[handler[w].job] = outbox[handler[w].job]
         \/ /\ Owned(outbox[handler[w].job], handler[w].attempt)
            /\ \/ outbox'[handler[w].job].status \in {"QUEUED", "DEAD_LETTER"}
               \/ outbox'[handler[w].job].status = "SUCCEEDED" /\ handler[w].pc = "succeed"
  PROVE  [Lease!Next]_(Lease!vars)
<1> PICK j : j = handler[w].job
  OBVIOUS
<1>1. /\ TypeOK /\ LeaseInv /\ j \in Jobs
      /\ handler[w].pc = "succeed" => j \in delivered
  BY DEF LeaseFacts, TypeOK, Acting, SuccessIsEarned
<1>2. \A i \in Jobs \ {j} : Quiet(i)
  BY QuietJob DEF ActingOn, Acting
<1>3. CASE w \notin Owners(j)
  <2>1. outbox'[j] = outbox[j]
    BY <1>3 DEF Owners, ActingOn
  <2>2. Owners(j)' = Owners(j)
    BY <1>3, <2>1 DEF Owners, ActingOn, Acting, Owned
  <2>3. Quiet(j)
    BY <2>1, <2>2 DEF Quiet, Phase
  <2> QED
    BY <1>2, <2>3, Unseen
<1>4. CASE w \in Owners(j)
  <2>1. Owners(j) = {w} /\ Holder(j) = w
    BY <1>1, <1>4, SoleOwner
  <2>2. outbox[j].status = "PROCESSING"
    BY <1>4 DEF Owners, Owned
  <2>3. Phase(j) = "open"
    BY <2>2 DEF Phase, Pending
  <2>4. Owners(j)' = {}
    <3>1. CASE outbox'[j] = outbox[j]
      BY <2>1, <3>1 DEF Owners, ActingOn, Acting, Owned
    <3>2. CASE outbox'[j].status # "PROCESSING"
      BY <3>2 DEF Owners, Owned
    <3> QED
      BY <3>1, <3>2
  <2>5. Holder(j)' = NoWorker
    BY <2>4 DEF Holder
  <2>6. \A i \in Jobs \ {j} : Phase(i)' = Phase(i) /\ Holder(i)' = Holder(i)
    BY <1>2, QuietHolder
  <2>7. Holder(j) # NoWorker
    BY <2>1, ConstantsAssumption
  <2>8. CASE outbox'[j] = outbox[j] \/ outbox'[j].status = "QUEUED"
    <3>1. Phase(j)' = "open"
      BY <2>2, <2>8 DEF Phase, Pending
    <3>2. Lease!Release(j)
      BY <2>3, <2>5, <2>6, <2>7, <3>1, <1>1 DEF Lease!Release
    <3> QED
      BY <1>1, <3>2 DEF Lease!Next
  <2>9. CASE outbox'[j].status = "DEAD_LETTER"
    <3>1. Phase(j)' = "dead"
      BY <2>9 DEF Phase, Pending
    <3>2. Lease!Finish(j, w, "dead")
      BY <2>1, <2>3, <2>5, <2>6, <3>1, <1>1 DEF Lease!Finish
    <3> QED
      BY <1>1, <3>2 DEF Lease!Next
  <2>10. CASE outbox'[j].status = "SUCCEEDED" /\ handler[w].pc = "succeed"
    <3>1. Phase(j)' = "done"
      BY <2>10 DEF Phase, Pending
    <3>2. Lease!Finish(j, w, "done")
      BY <2>1, <2>3, <2>5, <2>6, <2>10, <3>1, <1>1 DEF Lease!Finish
    <3> QED
      BY <1>1, <3>2 DEF Lease!Next
  <2> QED
    BY <2>8, <2>9, <2>10
<1> QED
  BY <1>3, <1>4

LEMMA EndStep ==
  ASSUME LeaseFacts, NEW w \in Workers, Succeed(w) \/ Fail(w)
  PROVE  [Lease!Next]_(Lease!vars)
<1> DEFINE j == handler[w].job
           a == handler[w].attempt
<1>1. TypeOK /\ handler[w] \in Handlers /\ outbox \in [Jobs -> Rows]
  BY DEF LeaseFacts, TypeOK
<1>2. /\ Acting(w) /\ j \in Jobs
  BY <1>1 DEF Succeed, Fail, Acting, TypeOK
<1>3. /\ ~Acting(w)' /\ delivered' = delivered
      /\ \A v \in Workers \ {w} : handler'[v] = handler[v]
      /\ \A i \in Jobs \ {j} : outbox'[i] = outbox[i]
  BY <1>1, <1>2 DEF Succeed, Fail, Acting, Goto, TypeOK, Handlers
<1>4. CASE Succeed(w)
  <2>1. outbox'[j] = MarkSucceeded(outbox[j], a) /\ handler[w].pc = "succeed"
    BY <1>1, <1>2, <1>4 DEF Succeed
  <2>2. \/ outbox'[j] = outbox[j]
        \/ Owned(outbox[j], a) /\ outbox'[j].status = "SUCCEEDED"
    BY <1>1, <1>2, <2>1 DEF MarkSucceeded, Rows
  <2> QED
    BY <1>2, <1>3, <2>1, <2>2, StopStep
<1>5. CASE Fail(w)
  <2>1. outbox'[j] = MarkFailure(outbox[j], a)
    BY <1>1, <1>2, <1>5 DEF Fail
  <2>2. \/ outbox'[j] = outbox[j]
        \/ Owned(outbox[j], a) /\ outbox'[j].status \in {"QUEUED", "DEAD_LETTER"}
    BY <1>1, <1>2, <2>1 DEF MarkFailure, Rows
  <2> QED
    BY <1>2, <1>3, <2>2, StopStep
<1> QED
  BY <1>4, <1>5

(* A handler's step that writes no row: it ends an attempt only when the   *)
(* worker dies or the catch block fails.                                   *)
LEMMA DropStep ==
  ASSUME LeaseFacts, NEW w \in Workers,
         Find(w) \/ Settle(w) \/ HandlerDbFails(w) \/ WorkerCrash(w)
  PROVE  [Lease!Next]_(Lease!vars)
<1>1. /\ handler[w] \in Handlers /\ outbox' = outbox /\ delivered' = delivered
      /\ \A v \in Workers \ {w} : handler'[v] = handler[v]
  BY DEF LeaseFacts, TypeOK, Find, Settle, HandlerDbFails, WorkerCrash, Goto
<1>2. CASE Acting(w) /\ ~Acting(w)'
  BY <1>1, <1>2, StopStep
<1>3. Acting(w)' => /\ Acting(w)
                    /\ handler'[w].job = handler[w].job
                    /\ handler'[w].attempt = handler[w].attempt
  BY <1>1 DEF LeaseFacts, TypeOK, Find, Settle, HandlerDbFails, WorkerCrash, Goto, Acting, Handlers,
     Idle
<1>4. CASE Acting(w)' <=> Acting(w)
  BY <1>1, <1>3, <1>4, Invisible DEF Acting
<1> QED
  BY <1>2, <1>3, <1>4

(* The other steps concern publishers, the queue, the clock, or a handler  *)
(* that has not read its row yet.                                          *)
LEMMA OtherStep ==
  ASSUME TypeOK,
         \/ \E p \in Publishers : \/ Recover(p) \/ PublishFind(p) \/ PublishAdd(p)
                                  \/ PublishAddFails(p) \/ PublishDbFails(p) \/ PublisherCrash(p)
         \/ \E w \in Workers, j \in Jobs : Take(w, j)
         \/ \E j \in Jobs : StallDead(j) \/ StallLive(j)
         \/ OtherJobCompletes \/ QueueLoss \/ Tick \/ UNCHANGED vars
  PROVE  UNCHANGED Lease!vars
<1>1. CASE UNCHANGED <<outbox, handler, delivered>>
  BY <1>1, Invisible DEF Acting
<1>2. ASSUME NEW w \in Workers, NEW j \in Jobs, Take(w, j) PROVE UNCHANGED Lease!vars
  <2>1. /\ outbox' = outbox /\ delivered' = delivered
        /\ ~Acting(w) /\ ~Acting(w)'
        /\ \A v \in Workers \ {w} : handler'[v] = handler[v]
    BY <1>2 DEF Take, Acting, TypeOK, Handlers, Idle
  <2> QED
    BY <2>1, Invisible DEF Acting
<1> QED
  BY <1>1, <1>2 DEF Recover, PublishFind, PublishAdd, PublishAddFails, PublishDbFails, PublisherCrash,
     StallDead, OtherJobCompletes, StallLive, QueueLoss, Tick, vars

---------------------------------------------------------------------------
(* The outbox, its queue, its publishers and its workers are a lease, for  *)
(* any number of them and with all kinds of fault: one holder at a time,   *)
(* who alone decides how the job goes on, an end that is final, and no     *)
(* success without the side effect.                                        *)
THEOREM OutboxImplementsLease == Spec => ImplementsLease
<1>1. Init => Lease!Init
  <2> SUFFICES ASSUME Init PROVE Lease!Init
    OBVIOUS
  <2>1. \A j \in Jobs : Phase(j) = "absent"
    <3>1. \A j \in Jobs : outbox[j].status = "ABSENT"
      BY DEF Init, NoRow
    <3> QED
      BY <3>1, PhaseOf
  <2>2. \A j \in Jobs : Owners(j) = {}
    BY DEF Init, Owners, Owned, NoRow
  <2>3. \A j \in Jobs : Holder(j) = NoWorker
    BY <2>2, NoOwner
  <2> QED
    BY <2>1, <2>3 DEF Lease!Init, Init
<1>2. LeaseFacts /\ [Next]_vars => [Lease!Next]_(Lease!vars)
  <2> SUFFICES ASSUME LeaseFacts, [Next]_vars PROVE [Lease!Next]_(Lease!vars)
    OBVIOUS
  <2>1. TypeOK
    BY DEF LeaseFacts
  <2>2. ASSUME NEW p \in Publishers, NEW j \in Jobs, CreateJob(p, j) PROVE Lease!Next
    BY <2>1, <2>2, AcceptStep
  <2>3. ASSUME NEW p \in Publishers, PublishMark(p) PROVE UNCHANGED Lease!vars
    BY <2>1, <2>3, MarkStep
  <2>4. ASSUME NEW w \in Workers, Claim(w) PROVE [Lease!Next]_(Lease!vars)
    BY <2>4, ClaimStep
  <2>5. ASSUME NEW w \in Workers, Process(w) PROVE [Lease!Next]_(Lease!vars)
    BY <2>5, RunStep
  <2>6. ASSUME NEW w \in Workers, Succeed(w) \/ Fail(w) PROVE [Lease!Next]_(Lease!vars)
    BY <2>6, EndStep
  <2>7. ASSUME NEW w \in Workers, Find(w) \/ Settle(w) \/ HandlerDbFails(w) \/ WorkerCrash(w)
        PROVE  [Lease!Next]_(Lease!vars)
    BY <2>7, DropStep
  <2>8. CASE \/ \E p \in Publishers : \/ Recover(p) \/ PublishFind(p) \/ PublishAdd(p)
                                      \/ PublishAddFails(p) \/ PublishDbFails(p)
                                      \/ PublisherCrash(p)
             \/ \E w \in Workers, j \in Jobs : Take(w, j)
             \/ \E j \in Jobs : StallDead(j) \/ StallLive(j)
             \/ OtherJobCompletes \/ QueueLoss \/ Tick \/ UNCHANGED vars
    BY <2>1, <2>8, OtherStep
  <2> QED
    BY <2>2, <2>3, <2>4, <2>5, <2>6, <2>7, <2>8 DEF Next, PublisherStep, HandlerStep, FaultStep
<1>3. Spec => []LeaseFacts
  BY TypeCorrect, LeaseCorrect, EarnedCorrect, BlankCorrect, PTL DEF LeaseFacts
<1> QED
  BY <1>1, <1>2, <1>3, PTL DEF Spec, ImplementsLease, Lease!Spec
=============================================================================
