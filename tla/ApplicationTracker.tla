------------------------- MODULE ApplicationTracker -------------------------
(***************************************************************************)
(* The application tracker of one user: application_records and their      *)
(* application_status_histories (applications).                            *)
(*                                                                         *)
(* No handler uses a transaction: a creation and a status change write the *)
(* record first and its history entry afterwards, and a status change is   *)
(* validated against a status read earlier.  Each await is a step, so that *)
(* handlers of the same user interleave.  Notes, the PATCH that changes    *)
(* them, and the list that searches them are in JobBoard; the source of a  *)
(* record is stored and returned, and decides nothing.                     *)
(***************************************************************************)
EXTENDS Naturals, Sequences, FiniteSets

CONSTANTS Applications,  \* record ids
          Jobs,          \* job listings
          Requests,      \* slots of concurrently running handlers
          MaxHistory,    \* bound on the entries of one record
          MaxFaults,     \* failed history inserts and crashes
          NoJob, NoApplication, NoStatus

Statuses == {"APPLIED", "INTERVIEW", "REJECTED", "ACCEPTED"}

ASSUME TrackerConstants ==
    /\ MaxHistory \in Nat
    /\ MaxFaults \in Nat
    /\ NoJob \notin Jobs
    /\ NoApplication \notin Applications
    /\ NoStatus \notin Statuses

VARIABLES hidden,      \* jobs whose status is HIDDEN
          record,      \* [Applications -> Record \cup {NoRecord}]
          history,     \* [Applications -> Seq(Entry)], in createdAt order
          request,     \* [Requests -> Request]
          overlapped,  \* records two handlers have worked on at once
          broken,      \* records left without a history entry
          faults

vars == <<hidden, record, history, request, overlapped, broken, faults>>

NoRecord == [job |-> NoJob, status |-> NoStatus]
Record == [job : Jobs, status : Statuses]

Entry == [from : Statuses \cup {NoStatus}, to : Statuses]

Idle == [at |-> "idle", job |-> NoJob, app |-> NoApplication,
         from |-> NoStatus, to |-> "APPLIED"]
Inserting == [at : {"insert"}, job : Jobs, app : {NoApplication},
              from : {NoStatus}, to : {"APPLIED"}]
Writing == [at : {"write"}, job : {NoJob}, app : Applications,
            from : Statuses, to : Statuses]
Appending == [at : {"append"}, job : {NoJob}, app : Applications,
              from : Statuses \cup {NoStatus}, to : Statuses]
Request == {Idle} \cup Inserting \cup Writing \cup Appending

Init ==
    /\ hidden = {}
    /\ record = [a \in Applications |-> NoRecord]
    /\ history = [a \in Applications |-> << >>]
    /\ request = [r \in Requests |-> Idle]
    /\ overlapped = {}
    /\ broken = {}
    /\ faults = 0

----------------------------------------------------------------------------
allowedStatusTransitions ==
    [APPLIED   |-> {"INTERVIEW", "REJECTED", "ACCEPTED"},
     INTERVIEW |-> {"REJECTED", "ACCEPTED", "APPLIED"},
     REJECTED  |-> {"APPLIED", "INTERVIEW", "ACCEPTED"},
     ACCEPTED  |-> {"APPLIED", "INTERVIEW", "REJECTED"}]

canTransition(fromStatus, toStatus) ==
    toStatus \in allowedStatusTransitions[fromStatus]

Tracked == {a \in Applications : record[a] # NoRecord}
TrackedJob(j) == \E a \in Tracked : record[a].job = j
AtWorkOn(a) == {r \in Requests : request[r].app = a}

Finish(r) == request' = [request EXCEPT ![r] = Idle]

(* The handlers on a now: r and those before it overlap. *)
Join(r, a) ==
    overlapped' = IF AtWorkOn(a) \ {r} # {} THEN overlapped \cup {a}
                  ELSE overlapped

----------------------------------------------------------------------------
(* createApplication: the job must not be hidden, the user must not track  *)
(* it yet; then the record is inserted, and then its first entry.          *)
CreateApplication(r, j) ==
    /\ request[r].at = "idle"
    /\ j \notin hidden
    /\ ~TrackedJob(j)
    /\ request' = [request EXCEPT ![r] =
          [at |-> "insert", job |-> j, app |-> NoApplication,
           from |-> NoStatus, to |-> "APPLIED"]]
    /\ UNCHANGED <<hidden, record, history, overlapped, broken, faults>>

(* application_records_user_job_listing_unique *)
UniqueUserJob(j) == ~TrackedJob(j)

(* Regression: a created record has no entry. *)
CreatedUnlogged(r, a) == Idle
Created(r, a) ==
    [at |-> "append", job |-> NoJob, app |-> a,
     from |-> NoStatus, to |-> request[r].to]

Insert(r, a) ==
    /\ request[r].at = "insert"
    /\ a \notin Tracked
    /\ UniqueUserJob(request[r].job)
    /\ record' = [record EXCEPT ![a] =
                     [job |-> request[r].job, status |-> request[r].to]]
    /\ request' = [request EXCEPT ![r] = Created(r, a)]
    /\ UNCHANGED <<hidden, history, overlapped, broken, faults>>

InsertConflicts(r) ==
    /\ request[r].at = "insert"
    /\ ~UniqueUserJob(request[r].job)
    /\ Finish(r)
    /\ UNCHANGED <<hidden, record, history, overlapped, broken, faults>>

(* Regression: the transition is not checked. *)
UpdateUnchecked(r, a, to) ==
    /\ request[r].at = "idle"
    /\ a \in Tracked
    /\ Len(history[a]) + Cardinality(AtWorkOn(a)) < MaxHistory
    /\ request' = [request EXCEPT ![r] =
          [at |-> "write", job |-> NoJob, app |-> a,
           from |-> record[a].status, to |-> to]]
    /\ Join(r, a)
    /\ UNCHANGED <<hidden, record, history, broken, faults>>

(* updateApplicationStatus: load, validate. *)
UpdateApplicationStatus(r, a, to) ==
    /\ request[r].at = "idle"
    /\ a \in Tracked
    /\ canTransition(record[a].status, to)
    /\ Len(history[a]) + Cardinality(AtWorkOn(a)) < MaxHistory
    /\ request' = [request EXCEPT ![r] =
          [at |-> "write", job |-> NoJob, app |-> a,
           from |-> record[a].status, to |-> to]]
    /\ Join(r, a)
    /\ UNCHANGED <<hidden, record, history, broken, faults>>

(* updateMany names the record and its owner, not the status it had. *)
WriteStatus(r) ==
    /\ request[r].at = "write"
    /\ record' = [record EXCEPT ![request[r].app].status = request[r].to]
    /\ request' = [request EXCEPT ![r] =
          [at |-> "append", job |-> NoJob, app |-> request[r].app,
           from |-> request[r].from, to |-> request[r].to]]
    /\ UNCHANGED <<hidden, history, overlapped, broken, faults>>

(* Regression: the previous status is read again for the entry. *)
AppendReread(r) ==
    /\ request[r].at = "append"
    /\ history' = [history EXCEPT ![request[r].app] =
          Append(@, [from |-> record[request[r].app].status,
                     to |-> request[r].to])]
    /\ Finish(r)
    /\ UNCHANGED <<hidden, record, overlapped, broken, faults>>

AppendHistory(r) ==
    /\ request[r].at = "append"
    /\ history' = [history EXCEPT ![request[r].app] =
          Append(@, [from |-> request[r].from, to |-> request[r].to])]
    /\ Finish(r)
    /\ UNCHANGED <<hidden, record, overlapped, broken, faults>>

(* A statement fails, or the process dies: the handler ends where it is,   *)
(* and an entry still to be made is never made.                            *)
Break(r) ==
    /\ request[r].at # "idle"
    /\ faults < MaxFaults
    /\ faults' = faults + 1
    /\ broken' = IF request[r].at = "append" THEN broken \cup {request[r].app}
                 ELSE broken
    /\ Finish(r)
    /\ UNCHANGED <<hidden, record, history, overlapped>>

(* The scraper hides a job, or shows it again. *)
Hide(j) ==
    /\ hidden' = IF j \in hidden THEN hidden \ {j} ELSE hidden \cup {j}
    /\ UNCHANGED <<record, history, request, overlapped, broken, faults>>

Next ==
    \/ \E r \in Requests :
          \/ \E j \in Jobs : CreateApplication(r, j)
          \/ \E a \in Applications :
                \/ Insert(r, a)
                \/ \E to \in Statuses : UpdateApplicationStatus(r, a, to)
          \/ InsertConflicts(r) \/ WriteStatus(r) \/ AppendHistory(r)
          \/ Break(r)
    \/ \E j \in Jobs : Hide(j)

Spec == Init /\ [][Next]_vars

----------------------------------------------------------------------------
(* Properties. *)

(* Every variable keeps its shape. *)
TypeOK ==
    /\ hidden \subseteq Jobs
    /\ record \in [Applications -> Record \cup {NoRecord}]
    /\ history \in [Applications -> Seq(Entry)]
    /\ request \in [Requests -> Request]
    /\ overlapped \subseteq Applications
    /\ broken \subseteq Applications
    /\ faults \in 0..MaxFaults

(* The user tracks a job at most once, however creations race between the  *)
(* duplicate test and the insert.                                          *)
OneRecordPerJob ==
    \A a, b \in Tracked : record[a].job = record[b].job => a = b

(* The history of a record reads as one chain of its statuses: it starts   *)
(* with the creation, each entry starts where the one before ended, and    *)
(* the last one ends in the status given.                                  *)
Chain(h, status) ==
    /\ h # << >>
    /\ h[1].from = NoStatus
    /\ \A i \in 1..(Len(h) - 1) : h[i + 1].from = h[i].to
    /\ h[Len(h)].to = status

(* A record whose handlers ran one at a time and to their end has a        *)
(* complete history that ends in its status.                               *)
SequentialHistory ==
    \A a \in Tracked \ (overlapped \cup broken) :
       AtWorkOn(a) = {} => Chain(history[a], record[a].status)

(* However handlers interleave, an entry is the creation or a transition   *)
(* the policy allows (applications.md:96).                                 *)
EntriesAreAllowed ==
    \A a \in Applications : \A i \in DOMAIN history[a] :
       LET e == history[a][i] IN
       IF e.from = NoStatus THEN e.to = "APPLIED" ELSE canTransition(e.from, e.to)

(* While no handler failed on a record, its status was entered in the      *)
(* history, or the handler that wrote it is about to enter it.             *)
StatusIsOnRecord ==
    \A a \in Tracked \ broken :
       \/ \E i \in DOMAIN history[a] : history[a][i].to = record[a].status
       \/ \E r \in AtWorkOn(a) : /\ request[r].at = "append"
                                 /\ request[r].to = record[a].status

(* The history is the audit trail of the status (docs/database.md:118):    *)
(* when no handler is at work, its last entry is the present status.       *)
LastEntryIsStatus ==
    \A a \in Tracked :
       AtWorkOn(a) = {} => /\ history[a] # << >>
                           /\ history[a][Len(history[a])].to = record[a].status

(* The record and its entry belong together                                *)
(* (docs/operations/security.md:230): when no handler is at work, the      *)
(* status of a record is one its history has an entry for, also after a    *)
(* handler failed.                                                         *)
EveryStatusIsEntered ==
    \A a \in Tracked :
       AtWorkOn(a) = {} => \E i \in DOMAIN history[a] :
                              history[a][i].to = record[a].status

============================================================================
