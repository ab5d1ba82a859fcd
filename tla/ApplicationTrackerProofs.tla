----------------------- MODULE ApplicationTrackerProofs ----------------------
(***************************************************************************)
(* TLAPS proofs about ApplicationTracker, for any number of records, jobs  *)
(* and handlers, any bound on the histories and any number of faults.      *)
(***************************************************************************)
EXTENDS ApplicationTracker, TLAPS

---------------------------------------------------------------------------
(* The inductive invariant *)

(* A handler works on a record that exists. *)
WorkIsTracked ==
    \A r \in Requests : request[r].app # NoApplication => request[r].app \in Tracked

(* The entry a handler is going to make is the creation or an allowed      *)
(* transition.                                                             *)
AllowedEntry(from, to) ==
    IF from = NoStatus THEN to = "APPLIED" ELSE canTransition(from, to)
PlannedEntriesAreAllowed ==
    \A r \in Requests : request[r].at \in {"write", "append"} =>
       AllowedEntry(request[r].from, request[r].to)

(* A record without an overlap has one handler at most. *)
OneHandler ==
    \A a \in Applications \ overlapped : \A r, q \in AtWorkOn(a) : r = q

(* Nothing is entered for a record that does not exist. *)
NoEarlyHistory ==
    \A a \in Applications \ Tracked : history[a] = << >>

(* How far the record and its history are apart: not at all when nobody is *)
(* at work, by one entry when the status is written and not yet entered.   *)
HalfDone(a, r) ==
    \/ /\ request[r].at = "write"
       /\ request[r].from = record[a].status
       /\ Chain(history[a], record[a].status)
    \/ /\ request[r].at = "append"
       /\ request[r].to = record[a].status
       /\ \/ request[r].from = NoStatus /\ history[a] = << >>
          \/ Chain(history[a], request[r].from)
InStep(a) ==
    /\ AtWorkOn(a) = {} => Chain(history[a], record[a].status)
    /\ \A r \in AtWorkOn(a) : HalfDone(a, r)
UndisturbedInStep ==
    \A a \in Tracked \ (overlapped \cup broken) : InStep(a)

TrackerInv ==
    /\ TypeOK
    /\ WorkIsTracked
    /\ OneRecordPerJob
    /\ PlannedEntriesAreAllowed
    /\ EntriesAreAllowed
    /\ StatusIsOnRecord
    /\ OneHandler
    /\ NoEarlyHistory
    /\ UndisturbedInStep

---------------------------------------------------------------------------
(* Types *)

(* What a handler's place says of the rest of it. *)
LEMMA RequestShape ==
  ASSUME TypeOK, NEW r \in Requests
  PROVE  /\ request[r] \in Request
         /\ request[r].at \in {"idle", "insert", "write", "append"}
         /\ request[r].at = "idle" => request[r] = Idle
         /\ request[r].at = "insert" => request[r] \in Inserting
         /\ request[r].at = "write" => request[r] \in Writing
         /\ request[r].at = "append" => request[r] \in Appending
         /\ request[r].app # NoApplication =>
               /\ request[r].at \in {"write", "append"}
               /\ request[r].app \in Applications
BY TrackerConstants DEF TypeOK, Request, Idle, Inserting, Writing, Appending

LEMMA TypeInit == Init => TypeOK
BY TrackerConstants DEF Init, TypeOK, Request

LEMMA TypeStep == TypeOK /\ WorkIsTracked /\ [Next]_vars => TypeOK'
<1> SUFFICES ASSUME TypeOK, WorkIsTracked, [Next]_vars PROVE TypeOK'
  OBVIOUS
<1>1. ASSUME NEW r \in Requests, NEW j \in Jobs, CreateApplication(r, j) PROVE TypeOK'
  BY <1>1 DEF TypeOK, CreateApplication, Request, Inserting
<1>2. ASSUME NEW r \in Requests, NEW a \in Applications, Insert(r, a) PROVE TypeOK'
  <2>1. request[r] \in Inserting
    BY <1>2, RequestShape DEF Insert
  <2>2. Created(r, a) \in Request
    BY <2>1 DEF Created, Request, Appending, Inserting, Statuses
  <2>3. [job |-> request[r].job, status |-> request[r].to] \in Record
    BY <2>1 DEF Record, Inserting, Statuses
  <2> QED
    BY <1>2, <2>2, <2>3 DEF TypeOK, Insert
<1>3. ASSUME NEW r \in Requests, InsertConflicts(r) PROVE TypeOK'
  BY <1>3 DEF TypeOK, InsertConflicts, Finish, Request
<1>4. ASSUME NEW r \in Requests, NEW a \in Applications, NEW to \in Statuses,
             UpdateApplicationStatus(r, a, to)
      PROVE  TypeOK'
  <2>1. record[a].status \in Statuses
    BY <1>4 DEF TypeOK, UpdateApplicationStatus, Tracked, Record
  <2>2. [at |-> "write", job |-> NoJob, app |-> a,
         from |-> record[a].status, to |-> to] \in Request
    BY <2>1 DEF Request, Writing
  <2>3. request' \in [Requests -> Request]
    BY <1>4, <2>2 DEF TypeOK, UpdateApplicationStatus
  <2> QED
    BY <1>4, <2>3 DEF TypeOK, UpdateApplicationStatus, Join
<1>5. ASSUME NEW r \in Requests, WriteStatus(r) PROVE TypeOK'
  <2>1. request[r] \in Writing /\ request[r].app # NoApplication
    BY <1>5, RequestShape, TrackerConstants DEF WriteStatus, Writing
  <2>2. record[request[r].app] \in Record
    BY <2>1 DEF WorkIsTracked, Tracked, TypeOK
  <2>3. [record[request[r].app] EXCEPT !.status = request[r].to] \in Record
    BY <2>1, <2>2 DEF Record, Writing
  <2>4. [at |-> "append", job |-> NoJob, app |-> request[r].app,
         from |-> request[r].from, to |-> request[r].to] \in Request
    BY <2>1 DEF Request, Appending, Writing
  <2> QED
    BY <1>5, <2>3, <2>4 DEF TypeOK, WriteStatus
<1>6. ASSUME NEW r \in Requests, AppendHistory(r) PROVE TypeOK'
  <2>1. request[r] \in Appending
    BY <1>6, RequestShape DEF AppendHistory
  <2>2. [from |-> request[r].from, to |-> request[r].to] \in Entry
    BY <2>1 DEF Entry, Appending
  <2>3. history[request[r].app] \in Seq(Entry)
    BY <2>1 DEF TypeOK, Appending
  <2>4. Append(history[request[r].app],
               [from |-> request[r].from, to |-> request[r].to]) \in Seq(Entry)
    BY <2>2, <2>3
  <2>5. history' \in [Applications -> Seq(Entry)]
    BY <1>6, <2>4 DEF TypeOK, AppendHistory
  <2> QED
    BY <1>6, <2>5 DEF TypeOK, AppendHistory, Finish, Request
<1>7. ASSUME NEW r \in Requests, Break(r) PROVE TypeOK'
  <2>1. request[r].at = "append" => request[r].app \in Applications
    BY RequestShape DEF Appending
  <2>2. faults' \in 0..MaxFaults
    BY <1>7, TrackerConstants DEF TypeOK, Break
  <2> QED
    BY <1>7, <2>1, <2>2 DEF TypeOK, Break, Finish, Request
<1>8. ASSUME NEW j \in Jobs, Hide(j) PROVE TypeOK'
  BY <1>8 DEF TypeOK, Hide
<1>9. ASSUME UNCHANGED vars PROVE TypeOK'
  BY <1>9 DEF TypeOK, vars
<1> QED
  BY <1>1, <1>2, <1>3, <1>4, <1>5, <1>6, <1>7, <1>8, <1>9 DEF Next

---------------------------------------------------------------------------
(* Who works on what *)

LEMMA TrackedAfterInsert ==
  ASSUME TypeOK, NEW r \in Requests, NEW a \in Applications, Insert(r, a)
  PROVE  /\ Tracked' = Tracked \cup {a}
         /\ record'[a].job = request[r].job
         /\ record'[a].status = "APPLIED"
         /\ \A b \in Applications \ {a} : record'[b] = record[b]
         /\ request[r].job \in Jobs
<1>1. request[r] \in Inserting
  BY RequestShape DEF Insert
<1>2. record' = [record EXCEPT ![a] = [job |-> request[r].job, status |-> "APPLIED"]]
  BY <1>1 DEF Insert, Inserting
<1>3. [job |-> request[r].job, status |-> "APPLIED"] # NoRecord
  BY <1>1, TrackerConstants DEF NoRecord, Inserting
<1> QED
  BY <1>1, <1>2, <1>3 DEF TypeOK, Tracked, Inserting

LEMMA TrackedAfterWrite ==
  ASSUME TypeOK, WorkIsTracked, NEW r \in Requests, WriteStatus(r)
  PROVE  /\ Tracked' = Tracked
         /\ request[r] \in Writing
         /\ request[r].app \in Tracked
         /\ record'[request[r].app].status = request[r].to
         /\ \A b \in Applications : record'[b].job = record[b].job
         /\ \A b \in Applications \ {request[r].app} : record'[b] = record[b]
<1> DEFINE a == request[r].app
<1>1. request[r] \in Writing /\ a # NoApplication
  BY RequestShape, TrackerConstants DEF WriteStatus, Writing
<1>2. a \in Tracked /\ record[a] \in Record
  BY <1>1 DEF WorkIsTracked, Tracked, TypeOK
<1>3. /\ record' \in [Applications -> Record \cup {NoRecord}]
      /\ record'[a].status = request[r].to
      /\ record'[a].job = record[a].job
      /\ \A b \in Applications \ {a} : record'[b] = record[b]
  BY <1>1, <1>2, TypeStep DEF TypeOK, WriteStatus, Next, Record, Writing, Tracked
<1>4. record'[a] # NoRecord
  BY <1>2, <1>3, TrackerConstants DEF NoRecord, Record
<1>5. Tracked' = Tracked
  BY <1>2, <1>3, <1>4 DEF Tracked
<1> QED
  BY <1>1, <1>2, <1>3, <1>5

(* A handler keeps its record until it ends, and the record stays. *)
LEMMA WorkStep == TypeOK /\ WorkIsTracked /\ [Next]_vars => WorkIsTracked'
<1> SUFFICES ASSUME TypeOK, WorkIsTracked, [Next]_vars PROVE WorkIsTracked'
  OBVIOUS
<1>1. ASSUME NEW r \in Requests, NEW j \in Jobs, CreateApplication(r, j) PROVE WorkIsTracked'
  BY <1>1 DEF TypeOK, CreateApplication, WorkIsTracked, Tracked
<1>2. ASSUME NEW r \in Requests, NEW a \in Applications, Insert(r, a) PROVE WorkIsTracked'
  BY <1>2, TrackedAfterInsert DEF TypeOK, Insert, Created, WorkIsTracked
<1>3. ASSUME NEW r \in Requests, InsertConflicts(r) PROVE WorkIsTracked'
  BY <1>3 DEF TypeOK, InsertConflicts, Finish, Idle, WorkIsTracked, Tracked
<1>4. ASSUME NEW r \in Requests, NEW a \in Applications, NEW to \in Statuses,
             UpdateApplicationStatus(r, a, to)
      PROVE  WorkIsTracked'
  BY <1>4 DEF TypeOK, UpdateApplicationStatus, WorkIsTracked, Tracked
<1>5. ASSUME NEW r \in Requests, WriteStatus(r) PROVE WorkIsTracked'
  BY <1>5, TrackedAfterWrite DEF TypeOK, WriteStatus, WorkIsTracked
<1>6. ASSUME NEW r \in Requests, AppendHistory(r) \/ Break(r) PROVE WorkIsTracked'
  <2>1. record' = record /\ request' = [request EXCEPT ![r] = Idle]
    BY <1>6 DEF AppendHistory, Break, Finish
  <2>2. Tracked' = Tracked
    BY <2>1 DEF Tracked
  <2>3. \A q \in Requests : request'[q].app \in {request[q].app, NoApplication}
    BY <2>1 DEF TypeOK, Idle
  <2> QED
    BY <2>2, <2>3 DEF WorkIsTracked
<1>7. ASSUME NEW j \in Jobs, Hide(j) PROVE WorkIsTracked'
  BY <1>7 DEF Hide, WorkIsTracked, Tracked
<1>8. ASSUME UNCHANGED vars PROVE WorkIsTracked'
  BY <1>8 DEF vars, WorkIsTracked, Tracked
<1> QED
  BY <1>1, <1>2, <1>3, <1>4, <1>5, <1>6, <1>7, <1>8 DEF Next

---------------------------------------------------------------------------
(* One record per job *)

LEMMA OneRecordStep ==
  TypeOK /\ WorkIsTracked /\ OneRecordPerJob /\ [Next]_vars => OneRecordPerJob'
<1> SUFFICES ASSUME TypeOK, WorkIsTracked, OneRecordPerJob, [Next]_vars
             PROVE  OneRecordPerJob'
  OBVIOUS
<1>1. ASSUME NEW r \in Requests, NEW a \in Applications, Insert(r, a) PROVE OneRecordPerJob'
  <2>1. \A b \in Tracked : record[b].job # request[r].job /\ b # a
    BY <1>1 DEF Insert, UniqueUserJob, TrackedJob
  <2>2. Tracked \subseteq Applications
    BY DEF Tracked
  <2>3. /\ Tracked' = Tracked \cup {a}
        /\ record'[a].job = request[r].job
        /\ \A b \in Applications \ {a} : record'[b] = record[b]
    BY <1>1, TrackedAfterInsert
  <2>4. \A b \in Tracked : record'[b] = record[b]
    BY <2>1, <2>2, <2>3
  <2>5. \A b, c \in Tracked' : record'[b].job = record'[c].job => b = c
    BY <2>1, <2>3, <2>4 DEF OneRecordPerJob
  <2> QED
    BY <2>5 DEF OneRecordPerJob
<1>2. ASSUME NEW r \in Requests, WriteStatus(r) PROVE OneRecordPerJob'
  BY <1>2, TrackedAfterWrite DEF OneRecordPerJob, Tracked
<1>3. CASE record' = record
  BY <1>3 DEF OneRecordPerJob, Tracked
<1> QED
  BY <1>1, <1>2, <1>3
     DEF Next, CreateApplication, InsertConflicts, UpdateApplicationStatus,
         AppendHistory, Break, Hide, vars

---------------------------------------------------------------------------
(* Entries *)

LEMMA PlannedStep ==
  TypeOK /\ PlannedEntriesAreAllowed /\ [Next]_vars => PlannedEntriesAreAllowed'
<1> SUFFICES ASSUME TypeOK, PlannedEntriesAreAllowed, [Next]_vars
             PROVE  PlannedEntriesAreAllowed'
  OBVIOUS
<1>1. ASSUME NEW r \in Requests, NEW j \in Jobs, CreateApplication(r, j)
      PROVE  PlannedEntriesAreAllowed'
  BY <1>1 DEF TypeOK, CreateApplication, PlannedEntriesAreAllowed
<1>2. ASSUME NEW r \in Requests, NEW a \in Applications, Insert(r, a)
      PROVE  PlannedEntriesAreAllowed'
  <2>1. request[r].to = "APPLIED"
    BY <1>2, RequestShape DEF Insert, Inserting
  <2> QED
    BY <1>2, <2>1 DEF TypeOK, Insert, Created, PlannedEntriesAreAllowed, AllowedEntry
<1>3. ASSUME NEW r \in Requests, NEW a \in Applications, NEW to \in Statuses,
             UpdateApplicationStatus(r, a, to)
      PROVE  PlannedEntriesAreAllowed'
  <2>1. record[a].status # NoStatus /\ canTransition(record[a].status, to)
    BY <1>3, TrackerConstants DEF TypeOK, UpdateApplicationStatus, Tracked, Record
  <2>2. AllowedEntry(record[a].status, to)
    BY <2>1 DEF AllowedEntry
  <2> QED
    BY <1>3, <2>2 DEF TypeOK, UpdateApplicationStatus, PlannedEntriesAreAllowed
<1>4. ASSUME NEW r \in Requests, WriteStatus(r) PROVE PlannedEntriesAreAllowed'
  BY <1>4 DEF TypeOK, WriteStatus, PlannedEntriesAreAllowed
<1>5. ASSUME NEW r \in Requests, InsertConflicts(r) \/ AppendHistory(r) \/ Break(r)
      PROVE  PlannedEntriesAreAllowed'
  <2>1. request' = [request EXCEPT ![r] = Idle]
    BY <1>5 DEF InsertConflicts, AppendHistory, Break, Finish
  <2>2. Idle.at \notin {"write", "append"}
    BY DEF Idle
  <2>3. \A q \in Requests : request'[q].at \in {"write", "append"} =>
           request'[q] = request[q]
    BY <2>1, <2>2 DEF TypeOK
  <2> QED
    BY <2>3 DEF PlannedEntriesAreAllowed
<1>6. CASE request' = request
  BY <1>6 DEF PlannedEntriesAreAllowed
<1> QED
  BY <1>1, <1>2, <1>3, <1>4, <1>5, <1>6 DEF Next, Hide, vars

LEMMA EntriesStep ==
  TypeOK /\ PlannedEntriesAreAllowed /\ EntriesAreAllowed /\ [Next]_vars
     => EntriesAreAllowed'
<1> SUFFICES ASSUME TypeOK, PlannedEntriesAreAllowed, EntriesAreAllowed, [Next]_vars
             PROVE  EntriesAreAllowed'
  OBVIOUS
<1>1. ASSUME NEW r \in Requests, AppendHistory(r) PROVE EntriesAreAllowed'
  <2> DEFINE app == request[r].app
             e == [from |-> request[r].from, to |-> request[r].to]
  <2>1. request[r] \in Appending
    BY <1>1, RequestShape DEF AppendHistory
  <2>2. app \in Applications /\ e \in Entry
    BY <2>1 DEF Appending, Entry
  <2>3. history' = [history EXCEPT ![app] = Append(history[app], e)]
    BY <1>1 DEF AppendHistory
  <2>4. AllowedEntry(e.from, e.to)
    BY <1>1 DEF PlannedEntriesAreAllowed, AppendHistory
  <2> HIDE DEF e
  <2> SUFFICES ASSUME NEW a \in Applications, NEW i \in DOMAIN history'[a]
               PROVE  AllowedEntry(history'[a][i].from, history'[a][i].to)
    BY DEF EntriesAreAllowed, AllowedEntry
  <2>5. CASE a # app
    <3>1. history'[a] = history[a]
      BY <2>3, <2>5 DEF TypeOK
    <3> QED
      BY <3>1 DEF EntriesAreAllowed, AllowedEntry
  <2>6. CASE a = app
    <3>1. history'[a] = Append(history[a], e) /\ history[a] \in Seq(Entry)
      BY <2>2, <2>3, <2>6 DEF TypeOK
    <3>2. CASE i \in DOMAIN history[a]
      <4>1. history'[a][i] = history[a][i]
        BY <2>2, <3>1, <3>2
      <4> QED
        BY <3>2, <4>1 DEF EntriesAreAllowed, AllowedEntry
    <3>3. CASE i \notin DOMAIN history[a]
      <4>1. history'[a][i] = e
        BY <2>2, <3>1, <3>3
      <4> QED
        BY <2>4, <4>1
    <3> QED
      BY <3>2, <3>3
  <2> QED
    BY <2>5, <2>6
<1>2. CASE history' = history
  BY <1>2 DEF EntriesAreAllowed
<1> QED
  BY <1>1, <1>2 DEF Next, CreateApplication, Insert, InsertConflicts,
                    UpdateApplicationStatus, WriteStatus, Break, Hide, vars

---------------------------------------------------------------------------
(* The status is on record *)

LEMMA AppendKeepsEntries ==
  ASSUME NEW h \in Seq(Entry), NEW e \in Entry
  PROVE  /\ Append(h, e) \in Seq(Entry)
         /\ Len(h) + 1 \in DOMAIN Append(h, e)
         /\ Append(h, e)[Len(h) + 1] = e
         /\ \A i \in DOMAIN h : i \in DOMAIN Append(h, e) /\ Append(h, e)[i] = h[i]
OBVIOUS

(* What AppendHistory does to the histories. *)
LEMMA HistoryAfterAppend ==
  ASSUME TypeOK, NEW r \in Requests, AppendHistory(r)
  PROVE  /\ request[r] \in Appending
         /\ request[r].app \in Applications
         /\ [from |-> request[r].from, to |-> request[r].to] \in Entry
         /\ history[request[r].app] \in Seq(Entry)
         /\ history'[request[r].app] =
               Append(history[request[r].app],
                      [from |-> request[r].from, to |-> request[r].to])
         /\ \A b \in Applications \ {request[r].app} : history'[b] = history[b]
<1>1. request[r] \in Appending
  BY RequestShape DEF AppendHistory
<1>2. request[r].app \in Applications
  BY <1>1 DEF Appending
<1>3. [from |-> request[r].from, to |-> request[r].to] \in Entry
  BY <1>1 DEF Appending, Entry
<1> QED
  BY <1>1, <1>2, <1>3 DEF TypeOK, AppendHistory

OnRecord(a) ==
    \/ \E i \in DOMAIN history[a] : history[a][i].to = record[a].status
    \/ \E r \in AtWorkOn(a) : /\ request[r].at = "append"
                              /\ request[r].to = record[a].status

LEMMA StatusStep ==
  TypeOK /\ WorkIsTracked /\ StatusIsOnRecord /\ [Next]_vars => StatusIsOnRecord'
<1> SUFFICES ASSUME TypeOK, WorkIsTracked, StatusIsOnRecord, [Next]_vars,
                    NEW b \in Tracked', b \notin broken'
             PROVE  OnRecord(b)'
  BY DEF StatusIsOnRecord, OnRecord
<1>1. /\ b \in Applications
      /\ b \in Tracked /\ b \notin broken => OnRecord(b)
  BY DEF StatusIsOnRecord, OnRecord, Tracked
<1>2. ASSUME NEW r \in Requests, NEW a \in Applications, Insert(r, a) PROVE OnRecord(b)'
  <2>1. request'[r] = Created(r, a) /\ request[r].to = "APPLIED"
    BY <1>2, RequestShape DEF TypeOK, Insert, Inserting
  <2>2. CASE b = a
    <3>1. record'[b].status = "APPLIED"
      BY <1>2, <2>2, TrackedAfterInsert
    <3> QED
      BY <2>1, <2>2, <3>1 DEF OnRecord, AtWorkOn, Created
  <2>3. CASE b # a
    <3>1. b \in Tracked /\ record'[b] = record[b]
      BY <1>2, <2>3, <1>1, TrackedAfterInsert
    <3>2. history' = history /\ broken' = broken
      BY <1>2 DEF Insert
    <3>3. \A q \in AtWorkOn(b) : q # r /\ request'[q] = request[q]
      <4>1. request[r].app = NoApplication /\ b # NoApplication
        BY <1>1, <1>2, RequestShape, TrackerConstants DEF Insert, Inserting
      <4> QED
        BY <1>2, <4>1 DEF TypeOK, Insert, AtWorkOn
    <3> QED
      BY <1>1, <3>1, <3>2, <3>3 DEF OnRecord, AtWorkOn
  <2> QED
    BY <2>2, <2>3
<1>3. ASSUME NEW r \in Requests, WriteStatus(r) PROVE OnRecord(b)'
  <2>1. /\ request'[r].at = "append" /\ request'[r].app = request[r].app
        /\ request'[r].to = request[r].to
        /\ \A q \in Requests \ {r} : request'[q] = request[q]
    BY <1>3 DEF TypeOK, WriteStatus
  <2>2. CASE b = request[r].app
    BY <1>3, <2>1, <2>2, TrackedAfterWrite DEF OnRecord, AtWorkOn
  <2>3. CASE b # request[r].app
    <3>1. b \in Tracked /\ record'[b] = record[b]
      BY <1>3, <2>3, <1>1, TrackedAfterWrite
    <3>2. history' = history /\ broken' = broken
      BY <1>3 DEF WriteStatus
    <3> QED
      BY <1>1, <2>1, <2>3, <3>1, <3>2 DEF OnRecord, AtWorkOn
  <2> QED
    BY <2>2, <2>3
<1>4. ASSUME NEW r \in Requests, AppendHistory(r) PROVE OnRecord(b)'
  <2> DEFINE app == request[r].app
             e == [from |-> request[r].from, to |-> request[r].to]
  <2>1. record' = record /\ broken' = broken /\ b \in Tracked
    BY <1>4 DEF AppendHistory, Tracked
  <2>2. \A q \in Requests \ {r} : request'[q] = request[q]
    BY <1>4 DEF TypeOK, AppendHistory, Finish
  <2>3. CASE b # app
    <3>1. history'[b] = history[b]
      BY <1>4, <2>3, <1>1, HistoryAfterAppend
    <3> QED
      BY <1>1, <2>1, <2>2, <2>3, <3>1 DEF OnRecord, AtWorkOn
  <2>4. CASE b = app
    <3> HIDE DEF e
    <3>1. /\ history[b] \in Seq(Entry) /\ e \in Entry
          /\ history'[b] = Append(history[b], e)
      BY <1>4, <2>4, HistoryAfterAppend DEF e
    <3>2. e.to = request[r].to
      BY DEF e
    <3>3. CASE record[b].status = e.to
      BY <2>1, <3>1, <3>3, AppendKeepsEntries DEF OnRecord
    <3>4. CASE record[b].status # e.to
      <4>1. CASE \E i \in DOMAIN history[b] : history[b][i].to = record[b].status
        <5>1. PICK i \in DOMAIN history[b] : history[b][i].to = record[b].status
          BY <4>1
        <5>2. i \in DOMAIN history'[b] /\ history'[b][i] = history[b][i]
          BY <3>1, AppendKeepsEntries
        <5> QED
          BY <2>1, <5>1, <5>2 DEF OnRecord
      <4>2. CASE \E q \in AtWorkOn(b) : /\ request[q].at = "append"
                                       /\ request[q].to = record[b].status
        BY <2>1, <2>2, <3>2, <3>4, <4>2 DEF OnRecord, AtWorkOn
      <4> QED
        BY <1>1, <2>1, <4>1, <4>2 DEF OnRecord
    <3> QED
      BY <3>3, <3>4
  <2> QED
    BY <2>3, <2>4
<1>5. ASSUME NEW r \in Requests, Break(r) PROVE OnRecord(b)'
  <2>1. record' = record /\ history' = history /\ b \in Tracked
    BY <1>5 DEF Break, Tracked
  <2>2. \A q \in Requests \ {r} : request'[q] = request[q]
    BY <1>5 DEF TypeOK, Break, Finish
  <2>3. b \notin broken /\ (request[r].at = "append" => request[r].app # b)
    BY <1>5 DEF Break
  <2> QED
    BY <1>1, <2>1, <2>2, <2>3 DEF OnRecord, AtWorkOn
<1>6. ASSUME record' = record, history' = history, broken' = broken,
             NEW r \in Requests, request[r].at \in {"idle", "insert"},
             \A q \in Requests \ {r} : request'[q] = request[q]
      PROVE  OnRecord(b)'
  <2>1. b \in Tracked
    BY <1>6 DEF Tracked
  <2> QED
    BY <1>1, <1>6, <2>1 DEF OnRecord, AtWorkOn
<1>7. ASSUME NEW r \in Requests, NEW j \in Jobs, CreateApplication(r, j) PROVE OnRecord(b)'
  BY <1>6, <1>7 DEF TypeOK, CreateApplication
<1>8. ASSUME NEW r \in Requests, InsertConflicts(r) PROVE OnRecord(b)'
  BY <1>6, <1>8 DEF TypeOK, InsertConflicts, Finish
<1>9. ASSUME NEW r \in Requests, NEW a \in Applications, NEW to \in Statuses,
             UpdateApplicationStatus(r, a, to)
      PROVE  OnRecord(b)'
  BY <1>6, <1>9 DEF TypeOK, UpdateApplicationStatus
<1>10. CASE request' = request /\ record' = record /\ history' = history /\ broken' = broken
  BY <1>1, <1>10 DEF OnRecord, AtWorkOn, Tracked
<1> QED
  BY <1>2, <1>3, <1>4, <1>5, <1>7, <1>8, <1>9, <1>10 DEF Next, Hide, vars

---------------------------------------------------------------------------
(* Histories of undisturbed records *)

(* A chain and the next entry are a chain. *)
LEMMA ChainGrows ==
  ASSUME NEW h \in Seq(Entry), NEW from, NEW to, [from |-> from, to |-> to] \in Entry,
         \/ from = NoStatus /\ h = << >>
         \/ Chain(h, from)
  PROVE  Chain(Append(h, [from |-> from, to |-> to]), to)
<1> DEFINE e == [from |-> from, to |-> to]
           g == Append(h, e)
<1> SUFFICES Chain(g, to)
  OBVIOUS
<1>1. e.from = from /\ e.to = to /\ e \in Entry
  OBVIOUS
<1> HIDE DEF e
<1>2. /\ g \in Seq(Entry) /\ Len(g) = Len(h) + 1 /\ g[Len(g)] = e
      /\ \A i \in 1..Len(h) : g[i] = h[i]
  BY <1>1
<1> HIDE DEF g
<1>3. CASE from = NoStatus /\ h = << >>
  BY <1>1, <1>2, <1>3 DEF Chain
<1>4. CASE Chain(h, from)
  <2>1. Len(h) \in Nat \ {0}
    BY <1>4 DEF Chain
  <2>2. g[1].from = NoStatus /\ g # << >>
    BY <1>2, <1>4, <2>1 DEF Chain
  <2>3. ASSUME NEW i \in 1..(Len(g) - 1) PROVE g[i + 1].from = g[i].to
    <3>1. CASE i = Len(h)
      BY <1>1, <1>2, <1>4, <2>1, <3>1 DEF Chain
    <3>2. CASE i # Len(h)
      <4>1. i \in 1..(Len(h) - 1) /\ i \in 1..Len(h) /\ i + 1 \in 1..Len(h)
        BY <1>2, <2>1, <3>2
      <4> QED
        BY <1>2, <1>4, <4>1 DEF Chain
    <3> QED
      BY <3>1, <3>2
  <2>4. g[Len(g)].to = to
    BY <1>1, <1>2
  <2> QED
    BY <2>2, <2>3, <2>4 DEF Chain
<1> QED
  BY <1>3, <1>4

LEMMA OneHandlerStep ==
  TypeOK /\ WorkIsTracked /\ OneHandler /\ [Next]_vars => OneHandler'
<1> SUFFICES ASSUME TypeOK, WorkIsTracked, OneHandler, [Next]_vars,
                    NEW b \in Applications, b \notin overlapped',
                    NEW p \in AtWorkOn(b)', NEW q \in AtWorkOn(b)'
             PROVE  p = q
  BY DEF OneHandler
<1>1. p \in Requests /\ q \in Requests /\ request'[p].app = b /\ request'[q].app = b
  BY DEF AtWorkOn
<1>2. ASSUME overlapped' = overlapped,
             \A r \in Requests : request'[r].app \in {request[r].app, NoApplication}
      PROVE  p = q
  BY <1>1, <1>2, TrackerConstants DEF OneHandler, AtWorkOn
<1>3. ASSUME NEW r \in Requests, NEW j \in Jobs, CreateApplication(r, j) PROVE p = q
  BY <1>2, <1>3 DEF TypeOK, CreateApplication
<1>4. ASSUME NEW r \in Requests, NEW a \in Applications, Insert(r, a) PROVE p = q
  <2>1. \A s \in Requests : request[s].app # a
    BY <1>4, TrackerConstants DEF Insert, WorkIsTracked
  <2>2. \A s \in Requests \ {r} : request'[s] = request[s]
    BY <1>4 DEF TypeOK, Insert
  <2>3. request'[r].app = a /\ overlapped' = overlapped
    BY <1>4 DEF TypeOK, Insert, Created
  <2> QED
    BY <1>1, <2>1, <2>2, <2>3 DEF OneHandler, AtWorkOn
<1>5. ASSUME NEW r \in Requests, NEW a \in Applications, NEW to \in Statuses,
             UpdateApplicationStatus(r, a, to)
      PROVE  p = q
  <2>1. /\ request'[r].app = a
        /\ \A s \in Requests \ {r} : request'[s] = request[s]
        /\ b \notin overlapped
        /\ b = a => AtWorkOn(a) \ {r} = {}
    BY <1>5 DEF TypeOK, UpdateApplicationStatus, Join
  <2> QED
    BY <1>1, <2>1 DEF OneHandler, AtWorkOn
<1>6. ASSUME NEW r \in Requests, WriteStatus(r) PROVE p = q
  BY <1>2, <1>6 DEF TypeOK, WriteStatus
<1>7. ASSUME NEW r \in Requests, InsertConflicts(r) \/ AppendHistory(r) \/ Break(r) PROVE p = q
  <2>1. request' = [request EXCEPT ![r] = Idle] /\ overlapped' = overlapped
    BY <1>7 DEF InsertConflicts, AppendHistory, Break, Finish
  <2> QED
    BY <1>2, <2>1 DEF TypeOK, Idle
<1>8. CASE request' = request /\ overlapped' = overlapped
  BY <1>2, <1>8
<1> QED
  BY <1>3, <1>4, <1>5, <1>6, <1>7, <1>8 DEF Next, Hide, vars

LEMMA NoEarlyHistoryStep ==
  TypeOK /\ WorkIsTracked /\ NoEarlyHistory /\ [Next]_vars => NoEarlyHistory'
<1> SUFFICES ASSUME TypeOK, WorkIsTracked, NoEarlyHistory, [Next]_vars,
                    NEW b \in Applications, b \notin Tracked'
             PROVE  history'[b] = << >>
  BY DEF NoEarlyHistory
<1>1. ASSUME NEW r \in Requests, NEW a \in Applications, Insert(r, a)
      PROVE  history'[b] = << >>
  <2>1. b \notin Tracked /\ history' = history
    BY <1>1, TrackedAfterInsert DEF Insert
  <2> QED
    BY <2>1 DEF NoEarlyHistory
<1>2. ASSUME NEW r \in Requests, WriteStatus(r) PROVE history'[b] = << >>
  <2>1. b \notin Tracked /\ history' = history
    BY <1>2, TrackedAfterWrite DEF WriteStatus
  <2> QED
    BY <2>1 DEF NoEarlyHistory
<1>3. ASSUME NEW r \in Requests, AppendHistory(r) PROVE history'[b] = << >>
  <2>1. b \notin Tracked
    BY <1>3 DEF AppendHistory, Tracked
  <2>2. request[r].app # NoApplication
    BY <1>3, HistoryAfterAppend, TrackerConstants
  <2>3. request[r].app # b
    BY <2>1, <2>2 DEF WorkIsTracked
  <2> QED
    BY <1>3, <2>1, <2>3, HistoryAfterAppend DEF NoEarlyHistory
<1>4. CASE record' = record /\ history' = history
  BY <1>4 DEF NoEarlyHistory, Tracked
<1> QED
  BY <1>1, <1>2, <1>3, <1>4
     DEF Next, CreateApplication, InsertConflicts, UpdateApplicationStatus,
         Break, Hide, vars

(* A record nobody on it has moved stays in step. *)
LEMMA StaysInStep ==
  ASSUME UndisturbedInStep, NEW b \in Tracked, b \notin overlapped, b \notin broken,
         record'[b] = record[b], history'[b] = history[b],
         NEW r \in Requests, request[r].app # b, request'[r].app # b,
         \A q \in Requests \ {r} : request'[q] = request[q]
  PROVE  InStep(b)'
<1>1. InStep(b)
  BY DEF UndisturbedInStep
<1>2. AtWorkOn(b)' = AtWorkOn(b)
  BY DEF AtWorkOn
<1>3. \A q \in AtWorkOn(b) : request'[q] = request[q]
  BY DEF AtWorkOn
<1> QED
  BY <1>1, <1>2, <1>3 DEF InStep, HalfDone, Chain

LEMMA InStepStep ==
  /\ TypeOK /\ WorkIsTracked /\ OneHandler /\ NoEarlyHistory /\ UndisturbedInStep
  /\ [Next]_vars
  => UndisturbedInStep'
<1> SUFFICES ASSUME TypeOK, WorkIsTracked, OneHandler, NoEarlyHistory, UndisturbedInStep,
                    [Next]_vars,
                    NEW b \in Tracked', b \notin overlapped', b \notin broken'
             PROVE  InStep(b)'
  BY DEF UndisturbedInStep
<1>1. b \in Applications /\ b # NoApplication
  BY TrackerConstants DEF Tracked
<1>2. ASSUME NEW r \in Requests, NEW j \in Jobs, CreateApplication(r, j) PROVE InStep(b)'
  <2>1. /\ b \in Tracked /\ b \notin overlapped /\ b \notin broken
        /\ record' = record /\ history' = history
    BY <1>2 DEF CreateApplication, Tracked
  <2>2. request[r].app = NoApplication
    BY <1>2, RequestShape DEF CreateApplication, Idle
  <2>3. /\ request[r].app # b /\ request'[r].app # b
        /\ \A q \in Requests \ {r} : request'[q] = request[q]
    BY <1>1, <1>2, <2>2 DEF TypeOK, CreateApplication
  <2> QED
    BY <2>1, <2>3, StaysInStep
<1>3. ASSUME NEW r \in Requests, NEW a \in Applications, Insert(r, a) PROVE InStep(b)'
  <2>1. /\ request'[r] = Created(r, a) /\ request[r].to = "APPLIED"
        /\ request[r].app = NoApplication
        /\ \A q \in Requests \ {r} : request'[q] = request[q]
        /\ history' = history /\ overlapped' = overlapped /\ broken' = broken
    BY <1>3, RequestShape DEF TypeOK, Insert, Inserting
  <2>2. CASE b = a
    <3>1. \A q \in Requests : request[q].app # a
      BY <1>3, TrackerConstants DEF Insert, WorkIsTracked
    <3>2. AtWorkOn(b)' = {r}
      BY <2>1, <2>2, <3>1 DEF AtWorkOn, Created
    <3>3. history'[b] = << >>
      BY <1>3, <2>1, <2>2 DEF Insert, NoEarlyHistory
    <3>4. record'[b].status = "APPLIED"
      BY <1>3, <2>2, TrackedAfterInsert
    <3>5. HalfDone(b, r)'
      BY <2>1, <3>3, <3>4 DEF HalfDone, Created
    <3> QED
      BY <3>2, <3>5 DEF InStep
  <2>3. CASE b # a
    <3>1. b \in Tracked /\ record'[b] = record[b]
      BY <1>1, <1>3, <2>3, TrackedAfterInsert
    <3>2. request'[r].app # b /\ request[r].app # b
      BY <1>1, <2>1, <2>3 DEF Created
    <3> QED
      BY <2>1, <3>1, <3>2, StaysInStep
  <2> QED
    BY <2>2, <2>3
<1>4. ASSUME NEW r \in Requests, NEW a \in Applications, NEW to \in Statuses,
             UpdateApplicationStatus(r, a, to)
      PROVE  InStep(b)'
  <2>1. /\ b \in Tracked /\ b \notin overlapped /\ b \notin broken
        /\ record' = record /\ history' = history
    BY <1>4 DEF UpdateApplicationStatus, Join, Tracked
  <2>2. request[r].app = NoApplication
    BY <1>4, RequestShape DEF UpdateApplicationStatus, Idle
  <2>3. /\ request'[r].app = a /\ request'[r].at = "write"
        /\ request'[r].from = record[a].status
        /\ \A q \in Requests \ {r} : request'[q] = request[q]
    BY <1>4 DEF TypeOK, UpdateApplicationStatus
  <2>4. CASE b = a
    <3>1. AtWorkOn(a) \ {r} = {}
      BY <1>4, <2>4 DEF UpdateApplicationStatus, Join
    <3>2. AtWorkOn(b) = {} /\ AtWorkOn(b)' = {r}
      BY <1>1, <2>2, <2>3, <2>4, <3>1 DEF AtWorkOn
    <3>3. Chain(history[b], record[b].status)
      BY <2>1, <3>2 DEF UndisturbedInStep, InStep
    <3>4. HalfDone(b, r)'
      BY <2>1, <2>3, <2>4, <3>3 DEF HalfDone, Chain
    <3> QED
      BY <3>2, <3>4 DEF InStep
  <2>5. CASE b # a
    BY <1>1, <2>1, <2>2, <2>3, <2>5, StaysInStep
  <2> QED
    BY <2>4, <2>5
<1>5. ASSUME NEW r \in Requests, WriteStatus(r) PROVE InStep(b)'
  <2>1. /\ request'[r].at = "append" /\ request'[r].app = request[r].app
        /\ request'[r].from = request[r].from /\ request'[r].to = request[r].to
        /\ \A q \in Requests \ {r} : request'[q] = request[q]
        /\ history' = history /\ overlapped' = overlapped /\ broken' = broken
    BY <1>5 DEF TypeOK, WriteStatus
  <2>2. b \in Tracked /\ b \notin overlapped /\ b \notin broken
    BY <1>5, <2>1, TrackedAfterWrite
  <2>3. CASE b = request[r].app
    <3>1. AtWorkOn(b) = {r}
      BY <1>1, <2>2, <2>3 DEF OneHandler, AtWorkOn
    <3>2. AtWorkOn(b)' = {r}
      BY <2>1, <2>3, <3>1 DEF AtWorkOn
    <3>3. HalfDone(b, r) /\ request[r].at = "write"
      BY <1>5, <2>2, <3>1 DEF UndisturbedInStep, InStep, WriteStatus
    <3>4. Chain(history[b], request[r].from)
      BY <3>3 DEF HalfDone
    <3>5. request'[r].to = record'[b].status
      BY <1>5, <2>1, <2>3, TrackedAfterWrite
    <3>6. HalfDone(b, r)'
      BY <2>1, <3>4, <3>5 DEF HalfDone, Chain
    <3> QED
      BY <3>2, <3>6 DEF InStep
  <2>4. CASE b # request[r].app
    <3>1. record'[b] = record[b]
      BY <1>1, <1>5, <2>4, TrackedAfterWrite
    <3> QED
      BY <2>1, <2>2, <2>4, <3>1, StaysInStep
  <2> QED
    BY <2>3, <2>4
<1>6. ASSUME NEW r \in Requests, AppendHistory(r) PROVE InStep(b)'
  <2> DEFINE app == request[r].app
  <2>1. /\ record' = record /\ overlapped' = overlapped /\ broken' = broken
        /\ request'[r].app = NoApplication
        /\ \A q \in Requests \ {r} : request'[q] = request[q]
    BY <1>6 DEF TypeOK, AppendHistory, Finish, Idle
  <2>2. b \in Tracked
    BY <2>1 DEF Tracked
  <2>3. CASE b = app
    <3>1. AtWorkOn(b) = {r}
      BY <1>1, <2>1, <2>3 DEF OneHandler, AtWorkOn
    <3>2. AtWorkOn(b)' = {}
      BY <1>1, <2>1, <3>1 DEF AtWorkOn
    <3>3. HalfDone(b, r) /\ request[r].at = "append"
      BY <1>6, <2>1, <2>2, <3>1 DEF UndisturbedInStep, InStep, AppendHistory
    <3>4. /\ request[r].to = record[b].status
          /\ \/ request[r].from = NoStatus /\ history[b] = << >>
             \/ Chain(history[b], request[r].from)
      BY <3>3 DEF HalfDone
    <3>5. /\ history[b] \in Seq(Entry)
          /\ [from |-> request[r].from, to |-> request[r].to] \in Entry
          /\ history'[b] = Append(history[b], [from |-> request[r].from, to |-> request[r].to])
      BY <1>6, <2>3, HistoryAfterAppend
    <3>6. Chain(history'[b], request[r].to)
      BY <3>4, <3>5, ChainGrows
    <3>7. Chain(history[b], record[b].status)'
      BY <2>1, <3>4, <3>6 DEF Chain
    <3> QED
      BY <3>2, <3>7 DEF InStep
  <2>4. CASE b # app
    <3>1. history'[b] = history[b]
      BY <1>1, <1>6, <2>4, HistoryAfterAppend
    <3> QED
      BY <1>1, <2>1, <2>2, <2>4, <3>1, StaysInStep
  <2> QED
    BY <2>3, <2>4
<1>7. ASSUME NEW r \in Requests, InsertConflicts(r) \/ Break(r) PROVE InStep(b)'
  <2>1. /\ record' = record /\ history' = history /\ overlapped' = overlapped
        /\ broken \subseteq broken'
        /\ request[r].at = "append" => request[r].app # b
        /\ request'[r].app = NoApplication
        /\ \A q \in Requests \ {r} : request'[q] = request[q]
    BY <1>7 DEF TypeOK, InsertConflicts, Break, Finish, Idle
  <2>2. b \in Tracked /\ b \notin overlapped /\ b \notin broken
    BY <2>1 DEF Tracked
  <2>3. CASE request[r].app = b
    <3>1. request[r].at = "write"
      BY <1>1, <2>1, <2>3, RequestShape
    <3>2. AtWorkOn(b) = {r}
      BY <1>1, <2>2, <2>3 DEF OneHandler, AtWorkOn
    <3>3. AtWorkOn(b)' = {}
      BY <1>1, <2>1, <3>2 DEF AtWorkOn
    <3>4. HalfDone(b, r)
      BY <2>2, <3>2 DEF UndisturbedInStep, InStep
    <3>5. Chain(history[b], record[b].status)
      BY <3>1, <3>4 DEF HalfDone
    <3> QED
      BY <2>1, <3>3, <3>5 DEF InStep, Chain
  <2>4. CASE request[r].app # b
    BY <1>1, <2>1, <2>2, <2>4, StaysInStep
  <2> QED
    BY <2>3, <2>4
<1>8. CASE UNCHANGED <<record, history, request, overlapped, broken>>
  <2>1. InStep(b)
    BY <1>8 DEF UndisturbedInStep, Tracked
  <2> QED
    BY <1>8, <2>1 DEF InStep, HalfDone, AtWorkOn, Chain
<1> QED
  BY <1>2, <1>3, <1>4, <1>5, <1>6, <1>7, <1>8 DEF Next, Hide, vars

---------------------------------------------------------------------------
(* The theorems *)

LEMMA InvInit == Init => TrackerInv
<1> SUFFICES ASSUME Init PROVE TrackerInv
  OBVIOUS
<1>1. Tracked = {} /\ \A r \in Requests : request[r] = Idle
  BY DEF Init, Tracked
<1>2. WorkIsTracked /\ PlannedEntriesAreAllowed
  BY <1>1 DEF WorkIsTracked, PlannedEntriesAreAllowed, Idle
<1>3. OneHandler
  BY <1>1, TrackerConstants DEF OneHandler, AtWorkOn, Idle
<1>4. EntriesAreAllowed /\ NoEarlyHistory
  BY DEF Init, EntriesAreAllowed, NoEarlyHistory
<1>5. OneRecordPerJob /\ StatusIsOnRecord /\ UndisturbedInStep
  BY <1>1 DEF OneRecordPerJob, StatusIsOnRecord, UndisturbedInStep
<1> QED
  BY <1>2, <1>3, <1>4, <1>5, TypeInit DEF TrackerInv

LEMMA InvStep == TrackerInv /\ [Next]_vars => TrackerInv'
BY TypeStep, WorkStep, OneRecordStep, PlannedStep, EntriesStep, StatusStep,
   OneHandlerStep, NoEarlyHistoryStep, InStepStep
   DEF TrackerInv

LEMMA InvAlways == Spec => []TrackerInv
BY InvInit, InvStep, PTL DEF Spec

LEMMA InvImplies ==
  TrackerInv => /\ TypeOK /\ OneRecordPerJob /\ EntriesAreAllowed
                /\ StatusIsOnRecord /\ SequentialHistory
BY DEF TrackerInv, UndisturbedInStep, InStep, SequentialHistory

(* Every variable of the tracker always has its type. *)
THEOREM TypeCorrect == Spec => []TypeOK
BY InvAlways, InvImplies, PTL

(* A user never tracks a job twice: the unique key of application_records, *)
(* whatever creations race past the duplicate test.                        *)
THEOREM JobsTrackedOnce == Spec => []OneRecordPerJob
BY InvAlways, InvImplies, PTL

(* Every entry ever made is a creation or an allowed transition, although  *)
(* the status it was validated against may be stale.                       *)
THEOREM HistoryFollowsPolicy == Spec => []EntriesAreAllowed
BY InvAlways, InvImplies, PTL

(* Unless a handler fails, the present status is entered or about to be.   *)
THEOREM StatusIsEntered == Spec => []StatusIsOnRecord
BY InvAlways, InvImplies, PTL

(* Where handlers neither overlapped nor failed, the history is a chain    *)
(* from the creation to the present status.                                *)
THEOREM UndisturbedHistoryIsComplete == Spec => []SequentialHistory
BY InvAlways, InvImplies, PTL

============================================================================
