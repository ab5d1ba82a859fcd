---------------------------- MODULE CvFilesProofs ----------------------------
(* Proofs about CvFiles for any number of files, handlers, cleanup jobs and *)
(* failures.                                                                *)
EXTENDS CvFiles, TLAPS

(***************************************************************************)
(* Types.                                                                  *)
(***************************************************************************)

(* Every variable keeps its shape. *)
LEMMA TypeInit == Init => TypeOK
  BY CvConstants DEF Init, TypeOK, File, Absent, Request, Working, Idle, Sweep, Resting, Points

(* A handler that is not idle works on a file, under a request id. *)
LEMMA WorkingType ==
  ASSUME TypeOK, NEW r \in Requests, request[r].at # "idle"
  PROVE  request[r] \in Working
  BY DEF TypeOK, Request, Idle

(* What a working handler may be turned into. *)
LEMMA RequestType ==
  ASSUME NEW q \in Working
  PROVE  /\ \A p \in Points : [q EXCEPT !.at = p] \in Working
         /\ [q EXCEPT !.at = "analyse", !.own = TRUE] \in Working
         /\ \A fs \in SUBSET Files :
               [q EXCEPT !.at = "insert", !.seen = fs] \in Working
<1>1. \A p \in Points : [q EXCEPT !.at = p] \in Working
  BY DEF Working
<1>2. [q EXCEPT !.at = "analyse", !.own = TRUE] \in Working
  BY DEF Working, Points
<1>3. \A fs \in SUBSET Files : [q EXCEPT !.at = "insert", !.seen = fs] \in Working
  BY DEF Working, Points
<1> QED BY <1>1, <1>2, <1>3

(* Moving a handler on, or ending it, keeps its shape. *)
LEMMA GotoType ==
  ASSUME TypeOK, NEW r \in Requests, request[r].at # "idle",
         \/ \E p \in Points : Goto(r, p)
         \/ Finish(r) \/ Abandon(r) \/ Created(r)
  PROVE  request' \in [Requests -> Request]
<1>1. request \in [Requests -> Request] /\ request[r] \in Working
  BY WorkingType DEF TypeOK
<1>2. CASE \E p \in Points : Goto(r, p)
  <2>1. PICK p \in Points : request' = [request EXCEPT ![r] = [request[r] EXCEPT !.at = p]]
    BY <1>2 DEF Goto
  <2>2. [request[r] EXCEPT !.at = p] \in Working
    BY <1>1, RequestType
  <2> QED BY <1>1, <2>1, <2>2 DEF Request
<1>3. CASE Finish(r)
  BY <1>1, <1>3 DEF Finish, Request
<1>4. CASE Created(r)
  <2>1. \/ Finish(r)
        \/ request' = [request EXCEPT ![r] =
                          [request[r] EXCEPT !.at = "analyse", !.own = TRUE]]
    BY <1>4 DEF Created
  <2>2. [request[r] EXCEPT !.at = "analyse", !.own = TRUE] \in Working
    BY <1>1, RequestType
  <2> QED BY <1>1, <1>3, <2>1, <2>2 DEF Request
<1>5. CASE Abandon(r)
  BY <1>2, <1>3, <1>5 DEF Abandon, Points
<1> QED BY <1>2, <1>3, <1>4, <1>5

(* A counted failure stays within its bound. *)
LEMMA FailType ==
  ASSUME TypeOK, NEW k, Fail(k)
  PROVE  faults' \in 0..MaxFaults
  BY CvConstants DEF TypeOK, Fail

(* The row written by a handler, and the rows after an activation. *)
LEMMA RowTypes ==
  ASSUME TypeOK, NEW r \in Requests, request[r].at # "idle"
  PROVE  /\ NewRow(r) \in File
         /\ HandedOver(r) \in [Files -> File]
<1>1. NewRow(r) \in File
  <2>1. request[r] \in Working /\ file[request[r].file] \in File
    BY WorkingType DEF TypeOK, Working
  <2>2. request[r].active \in BOOLEAN /\ file[request[r].file].disk \in BOOLEAN
    BY <2>1 DEF Working, File
  <2>3. (request[r].kind = "upload") \in BOOLEAN
    OBVIOUS
  <2> QED BY <2>2, <2>3 DEF NewRow, File
<1>2. ASSUME NEW f \in Files
      PROVE  [file[f] EXCEPT !.active = FALSE] \in File
  BY DEF TypeOK, File
<1> QED BY <1>1, <1>2 DEF HandedOver, TypeOK

(* Marking rows deleted keeps their shape. *)
LEMMA DeletedType ==
  ASSUME TypeOK, NEW fs
  PROVE  Deleted(fs) \in [Files -> File]
<1>1. ASSUME NEW f \in Files
      PROVE  [file[f] EXCEPT !.row = "deleted", !.active = FALSE] \in File
  BY DEF TypeOK, File
<1> QED BY <1>1 DEF Deleted, TypeOK

(* Every step keeps the types. *)
LEMMA TypeNext == TypeOK /\ [Next]_vars => TypeOK'
<1> SUFFICES ASSUME TypeOK, [Next]_vars PROVE TypeOK'
  OBVIOUS
<1>1. ASSUME NEW r \in Requests, NEW f \in Files, NEW key \in RunKeys,
             NEW kind \in {"upload", "analyse"}, NEW active \in BOOLEAN,
             SaveFile(r, f, kind, active, key)
      PROVE  TypeOK'
  <2>1. (kind = "upload") \in BOOLEAN
    OBVIOUS
  <2>2. [at |-> "create", kind |-> kind, file |-> f,
         own |-> kind = "upload", active |-> active,
         key |-> key, seen |-> {}] \in Working
    BY <2>1 DEF Working, Points
  <2>3. request' \in [Requests -> Request]
    BY <1>1, <2>2 DEF SaveFile, TypeOK, Request
  <2>4. file' \in [Files -> File]
    BY <1>1 DEF SaveFile, TypeOK, File
  <2> QED BY <1>1, <2>3, <2>4 DEF SaveFile, TypeOK
<1>2. ASSUME NEW r \in Requests, NEW f \in Files, NEW key \in RunKeys,
             Refer(r, f, key)
      PROVE  TypeOK'
  <2>1. [at |-> "read", kind |-> "analyse", file |-> f, own |-> FALSE,
         active |-> FALSE, key |-> key, seen |-> {}] \in Working
    BY DEF Working, Points
  <2> QED BY <1>2, <2>1 DEF Refer, TypeOK, Request
<1>3. ASSUME NEW r \in Requests, CreateInactive(r) PROVE TypeOK'
  <2>1. NewRow(r) \in File
    BY <1>3, RowTypes DEF CreateInactive
  <2>2. file' \in [Files -> File]
    BY <1>3, <2>1 DEF CreateInactive, TypeOK
  <2>3. request' \in [Requests -> Request]
    BY <1>3, GotoType DEF CreateInactive
  <2> QED BY <1>3, <2>2, <2>3 DEF CreateInactive, TypeOK
<1>4. ASSUME NEW r \in Requests, Deactivate(r) PROVE TypeOK'
  <2>1. Active \subseteq Files
    BY DEF Active, Live
  <2>2. request[r] \in Working
    BY <1>4, WorkingType DEF Deactivate
  <2>3. [request[r] EXCEPT !.at = "insert", !.seen = Active] \in Working
    BY <2>1, <2>2, RequestType
  <2>4. request' \in [Requests -> Request]
    BY <1>4, <2>3 DEF Deactivate, TypeOK, Request
  <2> QED BY <1>4, <2>4 DEF Deactivate, TypeOK
<1>5. ASSUME NEW r \in Requests, CreateActive(r) PROVE TypeOK'
  <2>1. file' \in [Files -> File]
    BY <1>5, RowTypes DEF CreateActive
  <2>2. request' \in [Requests -> Request]
    BY <1>5, GotoType DEF CreateActive
  <2> QED BY <1>5, <2>1, <2>2 DEF CreateActive, TypeOK
<1>6. ASSUME NEW r \in Requests,
             \/ CreateConflicts(r) \/ ReadBytes(r) \/ AnalysisFails(r)
             \/ PersistConflicts(r)
      PROVE  TypeOK'
  <2>1. Goto(r, "analyse") \/ Abandon(r)
    BY <1>6 DEF CreateConflicts, ReadBytes, AnalysisFails, PersistConflicts
  <2>2. request' \in [Requests -> Request]
    BY <1>6, <2>1, GotoType
    DEF CreateConflicts, ReadBytes, AnalysisFails, PersistConflicts, Points
  <2> QED BY <1>6, <2>2
        DEF CreateConflicts, ReadBytes, AnalysisFails, PersistConflicts, TypeOK
<1>7. ASSUME NEW r \in Requests, AnswerOnly(r) PROVE TypeOK'
  <2>1. request' \in [Requests -> Request]
    BY <1>7, GotoType DEF AnswerOnly
  <2>2. file' \in [Files -> File]
    BY <1>7 DEF AnswerOnly, TypeOK, File
  <2> QED BY <1>7, <2>1, <2>2 DEF AnswerOnly, TypeOK
<1>8. ASSUME NEW r \in Requests, NEW recommended \in BOOLEAN,
             Persist(r, recommended)
      PROVE  TypeOK'
  <2>1. request' \in [Requests -> Request]
    BY <1>8, GotoType DEF Persist
  <2>2. file' \in [Files -> File]
    BY <1>8 DEF Persist, TypeOK, File
  <2>3. request[r].file \in Files
    BY <1>8, WorkingType DEF Persist, Working
  <2>4. request[r].key \in RunKeys
    BY <1>8, WorkingType DEF Persist, Working
  <2> QED BY <1>8, <2>1, <2>2, <2>3, <2>4 DEF Persist, TypeOK
<1>9. ASSUME NEW r \in Requests, Unlink(r) \/ Mark(r) PROVE TypeOK'
  <2>1. request' \in [Requests -> Request]
    BY <1>9, GotoType DEF Unlink, Mark, Points
  <2>2. file' \in [Files -> File]
    <3>1. CASE Unlink(r)
      BY <3>1 DEF Unlink, TypeOK, File
    <3>2. CASE Mark(r)
      BY <3>2, DeletedType DEF Mark
    <3> QED BY <1>9, <3>1, <3>2
  <2> QED BY <1>9, <2>1, <2>2 DEF Unlink, Mark, TypeOK
<1>10. ASSUME NEW r \in Requests, CreateAnswerLost(r) PROVE TypeOK'
  <2>1. request' \in [Requests -> Request]
    BY <1>10, GotoType DEF CreateAnswerLost
  <2>2. request[r].file \in Files
    BY <1>10, WorkingType DEF CreateAnswerLost, Working
  <2>3. HandedOver(r) \in [Files -> File]
    BY <1>10, RowTypes DEF CreateAnswerLost
  <2>4. file' \in [Files -> File]
    BY <1>10, <2>2, <2>3 DEF CreateAnswerLost, File
  <2>5. faults' \in 0..MaxFaults
    BY <1>10, FailType DEF CreateAnswerLost
  <2> QED BY <1>10, <2>1, <2>4, <2>5 DEF CreateAnswerLost, TypeOK
<1>11. ASSUME NEW r \in Requests, NEW recommended \in BOOLEAN,
              PersistAnswerLost(r, recommended)
       PROVE  TypeOK'
  <2>1. request' \in [Requests -> Request]
    BY <1>11, GotoType DEF PersistAnswerLost
  <2>2. request[r].file \in Files /\ request[r].key \in RunKeys
    BY <1>11, WorkingType DEF PersistAnswerLost, Working
  <2>3. faults' \in 0..MaxFaults
    BY <1>11, FailType DEF PersistAnswerLost
  <2> QED BY <1>11, <2>1, <2>2, <2>3 DEF PersistAnswerLost, TypeOK
<1>12. ASSUME NEW r \in Requests,
              CreateFails(r) \/ UnlinkFails(r) \/ MarkFails(r) \/ CrashRequest(r)
       PROVE  TypeOK'
  <2>1. Abandon(r) \/ Goto(r, "mark") \/ Finish(r)
    BY <1>12 DEF CreateFails, UnlinkFails, MarkFails, CrashRequest
  <2>2. request' \in [Requests -> Request]
    BY <1>12, <2>1, GotoType
    DEF CreateFails, UnlinkFails, MarkFails, CrashRequest, Points
  <2>3. faults' \in 0..MaxFaults
    BY <1>12, FailType DEF CreateFails, UnlinkFails, MarkFails, CrashRequest
  <2> QED BY <1>12, <2>2, <2>3
          DEF CreateFails, UnlinkFails, MarkFails, CrashRequest, TypeOK
<1>13. ASSUME NEW s \in Sweepers, SweepStart(s) PROVE TypeOK'
  <2>1. [at |-> "delete", todo |-> Expired, done |-> {}] \in Sweep
    BY DEF Sweep, Expired, Live
  <2> QED BY <1>13, <2>1 DEF SweepStart, TypeOK
<1>14. ASSUME NEW s \in Sweepers, NEW f \in Files,
              SweepDelete(s, f) \/ SweepDeleteFails(s, f)
       PROVE  TypeOK'
  <2>1. sweep[s] \in Sweep
    BY DEF TypeOK
  <2>2. CASE SweepDelete(s, f)
    <3>1. sweep' \in [Sweepers -> Sweep]
      BY <2>1, <2>2 DEF SweepDelete, TypeOK, Sweep
    <3>2. file' \in [Files -> File]
      BY <2>2 DEF SweepDelete, TypeOK, File
    <3> QED BY <2>2, <3>1, <3>2 DEF SweepDelete, TypeOK
  <2>3. CASE SweepDeleteFails(s, f)
    <3>1. [sweep[s] EXCEPT !.todo = @ \ {f}] \in Sweep
      BY <2>1 DEF Sweep
    <3>2. sweep' \in [Sweepers -> Sweep]
      BY <2>3, <3>1 DEF SweepDeleteFails, TypeOK
    <3>3. faults' \in 0..MaxFaults
      BY <2>3, FailType DEF SweepDeleteFails
    <3> QED BY <2>3, <3>2, <3>3 DEF SweepDeleteFails, TypeOK
  <2> QED BY <1>14, <2>2, <2>3
<1>15. ASSUME NEW s \in Sweepers, SweepMark(s) \/ SweepFails(s) \/ CrashSweep(s)
       PROVE  TypeOK'
  <2>1. Resting \in Sweep
    BY DEF Resting, Sweep
  <2>2. sweep' \in [Sweepers -> Sweep]
    BY <1>15, <2>1 DEF SweepMark, SweepFails, CrashSweep, TypeOK
  <2>3. file' \in [Files -> File]
    BY <1>15, DeletedType DEF SweepMark, SweepFails, CrashSweep, TypeOK
  <2>4. faults' \in 0..MaxFaults
    BY <1>15, FailType DEF SweepMark, SweepFails, CrashSweep, TypeOK
  <2> QED BY <1>15, <2>2, <2>3, <2>4 DEF SweepMark, SweepFails, CrashSweep, TypeOK
<1>16. ASSUME NEW f \in Files, Expire(f) PROVE TypeOK'
  BY <1>16 DEF Expire, TypeOK, File
<1>17. CASE UNCHANGED vars
  BY <1>17 DEF vars, TypeOK
<1> QED
  BY <1>1, <1>2, <1>3, <1>4, <1>5, <1>6, <1>7, <1>8, <1>9, <1>10, <1>11, <1>12,
     <1>13, <1>14, <1>15, <1>16, <1>17
  DEF Next, Begin, Advance, Trouble, SweepAdvance, SweepTrouble

(***************************************************************************)
(* One active CV.                                                          *)
(***************************************************************************)

(* Every variable keeps its shape in every run. *)
THEOREM TypeCorrect == Spec => []TypeOK
<1>1. Init => TypeOK
  BY TypeInit
<1>2. TypeOK /\ [Next]_vars => TypeOK'
  BY TypeNext
<1> QED BY <1>1, <1>2, PTL DEF Spec

(***************************************************************************)
(* One active CV, whatever fails.                                          *)
(***************************************************************************)

(* A step that makes no row active preserves the property. *)
LEMMA NoNewActive ==
  ASSUME OneActiveCv, Active' \subseteq Active
  PROVE  OneActiveCv'
  BY DEF OneActiveCv

(* After an activation the file of the handler is the only active one. *)
LEMMA OnlyTheNewOne ==
  ASSUME TypeOK, NEW r \in Requests, request[r].at # "idle", UniqueActive(r),
         NEW b \in BOOLEAN,
         \/ file' = HandedOver(r)
         \/ file' = [HandedOver(r) EXCEPT ![request[r].file].known = b]
  PROVE  Active' \subseteq {request[r].file}
<1> SUFFICES ASSUME NEW f \in Files, file'[f].row = "live", file'[f].active,
                    f # request[r].file
             PROVE  FALSE
  BY DEF Active, Live
<1>1. request[r].file \in Files /\ file[f] \in File
  BY WorkingType DEF Working, TypeOK
<1>2. HandedOver(r) \in [Files -> File]
  BY RowTypes
<1>3. file'[f] = HandedOver(r)[f]
  BY <1>1, <1>2
<1>4. file'[f] = IF f \in request[r].seen THEN [file[f] EXCEPT !.active = FALSE]
                 ELSE file[f]
  BY <1>3 DEF HandedOver
<1>5. CASE f \in request[r].seen
  BY <1>1, <1>4, <1>5 DEF File
<1>6. CASE f \notin request[r].seen
  BY <1>4, <1>6 DEF UniqueActive, Active, Live
<1> QED BY <1>5, <1>6

(* Every step keeps at most one active row. *)
LEMMA OneActiveNext == TypeOK /\ OneActiveCv /\ [Next]_vars => OneActiveCv'
<1> SUFFICES ASSUME TypeOK, OneActiveCv, [Next]_vars PROVE OneActiveCv'
  OBVIOUS
<1>1. ASSUME NEW r \in Requests, NEW f \in Files, NEW key \in RunKeys,
             NEW kind \in {"upload", "analyse"}, NEW active \in BOOLEAN,
             SaveFile(r, f, kind, active, key)
      PROVE  OneActiveCv'
  BY <1>1, NoNewActive DEF SaveFile, Active, Live, TypeOK, File
<1>2. ASSUME UNCHANGED file PROVE OneActiveCv'
  BY <1>2 DEF OneActiveCv, Active, Live
<1>3. ASSUME NEW r \in Requests, CreateInactive(r) PROVE OneActiveCv'
  <2>1. request[r].at = "create" /\ request[r].file \in Files
    BY <1>3, WorkingType DEF CreateInactive, Working
  <2>2. ~NewRow(r).active
    BY <1>3 DEF CreateInactive, NewRow
  <2>3. Active' \subseteq Active
    BY <1>3, <2>1, <2>2 DEF CreateInactive, Active, Live, TypeOK
  <2> QED BY <2>3, NoNewActive
<1>4. ASSUME NEW r \in Requests, CreateActive(r) PROVE OneActiveCv'
  <2>1. Active' \subseteq {request[r].file}
    BY <1>4, OnlyTheNewOne DEF CreateActive
  <2> QED BY <2>1 DEF OneActiveCv
<1>5. ASSUME NEW r \in Requests, CreateAnswerLost(r) PROVE OneActiveCv'
  <2>1. CASE request[r].at = "insert" /\ UniqueActive(r)
    <3>1. Active' \subseteq {request[r].file}
      BY <1>5, <2>1, OnlyTheNewOne DEF CreateAnswerLost
    <3> QED BY <3>1 DEF OneActiveCv
  <2>2. CASE request[r].at = "create" /\ ~request[r].active
    <3>1. request[r].file \in Files /\ HandedOver(r) \in [Files -> File]
      BY <2>2, WorkingType, RowTypes DEF Working
    <3>2. ASSUME NEW f \in Files, file'[f].row = "live", file'[f].active
          PROVE  f \in Active
      <4>1. HandedOver(r)[f].row = "live" /\ HandedOver(r)[f].active
        BY <1>5, <3>1, <3>2 DEF CreateAnswerLost, File
      <4>2. f # request[r].file
        BY <2>2, <4>1 DEF HandedOver, NewRow
      <4>3. HandedOver(r)[f] = IF f \in request[r].seen
                               THEN [file[f] EXCEPT !.active = FALSE]
                               ELSE file[f]
        BY <4>2 DEF HandedOver
      <4>4. file[f] \in File
        BY DEF TypeOK
      <4>5. f \notin request[r].seen
        BY <4>1, <4>3, <4>4 DEF File
      <4> QED BY <4>1, <4>3, <4>5 DEF Active, Live
    <3> QED BY <3>2, NoNewActive DEF Active, Live
  <2> QED BY <1>5, <2>1, <2>2 DEF CreateAnswerLost
<1>6. ASSUME NEW f \in Files, NEW b \in BOOLEAN,
             \/ file' = [file EXCEPT ![f].known = b]
             \/ file' = [file EXCEPT ![f].disk = b]
             \/ file' = [file EXCEPT ![f].expired = b]
      PROVE  OneActiveCv'
  BY <1>6, NoNewActive DEF Active, Live, TypeOK, File
<1>7. ASSUME NEW fs, file' = Deleted(fs) PROVE OneActiveCv'
  <2>1. ASSUME NEW f \in Files, file'[f].row = "live", file'[f].active
        PROVE  f \in Active
    <3>1. file[f] \in File
      BY DEF TypeOK
    <3> QED BY <1>7, <2>1, <3>1 DEF Deleted, Active, Live, File
  <2> QED BY <2>1, NoNewActive DEF Active, Live
<1>8. ASSUME NEW r \in Requests, Advance(r) PROVE OneActiveCv'
  <2>1. ASSUME request[r].at # "idle" PROVE request[r].file \in Files
    BY <2>1, WorkingType DEF Working
  <2>2. CASE CreateInactive(r) \/ CreateActive(r)
    BY <2>2, <1>3, <1>4
  <2>3. CASE \/ Deactivate(r) \/ CreateConflicts(r) \/ ReadBytes(r)
             \/ AnalysisFails(r) \/ PersistConflicts(r)
    BY <2>3, <1>2
    DEF Deactivate, CreateConflicts, ReadBytes, AnalysisFails, PersistConflicts
  <2>4. CASE AnswerOnly(r) \/ \E b \in BOOLEAN : Persist(r, b)
    BY <2>4, <2>1, <1>6 DEF AnswerOnly, Persist
  <2>5. CASE Unlink(r)
    BY <2>5, <2>1, <1>6 DEF Unlink
  <2>6. CASE Mark(r)
    BY <2>6, <1>7 DEF Mark
  <2> QED BY <1>8, <2>2, <2>3, <2>4, <2>5, <2>6 DEF Advance
<1>9. ASSUME NEW r \in Requests, Trouble(r) PROVE OneActiveCv'
  BY <1>9, <1>2, <1>5
  DEF Trouble, CreateFails, UnlinkFails, MarkFails, CrashRequest, PersistAnswerLost
<1>10. ASSUME NEW s \in Sweepers, SweepAdvance(s) \/ SweepTrouble(s)
       PROVE  OneActiveCv'
  BY <1>10, <1>2, <1>6, <1>7
  DEF SweepAdvance, SweepTrouble, SweepStart, SweepMark, SweepDelete,
      SweepFails, CrashSweep, SweepDeleteFails
<1>11. ASSUME NEW r \in Requests, Begin(r) PROVE OneActiveCv'
  BY <1>11, <1>1, <1>2 DEF Begin, Refer
<1>12. ASSUME NEW f \in Files, Expire(f) PROVE OneActiveCv'
  BY <1>12, <1>6 DEF Expire
<1>13. CASE UNCHANGED vars
  BY <1>13, <1>2 DEF vars
<1> QED BY <1>8, <1>9, <1>10, <1>11, <1>12, <1>13 DEF Next

(* At most one row of the user is active and not deleted, however uploads, *)
(* deletions, failures and crashes interleave (ai-cv-analyzer.md:367).     *)
THEOREM AtMostOneActive == Spec => []OneActiveCv
<1>1. Init => OneActiveCv
  BY DEF Init, OneActiveCv, Active, Live, Absent
<1>2. TypeOK /\ OneActiveCv /\ [Next]_vars => OneActiveCv'
  BY OneActiveNext
<1> QED BY <1>1, <1>2, TypeCorrect, PTL DEF Spec

(***************************************************************************)
(* Files that someone relies on.                                           *)
(***************************************************************************)

(* A handler that moves on within its own bounds, or ends, while files and *)
(* results stay as they are.                                               *)
LEMMA MoveKeepsInv ==
  ASSUME TypeOK, CvInv, NEW r \in Requests, NEW n \in Request,
         request[r].at # "idle",
         request' = [request EXCEPT ![r] = n],
         UNCHANGED <<file, cited, sweep>>,
         n # Idle =>
           /\ n.file = request[r].file
           /\ n.own => request[r].own
           /\ n.at \in {"unlink", "mark"} => n.own
           /\ n.at = "insert" => /\ request[r].at = "create"
                                 /\ n.active /\ n.kind = "upload"
           /\ n.at = "analyse" => /\ request[r].at = "read" /\ ~request[r].own
                                  /\ file[n.file].disk
           /\ n.at \notin {"create", "read"}
  PROVE  CvInv'
<1>1. request \in [Requests -> Request] /\ request[r] \in Working
  BY WorkingType DEF TypeOK
<1>2. \A q \in Requests : request'[q] = IF q = r THEN n ELSE request[q]
  BY <1>1
<1>3. n # Idle => n \in Working
  BY DEF Request
<1>4. WorkingFile'
  <2> SUFFICES ASSUME NEW q \in Requests
               PROVE WorkingFile!(q)'
    BY DEF WorkingFile
  <2>1. CASE q # r
    BY <1>2, <2>1 DEF CvInv, WorkingFile, Creating
  <2>2. CASE q = r /\ n = Idle
    BY <1>2, <2>2 DEF Creating, Idle
  <2>3. CASE q = r /\ n # Idle
    BY <1>1, <1>2, <1>3, <2>3
    DEF CvInv, WorkingFile, KnownFileIsReadable, RowsAreSound, Creating, Working,
        Points
  <2> QED BY <2>1, <2>2, <2>3
<1>5. TargetsArePrivate'
  <2>1. NoFile \notin Files
    BY CvConstants
  <2>2. ASSUME NEW p \in Requests
        PROVE  /\ request'[p].own \/ Creating(p)' =>
                     /\ request[p].own \/ Creating(p)
                     /\ request'[p].file = request[p].file
               /\ request'[p].file \in {request[p].file, NoFile}
    BY <1>1, <1>2, <1>3 DEF Creating, Idle, Working, Points
  <2>3. ASSUME NEW p \in Requests, request[p].own \/ Creating(p)
        PROVE  request[p].file \in Files
    BY <2>3, WorkingType DEF Creating, TypeOK, Request, Idle, Working
  <2> QED BY <2>1, <2>2, <2>3 DEF CvInv, TargetsArePrivate
<1>6. RowsAreSound' /\ SweepsExpired' /\ KnownFileIsReadable'
  BY DEF CvInv, RowsAreSound, SweepsExpired, KnownFileIsReadable
<1> QED BY <1>4, <1>5, <1>6 DEF CvInv

(* Files that expire, or are erased and marked after they expired.          *)
LEMMA ExpiryKeepsInv ==
  ASSUME TypeOK, CvInv, file' \in [Files -> File], cited' = cited, request' = request,
         \A f \in Files :
            \/ file'[f] = file[f]
            \/ /\ file[f].row # "none" /\ file'[f].row # "none"
               /\ file'[f].known = file[f].known
               /\ file'[f].active => file[f].active
               /\ file'[f].expired,
         \A s \in Sweepers : sweep'[s].todo \cup sweep'[s].done
                               \subseteq sweep[s].todo \cup sweep[s].done
  PROVE  CvInv'
<1>1. ASSUME NEW r \in Requests, request[r].at # "idle"
      PROVE  request[r].file \in Files
  BY <1>1, WorkingType DEF Working
<1>2. WorkingFile'
  <2> SUFFICES ASSUME NEW r \in Requests PROVE WorkingFile!(r)'
    BY DEF WorkingFile
  <2>1. CASE request[r].at = "idle"
    BY <2>1 DEF Creating
  <2>2. CASE request[r].at # "idle"
    BY <1>1, <2>2 DEF CvInv, WorkingFile, Creating
  <2> QED BY <2>1, <2>2
<1>3. TargetsArePrivate'
  <2> SUFFICES ASSUME NEW r \in Requests, request[r].own \/ Creating(r)
               PROVE  /\ ~file'[request[r].file].known
                      /\ ~file'[request[r].file].active
                      /\ \A q \in Requests \ {r} : request[q].file # request[r].file
    BY DEF TargetsArePrivate, Creating
  <2>1. request[r].file \in Files
    BY WorkingType DEF Creating, TypeOK, Request, Idle, Working
  <2> QED BY <2>1 DEF CvInv, TargetsArePrivate
<1>4. RowsAreSound'
  BY DEF CvInv, RowsAreSound
<1>5. SweepsExpired'
  <2>1. \A s \in Sweepers : sweep[s].todo \cup sweep[s].done \subseteq Files
    BY DEF TypeOK, Sweep
  <2> QED BY <2>1 DEF CvInv, SweepsExpired
<1>6. KnownFileIsReadable'
  BY DEF CvInv, KnownFileIsReadable
<1> QED BY <1>2, <1>3, <1>4, <1>5, <1>6 DEF CvInv

(* A cleanup job that moves on among expired files. *)
LEMMA SweepKeepsInv ==
  ASSUME TypeOK, CvInv, NEW s \in Sweepers, NEW n \in Sweep,
         sweep' = [sweep EXCEPT ![s] = n],
         UNCHANGED <<file, request>>, cited' = cited,
         \A f \in n.todo \cup n.done : file[f].expired
  PROVE  CvInv'
<1>1. \A t \in Sweepers : sweep'[t] = IF t = s THEN n ELSE sweep[t]
  BY DEF TypeOK
<1>2. SweepsExpired'
  BY <1>1 DEF CvInv, SweepsExpired
<1>3. WorkingFile' /\ TargetsArePrivate' /\ RowsAreSound' /\ KnownFileIsReadable'
  BY DEF CvInv, WorkingFile, TargetsArePrivate, RowsAreSound, KnownFileIsReadable,
         Creating
<1> QED BY <1>2, <1>3 DEF CvInv

(* A handler that answers: it ends, its file becomes known or stays so.     *)
LEMMA AnswerKeepsInv ==
  ASSUME TypeOK, CvInv, NEW r \in Requests, request[r].at = "analyse",
         file' = [file EXCEPT ![request[r].file].known = TRUE],
         Finish(r), UNCHANGED sweep,
         cited' \subseteq cited \cup {request[r].file}
  PROVE  CvInv'
<1> DEFINE f == request[r].file
<1>1. f \in Files /\ request[r] \in Working /\ file[f] \in File
  BY WorkingType DEF TypeOK, Working
<1>2. \A q \in Requests : request'[q] = IF q = r THEN Idle ELSE request[q]
  BY DEF TypeOK, Finish
<1>3. \A h \in Files : /\ file'[h].disk = file[h].disk
                        /\ file'[h].row = file[h].row
                        /\ file'[h].active = file[h].active
                        /\ file'[h].expired = file[h].expired
                        /\ file'[h].known = (file[h].known \/ h = f)
  BY <1>1 DEF TypeOK, File
<1>4. file[f].row # "none" /\ (~file[f].expired => file[f].row = "live" /\ file[f].disk)
  BY DEF CvInv, WorkingFile
<1>5. ASSUME NEW q \in Requests, request[q].at # "idle"
      PROVE  request[q].file \in Files
  BY <1>5, WorkingType DEF Working
<1>6. WorkingFile'
  <2> SUFFICES ASSUME NEW q \in Requests PROVE WorkingFile!(q)'
    BY DEF WorkingFile
  <2>1. CASE q = r \/ request[q].at = "idle"
    BY <1>2, <2>1 DEF Creating, Idle
  <2>2. CASE q # r /\ request[q].at # "idle"
    BY <1>2, <1>3, <1>5, <2>2 DEF CvInv, WorkingFile, Creating
  <2> QED BY <2>1, <2>2
<1>7. TargetsArePrivate'
  <2> SUFFICES ASSUME NEW q \in Requests, request'[q].own \/ Creating(q)'
               PROVE  /\ ~file'[request'[q].file].known
                      /\ ~file'[request'[q].file].active
                      /\ \A p \in Requests \ {q} : request'[p].file # request'[q].file
    BY DEF TargetsArePrivate
  <2>1. q # r /\ request'[q] = request[q] /\ (request[q].own \/ Creating(q))
    BY <1>2 DEF Creating, Idle
  <2>2. request[q].file \in Files /\ NoFile \notin Files
    BY <2>1, CvConstants, WorkingType DEF Creating, TypeOK, Request, Idle, Working
  <2>3. request[q].file # f
    BY <2>1 DEF CvInv, TargetsArePrivate
  <2> QED BY <1>2, <1>3, <2>1, <2>2, <2>3 DEF CvInv, TargetsArePrivate, Idle
<1>8. RowsAreSound'
  BY <1>3, <1>4 DEF CvInv, RowsAreSound
<1>9. SweepsExpired'
  <2>1. \A s \in Sweepers : sweep[s].todo \cup sweep[s].done \subseteq Files
    BY DEF TypeOK, Sweep
  <2> QED BY <1>3, <2>1 DEF CvInv, SweepsExpired
<1>10. KnownFileIsReadable'
  BY <1>3, <1>4 DEF CvInv, KnownFileIsReadable
<1> QED BY <1>6, <1>7, <1>8, <1>9, <1>10 DEF CvInv

(* A handler that removes its own upload: disk, then row.                   *)
LEMMA RemovalKeepsInv ==
  ASSUME TypeOK, CvInv, NEW r \in Requests, Unlink(r) \/ Mark(r)
  PROVE  CvInv'
<1> DEFINE f == request[r].file
<1>1. f \in Files /\ request[r] \in Working /\ file[f] \in File
  BY WorkingType DEF TypeOK, Working, Unlink, Mark
<1>2. request[r].own
  BY DEF Unlink, Mark, CvInv, WorkingFile
<1>3. \A q \in Requests \ {r} : request'[q] = request[q]
  BY DEF Unlink, Mark, Goto, Finish, TypeOK
<1>4. \/ request'[r] = Idle
      \/ request'[r].at = "mark" /\ request'[r].own /\ request'[r].file = f
  BY <1>1, <1>2 DEF Unlink, Mark, Goto, Finish, TypeOK, Working
<1>5. \A h \in Files : h # f => file'[h] = file[h]
  BY <1>1 DEF Unlink, Mark, Deleted, TypeOK
<1>6. /\ file'[f].known = file[f].known
      /\ file'[f].expired = file[f].expired
      /\ file'[f].active => file[f].active
      /\ file'[f].row = "none" => file[f].row = "none"
  <2>1. CASE Unlink(r)
    BY <1>1, <2>1 DEF Unlink, TypeOK, File
  <2>2. CASE Mark(r)
    <3>1. \/ file'[f] = file[f]
          \/ file'[f] = [file[f] EXCEPT !.row = "deleted", !.active = FALSE]
      BY <1>1, <2>2 DEF Mark, Deleted
    <3> QED BY <1>1, <3>1 DEF File
  <2> QED BY <2>1, <2>2
<1>7. ~file[f].known /\ \A q \in Requests \ {r} : request[q].file # f
  BY <1>2 DEF CvInv, TargetsArePrivate
<1>8. ASSUME NEW q \in Requests, request[q].at # "idle"
      PROVE  request[q].file \in Files
  BY <1>8, WorkingType DEF Working
<1>9. WorkingFile'
  <2> SUFFICES ASSUME NEW q \in Requests PROVE WorkingFile!(q)'
    BY DEF WorkingFile
  <2>1. CASE q = r
    BY <1>4, <2>1 DEF Creating, Idle
  <2>2. CASE q # r /\ request[q].at = "idle"
    BY <1>3, <2>2 DEF Creating
  <2>3. CASE q # r /\ request[q].at # "idle"
    <3>1. request[q].file \in Files /\ request[q].file # f
      BY <1>7, <1>8, <2>3
    <3> QED BY <1>3, <1>5, <2>3, <3>1 DEF CvInv, WorkingFile, Creating
  <2> QED BY <2>1, <2>2, <2>3
<1>10. TargetsArePrivate'
  <2> SUFFICES ASSUME NEW q \in Requests, request'[q].own \/ Creating(q)'
               PROVE  /\ ~file'[request'[q].file].known
                      /\ ~file'[request'[q].file].active
                      /\ \A p \in Requests \ {q} : request'[p].file # request'[q].file
    BY DEF TargetsArePrivate
  <2>1. NoFile \notin Files
    BY CvConstants
  <2>2. CASE q = r
    <3>1. request'[r].file = f
      BY <1>4, <2>2 DEF Creating, Idle
    <3> QED BY <1>2, <1>3, <1>6, <1>7, <2>2, <3>1 DEF CvInv, TargetsArePrivate
  <2>3. CASE q # r
    <3>1. request'[q] = request[q] /\ (request[q].own \/ Creating(q))
      BY <1>3, <2>3 DEF Creating
    <3>2. request[q].file \in Files /\ request[q].file # f
      BY <1>7, <2>3, <3>1, WorkingType DEF Creating, TypeOK, Request, Idle, Working
    <3>3. \A p \in Requests \ {q} : request'[p].file # request[q].file
      BY <1>3, <1>4, <2>1, <3>1, <3>2 DEF CvInv, TargetsArePrivate, Idle
    <3> QED BY <1>5, <3>1, <3>2, <3>3 DEF CvInv, TargetsArePrivate
  <2> QED BY <2>2, <2>3
<1>11. RowsAreSound'
  BY <1>5, <1>6, <1>7 DEF CvInv, RowsAreSound, Unlink, Mark
<1>12. SweepsExpired'
  <2>1. \A s \in Sweepers : sweep[s].todo \cup sweep[s].done \subseteq Files
    BY DEF TypeOK, Sweep
  <2> QED BY <1>5, <1>6, <2>1 DEF CvInv, SweepsExpired, Unlink, Mark
<1>13. KnownFileIsReadable'
  BY <1>5, <1>6, <1>7 DEF CvInv, KnownFileIsReadable
<1> QED BY <1>9, <1>10, <1>11, <1>12, <1>13 DEF CvInv

(* An upload that commits its row.  Without lost answers the new row is    *)
(* known at once, or inactive and owned by the analysis.                   *)
LEMMA CreationKeepsInv ==
  ASSUME TypeOK, CvInv, NEW r \in Requests, CreateInactive(r) \/ CreateActive(r)
  PROVE  CvInv'
<1> DEFINE f == request[r].file
<1>1. f \in Files /\ request[r] \in Working /\ Creating(r)
  BY WorkingType DEF Working, CreateInactive, CreateActive, Creating
<1>2. \A q \in Requests \ {r} : request'[q] = request[q] /\ request[q].file # f
  BY <1>1 DEF CreateInactive, CreateActive, Created, Finish, TypeOK, CvInv,
     TargetsArePrivate
<1>3. \/ request'[r] = Idle /\ file'[f].known
      \/ /\ request'[r].at = "analyse" /\ request'[r].own
         /\ request'[r].file = f
         /\ ~file'[f].known /\ ~file'[f].active
  <2>1. NewRow(r).known = (request[r].kind = "upload")
    BY DEF NewRow
  <2>2. NewRow(r).active => request[r].kind = "upload"
    BY <1>1 DEF NewRow, CvInv, WorkingFile
  <2>3. file'[f] = NewRow(r)
    BY <1>1 DEF CreateInactive, CreateActive, HandedOver, TypeOK
  <2>4. IF request[r].kind = "upload" THEN request'[r] = Idle
        ELSE /\ request'[r].at = "analyse" /\ request'[r].own
             /\ request'[r].file = f
    BY <1>1 DEF CreateInactive, CreateActive, Created, Finish, TypeOK, Working
  <2> QED BY <2>1, <2>2, <2>3, <2>4
<1>4. file'[f].row = "live" /\ file'[f].disk /\ ~file'[f].expired
  BY <1>1 DEF CreateInactive, CreateActive, HandedOver, NewRow, TypeOK, CvInv,
     WorkingFile
<1>5. \A h \in Files : h # f =>
         /\ file'[h].disk = file[h].disk
         /\ file'[h].row = file[h].row
         /\ file'[h].expired = file[h].expired
         /\ file'[h].known = file[h].known
         /\ file'[h].active => file[h].active
  BY <1>1 DEF CreateInactive, CreateActive, HandedOver, TypeOK, File
<1>6. file[f].row = "none" /\ ~file[f].known /\ ~file[f].expired /\ f \notin cited
  BY <1>1 DEF CvInv, WorkingFile, TargetsArePrivate, RowsAreSound
<1>7. file'[f].active => file'[f].known
  BY <1>1, <1>3 DEF CreateInactive, CreateActive, HandedOver, NewRow, TypeOK,
     CvInv, WorkingFile
<1>8. cited' = cited /\ sweep' = sweep
  BY DEF CreateInactive, CreateActive
<1>9. WorkingFile'
  <2> SUFFICES ASSUME NEW q \in Requests PROVE WorkingFile!(q)'
    BY DEF WorkingFile
  <2>1. CASE q = r
    BY <1>3, <1>4, <2>1 DEF Creating, Idle
  <2>2. CASE q # r /\ request[q].at = "idle"
    BY <1>2, <2>2 DEF Creating
  <2>3. CASE q # r /\ request[q].at # "idle"
    <3>1. request[q].file \in Files /\ request[q].file # f
      BY <1>2, <2>3, WorkingType DEF Working
    <3> QED BY <1>2, <1>5, <2>3, <3>1 DEF CvInv, WorkingFile, Creating
  <2> QED BY <2>1, <2>2, <2>3
<1>10. TargetsArePrivate'
  <2> SUFFICES ASSUME NEW q \in Requests, request'[q].own \/ Creating(q)'
               PROVE  /\ ~file'[request'[q].file].known
                      /\ ~file'[request'[q].file].active
                      /\ \A p \in Requests \ {q} : request'[p].file # request'[q].file
    BY DEF TargetsArePrivate
  <2>1. NoFile \notin Files
    BY CvConstants
  <2>2. CASE q = r
    BY <1>2, <1>3, <2>2 DEF Creating, Idle
  <2>3. CASE q # r
    <3>1. request'[q] = request[q] /\ (request[q].own \/ Creating(q))
      BY <1>2, <2>3 DEF Creating
    <3>2. request[q].file \in Files /\ request[q].file # f
      BY <1>2, <2>3, <3>1, WorkingType DEF Creating, TypeOK, Request, Idle, Working
    <3>3. \A p \in Requests \ {q} : request'[p].file # request[q].file
      BY <1>2, <1>3, <2>1, <3>1, <3>2 DEF CvInv, TargetsArePrivate, Idle
    <3> QED BY <1>5, <3>1, <3>2, <3>3 DEF CvInv, TargetsArePrivate
  <2> QED BY <2>2, <2>3
<1>11. RowsAreSound'
  BY <1>4, <1>5, <1>6, <1>7, <1>8 DEF CvInv, RowsAreSound
<1>12. SweepsExpired'
  <2>1. \A s \in Sweepers : sweep[s].todo \cup sweep[s].done \subseteq Files
    BY DEF TypeOK, Sweep
  <2> QED BY <1>5, <1>6, <1>8, <2>1 DEF CvInv, SweepsExpired
<1>13. KnownFileIsReadable'
  BY <1>4, <1>5 DEF CvInv, KnownFileIsReadable
<1> QED BY <1>9, <1>10, <1>11, <1>12, <1>13 DEF CvInv

(* A new file on disk, owned by the handler that wrote it.                  *)
LEMMA SaveKeepsInv ==
  ASSUME TypeOK, CvInv, NEW r \in Requests, NEW f \in Files,
         NEW kind \in {"upload", "analyse"}, NEW active \in BOOLEAN,
         NEW key \in RunKeys, SaveFile(r, f, kind, active, key)
  PROVE  CvInv'
<1>1. file[f] = Absent /\ \A q \in Requests : request[q].file # f
  BY DEF SaveFile, Fresh
<1>2. \A q \in Requests \ {r} : request'[q] = request[q]
  BY DEF SaveFile, TypeOK
<1>3. /\ request'[r].at = "create" /\ request'[r].file = f
      /\ request'[r].kind = kind /\ request'[r].active = active
      /\ active => kind = "upload"
  BY DEF SaveFile, TypeOK
<1>4. \A h \in Files : h # f => file'[h] = file[h]
  BY DEF SaveFile, TypeOK
<1>5. /\ file'[f].row = "none" /\ file'[f].disk /\ ~file'[f].known
      /\ ~file'[f].active /\ ~file'[f].expired
  BY <1>1 DEF SaveFile, TypeOK, Absent
<1>6. ~file[f].known /\ ~file[f].expired /\ f \notin cited
  BY <1>1 DEF CvInv, RowsAreSound, Absent
<1>7. cited' = cited /\ sweep' = sweep
  BY DEF SaveFile
<1>8. WorkingFile'
  <2> SUFFICES ASSUME NEW q \in Requests PROVE WorkingFile!(q)'
    BY DEF WorkingFile
  <2>1. CASE q = r
    BY <1>3, <1>5, <2>1 DEF Creating
  <2>2. CASE q # r /\ request[q].at = "idle"
    BY <1>2, <2>2 DEF Creating
  <2>3. CASE q # r /\ request[q].at # "idle"
    <3>1. request[q].file \in Files /\ request[q].file # f
      BY <1>1, <2>3, WorkingType DEF Working
    <3> QED BY <1>2, <1>4, <2>3, <3>1 DEF CvInv, WorkingFile, Creating
  <2> QED BY <2>1, <2>2, <2>3
<1>9. TargetsArePrivate'
  <2> SUFFICES ASSUME NEW q \in Requests, request'[q].own \/ Creating(q)'
               PROVE  /\ ~file'[request'[q].file].known
                      /\ ~file'[request'[q].file].active
                      /\ \A p \in Requests \ {q} : request'[p].file # request'[q].file
    BY DEF TargetsArePrivate
  <2>1. CASE q = r
    BY <1>1, <1>2, <1>3, <1>5, <2>1
  <2>2. CASE q # r
    <3>1. request'[q] = request[q] /\ (request[q].own \/ Creating(q))
      BY <1>2, <2>2 DEF Creating
    <3>2. request[q].file \in Files /\ request[q].file # f
      BY <1>1, <3>1, WorkingType DEF Creating, TypeOK, Request, Idle, Working
    <3> QED BY <1>2, <1>3, <1>4, <3>1, <3>2 DEF CvInv, TargetsArePrivate
  <2> QED BY <2>1, <2>2
<1>10. RowsAreSound'
  BY <1>4, <1>5, <1>6, <1>7 DEF CvInv, RowsAreSound
<1>11. SweepsExpired'
  <2>1. \A s \in Sweepers : sweep[s].todo \cup sweep[s].done \subseteq Files
    BY DEF TypeOK, Sweep
  <2> QED BY <1>4, <1>6, <1>7, <2>1 DEF CvInv, SweepsExpired
<1>12. KnownFileIsReadable'
  BY <1>4, <1>5 DEF CvInv, KnownFileIsReadable
<1> QED BY <1>8, <1>9, <1>10, <1>11, <1>12 DEF CvInv

(* A handler that refers to a file it found: that file is known.            *)
LEMMA ReferKeepsInv ==
  ASSUME TypeOK, CvInv, NEW r \in Requests, NEW f \in Files,
         NEW key \in RunKeys, Refer(r, f, key)
  PROVE  CvInv'
<1>1. file[f].known
  BY DEF Refer, Active, CvInv, RowsAreSound
<1>2. /\ \A q \in Requests \ {r} : request'[q] = request[q]
      /\ request'[r].at = "read" /\ ~request'[r].own /\ request'[r].file = f
      /\ file' = file /\ cited' = cited /\ sweep' = sweep
  BY DEF Refer, TypeOK
<1>3. WorkingFile'
  <2> SUFFICES ASSUME NEW q \in Requests PROVE WorkingFile!(q)'
    BY DEF WorkingFile
  <2>1. CASE q = r
    BY <1>1, <1>2, <2>1 DEF Creating
  <2>2. CASE q # r
    BY <1>2, <2>2 DEF CvInv, WorkingFile, Creating
  <2> QED BY <2>1, <2>2
<1>4. TargetsArePrivate'
  BY <1>1, <1>2 DEF CvInv, TargetsArePrivate, Creating
<1>5. RowsAreSound' /\ SweepsExpired' /\ KnownFileIsReadable'
  BY <1>2 DEF CvInv, RowsAreSound, SweepsExpired, KnownFileIsReadable
<1> QED BY <1>3, <1>4, <1>5 DEF CvInv

(* A handler that gives up or is moved on without touching a file.          *)
LEMMA QuietKeepsInv ==
  ASSUME TypeOK, CvInv, NEW r \in Requests,
         \/ Deactivate(r) \/ CreateConflicts(r) \/ ReadBytes(r)
         \/ AnalysisFails(r) \/ PersistConflicts(r)
         \/ CreateFails(r) \/ UnlinkFails(r) \/ MarkFails(r) \/ CrashRequest(r)
  PROVE  CvInv'
<1>1. request[r].at # "idle" /\ UNCHANGED <<file, cited, sweep>>
  BY DEF Deactivate, CreateConflicts, ReadBytes, AnalysisFails, PersistConflicts,
         CreateFails, UnlinkFails, MarkFails, CrashRequest
<1>2. request[r] \in Working
  BY <1>1, WorkingType
<1>3. Idle \in Request
  BY DEF Request
<1>4. CASE Finish(r)
  BY <1>1, <1>3, <1>4, MoveKeepsInv DEF Finish
<1>5. CASE Goto(r, "unlink") /\ request[r].own
  <2>1. [request[r] EXCEPT !.at = "unlink"] \in Request
    BY <1>2, RequestType DEF Request, Points
  <2> QED BY <1>1, <1>2, <1>5, <2>1, MoveKeepsInv DEF Goto, Working
<1>6. CASE Goto(r, "mark") /\ request[r].at = "unlink"
  <2>1. [request[r] EXCEPT !.at = "mark"] \in Request
    BY <1>2, RequestType DEF Request, Points
  <2>2. request[r].own
    BY <1>6 DEF CvInv, WorkingFile
  <2> QED BY <1>1, <1>2, <1>6, <2>1, <2>2, MoveKeepsInv DEF Goto, Working
<1>7. CASE /\ Goto(r, "analyse") /\ request[r].at = "read"
           /\ file[request[r].file].disk /\ ~request[r].own
  <2>1. [request[r] EXCEPT !.at = "analyse"] \in Request
    BY <1>2, RequestType DEF Request, Points
  <2> QED BY <1>1, <1>2, <1>7, <2>1, MoveKeepsInv DEF Goto, Working
<1>8. CASE Deactivate(r)
  <2> DEFINE n == [request[r] EXCEPT !.at = "insert", !.seen = Active]
  <2>1. n \in Working
    BY <1>2, RequestType DEF Active, Live
  <2>2. request[r].active /\ request[r].kind = "upload"
    BY <1>8 DEF Deactivate, CvInv, WorkingFile, Creating
  <2>3. /\ n.at = "insert" /\ n.file = request[r].file /\ n.own = request[r].own
        /\ n.active = request[r].active /\ n.kind = request[r].kind
    BY <1>2 DEF Working
  <2>4. request' = [request EXCEPT ![r] = n] /\ request[r].at = "create"
    BY <1>8 DEF Deactivate
  <2>5. n \in Request
    BY <2>1 DEF Request
  <2> HIDE DEF n
  <2> QED BY <1>1, <2>2, <2>3, <2>4, <2>5, MoveKeepsInv
<1>9. CASE Abandon(r)
  BY <1>4, <1>5, <1>9 DEF Abandon
<1>10. CASE ReadBytes(r)
  <2>1. ~request[r].own
    BY <1>10 DEF ReadBytes, CvInv, WorkingFile
  <2> QED BY <1>7, <1>9, <1>10, <2>1 DEF ReadBytes
<1> QED
  BY <1>4, <1>6, <1>8, <1>9, <1>10
  DEF CreateConflicts, AnalysisFails, PersistConflicts, CreateFails, UnlinkFails,
      MarkFails, CrashRequest

(* What cleanup jobs and the passing of time do.                           *)
LEMMA CleanupKeepsInv ==
  ASSUME TypeOK, CvInv,
         \/ \E s \in Sweepers : SweepAdvance(s) \/ SweepTrouble(s)
         \/ \E f \in Files : Expire(f)
  PROVE  CvInv'
<1>1. TypeOK'
  <2>1. [Next]_vars
    BY DEF Next
  <2> QED BY <2>1, TypeNext
<1>2. file' \in [Files -> File]
  BY <1>1 DEF TypeOK
<1>3. ASSUME NEW s \in Sweepers, SweepStart(s) PROVE CvInv'
  <2> DEFINE n == [at |-> "delete", todo |-> Expired, done |-> {}]
  <2>1. n \in Sweep /\ \A f \in n.todo \cup n.done : file[f].expired
    BY DEF Sweep, Expired, Usable, Live
  <2>2. sweep' = [sweep EXCEPT ![s] = n] /\ UNCHANGED <<file, request>> /\ cited' = cited
    BY <1>3 DEF SweepStart
  <2> HIDE DEF n
  <2> QED BY <2>1, <2>2, SweepKeepsInv
<1>4. ASSUME NEW s \in Sweepers, NEW f \in Files, SweepDelete(s, f) PROVE CvInv'
  <2>1. file[f].expired /\ file[f].row # "none" /\ file[f] \in File
    <3>1. file[f].expired /\ file[f] \in File
      BY <1>4 DEF SweepDelete, CvInv, SweepsExpired, TypeOK
    <3> QED BY <3>1 DEF CvInv, RowsAreSound
  <2>2. \A h \in Files : h # f => file'[h] = file[h]
    BY <1>4 DEF SweepDelete, TypeOK
  <2>3. /\ file'[f].row = file[f].row /\ file'[f].known = file[f].known
        /\ file'[f].active = file[f].active /\ file'[f].expired
    BY <1>4, <2>1 DEF SweepDelete, TypeOK, File
  <2>4. \A t \in Sweepers : sweep'[t].todo \cup sweep'[t].done
                             \subseteq sweep[t].todo \cup sweep[t].done
    BY <1>4 DEF SweepDelete, TypeOK, Sweep
  <2>5. cited' = cited /\ request' = request
    BY <1>4 DEF SweepDelete
  <2> QED BY <1>2, <2>1, <2>2, <2>3, <2>4, <2>5, ExpiryKeepsInv
<1>5. ASSUME NEW s \in Sweepers, NEW f \in Files, SweepDeleteFails(s, f)
      PROVE  CvInv'
  <2>1. \A t \in Sweepers : sweep'[t].todo \cup sweep'[t].done
                             \subseteq sweep[t].todo \cup sweep[t].done
    BY <1>5 DEF SweepDeleteFails, TypeOK, Sweep
  <2> QED BY <1>2, <1>5, <2>1, ExpiryKeepsInv DEF SweepDeleteFails
<1>6. ASSUME NEW s \in Sweepers, SweepMark(s) \/ SweepFails(s) \/ CrashSweep(s)
      PROVE  CvInv'
  <2>1. \A t \in Sweepers : sweep'[t].todo \cup sweep'[t].done
                             \subseteq sweep[t].todo \cup sweep[t].done
    BY <1>6 DEF SweepMark, SweepFails, CrashSweep, TypeOK, Resting
  <2>2. ASSUME NEW f \in Files
        PROVE  \/ file'[f] = file[f]
               \/ /\ file[f].row # "none" /\ file'[f].row # "none"
                  /\ file'[f].known = file[f].known
                  /\ file'[f].active => file[f].active
                  /\ file'[f].expired
    <3>1. CASE file' = file
      BY <3>1
    <3>2. CASE SweepMark(s) /\ f \in sweep[s].done \cap Live
      <4>1. file[f].expired /\ file[f] \in File /\ file[f].row = "live"
        BY <3>2 DEF CvInv, SweepsExpired, TypeOK, Live
      <4>2. file'[f] = [file[f] EXCEPT !.row = "deleted", !.active = FALSE]
        BY <3>2 DEF SweepMark, Deleted
      <4> QED BY <4>1, <4>2 DEF File
    <3>3. CASE SweepMark(s) /\ f \notin sweep[s].done \cap Live
      BY <3>3 DEF SweepMark, Deleted
    <3> QED BY <1>6, <3>1, <3>2, <3>3 DEF SweepFails, CrashSweep
  <2>3. cited' = cited /\ request' = request
    BY <1>6 DEF SweepMark, SweepFails, CrashSweep
  <2> QED BY <1>2, <2>1, <2>2, <2>3, ExpiryKeepsInv
<1>7. ASSUME NEW f \in Files, Expire(f) PROVE CvInv'
  <2>1. file[f].row = "live" /\ file[f] \in File
    BY <1>7 DEF Expire, Usable, Live, TypeOK
  <2>2. \A h \in Files : h # f => file'[h] = file[h]
    BY <1>7 DEF Expire, TypeOK
  <2>3. /\ file'[f].row = file[f].row /\ file'[f].known = file[f].known
        /\ file'[f].active = file[f].active /\ file'[f].expired
    BY <1>7, <2>1 DEF Expire, TypeOK, File
  <2>4. cited' = cited /\ request' = request /\ sweep' = sweep
    BY <1>7 DEF Expire
  <2> QED BY <1>2, <2>1, <2>2, <2>3, <2>4, ExpiryKeepsInv
<1> QED BY <1>3, <1>4, <1>5, <1>6, <1>7 DEF SweepAdvance, SweepTrouble

(* The invariant is inductive when no commit answer is lost.               *)
LEMMA CvInvNext ==
  ASSUME "lost" \notin Faults
  PROVE  TypeOK /\ CvInv /\ [Next]_vars => CvInv'
<1> SUFFICES ASSUME TypeOK, CvInv, [Next]_vars PROVE CvInv'
  OBVIOUS
<1>1. ASSUME NEW r \in Requests, Begin(r) PROVE CvInv'
  BY <1>1, SaveKeepsInv, ReferKeepsInv DEF Begin
<1>2. ASSUME NEW r \in Requests, Advance(r) PROVE CvInv'
  <2>1. CASE CreateInactive(r) \/ CreateActive(r)
    BY <2>1, CreationKeepsInv
  <2>2. CASE AnswerOnly(r) \/ \E b \in BOOLEAN : Persist(r, b)
    BY <2>2, AnswerKeepsInv DEF AnswerOnly, Persist
  <2>3. CASE Unlink(r) \/ Mark(r)
    BY <2>3, RemovalKeepsInv
  <2> QED BY <1>2, <2>1, <2>2, <2>3, QuietKeepsInv DEF Advance
<1>3. ASSUME NEW r \in Requests, Trouble(r) PROVE CvInv'
  BY <1>3, QuietKeepsInv DEF Trouble, CreateAnswerLost, PersistAnswerLost, Fail
<1>4. CASE UNCHANGED vars
  BY <1>4 DEF vars, CvInv, WorkingFile, TargetsArePrivate, RowsAreSound,
     SweepsExpired, KnownFileIsReadable, Creating
<1> QED BY <1>1, <1>2, <1>3, <1>4, CleanupKeepsInv DEF Next

(* The invariant holds from the start.                                     *)
LEMMA CvInvInit == Init => CvInv
  BY DEF Init, CvInv, WorkingFile, TargetsArePrivate, RowsAreSound,
     SweepsExpired, KnownFileIsReadable, Creating, Idle, Absent, Resting

(* The invariant of the files, when no answer of a commit is lost.         *)
THEOREM CvCorrect ==
  ASSUME "lost" \notin Faults
  PROVE  Spec => []CvInv
<1>1. TypeOK /\ CvInv /\ [Next]_vars => CvInv'
  BY CvInvNext
<1> QED BY <1>1, CvInvInit, TypeCorrect, PTL DEF Spec

(* The file of a persisted analysis is there until it expires: no failing  *)
(* upload, failing analysis or cleanup removes it before.                  *)
THEOREM SnapshotsKeepTheirFiles ==
  ASSUME "lost" \notin Faults
  PROVE  Spec => []SnapshotKeepsItsFile
<1>1. CvInv /\ TypeOK => SnapshotKeepsItsFile
  BY DEF CvInv, SnapshotKeepsItsFile, RowsAreSound, KnownFileIsReadable, TypeOK
<1> QED BY <1>1, CvCorrect, TypeCorrect, PTL

(* A file whose id the client was given can be analysed until it expires.  *)
THEOREM KnownFilesAreReadable ==
  ASSUME "lost" \notin Faults
  PROVE  Spec => []KnownFileIsReadable
<1>1. CvInv => KnownFileIsReadable
  BY DEF CvInv
<1> QED BY <1>1, CvCorrect, PTL

(* What the catch block removes is nobody else's.                          *)
THEOREM CleanupTargetsArePrivate ==
  ASSUME "lost" \notin Faults
  PROVE  Spec => []CleanupTargetIsPrivate
<1>1. CvInv /\ TypeOK => CleanupTargetIsPrivate
  BY DEF CvInv, CleanupTargetIsPrivate, TargetsArePrivate, RowsAreSound, TypeOK
<1> QED BY <1>1, CvCorrect, TypeCorrect, PTL

(* In one step an active file stays active, had expired, or another one    *)
(* takes its place.                                                        *)
LEMMA ActiveStep ==
  ASSUME "lost" \notin Faults, TypeOK, CvInv, Next, NEW f \in Active
  PROVE  f \in Active' \/ f \in Expired \/ Active' # {}
<1>1. f \in Files /\ file[f] \in File /\ file[f].row = "live" /\ file[f].active
  BY DEF Active, Live, TypeOK
<1>2. ASSUME file'[f].row = file[f].row, file'[f].active = file[f].active
      PROVE  f \in Active'
  BY <1>1, <1>2 DEF Active, Live
<1>3. ASSUME NEW r \in Requests, Begin(r) PROVE f \in Active'
  <2>1. ASSUME NEW g \in Files, NEW key \in RunKeys,
               NEW kind \in {"upload", "analyse"}, NEW active \in BOOLEAN,
               SaveFile(r, g, kind, active, key)
        PROVE  f \in Active'
    <3>1. g # f
      BY <1>1, <2>1 DEF SaveFile, Fresh, Absent
    <3> QED BY <1>1, <1>2, <2>1, <3>1 DEF SaveFile, TypeOK
  <2> QED BY <1>2, <1>3, <2>1 DEF Begin, Refer
<1>4. ASSUME NEW r \in Requests, CreateInactive(r) PROVE f \in Active'
  <2>1. request[r].file # f
    BY <1>1, <1>4 DEF CreateInactive, CvInv, WorkingFile, Creating
  <2> QED BY <1>1, <1>2, <1>4, <2>1 DEF CreateInactive, TypeOK
<1>5. ASSUME NEW r \in Requests, CreateActive(r) PROVE f \in Active' \/ Active' # {}
  <2>1. request[r].file \in Files /\ request[r].file # f
    BY <1>1, <1>5, WorkingType DEF CreateActive, Working, CvInv, WorkingFile, Creating
  <2>2. CASE f \in request[r].seen
    <3>1. file'[request[r].file].row = "live"
      BY <1>5, <2>1 DEF CreateActive, HandedOver, NewRow
    <3>2. file'[request[r].file].active = request[r].active
      BY <1>5, <2>1 DEF CreateActive, HandedOver, NewRow
    <3>3. CASE request[r].active
      BY <2>1, <3>1, <3>2, <3>3 DEF Active, Live
    <3>4. CASE ~request[r].active
      BY <1>5, <3>4 DEF CreateActive, CvInv, WorkingFile
    <3> QED BY <3>3, <3>4
  <2>3. CASE f \notin request[r].seen
    BY <1>1, <1>2, <1>5, <2>1, <2>3 DEF CreateActive, HandedOver
  <2> QED BY <2>2, <2>3
<1>6. ASSUME NEW r \in Requests, Mark(r) PROVE f \in Active'
  <2>1. request[r].file # f
    BY <1>1, <1>6 DEF Mark, CvInv, WorkingFile, TargetsArePrivate
  <2> QED BY <1>1, <1>2, <1>6, <2>1 DEF Mark, Deleted
<1>7. ASSUME NEW g \in Files, NEW b \in BOOLEAN,
             \/ file' = [file EXCEPT ![g].known = b]
             \/ file' = [file EXCEPT ![g].disk = b]
             \/ file' = [file EXCEPT ![g].expired = b]
      PROVE  f \in Active'
  <2>1. CASE g # f
    BY <1>1, <1>2, <1>7, <2>1 DEF TypeOK
  <2>2. CASE g = f
    <3>1. \/ file'[f] = [file[f] EXCEPT !.known = b]
          \/ file'[f] = [file[f] EXCEPT !.disk = b]
          \/ file'[f] = [file[f] EXCEPT !.expired = b]
      BY <1>1, <1>7, <2>2 DEF TypeOK
    <3>2. file'[f].row = file[f].row /\ file'[f].active = file[f].active
      BY <1>1, <3>1 DEF File
    <3> QED BY <1>2, <3>2
  <2> QED BY <2>1, <2>2
<1>8. ASSUME file' = file PROVE f \in Active'
  BY <1>2, <1>8
<1>9. ASSUME NEW s \in Sweepers, SweepMark(s)
      PROVE  f \in Active' \/ f \in Expired
  <2>1. CASE f \in sweep[s].done
    BY <1>1, <2>1 DEF CvInv, SweepsExpired, Expired, Usable, Live
  <2>2. CASE f \notin sweep[s].done
    BY <1>1, <1>2, <1>9, <2>2 DEF SweepMark, Deleted
  <2> QED BY <2>1, <2>2
<1>10. ASSUME NEW r \in Requests, Advance(r) PROVE f \in Active' \/ Active' # {}
  <2>1. CASE CreateInactive(r) \/ CreateActive(r) \/ Mark(r)
    BY <2>1, <1>4, <1>5, <1>6
  <2>2. CASE AnswerOnly(r) \/ Unlink(r) \/ \E b \in BOOLEAN : Persist(r, b)
    <3>1. request[r].file \in Files
      BY <2>2, WorkingType DEF AnswerOnly, Unlink, Persist, Working
    <3> QED BY <2>2, <3>1, <1>7 DEF AnswerOnly, Unlink, Persist
  <2>3. CASE \/ Deactivate(r) \/ CreateConflicts(r) \/ ReadBytes(r)
             \/ AnalysisFails(r) \/ PersistConflicts(r)
    BY <2>3, <1>8
    DEF Deactivate, CreateConflicts, ReadBytes, AnalysisFails, PersistConflicts
  <2> QED BY <1>10, <2>1, <2>2, <2>3 DEF Advance
<1>11. ASSUME NEW r \in Requests, Trouble(r) PROVE f \in Active'
  BY <1>11, <1>8
  DEF Trouble, CreateFails, CreateAnswerLost, UnlinkFails, MarkFails, CrashRequest,
      PersistAnswerLost, Fail
<1>12. ASSUME NEW s \in Sweepers, SweepAdvance(s) \/ SweepTrouble(s)
       PROVE  f \in Active' \/ f \in Expired
  BY <1>12, <1>7, <1>8, <1>9
  DEF SweepAdvance, SweepTrouble, SweepStart, SweepDelete, SweepFails, CrashSweep,
      SweepDeleteFails
<1>13. ASSUME NEW g \in Files, Expire(g) PROVE f \in Active'
  BY <1>13, <1>7 DEF Expire
<1> QED BY <1>3, <1>10, <1>11, <1>12, <1>13 DEF Next

(* A user with an active CV loses it only to another one, or because it    *)
(* expired.                                                                *)
THEOREM ActiveCvIsKept ==
  ASSUME "lost" \notin Faults
  PROVE  Spec => ActiveCvOnlyExpires
<1>1. TypeOK /\ CvInv /\ [Next]_vars =>
        [Active # {} /\ Active' = {} => Active \subseteq Expired]_vars
  BY ActiveStep
<1> QED BY <1>1, CvCorrect, TypeCorrect, PTL DEF Spec, ActiveCvOnlyExpires

(***************************************************************************)
(* Deleted rows have no bytes.                                             *)
(***************************************************************************)

(* Where no unlink of a catch block fails, whoever is about to mark a row  *)
(* has removed its file, and a removed file never comes back.              *)
MarkedAreGone ==
    \A r \in Requests : request[r].at = "mark" => ~file[request[r].file].disk

SweptAreGone ==
    \A s \in Sweepers :
       /\ \A f \in sweep[s].todo \cup sweep[s].done : file[f].row # "none"
       /\ \A f \in sweep[s].done : ~file[f].disk

GoneInv == DeletedMeansGone /\ MarkedAreGone /\ SweptAreGone

(* A step keeps the invariant when it brings back no bytes and no missing  *)
(* row, marks only rows without bytes, and lets nobody come to mark others. *)
LEMMA GoneKept ==
  ASSUME TypeOK, GoneInv,
         \A f \in Files :
            /\ file'[f].disk => file[f].disk
            /\ file'[f].row = "none" => file[f].row = "none"
            /\ file'[f].row = "deleted" => file[f].row = "deleted" \/ ~file[f].disk,
         \A r \in Requests : request'[r].at = "mark" =>
            /\ request'[r].file \in Files
            /\ ~file'[request'[r].file].disk,
         \A s \in Sweepers :
            /\ \A f \in sweep'[s].todo \cup sweep'[s].done :
                  f \in Files /\ file[f].row # "none"
            /\ \A f \in sweep'[s].done : ~file'[f].disk
  PROVE  GoneInv'
<1>1. DeletedMeansGone'
  BY DEF GoneInv, DeletedMeansGone
<1>2. MarkedAreGone'
  BY DEF MarkedAreGone
<1>3. SweptAreGone'
  BY DEF SweptAreGone
<1> QED BY <1>1, <1>2, <1>3 DEF GoneInv

(* A step of one handler, the cleanup jobs apart.                          *)
LEMMA GoneHandler ==
  ASSUME TypeOK, GoneInv, NEW r \in Requests, sweep' = sweep,
         \A f \in Files :
            /\ file'[f].disk => file[f].disk
            /\ file'[f].row = "none" => file[f].row = "none"
            /\ file'[f].row = "deleted" => file[f].row = "deleted" \/ ~file[f].disk,
         \A q \in Requests \ {r} : request'[q] = request[q],
         request'[r].at = "mark" => /\ request'[r].file \in Files
                                    /\ ~file'[request'[r].file].disk
  PROVE  GoneInv'
<1>1. \A q \in Requests : request'[q].at = "mark" =>
         request'[q].file \in Files /\ ~file'[request'[q].file].disk
  <2> SUFFICES ASSUME NEW q \in Requests \ {r}, request[q].at = "mark"
               PROVE  request[q].file \in Files /\ ~file'[request[q].file].disk
    OBVIOUS
  <2>1. request[q].file \in Files
    BY WorkingType DEF Working
  <2> QED BY <2>1 DEF GoneInv, MarkedAreGone
<1>2. \A s \in Sweepers :
         /\ \A f \in sweep'[s].todo \cup sweep'[s].done : f \in Files /\ file[f].row # "none"
         /\ \A f \in sweep'[s].done : ~file'[f].disk
  BY DEF GoneInv, SweptAreGone, TypeOK, Sweep
<1> QED BY <1>1, <1>2, GoneKept

LEMMA GoneSave ==
  ASSUME TypeOK, GoneInv, NEW r \in Requests, NEW f \in Files,
         NEW kind \in {"upload", "analyse"}, NEW active \in BOOLEAN,
         NEW key \in RunKeys, SaveFile(r, f, kind, active, key)
  PROVE  GoneInv'
<1>1. file[f] = Absent /\ \A q \in Requests : request[q].file # f
  BY DEF SaveFile, Fresh
<1>2. /\ \A g \in Files \ {f} : file'[g] = file[g]
      /\ file'[f].row = "none"
  BY <1>1 DEF SaveFile, TypeOK, File, Absent
<1>3. /\ \A q \in Requests \ {r} : request'[q] = request[q]
      /\ request'[r].at = "create" /\ sweep' = sweep
  BY DEF SaveFile, TypeOK
<1>4. DeletedMeansGone'
  BY <1>2 DEF GoneInv, DeletedMeansGone
<1>5. MarkedAreGone'
  <2> SUFFICES ASSUME NEW q \in Requests \ {r}, request[q].at = "mark"
               PROVE  ~file'[request[q].file].disk
    BY <1>3 DEF MarkedAreGone
  <2>1. request[q].file \in Files \ {f}
    BY <1>1, WorkingType DEF Working
  <2> QED BY <1>2, <2>1 DEF GoneInv, MarkedAreGone
<1>6. SweptAreGone'
  <2>1. \A s \in Sweepers : \A g \in sweep[s].todo \cup sweep[s].done : g \in Files \ {f}
    BY <1>1 DEF GoneInv, SweptAreGone, TypeOK, Sweep, Absent
  <2> QED BY <1>2, <1>3, <2>1 DEF GoneInv, SweptAreGone
<1> QED BY <1>4, <1>5, <1>6 DEF GoneInv

(* Where a handler goes when it throws or answers.                         *)
LEMMA NotToMark ==
  ASSUME TypeOK, NEW r \in Requests, request[r].at # "idle",
         \/ Abandon(r) \/ Finish(r) \/ Created(r)
         \/ \E p \in Points \ {"mark"} : Goto(r, p)
  PROVE  /\ \A q \in Requests \ {r} : request'[q] = request[q]
         /\ request'[r].at # "mark"
<1>1. request[r] \in Working
  BY WorkingType
<1>2. CASE \E p \in Points \ {"mark"} : Goto(r, p)
  BY <1>1, <1>2 DEF Goto, TypeOK, Working
<1>3. CASE Finish(r)
  BY <1>3 DEF Finish, TypeOK, Idle
<1>4. CASE Abandon(r)
  BY <1>2, <1>3, <1>4 DEF Abandon, Points
<1>5. CASE Created(r)
  BY <1>1, <1>3, <1>5 DEF Created, TypeOK, Working
<1> QED BY <1>2, <1>3, <1>4, <1>5

LEMMA GoneRequest ==
  ASSUME "unlink" \notin Faults, TypeOK, GoneInv, NEW r \in Requests,
         Begin(r) \/ Advance(r) \/ Trouble(r)
  PROVE  GoneInv'
<1>1. CASE Begin(r)
  <2>1. ASSUME NEW f \in Files, NEW key \in RunKeys, Refer(r, f, key) PROVE GoneInv'
    <3>1. /\ file' = file /\ sweep' = sweep /\ request'[r].at = "read"
          /\ \A q \in Requests \ {r} : request'[q] = request[q]
      BY <2>1 DEF Refer, TypeOK
    <3> QED BY <3>1, GoneHandler
  <2> QED BY <1>1, <2>1, GoneSave DEF Begin
<1>2. CASE \/ Deactivate(r) \/ CreateConflicts(r) \/ ReadBytes(r) \/ AnalysisFails(r)
           \/ PersistConflicts(r) \/ CreateFails(r) \/ MarkFails(r) \/ CrashRequest(r)
           \/ \E b \in BOOLEAN : PersistAnswerLost(r, b)
  <2>1. UNCHANGED <<file, sweep>> /\ request[r].at # "idle"
    BY <1>2 DEF Deactivate, CreateConflicts, ReadBytes, AnalysisFails, PersistConflicts,
       CreateFails, MarkFails, CrashRequest, PersistAnswerLost
  <2>2. /\ \A q \in Requests \ {r} : request'[q] = request[q]
        /\ request'[r].at # "mark"
    <3>1. CASE Deactivate(r)
      BY <3>1, <2>1, WorkingType DEF Deactivate, TypeOK, Working
    <3>2. CASE ~Deactivate(r)
      <4>1. \/ Abandon(r) \/ Finish(r) \/ Goto(r, "analyse")
        BY <1>2, <3>2 DEF CreateConflicts, ReadBytes, AnalysisFails, PersistConflicts,
           CreateFails, MarkFails, CrashRequest, PersistAnswerLost
      <4> QED BY <2>1, <4>1, NotToMark DEF Points
    <3> QED BY <3>1, <3>2
  <2> QED BY <2>1, <2>2, GoneHandler
<1>3. CASE CreateInactive(r) \/ CreateActive(r) \/ CreateAnswerLost(r)
  <2>1. request[r].at # "idle" /\ sweep' = sweep
    BY <1>3 DEF CreateInactive, CreateActive, CreateAnswerLost
  <2>2. /\ \A q \in Requests \ {r} : request'[q] = request[q]
        /\ request'[r].at # "mark"
    BY <1>3, <2>1, NotToMark DEF CreateInactive, CreateActive, CreateAnswerLost
  <2> DEFINE g == request[r].file
  <2>3. g \in Files
    BY <2>1, WorkingType DEF Working
  <2>4. NewRow(r).row = "live" /\ NewRow(r).disk = file[g].disk /\ NewRow(r) \in File
    BY <2>1, RowTypes DEF NewRow
  <2>5. HandedOver(r) \in [Files -> File]
    BY <2>1, RowTypes
  <2>6. \A f \in Files : /\ HandedOver(r)[f].disk = file[f].disk
                         /\ HandedOver(r)[f].row = (IF f = g THEN "live" ELSE file[f].row)
    <3> SUFFICES ASSUME NEW f \in Files
                 PROVE  /\ HandedOver(r)[f].disk = file[f].disk
                        /\ HandedOver(r)[f].row = (IF f = g THEN "live" ELSE file[f].row)
      OBVIOUS
    <3>1. file[f] \in File
      BY DEF TypeOK
    <3>2. /\ [file[f] EXCEPT !.active = FALSE].disk = file[f].disk
          /\ [file[f] EXCEPT !.active = FALSE].row = file[f].row
      BY <3>1 DEF File
    <3> QED BY <2>4, <3>2 DEF HandedOver
  <2>7. \A f \in Files : /\ file'[f].disk = file[f].disk
                         /\ file'[f].row \in {"live", file[f].row}
    <3>1. CASE CreateInactive(r)
      BY <2>3, <2>4, <3>1 DEF CreateInactive, TypeOK
    <3>2. CASE CreateActive(r)
      BY <2>6, <3>2 DEF CreateActive
    <3>3. CASE CreateAnswerLost(r)
      BY <2>3, <2>5, <2>6, <3>3 DEF CreateAnswerLost, File
    <3> QED BY <1>3, <3>1, <3>2, <3>3
  <2> QED BY <2>1, <2>2, <2>7, GoneHandler
<1>4. CASE AnswerOnly(r) \/ \E b \in BOOLEAN : Persist(r, b)
  <2>1. /\ request[r].at # "idle" /\ sweep' = sweep /\ Finish(r)
        /\ file' = [file EXCEPT ![request[r].file].known = TRUE]
    BY <1>4 DEF AnswerOnly, Persist
  <2>2. \A f \in Files : file'[f].disk = file[f].disk /\ file'[f].row = file[f].row
    BY <2>1 DEF TypeOK, File
  <2> QED BY <2>1, <2>2, NotToMark, GoneHandler
<1>5. CASE Unlink(r)
  <2> DEFINE g == request[r].file
  <2>1. g \in Files /\ request[r] \in Working
    BY <1>5, WorkingType DEF Unlink, Working
  <2>2. \A f \in Files : /\ file'[f].row = file[f].row
                         /\ file'[f].disk => file[f].disk
                         /\ f = g => ~file'[f].disk
    BY <1>5, <2>1 DEF Unlink, TypeOK, File
  <2>3. /\ \A q \in Requests \ {r} : request'[q] = request[q]
        /\ request'[r].file = g /\ sweep' = sweep
    BY <1>5, <2>1 DEF Unlink, Goto, TypeOK, Working
  <2> QED BY <2>1, <2>2, <2>3, GoneHandler
<1>6. CASE Mark(r)
  <2> DEFINE g == request[r].file
  <2>1. g \in Files /\ ~file[g].disk /\ request[r].at # "idle"
    BY <1>6, WorkingType DEF Mark, Working, GoneInv, MarkedAreGone
  <2>2. \A f \in Files : /\ file'[f].disk = file[f].disk
                         /\ \/ file'[f].row = file[f].row
                            \/ f = g /\ file'[f].row = "deleted"
    BY <1>6 DEF Mark, Deleted, TypeOK, File
  <2>3. sweep' = sweep /\ Finish(r)
    BY <1>6 DEF Mark
  <2> QED BY <2>1, <2>2, <2>3, NotToMark, GoneHandler
<1> QED BY <1>1, <1>2, <1>3, <1>4, <1>5, <1>6 DEF Advance, Trouble, UnlinkFails, Fail

(* The cleanup jobs, and time. *)
LEMMA GoneCleanup ==
  ASSUME TypeOK, GoneInv,
         \/ \E s \in Sweepers : SweepAdvance(s) \/ SweepTrouble(s)
         \/ \E f \in Files : Expire(f)
  PROVE  GoneInv'
<1> DEFINE Tracked(s) ==
      /\ \A f \in sweep'[s].todo \cup sweep'[s].done : f \in Files /\ file[f].row # "none"
      /\ \A f \in sweep'[s].done : ~file'[f].disk
<1>1. request' = request
  BY DEF SweepAdvance, SweepTrouble, SweepStart, SweepDelete, SweepMark, SweepDeleteFails,
     SweepFails, CrashSweep, Expire
<1>2. \A f \in Files :
         /\ file'[f].disk => file[f].disk
         /\ file'[f].row = "none" => file[f].row = "none"
         /\ file'[f].row = "deleted" => file[f].row = "deleted" \/ ~file[f].disk
  <2>1. CASE \E s \in Sweepers : SweepMark(s)
    <3>1. PICK s \in Sweepers : SweepMark(s)
      BY <2>1
    <3>2. \A f \in sweep[s].done : ~file[f].disk
      BY DEF GoneInv, SweptAreGone
    <3>3. ASSUME NEW f \in Files
          PROVE  \/ file'[f] = file[f]
                 \/ /\ f \in sweep[s].done
                    /\ file'[f] = [file[f] EXCEPT !.row = "deleted", !.active = FALSE]
      BY <3>1 DEF SweepMark, Deleted
    <3>4. \A f \in Files : file[f] \in File
      BY DEF TypeOK
    <3> QED BY <3>2, <3>3, <3>4 DEF File
  <2>2. CASE \E s \in Sweepers : \E f \in Files : SweepDelete(s, f)
    BY <2>2 DEF SweepDelete, TypeOK, File
  <2>3. CASE \E f \in Files : Expire(f)
    BY <2>3 DEF Expire, TypeOK, File
  <2>4. CASE file' = file
    BY <2>4
  <2> QED BY <2>1, <2>2, <2>3, <2>4 DEF SweepAdvance, SweepTrouble, SweepStart,
             SweepDeleteFails, SweepFails, CrashSweep
<1>3. \A r \in Requests : request'[r].at = "mark" =>
         request'[r].file \in Files /\ ~file'[request'[r].file].disk
  <2> SUFFICES ASSUME NEW r \in Requests, request[r].at = "mark"
               PROVE  request[r].file \in Files /\ ~file'[request[r].file].disk
    BY <1>1
  <2>1. request[r].file \in Files
    BY WorkingType DEF Working
  <2> QED BY <1>2, <2>1 DEF GoneInv, MarkedAreGone
<1>4. ASSUME NEW s \in Sweepers
      PROVE  Tracked(s)
  <2>1. /\ sweep[s] \in Sweep
        /\ \A f \in sweep[s].todo \cup sweep[s].done : f \in Files /\ file[f].row # "none"
        /\ \A f \in sweep[s].done : ~file[f].disk
    BY DEF TypeOK, Sweep, GoneInv, SweptAreGone
  <2>2. CASE sweep'[s] = sweep[s] \/ sweep'[s] = Resting
    BY <1>2, <2>1, <2>2 DEF Resting
  <2>3. CASE SweepStart(s)
    BY <2>3 DEF SweepStart, Expired, Usable, Live, TypeOK
  <2>4. ASSUME NEW f \in Files, SweepDelete(s, f) PROVE Tracked(s)
    <3>1. /\ sweep'[s].todo = sweep[s].todo \ {f}
          /\ sweep'[s].done = sweep[s].done \cup {f}
      BY <2>4 DEF SweepDelete, TypeOK
    <3>2. f \in sweep[s].todo /\ ~file'[f].disk
      BY <2>4 DEF SweepDelete, TypeOK, File
    <3> QED BY <1>2, <2>1, <3>1, <3>2
  <2>5. ASSUME NEW f \in Files, SweepDeleteFails(s, f) PROVE Tracked(s)
    <3>1. /\ sweep'[s].todo = sweep[s].todo \ {f} /\ sweep'[s].done = sweep[s].done
      BY <2>5, <2>1 DEF SweepDeleteFails, TypeOK, Sweep
    <3> QED BY <1>2, <2>1, <3>1
  <2> QED BY <2>2, <2>3, <2>4, <2>5 DEF SweepAdvance, SweepTrouble, SweepStart, SweepDelete,
             SweepMark, SweepDeleteFails, SweepFails, CrashSweep, Expire, TypeOK
<1> QED BY <1>2, <1>3, <1>4, GoneKept

(* A row says deleted only when its bytes are gone, whatever crashes or    *)
(* fails but the unlink of a catch block.                                  *)
THEOREM DeletedFilesAreGone ==
  ASSUME "unlink" \notin Faults
  PROVE  Spec => []DeletedMeansGone
<1>1. Init => GoneInv
  BY DEF Init, GoneInv, DeletedMeansGone, MarkedAreGone, SweptAreGone, Absent, Idle, Resting
<1>2. TypeOK /\ GoneInv /\ [Next]_vars => GoneInv'
  <2> SUFFICES ASSUME TypeOK, GoneInv, [Next]_vars PROVE GoneInv'
    OBVIOUS
  <2>1. CASE UNCHANGED vars
    BY <2>1 DEF vars, GoneInv, DeletedMeansGone, MarkedAreGone, SweptAreGone
  <2> QED BY <2>1, GoneRequest, GoneCleanup DEF Next
<1>3. GoneInv => DeletedMeansGone
  BY DEF GoneInv
<1> QED BY <1>1, <1>2, <1>3, TypeCorrect, PTL DEF Spec

============================================================================
