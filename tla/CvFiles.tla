------------------------------- MODULE CvFiles -------------------------------
(***************************************************************************)
(* The CV files of one user: the bytes under the private upload directory, *)
(* their cv_file_metadata rows, and the analyses and recommendation runs   *)
(* persisted about them (ai-cv-analyzer).                                  *)
(*                                                                         *)
(* Disk and database share no transaction, so every handler is modelled    *)
(* as the sequence of its disk and database steps; between two of them any *)
(* other request, the cleanup job or a crash may run.  A row of another    *)
(* user is answered like a missing one, so one user is enough.  Faults is  *)
(* the set of failures that may happen, MaxFaults how many of them.        *)
(***************************************************************************)
EXTENDS Naturals, FiniteSets

CONSTANTS Files,      \* CV file ids (uuid, chosen by the service)
          Requests,   \* slots of concurrently running HTTP handlers
          Sweepers,   \* concurrently running cleanup jobs
          RunKeys,    \* request ids, reused as idempotency keys of runs
          Faults,     \* subset of FaultKinds
          MaxFaults,
          NoFile

FaultKinds == {"db", "lost", "unlink", "sweep", "crash"}

ASSUME CvConstants ==
    /\ NoFile \notin Files
    /\ Faults \subseteq FaultKinds
    /\ MaxFaults \in Nat

VARIABLES file,     \* [Files -> File]: bytes on disk and metadata row
          cited,    \* files a persisted analysis refers to
          runs,     \* idempotency keys of persisted recommendation runs
          request,  \* [Requests -> Request]: where each handler is
          sweep,    \* [Sweepers -> Sweep]: where each cleanup job is
          faults    \* failures so far

vars == <<file, cited, runs, request, sweep, faults>>

(* known: the id was in an answer, so that the client may name it. *)
File == [disk : BOOLEAN, row : {"none", "live", "deleted"},
         active : BOOLEAN, expired : BOOLEAN, known : BOOLEAN]

Points == {"create", "insert", "read", "analyse", "unlink", "mark"}

Idle == [at |-> "idle", kind |-> "upload", file |-> NoFile, own |-> FALSE,
         active |-> FALSE, key |-> NoFile, seen |-> {}]

(* own is cleanupTarget: the file is removed when the handler fails.  seen *)
(* is what the deactivating statement of an activation has matched.        *)
Working == [at : Points, kind : {"upload", "analyse"}, file : Files,
            own : BOOLEAN, active : BOOLEAN, key : RunKeys,
            seen : SUBSET Files]

Request == {Idle} \cup Working

Sweep == [at : {"idle", "delete"}, todo : SUBSET Files, done : SUBSET Files]

Absent == [disk |-> FALSE, row |-> "none", active |-> FALSE,
           expired |-> FALSE, known |-> FALSE]

Resting == [at |-> "idle", todo |-> {}, done |-> {}]

Init ==
    /\ file = [f \in Files |-> Absent]
    /\ cited = {}
    /\ runs = {}
    /\ request = [r \in Requests |-> Idle]
    /\ sweep = [s \in Sweepers |-> Resting]
    /\ faults = 0

----------------------------------------------------------------------------
(* Reads of the repository. *)

Live == {f \in Files : file[f].row = "live"}
Active == {f \in Live : file[f].active}
Usable == {f \in Live : ~file[f].expired}
Expired == Live \ Usable

Fail(kind) ==
    /\ kind \in Faults
    /\ faults < MaxFaults
    /\ faults' = faults + 1

Goto(r, point) == request' = [request EXCEPT ![r].at = point]
Finish(r) == request' = [request EXCEPT ![r] = Idle]

(* A handler that throws: the catch block removes the upload it owns. *)
Abandon(r) == IF request[r].own THEN Goto(r, "unlink") ELSE Finish(r)

Fresh(f) ==
    /\ file[f] = Absent
    /\ \A r \in Requests : request[r].file # f

----------------------------------------------------------------------------
(* Uploading: saveFile writes the bytes, then createCvFileMetadata inserts  *)
(* the row.  uploadCvFile removes the file when the insert fails; analyzeCv *)
(* learns its cleanupTarget only from a resolveCvSource that succeeded.     *)

SaveFile(r, f, kind, active, key) ==
    /\ request[r].at = "idle"
    /\ Fresh(f)
    /\ kind = "analyse" => ~active
    /\ file' = [file EXCEPT ![f].disk = TRUE]
    /\ request' = [request EXCEPT ![r] =
          [at |-> "create", kind |-> kind, file |-> f,
           own |-> kind = "upload", active |-> active, key |-> key,
           seen |-> {}]]
    /\ UNCHANGED <<cited, runs, sweep, faults>>

(* The row is committed and its id answered, or carried into the analysis. *)
Created(r) ==
    IF request[r].kind = "upload" THEN Finish(r)
    ELSE request' = [request EXCEPT ![r] = [@ EXCEPT !.at = "analyse",
                                                     !.own = TRUE]]

NewRow(r) == [disk |-> file[request[r].file].disk, row |-> "live",
              active |-> request[r].active, expired |-> FALSE,
              known |-> request[r].kind = "upload"]

CreateInactive(r) ==
    /\ request[r].at = "create"
    /\ ~request[r].active
    /\ file' = [file EXCEPT ![request[r].file] = NewRow(r)]
    /\ Created(r)
    /\ UNCHANGED <<cited, runs, sweep, faults>>

(* Regression: the deactivation is not part of the transaction. *)
DeactivateNow(r) ==
    /\ request[r].at = "create"
    /\ request[r].active
    /\ file' = [f \in Files |-> [file[f] EXCEPT !.active = FALSE]]
    /\ request' = [request EXCEPT ![r] = [@ EXCEPT !.at = "insert",
                                                   !.seen = Active]]
    /\ UNCHANGED <<cited, runs, sweep, faults>>

(* setAsActive runs in a transaction.  Its first statement matches the     *)
(* rows active when it starts; its effect is visible only at the commit.   *)
Deactivate(r) ==
    /\ request[r].at = "create"
    /\ request[r].active
    /\ request' = [request EXCEPT ![r] = [@ EXCEPT !.at = "insert",
                                                   !.seen = Active]]
    /\ UNCHANGED <<file, cited, runs, sweep, faults>>

(* Regression: without the partial unique index. *)
AnyActive(r) == TRUE

(* cv_file_metadata_one_active_per_user_idx: no active row may remain. *)
UniqueActive(r) == Active \subseteq request[r].seen

(* The rows after the transaction of r committed. *)
HandedOver(r) ==
    [f \in Files |-> IF f = request[r].file THEN NewRow(r)
                     ELSE IF f \in request[r].seen
                          THEN [file[f] EXCEPT !.active = FALSE]
                          ELSE file[f]]

CreateActive(r) ==
    /\ request[r].at = "insert"
    /\ UniqueActive(r)
    /\ file' = HandedOver(r)
    /\ Created(r)
    /\ UNCHANGED <<cited, runs, sweep, faults>>

CreateConflicts(r) ==
    /\ request[r].at = "insert"
    /\ ~UniqueActive(r)
    /\ Abandon(r)
    /\ UNCHANGED <<file, cited, runs, sweep, faults>>

CreateFails(r) ==
    /\ request[r].at \in {"create", "insert"}
    /\ Fail("db")
    /\ Abandon(r)
    /\ UNCHANGED <<file, cited, runs, sweep>>

(* The commit took effect but its answer was lost: the handler throws. *)
CreateAnswerLost(r) ==
    /\ \/ request[r].at = "create" /\ ~request[r].active
       \/ request[r].at = "insert" /\ UniqueActive(r)
    /\ Fail("lost")
    /\ file' = [HandedOver(r) EXCEPT ![request[r].file].known = FALSE]
    /\ Abandon(r)
    /\ UNCHANGED <<cited, runs, sweep>>

----------------------------------------------------------------------------
(* Analysing. *)

(* Regression: a referenced file becomes the cleanup target as an upload does. *)
ReferOwning(r, f, key) ==
    /\ request[r].at = "idle"
    /\ f \in Usable
    /\ file[f].known \/ f \in Active
    /\ request' = [request EXCEPT ![r] =
          [at |-> "read", kind |-> "analyse", file |-> f, own |-> TRUE,
           active |-> FALSE, key |-> key, seen |-> {}]]
    /\ UNCHANGED <<file, cited, runs, sweep, faults>>

(* resolveCvSource by cvFileId, or by the active CV when no id is given;   *)
(* a row that is missing, deleted or expired ends the request.             *)
Refer(r, f, key) ==
    /\ request[r].at = "idle"
    /\ f \in Usable
    /\ file[f].known \/ f \in Active
    /\ request' = [request EXCEPT ![r] =
          [at |-> "read", kind |-> "analyse", file |-> f, own |-> FALSE,
           active |-> FALSE, key |-> key, seen |-> {}]]
    /\ UNCHANGED <<file, cited, runs, sweep, faults>>

(* resolveCvBytes: the file may have gone since the row was read. *)
ReadBytes(r) ==
    /\ request[r].at = "read"
    /\ IF file[request[r].file].disk THEN Goto(r, "analyse") ELSE Abandon(r)
    /\ UNCHANGED <<file, cited, runs, sweep, faults>>

(* No candidates, an unavailable Model API, an invalid answer, a snapshot  *)
(* that could not be stored.                                               *)
AnalysisFails(r) ==
    /\ request[r].at = "analyse"
    /\ Abandon(r)
    /\ UNCHANGED <<file, cited, runs, sweep, faults>>

(* persistResult = false *)
AnswerOnly(r) ==
    /\ request[r].at = "analyse"
    /\ file' = [file EXCEPT ![request[r].file].known = TRUE]
    /\ Finish(r)
    /\ UNCHANGED <<cited, runs, sweep, faults>>

(* createSnapshot: the result and, when jobs were recommended, a run whose *)
(* key is unique per user, in one transaction.                             *)
Persist(r, recommended) ==
    /\ request[r].at = "analyse"
    /\ recommended => request[r].key \notin runs
    /\ cited' = cited \cup {request[r].file}
    /\ runs' = IF recommended THEN runs \cup {request[r].key} ELSE runs
    /\ file' = [file EXCEPT ![request[r].file].known = TRUE]
    /\ Finish(r)
    /\ UNCHANGED <<sweep, faults>>

PersistConflicts(r) ==
    /\ request[r].at = "analyse"
    /\ request[r].key \in runs
    /\ Abandon(r)
    /\ UNCHANGED <<file, cited, runs, sweep, faults>>

PersistAnswerLost(r, recommended) ==
    /\ request[r].at = "analyse"
    /\ recommended => request[r].key \notin runs
    /\ Fail("lost")
    /\ cited' = cited \cup {request[r].file}
    /\ runs' = IF recommended THEN runs \cup {request[r].key} ELSE runs
    /\ Abandon(r)
    /\ UNCHANGED <<file, sweep>>

----------------------------------------------------------------------------
(* cleanupUploadedFile: deleteFile, and markCvFileDeleted in the finally.  *)

Unlink(r) ==
    /\ request[r].at = "unlink"
    /\ file' = [file EXCEPT ![request[r].file].disk = FALSE]
    /\ Goto(r, "mark")
    /\ UNCHANGED <<cited, runs, sweep, faults>>

UnlinkFails(r) ==
    /\ request[r].at = "unlink"
    /\ Fail("unlink")
    /\ Goto(r, "mark")
    /\ UNCHANGED <<file, cited, runs, sweep>>

Deleted(fs) ==
    [f \in Files |-> IF f \in fs \cap Live
                     THEN [file[f] EXCEPT !.row = "deleted", !.active = FALSE]
                     ELSE file[f]]

Mark(r) ==
    /\ request[r].at = "mark"
    /\ file' = Deleted({request[r].file})
    /\ Finish(r)
    /\ UNCHANGED <<cited, runs, sweep, faults>>

MarkFails(r) ==
    /\ request[r].at = "mark"
    /\ Fail("db")
    /\ Finish(r)
    /\ UNCHANGED <<file, cited, runs, sweep>>

----------------------------------------------------------------------------
(* cleanupExpiredCvFiles, the maintenance.cv-cleanup job: the expired rows *)
(* are read once, their files deleted one by one, and the rows of those    *)
(* whose deletion succeeded are marked by one statement.                   *)

(* Regression: the rows are marked before their files are deleted. *)
SweepStartMarking(s) ==
    /\ sweep[s].at = "idle"
    /\ Expired # {}
    /\ sweep' = [sweep EXCEPT ![s] =
                    [at |-> "delete", todo |-> Expired, done |-> {}]]
    /\ file' = Deleted(Expired)
    /\ UNCHANGED <<cited, runs, request, faults>>

SweepStart(s) ==
    /\ sweep[s].at = "idle"
    /\ Expired # {}
    /\ sweep' = [sweep EXCEPT ![s] =
                    [at |-> "delete", todo |-> Expired, done |-> {}]]
    /\ UNCHANGED <<file, cited, runs, request, faults>>

SweepDelete(s, f) ==
    /\ f \in sweep[s].todo
    /\ file' = [file EXCEPT ![f].disk = FALSE]
    /\ sweep' = [sweep EXCEPT ![s] = [at |-> "delete",
                                      todo |-> sweep[s].todo \ {f},
                                      done |-> sweep[s].done \cup {f}]]
    /\ UNCHANGED <<cited, runs, request, faults>>

(* Regression: the id is pushed before the deletion that fails. *)
SweepDeleteFailsDone(s, f) ==
    /\ f \in sweep[s].todo
    /\ Fail("sweep")
    /\ sweep' = [sweep EXCEPT ![s].todo = @ \ {f}, ![s].done = @ \cup {f}]
    /\ UNCHANGED <<file, cited, runs, request>>

SweepDeleteFails(s, f) ==
    /\ f \in sweep[s].todo
    /\ Fail("sweep")
    /\ sweep' = [sweep EXCEPT ![s].todo = @ \ {f}]
    /\ UNCHANGED <<file, cited, runs, request>>

SweepMark(s) ==
    /\ sweep[s].at = "delete"
    /\ sweep[s].todo = {}
    /\ file' = Deleted(sweep[s].done)
    /\ sweep' = [sweep EXCEPT ![s] = Resting]
    /\ UNCHANGED <<cited, runs, request, faults>>

(* A failing read or update fails the job, which is tried again later. *)
SweepFails(s) ==
    /\ sweep[s].at = "delete"
    /\ sweep[s].todo = {}
    /\ Fail("db")
    /\ sweep' = [sweep EXCEPT ![s] = Resting]
    /\ UNCHANGED <<file, cited, runs, request>>

----------------------------------------------------------------------------
(* The environment: CV_RETENTION_DAYS pass; the API or worker dies. *)

Expire(f) ==
    /\ f \in Usable
    /\ file' = [file EXCEPT ![f].expired = TRUE]
    /\ UNCHANGED <<cited, runs, request, sweep, faults>>

CrashRequest(r) ==
    /\ request[r].at # "idle"
    /\ Fail("crash")
    /\ Finish(r)
    /\ UNCHANGED <<file, cited, runs, sweep>>

CrashSweep(s) ==
    /\ sweep[s].at # "idle"
    /\ Fail("crash")
    /\ sweep' = [sweep EXCEPT ![s] = Resting]
    /\ UNCHANGED <<file, cited, runs, request>>

----------------------------------------------------------------------------
(* A request that is under way, its failures aside. *)
Advance(r) ==
    \/ CreateInactive(r) \/ Deactivate(r) \/ CreateActive(r)
    \/ CreateConflicts(r) \/ ReadBytes(r) \/ AnswerOnly(r)
    \/ \E recommended \in BOOLEAN : Persist(r, recommended)
    \/ AnalysisFails(r) \/ PersistConflicts(r) \/ Unlink(r) \/ Mark(r)

Trouble(r) ==
    \/ CreateFails(r) \/ CreateAnswerLost(r) \/ UnlinkFails(r)
    \/ MarkFails(r) \/ CrashRequest(r)
    \/ \E recommended \in BOOLEAN : PersistAnswerLost(r, recommended)

Begin(r) ==
    \E f \in Files, key \in RunKeys :
       \/ \E kind \in {"upload", "analyse"}, active \in BOOLEAN :
             SaveFile(r, f, kind, active, key)
       \/ Refer(r, f, key)

SweepAdvance(s) ==
    \/ SweepStart(s) \/ SweepMark(s) \/ \E f \in Files : SweepDelete(s, f)

SweepTrouble(s) ==
    \/ SweepFails(s) \/ CrashSweep(s)
    \/ \E f \in Files : SweepDeleteFails(s, f)

Next ==
    \/ \E r \in Requests : Begin(r) \/ Advance(r) \/ Trouble(r)
    \/ \E s \in Sweepers : SweepAdvance(s) \/ SweepTrouble(s)
    \/ \E f \in Files : Expire(f)

Spec == Init /\ [][Next]_vars

(* Handlers that run get to their end, time passes, and the cleanup is run *)
(* again and again, as docs/environment.md:202 asks of the operator.       *)
FairSpec ==
    /\ Spec
    /\ \A r \in Requests : WF_vars(Advance(r))
    /\ \A s \in Sweepers : WF_vars(SweepAdvance(s))
    /\ \A f \in Files : WF_vars(Expire(f))

----------------------------------------------------------------------------
(* Properties. *)

(* Every variable keeps its shape. *)
TypeOK ==
    /\ file \in [Files -> File]
    /\ cited \subseteq Files
    /\ runs \subseteq RunKeys
    /\ request \in [Requests -> Request]
    /\ sweep \in [Sweepers -> Sweep]
    /\ faults \in 0..MaxFaults

(* At most one non-deleted row of the user is active, however uploads that *)
(* set the active CV interleave (ai-cv-analyzer.md:367).                   *)
OneActiveCv == \A f, g \in Active : f = g

(* The file of a persisted analysis is kept until it expires: no failing   *)
(* analysis or upload removes a file that a result refers to.              *)
SnapshotKeepsItsFile ==
    \A f \in cited : file[f].expired \/ file[f].disk

(* A row says deleted only when its file is gone: cleanup never forgets a  *)
(* file it could not delete.                                               *)
DeletedMeansGone ==
    \A f \in Files : file[f].row = "deleted" => ~file[f].disk

(* A file id the client was given can be analysed until it expires: its    *)
(* row is live and its bytes are there (resolveCvBytes finds them).        *)
KnownFileIsReadable ==
    \A f \in Files : file[f].known /\ ~file[f].expired =>
                        file[f].row = "live" /\ file[f].disk

(* A file the catch block may still remove is nobody else's: no other      *)
(* request works on it, no result refers to it, no client was told of it.  *)
CleanupTargetIsPrivate ==
    \A r \in Requests : request[r].own =>
       LET f == request[r].file IN
       /\ ~file[f].known
       /\ ~file[f].active
       /\ f \notin cited
       /\ \A q \in Requests \ {r} : request[q].file # f

(* The invariant behind the ones above, where no commit answer is lost.    *)
Creating(r) == request[r].at \in {"create", "insert"}

WorkingFile ==
    \A r \in Requests :
       LET q == request[r] IN
       /\ q.at \in {"unlink", "mark"} => q.own
       /\ Creating(r) => /\ file[q.file].row = "none"
                         /\ file[q.file].disk
                         /\ q.active => q.kind = "upload"
       /\ q.at = "read" => ~q.own
       /\ q.at = "insert" => q.active
       /\ q.at \in {"read", "analyse"} /\ ~q.own => file[q.file].known
       /\ q.at = "analyse" =>
             /\ file[q.file].row # "none"
             /\ ~file[q.file].expired =>
                   file[q.file].row = "live" /\ file[q.file].disk

TargetsArePrivate ==
    \A r \in Requests : request[r].own \/ Creating(r) =>
       LET f == request[r].file IN
       /\ ~file[f].known
       /\ ~file[f].active
       /\ \A q \in Requests \ {r} : request[q].file # f

RowsAreSound ==
    \A f \in Files :
       /\ file[f].row = "none" => /\ ~file[f].known /\ ~file[f].active
                                  /\ ~file[f].expired
       /\ file[f].active => file[f].known
       /\ f \in cited => file[f].known

SweepsExpired ==
    \A s \in Sweepers : \A f \in sweep[s].todo \cup sweep[s].done :
                            file[f].expired

CvInv == /\ WorkingFile /\ TargetsArePrivate /\ RowsAreSound
         /\ SweepsExpired /\ KnownFileIsReadable

(* A user with an active CV loses it only to another one, or because it    *)
(* expired: an upload that fails to become the active CV changes nothing.  *)
ActiveCvOnlyExpires ==
    [][Active # {} /\ Active' = {} => Active \subseteq Expired]_vars

(* The bytes are there and the row says deleted, so no cleanup lists them. *)
(* It takes two failures: a lost commit answer, after which another request *)
(* gives away the file of a row that is about to be removed, and a failing  *)
(* unlink in the catch block that removes it.                               *)
Forgotten(f) == file[f].disk /\ file[f].row = "deleted" /\ faults > 1

(* A file the client was given is erased once it expired, whatever         *)
(* crashes, lost answers and failing deletions come in between, unless two *)
(* of them made the cleanup forget it.                                     *)
ExpiredFilesAreErased ==
    \A f \in Files : f \in Expired /\ file[f].known ~> ~file[f].disk \/ Forgotten(f)

(* Every file is erased in the end, as the retention rule asks             *)
(* (docs/environment.md:202).                                              *)
UploadsAreErased == \A f \in Files : file[f].disk ~> ~file[f].disk

============================================================================
