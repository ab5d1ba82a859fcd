# Formal model of bisakerja-api

bisakerja-api is the HTTP backend of a job platform: an Express application in TypeScript on Bun,
PostgreSQL through Prisma, and a separate worker process fed by BullMQ on Redis. The HTTP handlers
are asynchronous functions; between two `await`s any number of other requests, of the same or of
another process, may run. Most repository methods are one SQL statement; a few are transactions.
The hard part of the system is therefore seldom in one function: it is what happens *between* the
statements of two requests, or between the statements of one request that fails half way. The
exceptions are the pure parts that make documents out of text; they are modelled as operators.

Paths below are relative to the repository root. PROJECT.json, which maps every definition to the
lines it models, writes them with one more leading `src/`.

## 1. Inventory

| Component | Code | State it keeps | Operations | Interacts with | Modules here |
| --- | --- | --- | --- | --- | --- |
| Async workloads | `src/shared/async-workloads`, `src/scripts/worker-async.ts` | outbox rows (status, attempts, processingStartedAt), BullMQ entries, handlers in flight | createJob, publish, publishPending, the worker callback with its claim and terminal updates | auth (creates jobs), CV cleanup and email (run by it) | AsyncOutbox, JobLease |
| Auth and sessions | `src/modules/auth`, `src/core/middlewares/auth.middleware.ts` | users, credentials, refresh tokens, reset tokens, verification tokens | register, login, refresh, logout, forgot/reset password, verify email, Google login | outbox (emails), onboarding status | AuthSessions |
| CV files | `src/modules/ai-cv-analyzer` (service, repository, storage) | stored files, file metadata, one active CV per user, analysis snapshots | upload, activate, analyze, expiry cleanup | model API, async worker | CvFiles |
| CV analysis | `src/modules/ai-cv-analyzer` (service, genai), `src/shared/cv-evidence` | stored analyses | analyze a stored file, read one, list | model API, GenAI wrapper | CvDocuments, CvAnalysisCopy, CvEvidence, GenAi |
| CV generation | `src/modules/ai-cv-generate`, `src/shared/cv-evidence` | none | generate from file, analysis, summary and template | GenAI provider, stored analyses | CvDocuments, CvRender, CvEvidence, GenAi |
| Application tracker | `src/modules/applications` | application record, status history | create, patch, change status, list | listings | ApplicationTracker, JobBoard |
| Bookmarks | `src/modules/bookmarks` | (user, job) pairs | save, delete, list | listings | JobBoard |
| Jobs read side | `src/modules/jobs`, `src/shared/utils/job-presentation.ts` | none | list, detail, visibility, staleness | listings | JobBoard |
| Scraper sync | `src/modules/internal` | platforms, companies, skills, listings, ingestion runs | chunked upsert of a batch | listings | ScraperSync |
| Users, preferences, onboarding | `src/modules/users`, `src/modules/preferences`, `src/shared/utils/onboarding-status.ts` | profile, preference, skills/experience/education lists, derived onboarding status | patch profile, photo, replace lists, put/patch preferences, read both | auth (emailVerified) | Onboarding |
| Job recommendations, job fit | `src/modules/ai-job-recommendations`, `src/modules/ai-job-fit` | recommendation runs, fit scores, skill gaps | generate, latest, detail; analyze a fit (routes not mounted by `app.ts`) | model API, listings, analyses | Assistant, ModelApi |
| Health | `src/modules/health` | none | live, ready | Prisma, Redis, model API | Assistant |
| Email delivery | `src/shared/email`, `src/modules/auth/auth.email.ts` | none (provider idempotency keys) | send with retries | Resend, async worker | EmailDelivery |
| Model API and GenAI clients | `src/shared/integrations`, the two `*.genai.ts` | none | request with time limit, retries, error mapping | the external services | ModelApi, GenAi |
| HTTP core | `src/core`, `src/server.ts` | rate-limit counters, request ids | middlewares, error mapping, shutdown | all | error mapping in ModelApi |
| Docs tooling, seeds, config | `src/shared/docs`, `prisma/seed*.ts`, `src/config` | none | generation, validation | - | not modelled |

### What makes each component correct

* **Async workloads.** A claim is a lease: the side effect is not run twice at once unless the first
  claim is stale; an attempt number identifies the newest claim, and older attempts and late
  publishers cannot regress the row; SUCCEEDED means the side effect ended; BullMQ's attempt counter
  and the row's agree; every committed row drains, unless BullMQ keeps an entry that stands in its way.
* **Auth.** A refresh token is exchanged once and a revoked one never again; after a password reset
  no older session survives; a reset token and a one-time code are used once; an account that is not
  active gets no session; a half-done reset can be resumed.
* **CV files.** At most one active CV per user; every metadata row that is not deleted has its file;
  a failed request leaves neither an orphan file nor a live row; cleanup can be interrupted anywhere.
* **CV documents.** A generated CV says nothing of another file of the user; the fallback answers
  when the provider does not, for the templates and texts it can render; a published analysis has the scores of the Model API and nothing
  private, whatever a language model wrote, and fails because of it only where the copy made of the
  scores cannot be published either.
* **Applications.** The history is a chain whose last entry is the record's status; every transition
  in it is a legal one; one record per user and job.
* **Lists (jobs, bookmarks, applications).** A list read to its end shows each row of the query once;
  the salary filter finds the overlapping ranges; hidden listings are not shown.
* **Onboarding.** The stored onboarding status is the one computed from the profile, preference and
  verification it summarises; a replaced list is the submitted one; stored preferences obey the rules
  between their fields.
* **Scraper sync.** One listing per (platform, external id) and one company per slug and platform; a
  batch interrupted between two chunks can be replayed and ends where an uninterrupted one would.
* **Recommendations and fit.** One run per idempotency key, however requests overlap; a fit score is
  stored with its gaps; each failure of the Model API, but for a deadline within a body, answers the
  documented status.
* **Email.** One message per idempotency key; a send that returned was delivered.

### Hard behaviour

Interleavings at every `await`; a row read before a statement and used after it; transactions that
do not cover what a service method does; crashes of the HTTP or worker process between two
statements; BullMQ redelivery after a lost lock; a database that is down while Redis is up and the
other way round; time limits (token expiry, stale claims, deadlines of calls) racing with requests;
answers of other services that are late, cut off, repeated or malformed; text that one step of a
pipeline inserts and a later one takes for syntax. PROJECT.json lists these as hazards at the line
where each one bites.

## 2. Modules

| Module | What it is | Variables | Actions |
| --- | --- | --- | --- |
| AsyncOutbox | outbox, queue, publishers, worker callback | outbox, entry, handler, publisher, delivered, now, faults | one per statement or queue call, one per kind of fault |
| JobLease | what the workload promises: a job is leased to one worker at a time and finished once, by its holder | phase, holder, ran | Accept, Grant, Run, Finish, Release |
| AsyncOutboxRefinement | AsyncOutbox implements JobLease | - | refinement mapping |
| AuthSessions | one account with its tokens | account, otp, token, reset, request, faults, overlapped | one per statement of each of nine operations |
| CvFiles | the CV files of one user | file, cited, runs, request, sweep, faults | one per disk or database step of upload, analysis and cleanup |
| ApplicationTracker | the tracked applications of one user | hidden, record, history, request, overlapped, broken, faults | one per statement of creation and status change |
| Onboarding | profile, lists, preferences and the status stored beside them | user, rival, preference, catalog, skills, rows, submitted, request, ... | one per statement of the ten operations |
| ScraperSync | batches stored in chunks | catalog, companies, runs, listings, sync, ... | one per statement at which PostgreSQL lets another transaction in |
| JobBoard | composes ScraperSync with the three lists users read and write | ScraperSync's, clock, created, bookmarks, applications, reader, walked | the sync's, plus one per statement of list, save, track, edit |
| ModelApi | pure: a call's failure and the error and HTTP status it becomes | - | - |
| Assistant | recommendations, job fit, readiness | listing, applied, analyses, runs, fits, gaps, request, ... | one per statement or external call |
| EmailDelivery | the retry loop against a provider with idempotency keys | sender, processing, accepted, mailbox, reported, sends | the tries, the provider, lost answers |
| Outbound | composes Assistant and EmailDelivery under one load bound | | |
| CvEvidence | pure: evidence from a file, an analysis, a summary | - | - |
| CvRender | pure: template, fallback renderer, structure test | - | - |
| CvAnalysisCopy | pure: what an analysis publishes and what the wrapper may write | - | - |
| GenAi | pure: attempts and errors of the chat completion calls | - | - |
| CvDocuments | generating, analysing and reading at once, built from the four above | state, analyses, runs, genAi, request, calls, faults | one per await |
| *Proofs | TLAPS proofs about the module of that name (AsyncOutboxProofs: also the refinement; JobBoardProofs: also ScraperSync; OutboundProofs: also Assistant and EmailDelivery) | | |
| MC* | instances for TLC: inputs, symmetry sets | | |

All component modules have the same shape. A handler in flight is a record: the await it is at, and
the values it read before and still carries (the attempt number of a claim, the status a change was
validated against, the file it will clean up). Every step is one statement or one transaction with
the synchronous code after it, up to the next await, and steps of different handlers interleave
freely. An early return or a throw ends the handler. A request refused at its first read changes
nothing and, where answers are not the subject, is not a step. Operators that no action uses but that
sit right before one of the same name (`MarkQueuedAlways` before `MarkQueued`) are *regressions*: what
the definition would be with a plausible bug. PROJECT.json pairs each of them with the property that
must fail when it takes the definition's place; this shows that the properties are about the code.
History variables (`overlapped`, `missed`, `broken`, `settled`, `walked`, `torn`) let a property speak
of the sequential case: the `Sequential...` properties say what an operation promises when nothing
overlapped or failed, the others what is left when something did.

### AsyncOutbox

`outbox` are the rows of `async_job_outbox`, `entry` is what BullMQ holds under the row's id (absent,
waiting, active with an owner, completed, failed, and how often it was attempted and stalled),
`handler` the invocations of the callback given to `new Worker`, `publisher` those of `publish` and
`publishPending`. `Find`, `Claim`, `Process`, `Succeed`, `Fail`, `Settle` follow the callback line by
line; `PublishFind`, `PublishAdd`, `PublishMark` follow `publish`; `MarkQueued`, `Claimable`, `Owned`
are the WHERE clauses of the repository. BullMQ is external: `Added` (an add under an existing id is
a no-op), `Settled` (retry until the attempts are used up, then kept as failed), `Stalled` (a lost
lock returns the entry, too many fail it) and the removal of completed entries are modelled from the
options `buildQueueAddOptions` passes. That removal is no step of its own: `removeOnComplete` is applied
when a job of the queue completes, so `Settle` trims entries with the one it completes, and
`OtherJobCompletes` stands for jobs outside the instance, of which nothing says that they come. Faults are crashes of either process, database errors, queue
errors with and without effect, a lock lost by a living handler, and loss of all Redis data.
Abstractions: the clock is coarse (one unit is long against a statement, so a claim is written in
the unit it was prepared in), `scheduledAt` is always due, the rows' order is their number, the
side effect is one step with three outcomes (done, refused, done but reported failed). A payload
that no handler accepts cannot be created by the code and is left out.

### JobLease and the refinement

JobLease knows no queue, no publisher and no attempt counter, only a lease. A job is accepted, granted
to one worker at a time and finished by its holder, once. A lease can pass to another worker (it
expired) or be released (its holder died, or gave the job back for a retry), and a job is done only
after its side effect ran, which a worker that lost the lease may still cause. AsyncOutboxRefinement
maps `phase` to the row's status, `holder` to the handler whose terminal update would still pass its
WHERE clause (`Owned`), and `ran` to `delivered`. Claims map to Grant, side effects to Run, terminal
updates to Finish or Release, the death of an owning handler to Release; the steps of publishers and
of the queue are invisible to it.

### AuthSessions

One email address, so one user row, its LOCAL and GOOGLE credential, its one-time code, its reset
tokens and its refresh tokens; any number of requests. DISABLED stands for every status but ACTIVE.
`parent` and `family` of a token are its rotation links; `password` and `google` are history
variables (under which password or Google account the session was authorised), `overlapped` tells
whether two requests have ever been in flight together. `completePasswordReset` and
`markEmailVerified` are the sequences of statements they are; `rotateRefreshToken` and
`createAccountWithEmailVerificationJob` are transactions and therefore one step each. `Die` ends a
request at any await. `SetStatus` is an administrator in the database.

### CvFiles

`file[f]` joins the bytes on disk with the row of `cv_file_metadata` and remembers whether the id was
given to the client; `cited` are the files of persisted analyses, `runs` the idempotency keys of
persisted recommendation runs. `request` walks through create (disk), insert (row), read, analyse,
persist, or, after a failure, unlink and mark: the catch block. `sweep` is `cleanupExpiredCvFiles`,
file by file. An activation is the transaction of the code, at PostgreSQL's READ COMMITTED: its
deactivating statement works on what it saw, and the partial unique index decides at the insert.
Faults: a failing statement (db), a commit whose answer is lost (lost), a failing unlink in the catch
block (unlink) or in the cleanup (sweep), a crash. Left out: other users (a foreign row is answered
like a missing one), partially written files, and the content of the analysis, which succeeds or
fails in one step.

### ApplicationTracker

`record` and `history` are the two tables; a creation is `CreateApplication` (checks), `Insert`,
`AppendHistory`, a status change `UpdateApplicationStatus` (read and validate), `WriteStatus`,
`AppendHistory`. The unique key is the guard of `Insert`. `overlapped` and `broken` are history
variables: records two handlers worked on at once, and records whose history insert was lost. Notes,
PATCH and the list are in JobBoard; the source of a record decides nothing and is left out; records
are never deleted by the code.

### Onboarding

One user with profile, preferences, the two lists and the skills, and a rival who may take a username
first. Each operation is the sequence of statements of its service: a PATCH reads and writes, a PUT of
a list deletes and creates without a transaction, skills go through the shared catalog, and every
operation ends with reading the user again and storing the computed status if it differs
(`Refresh`, `Settle`, `SyncStatus`). Texts are filled in or not; the preference fields that are simply
replaced when given are one field; experience and education items are what the schemas compare
(`ValidExperience`, `ValidEducation`). `offered` fixes, for one behaviour, the operations its clients
call: the profile and the preferences write the same status and are explored together, the lists each
by themselves. `VerifyEmail` and `Rename` are the rest of the system.

### ScraperSync and JobBoard

A sync walks its batch in chunks. In one transaction, `EnsureSkillMap` creates missing skills,
`UpsertPlatform` locks the platform's row until the commit, `FindCompany` and `WriteJob` look a company
up and write it in two statements, `CommitChunk` makes everything visible. Two transactions that wait
for each other's rows lose one of them (`Deadlock`); any statement may fail (`Interrupt`), which rolls
back the chunk and ends the batch. Names are values with `Slug` for `normalizeSlug`.

JobBoard adds the readers. A page is two statements, `FindRows` and `CountRows`; ties come in any
order. Filters, orders (nulls last), page arithmetic and staleness are operators translated from the
`where` and `orderBy` builders. `SaveBookmark` and `CreateApplication` are three statements with the
unique key at the last; `UpdateForUser` is the PATCH and the updateMany of a status change.
Abstractions: a text is the set of words that a search may find, without letter case; the exact
filters are one facet; there is one user. The bookmark order `updated_desc` needs the update times of
listings, which the model does not keep, and is excluded by an assumption; the history of an
application is in ApplicationTracker.

### ModelApi, Assistant, EmailDelivery, Outbound

ModelApi is a table of the ways a call can fail and of what requestModelApi makes of each, down to the
HTTP status. Assistant walks generation (key, analysis, candidates, call, validation, nested create),
reads, fit analysis and the readiness probe; a listing may close and an analysis may be stored between
any two of their steps. Text lengths matter where one schema lets through what the next refuses.
EmailDelivery is one send with its loop of tries; the provider takes a message per key, answers the
key it knows, refuses one it works on, and its answer may be lost after the delivery. A second sender
with the same message is a job attempted again. Outbound runs both under one load bound; nothing in
the code connects them but the process.

### CvEvidence, CvRender, CvAnalysisCopy, GenAi, CvDocuments

A text is a sequence of words, and `About` says of each word what the regular expressions see in it (a
heading, contact data, forbidden or private content, "$1"). On this domain CvEvidence translates the
splitters, contact extraction, PDF text recovery and the merging of what the file says of a section
with the reviews of the latest analysis (the first of a name counts); CvRender the template
normalisation, the passes of the deterministic renderer in their order, and the tests for structure,
safety and grounding; CvAnalysisCopy the deterministic copy (summaries, actions, section reviews,
reasons and next steps of recommendations), the test on the wrapper's answer and the filters before
publication, which read all of it; GenAi the attempts. CvDocuments is the state machine that uses them: what
a handler read is kept in its record while other requests store analyses and retention erases the
file. Lengths are modelled only where the published schema compares them (a summary over 800); the
50 000-character limits, letter case and the cutting of long texts are not. Labels are words not
contained in one another. An active element without closing tag stays in the template, but one that
reaches up to the closing tag of another is not modelled. Patterns over composed sentences are words that
match with the full stop after them (`abbreviated`), the one way in which the safety filter of the copy
can match where that of its fragments did not. Analyses of uploads are in CvFiles, of stored files here. The list of
analyses is newest first.

## 3. What TLC checks

| Run | Question | Instance | Distinct states | Result |
| --- | --- | --- | --- | --- |
| outbox_faults | is a claim a lease, whatever fails? | 1 row, 2 handlers, 2 publishers, any 2 faults, clock 0..2 | 700 216 | holds, and implements JobLease |
| outbox_drain | does every committed row end, unless BullMQ keeps its entry after a crash? | 2 rows, batch of 1, one crash, queue error or Redis loss | 209 319 | holds (liveness) |
| outbox_stranded | ... with database errors? | 1 row, 2 database errors | | **violated** |
| auth_concurrent | what do sessions and tokens keep under interleaving? | 2 requests, 2 tokens, 1 reset token, 2 Google accounts, 1 death | 3 482 373 | holds |
| auth_rotation_race | does rotation invalidate the old token? | 2 requests, 3 tokens, no fault | | **violated** |
| cv_files | are files, rows and results consistent? | 3 files, 2 requests, 1 cleanup, 2 faults | 674 925 | holds |
| cv_retention | are expired files erased, unless two failures hide them? | 2 files, 2 requests, 1 cleanup, any 2 faults | 384 095 | holds (liveness) |
| applications | what does the history guarantee? | 2 records, 2 jobs, 2 handlers, 3 entries, 1 fault | 2 236 760 | holds |
| onboarding | what do the stored status, the lists and the preferences guarantee? | 2 requests, 2 skills, lists of up to 2 items, 1 fault | 1 650 392 | holds |
| catalogue | what do overlapping batches store, and what does a client paging through it see? | 2 batches of 2 and 3 jobs, chunks of 2, 1 fault, 4 queries, 1 saved and 1 tracked job | 1 598 287 | holds |
| outbound | what do waiting for the Model API and retrying an e-mail leave behind? | 2 requests, or 3 sends by 2 senders, 1 fault, 1 change of the data in between | 1 263 019 | holds |
| documents | what is published, whatever the providers answer? | 2 requests of different kinds, 3 files, 1 expiry, 1 fault | 56 632 | holds |

**Bounds.** Two concurrent actors on one object are enough for the races here, because every guarded
statement tests one row and a third actor can only repeat what one of the two did; the proofs below
remove the bound where they apply. Two faults let one failure hit the recovery from another; where
nothing recovers, one fault is enough. Two records or files of one owner are needed where an operation
on one changes another (activation deactivates, a batch leaves a row out, two records of one job). Two
units of time let a claim become stale, be replaced and become stale again. A chunk of two in a batch
of three makes a batch that can end between two chunks, with one key in both; the two platforms and the
one company they share make the transactions wait for each other. A page of one row gives lists of
several pages. Counters that would grow are bounded in a guard by a named constant (MaxClock,
MaxFaults, MaxHistory, MaxBatches, MaxCalls, MaxSends, MaxLoad, MaxSaved, MaxChanges); MaxList bounds the
lists the Model API answers with. In `outbound`
and `documents` each input has a weight and MaxLoad bounds their sum: two light requests run together,
a heavy one runs beside less. `documents` has few states because a step computes a whole document; its
inputs, in MCCvDocuments, were chosen so that every branch of the renderer and of the copy filters is
taken. CHECK_DEADLOCK is off where the system may really come to rest: all jobs ended, all requests
answered, all batches sent. The tracker and the onboarding model never rest.

**The violated runs.** Each states a sentence of the documents and shows a trace of the code that
contradicts it; PROJECT.json quotes both. *outbox_stranded*: errors of the database reject the callback
before the row moves but count as BullMQ attempts; the failed entry is kept, and republishing under its
id does nothing. The row stays QUEUED although recovery publishes it again and again.
*auth_rotation_race*: the rotation updates the current token by id only. Of two overlapping refreshes the
second exchanges a revoked token; the family has two live ends, one of which `replacedByTokenId` no longer
names.

### Findings without a run of their own

PROJECT.json lists further places where code and documents disagree, with the line of each. These name
a definition of the model that states what the documents say and that the code violates; to see the
counterexample, put it in the place of the properties of a run, with the instance given here:

| Definition | Run, and what to change | What happens |
| --- | --- | --- |
| JobsDrain | outbox_stranded, faults {"crash"} | A worker dies after its claim. The entry comes back before the claim is stale, the claim is refused, the callback returns and the entry is completed. Nothing removes it until another job of the queue completes; republishing the row does nothing, and it stays PROCESSING. This is the exception in `JobsDrainUnlessKept`. |
| ResetEndsOldSessions | auth_concurrent, 1 request | Between its second and third statement a reset has spent its token and not yet revoked the sessions, and the user cannot repair it. |
| ActiveCvOnlyExpires | cv_files, faults {"lost"} | The answer of an activation's commit is lost, and the catch block removes the file that has just become active; the former one was deactivated by the same commit. |
| Forgotten(f), never | cv_retention, faults {"lost", "unlink"} | As before, but meanwhile another request has found the active file and told the client about it, and the unlink in the catch block fails: the row is marked deleted, the bytes stay, and no cleanup looks for them. This is the exception in `ExpiredFilesAreErased`. |
| UploadsAreErased | cv_retention, 1 request, faults {"db"} | A failing metadata insert in an analysis leaves bytes without a row; cleanup goes by rows. |
| LastEntryIsStatus | applications, 1 record, no fault | Two status changes write the record in one order and their entries in the other. |
| EveryStatusIsEntered | applications, 1 request | The history insert of a creation or a status change fails after the record was written. |
| ListsAreWhole | onboarding, 1 request | A replacement deletes, then creates, in no transaction: a failure in between leaves an empty list, where users.md says "transactionally". |
| SalaryFilterOverlaps | catalogue, queries `AtLeastTwo` | The tests for null are on the column that is not compared, so a listing without an upper end is missed. |
| SnapshotsAreWhole | outbound, 1 request | The fit score is stored and its gaps are not, in no transaction. |
| DeadlineIs503 | outbound, 1 request, no fault | The deadline fires while the body is read; what was read is taken for the answer, which is malformed: 502. |
| DatabaseOutageIs503 | outbound, 1 request | No error of the database client is mapped, so it answers 500, where model-api.md, jobs.md, bookmarks.md and applications.md document 503. `DocumentedStatus` leaves this cause and the deadline within a body out. |
| ScoredIsAnswered | documents, 1 request | The copy that replaces what the wrapper wrote is validated like it, and a summary of six long skills, a blank around the model's name or a skill "jl" before a full stop makes it fail: 500. These are the exceptions in `WrapperIsOptional`. |
| FallbackFailsAs502 | documents, 1 request | `{{constructor}}` is looked up in a plain object and finds a function: 500. |

The others are about the text pipeline and the external calls: the property they name holds because it
states what the code does keep, and its comment names the exception. Recommendations are checked against
candidates the model was never sent; Resend's 502 and 503 are not retried; "$10K" and "JavaScript: ES6"
in a CV make its own fallback unusable; list items with tags of their own lose them in the fallback;
contact data and the file itself are part of what the providers are sent; ATS evidence is always empty;
"developer" makes copy private.

### Behaviour for which the repository promises nothing

Seen while modelling, part of the models, and no property is about it.

* Auth: a login, verification or refresh that started before a password reset can store its session
  after it; two uses of one reset token can both succeed; a logout racing a refresh leaves the successor
  alive; a Google-only account is mailed a reset token that can never work; an expired one-time code
  cannot be replaced.
* Outbox: after a crash in its last attempt a job is attempted once more than configured.
* Tracker, bookmarks, recommendations: the loser of a race for a unique key is answered 500, not 409 or
  the winner's row; a status change is checked against a status that may have been replaced.
* Onboarding: of two overlapping updates the one that read first may store its older status last; it
  stays until the next operation. It never claims more than is there (`StatusNeverAhead`).
* Lists: pages read while a sync writes may repeat or miss a row; candidates of equal times come in any
  order.
* Scraper: it may store texts longer than the payloads of job fit, analysis and recommendation allow;
  requests about such a listing are answered 500.
* CV documents: for a CV without e-mail and phone no name, headline or location is found, because the
  lines are tested for containing the empty string; capital and title-case section markers are filled
  twice; a placeholder inside an attribute makes the template unusable (502), and so does an active
  element that is never closed, which the normalisation keeps and the safety test refuses; headings are recognised by
  unanchored alternatives, so longer ones are taken for MVP sections; labels and short names in the
  template text are erased by the last passes of the fallback; raw PDF syntax counts as readable text
  and Tj literals are read twice; a repeated x-request-id of a stored analysis is answered 500, as is a
  file that cannot be read.

### Fairness

* AsyncOutbox: weak fairness for every publisher and handler step (a promise settles, or the process
  crashed, which is another step), for the recovery timer (`setInterval`, line 188 of
  async-workloads.queue.ts), for BullMQ handing out waiting entries and detecting lost locks, and
  strong fairness for the clock, which may tick only while no claim is in flight. Nothing is assumed
  of faults but their bound, and nothing of the removal of completed entries: it happens, or not, when
  another job completes. `JobsDrainUnlessKept` therefore lets a row stay PROCESSING if a crash
  abandoned its claim and its completed entry is kept for ever.
* CvFiles: handlers finish, time passes, and the cleanup is started again and again; the last is what
  docs/environment.md:202 asks of the operator.
* The other modules have no liveness property: a request that dies is simply gone, and what it left is
  the subject of the safety properties.

## 4. What is proved

TLAPS proves the following for every value of the constants that satisfies the modules' ASSUMEs, that
is for any number of jobs, requests, files, tokens, batches and any number of faults.

* **AsyncOutbox** (AsyncOutboxProofs): TypeOK; `ExclusiveSideEffects`, `SucceededWasDelivered`,
  `TerminalIsFinal`, `OnlyOwnerEndsAttempt`. The argument is the invariant `LeaseInv`: a handler
  between its claim and the end of its attempt either owns the row (same start, same attempt number,
  PROCESSING) or was superseded by a claim at least StaleAfter later with a larger number; a claim in
  flight carries the present time and a number above those of all older claims. Neither conjunct is
  inductive alone: that a stale handler cannot end the new attempt needs the numbers to grow, that
  they grow needs the claim to be prompt. From it follows the refinement
  `Spec => ImplementsLease`: an owner is the only one (`SoleOwner`), a claim is a Grant because
  handlers still acting on older claims have smaller numbers, the end of an attempt is a Finish or a
  Release if its handler owns the row and invisible if not, a side effect that ends is a Run, a commit
  of a row an Accept, and all else (publishers, queue, clock, faults of idle handlers) a stutter.
  `FailedEntryMeansTerminal` is proved under `CountersMayAgree`, by `CountersInv`: a handler holds its
  entry and carries its count, the number of its attempt is above that count, and every stall of an
  entry was a crash. Each hypothesis excludes a fault that really parts the two counters: a database
  error rejects the callback before the row moves (the run `outbox_stranded`); more crashes or lost
  locks than BullMQ tolerates fail an entry nobody has ended; after a loss of Redis an entry added
  again can be used up by a second worker while its first handler still runs. They allow all that
  `outbox_drain` checks, and with a queue that keeps its data any number of workers.
* **AuthSessions** (AuthSessionsProofs): TypeOK as part of `AuthInv`, and from it
  `SessionsAreVerified`, `SessionsOfLinkedIdentity`, `UnverifiedKeepsItsCode`,
  `UsedResetChangedPassword`. `AuthInv` says of each await which facts,
  read before it, no other request can undo: an address stays verified, a link stays linked, a reset
  that has its password stored has it stored.
  `SequentialRotation` and `SequentialReset` follow from `SeqInv`, for every sequence of requests that
  neither overlap nor die, with anything expiring or being disabled in between. `SeqInv` joins what
  neither says alone: one request is at work; every family's first token exists, so a fresh token starts
  a fresh family, and the token about to be rotated is still live; a session about to be opened carries
  the password in force; a reset token that is not spent has changed no password, but for the one
  request that is between storing the password and spending the token.
* **CvFiles** (CvFilesProofs): TypeOK and `OneActiveCv` with all kinds of fault; with no lost commit
  answers `CvInv` and from it `SnapshotKeepsItsFile`, `KnownFileIsReadable`, `ActiveCvOnlyExpires`,
  and that a cleanup target is private; with no failing unlink in a catch block `GoneInv` and from it
  `DeletedMeansGone` (whoever is about to mark a row has removed its file, and a removed file never
  comes back). `CvInv` says who may hold a file: while a handler owns it, no
  client knows it, no result cites it, no other handler refers to it, so removing it hurts nobody.
* **ApplicationTracker** (ApplicationTrackerProofs): the properties of its run. The invariant
  adds what a handler has half done: an undisturbed record has at most one handler, and its history
  is a chain to its status, or to the status before the one just written and not yet entered.
* **Onboarding** (OnboardingProofs): all five properties of its run. `StatusInv` follows a computed
  status to the row: profile, verification and preferences only ever grow, so a status computed from
  them is never ahead of them, however late it is stored (`SyncNeverAhead`), and a handler that settles
  has stored preferences (`SettledAfterSaving`). Without overlap and misses the stored status is the
  computed one until the only handler writes, and what it stores afterwards is (`StatusInStep`).
  `ListsInStep` says where a list is while it is being replaced: empty in the database and whole in the
  hands of the handler.
* **ScraperSync** (JobBoardProofs): `OneCompanyPerPlatform`, although no key guards it and find and
  create are two statements. `SyncInv`: two transactions never hold one platform; what a transaction
  created belongs to a platform it holds and is the first company of its slug there; a company that was
  not found stays absent on the held platform until it is written. It is proved of the sync alone and
  carried over to JobBoard by `BoardSyncs` (Spec => SyncSpec): nothing a user does changes the state of
  the sync. `SequentialSync` needs two more invariants. `RowsInv`: what a transaction has written and
  not yet committed refers to rows that exist or that it created. `AloneInv`: while no other sync is in
  flight, the keys of the jobs that are through hold the last of them, and the runs count the batch;
  when the batch has ended, this is said of all its jobs.
* **JobBoard** (JobBoardProofs): TypeOK and `SequentialWalk`. `BoardInv` relates a reader to the query
  it pages through: what an undisturbed client has seen are the first rows of the order, as many as
  the pages it has read hold, and none of them twice.
* **Assistant, EmailDelivery** (OutboundProofs): the five properties of `outbound`. `EmailInv` makes
  sender and provider agree: the provider works on a message under its own key and never under one it
  has taken; who waits for it waits for its own message; who was told that it was taken sent the one
  that was. `AssistantInv` says what each await preserves in a handler's hands: its user, the analysis
  and the candidates it read, the validated list it is about to store. That a key was looked up and not
  found is deliberately no part of it: another request may take the key meanwhile, and `OneRunPerKey`
  rests on the insert alone. A score without gaps belongs to a handler between the two inserts. For `DocumentedStatus` every failure is
  carried through the tables of ModelApi.
* **CvDocuments** (CvDocumentsProofs): TypeOK, `PublishedAsScored`, `WrapperIsOptional`, `OnlyThisCv`,
  `FallbackAnswers`, and `EvidenceIsOwn`, which no run checks: a generation has no evidence or that of an
  analysis of its own user and file. `DocumentsInv` says that what is about to be stored, what is stored
  and what was answered has passed `validatePublicCvAnalysisResponse`, that analyses are only added, and,
  for each answer, what the property asks of it; what a handler read is tied to the analyses stored, so
  that a later one cannot invalidate it. The rest is about the text, for every text and template:
  - Words are followed through each operator of CvEvidence, CvRender and CvAnalysisCopy. What a
    generation writes is among the words of `Own`: the file with what the regular expressions find in it,
    the summary, the template, and the copy of this file's analyses. That gives `OnlyThisCv`.
  - The deterministic response passes the test before publication for every file and every core answer
    that ranks candidates it was given, each once, unless its summary is longer than the published
    schema allows, blanks stand around the model's name, or a word at the end of a sentence reads as an
    address with the full stop. That gives `WrapperIsOptional`: a wrapper that fails or answers anything is replaced,
    and the replacement passes.
  - The fallback *follows* its normalised template: the same elements with the same classes and no label
    lost. Each pass of the renderer keeps that, unless the template resists it (`TemplateResists`: it is
    empty, has a code fence, an active element that is never closed, a placeholder named as a member of
    every object, a placeholder or forbidden content in an attribute, a list item with tags inside, or a
    label in an identity element or next to a placeholder) or a word of the CV holds "$1", is
    one no answer may contain, or is a secret of the template too. With that, the structure, safety and
    grounding tests accept it: `FallbackAnswers`. The exceptions are part of the property because the
    code does fail there (section 3).

  The operators are folds and recursive functions over sequences. The prover cannot instantiate an
  induction theorem, so a lemma about a fold states its invariant as the set of indices up to which it
  holds and shows that this set is the whole range (`NatSteps`, `UpTo`).

The assumptions are named in the modules and evaluated by TLC in the runs. Beside the ranges of the
bounds they say: `None` is no row, number or company; there are finitely many slugs and external ids;
requests name files of the instance; analyses stored before the start passed the validation that the
code applies before it stores one. Of the text they say that there are finitely many words; what a
regular expression finds in a word is a word or nothing; files, summaries, templates and answers of the
Model API are made of words; an element with n tags inside has n + 1 texts between them, which is what
parsing it means; and the labels of a template are not placeholders, sample data or debris of a PDF.

Each proof module shows Init => Inv, Inv /\ [Next]_vars => Inv', with one step per action or per
group of actions with one effect, and Inv => property; the theorems combine them with PTL.

Only model-checked: the liveness properties `JobsDrainUnlessKept` and `ExpiredFilesAreErased`, because fairness
and ENABLED are outside the prover's reach. Every other property of a run that holds is stated by a
theorem. No module of the project uses a RECURSIVE operator.

## 5. Not modelled

* Configuration, logging, API documentation tooling (`src/shared/docs`), seeds: no behaviour of the
  running service.
* HTTP plumbing: validation messages, response envelopes, cookies, the counters of the rate-limit
  library. A shutdown is a crash of the handlers in flight.
* The Model API, the GenAI provider, Resend, BullMQ, Redis and PostgreSQL beyond what the code relies
  on: they answer or fail in the ways the code distinguishes.
* The content of tokens, passwords and e-mails; the weights of the deterministic ranking, which is an
  order on the candidates.
* Lengths of texts, but for the two places where schemas disagree; the 50 000-character limits; letter
  case.
* Updates of listings as the order of bookmarks (`updated_desc`).

## 6. Plan

1. Registration: AuthSessions' transactional creation composed with AsyncOutbox: no account without its
   mail job, no mail without its account.
2. The verification steps of AuthSessions composed with Onboarding, in place of `VerifyEmail`.
3. A reference definition for the splitters of CvEvidence, checked over all short sequences of words.
4. How many documents one request may cost the provider, as a property and a theorem.
