----------------------------- MODULE Assistant -----------------------------
(***************************************************************************)
(* Job recommendations, job fit and the readiness probe: the requests that *)
(* wait for another service between a read and a write (modules            *)
(* ai-job-recommendations, ai-job-fit, health).                            *)
(*                                                                         *)
(* A job is what ranking, the where clause and the limits of the model's   *)
(* payloads tell apart: whether its title names the wanted role, its       *)
(* number of matching skills, whether it is remote, when it was posted and *)
(* how long its title, its longest skill and requirement are.  An analysis *)
(* is the job it was made for (None: role names only) and the lengths of   *)
(* its texts.  A user is what job fit reads of a profile and preferences.  *)
(***************************************************************************)
EXTENDS ModelApi, Integers, Sequences, FiniteSets, SequencesExt

CONSTANTS Requests,       \* slots of concurrently running handlers
          Inputs,         \* what clients ask for
          Users,
          Profiles,       \* [Users -> what job fit needs of the user]
          Jobs,           \* listing ids, numbers: the last tie-break
          Traits,         \* [Jobs -> role, skills, remote, posted, title, skill, requirement]
          Analyses,       \* analysis results in the order they are stored
          Bookmarked,     \* user-job pairs
          Alien,          \* a job id no candidate has
          Stamps,         \* analyzedAt of an answer, createdAt of an empty run
          MaxModelCandidateJobs,
          MaxList,        \* bound on the lists the model answers with
          MaxCalls, MaxFaults, MaxChanges,
          None

ASSUME AssistantConstants ==
    /\ Jobs \subseteq Nat /\ Alien \notin Jobs
    /\ MaxModelCandidateJobs \in Nat \ {0} /\ MaxList \in Nat
    /\ MaxCalls \in Nat /\ MaxFaults \in Nat /\ MaxChanges \in Nat
    /\ Len(Analyses) \in Nat
    /\ \A i \in 1..Len(Analyses) : Analyses[i].owner \in Users
    /\ \A input \in Inputs :
          /\ input.kind \in {"recommend", "latest", "detail", "fit", "ready"}
          /\ input.kind \in {"recommend", "latest", "detail"} => input.limit \in Nat

VARIABLES listing,    \* [Jobs -> open, closed (or expired), hidden]
          applied,    \* user-job pairs
          analyses,   \* how many of Analyses are stored
          runs,       \* recommendation runs in the order they are stored
          fits, gaps, \* calls that stored a fit score, and its skill gaps
          request,    \* [Requests -> Request]
          calls,      \* requests started
          changes,    \* of listings and applications by the rest of the system
          faults,
          torn        \* a job fit broke off between its two inserts

assistantVars == <<listing, applied, analyses, runs, fits, gaps, request, calls,
                   changes, faults, torn>>

Idle == [at |-> "idle"]
Free(r) == request[r].at \in {"idle", "answered"}
Goto(r, next) == request' = [request EXCEPT ![r] = next]

\* The end of a handler: its status, why, the run it answers with and the
\* listings of it that are shown.
Answer(r, status, cause, run, shown) ==
    Goto(r, [at |-> "answered", input |-> request[r].input, id |-> request[r].id,
             status |-> status, cause |-> cause, run |-> run, shown |-> shown])
Fail(r, class, cause) == Answer(r, Normalized(class), cause, None, {})

\* A handler starts; its first statement runs in the state it finds.
Receive(r, input) ==
    /\ Free(r)
    /\ calls < MaxCalls
    /\ calls' = calls + 1
    /\ Goto(r, [at |-> input.kind, input |-> input, id |-> calls + 1])

\* The n of a set that come first in a strict order.
Best(n, set, Before(_, _)) == {j \in set : Cardinality({i \in set : Before(i, j)}) < n}

(* The listings a query shows, and the items of a run that are answered: in *)
(* the run's order, so that which they are says all.                        *)
Visible(j) == listing[j] = "open"
Resource(run, limit) ==
    LET shown == {i \in 1..Len(run.items) : Visible(run.items[i])}
    IN {run.items[i] : i \in Best(limit, shown, <)}

RunsOf(user) == {i \in 1..Len(runs) : runs[i].user = user}
KeyedRuns(user, key) == {i \in RunsOf(user) : runs[i].key = key}

(***************************************************************************)
(* generateRecommendations.                                                *)
(***************************************************************************)
\* An idempotency key that was used answers with its run.
FindKeyedRun(r) ==
    LET q == request[r] IN
    /\ q.at = "recommend"
    /\ \/ /\ q.input.key # None
          /\ \E i \in KeyedRuns(q.input.user, q.input.key) :
                 Answer(r, 201, "replay", i, Resource(runs[i], q.input.limit))
       \/ /\ q.input.key = None \/ KeyedRuns(q.input.user, q.input.key) = {}
          /\ Goto(r, [q EXCEPT !.at = "resolve"])
    /\ UNCHANGED <<listing, applied, analyses, runs, fits, gaps, calls, changes, faults, torn>>

Stored(user) == {i \in 1..analyses : Analyses[i].owner = user}
Latest(set) == CHOOSE i \in set : \A k \in set : k <= i

\* A result without its listing counts as no result, the latest one too.
ResolveCvAnalysisResult(r) ==
    LET q == request[r]
        given == q.input.analysis
        found == IF given # None THEN {given} \cap Stored(q.input.user)
                 ELSE IF Stored(q.input.user) = {} THEN {}
                 ELSE {Latest(Stored(q.input.user))}
        usable == {i \in found : Analyses[i].job # None}
    IN /\ q.at = "resolve"
       /\ IF usable = {}
          THEN Fail(r, IF given # None THEN "NotFound" ELSE "Validation", "analysis")
          ELSE \E i \in usable : Goto(r, [at |-> "candidates", input |-> q.input,
                                          id |-> q.id, analysis |-> i])
       /\ UNCHANGED <<listing, applied, analyses, runs, fits, gaps, calls, changes, faults, torn>>

\* filter: the listings that the role and the skills of the analysis and the
\* filters of the request match.
BuildCandidateWhere(q) ==
    {j \in Jobs : /\ Visible(j)
                  /\ j \in q.input.filter
                  /\ q.input.excludeApplied => <<q.input.user, j>> \notin applied}
\* The newest of them, three times as many as the model is sent; of listings
\* of one time the database takes any.
FindCandidateJobs(q) ==
    LET where == BuildCandidateWhere(q)
        room == 3 * MaxModelCandidateJobs
    IN {found \in SUBSET where :
          /\ Cardinality(found) = IF Cardinality(where) < room THEN Cardinality(where) ELSE room
          /\ \A i \in found, j \in where \ found : Traits[j].posted <= Traits[i].posted}

ScoreCandidate(user, j) ==
    LET t == Traits[j]
        skills == IF t.skills * 6 > 40 THEN 40 ELSE t.skills * 6
    IN (IF t.role THEN 40 ELSE 0) + skills + (IF t.remote THEN 5 ELSE 0)
         + (IF <<user, j>> \in Bookmarked THEN 3 ELSE 0)
         - (IF <<user, j>> \in applied THEN 20 ELSE 0)

\* The candidates the model is asked about: the best of them, of equal ones
\* the newest, of equally new ones those of the smaller id.
Newer(i, j) == \/ Traits[i].posted > Traits[j].posted
               \/ (Traits[i].posted = Traits[j].posted /\ i < j)
RankCandidates(user, found) ==
    LET Better(i, j) == \/ ScoreCandidate(user, i) > ScoreCandidate(user, j)
                        \/ ScoreCandidate(user, i) = ScoreCandidate(user, j) /\ Newer(i, j)
    IN Best(MaxModelCandidateJobs, found, Better)

\* The texts of the payload against jobRecommendationModelPayloadSchema.
BuildTalentProfile(a) == [hardSkills |-> a.signals, domainSignals |-> a.summary,
                          tools |-> a.actions, redFlags |-> a.missing]
PayloadFits(a, sent) ==
    LET p == BuildTalentProfile(a)
    IN /\ \A n \in p.hardSkills \cup p.domainSignals \cup p.tools : n <= 200
       /\ \A n \in p.redFlags : n <= 300
       /\ \A j \in sent : Traits[j].title <= 200 /\ Traits[j].requirement <= 120

\* Reads the preferences and the candidates and sends the payload, which the
\* client checks before it calls; without candidates nothing is called.
ReadCandidates(r) ==
    LET q == request[r]
        NothingFound ==
            \E t \in Stamps :
                Goto(r, [at |-> "store", input |-> q.input, id |-> q.id,
                         analysis |-> q.analysis, items |-> <<>>, created |-> t])
        Ask(found, sent) ==
            IF PayloadFits(Analyses[q.analysis], sent)
            THEN Goto(r, [at |-> "model", input |-> q.input, id |-> q.id,
                          analysis |-> q.analysis, candidates |-> found,
                          sent |-> sent])
            ELSE Fail(r, "ZodError", "size")
    IN /\ q.at = "candidates"
       /\ \E found \in FindCandidateJobs(q) :
             IF found = {} THEN NothingFound
             ELSE Ask(found, RankCandidates(q.input.user, found))
       /\ UNCHANGED <<listing, applied, analyses, runs, fits, gaps, calls, changes, faults, torn>>

\* Inspected up to the limit: an id that is no candidate's, or comes twice,
\* is an error; the rest is cut off unseen.
Inspected(list, limit) == SubSeq(list, 1, IF Len(list) < limit THEN Len(list) ELSE limit)
(* Regression: a listing that comes twice is accepted. *)
UncheckedList(list, candidates) == ToSet(list) \subseteq candidates
ValidList(list, candidates) == ToSet(list) \subseteq candidates /\ IsInjective(list)
ValidateAndSelect(r, list) ==
    LET q == request[r]
        chosen == Inspected(list, q.input.limit)
    IN IF ValidList(chosen, q.candidates)
       THEN \E t \in Stamps :
                Goto(r, [at |-> "store", input |-> q.input, id |-> q.id,
                         analysis |-> q.analysis, items |-> chosen, created |-> t])
       ELSE Fail(r, "Downstream", "list")

Lists == BoundedSeq(Jobs \cup {Alien}, MaxList)
ModelRecommends(r) ==
    /\ request[r].at = "model"
    /\ \/ \E list \in Lists : ValidateAndSelect(r, list)
       \/ \E f \in Failures : Fail(r, RequestError(f), f)
    /\ UNCHANGED <<listing, applied, analyses, runs, fits, gaps, calls, changes, faults, torn>>

(* Regression: without the unique index on user and key. *)
AnyKey(q) == TRUE
\* One nested create, and the indices that let one run have a key and one
\* item of a run a job.
UniqueKey(q) == q.input.key = None \/ KeyedRuns(q.input.user, q.input.key) = {}
CreateRecommendationRun(r) ==
    LET q == request[r] IN
    /\ q.at = "store"
    /\ IF ~UniqueKey(q)
       THEN /\ Fail(r, "PrismaError", "key")
            /\ runs' = runs
       ELSE IF ~IsInjective(q.items)
       THEN /\ Fail(r, "PrismaError", "items")
            /\ runs' = runs
       ELSE LET run == [user |-> q.input.user, key |-> q.input.key,
                        analysis |-> q.analysis, items |-> q.items, created |-> q.created]
            IN /\ runs' = Append(runs, run)
               /\ Answer(r, 201, "generated", Len(runs) + 1, Resource(run, q.input.limit))
    /\ UNCHANGED <<listing, applied, analyses, fits, gaps, calls, changes, faults, torn>>

(* Regression: runs of every user are read. *)
AnyRun(user) == 1..Len(runs)
\* getLatestRecommendations and getRecommendationRunDetail.
ReadableRuns(user) == RunsOf(user)
ReadRecommendations(r) ==
    LET q == request[r]
        mine == ReadableRuns(q.input.user)
        newest == {i \in mine : \A k \in mine : runs[k].created <= runs[i].created}
        found == IF q.input.kind = "latest" THEN newest ELSE mine \cap {q.input.run}
    IN /\ q.at \in {"latest", "detail"}
       /\ \/ found = {} /\ Fail(r, "NotFound", "run")
          \/ \E i \in found : Answer(r, 200, "read", i, Resource(runs[i], q.input.limit))
       /\ UNCHANGED <<listing, applied, analyses, runs, fits, gaps, calls, changes, faults, torn>>

(***************************************************************************)
(* analyzeJobFit.                                                          *)
(***************************************************************************)
\* The stored lists are JSON: a location without a province is no location.
MapPreference(stored) ==
    [targetRoles |-> Len(stored.targetRoles), workTypes |-> Cardinality(stored.workTypes),
     locations |-> Len(SelectSeq(stored.locations, LAMBDA province : province # None))]

\* One statement: the user, the profile and the preferences if there are any.
FindUserContext(user) ==
    LET p == Profiles[user]
    IN [profile |-> p.profile, skills |-> p.skills, experience |-> p.experience,
        preference |-> {MapPreference(stored) : stored \in p.preference}]

HasRequiredProfileContext(c) ==
    \E p \in c.profile : c.skills > 0 \/ c.experience > 0 \/ p.careerStatus \/ p.latestRole
HasRequiredPreferenceContext(c) ==
    \E p \in c.preference : p.targetRoles > 0 /\ p.locations > 0 /\ p.workTypes > 0

\* Closed and expired listings are analysed, hidden ones are not.
FindVisibleJob(j) == {Traits[k] : k \in {j} \ {i \in Jobs : listing[i] = "hidden"}}

BuildUserPayload(c) == [skills |-> c.skills, experience |-> c.experience]
BuildPreferencePayload(c) == CHOOSE p \in c.preference : TRUE
BuildJobFitPayload(c, job) ==
    [user |-> BuildUserPayload(c), preferences |-> BuildPreferencePayload(c), job |-> job]

\* jobFitModelPayloadSchema; the scraper's schema lets through titles of 255,
\* skills of 120 and requirements of 2000 characters.
JobFitPayloadFits(p) ==
    /\ p.user.skills <= 100 /\ p.user.experience <= 100
    /\ p.preferences.targetRoles \in 1..20 /\ p.preferences.locations \in 1..20
    /\ p.preferences.workTypes \in 1..3
    /\ p.job.title <= 200 /\ p.job.skill <= 80 /\ p.job.requirement <= 500

\* Reads the user and the listing, checks both and sends the payload, which
\* the client checks before it calls.
ReadFitContext(r) ==
    LET q == request[r]
        context == FindUserContext(q.input.user)
        found == FindVisibleJob(q.input.job)
    IN /\ q.at = "fit"
       /\ IF found = {} THEN Fail(r, "NotFound", "job")
          ELSE IF ~HasRequiredProfileContext(context) THEN Fail(r, "Conflict", "profile")
          ELSE IF ~HasRequiredPreferenceContext(context) THEN Fail(r, "Conflict", "preference")
          ELSE \E job \in found :
               IF JobFitPayloadFits(BuildJobFitPayload(context, job))
               THEN Goto(r, [q EXCEPT !.at = "fitModel"]) ELSE Fail(r, "ZodError", "size")
       /\ UNCHANGED <<listing, applied, analyses, runs, fits, gaps, calls, changes, faults, torn>>

ModelScores(r) ==
    LET q == request[r] IN
    /\ q.at = "fitModel"
    /\ \/ IF q.input.persist THEN Goto(r, [q EXCEPT !.at = "fitScore"])
          ELSE Answer(r, 200, "scored", None, {})
       \/ \E f \in Failures : Fail(r, RequestError(f), f)
    /\ UNCHANGED <<listing, applied, analyses, runs, fits, gaps, calls, changes, faults, torn>>

(* Regression: the handler answers before the gaps are inserted. *)
AnswerEarly(r) ==
    /\ request[r].at = "fitScore"
    /\ fits' = fits \cup {request[r].id}
    /\ Answer(r, 200, "scored", None, {})
    /\ UNCHANGED <<listing, applied, analyses, runs, gaps, calls, changes, faults, torn>>
\* createSnapshot: two inserts that are no transaction.
CreateFitScore(r) ==
    /\ request[r].at = "fitScore"
    /\ fits' = fits \cup {request[r].id}
    /\ Goto(r, [request[r] EXCEPT !.at = "skillGaps"])
    /\ UNCHANGED <<listing, applied, analyses, runs, gaps, calls, changes, faults, torn>>
CreateSkillGaps(r) ==
    /\ request[r].at = "skillGaps"
    /\ gaps' = gaps \cup {request[r].id}
    /\ Answer(r, 200, "scored", None, {})
    /\ UNCHANGED <<listing, applied, analyses, runs, fits, calls, changes, faults, torn>>

(***************************************************************************)
(* getReadinessPayload: PostgreSQL, then Redis, each within the timeout.   *)
(***************************************************************************)
CheckDependency(r) ==
    LET q == request[r] IN
    /\ \E healthy \in BOOLEAN :
          \/ /\ q.at = "ready"
             /\ Goto(r, [at |-> "redis", input |-> q.input, id |-> q.id,
                         postgresql |-> healthy])
          \/ /\ q.at = "redis"
             /\ IF q.postgresql /\ healthy THEN Answer(r, 200, "ready", None, {})
                ELSE Fail(r, "Unavailable", "dependency")
    /\ UNCHANGED <<listing, applied, analyses, runs, fits, gaps, calls, changes, faults, torn>>

(***************************************************************************)
(* The rest of the system, and a statement that fails.                     *)
(***************************************************************************)
ListingChanges ==
    /\ changes < MaxChanges /\ changes' = changes + 1
    /\ \E j \in Jobs, s \in {"closed", "hidden"} :
          /\ listing[j] = "open"
          /\ listing' = [listing EXCEPT ![j] = s]
    /\ UNCHANGED <<applied, analyses, runs, fits, gaps, request, calls, faults, torn>>
Apply ==
    /\ changes < MaxChanges /\ changes' = changes + 1
    /\ \E u \in Users, j \in Jobs : /\ <<u, j>> \notin applied
                                  /\ applied' = applied \cup {<<u, j>>}
    /\ UNCHANGED <<listing, analyses, runs, fits, gaps, request, calls, faults, torn>>
Analyse ==
    /\ analyses < Len(Analyses)
    /\ analyses' = analyses + 1
    /\ UNCHANGED <<listing, applied, runs, fits, gaps, request, calls, changes, faults, torn>>

StatementFails(r) ==
    /\ request[r].at \in {"recommend", "resolve", "candidates", "store", "latest",
                         "detail", "fit", "fitScore", "skillGaps"}
    /\ faults < MaxFaults
    /\ faults' = faults + 1
    /\ torn' = (torn \/ request[r].at = "skillGaps")
    /\ Fail(r, "PrismaError", "db")
    /\ UNCHANGED <<listing, applied, analyses, runs, fits, gaps, calls, changes>>

AssistantInit ==
    /\ listing = [j \in Jobs |-> "open"]
    /\ applied = {} /\ analyses = 0 /\ runs = <<>> /\ fits = {} /\ gaps = {}
    /\ request = [r \in Requests |-> Idle]
    /\ calls = 0 /\ changes = 0 /\ faults = 0 /\ torn = FALSE

ReceiveRequest(r) ==
    /\ \E input \in Inputs : Receive(r, input)
    /\ UNCHANGED <<listing, applied, analyses, runs, fits, gaps, changes, faults, torn>>

AssistantNext ==
    \/ \E r \in Requests :
          \/ ReceiveRequest(r)
          \/ FindKeyedRun(r) \/ ResolveCvAnalysisResult(r) \/ ReadCandidates(r)
          \/ ModelRecommends(r) \/ CreateRecommendationRun(r) \/ ReadRecommendations(r)
          \/ ReadFitContext(r) \/ ModelScores(r) \/ CreateFitScore(r) \/ CreateSkillGaps(r)
          \/ CheckDependency(r) \/ StatementFails(r)
    \/ ListingChanges \/ Apply \/ Analyse

(***************************************************************************)
(* Properties.                                                             *)
(***************************************************************************)
\* The ids every stored run, fit score and answer refers to exist, and runs
\* hold listings in a rank order.
AssistantTypeOK ==
    /\ listing \in [Jobs -> {"open", "closed", "hidden"}]
    /\ applied \subseteq Users \X Jobs
    /\ analyses \in 0..Len(Analyses)
    /\ fits \cup gaps \subseteq 1..calls
    /\ calls \in 0..MaxCalls /\ changes \in 0..MaxChanges
    /\ faults \in 0..MaxFaults /\ torn \in BOOLEAN
    /\ \A i \in 1..Len(runs) :
          /\ runs[i].items \in BoundedSeq(Jobs, MaxList)
          /\ Analyses[runs[i].analysis].owner = runs[i].user
    /\ \A r \in Requests : request[r].at = "answered" /\ request[r].run # None
          => /\ request[r].run \in RunsOf(request[r].input.user)
             /\ request[r].shown \subseteq ToSet(runs[request[r].run].items)
             /\ Cardinality(request[r].shown) <= request[r].input.limit

\* Two recommendation requests of a user with one idempotency key, however
\* they overlap, never store two runs, and whoever is answered is answered
\* with the one that is stored.
OneRunPerKey ==
    /\ \A i, k \in 1..Len(runs) :
          runs[i].key # None /\ runs[i].user = runs[k].user /\ runs[i].key = runs[k].key
              => i = k
    /\ \A r \in Requests :
          LET q == request[r]
          IN q.at = "answered" /\ q.input.kind = "recommend" /\ q.status = 201
                 => q.input.key \in {None, runs[q.run].key}

\* Unless an insert failed, a fit score is stored with its skill gaps: of a
\* request that was answered both are there, and no gaps are there alone.
FitScoresHaveGaps ==
    /\ gaps \subseteq fits
    /\ \A c \in fits \ gaps :
          torn \/ \E r \in Requests : request[r].at = "skillGaps" /\ request[r].id = c

\* A fit score and its gaps are one snapshot (docs/operations/security.md:230
\* asks for a transaction): once its handler has ended, however it ended, a
\* score has its gaps.
SnapshotsAreWhole ==
    \A c \in fits \ gaps :
        \E r \in Requests : request[r].at = "skillGaps" /\ request[r].id = c

\* Every failure of the Model API, of a dependency of the probe and of the
\* list the model returns answers with the status of the error tables of
\* docs/integrations/model-api.md, except the deadline and the database
\* error of the next two properties; besides such an error only a key that
\* was taken meanwhile and a payload over its own limits answer 500.
Documented ==
    [refused |-> 503, timeout |-> 503, server |-> 503, dependency |-> 503,
     client |-> 502, garbled |-> 502, shape |-> 502, list |-> 502]
DocumentedStatus ==
    \A r \in Requests :
        LET q == request[r]
        IN q.at = "answered" =>
               /\ q.cause \in DOMAIN Documented => q.status = Documented[q.cause]
               /\ q.status = 500 => q.cause \in {"db", "key", "size"}

\* A deadline answers 503, wherever in the call it fires
\* (docs/integrations/model-api.md:372).
DeadlineIs503 ==
    \A r \in Requests :
        request[r].at = "answered" /\ request[r].cause \in {"timeout", "cut"}
            => request[r].status = 503

\* A database that does not answer makes the request answer 503
\* (docs/integrations/model-api.md:485, docs/modules/jobs.md:358).
DatabaseOutageIs503 ==
    \A r \in Requests :
        request[r].at = "answered" /\ request[r].cause = "db"
            => request[r].status = 503
=============================================================================
