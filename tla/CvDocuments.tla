----------------------------- MODULE CvDocuments -----------------------------
(***************************************************************************)
(* Generating a CV from a stored file, analysing stored files and reading  *)
(* stored analyses at the same time (ai-cv-generate.service,               *)
(* ai-cv-analyzer.service): what each request has read is kept while the   *)
(* retention job erases files and other analyses of the user are stored.   *)
(* Uploads are in CvFiles.                                                 *)
(***************************************************************************)
EXTENDS CvRender, CvAnalysisCopy, GenAi

CONSTANTS Requests,     \* slots of concurrently running handlers
          Inputs,       \* what clients ask for
          Files, Owner, Content,   \* the stored files: [Files -> ...]
          Jobs, Traits, \* listings: posted, open, role, title and summary sizes
          Bookmarked,   \* user-job pairs
          Cores,        \* the Model API's answers: words, kind of ranking, createdAt
          Earlier, EarlierRuns,   \* analyses and run keys stored before
          Expiring,     \* files whose retention may end while requests run
          MaxCalls,     \* how many of each kind one behaviour starts
          MaxLoad,      \* how many of all kinds
          MaxFaults

Kinds == {"generate", "analyze", "read"}

ASSUME CvDocumentsAssumption ==
    /\ MaxCalls \in [Kinds -> Nat] /\ MaxLoad \in Nat /\ MaxFaults \in Nat
    /\ IsFiniteSet(Jobs)
    /\ Phrase \in Public /\ Labels \subseteq DOMAIN About \ {" "}
    /\ \A w \in Labels : About[w].slot = "" /\ ~About[w].demo /\ ~About[w].garbage
    /\ \A f \in Files : {Content[f].raw, Content[f].shown, Content[f].literals} \subseteq Texts
    /\ \A c \in Cores : /\ {c.matched, c.missing, c.detected} \subseteq Texts
                        /\ c.ranking \in {"none", "all", "twice", "unknown"}

(* Requests are for files there are; the analyses and runs stored before    *)
(* were stored by Persist, which stores only what passed validation.        *)
ASSUME InputsAssumption ==
    \A input \in Inputs :
        /\ input.kind \in Kinds
        /\ input.kind # "read" => input.file \in Files
        /\ input.kind = "generate" => input.summary \in Texts /\ IsDocument(input.template)
        /\ input.kind = "read" /\ input.what = "list" => input.skip \in Nat /\ input.limit \in Nat

ASSUME EarlierAssumption ==
    /\ Earlier \in Seq(ToSet(Earlier))
    /\ \A i \in DOMAIN Earlier :
           /\ Earlier[i].file \in Files
           /\ ValidatePublicResponse(Earlier[i].response, Earlier[i].core)
    /\ EarlierRuns \subseteq
           {<<input.user, input.id>> : input \in {i \in Inputs : i.kind = "analyze"}}

VARIABLES state,      \* [Files -> live, expired, unlinked or deleted]
          analyses,   \* stored analyses, in order
          runs,       \* keys of stored recommendation runs: user, request id
          genAi,      \* AI_CV_ANALYZER_GENAI_ENABLED, AI_CV_GENERATE_GENAI_ENABLED
          request,    \* [Requests -> where the handler is and what it has read]
          calls,      \* how many of each kind were started
          faults

vars == <<state, analyses, runs, genAi, request, calls, faults>>

NoAnalysis == [known |-> FALSE, impression |-> <<>>, actions |-> <<>>, ats |-> <<>>,
               fit |-> <<>>, reviews |-> <<>>]
Idle == [at |-> "idle"]
Free(r) == request[r].at \in {"idle", "answered"}
Goto(r, next) == request' = [request EXCEPT ![r] = next]
Move(r, at) == Goto(r, [request[r] EXCEPT !.at = at])

\* The end of a handler: its status, why, and what it answers with.
Reply(r, input, status, cause, result) ==
    Goto(r, [at |-> "answered", input |-> input, status |-> status, cause |-> cause,
             result |-> result])
Answer(r, status, cause, result) == Reply(r, request[r].input, status, cause, result)
Fail(r, class, cause) == Answer(r, Normalized(class), cause, {})
Resting == UNCHANGED <<state, runs, genAi, faults>>

(* The file is looked up by its id; another user's answers as if it was not there. *)
Findable(file, user) == state[file] = "live" /\ Owner[file] = user
Readable(file) == state[file] \in {"live", "expired"}

\* A handler starts.
Starts(r, kind) ==
    /\ Free(r)
    /\ calls[kind] < MaxCalls[kind] /\ SumFunction(calls) < MaxLoad
    /\ calls' = [calls EXCEPT ![kind] = @ + 1]

Receive(r, input) ==
    /\ input.kind # "read"
    /\ Starts(r, input.kind)
    /\ LET started == [at |-> IF input.kind = "generate" THEN "bytes" ELSE "candidates",
                       input |-> input, latest |-> NoAnalysis, candidates |-> {},
                       core |-> {}, attempt |-> 1]
       IN IF ~Findable(input.file, input.user)
          THEN Reply(r, input, StatusOf.NotFound, "file", {})
          ELSE IF input.kind = "generate" /\ ~genAi
          THEN Reply(r, input, StatusOf.Unavailable, "disabled", {})
          ELSE Goto(r, started)
    /\ Resting /\ UNCHANGED analyses

(***************************************************************************)
(* Generation.                                                             *)
(***************************************************************************)
\* resolveCvBytes of both services: only the generator turns a missing file
\* into 503.
ReadBytes(r) ==
    LET q == request[r]
    IN /\ q.at = "bytes"
       /\ IF Readable(q.input.file)
          THEN Move(r, IF q.input.kind = "generate" THEN "latest" ELSE "core")
          ELSE Fail(r, IF q.input.kind = "generate" THEN "Unavailable" ELSE "ENOENT", "bytes")
       /\ Resting /\ UNCHANGED <<analyses, calls>>

\* findLatestAnalysisResultForUser: by the time the Model API gave, then by id.
LatestOf(user) ==
    LET own == {i \in DOMAIN analyses : analyses[i].user = user}
    IN {i \in own : \A j \in own : analyses[j].response.at <= analyses[i].response.at}

MapLatestAnalysis(analysis) ==
    [known |-> TRUE, impression |-> analysis.response.impression,
     actions |-> Take(analysis.response.actions, 5), ats |-> analysis.response.atsSummary,
     fit |-> analysis.response.summary, reviews |-> Take(analysis.response.reviews, 6)]

(* Regression: the latest analysis counts whatever its file is. *)
AnyFile(analysis, file) == analysis.file \in Files
\* An analysis of another file counts as none, even with an older one of this file.
OfThisFile(analysis, file) == analysis.file = file

ResolveLatestAnalysis(r) ==
    LET q == request[r]
        Evidence(i) == IF OfThisFile(analyses[i], q.input.file)
                       THEN MapLatestAnalysis(analyses[i]) ELSE NoAnalysis
        found == IF LatestOf(q.input.user) = {} THEN {NoAnalysis}
                 ELSE {Evidence(i) : i \in LatestOf(q.input.user)}
    IN /\ q.at = "latest"
       /\ \E latest \in found :
             Goto(r, [q EXCEPT !.at = "provider", !.latest = latest])
       /\ Resting /\ UNCHANGED <<analyses, calls>>

\* What buildEvidence hands on: private data, shared evidence.
Prepared(q) ==
    [private |-> BuildPrivateCvData(Content[q.input.file], q.latest.impression),
     shared |-> BuildBackendParsedSharedCvEvidence(Content[q.input.file], q.latest)]

FileWords(file) ==
    LET c == Content[file] IN ToSet(c.raw) \cup ToSet(c.shown) \cup ToSet(c.literals)

\* buildCvGenerateProviderInput: the words the provider is given.
ProviderInput(q, prepared) ==
    BuildCvGenerateUserContent(
        ToSet(q.input.summary) \cup ToSet(q.latest.impression) \cup ToSet(q.latest.actions)
            \cup ToSet(q.latest.ats) \cup ToSet(q.latest.fit) \cup ReviewWords(q.latest.reviews)
            \cup SharedWords(prepared.shared),
        FileWords(q.input.file))

\* What a provider may say: nothing, all it was told, one word it may not.
Sayings(words) ==
    {<<>>, FoldSet(LAMBDA w, text : Append(text, w), <<>>, words)}
        \cup {<<w>> : w \in {v \in words : About[v].forbidden \/ About[v].private}}

\* The provider writes between the labels of the template or over them,
\* repeats the elements, adds an attribute to them, or returns the template, fenced or not.
ProviderDocuments(q, prepared) ==
    LET template == NormalizeHtmlTemplate(q.input.template)
        Filled(saying) == OnText(template, LAMBDA t : IF IsStatic(t) THEN t ELSE saying)
        Over(saying) == OnText(template, LAMBDA t : saying)
    IN {[template EXCEPT !.fence = f] : f \in {"none", "whole", "part"}}
       \cup {[template EXCEPT !.nodes = @ \o @]}
       \cup {OnNodes(template, LAMBDA n : [n EXCEPT !.attr = Append(@, w)]) :
                w \in Labels \cup Attributes(q.input.template)}
       \cup UNION {{Filled(s), Over(s)} : s \in Sayings(ProviderInput(q, prepared))}

Acceptable(doc, template) ==
    IsSafeMarkdown(doc) /\ ~LeaksTemplateOnlySecret(doc, template)

\* The fallback must be safe and keep the template, or the request fails.
Fallback(q, prepared) ==
    RenderDeterministicCvMarkdown(q.input.template,
        BuildPlaceholderValues(q.input.summary, prepared.shared, prepared.private))

AnswerFallback(r, doc, cause) ==
    LET template == request[r].input.template
    IN IF RenderThrows(template) THEN Fail(r, "TypeError", cause)
       ELSE IF /\ Acceptable(doc, template)
               /\ ValidateTemplateStructure(NormalizeHtmlTemplate(template), doc)
       THEN Answer(r, 201, cause, {doc}) ELSE Fail(r, "Downstream", cause)

\* generateMarkdown with an answer: what is unsafe is rejected, what changes
\* the template or says nothing of the CV is replaced.
Judged(doc, input, prepared) ==
    CASE ~Acceptable(doc, input.template) -> "unsafe"
      [] /\ Acceptable(doc, input.template)
         /\ ~ValidateTemplateStructure(NormalizeHtmlTemplate(input.template), doc) -> "structure"
      [] OTHER ->
         IF HasGroundedCvContent(doc, input.summary, prepared.shared, prepared.private)
         THEN "provider" ELSE "ungrounded"

Again == [cause |-> "again"]

\* What the provider's call may end in: documents and their causes, or failure.
Endings(q, prepared) ==
    {[cause |-> Judged(doc, q.input, prepared), doc |-> doc] :
        doc \in {NormalizeMarkdown(d) : d \in ProviderDocuments(q, prepared)}}
    \cup ({[cause |-> RequestGeneratedCvMarkdown(f, q.attempt)] : f \in GenAiFailures} \ {Again})

ProviderEnds(r) ==
    /\ request[r].at = "provider"
    /\ \E prepared \in {Prepared(request[r])} :
       \E fallback \in {Fallback(request[r], prepared)} :
       \E ending \in Endings(request[r], prepared) :
          CASE ending.cause = "unsafe" -> Fail(r, "Downstream", "unsafe")
            [] ending.cause = "provider" -> Answer(r, 201, "provider", {ending.doc})
            [] OTHER -> AnswerFallback(r, fallback, ending.cause)
    /\ Resting /\ UNCHANGED <<analyses, calls>>

\* The attempt failed and is not the last.
Retry(r) ==
    LET q == request[r]
    IN /\ \/ /\ q.at = "provider"
             /\ "again" \in {RequestGeneratedCvMarkdown(f, q.attempt) : f \in GenAiFailures}
          \/ /\ q.at = "wrapper"
             /\ "again" \in {RequestCvAnalyzerCopy(f, q.attempt) : f \in CopyFailures}
       /\ Goto(r, [q EXCEPT !.attempt = @ + 1])
       /\ Resting /\ UNCHANGED <<analyses, calls>>

(***************************************************************************)
(* Analysis.                                                               *)
(***************************************************************************)
\* buildCandidateWhere, the fifty newest of them.
CandidateWhere(input) ==
    {j \in Jobs : /\ Traits[j].open
                  /\ input.source = "BOOKMARK" => <<input.user, j>> \in Bookmarked
                  /\ input.source = "DIRECT_JOB_DETAIL" => j = input.job
                  /\ input.source = "JOB_SEARCH" => Traits[j].role}
FindCandidateJobs(input) ==
    LET found == CandidateWhere(input)
    IN {j \in found : Cardinality({k \in found : Traits[k].posted > Traits[j].posted}) < 50}

\* assertCvAnalyzerCandidates.
NoCandidatesError(source) == IF source = "JOB_SEARCH" THEN "Validation" ELSE "NotFound"

ReadCandidates(r) ==
    LET q == request[r]
        found == FindCandidateJobs(q.input)
    IN /\ q.at = "candidates"
       /\ IF found = {} THEN Fail(r, NoCandidatesError(q.input.source), "candidates")
          ELSE Goto(r, [q EXCEPT !.at = "bytes", !.candidates = found])
       /\ Resting /\ UNCHANGED <<analyses, calls>>

\* cvAnalyzerModelPayloadSchema: what the scraper may send is longer.
PayloadFits(job) == Traits[job].title <= 200 /\ Traits[job].summary <= 5000

\* A ranking of the Model API: nothing, all jobs, one twice, one of its own.
Ranking(core, candidates) ==
    LET Entry(j) == [job |-> j, score |-> j, matched |-> core.matched, missing |-> core.missing]
        ranked == SetToSeq(candidates)
    IN CASE core.ranking = "none" -> <<>>
         [] core.ranking = "all" -> [i \in DOMAIN ranked |-> Entry(ranked[i])]
         [] core.ranking = "twice" -> <<Entry(ranked[1]), Entry(ranked[1])>>
         [] core.ranking = "unknown" -> <<Entry(0)>>

CoreAnswers(q) ==
    {[fit |-> [score |-> 7, matched |-> c.matched, missing |-> c.missing],
      ats |-> [score |-> 8, detected |-> c.detected],
      evidence |-> Take(ExtractMvpCvText(Content[q.input.file]), 1),
      recommendations |-> Ranking(c, q.candidates), model |-> c.model, at |-> c.at] : c \in Cores}

\* The response is made of the core alone or with the wrapper's answer.
Respond(r, core, wrapped, cause) ==
    LET q == request[r]
    IN \E responses \in {BuildPublicResponse(core, q.candidates, wrapped)} :
       \/ responses = {} /\ Answer(r, 500, cause, {core})
       \/ \E response \in responses :
            IF q.input.persist
            THEN Goto(r, [at |-> "persist", input |-> q.input,
                          analysis |-> [user |-> q.input.user, file |-> q.input.file,
                                        core |-> core, response |-> response]])
            ELSE Answer(r, 200, cause, {[core |-> core, response |-> response]})

ModelAnalyses(r) ==
    LET q == request[r]
    IN /\ q.at = "core"
       /\ IF \E j \in q.candidates : ~PayloadFits(j) THEN Fail(r, "ZodError", "payload")
          ELSE \/ \E failure \in Failures : Fail(r, RequestError(failure), "core")
               \/ \E core \in CoreAnswers(q) :
                     IF genAi THEN Goto(r, [q EXCEPT !.at = "wrapper", !.core = {core}])
                     ELSE Respond(r, core, {}, "deterministic")
       /\ Resting /\ UNCHANGED <<analyses, calls>>

\* buildCvAnalyzerWrapperInput: raw text, the file itself and the evidence.
WrapperInput(q, core) ==
    BuildCvAnalyzerUserContent(ToSet(Content[q.input.file].raw) \cup ModelApiEvidence(core),
                               {FileWords(q.input.file)})

\* The wrapper repeats what it was given, in the right place or elsewhere,
\* changes a score or the ranking, or returns another shape.
WrapperAnswers(base, input) ==
    LET public == {w \in input : ~About[w].private}
        bodies == {[base EXCEPT !.impression = s] : s \in Sayings(public) \cup Sayings(input)}
            \cup {[base EXCEPT !.reviews[1].points = <<w>>] : w \in input \ public}
            \cup {[base EXCEPT !.fit = 9], [base EXCEPT !.recommendations = <<>>],
                  [base EXCEPT !.at = 0], [base EXCEPT !.model[1] = "other"], [base EXCEPT !.wellFormed = FALSE]}
    IN {[path |-> "data", body |-> body] : body \in bodies}
       \cup {[path |-> "result", body |-> base]}

WrapperWrites(r) ==
    LET q == request[r]
    IN /\ q.at = "wrapper"
       /\ \E core \in q.core :
          \E answer \in WrapperAnswers([BuildDeterministicResponse(core) EXCEPT !.size = 100],
                                      WrapperInput(q, core)) :
             Respond(r, core, {NormalizeWrapperResponse(answer)}, "wrapper")
       /\ Resting /\ UNCHANGED <<analyses, calls>>

WrapperFails(r) ==
    LET q == request[r]
    IN /\ q.at = "wrapper"
       /\ "failed" \in {RequestCvAnalyzerCopy(f, q.attempt) : f \in CopyFailures}
       /\ \E core \in q.core : Respond(r, core, {}, "deterministic")
       /\ Resting /\ UNCHANGED <<analyses, calls>>

\* createSnapshot: the result, and a run under the request id if jobs are
\* recommended; the whole transaction fails if the id was used before.
KeyOf(q) == <<q.input.user, q.input.id>>
NeedsRun(q) == q.analysis.response.recommendations # <<>>
Snapshot(q) ==
    /\ analyses' = Append(analyses, q.analysis)
    /\ runs' = IF NeedsRun(q) THEN runs \cup {KeyOf(q)} ELSE runs
    /\ UNCHANGED <<state, genAi, calls>>

Persist(r) ==
    LET q == request[r]
    IN /\ q.at = "persist"
       /\ IF NeedsRun(q) /\ KeyOf(q) \in runs
          THEN Fail(r, "P2002", "duplicate") /\ UNCHANGED <<state, analyses, runs, genAi, calls>>
          ELSE Answer(r, 200, "stored", {}) /\ Snapshot(q)
       /\ UNCHANGED faults

\* The commit is done, its answer is lost.
PersistAnswerLost(r) ==
    LET q == request[r]
    IN /\ q.at = "persist" /\ faults < MaxFaults
       /\ ~(NeedsRun(q) /\ KeyOf(q) \in runs)
       /\ Fail(r, "database", "database") /\ Snapshot(q)
       /\ faults' = faults + 1

(***************************************************************************)
(* Reading stored analyses.                                                *)
(***************************************************************************)
\* createAnalysisResultWhere; without a file the query is for all of them.
AnalysesWhere(user, files) ==
    {i \in DOMAIN analyses : analyses[i].user = user /\ analyses[i].file \in files}

\* By the time the Model API gave, newest first (the default), ties by the id;
\* ids are random.
Listed(found) ==
    {s \in SetToSeqs(found) : \A i, j \in DOMAIN s :
         i < j => analyses[s[i]].response.at >= analyses[s[j]].response.at}

\* mapSafeCvFile: a file that expired or was deleted is not named.
SafeCvFile(file) == {file} \ {f \in Files : state[f] # "live"}

MapCvAnalysisResultSummary(i) ==
    LET response == analyses[i].response
    IN [id |-> i, fit |-> response.fit, ats |-> response.ats,
        copy |-> ToSet(response.impression) \cup ToSet(Take(response.actions, 3)),
        file |-> SafeCvFile(analyses[i].file)]

MapCvAnalysisResultDetail(i) ==
    LET response == analyses[i].response
    IN [id |-> i, fit |-> response.fit, ats |-> response.ats, copy |-> CopyOf(response),
        file |-> SafeCvFile(analyses[i].file)]

\* getLatestAnalysisResult, getAnalysisResultDetail: one statement.
ReadAnalysis(r, input) ==
    LET found == IF input.what = "latest" THEN LatestOf(input.user)
                 ELSE {input.id} \cap AnalysesWhere(input.user, Files)
    IN /\ input.kind = "read" /\ input.what # "list"
       /\ Starts(r, "read")
       /\ \/ found = {} /\ Reply(r, input, StatusOf.NotFound, "analysis", {})
          \/ \E i \in found :
                Reply(r, input, 200, "read", {MapCvAnalysisResultDetail(i)})
       /\ Resting /\ UNCHANGED analyses

\* listAnalysisResults: the page is read first and counted against later.
ListAnalyses(r, input) ==
    /\ input.kind = "read" /\ input.what = "list"
    /\ Starts(r, "read")
    /\ \E order \in Listed(AnalysesWhere(input.user, input.files)) :
          LET page == Take(SubSeq(order, input.skip + 1, Len(order)), input.limit)
          IN Goto(r, [at |-> "total", input |-> input,
                      items |-> {MapCvAnalysisResultSummary(i) : i \in ToSet(page)}])
    /\ Resting /\ UNCHANGED analyses

CountAnalyses(r) ==
    LET q == request[r]
        total == Cardinality(AnalysesWhere(q.input.user, q.input.files))
    IN /\ q.at = "total"
       /\ Answer(r, 200, IF q.input.skip + q.input.limit < total THEN "more" ELSE "read", q.items)
       /\ Resting /\ UNCHANGED <<analyses, calls>>

-----------------------------------------------------------------------------
StatementFails(r) ==
    /\ request[r].at \in {"candidates", "latest", "persist", "total"} /\ faults < MaxFaults
    /\ Fail(r, "database", "database")
    /\ faults' = faults + 1
    /\ UNCHANGED <<state, analyses, runs, genAi, calls>>

-----------------------------------------------------------------------------
(* The retention job of CvFiles: a file expires, is unlinked and marked.    *)
Erase(file) ==
    /\ \/ state[file] = "live" /\ state' = [state EXCEPT ![file] = "expired"]
       \/ state[file] = "expired" /\ state' = [state EXCEPT ![file] = "unlinked"]
       \/ state[file] = "unlinked" /\ state' = [state EXCEPT ![file] = "deleted"]
    /\ UNCHANGED <<analyses, runs, genAi, request, calls, faults>>

Init ==
    /\ state = [f \in Files |-> "live"]
    /\ analyses = Earlier /\ runs = EarlierRuns
    /\ genAi \in BOOLEAN
    /\ request = [r \in Requests |-> Idle]
    /\ calls = [kind \in Kinds |-> 0] /\ faults = 0

Generation(r) == ResolveLatestAnalysis(r) \/ ProviderEnds(r) \/ Retry(r)

Analysis(r) ==
    \/ ReadCandidates(r) \/ ModelAnalyses(r) \/ WrapperWrites(r) \/ WrapperFails(r)
    \/ Persist(r) \/ PersistAnswerLost(r)

Next ==
    \/ \E r \in Requests, input \in Inputs :
          Receive(r, input) \/ ReadAnalysis(r, input) \/ ListAnalyses(r, input)
    \/ \E r \in Requests :
          ReadBytes(r) \/ Generation(r) \/ Analysis(r) \/ CountAnalyses(r) \/ StatementFails(r)
    \/ \E file \in Expiring : Erase(file)

Spec == Init /\ [][Next]_vars

-----------------------------------------------------------------------------
(* Files stay in their order of erasure, runs belong to stored analyses, no *)
(* call of the provider is repeated beyond its retries, and an analysis is  *)
(* read by its user alone.                                                  *)
TypeOK ==
    /\ state \in [Files -> {"live", "expired", "unlinked", "deleted"}]
    /\ \A i \in DOMAIN analyses : analyses[i].file \in Files
    /\ runs \subseteq {<<input.user, input.id>> : input \in {i \in Inputs : i.kind = "analyze"}}
    /\ \A r \in Requests : request[r].at \in {"provider", "wrapper"} =>
           request[r].attempt \in 1..(MaxRetries + 1)
    /\ \A q \in {request[r] : r \in Requests} :
           q.at = "answered" /\ q.input.kind = "read" =>
               \A item \in q.result : analyses[item.id].user = q.input.user

\* What a generated CV may be made of: the file, the request, and analyses
\* of the same file.
OwnWords(input) ==
    LET file == FileWords(input.file)
    IN file \cup (UNION {ToSet(About[w].skills) \cup ToSet(About[w].sharedSkills) : w \in file})
            \cup {About[w].email : w \in file} \cup {About[w].phone : w \in file}
            \cup {About[w].link : w \in file} \cup ToSet(Inferred)
            \cup ToSet(input.summary) \cup Words(NormalizeHtmlTemplate(input.template))
            \cup UNION {CopyOf(analyses[i].response) :
                  i \in {k \in DOMAIN analyses : /\ analyses[k].file = input.file
                                               /\ analyses[k].user = input.user}}

Generated(status) ==
    {q \in {request[r] : r \in Requests} :
        q.at = "answered" /\ q.input.kind = "generate" /\ q.status = status}

(* A generated CV says nothing that comes from another file of the user or  *)
(* from an analysis of one, whatever is stored between the reads.           *)
OnlyThisCv ==
    \A q \in Generated(201) : \A doc \in q.result : Words(doc) \subseteq OwnWords(q.input)

\* Templates the renderer cannot keep: nothing left, a code fence, an active
\* element that is never closed, a placeholder named as what every object has,
\* an attribute with a placeholder or with what no answer may contain, a list
\* item with inner tags, a label inside an identity element or beside a placeholder.
TemplateResists(template) ==
    \/ template.nodes = <<>> \/ template.fence # "none"
    \/ \E w \in Words(template) \cup Attributes(template) : About[w].slot \in Inherited
    \/ \E w \in Attributes(template) : About[w].slot # "" \/ About[w].forbidden
    \/ \E i \in DOMAIN template.nodes : LET n == template.nodes[i] IN
          \/ n.tag \in ActiveTags
          \/ n.tag = "li" /\ n.inner > 0
          \/ n.cls # {} /\ ToSet(TextOf(n)) \cap Labels # {}
          \/ \E k \in DOMAIN n.slots : /\ Len(n.slots[k]) > 1
                                       /\ IsStatic(Keep(n.slots[k], NoSlot))

(* An answer of the provider that fails, breaks the template or says        *)
(* nothing of the CV is replaced by the fallback, and the fallback is       *)
(* accepted, unless the template resists it, a word of the CV holds "$1" or *)
(* is one no answer may contain, or is a secret in the template as well.    *)
FallbackAnswers ==
    \A q \in Generated(StatusOf.Downstream) \cup Generated(500) :
        q.cause \in {"failed", "structure", "ungrounded"} =>
           \/ TemplateResists(NormalizeHtmlTemplate(q.input.template))
           \/ \E w \in OwnWords(q.input) \cap DOMAIN About :
                 \/ About[w].dollar \/ About[w].forbidden
                 \/ w \in SecretsIn(q.input.template)

Published ==
    {analyses[i] : i \in DOMAIN analyses}
        \cup UNION {q.result : q \in {request[r] : r \in {s \in Requests :
                 /\ request[s].at = "answered" /\ request[s].status = 200
                 /\ request[s].input.kind = "analyze"}}}

(* Whatever the wrapper wrote, a stored or answered analysis has the scores *)
(* and the ranking of the Model API and repeats no private word.            *)
PublishedAsScored ==
    \A a \in Published :
        /\ a.response.fit = a.core.fit.score /\ a.response.ats = a.core.ats.score
        /\ RankingOf(a.response.recommendations) = RankingOf(a.core.recommendations)
        /\ CopyOf(a.response) \cap {w \in DOMAIN About : About[w].private} = {}

(* No answer of the wrapper, and no failure of it, makes an analysis fail   *)
(* that the Model API made for the candidates it was given, except where    *)
(* the summary of six long skills is over the limit of the schema, where    *)
(* blanks stand around the name or version of the model, or where a skill   *)
(* or an issue reads as an address once a full stop follows it.             *)
WrapperIsOptional ==
    \A r \in Requests :
        /\ request[r].at = "answered"
        /\ request[r].cause \in {"deterministic", "wrapper"}
        /\ request[r].status # 200
        => \A core \in request[r].result :
              \/ \E i \in DOMAIN core.recommendations :
                    \/ core.recommendations[i].job \notin FindCandidateJobs(request[r].input)
                    \/ \E j \in DOMAIN core.recommendations \ {i} :
                          core.recommendations[j].job = core.recommendations[i].job
              \/ Len(core.fit.matched) >= 3 /\ Len(core.fit.missing) >= 3
              \/ core.model # Trimmed(core.model)
              \/ \E w \in SentenceEnds(core) : About[w].abbreviated

(* ai-cv-analyzer.md: generated copy is replaced "without failing           *)
(* successful model-core inference". The fallback copy itself can fail: see *)
(* the exceptions of WrapperIsOptional.                                     *)
ScoredIsAnswered ==
    \A q \in {request[r] : r \in Requests} :
        q.at = "answered" /\ q.cause \in {"deterministic", "wrapper"} /\ q.status # 200 =>
            \A core \in q.result : ~RankingIsValid(core, FindCandidateJobs(q.input))

(* ai-cv-generate.md documents no other failure of an output than 502: "the *)
(* fallback cannot preserve the template". A placeholder with the name of   *)
(* what every object has ends in 500.                                       *)
FallbackFailsAs502 ==
    \A q \in {request[r] : r \in Requests} :
        q.at = "answered" /\ q.cause \in {"failed", "structure", "ungrounded"} =>
            q.status \in {201, StatusOf.Downstream}
=============================================================================
