--------------------------- MODULE CvAnalysisCopy ---------------------------
(***************************************************************************)
(* The public copy of a CV analysis (ai-cv-analyzer.service): what is made *)
(* of the scores of the Model API alone, what of the GenAI wrapper's       *)
(* answer, and what no analysis may say. A text is Phrase, for the fixed   *)
(* words around them, and the words taken over from the evidence; only the *)
(* length of the longest summary matters.                                  *)
(***************************************************************************)
EXTENDS CvEvidence

CONSTANT Phrase

Public == {w \in DOMAIN About : ~About[w].private}

(* Regression: private words are not left out. *)
CutEvidenceList(words, n) == Take(words, n)
\* sanitizeEvidenceFragment, safeEvidenceList.
SafeEvidenceList(words, n) == Take(Keep(words, Public), n)

BuildJobFitSummary(core) ==
    SafeEvidenceList(core.fit.matched, 3) \o SafeEvidenceList(core.fit.missing, 3)

\* What the fragments and the commas between them add to a phrase.
JoinedSize(words) ==
    LET Cut(w) == IF About[w].size < 120 THEN About[w].size ELSE 120
    IN FoldLeft(LAMBDA n, w : n + Cut(w), 0, words)
       + (IF words = <<>> THEN 0 ELSE 2 * (Len(words) - 1))

JobFitSummarySize(matched, missing) ==
    CASE matched # <<>> /\ missing # <<>> -> 79 + JoinedSize(matched) + JoinedSize(missing)
      [] matched # <<>> /\ missing = <<>> -> 96 + JoinedSize(matched)
      [] matched = <<>> /\ missing # <<>> -> 94 + JoinedSize(missing)
      [] OTHER -> 104

\* The fixed words, and up to n of what the Model API says.
With(words, n) == <<Phrase>> \o SafeEvidenceList(words, n)

BuildAtsSummary(core) == With(core.ats.detected, 3)
BuildOverallImpression(core) == With(core.evidence, 2)

BuildTopActionables(core) ==
    Take(SafeEvidenceList(core.fit.missing, 2) \o SafeEvidenceList(core.ats.detected, 1)
             \o <<Phrase>>, 3)

\* The words of the evidence that a full stop follows: the last of a list of
\* them, the missing skills' only where no matched one comes first, and each
\* of the two missing skills and two issues that have a sentence of their own.
SentenceEnds(core) ==
    LET matchedFirst == \E i \in DOMAIN core.fit.matched : core.fit.matched[i] \in Public
        lists == {<<core.fit.matched, 3>>, <<core.ats.detected, 3>>, <<core.evidence, 2>>,
                  <<IF matchedFirst THEN <<>> ELSE core.fit.missing, 3>>}
        single == {core.fit.missing, core.ats.detected} \X {1, 2}
        recommended == UNION {{<<recommendation.matched, 3>>, <<recommendation.missing, 2>>} :
                                 recommendation \in ToSet(core.recommendations)}
        sentences == {SafeEvidenceList(list[1], list[2]) :
                         list \in lists \cup single \cup recommended}
    IN {Last(sentence) : sentence \in sentences \ {<<>>}}

\* Three sections, named in lower case as the evidence compares them.
BuildSectionReviews(core) ==
    LET Review(section, analysis, points) ==
            [section |-> section, analysis |-> analysis, points |-> points]
        issues == SafeEvidenceList(core.ats.detected, 2)
    IN << Review("skills", BuildJobFitSummary(core), Take(BuildTopActionables(core), 2)),
          Review("ats readability", BuildAtsSummary(core), FirstNonEmpty(issues, <<Phrase>>)),
          Review("role evidence", BuildOverallImpression(core), <<Phrase>>) >>

\* buildRecommendationReason, buildRecommendationNextStep.
BuildRecommendation(recommendation) ==
    [job |-> recommendation.job, score |-> recommendation.score,
     reason |-> With(recommendation.matched, 3),
     nextStep |-> With(recommendation.missing, 2)]

\* The jobs and the scores of a ranking: its first five.
RankingOf(recommendations) ==
    LET first == Take(recommendations, 5)
    IN [i \in DOMAIN first |-> <<first[i].job, first[i].score>>]

\* A recommendation outside the candidates, or twice, is thrown out.
RankingIsValid(core, candidates) ==
    /\ \A i \in DOMAIN core.recommendations : core.recommendations[i].job \in candidates
    /\ \A i, j \in DOMAIN core.recommendations :
          i # j => core.recommendations[i].job # core.recommendations[j].job

BuildDeterministicResponse(core) ==
    LET first == Take(core.recommendations, 5)
        matched == SafeEvidenceList(core.fit.matched, 3)
        missing == SafeEvidenceList(core.fit.missing, 3)
    IN [wellFormed |-> TRUE, fit |-> core.fit.score, ats |-> core.ats.score,
        model |-> core.model, at |-> core.at, ends |-> SentenceEnds(core),
        recommendations |-> [i \in DOMAIN first |-> BuildRecommendation(first[i])],
        summary |-> BuildJobFitSummary(core), size |-> JobFitSummarySize(matched, missing),
        atsSummary |-> BuildAtsSummary(core), impression |-> BuildOverallImpression(core),
        actions |-> BuildTopActionables(core), reviews |-> BuildSectionReviews(core)]

CopyOf(response) ==
    ToSet(response.summary) \cup ToSet(response.atsSummary)
        \cup ToSet(response.impression) \cup ToSet(response.actions)
        \cup ReviewWords(response.reviews)
        \cup UNION {ToSet(recommendation.reason) \cup ToSet(recommendation.nextStep) :
                       recommendation \in ToSet(response.recommendations)}

\* Texts, and reviews of a section.
HasTexts(response) ==
    /\ {response.summary, response.atsSummary, response.impression, response.actions}
           \subseteq Texts
    /\ response.reviews \in Seq(ToSet(response.reviews))
    /\ \A review \in ToSet(response.reviews) :
           /\ DOMAIN review = {"section", "analysis", "points"}
           /\ {review.analysis, review.points} \subseteq Texts

ResponseSchema(response) ==
    response.wellFormed /\ response.size <= 800 /\ HasTexts(response)

AssertPublicCvAnalysisSafety(response) ==
    /\ \A w \in CopyOf(response) : ~About[w].private
    /\ \A w \in response.ends : ~About[w].abbreviated

(* Regression: the scores are not compared. *)
SchemaAndSafetyOnly(response, core) ==
    ResponseSchema(response) /\ AssertPublicCvAnalysisSafety(response)

\* A model is its name and version, and if blanks stand around either: the
\* schema of the response drops them, the one of the Model API does not.
Trimmed(model) == <<model[1], FALSE>>

\* validatePublicCvAnalysisResponse: the numbers are the Model API's.
ValidatePublicResponse(response, core) ==
    /\ ResponseSchema(response)
    /\ response.fit = core.fit.score /\ response.ats = core.ats.score
    /\ Trimmed(response.model) = core.model /\ response.at = core.at
    /\ RankingOf(response.recommendations) = RankingOf(core.recommendations)
    /\ AssertPublicCvAnalysisSafety(response)

\* normalizeCvAnalyzerWrapperResponse: where the object may be wrapped.
WrapperPaths == {"top", "analysisResult", "data", "data.analysisResult"}
NormalizeWrapperResponse(answer) ==
    IF answer.path \in WrapperPaths THEN answer.body
    ELSE [answer.body EXCEPT !.wellFormed = FALSE]

\* buildPublicCvAnalysisResponse: the answers it may end in, none if it throws.
\* wrapped holds the wrapper's answer, or nothing.
BuildPublicResponse(core, candidates, wrapped) ==
    LET fallback == BuildDeterministicResponse(core)
        good == {w \in wrapped : ValidatePublicResponse(w, core)}
    IN IF ~RankingIsValid(core, candidates) THEN {}
       ELSE IF good # {} THEN good
       ELSE {f \in {fallback} : ValidatePublicResponse(f, core)}
=============================================================================
