----------------------------- MODULE CvEvidence -----------------------------
(***************************************************************************)
(* What the backend reads out of the bytes of a CV by itself: the private  *)
(* data that fills a generated CV (ai-cv-generate.service) and the shared  *)
(* evidence that grounds it (shared/cv-evidence).                          *)
(*                                                                         *)
(* A text is a sequence of words. A word stands for a line, or for a part  *)
(* of one that a list keeps as an item of its own; what the regular        *)
(* expressions find in it is its record in About:                          *)
(*   mvp, shared         the section it is a heading of, for each splitter *)
(*   tokens              its words of four letters that are no stop words  *)
(*   email, phone, link  the contact data in it ("" without)               *)
(*   name, role, place   it reads like a name, a job title, a place        *)
(*   infers              the rank of the headline it suggests (5: none)    *)
(*   skills              what splitting it at commas yields                *)
(*   sharedSkills        in lower case, split at dashes too, 2 to 60 long  *)
(*   garbage, demo       PDF syntax; the demonstration copy of a template  *)
(*   dollar, forbidden   it holds "$1"; no answer may contain it           *)
(*   private, size       no analysis may repeat it; its characters         *)
(*   abbreviated         none may end a sentence with it ("jl" and ".")    *)
(*   slot                the value a {{placeholder}} names ("" without)    *)
(* Cutting a text after so many characters is not modelled.                *)
(***************************************************************************)
EXTENDS Naturals, SequencesExt

CONSTANTS About, Inferred   \* Inferred[k]: the headline of rank k

Sections == {"identity", "summary", "experience", "projects", "skills", "education",
             "certifications", "languages"}
Texts == Seq(DOMAIN About)

(* What is uploaded, asked and answered is bounded: there are finitely many *)
(* words, and what a regular expression finds in one is a word.             *)
ASSUME AboutAssumption ==
    /\ IsFiniteSet(DOMAIN About)
    /\ \A w \in DOMAIN About :
           /\ {About[w].mvp, About[w].shared} \subseteq Sections \cup {"none"}
           /\ About[w].infers \in 1..5 /\ About[w].size \in Nat
           /\ {About[w].skills, About[w].sharedSkills} \subseteq Texts
           /\ {About[w].email, About[w].phone, About[w].link} \subseteq DOMAIN About \cup {""}
    /\ Inferred \in [1..4 -> DOMAIN About]

Take(text, n) == SubSeq(text, 1, IF Len(text) < n THEN Len(text) ELSE n)

\* The items of a list that are in S, in their order.
Keep(list, S) ==
    LET kept[i \in 0..Len(list)] ==
            IF i = 0 THEN <<>>
            ELSE IF list[i] \in S THEN Append(kept[i - 1], list[i]) ELSE kept[i - 1]
    IN kept[Len(list)]

\* Lines that are no PDF syntax, lines without contact data.
Clean == {w \in DOMAIN About : ~About[w].garbage}
NoContact == {w \in DOMAIN About : About[w].email = "" /\ About[w].phone = ""}

\* uniqueList: every item where it first occurs.
UniqueList(text) ==
    LET AddNew(list, word) == IF Contains(list, word) THEN list ELSE Append(list, word)
    IN FoldLeft(AddNew, <<>>, text)

\* firstNonEmpty: the first of two texts that is not empty.
FirstNonEmpty(text, other) == IF text # <<>> THEN text ELSE other

\* firstUsableCvCopy: garbage counts as empty.
FirstUsable(text, other) ==
    FirstNonEmpty(IF \E i \in DOMAIN text : About[text[i]].garbage THEN <<>> ELSE text, other)

\* evidenceTokens.
Tokens(text) == Take(FlattenSeq([i \in DOMAIN text |-> About[text[i]].tokens]), 8)
TokenSet(text) == ToSet(Tokens(text))

\* splitMvpCvSections and splitCvSections: what follows a heading belongs to it.
SplitSections(lines, kind, start) ==
    LET Place(split, line) ==
            IF About[line][kind] # "none" THEN [split EXCEPT !.current = About[line][kind]]
            ELSE [split EXCEPT !.found[split.current] = Append(@, line)]
    IN FoldLeft(Place, [current |-> start, found |-> [s \in Sections |-> <<>>]], lines).found

\* The order of a Map's keys: a section is there from its first heading or line.
SectionOrder(lines, kind, start) ==
    LET Step(split, line) ==
            LET current == IF About[line][kind] # "none" THEN About[line][kind] ELSE split.current
            IN [current |-> current, order |-> Append(split.order, current)]
    IN UniqueList(FoldLeft(Step, [current |-> start, order |-> <<>>], lines).order)

-----------------------------------------------------------------------------
(* Private CV data. A file is [pdf, shown, literals, raw, printable]: the   *)
(* string literals a PDF shows with Tj, all its literals, its bytes as      *)
(* UTF-8, and whether most of those are printable.                          *)

\* extractReadablePdfText: a literal shown with Tj matches both patterns.
ExtractReadablePdfText(file) ==
    IF file.literals # <<>> THEN file.shown \o file.literals ELSE file.raw

ExtractMvpCvText(file) ==
    Keep(IF file.pdf THEN ExtractReadablePdfText(file) ELSE file.raw, Clean)

\* firstRegex: the first match in the text.
FirstMatch(text, kind) ==
    LET found == Keep(text, {w \in ToSet(text) : About[w][kind] # ""})
    IN IF found = <<>> THEN "" ELSE About[found[1]][kind]

\* line.includes(found): every line includes "".
Includes(word, found, kind) == found = "" \/ About[word][kind] = found

InferHeadline(text) ==
    LET ranks == {About[text[i]].infers : i \in DOMAIN text} \cup {5}
    IN IF Min(ranks) = 5 THEN <<>> ELSE <<Inferred[Min(ranks)]>>

\* parseMvpSkills and parseSkillList: each splits lines in its way.
ParseSkills(lines, kind) == UniqueList(FlattenSeq([i \in DOMAIN lines |-> About[lines[i]][kind]]))

\* The lines before the first heading, or the first six.
IdentityLines(lines) ==
    LET first == SelectInSeq(lines, LAMBDA w : About[w].mvp # "none")
    IN Take(lines, IF first > 0 THEN first - 1 ELSE 6)

AsText(found) == IF found = "" THEN <<>> ELSE <<found>>

BuildPrivateCvData(file, impression) ==
    LET lines == ExtractMvpCvText(file)
        email == FirstMatch(lines, "email")
        phone == FirstMatch(lines, "phone")
        plain == {w \in ToSet(lines) : /\ ~Includes(w, email, "email")
                                       /\ ~Includes(w, phone, "phone")}
        First(S) == Take(Keep(IdentityLines(lines), S), 1)
        fullName == First({w \in plain : About[w].name})
        headline == FirstNonEmpty(First({w \in plain \ ToSet(fullName) : About[w].role}),
                                  InferHeadline(lines))
        section == SplitSections(lines, "mvp", "identity")
        List(name, n) == Take(UniqueList(section[name]), n)
        links == [i \in DOMAIN lines |-> About[lines[i]].link]
    IN [rawText |-> lines, fullName |-> fullName, headline |-> headline,
        email |-> AsText(email), phone |-> AsText(phone),
        location |-> First({w \in plain \ ToSet(fullName \o headline) : About[w].place}),
        links |-> Take(UniqueList(Keep(links, ToSet(links) \ {""})), 4),
        summary |-> FirstUsable(section["summary"], FirstUsable(impression, <<>>)),
        experience |-> List("experience", 12), projects |-> List("projects", 10),
        skills |-> Take(ParseSkills(section["skills"], "skills"), 60),
        education |-> List("education", 8),
        certifications |-> List("certifications", 8),
        languages |-> List("languages", 8)]

-----------------------------------------------------------------------------
(* Shared evidence, from the bytes and the latest analysis of the same file *)
(* (latest.known FALSE without one), or from an answer of the Model API.    *)

\* extractUsableCvText: mostly printable bytes in two lines or more.
ExtractUsableCvText(file) ==
    IF file.printable /\ Len(file.raw) >= 2 THEN file.raw ELSE <<>>

\* A line with contact data is dropped.
SharedLines(file) ==
    Keep(ExtractUsableCvText(file), NoContact)

\* 16 lines of a section are kept.
SharedSections(file) ==
    LET found == SplitSections(SharedLines(file), "shared", "summary")
    IN [name \in Sections |-> Take(found[name], 16)]

\* Two reviews of one name: the first counts.
DedupeSectionEvidence(reviews) ==
    LET AddNew(list, review) ==
            IF \E i \in DOMAIN list : list[i].section = review.section THEN list
            ELSE Append(list, review)
    IN FoldLeft(AddNew, <<>>, reviews)

LatestSectionReviews(latest) ==
    LET kept == Take(latest.reviews, 6)
    IN [i \in DOMAIN kept |-> [kept[i] EXCEPT !.points = Take(@, 4)]]

\* buildSectionEvidence: what the file says of a section, the sections in
\* their order, comes before a review of the same name.
FromParsed(section, order) ==
    [i \in DOMAIN order |->
        [section |-> order[i], analysis |-> Take(section[order[i]], 3),
         points |-> Take(UniqueList(section[order[i]]), 6)]]

BuildSectionEvidence(section, order, latest) ==
    LET parsed == FromParsed(section, Keep(order, {name \in Sections : section[name] # <<>>}))
    IN Take(DedupeSectionEvidence(Take(parsed, 8) \o LatestSectionReviews(latest)), 10)

BuildAtsAndActionables(latest) == Take(UniqueList(latest.actions \o latest.ats), 8)

ParsedEvidence(section) ==
    LET List(name, n) == Take(UniqueList(section[name]), n)
    IN [candidateSummary |-> Take(section["summary"], 3),
        experience |-> List("experience", 8), projects |-> List("projects", 6),
        skills |-> Take(ParseSkills(section["skills"], "sharedSkills"), 30),
        education |-> List("education", 5), certifications |-> List("certifications", 5),
        languages |-> List("languages", 5)]

EvidenceSource(parsed, latest) ==
    CASE \E field \in DOMAIN parsed : parsed[field] # <<>> -> "backend_parser"
      [] latest.known /\ \A field \in DOMAIN parsed : parsed[field] = <<>> -> "latest_analysis_cache"
      [] OTHER -> "metadata_only"

\* Nothing reads the cache key and the policies the record also holds.
BuildSharedCvEvidence(parsed, sections, latest) ==
    [candidateSummary |-> FirstNonEmpty(parsed.candidateSummary, latest.impression),
     experience |-> parsed.experience, projects |-> parsed.projects,
     skills |-> parsed.skills, education |-> parsed.education,
     certifications |-> parsed.certifications, languages |-> parsed.languages,
     gaps |-> BuildAtsAndActionables(latest), sections |-> sections,
     source |-> EvidenceSource(parsed, latest)]

BuildBackendParsedSharedCvEvidence(file, latest) ==
    LET Build(section, order) ==
            BuildSharedCvEvidence(ParsedEvidence(section),
                                  BuildSectionEvidence(section, order, latest), latest)
    IN Build(SharedSections(file), SectionOrder(SharedLines(file), "shared", "summary"))

\* The words of sections and of reviews, and of all shared evidence.
ReviewWords(reviews) ==
    UNION {ToSet(reviews[i].analysis) \cup ToSet(reviews[i].points) : i \in DOMAIN reviews}
SharedWords(shared) ==
    ReviewWords(shared.sections)
        \cup UNION {ToSet(shared[f]) : f \in DOMAIN shared \ {"sections", "source"}}

\* readStringList, readOptionalString: nothing where the key is missing.
ReadKey(object, key) == IF key \in DOMAIN object THEN object[key] ELSE <<>>

\* buildModelApiSharedCvEvidence: its words. The response schema has none of
\* the keys it reads for the ATS part and for the summary.
ModelApiEvidence(core) ==
    (UNION {ToSet(ReadKey(core.fit, key)) : key \in {"matched", "missing", "summary"}})
        \cup (UNION {ToSet(ReadKey(core.ats, key)) : key \in {"improvementHints", "issues", "summary"}})
        \cup ToSet(core.evidence)
=============================================================================
