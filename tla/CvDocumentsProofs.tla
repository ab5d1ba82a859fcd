-------------------------- MODULE CvDocumentsProofs --------------------------
(***************************************************************************)
(* What every analysis that is stored or answered says, that no answer of  *)
(* the wrapper makes one fail, and what a generated CV is made of: the     *)
(* inductive invariant of CvDocuments. A response reaches a request only   *)
(* through validatePublicCvAnalysisResponse; that the response made of the *)
(* scores alone passes it, and which words a CV is rendered from, is       *)
(* followed through the operators of CvEvidence, CvAnalysisCopy and        *)
(* CvRender, for every text.                                               *)
(***************************************************************************)
EXTENDS CvDocuments, FiniteSetTheorems, SequenceTheorems, TLAPS

-----------------------------------------------------------------------------
(* The invariant.                                                          *)

Keys == {<<input.user, input.id>> : input \in {i \in Inputs : i.kind = "analyze"}}

\* What PublishedAsScored says of one analysis, whose texts are texts.
AsScored(a) ==
    /\ HasTexts(a.response)
    /\ a.response.fit = a.core.fit.score /\ a.response.ats = a.core.ats.score
    /\ RankingOf(a.response.recommendations) = RankingOf(a.core.recommendations)
    /\ CopyOf(a.response) \cap {w \in DOMAIN About : About[w].private} = {}

StoredOK(stored) ==
    /\ stored \in Seq(ToSet(stored))
    /\ \A i \in DOMAIN stored : stored[i].file \in Files /\ AsScored(stored[i])

\* Analyses are added, never changed.
Extends(more, stored) ==
    \A i \in DOMAIN stored : i \in DOMAIN more /\ more[i] = stored[i]

\* What a reader got is of its user, also after more was stored.
ItemsOf(items, user, stored) ==
    \A item \in items : item.id \in DOMAIN stored /\ stored[item.id].user = user

\* A core answer as the Model API's schema lets it through.
CoreOK(core) ==
    /\ {core.fit.matched, core.fit.missing, core.ats.detected, core.evidence} \subseteq Texts
    /\ core.recommendations \in Seq(ToSet(core.recommendations))
    /\ \A i \in DOMAIN core.recommendations :
           {core.recommendations[i].matched, core.recommendations[i].missing} \subseteq Texts

\* What WrapperIsOptional excepts.
Excused(core, input) ==
    \/ \E i \in DOMAIN core.recommendations :
          \/ core.recommendations[i].job \notin FindCandidateJobs(input)
          \/ \E j \in DOMAIN core.recommendations \ {i} :
                core.recommendations[j].job = core.recommendations[i].job
    \/ Len(core.fit.matched) >= 3 /\ Len(core.fit.missing) >= 3
    \/ core.model # Trimmed(core.model)
    \/ \E w \in SentenceEnds(core) : About[w].abbreviated

\* The words of texts F, the skills found in them, and the contact data.
Skilled(F) == F \cup UNION {ToSet(About[w].skills) \cup ToSet(About[w].sharedSkills) : w \in F}
Contacts(F) ==
    {About[w].email : w \in F} \cup {About[w].phone : w \in F} \cup {About[w].link : w \in F}
Spread(F) == Skilled(F) \cup Contacts(F) \cup ToSet(Inferred)

\* OwnWords, once the given analyses are stored.
Own(input, stored) ==
    Spread(FileWords(input.file)) \cup ToSet(input.summary)
        \cup Words(NormalizeHtmlTemplate(input.template))
        \cup UNION {CopyOf(stored[i].response) :
              i \in {k \in DOMAIN stored : /\ stored[k].file = input.file
                                           /\ stored[k].user = input.user}}

\* What FallbackAnswers excepts, once the given analyses are stored.
Resisted(input, stored) ==
    \/ TemplateResists(NormalizeHtmlTemplate(input.template))
    \/ \E w \in Own(input, stored) \cap DOMAIN About :
          \/ About[w].dollar \/ About[w].forbidden
          \/ w \in SecretsIn(input.template)

\* Between its first and its last call a handler keeps one record. The
\* candidates and the answer of the Model API stay as they were read.
Running(q) ==
    /\ q.at \in {"bytes", "latest", "provider", "candidates", "core", "wrapper"}
    /\ q = [at |-> q.at, input |-> q.input, latest |-> q.latest,
            candidates |-> q.candidates, core |-> q.core, attempt |-> q.attempt]
    /\ q.input \in Inputs /\ q.input.kind \in {"generate", "analyze"}
    /\ q.at \in {"latest", "provider"} => q.input.kind = "generate"
    /\ q.at \in {"candidates", "core", "wrapper"} => q.input.kind = "analyze"
    /\ q.attempt \in 1..(MaxRetries + 1)
    /\ q.input.kind = "analyze" /\ q.at # "candidates" =>
           q.candidates = FindCandidateJobs(q.input)
    /\ q.at = "wrapper" => \A core \in q.core : CoreOK(core)

\* What a generation takes from analyses is of the user and the file it is for.
Evidence(latest, input, stored) ==
    \/ latest = NoAnalysis
    \/ \E i \in DOMAIN stored :
          /\ stored[i].user = input.user /\ stored[i].file = input.file
          /\ latest = MapLatestAnalysis(stored[i])

Grounded(q, stored) == q.at = "provider" => Evidence(q.latest, q.input, stored)

Persisting(q) ==
    /\ q.at = "persist" /\ q.input \in Inputs /\ q.input.kind = "analyze"
    /\ q.analysis.file \in Files /\ AsScored(q.analysis)

Counting(q, stored) ==
    /\ q.at = "total" /\ q.input \in Inputs /\ q.input.kind = "read"
    /\ ItemsOf(q.items, q.input.user, stored)

\* What an answer may be, once the given analyses are stored.
Allowed(input, status, cause, result, stored) ==
    /\ input.kind = "analyze" /\ status = 200 => \A a \in result : AsScored(a)
    /\ cause \in {"deterministic", "wrapper"} /\ status # 200 =>
           \A core \in result : Excused(core, input)
    /\ input.kind = "generate" /\ status = 201 =>
           \A doc \in result : Words(doc) \subseteq Own(input, stored)
    /\ /\ input.kind = "generate" /\ status \in {StatusOf.Downstream, 500}
       /\ cause \in {"failed", "structure", "ungrounded"}
       => Resisted(input, stored)
    /\ input.kind = "read" => ItemsOf(result, input.user, stored)

Answered(q, stored) ==
    /\ q.at = "answered" /\ q.input \in Inputs
    /\ Allowed(q.input, q.status, q.cause, q.result, stored)

RequestOK(q, stored) ==
    \/ q.at = "idle"
    \/ Running(q) /\ Grounded(q, stored)
    \/ Persisting(q) \/ Counting(q, stored) \/ Answered(q, stored)

RequestsOK(requests, stored) ==
    /\ requests = [r \in Requests |-> requests[r]]
    /\ \A r \in Requests : RequestOK(requests[r], stored)

\* Inductive: a response passes the validation before its request is
\* answered or stored, what is stored is not touched again, and what a
\* request has read stays true of what is stored.
DocumentsInv ==
    /\ state \in [Files -> {"live", "expired", "unlinked", "deleted"}]
    /\ StoredOK(analyses) /\ runs \subseteq Keys
    /\ RequestsOK(request, analyses)

-----------------------------------------------------------------------------
(* Numbers and folds.                                                      *)

\* Every nonempty set of naturals has a least element.
LEMMA LeastOfNat == ASSUME NEW S, S \subseteq Nat, S # {} PROVE \E m \in S : \A k \in S : m <= k
<1>1. PICK n \in S : TRUE OBVIOUS
<1>2. n \in Nat OBVIOUS
<1> DEFINE B == {m \in 0..n : \A k \in S : m <= k}
<1>3. IsFiniteSet(B)
  <2>1. IsFiniteSet(0..n) BY <1>2, FS_Interval
  <2>2. B \subseteq 0..n OBVIOUS
  <2> HIDE DEF B
  <2> QED BY <2>1, <2>2, FS_Subset
<1> SUFFICES ASSUME \A m \in S : \E k \in S : k < m PROVE FALSE OBVIOUS
<1> DEFINE f == [m \in B |-> m + 1]
<1>4. \A m \in B : m + 1 \in B OBVIOUS
<1>5. f \in [B -> B] BY <1>4
<1>6. f \in Injection(B, B) BY <1>5 DEF Injection, IsInjective
<1>7. f \in Surjection(B, B) BY <1>3, <1>6, FS_Injection
<1>8. 0 \in B BY <1>2
<1>9. PICK m \in B : f[m] = 0 BY <1>7, <1>8 DEF Surjection
<1> QED BY <1>9

\* Induction, with the property as the set of the numbers that have it.
LEMMA NatSteps ==
    ASSUME NEW N, 0 \in N, \A k \in Nat : k \in N => k + 1 \in N PROVE Nat \subseteq N
<1> SUFFICES ASSUME NEW x \in Nat, x \notin N PROVE FALSE OBVIOUS
<1> DEFINE S == {k \in Nat : k \notin N}
<1>1. PICK m \in S : \A k \in S : m <= k
  <2>1. S \subseteq Nat /\ S # {} OBVIOUS
  <2> HIDE DEF S
  <2> QED BY <2>1, LeastOfNat
<1>2. m \in Nat /\ m # 0 OBVIOUS
<1>3. m - 1 \in Nat /\ m - 1 \notin S BY <1>1, <1>2
<1>4. (m - 1) + 1 \in N BY <1>3
<1> QED BY <1>1, <1>2, <1>4

\* Induction up to a bound.
LEMMA UpTo ==
    ASSUME NEW n \in Nat, NEW N, 0 \in N, \A k \in 1..n : k - 1 \in N => k \in N
    PROVE  0..n \subseteq N
<1> DEFINE M == {k \in Nat : k <= n => k \in N}
<1>1. 0 \in M OBVIOUS
<1>2. \A k \in Nat : k \in M => k + 1 \in M OBVIOUS
<1> HIDE DEF M
<1>3. Nat \subseteq M BY <1>1, <1>2, NatSteps
<1> QED BY <1>3 DEF M

\* Max of numbers up to n, and of all of them.
LEMMA MaxIs ==
    ASSUME NEW n \in Nat, NEW s \in SUBSET (1..n), s # {}
    PROVE  Max(s) \in s /\ \A y \in s : Max(s) >= y
<1> DEFINE D == {n - x : x \in s}
<1>1. \A x \in s : x \in Nat /\ n - x \in Nat OBVIOUS
<1>2. D \subseteq Nat /\ D # {} BY <1>1
<1>3. PICK d \in D : \A k \in D : d <= k
  <2> HIDE DEF D
  <2> QED BY <1>2, LeastOfNat
<1>4. PICK x \in s : d = n - x OBVIOUS
<1>5. ASSUME NEW y \in s PROVE x >= y
  <2>1. n - x <= n - y BY <1>3, <1>4
  <2> QED BY <1>1, <2>1
<1> QED BY <1>5 DEF Max

\* The first numbers and their last.
LEMMA MaxOfPrefix ==
    ASSUME NEW n \in Nat, NEW k \in 1..n
    PROVE  Max(1..k) = k /\ (1..k) \ {k} = 1..(k - 1) /\ 1..k # {} /\ 1..k \in SUBSET (1..n)
<1>1. 1..k \in SUBSET (1..n) /\ 1..k # {} OBVIOUS
<1>2. Max(1..k) \in 1..k /\ \A y \in 1..k : Max(1..k) >= y BY <1>1, MaxIs
<1> QED BY <1>1, <1>2

FoldOf(h, n, base, g) ==
    \A s \in SUBSET (1..n) : h[s] = IF s = {} THEN base ELSE g[<<h[s \ {Max(s)}], Max(s)>>]

\* A fold over the positions of a list is defined: there is a function that
\* takes each set of positions to what the fold makes of it.
LEMMA FoldDefined ==
    ASSUME NEW n \in Nat, NEW I, NEW base \in I, NEW g \in [I \X (1..n) -> I]
    PROVE  \E h \in [SUBSET (1..n) -> I] : FoldOf(h, n, base, g)
<1> DEFINE D == SUBSET (1..n)
           Size(s) == Cardinality(s)
           Holds(h, s) == h[s] = IF s = {} THEN base ELSE g[<<h[s \ {Max(s)}], Max(s)>>]
           N == {k \in Nat : \E h \in [D -> I] : \A s \in D : Size(s) <= k => Holds(h, s)}
<1>1. \A s \in D : IsFiniteSet(s) /\ Size(s) \in Nat /\ Size(s) <= n
  <2>1. IsFiniteSet(1..n) /\ Cardinality(1..n) = n BY FS_Interval
  <2>2. ASSUME NEW s \in D PROVE IsFiniteSet(s) /\ Cardinality(s) <= Cardinality(1..n)
    BY <2>1, FS_Subset
  <2> QED BY <2>1, <2>2, FS_CardinalityType
<1>2. \A s \in D : s # {} => /\ Max(s) \in 1..n /\ Max(s) \in s /\ s \ {Max(s)} \in D
                             /\ Size(s \ {Max(s)}) = Size(s) - 1
  BY <1>1, MaxIs, FS_RemoveElement
<1>3. 0 \in N
  <2>1. \A s \in D : Size(s) <= 0 => s = {} BY <1>1, FS_EmptySet
  <2>2. [s \in D |-> base] \in [D -> I] OBVIOUS
  <2> HIDE DEF D
  <2> QED BY <2>1, <2>2
<1>4. ASSUME NEW k \in Nat, k \in N PROVE k + 1 \in N
  <2>1. PICK h \in [D -> I] : \A s \in D : Size(s) <= k => Holds(h, s) BY <1>4
  <2> DEFINE more == [s \in D |-> IF s = {} THEN base ELSE g[<<h[s \ {Max(s)}], Max(s)>>]]
  <2>2. more \in [D -> I] BY <1>2
  <2>3. \A s \in D : Size(s) <= k => more[s] = h[s] BY <2>1
  <2>4. ASSUME NEW s \in D, Size(s) <= k + 1 PROVE Holds(more, s)
    <3>1. CASE s = {} BY <3>1
    <3>2. CASE s # {}
      <4>1. s \ {Max(s)} \in D /\ Size(s \ {Max(s)}) <= k BY <1>1, <1>2, <2>4, <3>2
      <4>2. more[s \ {Max(s)}] = h[s \ {Max(s)}] BY <2>3, <4>1
      <4> HIDE DEF D
      <4> QED BY <3>2, <4>2
    <3> QED BY <3>1, <3>2
  <2> HIDE DEF more, D, Holds, Size
  <2> QED BY <2>2, <2>4
<1> HIDE DEF N
<1>5. n \in N BY <1>3, <1>4, NatSteps
<1>6. PICK h \in [D -> I] : \A s \in D : Size(s) <= n => Holds(h, s) BY <1>5 DEF N
<1>7. \A s \in D : Holds(h, s) BY <1>1, <1>6
<1> QED BY <1>6, <1>7 DEF FoldOf

-----------------------------------------------------------------------------
(* Lists and texts.                                                        *)

\* Keep: what is in S of a list, in no more places.
LEMMA KeepSteps ==
    ASSUME NEW W, NEW list \in Seq(W), NEW S
    PROVE  \E f : /\ f[0] = <<>> /\ f[Len(list)] = Keep(list, S)
                  /\ \A k \in 1..Len(list) :
                        f[k] = IF list[k] \in S THEN Append(f[k - 1], list[k]) ELSE f[k - 1]
<1> DEFINE n == Len(list)
           Step(f, k) == IF list[k] \in S THEN Append(f[k - 1], list[k]) ELSE f[k - 1]
           Is(f, m) == f = [k \in 0..m |-> IF k = 0 THEN <<>> ELSE Step(f, k)]
           N == {m \in Nat : \E f : Is(f, m)}
<1>1. n \in Nat BY LenProperties
<1>2. 0 \in N
  <2>1. PICK f : f = [k \in 0..0 |-> <<>>] OBVIOUS
  <2>2. Is(f, 0) BY <2>1
  <2> QED BY <2>2
<1>3. ASSUME NEW m \in Nat, m \in N PROVE m + 1 \in N
  <2>1. PICK f : Is(f, m) BY <1>3
  <2>2. PICK more : more = [k \in 0..(m + 1) |-> IF k <= m THEN f[k] ELSE Step(f, m + 1)] OBVIOUS
  <2>3. \A k \in 0..m : more[k] = f[k] BY <2>2
  <2>4. ASSUME NEW k \in 0..(m + 1) PROVE more[k] = IF k = 0 THEN <<>> ELSE Step(more, k)
    <3>1. CASE k = 0 BY <2>1, <2>2, <3>1
    <3>2. CASE k \in 1..m
      <4>1. k \in 0..m /\ k - 1 \in 0..m /\ k # 0 BY <3>2
      <4>2. f[k] = Step(f, k)
        <5> HIDE DEF Step
        <5> QED BY <2>1, <4>1
      <4> QED BY <2>3, <4>1, <4>2
    <3>3. CASE k = m + 1 BY <2>2, <2>3, <3>3
    <3> QED BY <3>1, <3>2, <3>3
  <2>5. Is(more, m + 1) BY <2>2, <2>4
  <2> QED BY <2>5
<1> HIDE DEF N
<1>4. n \in N BY <1>1, <1>2, <1>3, NatSteps
<1>5. PICK f : f = CHOOSE g : Is(g, n) OBVIOUS
<1>6. Is(f, n) BY <1>4, <1>5 DEF N
<1>7. Keep(list, S) = f[n] BY <1>5 DEF Keep
<1>8. f[0] = <<>> /\ \A k \in 1..n : f[k] = Step(f, k)
  <2> HIDE DEF Step, n
  <2> QED BY <1>1, <1>6
<1> QED BY <1>7, <1>8

\* So it is of the list and of S, and no longer.
LEMMA KeepIs ==
    ASSUME NEW W, NEW list \in Seq(W), NEW S
    PROVE  Keep(list, S) \in Seq(W \cap S) /\ Len(Keep(list, S)) <= Len(list)
<1>1. PICK f : /\ f[0] = <<>> /\ f[Len(list)] = Keep(list, S)
               /\ \A k \in 1..Len(list) :
                     f[k] = IF list[k] \in S THEN Append(f[k - 1], list[k]) ELSE f[k - 1]
  BY KeepSteps
<1> DEFINE n == Len(list)  N == {k \in 0..n : f[k] \in Seq(W \cap S) /\ Len(f[k]) <= k}
<1>2. n \in Nat /\ \A k \in 1..n : list[k] \in W BY LenProperties, ElementOfSeq
<1>3. 0 \in N
  <2>1. <<>> \in Seq(W \cap S) /\ Len(<<>>) <= 0 BY EmptySeq
  <2>2. f[0] \in Seq(W \cap S) /\ Len(f[0]) <= 0 BY <1>1, <2>1
  <2> QED BY <1>2, <2>2
<1>4. ASSUME NEW k \in 1..n, k - 1 \in N PROVE k \in N
  <2>1. f[k - 1] \in Seq(W \cap S) /\ Len(f[k - 1]) <= k - 1 /\ k \in 0..n BY <1>2, <1>4
  <2>2. Len(f[k - 1]) \in Nat BY <2>1, LenProperties
  <2>3. CASE list[k] \in S
    <3>1. f[k] = Append(f[k - 1], list[k]) /\ list[k] \in W \cap S BY <1>1, <1>2, <2>3
    <3>2. f[k] \in Seq(W \cap S) /\ Len(f[k]) = Len(f[k - 1]) + 1
      BY <2>1, <3>1, AppendProperties
    <3> QED BY <2>1, <2>2, <3>2
  <2>4. CASE list[k] \notin S
    <3>1. f[k] = f[k - 1] BY <1>1, <2>4
    <3> QED BY <2>1, <2>2, <3>1
  <2> QED BY <2>3, <2>4
<1> HIDE DEF N
<1>5. 0..n \subseteq N BY <1>2, <1>3, <1>4, UpTo
<1>6. n \in N BY <1>2, <1>5
<1> QED BY <1>1, <1>6 DEF N

\* What is taken of a list is of the list, and no longer than asked.
LEMMA TakeIs ==
    ASSUME NEW W, NEW list \in Seq(W), NEW n \in Nat
    PROVE  /\ Take(list, n) \in Seq(W)
           /\ Len(Take(list, n)) = IF Len(list) < n THEN Len(list) ELSE n
           /\ \A i \in 1..Len(Take(list, n)) : Take(list, n)[i] = list[i]
<1> DEFINE m == IF Len(list) < n THEN Len(list) ELSE n
<1>1. Len(list) \in Nat BY LenProperties
<1>2. m \in 0..Len(list) /\ 1 \in 1..(Len(list) + 1) BY <1>1
<1>3. Take(list, n) = SubSeq(list, 1, m) BY DEF Take
<1> HIDE DEF m
<1>4. /\ SubSeq(list, 1, m) \in Seq(W)
      /\ Len(SubSeq(list, 1, m)) = IF 1 <= m THEN m - 1 + 1 ELSE 0
      /\ \A i \in 1..m-1+1 : SubSeq(list, 1, m)[i] = list[1 + i - 1]
  BY <1>1, <1>2, SubSeqProperties, LenProperties
<1> QED BY <1>2, <1>3, <1>4 DEF m

\* uniqueList adds nothing.
LEMMA UniqueListIs ==
    ASSUME NEW W, NEW text \in Seq(W) PROVE UniqueList(text) \in Seq(W)
<1> DEFINE n == Len(text)
           Step(list, i) == IF Contains(list, text[i]) THEN list ELSE Append(list, text[i])
           Is(h) == h = [s \in SUBSET (1..n) |->
                         IF s = {} THEN <<>> ELSE Step(h[s \ {Max(s)}], Max(s))]
           g == [x \in Seq(W) \X (1..n) |-> Step(x[1], x[2])]
<1>1. n \in Nat /\ DOMAIN text = 1..n /\ \A i \in 1..n : text[i] \in W
  BY LenProperties, ElementOfSeq
<1>2. \A list \in Seq(W), i \in 1..n : Step(list, i) \in Seq(W) BY <1>1, AppendProperties
<1>3. g \in [Seq(W) \X (1..n) -> Seq(W)] BY <1>2
<1>4. \A list \in Seq(W), i \in 1..n : g[<<list, i>>] = Step(list, i) OBVIOUS
<1> HIDE DEF g, n
<1>5. PICK h \in [SUBSET (1..n) -> Seq(W)] : FoldOf(h, n, <<>>, g)
  BY <1>1, <1>3, FoldDefined, EmptySeq
<1>6. \A s \in SUBSET (1..n) : s # {} => Max(s) \in 1..n BY <1>1, MaxIs
<1>7. Is(h) BY <1>4, <1>5, <1>6 DEF FoldOf
<1>8. PICK f : f = CHOOSE q : Is(q) OBVIOUS
<1>9. Is(f) BY <1>7, <1>8
<1>10. UniqueList(text) = f[1..n] BY <1>1, <1>8 DEF UniqueList, FoldLeft, MapThenFoldSet
<1> DEFINE N == {k \in 0..n : f[1..k] \in Seq(W)}
<1>11. 0 \in N
  <2>1. f[1..0] = <<>>
    <3>1. 1..0 = {} /\ {} \in SUBSET (1..n) OBVIOUS
    <3> HIDE DEF Step
    <3> QED BY <1>9, <3>1
  <2>2. f[1..0] \in Seq(W) BY <2>1, EmptySeq
  <2> QED BY <1>1, <2>2
<1>12. ASSUME NEW k \in 1..n, k - 1 \in N PROVE k \in N
  <2>1. Max(1..k) = k /\ (1..k) \ {k} = 1..(k - 1) /\ 1..k # {} /\ 1..k \in SUBSET (1..n)
    BY <1>1, MaxOfPrefix
  <2>2. f[1..k] = Step(f[(1..k) \ {Max(1..k)}], Max(1..k))
    <3> HIDE DEF Step
    <3> QED BY <1>9, <2>1
  <2>3. f[1..(k - 1)] \in Seq(W) /\ k \in 0..n BY <1>1, <1>12
  <2>4. f[1..k] = Step(f[1..(k - 1)], k)
    <3> HIDE DEF Step
    <3> QED BY <2>1, <2>2
  <2>5. Step(f[1..(k - 1)], k) \in Seq(W)
    <3> HIDE DEF Step
    <3> QED BY <1>2, <2>3
  <2>6. f[1..k] \in Seq(W) BY <2>4, <2>5
  <2> QED BY <2>3, <2>6
<1> HIDE DEF N
<1>13. 0..n \subseteq N BY <1>1, <1>11, <1>12, UpTo
<1>14. n \in N BY <1>1, <1>13
<1> QED BY <1>10, <1>14 DEF N

\* Nor does dedupeSectionEvidence.
LEMMA DedupeIs ==
    ASSUME NEW W, NEW reviews \in Seq(W) PROVE DedupeSectionEvidence(reviews) \in Seq(W)
<1> DEFINE n == Len(reviews)
           Step(list, i) == IF \E j \in DOMAIN list : list[j].section = reviews[i].section THEN list
                            ELSE Append(list, reviews[i])
           Is(h) == h = [s \in SUBSET (1..n) |->
                         IF s = {} THEN <<>> ELSE Step(h[s \ {Max(s)}], Max(s))]
           g == [x \in Seq(W) \X (1..n) |-> Step(x[1], x[2])]
<1>1. n \in Nat /\ DOMAIN reviews = 1..n /\ \A i \in 1..n : reviews[i] \in W
  BY LenProperties, ElementOfSeq
<1>2. \A list \in Seq(W), i \in 1..n : Step(list, i) \in Seq(W) BY <1>1, AppendProperties
<1>3. g \in [Seq(W) \X (1..n) -> Seq(W)] BY <1>2
<1>4. \A list \in Seq(W), i \in 1..n : g[<<list, i>>] = Step(list, i) OBVIOUS
<1> HIDE DEF g, n
<1>5. PICK h \in [SUBSET (1..n) -> Seq(W)] : FoldOf(h, n, <<>>, g)
  BY <1>1, <1>3, FoldDefined, EmptySeq
<1>6. \A s \in SUBSET (1..n) : s # {} => Max(s) \in 1..n BY <1>1, MaxIs
<1>7. Is(h)
  <2> HIDE DEF Step
  <2> QED BY <1>4, <1>5, <1>6 DEF FoldOf
<1>8. PICK f : f = CHOOSE q : Is(q) OBVIOUS
<1>9. Is(f)
  <2> HIDE DEF Is
  <2> QED BY <1>7, <1>8
<1>10. DedupeSectionEvidence(reviews) = f[1..n]
  BY <1>1, <1>8 DEF DedupeSectionEvidence, FoldLeft, MapThenFoldSet
<1> DEFINE N == {k \in 0..n : f[1..k] \in Seq(W)}
<1>11. 0 \in N
  <2>1. f[1..0] = <<>>
    <3>1. 1..0 = {} /\ {} \in SUBSET (1..n) OBVIOUS
    <3> HIDE DEF Step
    <3> QED BY <1>9, <3>1
  <2>2. f[1..0] \in Seq(W) BY <2>1, EmptySeq
  <2> QED BY <1>1, <2>2
<1>12. ASSUME NEW k \in 1..n, k - 1 \in N PROVE k \in N
  <2>1. Max(1..k) = k /\ (1..k) \ {k} = 1..(k - 1) /\ 1..k # {} /\ 1..k \in SUBSET (1..n)
    BY <1>1, MaxOfPrefix
  <2>2. f[1..k] = Step(f[(1..k) \ {Max(1..k)}], Max(1..k))
    <3> HIDE DEF Step
    <3> QED BY <1>9, <2>1
  <2>3. f[1..(k - 1)] \in Seq(W) /\ k \in 0..n BY <1>1, <1>12
  <2>4. f[1..k] = Step(f[1..(k - 1)], k)
    <3> HIDE DEF Step
    <3> QED BY <2>1, <2>2
  <2>5. Step(f[1..(k - 1)], k) \in Seq(W)
    <3> HIDE DEF Step
    <3> QED BY <1>2, <2>3
  <2>6. f[1..k] \in Seq(W) BY <2>4, <2>5
  <2> QED BY <2>3, <2>6
<1> HIDE DEF N
<1>13. 0..n \subseteq N BY <1>1, <1>11, <1>12, UpTo
<1>14. n \in N BY <1>1, <1>13
<1> QED BY <1>10, <1>14 DEF N

\* What is in two lists is in both together.
LEMMA ConcatHas ==
    ASSUME NEW W, NEW a \in Seq(W), NEW b \in Seq(W)
    PROVE  /\ a \o b \in Seq(W)
           /\ ToSet(a) \subseteq ToSet(a \o b) /\ ToSet(b) \subseteq ToSet(a \o b)
<1>1. PICK c : c = a \o b OBVIOUS
<1>2. /\ c \in Seq(W) /\ Len(c) = Len(a) + Len(b)
      /\ \A i \in 1..Len(a) + Len(b) : c[i] = IF i <= Len(a) THEN a[i] ELSE b[i - Len(a)]
  BY <1>1, ConcatProperties
<1>3. /\ Len(a) \in Nat /\ Len(b) \in Nat
      /\ DOMAIN a = 1..Len(a) /\ DOMAIN b = 1..Len(b) /\ DOMAIN c = 1..Len(c)
  BY <1>2, LenProperties
<1>4. PICK l, m : l = Len(a) /\ m = Len(b) OBVIOUS
<1>5. ASSUME NEW i \in 1..l PROVE i \in DOMAIN c /\ c[i] = a[i]
  <2>1. l \in Nat /\ m \in Nat BY <1>3, <1>4
  <2>2. i \in 1..(l + m) /\ i <= l BY <2>1
  <2> QED BY <1>2, <1>3, <1>4, <2>2
<1>6. ASSUME NEW i \in 1..m PROVE \E j \in DOMAIN c : c[j] = b[i]
  <2>1. l \in Nat /\ m \in Nat BY <1>3, <1>4
  <2>2. PICK j : j = l + i OBVIOUS
  <2>3. j \in 1..(l + m) /\ ~(j <= l) /\ j - l = i BY <2>1, <2>2
  <2> QED BY <1>2, <1>3, <1>4, <2>3
<1>7. ToSet(a) \subseteq ToSet(c) BY <1>3, <1>4, <1>5 DEF ToSet
<1>8. ToSet(b) \subseteq ToSet(c) BY <1>3, <1>4, <1>6 DEF ToSet
<1> QED BY <1>1, <1>2, <1>7, <1>8

\* A text made of texts, one by one.
LEMMA FlattenSteps ==
    ASSUME NEW W, NEW ss \in Seq(Seq(W)), Len(ss) # 0
    PROVE  \E f : /\ FlattenSeq(ss) = f[Len(ss)] /\ f[1] = ss[1]
                  /\ \A k \in 2..Len(ss) : f[k] = f[k - 1] \o ss[k]
<1> DEFINE n == Len(ss)
           Step(f, k) == f[k - 1] \o ss[k]
           Is(f, m) == f = [k \in 1..m |-> IF k = 1 THEN ss[k] ELSE Step(f, k)]
           N == {m \in Nat : m = 0 \/ \E f : Is(f, m)}
<1>1. n \in Nat BY LenProperties
<1>2. 0 \in N OBVIOUS
<1>3. ASSUME NEW m \in Nat, m \in N PROVE m + 1 \in N
  <2>1. CASE m = 0
    <3>1. PICK f : f = [k \in 1..1 |-> ss[1]] OBVIOUS
    <3>2. \E x : Is(x, 1) BY <3>1
    <3> HIDE DEF Is
    <3> QED BY <2>1, <3>2
  <2> SUFFICES ASSUME m # 0 PROVE m + 1 \in N BY <2>1
  <2>2. PICK f : Is(f, m) BY <1>3
  <2>3. PICK more : more = [k \in 1..(m + 1) |-> IF k <= m THEN f[k] ELSE Step(f, m + 1)] OBVIOUS
  <2>4. \A k \in 1..m : more[k] = f[k] BY <2>3
  <2>5. ASSUME NEW k \in 1..(m + 1) PROVE more[k] = IF k = 1 THEN ss[k] ELSE Step(more, k)
    <3>1. CASE k = 1 BY <2>2, <2>3, <3>1
    <3>2. CASE k \in 2..m
      <4>1. k \in 1..m /\ k - 1 \in 1..m /\ k # 1 BY <3>2
      <4>2. f[k] = Step(f, k)
        <5> HIDE DEF Step
        <5> QED BY <2>2, <4>1
      <4> QED BY <2>4, <4>1, <4>2
    <3>3. CASE k = m + 1 BY <2>3, <2>4, <3>3
    <3> QED BY <3>1, <3>2, <3>3
  <2>6. \E x : Is(x, m + 1)
    <3>1. more = [k \in 1..(m + 1) |-> IF k = 1 THEN ss[k] ELSE Step(more, k)]
      <4> HIDE DEF Step
      <4> QED BY <2>3, <2>5
    <3> QED BY <3>1
  <2> HIDE DEF Is
  <2> QED BY <2>6
<1> HIDE DEF N
<1>4. n \in N BY <1>1, <1>2, <1>3, NatSteps
<1>5. PICK f : f = CHOOSE g : Is(g, n) OBVIOUS
<1>6. Is(f, n)
  <2> HIDE DEF Is
  <2> QED BY <1>4, <1>5 DEF N
<1>7. FlattenSeq(ss) = f[n] BY <1>5 DEF FlattenSeq
<1>8. f[1] = ss[1] /\ \A k \in 2..n : f[k] = Step(f, k)
  <2>1. 1 \in 1..n /\ \A k \in 2..n : k \in 1..n /\ k # 1 BY <1>1
  <2> HIDE DEF Step, n
  <2> QED BY <1>6, <2>1
<1> QED BY <1>7, <1>8

\* The words of a text made of texts are the words of those.
LEMMA FlattenIs ==
    ASSUME NEW W, NEW ss \in Seq(Seq(W))
    PROVE  /\ FlattenSeq(ss) \in Seq(W)
           /\ \A i \in DOMAIN ss : ToSet(ss[i]) \subseteq ToSet(FlattenSeq(ss))
<1> DEFINE n == Len(ss)
<1>1. n \in Nat /\ DOMAIN ss = 1..n /\ \A i \in 1..n : ss[i] \in Seq(W)
  BY LenProperties, ElementOfSeq
<1>2. CASE n = 0
  <2>1. FlattenSeq(ss) = ss BY <1>2 DEF FlattenSeq
  <2>2. ss = <<>> BY <1>2, EmptySeq
  <2> QED BY <1>1, <1>2, <2>1, <2>2, EmptySeq
<1>3. CASE n # 0
  <2>1. PICK f : /\ FlattenSeq(ss) = f[n] /\ f[1] = ss[1]
                 /\ \A k \in 2..n : f[k] = f[k - 1] \o ss[k]
    BY <1>3, FlattenSteps
  <2> DEFINE Has(k) == f[k] \in Seq(W) /\ \A i \in 1..k : ToSet(ss[i]) \subseteq ToSet(f[k])
             N == {k \in 0..n : k = 0 \/ Has(k)}
  <2>2. 0 \in N BY <1>1
  <2>3. ASSUME NEW k \in 1..n, k - 1 \in N PROVE k \in N
    <3>1. CASE k = 1 BY <1>1, <2>1, <3>1
    <3>2. CASE k # 1
      <4>1. /\ f[k - 1] \in Seq(W) /\ ss[k] \in Seq(W)
            /\ \A i \in 1..(k - 1) : ToSet(ss[i]) \subseteq ToSet(f[k - 1])
        BY <1>1, <2>3, <3>2
      <4>2. f[k] = f[k - 1] \o ss[k]
        <5>1. k \in 2..n BY <1>1, <3>2
        <5> QED BY <2>1, <5>1
      <4>3. PICK a, b, c : a = f[k - 1] /\ b = ss[k] /\ c = f[k] OBVIOUS
      <4>4. c \in Seq(W) /\ ToSet(a) \subseteq ToSet(c) /\ ToSet(b) \subseteq ToSet(c)
        <5>1. a \in Seq(W) /\ b \in Seq(W) /\ c = a \o b BY <4>1, <4>2, <4>3
        <5> QED BY <5>1, ConcatHas
      <4>5. ASSUME NEW i \in 1..k PROVE ToSet(ss[i]) \subseteq ToSet(f[k])
        <5>1. CASE i = k BY <4>3, <4>4, <5>1
        <5>2. CASE i # k
          <6>1. i \in 1..(k - 1) BY <5>2
          <6> QED BY <4>1, <4>3, <4>4, <6>1
        <5> QED BY <5>1, <5>2
      <4> QED BY <1>1, <4>3, <4>4, <4>5
    <3> QED BY <3>1, <3>2
  <2> HIDE DEF N
  <2>4. 0..n \subseteq N BY <1>1, <2>2, <2>3, UpTo
  <2>5. n \in N BY <1>1, <2>4
  <2> QED BY <1>1, <1>3, <2>1, <2>5 DEF N
<1> QED BY <1>2, <1>3

\* The words of a text.
LEMMA TextWords ==
    ASSUME NEW W, NEW t \in Seq(W) PROVE ToSet(t) \subseteq W
BY ElementOfSeq, LenProperties DEF ToSet

\* A list is made of what is in it.
LEMMA ListOf ==
    ASSUME NEW D, NEW t \in Seq(D), NEW W, ToSet(t) \subseteq W PROVE t \in Seq(W)
<1>1. t \in Seq(ToSet(t)) BY SeqOfRange DEF Range, ToSet
<1> QED BY <1>1, SeqMonotonic

\* A list of what is made of the items of a list.
LEMMA MappedList ==
    ASSUME NEW D, NEW t \in Seq(D), NEW W, NEW g, g = [i \in DOMAIN t |-> g[i]],
           \A i \in DOMAIN t : g[i] \in W
    PROVE  g \in Seq(W) /\ Len(g) = Len(t) /\ DOMAIN g = DOMAIN t
<1>1. Len(t) \in Nat /\ DOMAIN t = 1..Len(t) BY LenProperties
<1>2. g = [i \in 1..Len(t) |-> g[i]] BY <1>1
<1>3. g \in [1..Len(t) -> W] BY <1>1, <1>2
<1>4. g \in Seq(W) BY <1>1, <1>3
<1> QED BY <1>1, <1>2, <1>4, LenProperties

\* Splitting lines into sections leaves lines in each.
LEMMA SplitIs ==
    ASSUME NEW W, NEW lines \in Seq(W), NEW kind, NEW start \in Sections,
           \A w \in W : About[w][kind] \in Sections \cup {"none"}
    PROVE  SplitSections(lines, kind, start) \in [Sections -> Seq(W)]
<1> DEFINE n == Len(lines)
           I == [current : Sections, found : [Sections -> Seq(W)]]
           Step(split, i) ==
               IF About[lines[i]][kind] # "none" THEN [split EXCEPT !.current = About[lines[i]][kind]]
               ELSE [split EXCEPT !.found[split.current] = Append(@, lines[i])]
           base == [current |-> start, found |-> [s \in Sections |-> <<>>]]
           Is(h) == h = [s \in SUBSET (1..n) |->
                         IF s = {} THEN base ELSE Step(h[s \ {Max(s)}], Max(s))]
           g == [x \in I \X (1..n) |-> Step(x[1], x[2])]
<1>1. n \in Nat /\ DOMAIN lines = 1..n /\ \A i \in 1..n : lines[i] \in W
  BY LenProperties, ElementOfSeq
<1>2. \A split \in I, i \in 1..n : Step(split, i) \in I
  <2> TAKE split \in I, i \in 1..n
  <2>1. CASE About[lines[i]][kind] # "none" BY <1>1, <2>1
  <2>2. CASE About[lines[i]][kind] = "none"
    <3>1. Append(split.found[split.current], lines[i]) \in Seq(W) BY <1>1, AppendProperties
    <3> QED BY <2>2, <3>1
  <2> QED BY <2>1, <2>2
<1>3. base \in I
  <2>1. <<>> \in Seq(W) BY EmptySeq
  <2> QED BY <2>1
<1>4. g \in [I \X (1..n) -> I]
  <2> HIDE DEF I, Step, n
  <2> QED BY <1>2
<1>5. \A split \in I, i \in 1..n : g[<<split, i>>] = Step(split, i)
  <2> HIDE DEF I, Step, n
  <2> QED OBVIOUS
<1>6. SplitSections(lines, kind, start) = (CHOOSE q : Is(q))[1..n].found
  BY <1>1 DEF SplitSections, FoldLeft, MapThenFoldSet
<1> HIDE DEF g, n, I, base, Step
<1>7. PICK h \in [SUBSET (1..n) -> I] : FoldOf(h, n, base, g)
  BY <1>3, <1>1, <1>4, FoldDefined
<1>8. \A s \in SUBSET (1..n) : s # {} => Max(s) \in 1..n BY <1>1, MaxIs
<1>9. Is(h) BY <1>5, <1>7, <1>8 DEF FoldOf
<1>10. PICK f : f = CHOOSE q : Is(q) OBVIOUS
<1>11. Is(f)
  <2> HIDE DEF Is
  <2> QED BY <1>9, <1>10
<1> DEFINE N == {k \in 0..n : f[1..k] \in I}
<1>12. 0 \in N
  <2>1. f[1..0] = base
    <3>1. 1..0 = {} /\ {} \in SUBSET (1..n) OBVIOUS
    <3> QED BY <1>11, <3>1
  <2> QED BY <1>3, <1>1, <2>1
<1>13. ASSUME NEW k \in 1..n, k - 1 \in N PROVE k \in N
  <2>1. Max(1..k) = k /\ (1..k) \ {k} = 1..(k - 1) /\ 1..k # {} /\ 1..k \in SUBSET (1..n)
    BY <1>1, MaxOfPrefix
  <2>2. f[1..k] = Step(f[(1..k) \ {Max(1..k)}], Max(1..k)) BY <1>11, <2>1
  <2>3. f[1..(k - 1)] \in I /\ k \in 0..n BY <1>1, <1>13
  <2>4. f[1..k] = Step(f[1..(k - 1)], k) BY <2>1, <2>2
  <2>5. Step(f[1..(k - 1)], k) \in I BY <1>2, <2>3
  <2>6. f[1..k] \in I BY <2>4, <2>5
  <2> QED BY <2>3, <2>6
<1> HIDE DEF N
<1>14. 0..n \subseteq N BY <1>1, <1>12, <1>13, UpTo
<1>15. f[1..n] \in I BY <1>1, <1>14 DEF N
<1> QED BY <1>10, <1>15, <1>6 DEF I

\* The order of sections names sections.
LEMMA OrderIs ==
    ASSUME NEW W, NEW lines \in Seq(W), NEW kind, NEW start \in Sections,
           \A w \in W : About[w][kind] \in Sections \cup {"none"}
    PROVE  SectionOrder(lines, kind, start) \in Seq(Sections)
<1> DEFINE n == Len(lines)
           I == [current : Sections, order : Seq(Sections)]
           At(split, i) == IF About[lines[i]][kind] # "none" THEN About[lines[i]][kind]
                           ELSE split.current
           Step(split, i) == [current |-> At(split, i), order |-> Append(split.order, At(split, i))]
           base == [current |-> start, order |-> <<>>]
           Is(h) == h = [s \in SUBSET (1..n) |->
                         IF s = {} THEN base ELSE Step(h[s \ {Max(s)}], Max(s))]
           g == [x \in I \X (1..n) |-> Step(x[1], x[2])]
<1>1. n \in Nat /\ DOMAIN lines = 1..n /\ \A i \in 1..n : lines[i] \in W
  BY LenProperties, ElementOfSeq
<1>2. \A split \in I, i \in 1..n : Step(split, i) \in I
  <2> TAKE split \in I, i \in 1..n
  <2>1. At(split, i) \in Sections BY <1>1
  <2> HIDE DEF At
  <2>2. Append(split.order, At(split, i)) \in Seq(Sections) BY <2>1, AppendProperties
  <2> QED BY <2>1, <2>2
<1>3. base \in I
  <2>1. <<>> \in Seq(Sections) BY EmptySeq
  <2> QED BY <2>1
<1>4. g \in [I \X (1..n) -> I]
  <2> HIDE DEF I, Step, n
  <2> QED BY <1>2
<1>5. \A split \in I, i \in 1..n : g[<<split, i>>] = Step(split, i)
  <2> HIDE DEF I, Step, n
  <2> QED OBVIOUS
<1>6. SectionOrder(lines, kind, start) = UniqueList((CHOOSE q : Is(q))[1..n].order)
  BY <1>1 DEF SectionOrder, FoldLeft, MapThenFoldSet
<1> HIDE DEF g, n, I, base, Step
<1>7. PICK h \in [SUBSET (1..n) -> I] : FoldOf(h, n, base, g)
  BY <1>3, <1>1, <1>4, FoldDefined
<1>8. \A s \in SUBSET (1..n) : s # {} => Max(s) \in 1..n BY <1>1, MaxIs
<1>9. Is(h) BY <1>5, <1>7, <1>8 DEF FoldOf
<1>10. PICK f : f = CHOOSE q : Is(q) OBVIOUS
<1>11. Is(f)
  <2> HIDE DEF Is
  <2> QED BY <1>9, <1>10
<1> DEFINE N == {k \in 0..n : f[1..k] \in I}
<1>12. 0 \in N
  <2>1. f[1..0] = base
    <3>1. 1..0 = {} /\ {} \in SUBSET (1..n) OBVIOUS
    <3> QED BY <1>11, <3>1
  <2> QED BY <1>3, <1>1, <2>1
<1>13. ASSUME NEW k \in 1..n, k - 1 \in N PROVE k \in N
  <2>1. Max(1..k) = k /\ (1..k) \ {k} = 1..(k - 1) /\ 1..k # {} /\ 1..k \in SUBSET (1..n)
    BY <1>1, MaxOfPrefix
  <2>2. f[1..k] = Step(f[(1..k) \ {Max(1..k)}], Max(1..k)) BY <1>11, <2>1
  <2>3. f[1..(k - 1)] \in I /\ k \in 0..n BY <1>1, <1>13
  <2>4. f[1..k] = Step(f[1..(k - 1)], k) BY <2>1, <2>2
  <2>5. Step(f[1..(k - 1)], k) \in I BY <1>2, <2>3
  <2>6. f[1..k] \in I BY <2>4, <2>5
  <2> QED BY <2>3, <2>6
<1> HIDE DEF N
<1>14. 0..n \subseteq N BY <1>1, <1>12, <1>13, UpTo
<1>15. f[1..n] \in I BY <1>1, <1>14 DEF N
<1> QED BY <1>10, <1>15, <1>6, UniqueListIs DEF I

\* A text of all words of a finite set.
LEMMA SpokenIs ==
    ASSUME NEW words, IsFiniteSet(words)
    PROVE  FoldSet(LAMBDA w, text : Append(text, w), <<>>, words) \in Seq(words)
<1> DEFINE D == SUBSET words
           I == Seq(words)
           One(s) == CHOOSE x \in s : TRUE
           Is(h) == h = [s \in D |-> IF s = {} THEN <<>> ELSE Append(h[s \ {One(s)}], One(s))]
           Holds(h, s) == h[s] = IF s = {} THEN <<>> ELSE Append(h[s \ {One(s)}], One(s))
           N == {k \in Nat : \E h \in [D -> I] : \A s \in D : Cardinality(s) <= k => Holds(h, s)}
<1>1. \A s \in D : IsFiniteSet(s) /\ Cardinality(s) \in Nat
  BY FS_Subset, FS_CardinalityType
<1>2. \A s \in D : s # {} => /\ One(s) \in s /\ One(s) \in words /\ s \ {One(s)} \in D
                             /\ Cardinality(s \ {One(s)}) = Cardinality(s) - 1
  <2> SUFFICES ASSUME NEW s \in D, s # {}
               PROVE  /\ One(s) \in s /\ One(s) \in words /\ s \ {One(s)} \in D
                      /\ Cardinality(s \ {One(s)}) = Cardinality(s) - 1
    OBVIOUS
  <2>1. One(s) \in s OBVIOUS
  <2> HIDE DEF One
  <2> QED BY <1>1, <2>1, FS_RemoveElement
<1>3. FoldSet(LAMBDA w, text : Append(text, w), <<>>, words) = (CHOOSE h : Is(h))[words]
  BY DEF FoldSet, MapThenFoldSet
<1> HIDE DEF One
<1>4. 0 \in N
  <2>1. \A s \in D : Cardinality(s) <= 0 => s = {} BY <1>1, FS_EmptySet
  <2>2. [s \in D |-> <<>>] \in [D -> I] BY EmptySeq
  <2> HIDE DEF D
  <2> QED BY <2>1, <2>2
<1>5. ASSUME NEW k \in Nat, k \in N PROVE k + 1 \in N
  <2>1. PICK h \in [D -> I] : \A s \in D : Cardinality(s) <= k => Holds(h, s) BY <1>5
  <2> DEFINE more == [s \in D |-> IF s = {} THEN <<>> ELSE Append(h[s \ {One(s)}], One(s))]
  <2>2. more \in [D -> I]
    <3>1. ASSUME NEW s \in D, s # {} PROVE Append(h[s \ {One(s)}], One(s)) \in I
      <4>1. h[s \ {One(s)}] \in I /\ One(s) \in words BY <1>2, <3>1
      <4> QED BY <4>1, AppendProperties
    <3>2. <<>> \in I BY EmptySeq
    <3> HIDE DEF I, D
    <3> QED BY <3>1, <3>2
  <2>3. \A s \in D : Cardinality(s) <= k => more[s] = h[s] BY <2>1
  <2>4. ASSUME NEW s \in D, Cardinality(s) <= k + 1 PROVE Holds(more, s)
    <3>1. CASE s = {} BY <3>1
    <3>2. CASE s # {}
      <4>1. s \ {One(s)} \in D /\ Cardinality(s \ {One(s)}) <= k BY <1>1, <1>2, <2>4, <3>2
      <4>2. more[s \ {One(s)}] = h[s \ {One(s)}] BY <2>3, <4>1
      <4> HIDE DEF D
      <4> QED BY <3>2, <4>2
    <3> QED BY <3>1, <3>2
  <2> HIDE DEF more, D, Holds
  <2> QED BY <2>2, <2>4
<1> HIDE DEF N
<1>6. Cardinality(words) \in N BY <1>1, <1>4, <1>5, NatSteps
<1>7. PICK h \in [D -> I] : \A s \in D : Cardinality(s) <= Cardinality(words) => Holds(h, s)
  BY <1>6 DEF N
<1>8. \A s \in D : Holds(h, s)
  <2>1. \A s \in D : Cardinality(s) <= Cardinality(words) BY FS_Subset
  <2> HIDE DEF Holds
  <2> QED BY <1>7, <2>1
<1>9. Is(h)
  <2> HIDE DEF I, D
  <2> QED BY <1>8
<1>10. PICK f : f = CHOOSE x : Is(x) OBVIOUS
<1>11. Is(f)
  <2> HIDE DEF Is
  <2> QED BY <1>9, <1>10
<1> DEFINE M == {k \in Nat : \A s \in D : Cardinality(s) <= k => f[s] \in I}
<1>12. 0 \in M
  <2>1. ASSUME NEW s \in D, Cardinality(s) <= 0 PROVE f[s] \in I
    <3>1. s = {} BY <1>1, <2>1, FS_EmptySet
    <3>2. f[s] = <<>> BY <1>11, <3>1
    <3> QED BY <3>2, EmptySeq
  <2> QED BY <2>1
<1>13. ASSUME NEW k \in Nat, k \in M PROVE k + 1 \in M
  <2>1. ASSUME NEW s \in D, Cardinality(s) <= k + 1 PROVE f[s] \in I
    <3>1. CASE s = {}
      <4>1. f[s] = <<>> BY <1>11, <3>1
      <4> QED BY <4>1, EmptySeq
    <3>2. CASE s # {}
      <4>1. s \ {One(s)} \in D /\ Cardinality(s \ {One(s)}) <= k /\ One(s) \in words
        BY <1>1, <1>2, <2>1, <3>2
      <4>2. f[s \ {One(s)}] \in I BY <1>13, <4>1
      <4>3. f[s] = Append(f[s \ {One(s)}], One(s)) BY <1>11, <3>2
      <4> QED BY <4>1, <4>2, <4>3, AppendProperties
    <3> QED BY <3>1, <3>2
  <2> QED BY <2>1
<1> HIDE DEF M
<1>14. Cardinality(words) \in M BY <1>1, <1>12, <1>13, NatSteps
<1>15. Cardinality(words) <= Cardinality(words) /\ words \in D BY <1>1
<1>16. f[words] \in I
  <2> HIDE DEF I
  <2> QED BY <1>14, <1>15 DEF M
<1>17. PICK told : told = FoldSet(LAMBDA w, text : Append(text, w), <<>>, words) OBVIOUS
<1>18. told = f[words]
  <2> HIDE DEF Is
  <2> QED BY <1>10, <1>3, <1>17
<1>19. told \in I
  <2> HIDE DEF I
  <2> QED BY <1>16, <1>18
<1> QED BY <1>17, <1>19

\* What a provider may say are words it was given.
LEMMA SayingsAre ==
    ASSUME NEW words, IsFiniteSet(words) PROVE Sayings(words) \subseteq Seq(words)
<1>1. FoldSet(LAMBDA w, text : Append(text, w), <<>>, words) \in Seq(words) BY SpokenIs
<1>2. <<>> \in Seq(words) BY EmptySeq
<1>3. \A w \in words : <<w>> \in Seq(words) OBVIOUS
<1> QED BY <1>1, <1>2, <1>3 DEF Sayings

-----------------------------------------------------------------------------
(* The public copy of an analysis.                                         *)

\* An evidence list is made of public words.
LEMMA SafeListIs ==
    ASSUME NEW words \in Texts, NEW n \in Nat
    PROVE  LET safe == SafeEvidenceList(words, n) IN
           /\ safe \in Seq(Public) /\ safe \in Texts
           /\ Len(safe) <= n /\ Len(safe) <= Len(words)
<1>1. /\ Keep(words, Public) \in Seq(DOMAIN About \cap Public)
      /\ Len(Keep(words, Public)) <= Len(words)
  BY KeepIs DEF Texts
<1>2. DOMAIN About \cap Public = Public BY DEF Public
<1>3. Keep(words, Public) \in Seq(Public) BY <1>1, <1>2
<1>4. Len(words) \in Nat /\ Len(Keep(words, Public)) \in Nat BY <1>3, LenProperties DEF Texts
<1>5. /\ Take(Keep(words, Public), n) \in Seq(Public)
      /\ Len(Take(Keep(words, Public), n)) =
             IF Len(Keep(words, Public)) < n THEN Len(Keep(words, Public)) ELSE n
  BY <1>3, TakeIs
<1>6. Public \subseteq DOMAIN About BY DEF Public
<1>7. Take(Keep(words, Public), n) \in Texts BY <1>5, <1>6, SeqMonotonic DEF Texts
<1> QED BY <1>1, <1>4, <1>5, <1>7 DEF SafeEvidenceList

\* The size of joined fragments, one by one: 120 at most for each.
LEMMA JoinedSizeSteps ==
    ASSUME NEW words \in Texts
    PROVE  \E f : /\ f[0] = 0
                  /\ JoinedSize(words) = f[Len(words)]
                         + (IF words = <<>> THEN 0 ELSE 2 * (Len(words) - 1))
                  /\ \A k \in 1..Len(words) :
                       f[k] = f[k - 1] + (IF About[words[k]].size < 120
                                             THEN About[words[k]].size ELSE 120)
<1> DEFINE n == Len(words)
           Cut(w) == IF About[w].size < 120 THEN About[w].size ELSE 120
           Step(m, i) == m + Cut(words[i])
           Is(h) == h = [s \in SUBSET (1..n) |->
                         IF s = {} THEN 0 ELSE Step(h[s \ {Max(s)}], Max(s))]
           g == [x \in Nat \X (1..n) |-> Step(x[1], x[2])]
<1>1. n \in Nat /\ DOMAIN words = 1..n /\ \A i \in 1..n : words[i] \in DOMAIN About
  BY LenProperties, ElementOfSeq DEF Texts
<1>2. \A i \in 1..n : Cut(words[i]) \in Nat BY <1>1, AboutAssumption
<1>3. g \in [Nat \X (1..n) -> Nat] BY <1>1, <1>2
<1>4. \A m \in Nat, i \in 1..n : g[<<m, i>>] = Step(m, i) OBVIOUS
<1> HIDE DEF g, n
<1>5. PICK h \in [SUBSET (1..n) -> Nat] : FoldOf(h, n, 0, g)
  BY <1>1, <1>3, FoldDefined
<1>6. \A s \in SUBSET (1..n) : s # {} => Max(s) \in 1..n BY <1>1, MaxIs
<1>7. Is(h) BY <1>4, <1>5, <1>6 DEF FoldOf
<1>8. PICK f : f = CHOOSE q : Is(q) OBVIOUS
<1>9. Is(f) BY <1>7, <1>8
<1>10. JoinedSize(words) = f[1..n] + (IF words = <<>> THEN 0 ELSE 2 * (n - 1))
  BY <1>1, <1>8 DEF JoinedSize, FoldLeft, MapThenFoldSet, n
<1>11. f[1..0] = 0 BY <1>9
<1>12. \A k \in 1..n : f[1..k] = Step(f[1..(k-1)], k)
  <2> TAKE k \in 1..n
  <2>1. Max(1..k) = k /\ (1..k) \ {k} = 1..(k - 1) /\ 1..k # {} /\ 1..k \in SUBSET (1..n)
    BY <1>1, MaxOfPrefix
  <2>2. f[1..k] = Step(f[(1..k) \ {Max(1..k)}], Max(1..k))
    <3> HIDE DEF Step
    <3> QED BY <1>9, <2>1
  <2> QED BY <2>1, <2>2
<1>13. PICK p : p = [k \in 0..n |-> f[1..k]] OBVIOUS
<1>14. p[0] = 0 /\ p[n] = f[1..n] /\ \A k \in 1..n : p[k] = Step(p[k - 1], k)
  BY <1>1, <1>11, <1>12, <1>13
<1> QED BY <1>10, <1>14 DEF n

\* And the commas between them.
LEMMA JoinedSizeIs ==
    ASSUME NEW words \in Texts, Len(words) <= 3
    PROVE  JoinedSize(words) \in Nat /\ JoinedSize(words) <= 122 * Len(words)
<1>1. PICK f : /\ f[0] = 0
               /\ JoinedSize(words) = f[Len(words)]
                      + (IF words = <<>> THEN 0 ELSE 2 * (Len(words) - 1))
               /\ \A k \in 1..Len(words) :
                    f[k] = f[k - 1] + (IF About[words[k]].size < 120
                                          THEN About[words[k]].size ELSE 120)
  BY JoinedSizeSteps
<1> DEFINE n == Len(words)  N == {k \in 0..n : f[k] \in Nat /\ f[k] <= 120 * k}
<1>2. n \in Nat /\ \A k \in 1..n : About[words[k]].size \in Nat
  BY LenProperties, ElementOfSeq, AboutAssumption DEF Texts
<1>3. 0 \in N BY <1>1, <1>2
<1>4. ASSUME NEW k \in 1..n, k - 1 \in N PROVE k \in N
  <2>1. PICK cut : cut = IF About[words[k]].size < 120 THEN About[words[k]].size ELSE 120
    OBVIOUS
  <2>2. cut \in Nat /\ cut <= 120 BY <1>2, <2>1
  <2>3. f[k - 1] \in Nat /\ f[k - 1] <= 120 * (k - 1) BY <1>4
  <2>4. f[k] = f[k - 1] + cut BY <1>1, <2>1
  <2>5. f[k] \in Nat /\ f[k] <= 120 * k BY <1>2, <2>2, <2>3, <2>4
  <2> QED BY <1>2, <2>5
<1> HIDE DEF N
<1>5. 0..n \subseteq N BY <1>2, <1>3, <1>4, UpTo
<1>6. n \in N BY <1>2, <1>5
<1>7. f[n] \in Nat /\ f[n] <= 120 * n BY <1>6 DEF N
<1>8. words = <<>> <=> n = 0 BY EmptySeq, LenProperties DEF Texts
<1> HIDE DEF n
<1> QED BY <1>1, <1>2, <1>7, <1>8 DEF n

\* The summary of less than six fragments is within the limit of the schema.
LEMMA SizeFits ==
    ASSUME NEW core, CoreOK(core), ~(Len(core.fit.matched) >= 3 /\ Len(core.fit.missing) >= 3)
    PROVE  JobFitSummarySize(SafeEvidenceList(core.fit.matched, 3),
                             SafeEvidenceList(core.fit.missing, 3)) <= 800
<1>1. PICK a, b : /\ a = SafeEvidenceList(core.fit.matched, 3)
                  /\ b = SafeEvidenceList(core.fit.missing, 3)
  OBVIOUS
<1>2. core.fit.matched \in Texts /\ core.fit.missing \in Texts BY DEF CoreOK
<1>3. /\ a \in Texts /\ b \in Texts /\ Len(a) <= 3 /\ Len(b) <= 3
      /\ Len(a) <= Len(core.fit.matched) /\ Len(b) <= Len(core.fit.missing)
  BY <1>1, <1>2, SafeListIs
<1>4. /\ Len(a) \in Nat /\ Len(b) \in Nat
      /\ Len(core.fit.matched) \in Nat /\ Len(core.fit.missing) \in Nat
  BY <1>2, <1>3, LenProperties DEF Texts
<1>5. Len(a) + Len(b) <= 5 BY <1>3, <1>4
<1>6. /\ JoinedSize(a) \in Nat /\ JoinedSize(a) <= 122 * Len(a)
      /\ JoinedSize(b) \in Nat /\ JoinedSize(b) <= 122 * Len(b)
  BY <1>3, JoinedSizeIs
<1>7. JobFitSummarySize(a, b) <= 800
  BY <1>3, <1>4, <1>5, <1>6 DEF JobFitSummarySize
<1> QED BY <1>1, <1>7

\* Fixed words and evidence.
LEMMA WithIs ==
    ASSUME NEW words \in Texts, NEW n \in Nat
    PROVE  With(words, n) \in Seq(Public) /\ With(words, n) \in Texts
<1>1. SafeEvidenceList(words, n) \in Seq(Public) BY SafeListIs
<1>2. Phrase \in Public BY CvDocumentsAssumption
<1>3. With(words, n) \in Seq(Public) BY <1>1, <1>2, ConcatProperties DEF With
<1>4. Public \subseteq DOMAIN About BY DEF Public
<1> QED BY <1>3, <1>4, SeqMonotonic DEF Texts

\* Public words are no private ones.
LEMMA PublicTexts ==
    ASSUME NEW t \in Seq(Public)
    PROVE  t \in Texts /\ \A w \in ToSet(t) : ~About[w].private
<1>1. Public \subseteq DOMAIN About BY DEF Public
<1>2. t \in Texts BY <1>1, SeqMonotonic DEF Texts
<1>3. ToSet(t) \subseteq Public BY ElementOfSeq, LenProperties DEF ToSet
<1> QED BY <1>2, <1>3 DEF Public

\* What the deterministic response is made of is public.
LEMMA DeterministicCopy ==
    ASSUME NEW core, CoreOK(core), ~(\E w \in SentenceEnds(core) : About[w].abbreviated)
    PROVE  LET response == BuildDeterministicResponse(core)
           IN HasTexts(response) /\ AssertPublicCvAnalysisSafety(response)
<1> DEFINE PT == Seq(Public)
           skills == BuildJobFitSummary(core)
           actions == BuildTopActionables(core)
           issues == SafeEvidenceList(core.ats.detected, 2)
<1>1. /\ core.fit.matched \in Texts /\ core.fit.missing \in Texts
      /\ core.ats.detected \in Texts /\ core.evidence \in Texts
  BY DEF CoreOK
<1>2. <<Phrase>> \in PT
  <2>1. Phrase \in Public BY CvDocumentsAssumption
  <2> QED BY <2>1
<1>3. skills \in PT
  <2>1. /\ SafeEvidenceList(core.fit.matched, 3) \in PT
        /\ SafeEvidenceList(core.fit.missing, 3) \in PT
    BY <1>1, SafeListIs
  <2> QED BY <2>1, ConcatProperties DEF BuildJobFitSummary
<1>4. BuildAtsSummary(core) \in PT BY <1>1, WithIs DEF BuildAtsSummary
<1>5. BuildOverallImpression(core) \in PT BY <1>1, WithIs DEF BuildOverallImpression
<1>6. actions \in PT
  <2>1. /\ SafeEvidenceList(core.fit.missing, 2) \in PT
        /\ SafeEvidenceList(core.ats.detected, 1) \in PT
    BY <1>1, SafeListIs
  <2>2. SafeEvidenceList(core.fit.missing, 2) \o SafeEvidenceList(core.ats.detected, 1) \in PT
    BY <2>1, ConcatProperties
  <2>3. SafeEvidenceList(core.fit.missing, 2) \o SafeEvidenceList(core.ats.detected, 1)
            \o <<Phrase>> \in PT
    BY <1>2, <2>2, ConcatProperties
  <2> QED BY <2>3, TakeIs DEF BuildTopActionables
<1>7. Take(actions, 2) \in PT BY <1>6, TakeIs
<1>8. FirstNonEmpty(issues, <<Phrase>>) \in PT BY <1>1, <1>2, SafeListIs DEF FirstNonEmpty
<1> DEFINE response == BuildDeterministicResponse(core)
<1>9. /\ response.summary \in PT /\ response.atsSummary \in PT
      /\ response.impression \in PT /\ response.actions \in PT
  BY <1>3, <1>4, <1>5, <1>6 DEF BuildDeterministicResponse
<1>10. PICK reviews : reviews = BuildSectionReviews(core) OBVIOUS
<1>11. response.reviews = reviews BY <1>10 DEF BuildDeterministicResponse
<1>12. /\ reviews \in Seq(ToSet(reviews))
       /\ \A review \in ToSet(reviews) : /\ DOMAIN review = {"section", "analysis", "points"}
                                         /\ review.analysis \in PT /\ review.points \in PT
  <2>1. PICK x, y, z :
            /\ x = [section |-> "skills", analysis |-> skills, points |-> Take(actions, 2)]
            /\ y = [section |-> "ats readability", analysis |-> BuildAtsSummary(core),
                    points |-> FirstNonEmpty(issues, <<Phrase>>)]
            /\ z = [section |-> "role evidence", analysis |-> BuildOverallImpression(core),
                    points |-> <<Phrase>>]
    OBVIOUS
  <2>2. reviews = <<x, y, z>> BY <1>10, <2>1 DEF BuildSectionReviews
  <2>3. ToSet(reviews) = {x, y, z} /\ reviews \in Seq({x, y, z}) BY <2>2 DEF ToSet
  <2>4. \A review \in {x, y, z} : DOMAIN review = {"section", "analysis", "points"} BY <2>1
  <2>5. /\ x.analysis \in PT /\ x.points \in PT /\ y.analysis \in PT /\ y.points \in PT
        /\ z.analysis \in PT /\ z.points \in PT
    <3> HIDE DEF skills, actions, issues, PT
    <3> QED BY <1>2, <1>3, <1>4, <1>5, <1>7, <1>8, <2>1
  <2> HIDE DEF PT
  <2> QED BY <2>3, <2>4, <2>5
<1>13. PICK recommendations : recommendations = response.recommendations OBVIOUS
<1>14. \A rec \in ToSet(recommendations) : rec.reason \in PT /\ rec.nextStep \in PT
  <2>1. PICK first : first = Take(core.recommendations, 5) OBVIOUS
  <2>2. recommendations = [i \in DOMAIN first |-> BuildRecommendation(first[i])]
    BY <1>13, <2>1 DEF BuildDeterministicResponse
  <2>3. ASSUME NEW i \in DOMAIN first
        PROVE  /\ BuildRecommendation(first[i]).reason \in PT
               /\ BuildRecommendation(first[i]).nextStep \in PT
    <3>1. PICK all : all = core.recommendations OBVIOUS
    <3>2. /\ all \in Seq(ToSet(all))
          /\ \A j \in DOMAIN all : all[j].matched \in Texts /\ all[j].missing \in Texts
      BY <3>1 DEF CoreOK
    <3>3. /\ first \in Seq(ToSet(all))
          /\ Len(first) \in Nat /\ Len(all) \in Nat /\ Len(first) <= Len(all)
          /\ \A j \in 1..Len(first) : first[j] = all[j]
      BY <2>1, <3>1, <3>2, TakeIs, LenProperties
    <3>4. i \in 1..Len(first) /\ i \in DOMAIN all BY <3>2, <3>3, LenProperties
    <3>5. first[i].matched \in Texts /\ first[i].missing \in Texts BY <3>2, <3>3, <3>4
    <3>6. With(first[i].matched, 3) \in PT /\ With(first[i].missing, 2) \in PT BY <3>5, WithIs
    <3> HIDE DEF PT
    <3> QED BY <3>6 DEF BuildRecommendation
  <2> HIDE DEF PT, response
  <2> QED BY <2>2, <2>3 DEF ToSet
<1>15. HasTexts(response)
  <2>1. PT \subseteq Texts BY PublicTexts
  <2> HIDE DEF PT, response
  <2> QED BY <1>9, <1>11, <1>12, <2>1 DEF HasTexts
<1>16. ASSUME NEW w \in CopyOf(response) PROVE ~About[w].private
  <2>1. \A t \in PT : \A v \in ToSet(t) : ~About[v].private BY PublicTexts
  <2>2. \/ \E t \in {response.summary, response.atsSummary, response.impression, response.actions} :
               w \in ToSet(t)
        \/ w \in ReviewWords(reviews)
        \/ \E rec \in ToSet(recommendations) : w \in ToSet(rec.reason) \cup ToSet(rec.nextStep)
    BY <1>11, <1>13 DEF CopyOf
  <2>3. CASE w \in ReviewWords(reviews)
    <3>1. PICK i \in DOMAIN reviews : w \in ToSet(reviews[i].analysis) \cup ToSet(reviews[i].points)
      BY <2>3 DEF ReviewWords
    <3>2. reviews[i].analysis \in PT /\ reviews[i].points \in PT BY <1>12 DEF ToSet
    <3> HIDE DEF PT
    <3> QED BY <2>1, <3>1, <3>2
  <2> HIDE DEF PT, response
  <2> QED BY <1>9, <1>14, <2>1, <2>2, <2>3
<1>17. response.ends = SentenceEnds(core) BY DEF BuildDeterministicResponse
<1> HIDE DEF response
<1> QED BY <1>15, <1>16, <1>17 DEF AssertPublicCvAnalysisSafety, response

\* Its ranking is the one of the Model API.
LEMMA DeterministicRanking ==
    ASSUME NEW core, CoreOK(core)
    PROVE  RankingOf(BuildDeterministicResponse(core).recommendations)
               = RankingOf(core.recommendations)
<1> DEFINE all == core.recommendations
           first == Take(all, 5)
           made == [i \in DOMAIN first |-> BuildRecommendation(first[i])]
           R == {BuildRecommendation(first[i]) : i \in DOMAIN first}
<1>1. all \in Seq(ToSet(all)) BY DEF CoreOK
<1>2. first \in Seq(ToSet(all)) /\ Len(first) = (IF Len(all) < 5 THEN Len(all) ELSE 5)
  BY <1>1, TakeIs
<1>3. Len(all) \in Nat BY <1>1, LenProperties
<1>4. Len(first) \in Nat /\ DOMAIN first = 1..Len(first) /\ Len(first) <= 5
  BY <1>2, <1>3, LenProperties
<1>5. BuildDeterministicResponse(core).recommendations = made BY DEF BuildDeterministicResponse
<1>6. made \in Seq(R) /\ Len(made) = Len(first) /\ DOMAIN made = DOMAIN first
  <2> HIDE DEF first
  <2>1. made = [i \in 1..Len(first) |-> BuildRecommendation(first[i])] BY <1>4
  <2>2. \A i \in 1..Len(first) : BuildRecommendation(first[i]) \in R BY <1>4
  <2> QED BY <1>4, <2>1, <2>2
<1>7. /\ Take(made, 5) \in Seq(R) /\ Len(Take(made, 5)) = Len(first)
      /\ \A i \in 1..Len(first) : Take(made, 5)[i] = made[i]
  <2> HIDE DEF made, R, first
  <2>1. /\ Take(made, 5) \in Seq(R)
        /\ Len(Take(made, 5)) = IF Len(made) < 5 THEN Len(made) ELSE 5
        /\ \A i \in 1..Len(Take(made, 5)) : Take(made, 5)[i] = made[i]
    BY <1>6, TakeIs
  <2> QED BY <1>4, <1>6, <2>1
<1>8. DOMAIN Take(made, 5) = DOMAIN first
  <2> HIDE DEF made, R, first
  <2> QED BY <1>4, <1>7, LenProperties
<1>9. \A i \in DOMAIN first : /\ Take(made, 5)[i].job = first[i].job
                              /\ Take(made, 5)[i].score = first[i].score
  <2>1. \A i \in DOMAIN first : Take(made, 5)[i] = BuildRecommendation(first[i])
    <3>1. \A i \in DOMAIN first : made[i] = BuildRecommendation(first[i]) OBVIOUS
    <3> HIDE DEF made, R, first
    <3> QED BY <1>4, <1>7, <3>1
  <2>2. \A x : BuildRecommendation(x).job = x.job /\ BuildRecommendation(x).score = x.score
    BY DEF BuildRecommendation
  <2> HIDE DEF made, R, first
  <2> QED BY <2>1, <2>2
<1> HIDE DEF made, R, first
<1>10. RankingOf(made) = [i \in DOMAIN first |-> <<first[i].job, first[i].score>>]
  BY <1>8, <1>9 DEF RankingOf
<1> QED BY <1>5, <1>10 DEF RankingOf, first

\* So it passes the validation that the wrapper's answer may not pass.
LEMMA DeterministicValid ==
    ASSUME NEW core, CoreOK(core), ~(Len(core.fit.matched) >= 3 /\ Len(core.fit.missing) >= 3),
           core.model = Trimmed(core.model),
           ~(\E w \in SentenceEnds(core) : About[w].abbreviated)
    PROVE  ValidatePublicResponse(BuildDeterministicResponse(core), core)
<1> DEFINE response == BuildDeterministicResponse(core)
<1>1. /\ response.wellFormed /\ response.fit = core.fit.score /\ response.ats = core.ats.score
      /\ response.model = core.model /\ response.at = core.at /\ response.size <= 800
  BY SizeFits DEF BuildDeterministicResponse
<1>2. HasTexts(response) /\ AssertPublicCvAnalysisSafety(response) BY DeterministicCopy
<1>3. RankingOf(response.recommendations) = RankingOf(core.recommendations)
  BY DeterministicRanking
<1> HIDE DEF response
<1>4. ResponseSchema(response) BY <1>1, <1>2 DEF ResponseSchema
<1>5. ValidatePublicResponse(response, core) BY <1>1, <1>2, <1>3, <1>4 DEF ValidatePublicResponse
<1> QED BY <1>5 DEF response

\* A finite set as a list.
LEMMA SetToSeqIs ==
    ASSUME NEW S, IsFiniteSet(S) PROVE SetToSeq(S) \in Seq(S)
<1> DEFINE n == Cardinality(S)
<1>1. n \in Nat /\ ExistsBijection(1..n, S) BY FS_CardinalityType
<1>2. PICK f \in [1..n -> S] : IsInjective(f)
  BY <1>1 DEF ExistsBijection, Bijection, Injection
<1>3. SetToSeq(S) \in [1..n -> S] BY <1>2 DEF SetToSeq
<1> HIDE DEF n
<1> QED BY <1>1, <1>3

\* What is in a file.
LEMMA FilesAreTexts ==
    ASSUME NEW file \in Files
    PROVE  LET c == Content[file] IN c.raw \in Texts /\ c.shown \in Texts /\ c.literals \in Texts
BY CvDocumentsAssumption

\* What extractMvpCvText leaves of a file are words of the file.
LEMMA MvpIs ==
    ASSUME NEW W, NEW file, file.raw \in Seq(W), file.shown \in Seq(W), file.literals \in Seq(W)
    PROVE  ExtractMvpCvText(file) \in Seq(W)
<1>1. ExtractReadablePdfText(file) \in Seq(W)
  BY ConcatProperties DEF ExtractReadablePdfText
<1>2. PICK text : text = IF file.pdf THEN ExtractReadablePdfText(file) ELSE file.raw OBVIOUS
<1>3. text \in Seq(W) BY <1>1, <1>2
<1>4. Keep(text, Clean) \in Seq(W \cap Clean) BY <1>3, KeepIs
<1>5. Keep(text, Clean) \in Seq(W) BY <1>4, SeqMonotonic
<1> QED BY <1>2, <1>5 DEF ExtractMvpCvText

\* There are finitely many candidates.
LEMMA CandidatesFinite ==
    ASSUME NEW input PROVE IsFiniteSet(FindCandidateJobs(input))
<1>1. FindCandidateJobs(input) \subseteq Jobs BY DEF FindCandidateJobs, CandidateWhere
<1> QED BY <1>1, CvDocumentsAssumption, FS_Subset

\* What the Model API answers is as its schema says.
LEMMA CoreAnswersOK ==
    ASSUME NEW q, q.input.file \in Files, IsFiniteSet(q.candidates), NEW core \in CoreAnswers(q)
    PROVE  CoreOK(core)
<1>1. PICK c, text, ranking :
          /\ c \in Cores
          /\ text = Take(ExtractMvpCvText(Content[q.input.file]), 1)
          /\ ranking = Ranking(c, q.candidates)
          /\ core = [fit |-> [score |-> 7, matched |-> c.matched, missing |-> c.missing],
                     ats |-> [score |-> 8, detected |-> c.detected],
                     evidence |-> text, recommendations |-> ranking,
                     model |-> c.model, at |-> c.at]
  BY DEF CoreAnswers
<1>2. /\ core.fit.matched = c.matched /\ core.fit.missing = c.missing
      /\ core.ats.detected = c.detected /\ core.evidence = text
      /\ core.recommendations = ranking
  BY <1>1
<1>3. c.matched \in Texts /\ c.missing \in Texts /\ c.detected \in Texts
  BY <1>1, CvDocumentsAssumption
<1>4. text \in Texts
  <2>1. ExtractMvpCvText(Content[q.input.file]) \in Texts BY FilesAreTexts, MvpIs DEF Texts
  <2> QED BY <1>1, <2>1, TakeIs DEF Texts
<1> DEFINE Entry(j) == [job |-> j, score |-> j, matched |-> c.matched, missing |-> c.missing]
           entries == {Entry(j) : j \in q.candidates \cup {SetToSeq(q.candidates)[1], 0}}
           ranked == SetToSeq(q.candidates)
<1>5. ranking \in Seq(entries)
  <2>1. ranked \in Seq(q.candidates) BY SetToSeqIs
  <2>2. Len(ranked) \in Nat /\ DOMAIN ranked = 1..Len(ranked)
        /\ \A i \in DOMAIN ranked : ranked[i] \in q.candidates
    BY <2>1, LenProperties, ElementOfSeq
  <2>3. [i \in DOMAIN ranked |-> Entry(ranked[i])] \in Seq(entries)
    <3>1. \A j \in q.candidates : Entry(j) \in entries OBVIOUS
    <3> HIDE DEF entries, ranked, Entry
    <3>2. [i \in 1..Len(ranked) |-> Entry(ranked[i])] \in [1..Len(ranked) -> entries]
      BY <2>2, <3>1
    <3> QED BY <2>2, <3>2
  <2>4. Entry(ranked[1]) \in entries /\ Entry(0) \in entries OBVIOUS
  <2>5. \/ ranking = <<>> \/ ranking = [i \in DOMAIN ranked |-> Entry(ranked[i])]
        \/ ranking = <<Entry(ranked[1]), Entry(ranked[1])>> \/ ranking = <<Entry(0)>>
    <3>1. c.ranking \in {"none", "all", "twice", "unknown"} BY <1>1, CvDocumentsAssumption
    <3> QED BY <1>1, <3>1 DEF Ranking
  <2>6. PICK x, y : x = Entry(ranked[1]) /\ y = Entry(0) OBVIOUS
  <2> HIDE DEF entries, ranked, Entry
  <2>7. <<>> \in Seq(entries) /\ <<x, x>> \in Seq(entries) /\ <<y>> \in Seq(entries)
    BY <2>4, <2>6
  <2> QED BY <2>3, <2>5, <2>6, <2>7
<1>6. ASSUME NEW i \in DOMAIN ranking
      PROVE  ranking[i].matched \in Texts /\ ranking[i].missing \in Texts
  <2>1. ranking[i] \in entries BY <1>5, ElementOfSeq, LenProperties
  <2> QED BY <1>3, <2>1
<1>7. ranking \in Seq(ToSet(ranking))
  <2> HIDE DEF entries
  <2> QED BY <1>5, SeqOfRange DEF Range, ToSet
<1> QED BY <1>2, <1>3, <1>4, <1>6, <1>7 DEF CoreOK

-----------------------------------------------------------------------------
(* What a file says, and what is read out of it.                           *)

\* Lists and texts keep to their words.
LEMMA KeepStays ==
    ASSUME NEW W, NEW list \in Seq(W), NEW S PROVE Keep(list, S) \in Seq(W)
<1>1. Keep(list, S) \in Seq(W \cap S) BY KeepIs
<1>2. W \cap S \subseteq W OBVIOUS
<1> QED BY <1>1, <1>2, SeqMonotonic

\* A list without repetitions, cut.
LEMMA ListIs ==
    ASSUME NEW W, NEW text \in Seq(W), NEW n \in Nat PROVE Take(UniqueList(text), n) \in Seq(W)
BY UniqueListIs, TakeIs

\* The first of two texts that can be used.
LEMMA UsableIs ==
    ASSUME NEW W, NEW text \in Seq(W), NEW other \in Seq(W)
    PROVE  FirstNonEmpty(text, other) \in Seq(W) /\ FirstUsable(text, other) \in Seq(W)
BY EmptySeq DEF FirstNonEmpty, FirstUsable

\* What splitting lines at commas yields.
LEMMA ParseSkillsIs ==
    ASSUME NEW F, F \subseteq DOMAIN About, NEW lines \in Seq(F),
           NEW kind \in {"skills", "sharedSkills"}
    PROVE  ParseSkills(lines, kind) \in Seq(Skilled(F))
<1> DEFINE S == Skilled(F)
           found == [i \in DOMAIN lines |-> About[lines[i]][kind]]
<1>1. \A i \in DOMAIN lines : lines[i] \in F BY ElementOfSeq, LenProperties
<1>2. ASSUME NEW i \in DOMAIN lines PROVE About[lines[i]][kind] \in Seq(S)
  <2>1. About[lines[i]][kind] \in Texts BY <1>1, AboutAssumption
  <2>2. ToSet(About[lines[i]][kind]) \subseteq S BY <1>1 DEF Skilled
  <2> HIDE DEF S
  <2> QED BY <2>1, <2>2, ListOf DEF Texts
<1>3. found \in Seq(Seq(S))
  <2>1. PICK g : g = found OBVIOUS
  <2>2. g = [i \in DOMAIN lines |-> g[i]] /\ \A i \in DOMAIN lines : g[i] \in Seq(S)
    BY <1>2, <2>1
  <2> HIDE DEF found, S
  <2>3. g \in Seq(Seq(S)) BY <2>2, MappedList
  <2> QED BY <2>1, <2>3
<1>4. FlattenSeq(found) \in Seq(S)
  <2> HIDE DEF found, S
  <2> QED BY <1>3, FlattenIs
<1> HIDE DEF S
<1>5. UniqueList(FlattenSeq(found)) \in Seq(S) BY <1>4, UniqueListIs
<1> QED BY <1>5 DEF ParseSkills, S

\* What a section is is in the table of words.
LEMMA Kinds2 ==
    ASSUME NEW F, F \subseteq DOMAIN About
    PROVE  /\ \A w \in F : About[w]["mvp"] \in Sections \cup {"none"}
           /\ \A w \in F : About[w]["shared"] \in Sections \cup {"none"}
BY AboutAssumption

\* The identity lines are lines.
LEMMA IdentityIs ==
    ASSUME NEW W, NEW lines \in Seq(W) PROVE IdentityLines(lines) \in Seq(W)
<1> DEFINE I == {i \in 1..Len(lines) : About[lines[i]].mvp # "none"}
           first == IF I # {} THEN Min(I) ELSE 0
<1>1. first \in Nat
  <2>1. ASSUME I # {} PROVE Min(I) \in I
    <3>1. I \subseteq Nat OBVIOUS
    <3> HIDE DEF I
    <3>2. PICK m \in I : \A k \in I : m <= k BY <2>1, <3>1, LeastOfNat
    <3> QED BY <3>2 DEF Min
  <2> QED BY <2>1
<1>2. IdentityLines(lines) = Take(lines, IF first > 0 THEN first - 1 ELSE 6)
  BY DEF IdentityLines, SelectInSeq
<1> HIDE DEF first
<1>3. (IF first > 0 THEN first - 1 ELSE 6) \in Nat BY <1>1
<1> QED BY <1>2, <1>3, TakeIs

\* A headline that is inferred is in the list.
LEMMA HeadlineIs ==
    ASSUME NEW W, ToSet(Inferred) \subseteq W, NEW text \in Texts
    PROVE  InferHeadline(text) \in Seq(W)
<1> DEFINE ranks == {About[text[i]].infers : i \in DOMAIN text} \cup {5}
<1>1. \A i \in DOMAIN text : text[i] \in DOMAIN About
  BY ElementOfSeq, LenProperties DEF Texts
<1>2. ranks \subseteq 1..5 /\ ranks # {}
  <2>1. \A w \in DOMAIN About : About[w].infers \in 1..5 BY AboutAssumption
  <2> QED BY <1>1, <2>1
<1>3. InferHeadline(text) = IF Min(ranks) = 5 THEN <<>> ELSE <<Inferred[Min(ranks)]>>
  BY DEF InferHeadline
<1> HIDE DEF ranks
<1>4. PICK m \in ranks : \A k \in ranks : m <= k
  <2>1. ranks \subseteq Nat BY <1>2
  <2> QED BY <1>2, <2>1, LeastOfNat
<1>5. Min(ranks) \in 1..5 BY <1>2, <1>4 DEF Min
<1>6. CASE Min(ranks) = 5 BY <1>3, <1>6, EmptySeq
<1>7. CASE Min(ranks) # 5
  <2>1. Min(ranks) \in 1..4 BY <1>5, <1>7
  <2>2. PICK r : r = Min(ranks) OBVIOUS
  <2>3. Inferred[r] \in W BY <2>1, <2>2, AboutAssumption DEF ToSet
  <2>4. InferHeadline(text) = <<Inferred[r]>> BY <1>3, <1>7, <2>2
  <2> QED BY <2>3, <2>4
<1> QED BY <1>6, <1>7

\* The string of no characters, and the text it is.
Absent == ""
\* A match becomes a text, none an empty one.
LEMMA AsTextIs == ASSUME NEW m PROVE AsText(m) = IF m = Absent THEN <<>> ELSE <<m>>
BY DEF AsText, Absent

\* What a regular expression finds is in a line.
LEMMA MatchIs ==
    ASSUME NEW F, NEW text \in Seq(F), NEW kind, NEW W,
           \A w \in F : About[w][kind] \in (W \cup {Absent})
    PROVE  AsText(FirstMatch(text, kind)) \in Seq(W)
<1> DEFINE S == {w \in ToSet(text) : About[w][kind] # Absent}
           found == Keep(text, S)
<1>1. found \in Seq(F \cap S) BY KeepIs
<1>2. FirstMatch(text, kind) = IF found = <<>> THEN Absent ELSE About[found[1]][kind]
  BY DEF FirstMatch, Absent
<1> HIDE DEF found, S
<1>3. CASE found = <<>> BY <1>2, <1>3, AsTextIs, EmptySeq
<1>4. CASE found # <<>>
  <2>1. Len(found) \in Nat /\ Len(found) # 0 BY <1>1, <1>4, LenProperties, EmptySeq
  <2>2. found[1] \in F BY <1>1, <2>1, ElementOfSeq
  <2>3. FirstMatch(text, kind) \in (W \cup {Absent}) BY <1>2, <1>4, <2>2
  <2>4. PICK m : m = FirstMatch(text, kind) OBVIOUS
  <2>5. m # Absent => m \in W BY <2>3, <2>4
  <2>6. m # Absent => <<m>> \in Seq(W) BY <2>5
  <2> QED BY <2>4, <2>6, AsTextIs, EmptySeq
<1> QED BY <1>3, <1>4

\* The private data of a CV is made of the words of its file.
PrivateFields == {"rawText", "fullName", "headline", "email", "phone", "location", "links",
                  "summary", "experience", "projects", "skills", "education",
                  "certifications", "languages"}

\* The private data of a CV are words of its file, of what it spreads to and
\* of the impression of its analysis.
LEMMA PrivateIs ==
    ASSUME NEW file \in Files, NEW W, Skilled(FileWords(file)) \subseteq W,
           Contacts(FileWords(file)) \subseteq W \cup {Absent}, ToSet(Inferred) \subseteq W,
           NEW impression \in Seq(W)
    PROVE  LET private == BuildPrivateCvData(Content[file], impression) IN
           \A field \in PrivateFields : private[field] \in Seq(W)
<1> DEFINE F == FileWords(file)
           c == Content[file]
           lines == ExtractMvpCvText(c)
           email == FirstMatch(lines, "email")
           phone == FirstMatch(lines, "phone")
           plain == {w \in ToSet(lines) : /\ ~Includes(w, email, "email")
                                          /\ ~Includes(w, phone, "phone")}
           First(S) == Take(Keep(IdentityLines(lines), S), 1)
           fullName == First({w \in plain : About[w].name})
           headline == FirstNonEmpty(First({w \in plain \ ToSet(fullName) : About[w].role}),
                                     InferHeadline(lines))
           section == SplitSections(lines, "mvp", "identity")
           List(name, n) == Take(UniqueList(section[name]), n)
           linked == [i \in DOMAIN lines |-> About[lines[i]].link]
           links == Take(UniqueList(Keep(linked, ToSet(linked) \ {Absent})), 4)
           private == BuildPrivateCvData(c, impression)
<1>1. F \subseteq DOMAIN About /\ F \subseteq W /\ Skilled(F) \subseteq W
  BY FilesAreTexts, TextWords DEF FileWords, Texts, Skilled
<1>2. c.raw \in Seq(F) /\ c.shown \in Seq(F) /\ c.literals \in Seq(F)
  <2>1. /\ ToSet(c.raw) \subseteq F /\ ToSet(c.shown) \subseteq F
        /\ ToSet(c.literals) \subseteq F
    BY DEF FileWords
  <2>2. c.raw \in Texts /\ c.shown \in Texts /\ c.literals \in Texts BY FilesAreTexts
  <2> HIDE DEF F, c
  <2> QED BY <2>1, <2>2, ListOf DEF Texts
<1> HIDE DEF c, F
<1>3. lines \in Seq(F) BY <1>2, MvpIs
<1>4. lines \in Seq(W) /\ lines \in Texts BY <1>1, <1>3, SeqMonotonic DEF Texts
<1> HIDE DEF lines
<1>5. \A S : First(S) \in Seq(W)
  <2> TAKE S
  <2>1. IdentityLines(lines) \in Seq(W) BY <1>4, IdentityIs
  <2>2. Keep(IdentityLines(lines), S) \in Seq(W) BY <2>1, KeepStays
  <2> QED BY <2>2, TakeIs
<1>6. headline \in Seq(W)
  <2>1. InferHeadline(lines) \in Seq(W) BY <1>4, HeadlineIs
  <2> HIDE DEF First, fullName
  <2> QED BY <1>5, <2>1, UsableIs
<1>7. AsText(email) \in Seq(W) /\ AsText(phone) \in Seq(W)
  <2>1. /\ \A w \in F : About[w]["email"] \in W \cup {Absent}
        /\ \A w \in F : About[w]["phone"] \in W \cup {Absent}
    BY DEF Contacts, F
  <2> QED BY <1>3, <2>1, MatchIs
<1>8. section \in [Sections -> Seq(F)]
  <2>1. "identity" \in Sections BY DEF Sections
  <2>2. \A w \in F : About[w]["mvp"] \in Sections \cup {"none"} BY <1>1, Kinds2
  <2> QED BY <1>3, <2>1, <2>2, SplitIs
<1>9. \A name \in Sections : section[name] \in Seq(W)
  BY <1>1, <1>8, SeqMonotonic
<1>10. \A name \in Sections, n \in Nat : List(name, n) \in Seq(W) BY <1>9, ListIs
<1>11. Take(ParseSkills(section["skills"], "skills"), 60) \in Seq(W)
  <2>1. section["skills"] \in Seq(F) BY <1>8 DEF Sections
  <2> HIDE DEF section
  <2>2. ParseSkills(section["skills"], "skills") \in Seq(W)
    BY <1>1, <2>1, ParseSkillsIs, SeqMonotonic
  <2> QED BY <2>2, TakeIs
<1>12. links \in Seq(W)
  <2>1. \A i \in DOMAIN lines : About[lines[i]].link \in W \cup {Absent}
    <3>1. \A i \in DOMAIN lines : lines[i] \in F BY <1>3, ElementOfSeq, LenProperties
    <3> QED BY <3>1 DEF Contacts, F
  <2>2. PICK g : g = linked OBVIOUS
  <2>3. g = [i \in DOMAIN lines |-> g[i]] /\ \A i \in DOMAIN lines : g[i] \in W \cup {Absent}
    BY <2>1, <2>2
  <2>4. g \in Seq(W \cup {Absent}) BY <1>3, <2>3, MappedList
  <2>5. Keep(g, ToSet(g) \ {Absent}) \in Seq(W)
    <3>1. PICK X, Y : X = W \cup {Absent} /\ Y = ToSet(g) \ {Absent} OBVIOUS
    <3>2. Keep(g, Y) \in Seq(X \cap Y) BY <2>4, <3>1, KeepIs
    <3>3. X \cap Y \subseteq W BY <3>1
    <3> QED BY <3>1, <3>2, <3>3, SeqMonotonic
  <2>6. Take(UniqueList(Keep(g, ToSet(g) \ {Absent})), 4) \in Seq(W) BY <2>5, ListIs
  <2> QED BY <2>2, <2>6
<1>13. FirstUsable(section["summary"], FirstUsable(impression, <<>>)) \in Seq(W)
  <2>1. section["summary"] \in Seq(W) BY <1>9 DEF Sections
  <2>2. FirstUsable(impression, <<>>) \in Seq(W) BY UsableIs, EmptySeq
  <2> HIDE DEF section
  <2> QED BY <2>1, <2>2, UsableIs
<1>14. private =
         [rawText |-> lines, fullName |-> fullName, headline |-> headline,
          email |-> AsText(email), phone |-> AsText(phone),
          location |-> First({w \in plain \ ToSet(fullName \o headline) : About[w].place}),
          links |-> links,
          summary |-> FirstUsable(section["summary"], FirstUsable(impression, <<>>)),
          experience |-> List("experience", 12), projects |-> List("projects", 10),
          skills |-> Take(ParseSkills(section["skills"], "skills"), 60),
          education |-> List("education", 8),
          certifications |-> List("certifications", 8),
          languages |-> List("languages", 8)]
  BY DEF BuildPrivateCvData, Absent, lines
<1>15. fullName \in Seq(W) BY <1>5
<1>16. \A S : First(S) \in Seq(W) BY <1>5
<1> HIDE DEF private, First, fullName, headline, email, phone, links, section, List, plain, linked
<1>17. /\ private.rawText \in Seq(W) /\ private.fullName \in Seq(W)
       /\ private.headline \in Seq(W) /\ private.email \in Seq(W)
       /\ private.phone \in Seq(W) /\ private.location \in Seq(W)
       /\ private.links \in Seq(W) /\ private.summary \in Seq(W)
  BY <1>4, <1>6, <1>7, <1>12, <1>13, <1>14, <1>15, <1>16
<1>18. /\ private.experience \in Seq(W) /\ private.projects \in Seq(W)
       /\ private.skills \in Seq(W) /\ private.education \in Seq(W)
       /\ private.certifications \in Seq(W) /\ private.languages \in Seq(W)
  BY <1>10, <1>11, <1>14 DEF Sections
<1> QED BY <1>17, <1>18 DEF PrivateFields, private, c

-----------------------------------------------------------------------------
(* Shared evidence.                                                        *)

\* The latest analysis is made of the words V.
ReviewIn(review, V) ==
    /\ DOMAIN review = {"section", "analysis", "points"}
    /\ review.analysis \in Seq(V) /\ review.points \in Seq(V)
EvidenceIn(latest, V) ==
    /\ latest.impression \in Seq(V) /\ latest.actions \in Seq(V)
    /\ latest.ats \in Seq(V) /\ latest.fit \in Seq(V)
    /\ latest.reviews \in Seq(ToSet(latest.reviews))
    /\ \A review \in ToSet(latest.reviews) : ReviewIn(review, V)

SharedFields == {"candidateSummary", "experience", "projects", "skills", "education",
                 "certifications", "languages", "gaps"}

\* Reviews made of given words say no others.
LEMMA ReviewsAre ==
    ASSUME NEW V, NEW R, NEW reviews \in Seq(R), \A review \in R : ReviewIn(review, V)
    PROVE  ReviewWords(reviews) \subseteq V
<1> SUFFICES ASSUME NEW i \in DOMAIN reviews
             PROVE  ToSet(reviews[i].analysis) \cup ToSet(reviews[i].points) \subseteq V
  BY DEF ReviewWords
<1>1. reviews[i] \in R BY ElementOfSeq, LenProperties
<1>2. PICK a, p : a = reviews[i].analysis /\ p = reviews[i].points OBVIOUS
<1>3. a \in Seq(V) /\ p \in Seq(V) BY <1>1, <1>2 DEF ReviewIn
<1>4. ToSet(a) \subseteq V /\ ToSet(p) \subseteq V BY <1>3, TextWords
<1> QED BY <1>2, <1>4

\* The reviews of the latest analysis.
LEMMA LatestReviewsAre ==
    ASSUME NEW V, NEW latest, EvidenceIn(latest, V)
    PROVE  \E R : /\ LatestSectionReviews(latest) \in Seq(R)
                  /\ \A review \in R : ReviewIn(review, V)
<1> DEFINE Cut(review) == [review EXCEPT !.points = Take(@, 4)]
           kept == Take(latest.reviews, 6)
           R == {Cut(review) : review \in ToSet(latest.reviews)}
<1>1. LatestSectionReviews(latest) = [i \in DOMAIN kept |-> Cut(kept[i])]
  BY DEF LatestSectionReviews
<1>2. kept \in Seq(ToSet(latest.reviews)) BY TakeIs DEF EvidenceIn
<1>3. ASSUME NEW review \in ToSet(latest.reviews) PROVE ReviewIn(Cut(review), V)
  <2>1. DOMAIN review = {"section", "analysis", "points"}
        /\ review.analysis \in Seq(V) /\ review.points \in Seq(V)
    BY DEF EvidenceIn, ReviewIn
  <2>2. Take(review.points, 4) \in Seq(V) BY <2>1, TakeIs
  <2> QED BY <2>1, <2>2 DEF ReviewIn
<1> HIDE DEF Cut, kept
<1>4. \A i \in DOMAIN kept : kept[i] \in ToSet(latest.reviews)
  BY <1>2, ElementOfSeq, LenProperties
<1>5. PICK g : g = [i \in DOMAIN kept |-> Cut(kept[i])] OBVIOUS
<1>6. g = [i \in DOMAIN kept |-> g[i]] /\ \A i \in DOMAIN kept : g[i] \in R
  BY <1>4, <1>5
<1>7. \A review \in R : ReviewIn(review, V) BY <1>3
<1> HIDE DEF R
<1>8. g \in Seq(R) BY <1>2, <1>6, MappedList
<1> QED BY <1>1, <1>5, <1>7, <1>8

\* And those made of the sections of the file.
LEMMA SectionEvidenceIs ==
    ASSUME NEW V, NEW section \in [Sections -> Seq(V)], NEW order \in Seq(Sections),
           NEW latest, EvidenceIn(latest, V)
    PROVE  ReviewWords(BuildSectionEvidence(section, order, latest)) \subseteq V
<1> DEFINE Made(name) == [section |-> name, analysis |-> Take(section[name], 3),
                          points |-> Take(UniqueList(section[name]), 6)]
           P == {Made(name) : name \in Sections}
           kept == Keep(order, {name \in Sections : section[name] # <<>>})
           parsed == FromParsed(section, kept)
           later == LatestSectionReviews(latest)
<1>1. PICK R : later \in Seq(R) /\ \A review \in R : ReviewIn(review, V)
  BY LatestReviewsAre
<1>2. kept \in Seq(Sections) BY KeepStays
<1>3. parsed = [i \in DOMAIN kept |-> Made(kept[i])] BY DEF FromParsed
<1>4. ASSUME NEW name \in Sections PROVE ReviewIn(Made(name), V)
  <2>1. section[name] \in Seq(V) OBVIOUS
  <2>2. Take(section[name], 3) \in Seq(V) /\ Take(UniqueList(section[name]), 6) \in Seq(V)
    BY <2>1, TakeIs, ListIs
  <2> QED BY <2>2 DEF ReviewIn
<1>5. BuildSectionEvidence(section, order, latest)
          = Take(DedupeSectionEvidence(Take(parsed, 8) \o later), 10)
  BY DEF BuildSectionEvidence
<1> HIDE DEF Made, kept, later
<1>6. parsed \in Seq(P)
  <2>1. \A i \in DOMAIN kept : kept[i] \in Sections BY <1>2, ElementOfSeq, LenProperties
  <2>2. PICK g : g = parsed OBVIOUS
  <2>3. g = [i \in DOMAIN kept |-> g[i]] /\ \A i \in DOMAIN kept : g[i] \in P
    BY <1>3, <2>1, <2>2
  <2> HIDE DEF P, parsed
  <2>4. g \in Seq(P) BY <1>2, <2>3, MappedList
  <2> QED BY <2>2, <2>4
<1>7. \A review \in P \cup R : ReviewIn(review, V) BY <1>1, <1>4
<1> HIDE DEF P, parsed
<1>8. Take(parsed, 8) \in Seq(P) BY <1>6, TakeIs
<1>9. PICK a, U : a = Take(parsed, 8) /\ U = P \cup R OBVIOUS
<1>10. a \in Seq(U) /\ later \in Seq(U) BY <1>1, <1>8, <1>9, SeqMonotonic
<1>11. a \o later \in Seq(U) BY <1>10, ConcatProperties
<1>12. DedupeSectionEvidence(a \o later) \in Seq(U) BY <1>11, DedupeIs
<1>13. Take(DedupeSectionEvidence(a \o later), 10) \in Seq(U) BY <1>12, TakeIs
<1>14. \A review \in U : ReviewIn(review, V) BY <1>7, <1>9
<1>15. ReviewWords(Take(DedupeSectionEvidence(a \o later), 10)) \subseteq V
  BY <1>13, <1>14, ReviewsAre
<1> QED BY <1>5, <1>9, <1>15

\* The shared evidence is made of the words of the file and of the analysis.
LEMMA SharedIs ==
    ASSUME NEW file \in Files, NEW V, Skilled(FileWords(file)) \subseteq V,
           NEW latest, EvidenceIn(latest, V)
    PROVE  LET shared == BuildBackendParsedSharedCvEvidence(Content[file], latest) IN
           /\ \A field \in SharedFields : shared[field] \in Seq(V)
           /\ SharedWords(shared) \subseteq V
<1> DEFINE F == FileWords(file)
           c == Content[file]
           lines == SharedLines(c)
           found == SplitSections(lines, "shared", "summary")
           section == SharedSections(c)
           order == SectionOrder(lines, "shared", "summary")
           reviews == BuildSectionEvidence(section, order, latest)
           List(name, n) == Take(UniqueList(section[name]), n)
           skills == Take(ParseSkills(section["skills"], "sharedSkills"), 30)
           gaps == BuildAtsAndActionables(latest)
           summary == FirstNonEmpty(Take(section["summary"], 3), latest.impression)
           shared == BuildBackendParsedSharedCvEvidence(c, latest)
<1>1. F \subseteq DOMAIN About /\ F \subseteq V
  BY FilesAreTexts, TextWords DEF FileWords, Texts, Skilled
<1>2. lines \in Seq(F)
  <2>1. c.raw \in Texts /\ ToSet(c.raw) \subseteq F BY FilesAreTexts DEF FileWords
  <2> HIDE DEF F, c
  <2>2. c.raw \in Seq(F) BY <2>1, ListOf DEF Texts
  <2>3. ExtractUsableCvText(c) \in Seq(F) BY <2>2, EmptySeq DEF ExtractUsableCvText
  <2> QED BY <2>3, KeepStays DEF SharedLines
<1>3. \A w \in F : About[w]["shared"] \in Sections \cup {"none"} BY <1>1, Kinds2
<1>4. "summary" \in Sections BY DEF Sections
<1>5. found \in [Sections -> Seq(F)] /\ order \in Seq(Sections)
  <2> HIDE DEF lines, F
  <2> QED BY <1>2, <1>3, <1>4, SplitIs, OrderIs
<1>6. section = [name \in Sections |-> Take(found[name], 16)] BY DEF SharedSections
<1>7. shared = [candidateSummary |-> summary,
                experience |-> List("experience", 8), projects |-> List("projects", 6),
                skills |-> skills, education |-> List("education", 5),
                certifications |-> List("certifications", 5),
                languages |-> List("languages", 5), gaps |-> gaps, sections |-> reviews,
                source |-> shared.source]
  BY DEF BuildBackendParsedSharedCvEvidence, BuildSharedCvEvidence, ParsedEvidence
<1> HIDE DEF found, order, lines, F, c
<1>8. section \in [Sections -> Seq(F)]
  <2>1. \A name \in Sections : Take(found[name], 16) \in Seq(F) BY <1>5, TakeIs
  <2> QED BY <1>6, <2>1
<1> HIDE DEF section
<1>9. section \in [Sections -> Seq(V)]
  <2>1. \A name \in Sections : section[name] \in Seq(V) BY <1>1, <1>8, SeqMonotonic
  <2> QED BY <1>8, <2>1
<1>10. ReviewWords(reviews) \subseteq V BY <1>5, <1>9, SectionEvidenceIs
<1>11. \A name \in Sections, n \in Nat : List(name, n) \in Seq(V) BY <1>9, ListIs
<1>12. skills \in Seq(V)
  <2>1. section["skills"] \in Seq(F) BY <1>8 DEF Sections
  <2>2. ParseSkills(section["skills"], "sharedSkills") \in Seq(Skilled(F))
    BY <1>1, <2>1, ParseSkillsIs
  <2>3. ParseSkills(section["skills"], "sharedSkills") \in Seq(V) BY <2>2, SeqMonotonic DEF F
  <2> QED BY <2>3, TakeIs
<1>13. gaps \in Seq(V)
  <2>1. latest.actions \o latest.ats \in Seq(V) BY ConcatProperties DEF EvidenceIn
  <2> QED BY <2>1, ListIs DEF BuildAtsAndActionables
<1>14. summary \in Seq(V)
  <2>1. Take(section["summary"], 3) \in Seq(V) BY <1>4, <1>9, TakeIs
  <2>2. latest.impression \in Seq(V) BY DEF EvidenceIn
  <2> QED BY <2>1, <2>2, UsableIs
<1> HIDE DEF shared, List, skills, gaps, reviews, summary
<1>15. {"experience", "projects", "education", "certifications", "languages"} \subseteq Sections
  BY DEF Sections
<1>16. /\ List("experience", 8) \in Seq(V) /\ List("projects", 6) \in Seq(V)
       /\ List("education", 5) \in Seq(V) /\ List("certifications", 5) \in Seq(V)
       /\ List("languages", 5) \in Seq(V)
  BY <1>11, <1>15
<1>17. /\ shared.candidateSummary = summary /\ shared.experience = List("experience", 8)
       /\ shared.projects = List("projects", 6) /\ shared.skills = skills
       /\ shared.education = List("education", 5)
       /\ shared.certifications = List("certifications", 5)
       /\ shared.languages = List("languages", 5) /\ shared.gaps = gaps
  BY <1>7
<1>18. /\ shared.candidateSummary \in Seq(V) /\ shared.experience \in Seq(V)
       /\ shared.projects \in Seq(V) /\ shared.skills \in Seq(V)
       /\ shared.education \in Seq(V) /\ shared.certifications \in Seq(V)
       /\ shared.languages \in Seq(V) /\ shared.gaps \in Seq(V)
  BY <1>12, <1>13, <1>14, <1>16, <1>17
<1>19. \A field \in SharedFields : shared[field] \in Seq(V) BY <1>18 DEF SharedFields
<1>20. SharedWords(shared) \subseteq V
  <2>1. DOMAIN shared \ {"sections", "source"} = SharedFields BY <1>7 DEF SharedFields
  <2>2. \A field \in SharedFields : ToSet(shared[field]) \subseteq V BY <1>19, TextWords
  <2>3. shared.sections = reviews BY <1>7
  <2> QED BY <1>10, <2>1, <2>2, <2>3 DEF SharedWords
<1> QED BY <1>19, <1>20 DEF shared, c

-----------------------------------------------------------------------------
(* Documents made of given words.                                          *)

ValueNames == {"name", "fullName", "title", "headline", "email", "phone", "address", "location",
               "links", "contact", "summary", "candidateSummary", "profile", "experience",
               "workExperience", "projects", "skills", "education", "certifications",
               "languages", "rawText", "ats", "actionables"}

ValuesIn(values, W) ==
    DOMAIN values = ValueNames /\ \A name \in ValueNames : values[name] \in Seq(W)

\* The values that fill a template.
LEMMA PlaceholderValuesAre ==
    ASSUME NEW W, NEW summary \in Seq(W), NEW shared, NEW private,
           \A field \in SharedFields : shared[field] \in Seq(W),
           \A field \in PrivateFields : private[field] \in Seq(W)
    PROVE  ValuesIn(BuildPlaceholderValues(summary, shared, private), W)
<1> DEFINE told == FirstUsable(private.summary, FirstUsable(summary,
                            FirstUsable(shared.candidateSummary, <<>>)))
           Both(field) == FirstNonEmpty(private[field], shared[field])
           contact == private.email \o private.phone \o private.location \o private.links
           values == BuildPlaceholderValues(summary, shared, private)
<1>1. /\ private.rawText \in Seq(W) /\ private.fullName \in Seq(W)
      /\ private.headline \in Seq(W) /\ private.email \in Seq(W)
      /\ private.phone \in Seq(W) /\ private.location \in Seq(W)
      /\ private.links \in Seq(W) /\ private.summary \in Seq(W)
      /\ shared.candidateSummary \in Seq(W) /\ shared.gaps \in Seq(W)
  BY DEF PrivateFields, SharedFields
<1>2. \A field \in {"experience", "projects", "skills", "education", "certifications",
                    "languages"} : Both(field) \in Seq(W)
  <2> SUFFICES ASSUME NEW field \in {"experience", "projects", "skills", "education",
                                     "certifications", "languages"}
               PROVE  Both(field) \in Seq(W)
    OBVIOUS
  <2>1. private[field] \in Seq(W) /\ shared[field] \in Seq(W) BY DEF PrivateFields, SharedFields
  <2> QED BY <2>1, UsableIs
<1>3. told \in Seq(W)
  <2>1. FirstUsable(shared.candidateSummary, <<>>) \in Seq(W) BY <1>1, UsableIs, EmptySeq
  <2>2. FirstUsable(summary, FirstUsable(shared.candidateSummary, <<>>)) \in Seq(W)
    BY <2>1, UsableIs
  <2> QED BY <1>1, <2>2, UsableIs
<1>4. contact \in Seq(W)
  <2>1. private.email \o private.phone \in Seq(W) BY <1>1, ConcatProperties
  <2>2. private.email \o private.phone \o private.location \in Seq(W)
    BY <1>1, <2>1, ConcatProperties
  <2> QED BY <1>1, <2>2, ConcatProperties
<1>5. values =
       [name |-> private.fullName, fullName |-> private.fullName,
        title |-> private.headline, headline |-> private.headline,
        email |-> private.email, phone |-> private.phone,
        address |-> private.location, location |-> private.location,
        links |-> private.links, contact |-> contact,
        summary |-> told, candidateSummary |-> told, profile |-> told,
        experience |-> Both("experience"), workExperience |-> Both("experience"),
        projects |-> Both("projects"), skills |-> Both("skills"),
        education |-> Both("education"), certifications |-> Both("certifications"),
        languages |-> Both("languages"), rawText |-> private.rawText,
        ats |-> shared.gaps, actionables |-> shared.gaps]
  BY DEF BuildPlaceholderValues
<1> HIDE DEF values, told, contact, Both
<1>6. DOMAIN values = ValueNames BY <1>5 DEF ValueNames
<1>7. /\ values.name \in Seq(W) /\ values.fullName \in Seq(W) /\ values.title \in Seq(W)
      /\ values.headline \in Seq(W) /\ values.email \in Seq(W) /\ values.phone \in Seq(W)
      /\ values.address \in Seq(W) /\ values.location \in Seq(W) /\ values.links \in Seq(W)
      /\ values.rawText \in Seq(W) /\ values.ats \in Seq(W) /\ values.actionables \in Seq(W)
  BY <1>1, <1>5
<1>8. /\ values.contact \in Seq(W) /\ values.summary \in Seq(W)
      /\ values.candidateSummary \in Seq(W) /\ values.profile \in Seq(W)
  BY <1>3, <1>4, <1>5
<1>9. /\ values.experience \in Seq(W) /\ values.workExperience \in Seq(W)
      /\ values.projects \in Seq(W) /\ values.skills \in Seq(W) /\ values.education \in Seq(W)
      /\ values.certifications \in Seq(W) /\ values.languages \in Seq(W)
  BY <1>2, <1>5
<1>10. \A name \in ValueNames : values[name] \in Seq(W) BY <1>7, <1>8, <1>9 DEF ValueNames
<1> QED BY <1>6, <1>10 DEF ValuesIn, values

NodeIn(node, W) == {"slots", "inner", "attr"} \subseteq DOMAIN node /\ node.slots \in Seq(Seq(W))
DocIn(doc, W) ==
    /\ DOMAIN doc = {"nodes", "tail", "fence"}
    /\ doc.nodes \in Seq(ToSet(doc.nodes))
    /\ \A i \in DOMAIN doc.nodes : NodeIn(doc.nodes[i], W)
    /\ \A s \in DOMAIN doc.tail : doc.tail[s] \in Seq(W)

\* A document with its nodes replaced, each by one made of the words W.
LEMMA NodesMade ==
    ASSUME NEW W, NEW doc, DocIn(doc, W), NEW made, made = [i \in DOMAIN doc.nodes |-> made[i]],
           \A i \in DOMAIN doc.nodes : NodeIn(made[i], W)
    PROVE  DocIn([doc EXCEPT !.nodes = made], W)
<1>1. doc.nodes \in Seq(ToSet(doc.nodes)) /\ DOMAIN doc = {"nodes", "tail", "fence"} BY DEF DocIn
<1> DEFINE R == {made[i] : i \in DOMAIN doc.nodes}
<1>2. \A i \in DOMAIN doc.nodes : made[i] \in R OBVIOUS
<1> HIDE DEF R
<1>3. made \in Seq(R) /\ DOMAIN made = DOMAIN doc.nodes BY <1>1, <1>2, MappedList
<1>4. made \in Seq(ToSet(made)) BY <1>3, SeqOfRange DEF Range, ToSet
<1>5. PICK new : new = [doc EXCEPT !.nodes = made] OBVIOUS
<1>6. DOMAIN new = {"nodes", "tail", "fence"} /\ new.nodes = made /\ new.tail = doc.tail
  BY <1>1, <1>5
<1>7. DocIn(new, W) BY <1>3, <1>4, <1>6 DEF DocIn
<1> QED BY <1>5, <1>7

\* And with all its texts replaced.
LEMMA TextsMade ==
    ASSUME NEW D, NEW W, NEW doc, DocIn(doc, D),
           NEW made, made = [i \in DOMAIN doc.nodes |-> made[i]],
           \A i \in DOMAIN doc.nodes : NodeIn(made[i], W),
           NEW tail, DOMAIN tail = DOMAIN doc.tail, \A s \in DOMAIN doc.tail : tail[s] \in Seq(W)
    PROVE  DocIn([[doc EXCEPT !.nodes = made] EXCEPT !.tail = tail], W)
<1>1. doc.nodes \in Seq(ToSet(doc.nodes)) /\ DOMAIN doc = {"nodes", "tail", "fence"} BY DEF DocIn
<1> DEFINE R == {made[i] : i \in DOMAIN doc.nodes}
<1>2. \A i \in DOMAIN doc.nodes : made[i] \in R OBVIOUS
<1> HIDE DEF R
<1>3. made \in Seq(R) /\ DOMAIN made = DOMAIN doc.nodes BY <1>1, <1>2, MappedList
<1>4. made \in Seq(ToSet(made)) BY <1>3, SeqOfRange DEF Range, ToSet
<1>5. PICK new : new = [[doc EXCEPT !.nodes = made] EXCEPT !.tail = tail] OBVIOUS
<1>6. DOMAIN new = {"nodes", "tail", "fence"} /\ new.nodes = made /\ new.tail = tail
  BY <1>1, <1>5
<1>7. DocIn(new, W) BY <1>3, <1>4, <1>6 DEF DocIn
<1> QED BY <1>5, <1>7

\* The words of a document are those of its texts.
LEMMA WordsAre ==
    ASSUME NEW doc
    PROVE  /\ \A w \in Words(doc) : \/ \E i \in DOMAIN doc.nodes : w \in ToSet(TextOf(doc.nodes[i]))
                                  \/ \E s \in DOMAIN doc.tail : w \in ToSet(doc.tail[s])
           /\ \A i \in DOMAIN doc.nodes : ToSet(TextOf(doc.nodes[i])) \subseteq Words(doc)
           /\ \A s \in DOMAIN doc.tail : ToSet(doc.tail[s]) \subseteq Words(doc)
BY DEF Words

\* What a document says is what its texts say.
LEMMA WordsOfDoc ==
    ASSUME NEW W, NEW doc, DocIn(doc, W) PROVE Words(doc) \subseteq W
<1>1. ASSUME NEW i \in DOMAIN doc.nodes PROVE ToSet(TextOf(doc.nodes[i])) \subseteq W
  <2>1. doc.nodes[i].slots \in Seq(Seq(W)) BY DEF DocIn, NodeIn
  <2>2. PICK text : text = TextOf(doc.nodes[i]) OBVIOUS
  <2>3. text \in Seq(W) BY <2>1, <2>2, FlattenIs DEF TextOf
  <2>4. ToSet(text) \subseteq W BY <2>3, TextWords
  <2> QED BY <2>2, <2>4
<1>2. \A s \in DOMAIN doc.tail : ToSet(doc.tail[s]) \subseteq W BY TextWords DEF DocIn
<1> QED BY <1>1, <1>2, WordsAre

\* And a document that says only given words is made of them.
LEMMA DocOfWords ==
    ASSUME NEW D, NEW doc, DocIn(doc, D), NEW W, Words(doc) \subseteq W PROVE DocIn(doc, W)
<1>1. ASSUME NEW i \in DOMAIN doc.nodes PROVE NodeIn(doc.nodes[i], W)
  <2>1. PICK slots : slots = doc.nodes[i].slots OBVIOUS
  <2>2. slots \in Seq(Seq(D)) /\ {"slots", "inner", "attr"} \subseteq DOMAIN doc.nodes[i]
    BY <2>1 DEF DocIn, NodeIn
  <2>3. ToSet(FlattenSeq(slots)) \subseteq W BY <2>1 DEF Words, TextOf
  <2>4. ASSUME NEW k \in DOMAIN slots PROVE slots[k] \in Seq(W)
    <3>1. PICK t : t = slots[k] OBVIOUS
    <3>2. t \in Seq(D) BY <2>2, <3>1, ElementOfSeq, LenProperties
    <3>3. ToSet(t) \subseteq ToSet(FlattenSeq(slots)) BY <2>2, <3>1, FlattenIs
    <3>4. t \in Seq(W) BY <2>3, <3>2, <3>3, ListOf
    <3> QED BY <3>1, <3>4
  <2>5. slots \in Seq(Seq(W))
    <3>1. /\ Len(slots) \in Nat /\ DOMAIN slots = 1..Len(slots)
          /\ slots = [k \in 1..Len(slots) |-> slots[k]]
      BY <2>2, LenProperties
    <3>2. slots \in [1..Len(slots) -> Seq(W)] BY <2>4, <3>1
    <3> QED BY <3>1, <3>2
  <2> QED BY <2>1, <2>2, <2>5 DEF NodeIn
<1>2. ASSUME NEW s \in DOMAIN doc.tail PROVE doc.tail[s] \in Seq(W)
  <2>1. PICK t : t = doc.tail[s] OBVIOUS
  <2>2. t \in Seq(D) BY <2>1 DEF DocIn
  <2>3. ToSet(t) \subseteq W BY <2>1, WordsAre
  <2> QED BY <2>1, <2>2, <2>3, ListOf
<1> QED BY <1>1, <1>2 DEF DocIn

\* A node with other texts.
LEMMA NodeTexts ==
    ASSUME NEW D, NEW W, NEW node, NodeIn(node, D),
           NEW slots, slots = [k \in DOMAIN node.slots |-> slots[k]],
           \A k \in DOMAIN node.slots : slots[k] \in Seq(W)
    PROVE  NodeIn([node EXCEPT !.slots = slots], W)
<1>1. node.slots \in Seq(Seq(D)) BY DEF NodeIn
<1>2. slots \in Seq(Seq(W)) BY <1>1, MappedList
<1> QED BY <1>2 DEF NodeIn

\* A node with one text.
LEMMA NodeWritten ==
    ASSUME NEW D, NEW W, NEW node, NodeIn(node, D), NEW value \in Seq(W), NEW x
    PROVE  /\ NodeIn([node EXCEPT !.slots = <<value>>], W)
           /\ NodeIn([node EXCEPT !.slots = <<value>>, !.inner = x], W)
<1>1. <<value>> \in Seq(Seq(W)) OBVIOUS
<1>2. PICK slots : slots = <<value>> OBVIOUS
<1> QED BY <1>1, <1>2 DEF NodeIn

\* A document with another tail.
LEMMA TailMade ==
    ASSUME NEW W, NEW doc, DocIn(doc, W), NEW tail, DOMAIN tail = DOMAIN doc.tail,
           \A s \in DOMAIN doc.tail : tail[s] \in Seq(W)
    PROVE  DocIn([doc EXCEPT !.tail = tail], W)
BY DEF DocIn

\* A template is made of words there are.
LEMMA IsDocumentIn == ASSUME NEW doc, IsDocument(doc) PROVE DocIn(doc, DOMAIN About)
BY DEF IsDocument, DocIn, NodeIn, Texts

\* What is normalised away leaves texts.
LEMMA NormalizedIn ==
    ASSUME NEW doc, IsDocument(doc)
    PROVE  DocIn(NormalizeHtmlTemplate(doc), DOMAIN About)
<1> DEFINE W == DOMAIN About
           Kept(text) == Keep(text, Harmless)
           left == Keep(doc.nodes, {n \in ToSet(doc.nodes) : ~Removed(n)})
           passive == [doc EXCEPT !.nodes = left]
           Clear(n) == [n EXCEPT !.slots = [k \in DOMAIN n.slots |-> Kept(n.slots[k])]]
           made == [i \in DOMAIN passive.nodes |-> Clear(passive.nodes[i])]
           tail == [s \in DOMAIN passive.tail |-> Kept(passive.tail[s])]
           clear == [[passive EXCEPT !.nodes = made] EXCEPT !.tail = tail]
           Bare(n) == [n EXCEPT !.attr = Kept(n.attr)]
           bare == [i \in DOMAIN clear.nodes |-> Bare(clear.nodes[i])]
<1>1. DocIn(doc, W) BY IsDocumentIn
<1>2. left \in Seq(ToSet(doc.nodes)) BY <1>1, KeepStays DEF DocIn
<1>3. \A i \in DOMAIN left : NodeIn(left[i], W)
  <2>1. \A i \in DOMAIN left : left[i] \in ToSet(doc.nodes) BY <1>2, ElementOfSeq, LenProperties
  <2>2. \A n \in ToSet(doc.nodes) : NodeIn(n, W) BY <1>1 DEF DocIn, ToSet
  <2> QED BY <2>1, <2>2
<1>4. NormalizeHtmlTemplate(doc) = [clear EXCEPT !.nodes = bare]
  BY DEF NormalizeHtmlTemplate, OnNodes, OnText
<1> HIDE DEF left, W
<1>5. DocIn(passive, W)
  <2>1. left \in Seq(ToSet(left)) BY <1>2, SeqOfRange DEF Range, ToSet
  <2>2. /\ DOMAIN passive = {"nodes", "tail", "fence"} /\ passive.nodes = left
        /\ passive.tail = doc.tail
    BY <1>1 DEF DocIn
  <2> QED BY <1>1, <1>3, <2>1, <2>2 DEF DocIn
<1>6. \A text \in Seq(W) : Kept(text) \in Seq(W) BY KeepStays
<1> HIDE DEF passive, Kept
<1>7. DocIn(clear, W)
  <2>1. ASSUME NEW i \in DOMAIN passive.nodes PROVE NodeIn(Clear(passive.nodes[i]), W)
    <3>1. PICK n : n = passive.nodes[i] OBVIOUS
    <3>2. NodeIn(n, W) BY <1>5, <3>1 DEF DocIn
    <3>3. \A k \in DOMAIN n.slots : Kept(n.slots[k]) \in Seq(W)
      BY <1>6, <3>2, ElementOfSeq, LenProperties DEF NodeIn
    <3>4. PICK slots : slots = [k \in DOMAIN n.slots |-> Kept(n.slots[k])] OBVIOUS
    <3>5. slots = [k \in DOMAIN n.slots |-> slots[k]] BY <3>4
    <3>6. NodeIn([n EXCEPT !.slots = slots], W) BY <3>2, <3>3, <3>4, <3>5, NodeTexts
    <3> QED BY <3>1, <3>4, <3>6
  <2>2. \A s \in DOMAIN passive.tail : Kept(passive.tail[s]) \in Seq(W) BY <1>5, <1>6 DEF DocIn
  <2>3. /\ DOMAIN tail = DOMAIN passive.tail
        /\ \A s \in DOMAIN passive.tail : tail[s] \in Seq(W)
    BY <2>2
  <2>4. /\ made = [i \in DOMAIN passive.nodes |-> made[i]]
        /\ \A i \in DOMAIN passive.nodes : NodeIn(made[i], W)
    BY <2>1
  <2> HIDE DEF made, tail
  <2> QED BY <1>5, <2>3, <2>4, TextsMade
<1> HIDE DEF clear
<1>8. DocIn([clear EXCEPT !.nodes = bare], W)
  <2>1. \A n : NodeIn(n, W) => NodeIn(Bare(n), W) BY DEF NodeIn
  <2>2. /\ bare = [i \in DOMAIN clear.nodes |-> bare[i]]
        /\ \A i \in DOMAIN clear.nodes : NodeIn(bare[i], W)
    BY <1>7, <2>1 DEF DocIn
  <2> HIDE DEF bare
  <2> QED BY <1>7, <2>2, NodesMade
<1> QED BY <1>4, <1>8 DEF W

\* Placeholders are filled with values or removed.
LEMMA FillTextIs ==
    ASSUME NEW W, NEW values, ValuesIn(values, W), NEW text \in Seq(W)
    PROVE  FillText(text, values) \in Seq(W)
<1> DEFINE found == [i \in DOMAIN text |->
                        LET slot == About[text[i]].slot
                        IN IF slot = "" THEN <<text[i]>> ELSE ReadKey(values, slot)]
<1>1. \A slot : ReadKey(values, slot) \in Seq(W)
  BY EmptySeq DEF ReadKey, ValuesIn
<1>2. \A i \in DOMAIN text : text[i] \in W BY ElementOfSeq, LenProperties
<1>3. \A w \in W : <<w>> \in Seq(W) OBVIOUS
<1>4. \A i \in DOMAIN text : found[i] \in Seq(W) BY <1>1, <1>2, <1>3
<1>5. PICK g : g = found OBVIOUS
<1>6. g = [i \in DOMAIN text |-> g[i]] BY <1>5
<1>7. g \in Seq(Seq(W))
  <2>1. \A i \in DOMAIN text : g[i] \in Seq(W) BY <1>4, <1>5
  <2> HIDE DEF found
  <2> QED BY <1>6, <2>1, MappedList
<1>8. FlattenSeq(g) \in Seq(W) BY <1>7, FlattenIs
<1> QED BY <1>5, <1>8 DEF FillText

\* In all texts and attributes.
LEMMA FilledIn ==
    ASSUME NEW W, NEW doc, DocIn(doc, W), NEW values, ValuesIn(values, W)
    PROVE  DocIn(FillPlaceholders(doc, values), W)
<1> DEFINE Told(text) == FillText(text, values)
           Clear(n) == [n EXCEPT !.slots = [k \in DOMAIN n.slots |-> Told(n.slots[k])]]
           made == [i \in DOMAIN doc.nodes |-> Clear(doc.nodes[i])]
           tail == [s \in DOMAIN doc.tail |-> Told(doc.tail[s])]
           clear == [[doc EXCEPT !.nodes = made] EXCEPT !.tail = tail]
           Bare(n) == [n EXCEPT !.attr = Told(n.attr)]
           bare == [i \in DOMAIN clear.nodes |-> Bare(clear.nodes[i])]
<1>1. FillPlaceholders(doc, values) = [clear EXCEPT !.nodes = bare]
  BY DEF FillPlaceholders, OnNodes, OnText
<1>2. \A text \in Seq(W) : Told(text) \in Seq(W) BY FillTextIs
<1> HIDE DEF Told
<1>3. DocIn(clear, W)
  <2>1. ASSUME NEW i \in DOMAIN doc.nodes PROVE NodeIn(Clear(doc.nodes[i]), W)
    <3>1. PICK n : n = doc.nodes[i] OBVIOUS
    <3>2. NodeIn(n, W) BY <3>1 DEF DocIn
    <3>3. \A k \in DOMAIN n.slots : Told(n.slots[k]) \in Seq(W)
      BY <1>2, <3>2, ElementOfSeq, LenProperties DEF NodeIn
    <3>4. PICK slots : slots = [k \in DOMAIN n.slots |-> Told(n.slots[k])] OBVIOUS
    <3>5. slots = [k \in DOMAIN n.slots |-> slots[k]] BY <3>4
    <3>6. NodeIn([n EXCEPT !.slots = slots], W) BY <3>2, <3>3, <3>4, <3>5, NodeTexts
    <3> QED BY <3>1, <3>4, <3>6
  <2>2. \A s \in DOMAIN doc.tail : Told(doc.tail[s]) \in Seq(W) BY <1>2 DEF DocIn
  <2>3. DOMAIN tail = DOMAIN doc.tail /\ \A s \in DOMAIN doc.tail : tail[s] \in Seq(W)
    BY <2>2
  <2>4. /\ made = [i \in DOMAIN doc.nodes |-> made[i]]
        /\ \A i \in DOMAIN doc.nodes : NodeIn(made[i], W)
    BY <2>1
  <2> HIDE DEF made, tail
  <2> QED BY <2>3, <2>4, TextsMade
<1> HIDE DEF clear
<1>4. DocIn([clear EXCEPT !.nodes = bare], W)
  <2>1. \A n : NodeIn(n, W) => NodeIn(Bare(n), W) BY DEF NodeIn
  <2>2. /\ bare = [i \in DOMAIN clear.nodes |-> bare[i]]
        /\ \A i \in DOMAIN clear.nodes : NodeIn(bare[i], W)
    BY <1>3, <2>1 DEF DocIn
  <2> HIDE DEF bare
  <2> QED BY <1>3, <2>2, NodesMade
<1> QED BY <1>1, <1>4

-----------------------------------------------------------------------------
(* The passes of the renderer.                                             *)

\* The passes of the renderer put words of W where they change a document.
LEMMA ByClassIn ==
    ASSUME NEW W, NEW doc, DocIn(doc, W), NEW signal, NEW value \in Seq(W)
    PROVE  /\ DocIn(ReplaceElementTextByClass(doc, signal, value), W)
           /\ DocIn(ReplaceEmptyElementByClass(doc, signal, value), W)
<1> DEFINE A(n) == IF value # <<>> /\ signal \in n.cls /\ Leaf(n) THEN Written(n, value) ELSE n
           B(n) == IF value # <<>> /\ signal \in n.cls /\ Leaf(n) /\ Blank(n.slots[1])
                   THEN Written(n, value) ELSE n
           a == [i \in DOMAIN doc.nodes |-> A(doc.nodes[i])]
           b == [i \in DOMAIN doc.nodes |-> B(doc.nodes[i])]
<1>1. ASSUME NEW n, NodeIn(n, W) PROVE NodeIn(A(n), W) /\ NodeIn(B(n), W)
  <2>1. NodeIn(Written(n, value), W) BY <1>1, NodeWritten DEF Written
  <2> QED BY <1>1, <2>1
<1>2. /\ ReplaceElementTextByClass(doc, signal, value) = [doc EXCEPT !.nodes = a]
      /\ ReplaceEmptyElementByClass(doc, signal, value) = [doc EXCEPT !.nodes = b]
  BY DEF ReplaceElementTextByClass, ReplaceEmptyElementByClass, OnNodes
<1> HIDE DEF A, B
<1>3. /\ a = [i \in DOMAIN doc.nodes |-> a[i]] /\ b = [i \in DOMAIN doc.nodes |-> b[i]]
      /\ \A i \in DOMAIN doc.nodes : NodeIn(a[i], W) /\ NodeIn(b[i], W)
  BY <1>1 DEF DocIn
<1> HIDE DEF a, b
<1>4. DocIn([doc EXCEPT !.nodes = a], W) BY <1>3, NodesMade
<1>5. DocIn([doc EXCEPT !.nodes = b], W) BY <1>3, NodesMade
<1> QED BY <1>2, <1>4, <1>5

\* Texts that take one value each.
LEMMA SlotsIn ==
    ASSUME NEW W, NEW doc, DocIn(doc, W), NEW signal, NEW parts \in Seq(Seq(W))
    PROVE  DocIn(ReplaceElementTextSlots(doc, signal, parts), W)
<1> DEFINE used(n) == {k \in DOMAIN n.slots : n.slots[k] # <<>>}
           Rank(n, k) == Cardinality({j \in used(n) : j <= k})
           Value(n, k) == IF Rank(n, k) > Len(parts) THEN <<>>
                          ELSE IF k = Max(used(n))
                               THEN FlattenSeq(SubSeq(parts, Rank(n, k), Len(parts)))
                               ELSE parts[Rank(n, k)]
           New(n) == [k \in DOMAIN n.slots |-> IF k \in used(n) THEN Value(n, k) ELSE <<>>]
           Change(n) == IF signal \notin n.cls \/ (parts = <<>> /\ ~Demo(TextOf(n))) THEN n
                        ELSE [n EXCEPT !.slots = New(n)]
           made == [i \in DOMAIN doc.nodes |-> Change(doc.nodes[i])]
<1>1. ReplaceElementTextSlots(doc, signal, parts) = [doc EXCEPT !.nodes = made]
  BY DEF ReplaceElementTextSlots, OnNodes
<1>2. Len(parts) \in Nat /\ DOMAIN parts = 1..Len(parts)
      /\ \A k \in 1..Len(parts) : parts[k] \in Seq(W)
  BY LenProperties, ElementOfSeq
<1>3. ASSUME NEW n, NodeIn(n, W), NEW k \in used(n) PROVE Value(n, k) \in Seq(W)
  <2>1. PICK r : r = Rank(n, k) OBVIOUS
  <2>2. r \in Nat /\ r # 0
    <3>1. n.slots \in Seq(Seq(W)) BY <1>3 DEF NodeIn
    <3>2. Len(n.slots) \in Nat /\ DOMAIN n.slots = 1..Len(n.slots) BY <3>1, LenProperties
    <3>3. IsFiniteSet(1..Len(n.slots)) BY <3>2, FS_Interval
    <3>4. PICK S : S = {j \in used(n) : j <= k} OBVIOUS
    <3>5. S \subseteq 1..Len(n.slots) /\ k \in S BY <1>3, <3>2, <3>4
    <3>6. IsFiniteSet(S) BY <3>3, <3>5, FS_Subset
    <3>7. Cardinality(S) \in Nat /\ Cardinality(S) # 0
      BY <3>5, <3>6, FS_CardinalityType, FS_EmptySet
    <3> QED BY <2>1, <3>4, <3>7
  <2>3. CASE r > Len(parts)
    <3>1. Value(n, k) = <<>> BY <2>1, <2>3
    <3> QED BY <3>1, EmptySeq
  <2>4. CASE ~(r > Len(parts))
    <3>1. r \in 1..Len(parts) /\ r \in 1..(Len(parts) + 1) /\ Len(parts) \in 0..Len(parts)
      BY <1>2, <2>2, <2>4
    <3>2. parts[r] \in Seq(W) BY <1>2, <3>1
    <3>3. PICK m : m = Len(parts) OBVIOUS
    <3>4. SubSeq(parts, r, m) \in Seq(Seq(W))
      <4>1. ASSUME NEW s \in Seq(Seq(W)), NEW x \in 1..(Len(s) + 1), NEW y \in 0..Len(s)
            PROVE  SubSeq(s, x, y) \in Seq(Seq(W))
        BY <4>1, SubSeqProperties, LenProperties
      <4> QED BY <3>1, <3>3, <4>1
    <3>5. FlattenSeq(SubSeq(parts, r, m)) \in Seq(W) BY <3>4, FlattenIs
    <3>6. Value(n, k) = IF k = Max(used(n)) THEN FlattenSeq(SubSeq(parts, r, m)) ELSE parts[r]
      BY <2>1, <2>4, <3>3
    <3> HIDE DEF Value
    <3> QED BY <3>2, <3>5, <3>6
  <2> QED BY <2>3, <2>4
<1> HIDE DEF Value
<1>4. ASSUME NEW n, NodeIn(n, W) PROVE NodeIn(Change(n), W)
  <2>1. PICK slots : slots = New(n) OBVIOUS
  <2>2. slots = [k \in DOMAIN n.slots |-> slots[k]] BY <2>1
  <2>3. \A k \in DOMAIN n.slots : slots[k] \in Seq(W) BY <1>3, <1>4, <2>1, EmptySeq
  <2>4. NodeIn([n EXCEPT !.slots = slots], W) BY <1>4, <2>2, <2>3, NodeTexts
  <2> HIDE DEF New
  <2> QED BY <1>4, <2>1, <2>4
<1> HIDE DEF Change
<1>5. /\ made = [i \in DOMAIN doc.nodes |-> made[i]]
      /\ \A i \in DOMAIN doc.nodes : NodeIn(made[i], W)
  BY <1>4 DEF DocIn
<1> HIDE DEF made
<1>6. DocIn([doc EXCEPT !.nodes = made], W) BY <1>5, NodesMade
<1> QED BY <1>1, <1>6

\* The contact data, part by part.
LEMMA ContactIn ==
    ASSUME NEW W, NEW doc, DocIn(doc, W), NEW values, ValuesIn(values, W)
    PROVE  DocIn(ReplaceContactInfo(doc, values), W)
<1>1. PICK parts : parts = <<values.location, values.email, values.phone, values.links>> OBVIOUS
<1>2. /\ values.location \in Seq(W) /\ values.email \in Seq(W)
      /\ values.phone \in Seq(W) /\ values.links \in Seq(W)
  BY DEF ValuesIn, ValueNames
<1>3. parts \in Seq(Seq(W)) BY <1>1, <1>2
<1>4. Keep(parts, ToSet(parts) \ {<<>>}) \in Seq(Seq(W)) BY <1>3, KeepStays
<1> QED BY <1>1, <1>4, SlotsIn DEF ReplaceContactInfo

\* Clearing a text leaves fewer words.
LEMMA ClearedIn ==
    ASSUME NEW W, NEW doc, DocIn(doc, W), NEW values
    PROVE  /\ DocIn(ClearMutableDemoLeafText(doc, values), W)
           /\ DocIn(ClearKnownDemoIdentityText(doc, values), W)
           /\ DocIn(ClearKnownTemplateGarbageText(doc), W)
<1> DEFINE kept == ValueTokens(values)
           A(n) == IF /\ Leaf(n) /\ n.tag \notin RawTags /\ n.slots[1] # <<>>
                      /\ ~IsStatic(n.slots[1]) /\ TokenSet(n.slots[1]) \cap kept = {}
                   THEN [n EXCEPT !.slots = << <<>> >>] ELSE n
           B(n) == IF /\ Leaf(n) /\ n.tag \notin RawTags /\ Demo(n.slots[1])
                      /\ TokenSet(n.slots[1]) \cap kept = {}
                   THEN [n EXCEPT !.slots = << <<>> >>] ELSE n
           C(text) == IF \E i \in DOMAIN text : About[text[i]].garbage THEN <<>> ELSE text
           D(n) == [n EXCEPT !.slots = [k \in DOMAIN n.slots |-> C(n.slots[k])]]
           a == [i \in DOMAIN doc.nodes |-> A(doc.nodes[i])]
           b == [i \in DOMAIN doc.nodes |-> B(doc.nodes[i])]
           d == [i \in DOMAIN doc.nodes |-> D(doc.nodes[i])]
           tail == [s \in DOMAIN doc.tail |-> C(doc.tail[s])]
<1>1. ASSUME NEW n, NodeIn(n, W) PROVE NodeIn(A(n), W) /\ NodeIn(B(n), W)
  <2>1. <<>> \in Seq(W) BY EmptySeq
  <2>2. NodeIn([n EXCEPT !.slots = << <<>> >>], W) BY <1>1, <2>1, NodeWritten
  <2> QED BY <1>1, <2>2
<1>2. /\ ClearMutableDemoLeafText(doc, values) = [doc EXCEPT !.nodes = a]
      /\ ClearKnownDemoIdentityText(doc, values) = [doc EXCEPT !.nodes = b]
      /\ ClearKnownTemplateGarbageText(doc) = [[doc EXCEPT !.nodes = d] EXCEPT !.tail = tail]
  BY DEF ClearMutableDemoLeafText, ClearKnownDemoIdentityText, ClearKnownTemplateGarbageText,
         OnNodes, OnText
<1>3. \A text \in Seq(W) : C(text) \in Seq(W) BY EmptySeq
<1> HIDE DEF A, B, C
<1>4. ASSUME NEW n, NodeIn(n, W) PROVE NodeIn(D(n), W)
  <2>1. \A k \in DOMAIN n.slots : C(n.slots[k]) \in Seq(W)
    BY <1>3, <1>4, ElementOfSeq, LenProperties DEF NodeIn
  <2>2. PICK slots : slots = [k \in DOMAIN n.slots |-> C(n.slots[k])] OBVIOUS
  <2>3. slots = [k \in DOMAIN n.slots |-> slots[k]] BY <2>2
  <2>4. NodeIn([n EXCEPT !.slots = slots], W) BY <1>4, <2>1, <2>2, <2>3, NodeTexts
  <2> QED BY <2>2, <2>4
<1> HIDE DEF D
<1>5. /\ a = [i \in DOMAIN doc.nodes |-> a[i]] /\ b = [i \in DOMAIN doc.nodes |-> b[i]]
      /\ d = [i \in DOMAIN doc.nodes |-> d[i]]
      /\ \A i \in DOMAIN doc.nodes : NodeIn(a[i], W) /\ NodeIn(b[i], W) /\ NodeIn(d[i], W)
  BY <1>1, <1>4 DEF DocIn
<1>6. DOMAIN tail = DOMAIN doc.tail /\ \A s \in DOMAIN doc.tail : tail[s] \in Seq(W)
  BY <1>3 DEF DocIn
<1> HIDE DEF a, b, d, tail
<1>7. DocIn([doc EXCEPT !.nodes = a], W) BY <1>5, NodesMade
<1>8. DocIn([doc EXCEPT !.nodes = b], W) BY <1>5, NodesMade
<1>9. DocIn([[doc EXCEPT !.nodes = d] EXCEPT !.tail = tail], W) BY <1>5, <1>6, TextsMade
<1> QED BY <1>2, <1>7, <1>8, <1>9

\* Items fill a list.
LEMMA ItemsIn ==
    ASSUME NEW W, NEW doc, DocIn(doc, W), NEW title, NEW items \in Seq(Seq(W))
    PROVE  DocIn(PopulateSectionListItems(doc, title, items), W)
<1> DEFINE Open(i) == LET n == doc.nodes[i] IN
                /\ n.sec \in TitledSections(doc, title) /\ n.tag = "li"
                /\ n.attr = <<>> /\ n.cls = {} /\ (Blank(TextOf(n)) \/ Demo(TextOf(n)))
           Index(i) == Cardinality({j \in 1..i : doc.nodes[j].sec = doc.nodes[i].sec /\ Open(j)})
           Item(i) == IF Index(i) <= Len(items) THEN items[Index(i)] ELSE <<>>
           Change(i) == IF Open(i) THEN [doc.nodes[i] EXCEPT !.slots = <<Item(i)>>, !.inner = 0]
                        ELSE doc.nodes[i]
           made == [i \in DOMAIN doc.nodes |-> Change(i)]
<1>1. PopulateSectionListItems(doc, title, items)
          = IF items = <<>> THEN doc ELSE [doc EXCEPT !.nodes = made]
  BY DEF PopulateSectionListItems
<1>2. ASSUME NEW i \in DOMAIN doc.nodes, Open(i) PROVE Item(i) \in Seq(W)
  <2>1. i \in Nat /\ i # 0
    <3>1. doc.nodes \in Seq(ToSet(doc.nodes)) BY DEF DocIn
    <3>2. DOMAIN doc.nodes = 1..Len(doc.nodes) /\ Len(doc.nodes) \in Nat BY <3>1, LenProperties
    <3> QED BY <3>2
  <2>2. PICK S : S = {j \in 1..i : doc.nodes[j].sec = doc.nodes[i].sec /\ Open(j)} OBVIOUS
  <2>3. S \subseteq 1..i /\ i \in S BY <1>2, <2>1, <2>2
  <2>4. IsFiniteSet(1..i) BY <2>1, FS_Interval
  <2>5. IsFiniteSet(S) BY <2>3, <2>4, FS_Subset
  <2>6. PICK x : x = Cardinality(S) OBVIOUS
  <2>7. x \in Nat /\ x # 0 BY <2>3, <2>5, <2>6, FS_CardinalityType, FS_EmptySet
  <2>8. Item(i) = IF x <= Len(items) THEN items[x] ELSE <<>> BY <2>2, <2>6
  <2> HIDE DEF Item
  <2>9. CASE x <= Len(items)
    <3>1. x \in 1..Len(items) BY <2>7, <2>9, LenProperties
    <3> QED BY <2>8, <2>9, <3>1, ElementOfSeq
  <2>10. CASE ~(x <= Len(items)) BY <2>8, <2>10, EmptySeq
  <2> QED BY <2>9, <2>10
<1> HIDE DEF Open, Item
<1>3. ASSUME NEW i \in DOMAIN doc.nodes PROVE NodeIn(Change(i), W)
  <2>1. PICK n : n = doc.nodes[i] OBVIOUS
  <2>2. NodeIn(n, W) BY <2>1 DEF DocIn
  <2>3. CASE Open(i)
    <3>1. PICK item : item = Item(i) OBVIOUS
    <3>2. item \in Seq(W) BY <1>2, <2>3, <3>1
    <3>3. NodeIn([n EXCEPT !.slots = <<item>>, !.inner = 0], W) BY <2>2, <3>2, NodeWritten
    <3> QED BY <2>1, <2>3, <3>1, <3>3
  <2>4. CASE ~Open(i) BY <2>1, <2>2, <2>4
  <2> QED BY <2>3, <2>4
<1> HIDE DEF Change
<1>4. /\ made = [i \in DOMAIN doc.nodes |-> made[i]]
      /\ \A i \in DOMAIN doc.nodes : NodeIn(made[i], W)
  BY <1>3
<1> HIDE DEF made
<1>5. DocIn([doc EXCEPT !.nodes = made], W) BY <1>4, NodesMade
<1> QED BY <1>1, <1>5

\* Values are appended to a section.
LEMMA SparseIn ==
    ASSUME NEW W, NEW doc, DocIn(doc, W), NEW title, NEW value \in Seq(W)
    PROVE  DocIn(AppendToSparseSection(doc, title, value), W)
<1> DEFINE HasEvidence(s) == ToSet(Take(Tokens(value), 4)) \cap SectionTokens(doc, s) # {}
           sparse == {s \in TitledSections(doc, title) : ~HasEvidence(s)}
           tail == [s \in DOMAIN doc.tail |->
                       IF s \in sparse THEN doc.tail[s] \o value ELSE doc.tail[s]]
<1>1. AppendToSparseSection(doc, title, value) = [doc EXCEPT !.tail = tail]
  BY DEF AppendToSparseSection
<1> HIDE DEF sparse
<1>2. \A s \in DOMAIN doc.tail : doc.tail[s] \in Seq(W) /\ doc.tail[s] \o value \in Seq(W)
  BY ConcatProperties DEF DocIn
<1>3. DOMAIN tail = DOMAIN doc.tail /\ \A s \in DOMAIN doc.tail : tail[s] \in Seq(W)
  BY <1>2
<1> HIDE DEF tail
<1> QED BY <1>1, <1>3, TailMade

\* The passes the renderer makes in turn.
Pass(which, doc, signal, value) ==
    CASE which = "class" -> ReplaceElementTextByClass(doc, signal, value)
      [] which = "empty" -> ReplaceEmptyElementByClass(doc, signal, value)
      [] which = "items" -> PopulateSectionListItems(doc, signal, value)
      [] which = "sparse" -> AppendToSparseSection(doc, signal, value)

Turns(f, which, doc, passes, n) ==
    f = [k \in 0..n |-> IF k = 0 THEN doc
                        ELSE Pass(which, f[k - 1], passes[k][1], passes[k][2])]

\* Passes in turn, one by one.
LEMMA TurnsDefined ==
    ASSUME NEW which, NEW doc, NEW passes, NEW n \in Nat
    PROVE  \E f : Turns(f, which, doc, passes, n)
<1> DEFINE N == {m \in Nat : \E f : Turns(f, which, doc, passes, m)}
           Step(f, k) == Pass(which, f[k - 1], passes[k][1], passes[k][2])
<1>1. \A f, m : Turns(f, which, doc, passes, m)
                    <=> f = [k \in 0..m |-> IF k = 0 THEN doc ELSE Step(f, k)]
  BY DEF Turns
<1>2. 0 \in N
  <2>1. PICK f : f = [k \in 0..0 |-> doc] OBVIOUS
  <2>2. f = [k \in 0..0 |-> IF k = 0 THEN doc ELSE Step(f, k)] BY <2>1
  <2>3. Turns(f, which, doc, passes, 0) BY <1>1, <2>2
  <2> QED BY <2>3
<1>3. ASSUME NEW m \in Nat, m \in N PROVE m + 1 \in N
  <2>1. PICK f : Turns(f, which, doc, passes, m) BY <1>3
  <2>2. PICK more : more = [k \in 0..(m + 1) |-> IF k <= m THEN f[k] ELSE Step(f, m + 1)] OBVIOUS
  <2>3. \A k \in 0..m : more[k] = f[k] BY <2>2
  <2>4. f = [k \in 0..m |-> IF k = 0 THEN doc ELSE Step(f, k)] BY <1>1, <2>1
  <2>5. ASSUME NEW k \in 0..(m + 1) PROVE more[k] = IF k = 0 THEN doc ELSE Step(more, k)
    <3>1. CASE k = 0 BY <2>2, <2>4, <3>1
    <3>2. CASE k \in 1..m
      <4>1. k \in 0..m /\ k - 1 \in 0..m /\ k # 0 BY <3>2
      <4>2. f[k] = Step(f, k)
        <5> HIDE DEF Step
        <5> QED BY <2>4, <4>1
      <4> QED BY <2>3, <4>1, <4>2
    <3>3. CASE k = m + 1
      <4>1. k - 1 \in 0..m /\ k # 0 /\ ~(k <= m) BY <3>3
      <4>2. more[k] = Step(f, k) /\ more[k - 1] = f[k - 1] BY <2>2, <2>3, <3>3, <4>1
      <4> QED BY <4>1, <4>2
    <3> QED BY <3>1, <3>2, <3>3
  <2>6. more = [k \in 0..(m + 1) |-> IF k = 0 THEN doc ELSE Step(more, k)]
    <3> HIDE DEF Step
    <3> QED BY <2>2, <2>5
  <2>7. Turns(more, which, doc, passes, m + 1) BY <1>1, <2>6
  <2> QED BY <2>7
<1> HIDE DEF N
<1>4. n \in N BY <1>2, <1>3, NatSteps
<1> QED BY <1>4 DEF N

\* Each keeps the document made of W, so all of them do.
LEMMA PassIn ==
    ASSUME NEW W, NEW which, NEW doc, DocIn(doc, W), NEW signal, NEW value,
           \/ which \in {"class", "empty", "sparse"} /\ value \in Seq(W)
           \/ which = "items" /\ value \in Seq(Seq(W))
    PROVE  DocIn(Pass(which, doc, signal, value), W)
<1>1. CASE which = "class" BY <1>1, ByClassIn DEF Pass
<1>2. CASE which = "empty" BY <1>2, ByClassIn DEF Pass
<1>3. CASE which = "sparse" BY <1>3, SparseIn DEF Pass
<1>4. CASE which = "items" BY <1>4, ItemsIn DEF Pass
<1> QED BY <1>1, <1>2, <1>3, <1>4

\* By induction over the passes.
LEMMA TurnsIn ==
    ASSUME NEW W, NEW which, NEW doc, DocIn(doc, W), NEW passes, NEW n \in Nat,
           NEW f, Turns(f, which, doc, passes, n),
           \A k \in 1..n : \/ which \in {"class", "empty", "sparse"} /\ passes[k][2] \in Seq(W)
                           \/ which = "items" /\ passes[k][2] \in Seq(Seq(W))
    PROVE  DocIn(f[n], W)
<1> DEFINE N == {k \in 0..n : DocIn(f[k], W)}
<1>1. f[0] = doc BY DEF Turns
<1>2. 0 \in N BY <1>1
<1>3. ASSUME NEW k \in 1..n, k - 1 \in N PROVE k \in N
  <2>1. DocIn(f[k - 1], W) /\ k \in 0..n /\ k # 0 BY <1>3
  <2>2. f[k] = Pass(which, f[k - 1], passes[k][1], passes[k][2]) BY <2>1 DEF Turns
  <2>3. PICK p, signal, value : p = f[k - 1] /\ signal = passes[k][1] /\ value = passes[k][2]
    OBVIOUS
  <2>4. DocIn(Pass(which, p, signal, value), W) BY <2>1, <2>3, PassIn
  <2> QED BY <2>1, <2>2, <2>3, <2>4
<1> HIDE DEF N
<1>4. 0..n \subseteq N BY <1>2, <1>3, UpTo
<1>5. n \in N BY <1>4
<1> QED BY <1>5 DEF N

\* What a kind of pass makes of a document, once for each of the passes.
Made(which, doc, passes, n, result) ==
    \E f : Turns(f, which, doc, passes, n) /\ result = f[n]

\* What InTurn makes of each kind of pass is made turn by turn.
LEMMA InTurnIs ==
    ASSUME NEW doc, NEW passes, NEW n \in Nat, n = Len(passes)
    PROVE  /\ Made("class", doc, passes, n, InTurn(ReplaceElementTextByClass, doc, passes))
           /\ Made("empty", doc, passes, n, InTurn(ReplaceEmptyElementByClass, doc, passes))
           /\ Made("sparse", doc, passes, n, InTurn(AppendToSparseSection, doc, passes))
           /\ Made("items", doc, passes, n, InTurn(PopulateSectionListItems, doc, passes))
<1>1. Made("class", doc, passes, n, InTurn(ReplaceElementTextByClass, doc, passes))
  <2> DEFINE Is(f) == f = [k \in 0..n |-> IF k = 0 THEN doc
                             ELSE ReplaceElementTextByClass(f[k - 1], passes[k][1], passes[k][2])]
  <2>1. \A f : Turns(f, "class", doc, passes, n) <=> Is(f) BY DEF Turns, Pass
  <2>2. \E f : Is(f) BY <2>1, TurnsDefined
  <2>3. PICK f : f = CHOOSE x : Is(x) OBVIOUS
  <2>4. InTurn(ReplaceElementTextByClass, doc, passes) = f[n] BY <2>3 DEF InTurn
  <2>5. Is(f)
    <3> HIDE DEF Is
    <3> QED BY <2>2, <2>3
  <2>6. Turns(f, "class", doc, passes, n) BY <2>1, <2>5
  <2> QED BY <2>4, <2>6 DEF Made
<1>2. Made("empty", doc, passes, n, InTurn(ReplaceEmptyElementByClass, doc, passes))
  <2> DEFINE Is(f) == f = [k \in 0..n |-> IF k = 0 THEN doc
                             ELSE ReplaceEmptyElementByClass(f[k - 1], passes[k][1], passes[k][2])]
  <2>1. \A f : Turns(f, "empty", doc, passes, n) <=> Is(f) BY DEF Turns, Pass
  <2>2. \E f : Is(f) BY <2>1, TurnsDefined
  <2>3. PICK f : f = CHOOSE x : Is(x) OBVIOUS
  <2>4. InTurn(ReplaceEmptyElementByClass, doc, passes) = f[n] BY <2>3 DEF InTurn
  <2>5. Is(f)
    <3> HIDE DEF Is
    <3> QED BY <2>2, <2>3
  <2>6. Turns(f, "empty", doc, passes, n) BY <2>1, <2>5
  <2> QED BY <2>4, <2>6 DEF Made
<1>3. Made("sparse", doc, passes, n, InTurn(AppendToSparseSection, doc, passes))
  <2> DEFINE Is(f) == f = [k \in 0..n |-> IF k = 0 THEN doc
                             ELSE AppendToSparseSection(f[k - 1], passes[k][1], passes[k][2])]
  <2>1. \A f : Turns(f, "sparse", doc, passes, n) <=> Is(f) BY DEF Turns, Pass
  <2>2. \E f : Is(f) BY <2>1, TurnsDefined
  <2>3. PICK f : f = CHOOSE x : Is(x) OBVIOUS
  <2>4. InTurn(AppendToSparseSection, doc, passes) = f[n] BY <2>3 DEF InTurn
  <2>5. Is(f)
    <3> HIDE DEF Is
    <3> QED BY <2>2, <2>3
  <2>6. Turns(f, "sparse", doc, passes, n) BY <2>1, <2>5
  <2> QED BY <2>4, <2>6 DEF Made
<1>4. Made("items", doc, passes, n, InTurn(PopulateSectionListItems, doc, passes))
  <2> DEFINE Is(f) == f = [k \in 0..n |-> IF k = 0 THEN doc
                             ELSE PopulateSectionListItems(f[k - 1], passes[k][1], passes[k][2])]
  <2>1. \A f : Turns(f, "items", doc, passes, n) <=> Is(f) BY DEF Turns, Pass
  <2>2. \E f : Is(f) BY <2>1, TurnsDefined
  <2>3. PICK f : f = CHOOSE x : Is(x) OBVIOUS
  <2>4. InTurn(PopulateSectionListItems, doc, passes) = f[n] BY <2>3 DEF InTurn
  <2>5. Is(f)
    <3> HIDE DEF Is
    <3> QED BY <2>2, <2>3
  <2>6. Turns(f, "items", doc, passes, n) BY <2>1, <2>5
  <2> QED BY <2>4, <2>6 DEF Made
<1> QED BY <1>1, <1>2, <1>3, <1>4

\* All passes with a text, in turn.
LEMMA InTurnIn ==
    ASSUME NEW W, NEW doc, DocIn(doc, W), NEW passes, NEW n \in Nat, n = Len(passes),
           \A k \in 1..n : passes[k][2] \in Seq(W)
    PROVE  /\ DocIn(InTurn(ReplaceElementTextByClass, doc, passes), W)
           /\ DocIn(InTurn(ReplaceEmptyElementByClass, doc, passes), W)
           /\ DocIn(InTurn(AppendToSparseSection, doc, passes), W)
<1>1. ASSUME NEW which \in {"class", "empty", "sparse"}, NEW result,
             Made(which, doc, passes, n, result)
      PROVE  DocIn(result, W)
  BY <1>1, TurnsIn DEF Made
<1> QED BY <1>1, InTurnIs

\* And with a list.
LEMMA ListsInTurnIn ==
    ASSUME NEW W, NEW doc, DocIn(doc, W), NEW passes, NEW n \in Nat, n = Len(passes),
           \A k \in 1..n : passes[k][2] \in Seq(Seq(W))
    PROVE  DocIn(InTurn(PopulateSectionListItems, doc, passes), W)
<1>1. ASSUME NEW result, Made("items", doc, passes, n, result) PROVE DocIn(result, W)
  BY <1>1, TurnsIn DEF Made
<1> QED BY <1>1, InTurnIs

\* The items a list of a section is made of.
LEMMA ItemListsAre ==
    ASSUME NEW W, NEW value \in Seq(W), NEW n \in Nat
    PROVE  SplitCvItems(value, n) \in Seq(Seq(W)) /\ OneItem(value) \in Seq(Seq(W))
<1>1. SplitCvItems(value, n) \in Seq(Seq(W))
  <2>1. PICK usable : usable = Keep(UniqueList(value), Clean) OBVIOUS
  <2>2. usable \in Seq(W) BY <2>1, UniqueListIs, KeepStays
  <2>3. PICK items : items = [i \in DOMAIN usable |-> <<usable[i]>>] OBVIOUS
  <2>4. \A w \in W : <<w>> \in Seq(W) OBVIOUS
  <2>5. \A i \in DOMAIN usable : usable[i] \in W BY <2>2, ElementOfSeq, LenProperties
  <2>6. items = [i \in DOMAIN usable |-> items[i]] /\ \A i \in DOMAIN usable : items[i] \in Seq(W)
    BY <2>3, <2>4, <2>5
  <2>7. items \in Seq(Seq(W)) BY <2>2, <2>6, MappedList
  <2>8. Take(items, n) \in Seq(Seq(W)) BY <2>7, TakeIs
  <2> QED BY <2>1, <2>3, <2>8 DEF SplitCvItems
<1>2. OneItem(value) \in Seq(Seq(W))
  <2>1. <<>> \in Seq(Seq(W)) BY EmptySeq
  <2>2. <<value>> \in Seq(Seq(W)) OBVIOUS
  <2> QED BY <2>1, <2>2 DEF OneItem
<1> QED BY <1>1, <1>2

\* The passes write values.
LEMMA PassesAre ==
    ASSUME NEW W, NEW values, ValuesIn(values, W)
    PROVE  /\ Len(IdentityPasses(values)) = 5
           /\ \A k \in 1..5 : IdentityPasses(values)[k][2] \in Seq(W)
           /\ Len(ContactPasses(values)) = 7
           /\ \A k \in 1..7 : ContactPasses(values)[k][2] \in Seq(W)
           /\ Len(RegionPasses(values)) = 8
           /\ \A k \in 1..8 : RegionPasses(values)[k][2] \in Seq(W)
           /\ Len(SectionPasses(values)) = 12
           /\ \A k \in 1..12 : SectionPasses(values)[k][2] \in Seq(W)
           /\ Len(ListPasses(values)) = 9
           /\ \A k \in 1..9 : ListPasses(values)[k][2] \in Seq(Seq(W))
<1>1. /\ values.name \in Seq(W) /\ values.title \in Seq(W) /\ values.contact \in Seq(W)
      /\ values.email \in Seq(W) /\ values.phone \in Seq(W) /\ values.location \in Seq(W)
      /\ values.links \in Seq(W) /\ values.summary \in Seq(W)
      /\ values.profile \in Seq(W) /\ values.experience \in Seq(W)
      /\ values.projects \in Seq(W) /\ values.skills \in Seq(W) /\ values.education \in Seq(W)
      /\ values.certifications \in Seq(W) /\ values.languages \in Seq(W)
  BY DEF ValuesIn, ValueNames
<1>2. /\ Len(IdentityPasses(values)) = 5
      /\ \A k \in 1..5 : IdentityPasses(values)[k][2] \in Seq(W)
  BY <1>1 DEF IdentityPasses
<1>3. /\ Len(ContactPasses(values)) = 7
      /\ \A k \in 1..7 : ContactPasses(values)[k][2] \in Seq(W)
  BY <1>1 DEF ContactPasses
<1>4. /\ Len(RegionPasses(values)) = 8
      /\ \A k \in 1..8 : RegionPasses(values)[k][2] \in Seq(W)
  BY <1>1 DEF RegionPasses
<1>5. /\ Len(SectionPasses(values)) = 12
      /\ \A k \in 1..12 : SectionPasses(values)[k][2] \in Seq(W)
  BY <1>1 DEF SectionPasses
<1>6. /\ Len(ListPasses(values)) = 9
      /\ \A k \in 1..9 : ListPasses(values)[k][2] \in Seq(Seq(W))
  <2>1. PICK experience, projects, education, skills :
            /\ experience = SplitCvItems(values.experience, 8)
            /\ projects = SplitCvItems(values.projects, 6)
            /\ education = SplitCvItems(values.education, 4)
            /\ skills = OneItem(values.skills)
    OBVIOUS
  <2>2. /\ experience \in Seq(Seq(W)) /\ projects \in Seq(Seq(W))
        /\ education \in Seq(Seq(W)) /\ skills \in Seq(Seq(W))
    BY <1>1, <2>1, ItemListsAre
  <2>3. PICK a, b, c, d, e, f, g :
            /\ a = <<"work experience", experience>>
            /\ b = <<"professional experience", experience>>
            /\ c = <<"experience", experience>> /\ d = <<"projects", projects>>
            /\ e = <<"education", education>> /\ f = <<"key skills", skills>>
            /\ g = <<"skills", skills>>
    OBVIOUS
  <2>4. ListPasses(values) = <<a, b, c, d, d, e, e, f, g>> BY <2>1, <2>3 DEF ListPasses
  <2>5. /\ a[2] = experience /\ b[2] = experience /\ c[2] = experience /\ d[2] = projects
        /\ e[2] = education /\ f[2] = skills /\ g[2] = skills
    BY <2>3
  <2> QED BY <2>2, <2>4, <2>5
<1> QED BY <1>2, <1>3, <1>4, <1>5, <1>6

\* The renderer writes nothing but the values it is given.
LEMMA RenderedIn ==
    ASSUME NEW W, NEW doc, DocIn(doc, W), NEW values, ValuesIn(values, W)
    PROVE  DocIn(RenderSemanticCvFallback(doc, values), W)
<1>1. PICK p, c, g, s, l : /\ p = IdentityPasses(values) /\ c = ContactPasses(values)
                           /\ g = RegionPasses(values) /\ s = SectionPasses(values)
                           /\ l = ListPasses(values)
  OBVIOUS
<1>2. /\ Len(p) = 5 /\ \A k \in 1..5 : p[k][2] \in Seq(W)
      /\ Len(c) = 7 /\ \A k \in 1..7 : c[k][2] \in Seq(W)
      /\ Len(g) = 8 /\ \A k \in 1..8 : g[k][2] \in Seq(W)
      /\ Len(s) = 12 /\ \A k \in 1..12 : s[k][2] \in Seq(W)
      /\ Len(l) = 9 /\ \A k \in 1..9 : l[k][2] \in Seq(Seq(W))
  BY <1>1, PassesAre
<1>3. PICK named : named = InTurn(ReplaceElementTextByClass, doc, p) OBVIOUS
<1>4. DocIn(named, W) BY <1>2, <1>3, InTurnIn
<1>5. PICK contact : contact = ReplaceContactInfo(named, values) OBVIOUS
<1>6. DocIn(contact, W) BY <1>4, <1>5, ContactIn
<1>7. PICK reached : reached = InTurn(ReplaceElementTextByClass, contact, c) OBVIOUS
<1>8. DocIn(reached, W) BY <1>2, <1>6, <1>7, InTurnIn
<1>9. PICK cleared : cleared = ClearMutableDemoLeafText(reached, values) OBVIOUS
<1>10. DocIn(cleared, W) BY <1>8, <1>9, ClearedIn
<1>11. PICK filled : filled = InTurn(ReplaceEmptyElementByClass, cleared, g) OBVIOUS
<1>12. DocIn(filled, W) BY <1>2, <1>10, <1>11, InTurnIn
<1>13. PICK tidy : tidy = ClearKnownTemplateGarbageText(filled) OBVIOUS
<1>14. DocIn(tidy, W) BY <1>12, <1>13, ClearedIn
<1>15. PICK cleaned : cleaned = ClearKnownDemoIdentityText(tidy, values) OBVIOUS
<1>16. DocIn(cleaned, W) BY <1>14, <1>15, ClearedIn
<1>17. PICK listed : listed = InTurn(PopulateSectionListItems, cleaned, l) OBVIOUS
<1>18. DocIn(listed, W) BY <1>2, <1>16, <1>17, ListsInTurnIn
<1>19. DocIn(InTurn(AppendToSparseSection, listed, s), W) BY <1>2, <1>18, InTurnIn
<1>20. RenderSemanticCvFallback(doc, values) = InTurn(AppendToSparseSection, listed, s)
  BY <1>1, <1>3, <1>5, <1>7, <1>9, <1>11, <1>13, <1>15, <1>17 DEF RenderSemanticCvFallback
<1> QED BY <1>19, <1>20

\* The fallback says what the template and the values say.
LEMMA DeterministicIn ==
    ASSUME NEW W, NEW template, IsDocument(template),
           Words(NormalizeHtmlTemplate(template)) \subseteq W,
           NEW values, ValuesIn(values, W)
    PROVE  DocIn(RenderDeterministicCvMarkdown(template, values), W)
<1>1. PICK clean : clean = NormalizeHtmlTemplate(template) OBVIOUS
<1>2. DocIn(clean, W) BY <1>1, NormalizedIn, DocOfWords
<1>3. PICK filled : filled = FillPlaceholders(clean, values) OBVIOUS
<1>4. DocIn(filled, W) BY <1>2, <1>3, FilledIn
<1> QED BY <1>1, <1>3, <1>4, RenderedIn DEF RenderDeterministicCvMarkdown

-----------------------------------------------------------------------------
(* A generation and the words it may use.                                  *)

\* OwnWords is about the analyses that are stored now.
LEMMA OwnIs == ASSUME NEW input PROVE OwnWords(input) = Own(input, analyses)
BY DEF OwnWords, Own, Spread, Skilled, Contacts

\* What a stored analysis tells a later generation are words of its copy.
LEMMA LatestIs ==
    ASSUME NEW a, HasTexts(a.response), NEW W, CopyOf(a.response) \subseteq W
    PROVE  EvidenceIn(MapLatestAnalysis(a), W \cap DOMAIN About)
<1> DEFINE V == W \cap DOMAIN About
           latest == MapLatestAnalysis(a)
<1>1. PICK response : response = a.response OBVIOUS
<1>2. /\ {response.summary, response.atsSummary, response.impression, response.actions}
             \subseteq Seq(DOMAIN About)
      /\ response.reviews \in Seq(ToSet(response.reviews))
      /\ \A review \in ToSet(response.reviews) :
             /\ DOMAIN review = {"section", "analysis", "points"}
             /\ {review.analysis, review.points} \subseteq Seq(DOMAIN About)
  BY <1>1 DEF HasTexts, Texts
<1>3. /\ ToSet(response.summary) \subseteq W /\ ToSet(response.atsSummary) \subseteq W
      /\ ToSet(response.impression) \subseteq W /\ ToSet(response.actions) \subseteq W
      /\ ReviewWords(response.reviews) \subseteq W
  BY <1>1 DEF CopyOf
<1>4. ASSUME NEW t \in Seq(DOMAIN About), ToSet(t) \subseteq W PROVE t \in Seq(V)
  <2>1. ToSet(t) \subseteq V BY <1>4, TextWords
  <2> HIDE DEF V
  <2> QED BY <2>1, ListOf
<1>5. /\ response.summary \in Seq(V) /\ response.atsSummary \in Seq(V)
      /\ response.impression \in Seq(V) /\ response.actions \in Seq(V)
  <2> HIDE DEF V
  <2> QED BY <1>2, <1>3, <1>4
<1>6. ASSUME NEW review \in ToSet(response.reviews) PROVE ReviewIn(review, V)
  <2>1. PICK i \in DOMAIN response.reviews : review = response.reviews[i] BY DEF ToSet
  <2>2. ToSet(review.analysis) \subseteq W /\ ToSet(review.points) \subseteq W
    BY <1>3, <2>1 DEF ReviewWords
  <2> HIDE DEF V
  <2> QED BY <1>2, <1>4, <2>2 DEF ReviewIn
<1>7. PICK reviews : reviews = Take(response.reviews, 6) OBVIOUS
<1>8. reviews \in Seq(ToSet(response.reviews)) BY <1>2, <1>7, TakeIs
<1>9. reviews \in Seq(ToSet(reviews)) BY <1>8, SeqOfRange DEF Range, ToSet
<1>10. \A review \in ToSet(reviews) : ReviewIn(review, V)
  <2>1. ToSet(reviews) \subseteq ToSet(response.reviews) BY <1>8, TextWords
  <2> HIDE DEF V
  <2> QED BY <1>6, <2>1
<1>11. Take(response.actions, 5) \in Seq(V) BY <1>5, TakeIs
<1>12. /\ latest.impression = response.impression /\ latest.ats = response.atsSummary
       /\ latest.actions = Take(response.actions, 5) /\ latest.fit = response.summary
       /\ latest.reviews = reviews
  BY <1>1, <1>7 DEF MapLatestAnalysis
<1> HIDE DEF V, latest
<1>13. EvidenceIn(latest, V) BY <1>5, <1>9, <1>10, <1>11, <1>12 DEF EvidenceIn
<1> QED BY <1>13 DEF latest, V

\* Whichever it was, or none.
LEMMA EvidenceIs ==
    ASSUME NEW input, NEW stored, \A i \in DOMAIN stored : HasTexts(stored[i].response),
           NEW latest, Evidence(latest, input, stored)
    PROVE  EvidenceIn(latest, Own(input, stored) \cap DOMAIN About)
<1> DEFINE W == Own(input, stored)
<1>1. CASE latest = NoAnalysis
  <2>1. \A V : <<>> \in Seq(V) BY EmptySeq
  <2>2. ToSet(<<>>) = {} BY DEF ToSet
  <2>3. /\ latest.impression = <<>> /\ latest.actions = <<>> /\ latest.ats = <<>>
        /\ latest.fit = <<>> /\ latest.reviews = <<>>
    BY <1>1 DEF NoAnalysis
  <2> QED BY <2>1, <2>2, <2>3 DEF EvidenceIn
<1>2. ASSUME NEW i \in DOMAIN stored, stored[i].user = input.user,
             stored[i].file = input.file, latest = MapLatestAnalysis(stored[i])
      PROVE  EvidenceIn(latest, W \cap DOMAIN About)
  <2>1. CopyOf(stored[i].response) \subseteq W BY <1>2 DEF Own
  <2> HIDE DEF W
  <2> QED BY <1>2, <2>1, LatestIs
<1> QED BY <1>1, <1>2 DEF Evidence

\* All that a generation makes its CV of are words it may use.
LEMMA MaterialIs ==
    ASSUME NEW q, q.input \in Inputs, q.input.kind = "generate",
           NEW stored, \A i \in DOMAIN stored : HasTexts(stored[i].response),
           Evidence(q.latest, q.input, stored)
    PROVE  LET W == Own(q.input, stored) \cap DOMAIN About
               prepared == Prepared(q)
           IN /\ q.input.summary \in Seq(W)
              /\ \A field \in PrivateFields : prepared.private[field] \in Seq(W)
              /\ \A field \in SharedFields : prepared.shared[field] \in Seq(W)
              /\ IsFiniteSet(ProviderInput(q, prepared))
              /\ ProviderInput(q, prepared) \subseteq W
<1> DEFINE W == Own(q.input, stored)
           V == W \cap DOMAIN About
           F == FileWords(q.input.file)
           prepared == Prepared(q)
<1>1. PICK input, file, latest, words :
          input = q.input /\ file = q.input.file /\ latest = q.latest /\ words = F
  OBVIOUS
<1>2. file \in Files /\ input.summary \in Texts BY <1>1, InputsAssumption
<1>3. EvidenceIn(latest, V) BY <1>1, EvidenceIs
<1>4. Spread(words) \subseteq W /\ ToSet(input.summary) \subseteq W BY <1>1 DEF Own
<1>5. words \subseteq DOMAIN About
  <2>1. words = FileWords(file) BY <1>1
  <2> QED BY <1>2, <2>1, FilesAreTexts, TextWords DEF FileWords, Texts
<1>6. Skilled(words) \subseteq V
  <2>1. \A w \in words : /\ ToSet(About[w].skills) \subseteq DOMAIN About
                         /\ ToSet(About[w].sharedSkills) \subseteq DOMAIN About
    BY <1>5, AboutAssumption, TextWords DEF Texts
  <2>2. Skilled(words) \subseteq W BY <1>4 DEF Spread
  <2> QED BY <1>5, <2>1, <2>2 DEF Skilled
<1>7. input.summary \in Seq(V)
  <2>1. ToSet(input.summary) \subseteq V BY <1>2, <1>4, TextWords DEF Texts
  <2> HIDE DEF V
  <2> QED BY <1>2, <2>1, ListOf DEF Texts
<1>8. /\ latest.impression \in Seq(V) /\ latest.actions \in Seq(V) /\ latest.ats \in Seq(V)
      /\ latest.fit \in Seq(V) /\ latest.reviews \in Seq(ToSet(latest.reviews))
      /\ \A review \in ToSet(latest.reviews) : ReviewIn(review, V)
  BY <1>3 DEF EvidenceIn
<1>9. /\ prepared.private = BuildPrivateCvData(Content[file], latest.impression)
      /\ prepared.shared = BuildBackendParsedSharedCvEvidence(Content[file], latest)
  BY <1>1 DEF Prepared
<1>10. PICK shared : shared = prepared.shared OBVIOUS
<1> DEFINE input0 == ProviderInput(q, prepared)
<1>11. input0 = ToSet(input.summary) \cup ToSet(latest.impression) \cup ToSet(latest.actions)
            \cup ToSet(latest.ats) \cup ToSet(latest.fit) \cup ReviewWords(latest.reviews)
            \cup SharedWords(shared) \cup words
  BY <1>1, <1>10 DEF ProviderInput, BuildCvGenerateUserContent
<1>12. words = FileWords(file) BY <1>1
<1> HIDE DEF F, prepared, input0, V
<1>13. V \subseteq W /\ V \subseteq DOMAIN About BY DEF V
<1>14. (\A field \in SharedFields : shared[field] \in Seq(V)) /\ SharedWords(shared) \subseteq V
  BY <1>2, <1>3, <1>6, <1>9, <1>10, <1>12, SharedIs
<1>15. Contacts(words) \subseteq V \cup {Absent}
  <2>1. Contacts(words) \subseteq W BY <1>4 DEF Spread
  <2>2. Contacts(words) \subseteq DOMAIN About \cup {Absent}
    <3>1. \A w \in words : {About[w].email, About[w].phone, About[w].link}
                                 \subseteq DOMAIN About \cup {Absent}
      BY <1>5, AboutAssumption DEF Absent
    <3> QED BY <3>1 DEF Contacts
  <2> HIDE DEF W
  <2> QED BY <2>1, <2>2 DEF V
<1>16. ToSet(Inferred) \subseteq V
  <2>1. ToSet(Inferred) \subseteq W BY <1>4 DEF Spread
  <2>2. ToSet(Inferred) \subseteq DOMAIN About BY AboutAssumption DEF ToSet
  <2> HIDE DEF W
  <2> QED BY <2>1, <2>2 DEF V
<1> HIDE DEF W
<1>17. \A field \in PrivateFields : prepared.private[field] \in Seq(V)
  BY <1>2, <1>6, <1>8, <1>9, <1>15, <1>16, <1>12, PrivateIs
<1>18. input0 \subseteq V
  <2>1. ReviewWords(latest.reviews) \subseteq V BY <1>8, ReviewsAre
  <2>2. /\ ToSet(input.summary) \subseteq V /\ ToSet(latest.impression) \subseteq V
        /\ ToSet(latest.actions) \subseteq V /\ ToSet(latest.ats) \subseteq V
        /\ ToSet(latest.fit) \subseteq V
    BY <1>7, <1>8, TextWords
  <2>3. words \subseteq V BY <1>6 DEF Skilled
  <2> QED BY <1>11, <1>14, <2>1, <2>2, <2>3
<1>19. IsFiniteSet(input0)
  <2>1. input0 \subseteq DOMAIN About BY <1>13, <1>18
  <2>2. IsFiniteSet(DOMAIN About) BY AboutAssumption
  <2> QED BY <2>1, <2>2, FS_Subset
<1> QED BY <1>1, <1>7, <1>10, <1>14, <1>17, <1>18, <1>19 DEF V, W, prepared, input0

\* A provider that writes into the texts of a template, or over them.
LEMMA SpokenIn ==
    ASSUME NEW W, NEW doc, DocIn(doc, W), NEW saying \in Seq(W)
    PROVE  /\ DocIn(OnText(doc, LAMBDA t : IF IsStatic(t) THEN t ELSE saying), W)
           /\ DocIn(OnText(doc, LAMBDA t : saying), W)
<1> DEFINE A(t) == IF IsStatic(t) THEN t ELSE saying
           New(n) == [n EXCEPT !.slots = [k \in DOMAIN n.slots |-> A(n.slots[k])]]
           Over(n) == [n EXCEPT !.slots = [k \in DOMAIN n.slots |-> saying]]
           a == [i \in DOMAIN doc.nodes |-> New(doc.nodes[i])]
           b == [i \in DOMAIN doc.nodes |-> Over(doc.nodes[i])]
           tailA == [s \in DOMAIN doc.tail |-> A(doc.tail[s])]
           tailB == [s \in DOMAIN doc.tail |-> saying]
<1>1. OnText(doc, LAMBDA t : IF IsStatic(t) THEN t ELSE saying)
          = [[doc EXCEPT !.nodes = a] EXCEPT !.tail = tailA]
  BY DEF OnText, OnNodes
<1>2. OnText(doc, LAMBDA t : saying) = [[doc EXCEPT !.nodes = b] EXCEPT !.tail = tailB]
  BY DEF OnText, OnNodes
<1>3. \A t \in Seq(W) : A(t) \in Seq(W) OBVIOUS
<1> HIDE DEF A
<1>4. ASSUME NEW n, NodeIn(n, W) PROVE NodeIn(New(n), W) /\ NodeIn(Over(n), W)
  <2>1. \A k \in DOMAIN n.slots : n.slots[k] \in Seq(W)
    BY <1>4, ElementOfSeq, LenProperties DEF NodeIn
  <2>2. PICK told, over : /\ told = [k \in DOMAIN n.slots |-> A(n.slots[k])]
                          /\ over = [k \in DOMAIN n.slots |-> saying]
    OBVIOUS
  <2>3. /\ told = [k \in DOMAIN n.slots |-> told[k]] /\ over = [k \in DOMAIN n.slots |-> over[k]]
        /\ \A k \in DOMAIN n.slots : told[k] \in Seq(W) /\ over[k] \in Seq(W)
    BY <1>3, <2>1, <2>2
  <2>4. NodeIn([n EXCEPT !.slots = told], W) BY <1>4, <2>3, NodeTexts
  <2>5. NodeIn([n EXCEPT !.slots = over], W) BY <1>4, <2>3, NodeTexts
  <2> QED BY <2>2, <2>4, <2>5
<1> HIDE DEF New, Over
<1>5. /\ a = [i \in DOMAIN doc.nodes |-> a[i]] /\ b = [i \in DOMAIN doc.nodes |-> b[i]]
      /\ \A i \in DOMAIN doc.nodes : NodeIn(a[i], W) /\ NodeIn(b[i], W)
  BY <1>4 DEF DocIn
<1>6. /\ DOMAIN tailA = DOMAIN doc.tail /\ DOMAIN tailB = DOMAIN doc.tail
      /\ \A s \in DOMAIN doc.tail : tailA[s] \in Seq(W) /\ tailB[s] \in Seq(W)
  BY <1>3 DEF DocIn
<1> HIDE DEF a, b, tailA, tailB
<1>7. DocIn([[doc EXCEPT !.nodes = a] EXCEPT !.tail = tailA], W) BY <1>5, <1>6, TextsMade
<1>8. DocIn([[doc EXCEPT !.nodes = b] EXCEPT !.tail = tailB], W) BY <1>5, <1>6, TextsMade
<1> QED BY <1>1, <1>2, <1>7, <1>8

\* Fences hold no words, and a repeated element none of its own.
LEMMA RepeatedIn ==
    ASSUME NEW W, NEW doc, DocIn(doc, W)
    PROVE  /\ \A fence : DocIn([doc EXCEPT !.fence = fence], W)
           /\ DocIn([doc EXCEPT !.nodes = @ \o @], W)
           /\ DocIn(NormalizeMarkdown(doc), W)
<1>1. \A fence : DocIn([doc EXCEPT !.fence = fence], W) BY DEF DocIn
<1>2. DocIn([doc EXCEPT !.nodes = @ \o @], W)
  <2>1. PICK S, list, twice : S = ToSet(doc.nodes) /\ list = doc.nodes /\ twice = list \o list
    OBVIOUS
  <2>2. list \in Seq(S) BY <2>1 DEF DocIn
  <2>3. twice \in Seq(S) BY <2>1, <2>2, ConcatProperties
  <2>4. twice \in Seq(ToSet(twice)) BY <2>3, SeqOfRange DEF Range, ToSet
  <2>5. \A n \in S : NodeIn(n, W) BY <2>1 DEF DocIn, ToSet
  <2>6. \A i \in DOMAIN twice : NodeIn(twice[i], W)
    BY <2>3, <2>5, ElementOfSeq, LenProperties
  <2>7. PICK made : made = [doc EXCEPT !.nodes = twice] OBVIOUS
  <2>8. DOMAIN made = {"nodes", "tail", "fence"} /\ made.nodes = twice /\ made.tail = doc.tail
    BY <2>7 DEF DocIn
  <2>9. DocIn(made, W) BY <2>4, <2>6, <2>8 DEF DocIn
  <2> QED BY <2>1, <2>7, <2>9
<1> QED BY <1>1, <1>2 DEF NormalizeMarkdown

\* And so are the values of its placeholders.
LEMMA MadeOfOwn ==
    ASSUME NEW q, q.input \in Inputs, q.input.kind = "generate",
           NEW stored, \A i \in DOMAIN stored : HasTexts(stored[i].response),
           Evidence(q.latest, q.input, stored)
    PROVE  LET W == Own(q.input, stored) \cap DOMAIN About
               prepared == Prepared(q)
           IN /\ ValuesIn(BuildPlaceholderValues(q.input.summary, prepared.shared,
                                                 prepared.private), W)
              /\ DocIn(NormalizeHtmlTemplate(q.input.template), W)
<1>1. PICK W, prepared, summary, template :
          /\ W = Own(q.input, stored) \cap DOMAIN About /\ prepared = Prepared(q)
          /\ summary = q.input.summary /\ template = q.input.template
  OBVIOUS
<1>2. /\ summary \in Seq(W)
      /\ \A field \in PrivateFields : prepared.private[field] \in Seq(W)
      /\ \A field \in SharedFields : prepared.shared[field] \in Seq(W)
  BY <1>1, MaterialIs
<1>3. PICK private, shared : private = prepared.private /\ shared = prepared.shared OBVIOUS
<1>4. ValuesIn(BuildPlaceholderValues(summary, shared, private), W)
  BY <1>2, <1>3, PlaceholderValuesAre
<1>5. PICK clean : clean = NormalizeHtmlTemplate(template) OBVIOUS
<1>6. DocIn(clean, DOMAIN About) BY <1>1, <1>5, InputsAssumption, NormalizedIn
<1>7. Words(clean) \subseteq W
  <2>1. Words(clean) \subseteq DOMAIN About BY <1>6, WordsOfDoc
  <2>2. Words(clean) \subseteq Own(q.input, stored) BY <1>1, <1>5 DEF Own
  <2> QED BY <1>1, <2>1, <2>2
<1>8. DocIn(clean, W) BY <1>6, <1>7, DocOfWords
<1> QED BY <1>1, <1>3, <1>4, <1>5, <1>8

\* Whatever a provider answers that repeats what it was given, and the
\* fallback, hold no word that the CV may not use.
LEMMA AnswersIn ==
    ASSUME NEW q, q.input \in Inputs, q.input.kind = "generate",
           NEW stored, \A i \in DOMAIN stored : HasTexts(stored[i].response),
           Evidence(q.latest, q.input, stored)
    PROVE  LET W == Own(q.input, stored) \cap DOMAIN About
               prepared == Prepared(q)
           IN /\ \A doc \in ProviderDocuments(q, prepared) :
                     Words(NormalizeMarkdown(doc)) \subseteq W
              /\ Words(Fallback(q, prepared)) \subseteq W
<1>1. PICK W, prepared, summary, template :
          /\ W = Own(q.input, stored) \cap DOMAIN About /\ prepared = Prepared(q)
          /\ summary = q.input.summary /\ template = q.input.template
  OBVIOUS
<1>2. IsFiniteSet(ProviderInput(q, prepared)) /\ ProviderInput(q, prepared) \subseteq W
  BY <1>1, MaterialIs
<1>3. PICK private, shared : private = prepared.private /\ shared = prepared.shared OBVIOUS
<1>4. PICK clean, values : /\ clean = NormalizeHtmlTemplate(template)
                           /\ values = BuildPlaceholderValues(summary, shared, private)
  OBVIOUS
<1>5. DocIn(clean, W) /\ ValuesIn(values, W) BY <1>1, <1>3, <1>4, MadeOfOwn
<1>6. Words(Fallback(q, prepared)) \subseteq W
  <2>1. IsDocument(template) BY <1>1, InputsAssumption
  <2>2. Words(clean) \subseteq W BY <1>5, WordsOfDoc
  <2>3. DocIn(RenderDeterministicCvMarkdown(template, values), W)
    BY <1>4, <1>5, <2>1, <2>2, DeterministicIn
  <2>4. Fallback(q, prepared) = RenderDeterministicCvMarkdown(template, values)
    BY <1>1, <1>3, <1>4 DEF Fallback
  <2> QED BY <2>3, <2>4, WordsOfDoc
<1>7. ASSUME NEW doc \in ProviderDocuments(q, prepared) PROVE DocIn(doc, W)
  <2> DEFINE Marked == {OnNodes(clean, LAMBDA n : [n EXCEPT !.attr = Append(@, w)]) :
                            w \in Labels \cup Attributes(template)}
  <2>1. PICK words : words = ProviderInput(q, prepared) OBVIOUS
  <2>2. Sayings(words) \subseteq Seq(words) BY <1>2, <2>1, SayingsAre
  <2>3. \A saying \in Sayings(words) : saying \in Seq(W) BY <1>2, <2>1, <2>2, SeqMonotonic
  <2>4. \/ \E fence : doc = [clean EXCEPT !.fence = fence]
        \/ doc = [clean EXCEPT !.nodes = @ \o @]
        \/ doc \in Marked
        \/ \E saying \in Sayings(words) :
               \/ doc = OnText(clean, LAMBDA t : IF IsStatic(t) THEN t ELSE saying)
               \/ doc = OnText(clean, LAMBDA t : saying)
    <3>1. ProviderDocuments(q, prepared) =
              {[clean EXCEPT !.fence = f] : f \in {"none", "whole", "part"}}
              \cup {[clean EXCEPT !.nodes = @ \o @]} \cup Marked
              \cup UNION {{OnText(clean, LAMBDA t : IF IsStatic(t) THEN t ELSE s),
                          OnText(clean, LAMBDA t : s)} : s \in Sayings(words)}
      BY <1>1, <1>4, <2>1 DEF ProviderDocuments
    <3> HIDE DEF Marked
    <3> QED BY <1>7, <3>1
  <2>5. ASSUME NEW fence, doc = [clean EXCEPT !.fence = fence] PROVE DocIn(doc, W)
    BY <1>5, <2>5, RepeatedIn
  <2>6. CASE doc = [clean EXCEPT !.nodes = @ \o @] BY <1>5, <2>6, RepeatedIn
  <2>7. ASSUME NEW saying \in Sayings(words),
               \/ doc = OnText(clean, LAMBDA t : IF IsStatic(t) THEN t ELSE saying)
               \/ doc = OnText(clean, LAMBDA t : saying)
        PROVE  DocIn(doc, W)
    <3>1. /\ DocIn(OnText(clean, LAMBDA t : IF IsStatic(t) THEN t ELSE saying), W)
          /\ DocIn(OnText(clean, LAMBDA t : saying), W)
      BY <1>5, <2>3, SpokenIn
    <3>2. CASE doc = OnText(clean, LAMBDA t : IF IsStatic(t) THEN t ELSE saying) BY <3>1, <3>2
    <3>3. CASE doc = OnText(clean, LAMBDA t : saying) BY <3>1, <3>3
    <3> QED BY <2>7, <3>2, <3>3
  <2>8. CASE doc \in Marked
    <3>0. PICK w : doc = [clean EXCEPT !.nodes =
                             [i \in DOMAIN clean.nodes |->
                                [clean.nodes[i] EXCEPT !.attr = Append(@, w)]]]
      BY <2>8 DEF OnNodes
    <3> HIDE DEF Marked
    <3> DEFINE More(n) == [n EXCEPT !.attr = Append(n.attr, w)]
    <3>1. PICK made : made = [i \in DOMAIN clean.nodes |-> More(clean.nodes[i])] OBVIOUS
    <3>2. doc = [clean EXCEPT !.nodes = made] BY <3>0, <3>1
    <3>3. \A n : NodeIn(n, W) => NodeIn(More(n), W) BY DEF NodeIn
    <3>4. made = [i \in DOMAIN clean.nodes |-> made[i]] BY <3>1
    <3>5. \A i \in DOMAIN clean.nodes : NodeIn(made[i], W) BY <1>5, <3>1, <3>3 DEF DocIn
    <3> QED BY <1>5, <3>2, <3>4, <3>5, NodesMade
  <2> HIDE DEF Marked
  <2> QED BY <2>4, <2>5, <2>6, <2>7, <2>8
<1>8. \A doc \in ProviderDocuments(q, prepared) : Words(NormalizeMarkdown(doc)) \subseteq W
  BY <1>7, RepeatedIn, WordsOfDoc
<1> QED BY <1>1, <1>6, <1>8

-----------------------------------------------------------------------------
(* What the renderer keeps of a template. *)

\* A node the renderer may change and still keep the template.
Steady(t) ==
    /\ t.inner \in Nat /\ DOMAIN t.slots = 1..(t.inner + 1)
    /\ t.tag = "li" => t.inner = 0
    /\ \A k \in DOMAIN t.slots : IsStatic(t.slots[k]) => t.cls = {}

\* It did: the element is the same, and its labels are.
Stays(n, t) ==
    /\ DOMAIN n = {"tag", "cls", "attr", "sec", "slots", "inner", "closed"}
    /\ n.tag = t.tag /\ n.cls = t.cls /\ n.attr = t.attr /\ n.inner = t.inner
    /\ DOMAIN n.slots = DOMAIN t.slots
    /\ \A k \in DOMAIN t.slots : IsStatic(t.slots[k]) => n.slots[k] = t.slots[k]

Follows(doc, template) ==
    /\ DOMAIN doc = {"nodes", "tail", "fence"} /\ doc.fence = template.fence
    /\ DOMAIN doc.nodes = DOMAIN template.nodes
    /\ \A i \in DOMAIN template.nodes : Stays(doc.nodes[i], template.nodes[i])

\* A document whose elements are changed and stay the same.
LEMMA ChangedFollows ==
    ASSUME NEW T, NEW doc, Follows(doc, T),
           NEW made, made = [i \in DOMAIN doc.nodes |-> made[i]],
           \A i \in DOMAIN T.nodes : Stays(made[i], T.nodes[i])
    PROVE  /\ Follows([doc EXCEPT !.nodes = made], T)
           /\ \A tail : Follows([[doc EXCEPT !.nodes = made] EXCEPT !.tail = tail], T)
<1>1. DOMAIN made = DOMAIN doc.nodes OBVIOUS
<1>2. PICK new : new = [doc EXCEPT !.nodes = made] OBVIOUS
<1>3. DOMAIN new = DOMAIN doc /\ new.nodes = made /\ new.fence = doc.fence
  BY <1>2 DEF Follows
<1>4. Follows(new, T) BY <1>1, <1>3 DEF Follows
<1>5. ASSUME NEW tail PROVE Follows([new EXCEPT !.tail = tail], T)
  <2>1. PICK more : more = [new EXCEPT !.tail = tail] OBVIOUS
  <2>2. DOMAIN more = DOMAIN new /\ more.nodes = new.nodes /\ more.fence = new.fence
    BY <1>4, <2>1 DEF Follows
  <2>3. Follows(more, T) BY <1>4, <2>2 DEF Follows
  <2> QED BY <2>1, <2>3
<1> QED BY <1>2, <1>4, <1>5

\* What an element holds once its texts are replaced.
LEMMA TextsStay ==
    ASSUME NEW n, NEW t, Stays(n, t), NEW slots, DOMAIN slots = DOMAIN t.slots,
           \A k \in DOMAIN t.slots : IsStatic(t.slots[k]) => slots[k] = t.slots[k]
    PROVE  Stays([n EXCEPT !.slots = slots], t)
<1>1. PICK new : new = [n EXCEPT !.slots = slots] OBVIOUS
<1>2. /\ DOMAIN new = DOMAIN n /\ new.tag = n.tag /\ new.cls = n.cls /\ new.attr = n.attr
      /\ new.inner = n.inner /\ new.slots = slots
  BY <1>1 DEF Stays
<1>3. Stays(new, t) BY <1>2 DEF Stays
<1> QED BY <1>1, <1>3

\* An identity element is written over: it holds no label, and no value makes
\* an inner tag.
LEMMA WrittenStays ==
    ASSUME NEW V, \A w \in V : ~About[w].dollar, NEW value \in Seq(V),
           NEW n, NodeIn(n, V), NEW t, Steady(t), Stays(n, t), n.cls # {}, Leaf(n)
    PROVE  Stays(Written(n, value), t)
<1>1. {i \in DOMAIN value : About[value[i]].dollar} = {}
  <2>1. \A i \in DOMAIN value : value[i] \in V BY ElementOfSeq, LenProperties
  <2> QED BY <2>1
<1>2. Cardinality({i \in DOMAIN value : About[value[i]].dollar}) = 0
  BY <1>1, FS_EmptySet
<1>3. PICK c : c = Cardinality({i \in DOMAIN value : About[value[i]].dollar}) OBVIOUS
<1>4. PICK new : new = [n EXCEPT !.slots = <<value>>, !.inner = c] OBVIOUS
<1>5. c = 0 BY <1>2, <1>3
<1>6. /\ DOMAIN new = DOMAIN n /\ new.tag = n.tag /\ new.cls = n.cls /\ new.attr = n.attr
      /\ new.inner = 0 /\ new.slots = <<value>>
  BY <1>4, <1>5 DEF Stays
<1>7. n.inner = 0 /\ DOMAIN n.slots = 1..1
  <2>1. n.slots \in Seq(Seq(V)) BY DEF NodeIn
  <2> QED BY <2>1, LenProperties DEF Leaf
<1>8. \A k \in DOMAIN t.slots : ~IsStatic(t.slots[k]) BY DEF Steady, Stays
<1>9. DOMAIN <<value>> = 1..1 OBVIOUS
<1>10. Stays(new, t) BY <1>6, <1>7, <1>8, <1>9 DEF Stays
<1> QED BY <1>3, <1>4, <1>10 DEF Written

\* A template whose labels the renderer keeps, with the words V.
Keepable(T, V) ==
    /\ \A i \in DOMAIN T.nodes : Steady(T.nodes[i])
    /\ \A w \in V : ~About[w].dollar

\* replaceElementTextByClass and replaceEmptyElementByClass keep the template.
LEMMA ByClassFollows ==
    ASSUME NEW V, NEW T, Keepable(T, V), NEW doc, DocIn(doc, V), Follows(doc, T),
           NEW signal, NEW value \in Seq(V)
    PROVE  /\ Follows(ReplaceElementTextByClass(doc, signal, value), T)
           /\ Follows(ReplaceEmptyElementByClass(doc, signal, value), T)
<1> DEFINE A(n) == IF value # <<>> /\ signal \in n.cls /\ Leaf(n) THEN Written(n, value) ELSE n
           B(n) == IF value # <<>> /\ signal \in n.cls /\ Leaf(n) /\ Blank(n.slots[1])
                   THEN Written(n, value) ELSE n
           a == [i \in DOMAIN doc.nodes |-> A(doc.nodes[i])]
           b == [i \in DOMAIN doc.nodes |-> B(doc.nodes[i])]
<1>1. ReplaceElementTextByClass(doc, signal, value) = [doc EXCEPT !.nodes = a]
  BY DEF ReplaceElementTextByClass, OnNodes
<1>2. ReplaceEmptyElementByClass(doc, signal, value) = [doc EXCEPT !.nodes = b]
  BY DEF ReplaceEmptyElementByClass, OnNodes
<1>3. ASSUME NEW n, NodeIn(n, V), NEW t, Steady(t), Stays(n, t)
      PROVE  Stays(A(n), t) /\ Stays(B(n), t)
  <2>1. signal \in n.cls /\ Leaf(n) => Stays(Written(n, value), t)
    BY <1>3, WrittenStays DEF Keepable
  <2> QED BY <1>3, <2>1
<1> HIDE DEF A, B
<1>4. \A i \in DOMAIN T.nodes : Stays(A(doc.nodes[i]), T.nodes[i])
                                /\ Stays(B(doc.nodes[i]), T.nodes[i])
  BY <1>3 DEF Keepable, Follows, DocIn
<1>5. /\ a = [i \in DOMAIN doc.nodes |-> a[i]] /\ b = [i \in DOMAIN doc.nodes |-> b[i]]
      /\ \A i \in DOMAIN T.nodes : Stays(a[i], T.nodes[i]) /\ Stays(b[i], T.nodes[i])
  BY <1>4 DEF Follows
<1> HIDE DEF a, b
<1>6. Follows([doc EXCEPT !.nodes = a], T) BY <1>5, ChangedFollows
<1>7. Follows([doc EXCEPT !.nodes = b], T) BY <1>5, ChangedFollows
<1> QED BY <1>1, <1>2, <1>6, <1>7

\* So does replaceContactInfo: identity elements hold no label.
LEMMA ContactFollows ==
    ASSUME NEW V, NEW T, Keepable(T, V), NEW doc, Follows(doc, T), NEW values
    PROVE  Follows(ReplaceContactInfo(doc, values), T)
<1>1. ASSUME NEW parts PROVE Follows(ReplaceElementTextSlots(doc, "contact-info", parts), T)
  <2> DEFINE used(n) == {k \in DOMAIN n.slots : n.slots[k] # <<>>}
             Rank(n, k) == Cardinality({j \in used(n) : j <= k})
             Value(n, k) == IF Rank(n, k) > Len(parts) THEN <<>>
                            ELSE IF k = Max(used(n))
                                 THEN FlattenSeq(SubSeq(parts, Rank(n, k), Len(parts)))
                                 ELSE parts[Rank(n, k)]
             New(n) == [k \in DOMAIN n.slots |-> IF k \in used(n) THEN Value(n, k) ELSE <<>>]
             C(n) == IF "contact-info" \notin n.cls \/ (parts = <<>> /\ ~Demo(TextOf(n))) THEN n
                     ELSE [n EXCEPT !.slots = New(n)]
             made == [i \in DOMAIN doc.nodes |-> C(doc.nodes[i])]
  <2>1. ReplaceElementTextSlots(doc, "contact-info", parts) = [doc EXCEPT !.nodes = made]
    BY DEF ReplaceElementTextSlots, OnNodes
  <2>2. \A n : DOMAIN New(n) = DOMAIN n.slots OBVIOUS
  <2> HIDE DEF New
  <2>3. ASSUME NEW n, NEW t, Steady(t), Stays(n, t) PROVE Stays(C(n), t)
    <3>1. "contact-info" \in n.cls => \A k \in DOMAIN t.slots : ~IsStatic(t.slots[k])
      BY <2>3 DEF Steady, Stays
    <3>2. PICK slots : slots = New(n) OBVIOUS
    <3>3. DOMAIN slots = DOMAIN t.slots BY <2>2, <2>3, <3>2 DEF Stays
    <3>4. "contact-info" \in n.cls => Stays([n EXCEPT !.slots = slots], t)
      BY <2>3, <3>1, <3>3, TextsStay
    <3> QED BY <2>3, <3>2, <3>4
  <2> HIDE DEF C
  <2>4. /\ made = [i \in DOMAIN doc.nodes |-> made[i]]
        /\ \A i \in DOMAIN T.nodes : Stays(made[i], T.nodes[i])
    BY <2>3 DEF Keepable, Follows
  <2> HIDE DEF made
  <2>5. Follows([doc EXCEPT !.nodes = made], T) BY <2>4, ChangedFollows
  <2> QED BY <2>1, <2>5
<1> QED BY <1>1 DEF ReplaceContactInfo

\* Labels are none of the texts that are cleared.
LEMMA ClearedFollows ==
    ASSUME NEW V, NEW T, Keepable(T, V), NEW doc, DocIn(doc, V), Follows(doc, T), NEW values
    PROVE  /\ Follows(ClearMutableDemoLeafText(doc, values), T)
           /\ Follows(ClearKnownTemplateGarbageText(doc), T)
           /\ Follows(ClearKnownDemoIdentityText(doc, values), T)
<1>1. ASSUME NEW n, NodeIn(n, V), NEW t, Stays(n, t), Leaf(n), ~IsStatic(n.slots[1])
      PROVE  Stays([n EXCEPT !.slots = << <<>> >>], t)
  <2>1. PICK slots : slots = << <<>> >> OBVIOUS
  <2>2. n.slots \in Seq(Seq(V)) BY <1>1 DEF NodeIn
  <2>3. DOMAIN n.slots = 1..1 BY <1>1, <2>2, LenProperties DEF Leaf
  <2>4. DOMAIN slots = DOMAIN t.slots BY <1>1, <2>1, <2>3 DEF Stays
  <2>5. \A k \in DOMAIN t.slots : ~IsStatic(t.slots[k]) BY <1>1, <2>3 DEF Stays
  <2>6. Stays([n EXCEPT !.slots = slots], t) BY <1>1, <2>4, <2>5, TextsStay
  <2> QED BY <2>1, <2>6
<1>2. ASSUME NEW text \in Seq(V), IsStatic(text)
      PROVE  ~Demo(text) /\ ~(\E i \in DOMAIN text : About[text[i]].garbage)
  <2>1. text[1] \in Labels /\ DOMAIN text = 1..1 BY <1>2, LenProperties DEF IsStatic
  <2>2. ~About[text[1]].demo /\ ~About[text[1]].garbage BY <2>1, CvDocumentsAssumption
  <2> QED BY <2>1, <2>2 DEF Demo
<1> DEFINE kept == ValueTokens(values)
           A(n) == IF /\ Leaf(n) /\ n.tag \notin RawTags /\ n.slots[1] # <<>>
                      /\ ~IsStatic(n.slots[1]) /\ TokenSet(n.slots[1]) \cap kept = {}
                   THEN [n EXCEPT !.slots = << <<>> >>] ELSE n
           B(n) == IF /\ Leaf(n) /\ n.tag \notin RawTags /\ Demo(n.slots[1])
                      /\ TokenSet(n.slots[1]) \cap kept = {}
                   THEN [n EXCEPT !.slots = << <<>> >>] ELSE n
           C(text) == IF \E i \in DOMAIN text : About[text[i]].garbage THEN <<>> ELSE text
           D(n) == [n EXCEPT !.slots = [k \in DOMAIN n.slots |-> C(n.slots[k])]]
           a == [i \in DOMAIN doc.nodes |-> A(doc.nodes[i])]
           b == [i \in DOMAIN doc.nodes |-> B(doc.nodes[i])]
           d == [i \in DOMAIN doc.nodes |-> D(doc.nodes[i])]
           tail == [s \in DOMAIN doc.tail |-> C(doc.tail[s])]
<1>3. ClearMutableDemoLeafText(doc, values) = [doc EXCEPT !.nodes = a]
  BY DEF ClearMutableDemoLeafText, OnNodes
<1>4. ClearKnownDemoIdentityText(doc, values) = [doc EXCEPT !.nodes = b]
  BY DEF ClearKnownDemoIdentityText, OnNodes
<1>5. ClearKnownTemplateGarbageText(doc) = [[doc EXCEPT !.nodes = d] EXCEPT !.tail = tail]
  BY DEF ClearKnownTemplateGarbageText, OnText, OnNodes
<1>6. \A text \in Seq(V) : IsStatic(text) => C(text) = text BY <1>2
<1> HIDE DEF C
<1>7. ASSUME NEW n, NodeIn(n, V), NEW t, Stays(n, t)
      PROVE  Stays(A(n), t) /\ Stays(B(n), t) /\ Stays(D(n), t)
  <2>1. \A k \in DOMAIN n.slots : n.slots[k] \in Seq(V)
    BY <1>7, ElementOfSeq, LenProperties DEF NodeIn
  <2>2. Stays(A(n), t) BY <1>1, <1>7
  <2>3. Stays(B(n), t)
    <3>1. Leaf(n) => n.slots[1] \in Seq(V) BY <1>7, <2>1, LenProperties DEF NodeIn, Leaf
    <3>2. Leaf(n) /\ Demo(n.slots[1]) => ~IsStatic(n.slots[1]) BY <1>2, <3>1
    <3> QED BY <1>1, <1>7, <3>2
  <2>4. PICK slots : slots = [k \in DOMAIN n.slots |-> C(n.slots[k])] OBVIOUS
  <2>5. DOMAIN slots = DOMAIN t.slots BY <1>7, <2>4 DEF Stays
  <2>6. \A k \in DOMAIN t.slots : IsStatic(t.slots[k]) => slots[k] = t.slots[k]
    BY <1>6, <1>7, <2>1, <2>4 DEF Stays
  <2>7. Stays([n EXCEPT !.slots = slots], t) BY <1>7, <2>5, <2>6, TextsStay
  <2> QED BY <2>2, <2>3, <2>4, <2>7
<1> HIDE DEF A, B, D
<1>8. /\ a = [i \in DOMAIN doc.nodes |-> a[i]] /\ b = [i \in DOMAIN doc.nodes |-> b[i]]
      /\ d = [i \in DOMAIN doc.nodes |-> d[i]]
      /\ \A i \in DOMAIN T.nodes : /\ Stays(a[i], T.nodes[i]) /\ Stays(b[i], T.nodes[i])
                                   /\ Stays(d[i], T.nodes[i])
  BY <1>7 DEF Follows, DocIn
<1> HIDE DEF a, b, d, tail
<1>9. Follows([doc EXCEPT !.nodes = a], T) BY <1>8, ChangedFollows
<1>10. Follows([doc EXCEPT !.nodes = b], T) BY <1>8, ChangedFollows
<1>11. Follows([[doc EXCEPT !.nodes = d] EXCEPT !.tail = tail], T) BY <1>8, ChangedFollows
<1> QED BY <1>3, <1>4, <1>5, <1>9, <1>10, <1>11

\* A list item that is filled holds no label, and no inner tags.
LEMMA ItemsFollow ==
    ASSUME NEW V, NEW T, Keepable(T, V), NEW doc, DocIn(doc, V), Follows(doc, T),
           NEW title, NEW items
    PROVE  Follows(PopulateSectionListItems(doc, title, items), T)
<1> DEFINE Open(i) == LET n == doc.nodes[i] IN
               /\ n.sec \in TitledSections(doc, title) /\ n.tag = "li"
               /\ n.attr = <<>> /\ n.cls = {} /\ (Blank(TextOf(n)) \/ Demo(TextOf(n)))
           Index(i) == Cardinality({j \in 1..i : doc.nodes[j].sec = doc.nodes[i].sec /\ Open(j)})
           Item(i) == IF Index(i) <= Len(items) THEN items[Index(i)] ELSE <<>>
           New(i) == [doc.nodes[i] EXCEPT !.slots = <<Item(i)>>, !.inner = 0]
           made == [i \in DOMAIN doc.nodes |-> IF Open(i) THEN New(i) ELSE doc.nodes[i]]
<1>1. PopulateSectionListItems(doc, title, items)
          = IF items = <<>> THEN doc ELSE [doc EXCEPT !.nodes = made]
  BY DEF PopulateSectionListItems
<1> HIDE DEF Item
<1>2. ASSUME NEW i \in DOMAIN T.nodes, Open(i) PROVE Stays(New(i), T.nodes[i])
  <2>1. PICK n, t, item : n = doc.nodes[i] /\ t = T.nodes[i] /\ item = Item(i) OBVIOUS
  <2>2. Stays(n, t) /\ Steady(t) /\ NodeIn(n, V) BY <2>1 DEF Follows, Keepable, DocIn
  <2>3. n.tag = "li" /\ (Blank(TextOf(n)) \/ Demo(TextOf(n))) BY <1>2, <2>1
  <2>4. t.inner = 0 /\ DOMAIN t.slots = 1..1 /\ DOMAIN n.slots = 1..1 /\ n.inner = 0
    BY <2>2, <2>3 DEF Stays, Steady
  <2>5. n.slots \in Seq(Seq(V)) BY <2>2 DEF NodeIn
  <2>6. ~IsStatic(t.slots[1])
    <3> SUFFICES ASSUME IsStatic(t.slots[1]) PROVE FALSE OBVIOUS
    <3>1. PICK text : text = n.slots[1] OBVIOUS
    <3>2. IsStatic(text) /\ text \in Seq(V)
      BY <2>2, <2>4, <2>5, <3>1, ElementOfSeq, LenProperties DEF Stays
    <3>3. text[1] \in Labels /\ DOMAIN text = 1..1 /\ text = <<text[1]>>
      BY <3>2, LenProperties DEF IsStatic
    <3>4. PICK w, slots, all : w = text[1] /\ slots = n.slots /\ all = FlattenSeq(n.slots)
      OBVIOUS
    <3>5. w # " " /\ ~About[w].demo
      <4>1. w \in Labels BY <3>3, <3>4
      <4> QED BY <4>1, CvDocumentsAssumption
    <3>6. slots \in Seq(Seq({w}))
      <4>1. PICK S : S = Seq({w}) OBVIOUS
      <4>2. <<w>> \in Seq({w}) OBVIOUS
      <4>3. text \in S BY <3>3, <3>4, <4>1, <4>2
      <4>4. Len(slots) = 1
        <5>1. slots \in Seq(Seq(V)) /\ DOMAIN slots = 1..1 BY <2>4, <2>5, <3>4
        <5>2. Len(slots) \in Nat /\ DOMAIN slots = 1..Len(slots) BY <5>1, LenProperties
        <5> QED BY <5>1, <5>2
      <4>5. slots = <<text>> BY <2>5, <3>1, <3>4, <4>4
      <4>6. <<text>> \in Seq(S) BY <4>3
      <4> QED BY <4>1, <4>5, <4>6
    <3>7. all \in Seq({w}) BY <3>4, <3>6, FlattenIs
    <3>8. w \in ToSet(all)
      <4>1. 1 \in DOMAIN slots /\ w \in ToSet(slots[1]) BY <2>4, <3>1, <3>3, <3>4 DEF ToSet
      <4>2. ToSet(slots[1]) \subseteq ToSet(all) BY <3>4, <3>6, <4>1, FlattenIs
      <4> QED BY <4>1, <4>2
    <3>9. \A i1 \in DOMAIN all : all[i1] = w BY <3>7, ElementOfSeq, LenProperties
    <3>10. ~Blank(all) BY <3>5, <3>8, <3>9 DEF Blank, ToSet
    <3>11. ~Demo(all) BY <3>5, <3>9 DEF Demo
    <3> QED BY <2>3, <3>4, <3>10, <3>11 DEF TextOf
  <2>7. PICK new : new = [n EXCEPT !.slots = <<item>>, !.inner = 0] OBVIOUS
  <2>8. /\ DOMAIN new = DOMAIN n /\ new.tag = n.tag /\ new.cls = n.cls /\ new.attr = n.attr
        /\ new.inner = 0 /\ new.slots = <<item>>
    BY <2>2, <2>7 DEF Stays
  <2>9. DOMAIN <<item>> = 1..1 OBVIOUS
  <2>10. Stays(new, t) BY <2>2, <2>4, <2>6, <2>8, <2>9 DEF Stays
  <2> QED BY <2>1, <2>7, <2>10
<1> HIDE DEF Open, New
<1>3. /\ made = [i \in DOMAIN doc.nodes |-> made[i]]
      /\ \A i \in DOMAIN T.nodes : Stays(made[i], T.nodes[i])
  BY <1>2 DEF Follows
<1> HIDE DEF made
<1>4. Follows([doc EXCEPT !.nodes = made], T) BY <1>3, ChangedFollows
<1> QED BY <1>1, <1>4

\* What is appended to a section is outside its elements.
LEMMA SparseFollows ==
    ASSUME NEW T, NEW doc, Follows(doc, T), NEW title, NEW value
    PROVE  Follows(AppendToSparseSection(doc, title, value), T)
<1>1. PICK tail : AppendToSparseSection(doc, title, value) = [doc EXCEPT !.tail = tail]
  BY DEF AppendToSparseSection
<1>2. PICK new : new = [doc EXCEPT !.tail = tail] OBVIOUS
<1>3. DOMAIN new = DOMAIN doc /\ new.nodes = doc.nodes /\ new.fence = doc.fence
  BY <1>2 DEF Follows
<1>4. Follows(new, T) BY <1>3 DEF Follows
<1> QED BY <1>1, <1>2, <1>4

\* One pass of the renderer keeps the template.
LEMMA PassFollows ==
    ASSUME NEW V, NEW T, Keepable(T, V), NEW which, NEW doc, DocIn(doc, V), Follows(doc, T),
           NEW signal, NEW value,
           \/ which \in {"class", "empty", "sparse"} /\ value \in Seq(V)
           \/ which = "items" /\ value \in Seq(Seq(V))
    PROVE  Follows(Pass(which, doc, signal, value), T)
<1>1. CASE which = "class" BY <1>1, ByClassFollows DEF Pass
<1>2. CASE which = "empty" BY <1>2, ByClassFollows DEF Pass
<1>3. CASE which = "sparse" BY <1>3, SparseFollows DEF Pass
<1>4. CASE which = "items" BY <1>4, ItemsFollow DEF Pass
<1> QED BY <1>1, <1>2, <1>3, <1>4

\* And so do many, each on what the one before it made.
LEMMA TurnsFollow ==
    ASSUME NEW V, NEW T, Keepable(T, V), NEW which, NEW doc, DocIn(doc, V), Follows(doc, T),
           NEW passes, NEW n \in Nat, NEW f, Turns(f, which, doc, passes, n),
           \A k \in 1..n : \/ which \in {"class", "empty", "sparse"} /\ passes[k][2] \in Seq(V)
                           \/ which = "items" /\ passes[k][2] \in Seq(Seq(V))
    PROVE  Follows(f[n], T)
<1> DEFINE N == {k \in 0..n : DocIn(f[k], V) /\ Follows(f[k], T)}
<1>1. f[0] = doc BY DEF Turns
<1>2. 0 \in N BY <1>1
<1>3. ASSUME NEW k \in 1..n, k - 1 \in N PROVE k \in N
  <2>1. DocIn(f[k - 1], V) /\ Follows(f[k - 1], T) /\ k \in 0..n /\ k # 0 BY <1>3
  <2>2. f[k] = Pass(which, f[k - 1], passes[k][1], passes[k][2]) BY <2>1 DEF Turns
  <2>3. PICK p, signal, value : p = f[k - 1] /\ signal = passes[k][1] /\ value = passes[k][2]
    OBVIOUS
  <2>4. DocIn(Pass(which, p, signal, value), V) BY <2>1, <2>3, PassIn
  <2>5. Follows(Pass(which, p, signal, value), T) BY <2>1, <2>3, PassFollows
  <2> QED BY <2>1, <2>2, <2>3, <2>4, <2>5
<1> HIDE DEF N
<1>4. 0..n \subseteq N BY <1>2, <1>3, UpTo
<1>5. n \in N BY <1>4
<1> QED BY <1>5 DEF N

\* All passes with a text keep the template.
LEMMA InTurnFollow ==
    ASSUME NEW V, NEW T, Keepable(T, V), NEW doc, DocIn(doc, V), Follows(doc, T),
           NEW passes, NEW n \in Nat, n = Len(passes),
           \A k \in 1..n : passes[k][2] \in Seq(V)
    PROVE  /\ Follows(InTurn(ReplaceElementTextByClass, doc, passes), T)
           /\ Follows(InTurn(ReplaceEmptyElementByClass, doc, passes), T)
           /\ Follows(InTurn(AppendToSparseSection, doc, passes), T)
<1>1. ASSUME NEW which \in {"class", "empty", "sparse"}, NEW result,
             Made(which, doc, passes, n, result)
      PROVE  Follows(result, T)
  BY <1>1, TurnsFollow DEF Made
<1> QED BY <1>1, InTurnIs

\* And those with a list.
LEMMA ListsInTurnFollow ==
    ASSUME NEW V, NEW T, Keepable(T, V), NEW doc, DocIn(doc, V), Follows(doc, T),
           NEW passes, NEW n \in Nat, n = Len(passes),
           \A k \in 1..n : passes[k][2] \in Seq(Seq(V))
    PROVE  Follows(InTurn(PopulateSectionListItems, doc, passes), T)
<1>1. ASSUME NEW result, Made("items", doc, passes, n, result) PROVE Follows(result, T)
  BY <1>1, TurnsFollow DEF Made
<1> QED BY <1>1, InTurnIs

\* The renderer keeps the template it fills.
LEMMA RenderedFollows ==
    ASSUME NEW V, NEW T, Keepable(T, V), NEW doc, DocIn(doc, V), Follows(doc, T),
           NEW values, ValuesIn(values, V)
    PROVE  Follows(RenderSemanticCvFallback(doc, values), T)
<1>1. PICK p, c, g, s, l : /\ p = IdentityPasses(values) /\ c = ContactPasses(values)
                           /\ g = RegionPasses(values) /\ s = SectionPasses(values)
                           /\ l = ListPasses(values)
  OBVIOUS
<1>2. /\ Len(p) = 5 /\ \A k \in 1..5 : p[k][2] \in Seq(V)
      /\ Len(c) = 7 /\ \A k \in 1..7 : c[k][2] \in Seq(V)
      /\ Len(g) = 8 /\ \A k \in 1..8 : g[k][2] \in Seq(V)
      /\ Len(s) = 12 /\ \A k \in 1..12 : s[k][2] \in Seq(V)
      /\ Len(l) = 9 /\ \A k \in 1..9 : l[k][2] \in Seq(Seq(V))
  BY <1>1, PassesAre
<1> DEFINE Fits(d) == DocIn(d, V) /\ Follows(d, T)
<1>3. PICK named : named = InTurn(ReplaceElementTextByClass, doc, p) OBVIOUS
<1>4. Fits(named) BY <1>2, <1>3, InTurnIn, InTurnFollow
<1>5. PICK contact : contact = ReplaceContactInfo(named, values) OBVIOUS
<1>6. Fits(contact) BY <1>4, <1>5, ContactIn, ContactFollows
<1>7. PICK reached : reached = InTurn(ReplaceElementTextByClass, contact, c) OBVIOUS
<1>8. Fits(reached) BY <1>2, <1>6, <1>7, InTurnIn, InTurnFollow
<1>9. PICK cleared : cleared = ClearMutableDemoLeafText(reached, values) OBVIOUS
<1>10. Fits(cleared) BY <1>8, <1>9, ClearedIn, ClearedFollows
<1>11. PICK filled : filled = InTurn(ReplaceEmptyElementByClass, cleared, g) OBVIOUS
<1>12. Fits(filled) BY <1>2, <1>10, <1>11, InTurnIn, InTurnFollow
<1>13. PICK tidy : tidy = ClearKnownTemplateGarbageText(filled) OBVIOUS
<1>14. Fits(tidy) BY <1>12, <1>13, ClearedIn, ClearedFollows
<1>15. PICK cleaned : cleaned = ClearKnownDemoIdentityText(tidy, values) OBVIOUS
<1>16. Fits(cleaned) BY <1>14, <1>15, ClearedIn, ClearedFollows
<1>17. PICK listed : listed = InTurn(PopulateSectionListItems, cleaned, l) OBVIOUS
<1>18. Fits(listed) BY <1>2, <1>16, <1>17, ListsInTurnIn, ListsInTurnFollow
<1>19. Follows(InTurn(AppendToSparseSection, listed, s), T) BY <1>2, <1>18, InTurnFollow
<1>20. RenderSemanticCvFallback(doc, values) = InTurn(AppendToSparseSection, listed, s)
  BY <1>1, <1>3, <1>5, <1>7, <1>9, <1>11, <1>13, <1>15, <1>17 DEF RenderSemanticCvFallback
<1> QED BY <1>19, <1>20

\* An element of a normalised template.
Element(n) ==
    /\ DOMAIN n = {"tag", "cls", "attr", "sec", "slots", "inner", "closed"}
    /\ n.inner \in Nat /\ ToSet(n.attr) \cap Secrets = {}
    /\ n.attr \in Texts /\ n.slots \in Seq(Texts) /\ DOMAIN n.slots = 1..(n.inner + 1)

Elements(T) ==
    /\ DOMAIN T = {"nodes", "tail", "fence"} /\ T.nodes \in Seq(ToSet(T.nodes))
    /\ \A i \in DOMAIN T.nodes : Element(T.nodes[i])

\* What normalizeHtmlTemplate leaves are elements without secrets.
LEMMA NormalizedElements ==
    ASSUME NEW doc, IsDocument(doc) PROVE Elements(NormalizeHtmlTemplate(doc))
<1> DEFINE Kept(text) == Keep(text, Harmless)
           passives == {n \in ToSet(doc.nodes) : ~Removed(n)}
           left == Keep(doc.nodes, passives)
           passive == [doc EXCEPT !.nodes = left]
           Clear(n) == [n EXCEPT !.slots = [k \in DOMAIN n.slots |-> Kept(n.slots[k])]]
           made == [i \in DOMAIN passive.nodes |-> Clear(passive.nodes[i])]
           tail == [s \in DOMAIN passive.tail |-> Kept(passive.tail[s])]
           clear == [[passive EXCEPT !.nodes = made] EXCEPT !.tail = tail]
           Bare(n) == [n EXCEPT !.attr = Kept(n.attr)]
           bare == [i \in DOMAIN clear.nodes |-> Bare(clear.nodes[i])]
<1>1. NormalizeHtmlTemplate(doc) = [clear EXCEPT !.nodes = bare]
  BY DEF NormalizeHtmlTemplate, OnNodes, OnText
<1>2. /\ DOMAIN doc = {"nodes", "tail", "fence"} /\ doc.nodes \in Seq(ToSet(doc.nodes))
  BY DEF IsDocument
<1>3. \A i \in DOMAIN left : left[i] \in passives
  <2>1. left \in Seq(ToSet(doc.nodes) \cap passives) BY <1>2, KeepIs
  <2> HIDE DEF left, passives
  <2> QED BY <2>1, ElementOfSeq, LenProperties
<1>4. \A text \in Texts : Kept(text) \in Texts /\ ToSet(Kept(text)) \cap Secrets = {}
  <2> TAKE text \in Texts
  <2>1. PICK kept : kept = Kept(text) OBVIOUS
  <2>2. kept \in Seq(DOMAIN About \cap Harmless) BY <2>1, KeepIs DEF Texts
  <2>3. ToSet(kept) \subseteq Harmless BY <2>2, TextWords
  <2>4. kept \in Texts BY <2>1, KeepStays DEF Texts
  <2> QED BY <2>1, <2>3, <2>4 DEF Harmless
<1> HIDE DEF Kept
<1>5. ASSUME NEW n \in passives PROVE Element(Bare(Clear(n)))
  <2>1. /\ DOMAIN n = {"tag", "cls", "attr", "sec", "slots", "inner", "closed"}
        /\ n.slots \in Seq(Texts) /\ n.attr \in Texts
        /\ n.inner \in Nat /\ Len(n.slots) = n.inner + 1
    BY DEF IsDocument, ToSet
  <2>2. PICK slots : slots = [k \in DOMAIN n.slots |-> Kept(n.slots[k])] OBVIOUS
  <2>3. slots \in Seq(Texts) /\ DOMAIN slots = 1..(n.inner + 1)
    <3>1. slots = [k \in DOMAIN n.slots |-> slots[k]] BY <2>2
    <3>2. \A k \in DOMAIN n.slots : slots[k] \in Texts
      BY <1>4, <2>1, <2>2, ElementOfSeq, LenProperties
    <3>3. slots \in Seq(Texts) /\ DOMAIN slots = DOMAIN n.slots BY <2>1, <3>1, <3>2, MappedList
    <3> QED BY <2>1, <3>3, LenProperties
  <2>4. PICK attr : attr = Kept(n.attr) OBVIOUS
  <2>5. attr \in Texts /\ ToSet(attr) \cap Secrets = {} BY <1>4, <2>1, <2>4
  <2>6. PICK new : new = [[n EXCEPT !.slots = slots] EXCEPT !.attr = attr] OBVIOUS
  <2>7. Bare(Clear(n)) = new BY <2>1, <2>2, <2>4, <2>6
  <2>8. /\ DOMAIN new = DOMAIN n /\ new.tag = n.tag /\ new.inner = n.inner
        /\ new.attr = attr /\ new.slots = slots
    BY <2>1, <2>6
  <2> QED BY <2>1, <2>3, <2>5, <2>7, <2>8 DEF Element
<1>6. passive.nodes = left /\ DOMAIN passive = DOMAIN doc BY <1>2
<1> HIDE DEF passive, tail, passives
<1>7. clear.nodes = made /\ DOMAIN clear = DOMAIN doc BY <1>2, <1>6
<1>8. made = [i \in DOMAIN left |-> Clear(left[i])] BY <1>6
<1> HIDE DEF made
<1>9. bare = [i \in DOMAIN left |-> Bare(Clear(left[i]))] BY <1>7, <1>8
<1>10. PICK new : new = [clear EXCEPT !.nodes = bare] OBVIOUS
<1>11. new.nodes = bare /\ DOMAIN new = DOMAIN doc BY <1>2, <1>7, <1>10
<1> HIDE DEF bare, clear, Bare, Clear
<1>12. left \in Seq(ToSet(doc.nodes)) BY <1>2, KeepStays
<1> HIDE DEF left
<1>13. \A i \in DOMAIN left : bare[i] = Bare(Clear(left[i])) BY <1>9
<1>14. DOMAIN bare = DOMAIN left /\ \A i \in DOMAIN bare : Element(bare[i])
  BY <1>3, <1>5, <1>9, <1>13
<1>15. bare \in Seq(ToSet(bare))
  <2>1. bare = [i \in DOMAIN left |-> bare[i]] BY <1>9, <1>13
  <2>2. \A i \in DOMAIN left : bare[i] \in ToSet(bare) BY <1>14 DEF ToSet
  <2> QED BY <1>12, <2>1, <2>2, MappedList
<1> QED BY <1>1, <1>2, <1>10, <1>11, <1>14, <1>15 DEF Elements

\* A text without placeholders is not filled.
LEMMA NothingFilled ==
    ASSUME NEW W, NEW text \in Seq(W), NEW values,
           \A i \in DOMAIN text : About[text[i]].slot = Absent
    PROVE  FillText(text, values) = text
<1>1. PICK ss : ss = [i \in DOMAIN text |-> <<text[i]>>] OBVIOUS
<1>2. FillText(text, values) = FlattenSeq(ss)
  <2>1. ss = [i \in DOMAIN text |->
                 LET slot == About[text[i]].slot
                 IN IF slot = Absent THEN <<text[i]>> ELSE ReadKey(values, slot)]
    BY <1>1
  <2> QED BY <2>1 DEF FillText, Absent
<1> DEFINE n == Len(text)
<1>3. n \in Nat /\ DOMAIN text = 1..n /\ \A i \in 1..n : text[i] \in W
  BY LenProperties, ElementOfSeq
<1>4. ss \in Seq(Seq(W)) /\ Len(ss) = n
  <2>1. \A i \in DOMAIN text : ss[i] \in Seq(W) BY <1>1, <1>3
  <2>2. ss = [i \in DOMAIN text |-> ss[i]] BY <1>1
  <2> QED BY <2>1, <2>2, MappedList
<1>5. CASE n = 0
  <2>1. FlattenSeq(ss) = ss BY <1>4, <1>5 DEF FlattenSeq
  <2>2. ss = <<>> /\ text = <<>> BY <1>4, <1>5, EmptySeq
  <2> QED BY <1>2, <2>1, <2>2
<1>6. CASE n # 0
  <2>1. PICK f : /\ FlattenSeq(ss) = f[n] /\ f[1] = ss[1]
                 /\ \A k \in 2..n : f[k] = f[k - 1] \o ss[k]
    <3>1. PICK m : m = n OBVIOUS
    <3>2. Len(ss) = m /\ Len(ss) # 0 BY <1>4, <1>6, <3>1
    <3>3. \E f : /\ FlattenSeq(ss) = f[Len(ss)] /\ f[1] = ss[1]
                 /\ \A k \in 2..Len(ss) : f[k] = f[k - 1] \o ss[k]
      BY <1>4, <3>2, FlattenSteps
    <3> HIDE DEF n
    <3> QED BY <3>1, <3>2, <3>3
  <2> DEFINE Is(k) == f[k] \in Seq(W) /\ Len(f[k]) = k /\ \A i \in 1..k : f[k][i] = text[i]
             N == {k \in 0..n : k = 0 \/ Is(k)}
  <2>2. 0 \in N BY <1>3
  <2>3. ASSUME NEW k \in 1..n, k - 1 \in N PROVE k \in N
    <3>1. ss[k] = <<text[k]>> /\ text[k] \in W BY <1>1, <1>3
    <3>2. CASE k = 1
      <4>1. f[1] = <<text[1]>> BY <2>1, <3>1, <3>2
      <4>2. <<text[1]>> \in Seq(W) /\ Len(<<text[1]>>) = 1 BY <3>1, <3>2
      <4>3. Is(1) BY <4>1, <4>2
      <4> HIDE DEF Is
      <4> QED BY <1>3, <3>2, <4>3
    <3>3. CASE k # 1
      <4>1. k - 1 # 0 /\ k \in 2..n /\ k \in 0..n BY <1>3, <3>3
      <4>2. Is(k - 1) BY <2>3, <4>1
      <4>3. PICK a, b, c : a = f[k - 1] /\ b = ss[k] /\ c = f[k] OBVIOUS
      <4>4. a \in Seq(W) /\ Len(a) = k - 1 /\ \A i \in 1..(k - 1) : a[i] = text[i]
        BY <4>2, <4>3
      <4>5. b \in Seq(W) /\ Len(b) = 1 /\ b[1] = text[k] BY <3>1, <4>3
      <4>6. c = a \o b BY <2>1, <4>1, <4>3
      <4>7. /\ c \in Seq(W) /\ Len(c) = Len(a) + Len(b)
            /\ \A i \in 1..Len(a) + Len(b) : c[i] = IF i <= Len(a) THEN a[i] ELSE b[i - Len(a)]
        BY <4>4, <4>5, <4>6, ConcatProperties
      <4>8. Len(c) = k BY <4>1, <4>4, <4>5, <4>7
      <4>9. ASSUME NEW i \in 1..k PROVE c[i] = text[i]
        <5>1. i \in 1..(Len(a) + Len(b)) BY <4>1, <4>4, <4>5
        <5>2. CASE i = k
          <6>1. ~(i <= Len(a)) /\ i - Len(a) = 1 BY <4>1, <4>4, <5>2
          <6> QED BY <4>5, <4>7, <5>1, <5>2, <6>1
        <5>3. CASE i # k
          <6>1. i <= Len(a) /\ i \in 1..(k - 1) BY <4>1, <4>4, <5>3
          <6> QED BY <4>4, <4>7, <5>1, <6>1
        <5> QED BY <5>2, <5>3
      <4>10. Is(k) BY <4>3, <4>7, <4>8, <4>9
      <4> HIDE DEF Is
      <4> QED BY <4>1, <4>10
    <3> QED BY <3>2, <3>3
  <2> HIDE DEF N
  <2>4. 0..n \subseteq N BY <1>3, <2>2, <2>3, UpTo
  <2>5. n \in N BY <1>3, <2>4
  <2>6. f[n] \in Seq(W) /\ Len(f[n]) = n /\ \A i \in 1..n : f[n][i] = text[i]
    BY <1>6, <2>5 DEF N
  <2>7. PICK g : g = f[n] OBVIOUS
  <2>8. g = text BY <2>6, <2>7, SeqEqual
  <2> QED BY <1>2, <2>1, <2>7, <2>8
<1> QED BY <1>3, <1>5, <1>6

\* What the renderer starts from.
LEMMA FilledFollows ==
    ASSUME NEW T, Elements(T), \A w \in Attributes(T) : About[w].slot = Absent, NEW values
    PROVE  Follows(FillPlaceholders(T, values), T)
<1> DEFINE Told(text) == FillText(text, values)
           Clear(n) == [n EXCEPT !.slots = [k \in DOMAIN n.slots |-> Told(n.slots[k])]]
           made == [i \in DOMAIN T.nodes |-> Clear(T.nodes[i])]
           tail == [s \in DOMAIN T.tail |-> Told(T.tail[s])]
           clear == [[T EXCEPT !.nodes = made] EXCEPT !.tail = tail]
           Bare(n) == [n EXCEPT !.attr = Told(n.attr)]
           bare == [i \in DOMAIN clear.nodes |-> Bare(clear.nodes[i])]
<1>1. FillPlaceholders(T, values) = [clear EXCEPT !.nodes = bare]
  BY DEF FillPlaceholders, OnNodes, OnText
<1>2. \A text \in Texts : (\A i \in DOMAIN text : About[text[i]].slot = Absent)
                             => Told(text) = text
  BY NothingFilled DEF Texts
<1> HIDE DEF Told
<1>3. ASSUME NEW text \in Texts, IsStatic(text) PROVE Told(text) = text
  <2>1. text[1] \in Labels /\ DOMAIN text = 1..1
    BY <1>3, LenProperties DEF IsStatic, Texts
  <2>2. About[text[1]].slot = Absent BY <2>1, CvDocumentsAssumption DEF Absent
  <2> QED BY <1>2, <1>3, <2>1, <2>2
<1>4. ASSUME NEW n, Element(n), \A k \in DOMAIN n.attr : About[n.attr[k]].slot = Absent
      PROVE  Stays(Bare(Clear(n)), n)
  <2>1. PICK slots, attr : /\ slots = [k \in DOMAIN n.slots |-> Told(n.slots[k])]
                           /\ attr = Told(n.attr)
    OBVIOUS
  <2>2. attr = n.attr BY <1>2, <1>4, <2>1 DEF Element
  <2>3. \A k \in DOMAIN n.slots : IsStatic(n.slots[k]) => slots[k] = n.slots[k]
    BY <1>3, <1>4, <2>1, ElementOfSeq, LenProperties DEF Element
  <2>4. PICK new : new = [[n EXCEPT !.slots = slots] EXCEPT !.attr = attr] OBVIOUS
  <2>5. Bare(Clear(n)) = new BY <1>4, <2>1, <2>4 DEF Element
  <2>6. /\ DOMAIN new = DOMAIN n /\ new.tag = n.tag /\ new.cls = n.cls /\ new.attr = attr
        /\ new.inner = n.inner /\ new.slots = slots
    BY <1>4, <2>4 DEF Element
  <2>7. DOMAIN slots = DOMAIN n.slots BY <2>1
  <2>8. DOMAIN n = {"tag", "cls", "attr", "sec", "slots", "inner", "closed"} BY <1>4 DEF Element
  <2> QED BY <2>2, <2>3, <2>5, <2>6, <2>7, <2>8 DEF Stays
<1>5. ASSUME NEW i \in DOMAIN T.nodes PROVE Stays(Bare(Clear(T.nodes[i])), T.nodes[i])
  <2>1. PICK n : n = T.nodes[i] OBVIOUS
  <2>2. \A k \in DOMAIN n.attr : n.attr[k] \in Attributes(T) BY <2>1 DEF Attributes, ToSet
  <2>3. Stays(Bare(Clear(n)), n) BY <1>4, <2>1, <2>2 DEF Elements
  <2> QED BY <2>1, <2>3
<1>6. clear.nodes = made /\ DOMAIN clear = DOMAIN T /\ clear.fence = T.fence BY DEF Elements
<1> HIDE DEF clear, Bare, Clear
<1>7. /\ bare = [i \in DOMAIN T.nodes |-> bare[i]]
      /\ \A i \in DOMAIN T.nodes : bare[i] = Bare(Clear(T.nodes[i]))
  BY <1>6
<1>8. PICK new : new = [clear EXCEPT !.nodes = bare] OBVIOUS
<1>9. new.nodes = bare /\ DOMAIN new = DOMAIN T /\ new.fence = T.fence
  BY <1>6, <1>8 DEF Elements
<1> HIDE DEF bare, made
<1>10. DOMAIN bare = DOMAIN T.nodes BY <1>7
<1> QED BY <1>1, <1>5, <1>7, <1>8, <1>9, <1>10 DEF Follows, Elements

\* The templates that do not resist are kept.
LEMMA ResistsOrKept ==
    ASSUME NEW T, Elements(T), ~TemplateResists(T), NEW V, \A w \in V : ~About[w].dollar
    PROVE  Keepable(T, V)
<1>1. ASSUME NEW i \in DOMAIN T.nodes PROVE Steady(T.nodes[i])
  <2>1. PICK n, slots : n = T.nodes[i] /\ slots = n.slots OBVIOUS
  <2>2. Element(n) BY <2>1 DEF Elements
  <2>3. /\ ~(n.tag = "li" /\ n.inner > 0)
        /\ ~(n.cls # {} /\ ToSet(TextOf(n)) \cap Labels # {})
    BY <2>1 DEF TemplateResists
  <2>4. n.tag = "li" => n.inner = 0 BY <2>2, <2>3 DEF Element
  <2>5. ASSUME NEW k \in DOMAIN slots, IsStatic(slots[k]) PROVE n.cls = {}
    <3>1. PICK text : text = slots[k] OBVIOUS
    <3>2. slots \in Seq(Seq(DOMAIN About)) BY <2>1, <2>2 DEF Element, Texts
    <3>3. text \in Seq(DOMAIN About) BY <3>1, <3>2, ElementOfSeq, LenProperties
    <3>4. text[1] \in Labels /\ text[1] \in ToSet(text)
      BY <2>5, <3>1, <3>3, LenProperties DEF IsStatic, ToSet
    <3>5. ToSet(text) \subseteq ToSet(FlattenSeq(slots)) BY <3>1, <3>2, FlattenIs
    <3> QED BY <2>1, <2>3, <3>4, <3>5 DEF TextOf
  <2> QED BY <2>1, <2>2, <2>4, <2>5 DEF Steady, Element
<1> QED BY <1>1 DEF Keepable

\* Labels that are there and not lost.
LEMMA LabelsStay ==
    ASSUME NEW T, Elements(T), ~TemplateResists(T), NEW V, NEW doc, DocIn(doc, V), Follows(doc, T)
    PROVE  RequiredStaticText(T) \subseteq Words(doc)
<1> SUFFICES ASSUME NEW w \in Labels, NEW i \in DOMAIN T.nodes,
                    NEW k \in DOMAIN T.nodes[i].slots,
                    Keep(T.nodes[i].slots[k], NoSlot) = <<w>>
             PROVE  w \in Words(doc)
  BY DEF RequiredStaticText
<1>1. PICK t, n, text, kept : /\ t = T.nodes[i] /\ n = doc.nodes[i] /\ text = t.slots[k]
                              /\ kept = Keep(text, NoSlot)
  OBVIOUS
<1>2. Element(t) /\ Stays(n, t) /\ NodeIn(n, V) BY <1>1 DEF Elements, Follows, DocIn
<1>3. text \in Seq(DOMAIN About) /\ Len(text) \in Nat
  BY <1>1, <1>2, ElementOfSeq, LenProperties DEF Element, Texts
<1>4. kept = <<w>> /\ IsStatic(kept) BY <1>1 DEF IsStatic
<1>5. Len(text) <= 1
  <2>1. ~(Len(text) > 1 /\ IsStatic(kept)) BY <1>1 DEF TemplateResists
  <2> QED BY <1>3, <1>4, <2>1
<1>6. Len(kept) <= Len(text) BY <1>1, <1>3, KeepIs
<1>7. Len(text) = 1 BY <1>3, <1>4, <1>5, <1>6
<1>8. text = <<text[1]>> BY <1>3, <1>7
<1>9. PICK v : v = text[1] OBVIOUS
<1>10. text \in Seq({v})
  <2>1. <<v>> \in Seq({v}) OBVIOUS
  <2>2. text = <<v>> BY <1>8, <1>9
  <2> QED BY <2>1, <2>2
<1>11. kept \in Seq({v}) BY <1>1, <1>10, KeepStays
<1>12. w = v BY <1>4, <1>11
<1>13. IsStatic(text) BY <1>7, <1>9, <1>12 DEF IsStatic
<1>14. n.slots[k] = text BY <1>1, <1>2, <1>13 DEF Stays
<1>15. PICK slots : slots = n.slots OBVIOUS
<1>16. slots \in Seq(Seq(V)) /\ k \in DOMAIN slots BY <1>1, <1>2, <1>15 DEF NodeIn, Stays
<1>17. ToSet(slots[k]) \subseteq ToSet(FlattenSeq(slots)) BY <1>16, FlattenIs
<1>18. w \in ToSet(slots[k])
  BY <1>3, <1>7, <1>9, <1>12, <1>14, <1>15, LenProperties DEF ToSet
<1>19. i \in DOMAIN doc.nodes BY DEF Follows
<1>20. ToSet(TextOf(n)) \subseteq Words(doc) BY <1>1, <1>19, WordsAre
<1> QED BY <1>15, <1>17, <1>18, <1>20 DEF TextOf

\* A document that follows a template is accepted in its place.
LEMMA FollowsIsAccepted ==
    ASSUME NEW template, NEW T, Elements(T), ~TemplateResists(T), NEW V,
           \A w \in V : ~About[w].forbidden, V \cap SecretsIn(template) = {},
           NEW doc, DocIn(doc, V), Follows(doc, T)
    PROVE  Acceptable(doc, template) /\ ValidateTemplateStructure(T, doc)
<1>1. Words(doc) \subseteq V BY WordsOfDoc
<1>2. \A i \in DOMAIN T.nodes : /\ doc.nodes[i].tag = T.nodes[i].tag
                                /\ doc.nodes[i].cls = T.nodes[i].cls
                                /\ doc.nodes[i].attr = T.nodes[i].attr
                                /\ doc.nodes[i].inner = T.nodes[i].inner
  BY DEF Follows, Stays
<1>3. DOMAIN doc.nodes = DOMAIN T.nodes /\ doc.fence = T.fence BY DEF Follows
<1>4. doc.nodes # <<>> /\ T.nodes # <<>>
  <2>1. T.nodes # <<>> BY DEF TemplateResists
  <2>2. PICK S, list : S = ToSet(T.nodes) /\ list = T.nodes OBVIOUS
  <2>3. list \in Seq(S) /\ list # <<>> BY <2>1, <2>2 DEF Elements
  <2>4. 1 \in DOMAIN list BY <2>3, LenProperties, EmptySeq
  <2>5. DOMAIN <<>> = {} OBVIOUS
  <2> QED BY <1>3, <2>1, <2>2, <2>4, <2>5
<1>5. Attributes(doc) = Attributes(T) BY <1>2, <1>3 DEF Attributes
<1>6. \A i \in DOMAIN doc.nodes : doc.nodes[i].tag \notin ActiveTags
  BY <1>2, <1>3 DEF TemplateResists
<1>7. doc.fence = "none" BY <1>3 DEF TemplateResists
<1>8. \A w \in Words(doc) \cup Attributes(doc) : ~About[w].forbidden
  BY <1>1, <1>5 DEF TemplateResists
<1>9. IsSafeMarkdown(doc) BY <1>4, <1>6, <1>7, <1>8 DEF IsSafeMarkdown
<1>10. ~LeaksTemplateOnlySecret(doc, template)
  <2>1. Attributes(doc) \cap Secrets = {} BY <1>5 DEF Attributes, Elements, Element
  <2> QED BY <1>1, <2>1 DEF LeaksTemplateOnlySecret, SecretsIn
<1>11. /\ Len(T.nodes) = Len(doc.nodes)
       /\ \A i \in DOMAIN T.nodes : KeepsSignature(T.nodes[i], doc.nodes[i])
  <2>1. /\ T.nodes \in Seq(ToSet(T.nodes)) /\ doc.nodes \in Seq(ToSet(doc.nodes))
    BY DEF Elements, DocIn
  <2>2. PICK a, b : a = T.nodes /\ b = doc.nodes OBVIOUS
  <2>3. Len(a) = Len(b) BY <1>3, <2>1, <2>2, LenProperties
  <2> QED BY <1>2, <2>2, <2>3 DEF KeepsSignature
<1>12. RequiredStaticText(T) \subseteq Words(doc) BY LabelsStay
<1> QED BY <1>4, <1>9, <1>10, <1>11, <1>12 DEF Acceptable, ValidateTemplateStructure

\* A template that does not resist it has no placeholder that throws.
LEMMA NothingThrows ==
    ASSUME NEW template, ~TemplateResists(NormalizeHtmlTemplate(template))
    PROVE  ~RenderThrows(template)
BY DEF TemplateResists, RenderThrows

\* The fallback is accepted.
LEMMA FallbackIsAcceptable ==
    ASSUME NEW q, q.input \in Inputs, q.input.kind = "generate",
           NEW stored, \A i \in DOMAIN stored : HasTexts(stored[i].response),
           Evidence(q.latest, q.input, stored), ~Resisted(q.input, stored)
    PROVE  LET doc == Fallback(q, Prepared(q))
           IN /\ Acceptable(doc, q.input.template)
              /\ ValidateTemplateStructure(NormalizeHtmlTemplate(q.input.template), doc)
<1>1. PICK V, prepared, summary, template :
          /\ V = Own(q.input, stored) \cap DOMAIN About /\ prepared = Prepared(q)
          /\ summary = q.input.summary /\ template = q.input.template
  OBVIOUS
<1>2. PICK private, shared : private = prepared.private /\ shared = prepared.shared OBVIOUS
<1>3. PICK T, values : /\ T = NormalizeHtmlTemplate(template)
                       /\ values = BuildPlaceholderValues(summary, shared, private)
  OBVIOUS
<1>4. DocIn(T, V) /\ ValuesIn(values, V) BY <1>1, <1>2, <1>3, MadeOfOwn
<1>5. Elements(T)
  <2>1. IsDocument(template) BY <1>1, InputsAssumption
  <2> QED BY <1>3, <2>1, NormalizedElements
<1>6. ~TemplateResists(T) BY <1>1, <1>3 DEF Resisted
<1>7. \A w \in V : ~About[w].dollar /\ ~About[w].forbidden /\ w \notin SecretsIn(template)
  BY <1>1 DEF Resisted
<1>8. Keepable(T, V) BY <1>5, <1>6, <1>7, ResistsOrKept
<1>9. PICK filled : filled = FillPlaceholders(T, values) OBVIOUS
<1>10. Follows(filled, T)
  <2>1. \A w \in Attributes(T) : About[w].slot = Absent BY <1>6 DEF TemplateResists, Absent
  <2> QED BY <1>5, <1>9, <2>1, FilledFollows
<1>11. DocIn(filled, V) BY <1>4, <1>9, FilledIn
<1>12. PICK doc : doc = RenderSemanticCvFallback(filled, values) OBVIOUS
<1>13. DocIn(doc, V) /\ Follows(doc, T)
  BY <1>4, <1>8, <1>10, <1>11, <1>12, RenderedIn, RenderedFollows
<1>14. V \cap SecretsIn(template) = {} BY <1>7
<1>15. Acceptable(doc, template) /\ ValidateTemplateStructure(T, doc)
  BY <1>5, <1>6, <1>7, <1>13, <1>14, FollowsIsAccepted
<1>16. doc = Fallback(q, prepared)
  BY <1>1, <1>2, <1>3, <1>9, <1>12 DEF Fallback, RenderDeterministicCvMarkdown
<1> QED BY <1>1, <1>3, <1>15, <1>16

-----------------------------------------------------------------------------
(* Responses and sequences.                                                *)

\* Whatever passed the validation is as the Model API scored it.
LEMMA ValidAsScored ==
    ASSUME NEW a, ValidatePublicResponse(a.response, a.core) PROVE AsScored(a)
BY DEF ValidatePublicResponse, ResponseSchema, AssertPublicCvAnalysisSafety, AsScored

\* buildPublicCvAnalysisResponse returns only what passed it.
LEMMA PublicIsValid ==
    ASSUME NEW core, NEW candidates, NEW wrapped,
           NEW response \in BuildPublicResponse(core, candidates, wrapped)
    PROVE  ValidatePublicResponse(response, core)
BY DEF BuildPublicResponse

\* It returns none only for a ranking that is thrown out, for six long skills,
\* for blanks around the model's name or for a word that no sentence may end
\* with: whatever the wrapper wrote, the response made of the scores
\* alone is valid.
LEMMA NoneIsExcused ==
    ASSUME NEW core, CoreOK(core), NEW input, NEW wrapped,
           BuildPublicResponse(core, FindCandidateJobs(input), wrapped) = {}
    PROVE  Excused(core, input)
<1>1. CASE ~RankingIsValid(core, FindCandidateJobs(input))
  BY <1>1 DEF RankingIsValid, Excused
<1>2. CASE RankingIsValid(core, FindCandidateJobs(input))
  <2>1. PICK fallback : fallback = BuildDeterministicResponse(core) OBVIOUS
  <2>2. ~ValidatePublicResponse(fallback, core) BY <1>2, <2>1 DEF BuildPublicResponse
  <2> QED BY <2>1, <2>2, DeterministicValid DEF Excused
<1> QED BY <1>1, <1>2

\* Storing one more analysis.
LEMMA StoredGrows ==
    ASSUME NEW stored, StoredOK(stored), NEW a, a.file \in Files, AsScored(a)
    PROVE  StoredOK(Append(stored, a)) /\ Extends(Append(stored, a), stored)
<1> DEFINE more == Append(stored, a)  S == ToSet(stored) \cup {a}
<1>1. stored \in Seq(ToSet(stored)) BY DEF StoredOK
<1>2. stored \in Seq(S) /\ a \in S BY <1>1, SeqMonotonic
<1>3. /\ more \in Seq(S) /\ Len(more) = Len(stored) + 1
      /\ \A i \in 1..Len(stored) : more[i] = stored[i]
      /\ more[Len(stored) + 1] = a
  BY <1>2, AppendProperties
<1>4. /\ Len(stored) \in Nat /\ DOMAIN stored = 1..Len(stored)
      /\ DOMAIN more = 1..(Len(stored) + 1)
  BY <1>2, <1>3, LenProperties
<1>5. more \in Seq(ToSet(more))
  BY <1>3, SeqOfRange DEF Range, ToSet
<1>6. ASSUME NEW i \in DOMAIN more PROVE more[i].file \in Files /\ AsScored(more[i])
  <2>1. CASE i \in 1..Len(stored) BY <2>1, <1>3, <1>4 DEF StoredOK
  <2>2. CASE i = Len(stored) + 1 BY <2>2, <1>3
  <2> QED BY <1>4, <1>6, <2>1, <2>2
<1>7. Extends(more, stored) BY <1>3, <1>4 DEF Extends
<1> QED BY <1>5, <1>6, <1>7 DEF StoredOK

\* A page of a list of rows is made of those rows.
LEMMA PageOfRows ==
    ASSUME NEW rows, IsFiniteSet(rows), NEW order \in SetToSeqs(rows),
           NEW skip \in Nat, NEW limit \in Nat
    PROVE  ToSet(Take(SubSeq(order, skip + 1, Len(order)), limit)) \subseteq rows
<1>1. Cardinality(rows) \in Nat BY FS_CardinalityType
<1>2. order \in Seq(rows) BY <1>1, SeqDef DEF SetToSeqs
<1>3. ASSUME NEW s \in Seq(rows), NEW m \in 1..(Len(s) + 1), NEW n \in 0..Len(s)
      PROVE  SubSeq(s, m, n) \in Seq(rows)
  BY <1>3, SubSeqProperties, LenProperties
<1> DEFINE rest == SubSeq(order, skip + 1, Len(order))
<1>4. rest \in Seq(rows)
  <2>1. Len(order) \in Nat BY <1>2, LenProperties
  <2>2. CASE skip + 1 <= Len(order) + 1 BY <2>1, <2>2, <1>2, <1>3
  <2>3. CASE skip + 1 > Len(order) + 1
    <3>1. rest = <<>> BY <2>1, <2>3, <1>2, SubSeqEmpty
    <3> QED BY <3>1, EmptySeq
  <2> QED BY <2>1, <2>2, <2>3
<1> HIDE DEF rest
<1>5. Take(rest, limit) \in Seq(rows)
  <2>1. Len(rest) \in Nat BY <1>4, LenProperties
  <2>2. (IF Len(rest) < limit THEN Len(rest) ELSE limit) \in 0..Len(rest) BY <2>1
  <2> QED BY <1>3, <1>4, <2>1, <2>2 DEF Take
<1>6. ToSet(Take(rest, limit)) \subseteq rows
  BY <1>5, ElementOfSeq, LenProperties DEF ToSet
<1> QED BY <1>6 DEF rest

-----------------------------------------------------------------------------
(* What the steps of a handler keep.                                       *)

\* Analyses that are added change nothing for the requests that run.
LEMMA RequestStays ==
    ASSUME NEW q, NEW stored, NEW more, Extends(more, stored), RequestOK(q, stored)
    PROVE  RequestOK(q, more)
<1>1. CASE Running(q) /\ Grounded(q, stored)
  BY <1>1 DEF RequestOK, Extends, Grounded, Evidence
<1>2. CASE Counting(q, stored) BY <1>2 DEF RequestOK, Extends, Counting, ItemsOf
<1>3. CASE Answered(q, stored)
  <2>1. Own(q.input, stored) \subseteq Own(q.input, more) BY DEF Extends, Own
  <2>2. ItemsOf(q.result, q.input.user, stored) => ItemsOf(q.result, q.input.user, more)
    BY DEF Extends, ItemsOf
  <2>3. Resisted(q.input, stored) => Resisted(q.input, more) BY <2>1 DEF Resisted
  <2>4. Answered(q, more) BY <1>3, <2>1, <2>2, <2>3 DEF Answered, Allowed
  <2> QED BY <2>4 DEF RequestOK
<1> QED BY <1>1, <1>2, <1>3 DEF RequestOK

\* One handler goes on, the others stay where they are.
LEMMA GotoKeeps ==
    ASSUME RequestsOK(request, analyses), Extends(analyses', analyses),
           NEW r \in Requests, NEW next, RequestOK(next, analyses'), Goto(r, next)
    PROVE  RequestsOK(request', analyses')
<1>1. request' = [x \in Requests |-> IF x = r THEN next ELSE request[x]]
  BY DEF RequestsOK, Goto
<1>2. ASSUME NEW x \in Requests PROVE RequestOK(request'[x], analyses')
  <2>1. RequestOK(request[x], analyses) BY DEF RequestsOK
  <2>2. RequestOK(request[x], analyses') BY <2>1, RequestStays
  <2>3. request'[x] = IF x = r THEN next ELSE request[x] BY <1>1
  <2> QED BY <2>2, <2>3
<1>3. request' = [x \in Requests |-> request'[x]] BY <1>1
<1> QED BY <1>2, <1>3 DEF RequestsOK

\* The end of a handler: what it answers with must be as promised.
LEMMA ReplyKeeps ==
    ASSUME RequestsOK(request, analyses), Extends(analyses', analyses),
           NEW r \in Requests, NEW input \in Inputs, NEW status, NEW cause, NEW result,
           Allowed(input, status, cause, result, analyses'),
           Reply(r, input, status, cause, result)
    PROVE  RequestsOK(request', analyses')
<1> DEFINE next == [at |-> "answered", input |-> input, status |-> status, cause |-> cause,
                    result |-> result]
<1>1. /\ next.at = "answered" /\ next.input = input /\ next.status = status
      /\ next.cause = cause /\ next.result = result
  OBVIOUS
<1>2. Goto(r, next) BY DEF Reply
<1> HIDE DEF next
<1>3. Answered(next, analyses') BY <1>1 DEF Answered
<1>4. RequestOK(next, analyses') BY <1>3 DEF RequestOK
<1> QED BY <1>2, <1>4, GotoKeeps

\* Nothing may be answered, unless the fallback should have been.
LEMMA NothingAllowed ==
    ASSUME NEW input, NEW status, NEW stored,
           NEW cause, cause \notin {"failed", "structure", "ungrounded"}
    PROVE  Allowed(input, status, cause, {}, stored)
BY DEF Allowed, ItemsOf

\* A failure answers with nothing.
LEMMA FailKeeps ==
    ASSUME RequestsOK(request, analyses), Extends(analyses', analyses),
           NEW r \in Requests, request[r].input \in Inputs, NEW class,
           NEW cause, cause \notin {"failed", "structure", "ungrounded"},
           Fail(r, class, cause)
    PROVE  RequestsOK(request', analyses')
<1>1. Reply(r, request[r].input, Normalized(class), cause, {}) BY DEF Fail, Answer
<1> QED BY <1>1, NothingAllowed, ReplyKeeps

\* A generation answers with a document, or with nothing.
LEMMA GeneratedKeeps ==
    ASSUME RequestsOK(request, analyses), Extends(analyses', analyses),
           NEW r \in Requests, request[r].input \in Inputs,
           request[r].input.kind = "generate",
           NEW doc, Words(doc) \subseteq Own(request[r].input, analyses'),
           NEW cause, cause \notin {"deterministic", "wrapper"},
           Answer(r, 201, cause, {doc})
    PROVE  RequestsOK(request', analyses')
<1>1. Reply(r, request[r].input, 201, cause, {doc}) BY DEF Answer
<1>2. Allowed(request[r].input, 201, cause, {doc}, analyses') BY DEF Allowed, StatusOf
<1> QED BY <1>1, <1>2, ReplyKeeps

\* Where a handler is tells what it has read.
LEMMA Places ==
    ASSUME NEW r \in Requests, RequestsOK(request, analyses)
    PROVE  LET q == request[r] IN
           /\ q.at \in {"bytes", "latest", "provider", "candidates", "core", "wrapper"}
                => Running(q)
           /\ Grounded(q, analyses)
           /\ q.at = "persist" => Persisting(q)
           /\ q.at = "total" => Counting(q, analyses)
<1>1. RequestOK(request[r], analyses) BY DEF RequestsOK
<1> QED BY <1>1 DEF RequestOK, Running, Grounded, Persisting, Counting, Answered

\* A handler that goes on with its record.
LEMMA RunningOn ==
    ASSUME NEW q, Running(q), NEW at, NEW latest, NEW candidates, NEW core, NEW attempt,
           at \in {"bytes", "latest", "provider", "candidates", "core", "wrapper"},
           (at \in {"latest", "provider"}) => (q.input.kind = "generate"),
           (at \in {"candidates", "core", "wrapper"}) => (q.input.kind = "analyze"),
           attempt \in 1..(MaxRetries + 1),
           (at = "provider") => Evidence(latest, q.input, analyses'),
           (q.input.kind = "analyze" /\ at # "candidates") =>
               (candidates = FindCandidateJobs(q.input)),
           (at = "wrapper") => (\A answer \in core : CoreOK(answer)),
           NEW next, next = [at |-> at, input |-> q.input, latest |-> latest,
                             candidates |-> candidates, core |-> core, attempt |-> attempt]
    PROVE  RequestOK(next, analyses')
<1>1. /\ next.at = at /\ next.input = q.input /\ next.latest = latest
      /\ next.candidates = candidates /\ next.core = core /\ next.attempt = attempt
  OBVIOUS
<1>2. q.input \in Inputs /\ q.input.kind \in {"generate", "analyze"} BY DEF Running
<1>3. next = [at |-> next.at, input |-> next.input, latest |-> next.latest,
              candidates |-> next.candidates, core |-> next.core, attempt |-> next.attempt]
  BY <1>1
<1>4. Running(next) BY <1>1, <1>2, <1>3 DEF Running
<1>5. Grounded(next, analyses') BY <1>1 DEF Grounded
<1> QED BY <1>4, <1>5 DEF RequestOK

\* What [q EXCEPT !.at = ...] is, with one more field changed.
LEMMA Updated ==
    ASSUME NEW q, Running(q), NEW place, NEW x
    PROVE  /\ [q EXCEPT !.at = place] =
                  [at |-> place, input |-> q.input, latest |-> q.latest,
                   candidates |-> q.candidates, core |-> q.core, attempt |-> q.attempt]
           /\ [q EXCEPT !.at = place, !.latest = x] =
                  [at |-> place, input |-> q.input, latest |-> x,
                   candidates |-> q.candidates, core |-> q.core, attempt |-> q.attempt]
           /\ [q EXCEPT !.at = place, !.candidates = x] =
                  [at |-> place, input |-> q.input, latest |-> q.latest,
                   candidates |-> x, core |-> q.core, attempt |-> q.attempt]
           /\ [q EXCEPT !.at = place, !.core = x] =
                  [at |-> place, input |-> q.input, latest |-> q.latest,
                   candidates |-> q.candidates, core |-> x, attempt |-> q.attempt]
<1>1. PICK p : p = [q EXCEPT !.at = place] OBVIOUS
<1>2. p = [at |-> place, input |-> q.input, latest |-> q.latest,
           candidates |-> q.candidates, core |-> q.core, attempt |-> q.attempt]
  BY <1>1 DEF Running
<1>3. /\ [p EXCEPT !.latest = x] =
             [at |-> place, input |-> q.input, latest |-> x,
              candidates |-> q.candidates, core |-> q.core, attempt |-> q.attempt]
      /\ [p EXCEPT !.candidates = x] =
             [at |-> place, input |-> q.input, latest |-> q.latest,
              candidates |-> x, core |-> q.core, attempt |-> q.attempt]
      /\ [p EXCEPT !.core = x] =
             [at |-> place, input |-> q.input, latest |-> q.latest,
              candidates |-> q.candidates, core |-> x, attempt |-> q.attempt]
  BY <1>2
<1> QED BY <1>1, <1>2, <1>3

-----------------------------------------------------------------------------
(* The steps, one lemma per group of actions.                              *)

\* Nothing runs yet, and what was stored before was validated.
LEMMA InitHolds == Init => DocumentsInv
<1> SUFFICES ASSUME Init PROVE DocumentsInv
  OBVIOUS
<1>1. state \in [Files -> {"live", "expired", "unlinked", "deleted"}] BY DEF Init
<1>2. StoredOK(analyses)
  <2>1. \A i \in DOMAIN Earlier : AsScored(Earlier[i]) BY EarlierAssumption, ValidAsScored
  <2> QED BY <2>1, EarlierAssumption DEF Init, StoredOK
<1>3. runs \subseteq Keys BY EarlierAssumption DEF Init, Keys
<1>4. RequestsOK(request, analyses)
  <2>1. request = [r \in Requests |-> Idle] BY DEF Init
  <2>2. \A r \in Requests : request[r].at = "idle" BY <2>1 DEF Idle
  <2> QED BY <2>1, <2>2 DEF RequestsOK, RequestOK
<1> QED BY <1>1, <1>2, <1>3, <1>4 DEF DocumentsInv

\* A step that stores nothing keeps all but, perhaps, the requests.
LEMMA NothingStored ==
    ASSUME DocumentsInv, UNCHANGED <<state, analyses, runs>>,
           RequestsOK(request', analyses')
    PROVE  DocumentsInv'
BY DEF DocumentsInv

\* Nothing stored is nothing changed.
LEMMA SameStored ==
    ASSUME UNCHANGED analyses PROVE Extends(analyses', analyses)
BY DEF Extends

\* A handler starts with nothing read, or answers at once.
LEMMA ReceiveStep ==
    ASSUME DocumentsInv, NEW r \in Requests, NEW input \in Inputs, Receive(r, input)
    PROVE  DocumentsInv'
<1>1. UNCHANGED <<state, analyses, runs>> BY DEF Receive, Resting
<1>2. Extends(analyses', analyses) BY <1>1, SameStored
<1>3. RequestsOK(request, analyses) BY DEF DocumentsInv
<1> DEFINE started == [at |-> IF input.kind = "generate" THEN "bytes" ELSE "candidates",
                       input |-> input, latest |-> NoAnalysis, candidates |-> {},
                       core |-> {}, attempt |-> 1]
<1>4. \/ Reply(r, input, StatusOf.NotFound, "file", {})
      \/ Reply(r, input, StatusOf.Unavailable, "disabled", {})
      \/ Goto(r, started)
  BY DEF Receive
<1>5. RequestOK(started, analyses')
  <2>1. input.kind \in {"generate", "analyze"}
    BY InputsAssumption DEF Receive, Kinds
  <2>2. MaxRetries + 1 \in Nat /\ 1 \in 1..(MaxRetries + 1) BY GenAiAssumption
  <2>3. Running(started) BY <2>1, <2>2 DEF Running
  <2>4. started.at # "provider" OBVIOUS
  <2> HIDE DEF started
  <2> QED BY <2>3, <2>4 DEF RequestOK, Grounded
<1> HIDE DEF started
<1>6. RequestsOK(request', analyses')
  BY <1>2, <1>3, <1>4, <1>5, NothingAllowed, ReplyKeeps, GotoKeeps
<1> QED BY <1>1, <1>6, NothingStored

\* The file is read, or it is gone.
LEMMA ReadBytesStep ==
    ASSUME DocumentsInv, NEW r \in Requests, ReadBytes(r) PROVE DocumentsInv'
<1>1. UNCHANGED <<state, analyses, runs>> BY DEF ReadBytes, Resting
<1>2. Extends(analyses', analyses) BY <1>1, SameStored
<1>3. RequestsOK(request, analyses) BY DEF DocumentsInv
<1> DEFINE q == request[r]
           at == IF q.input.kind = "generate" THEN "latest" ELSE "core"
           next == [q EXCEPT !.at = at]
<1>4. q.at = "bytes" BY DEF ReadBytes
<1>5. Running(q) BY <1>3, <1>4, Places
<1>6. q.input \in Inputs /\ q.input.kind \in {"generate", "analyze"}
      /\ q.attempt \in 1..(MaxRetries + 1)
  BY <1>5 DEF Running
<1>7. next = [at |-> at, input |-> q.input, latest |-> q.latest, candidates |-> q.candidates,
              core |-> q.core, attempt |-> q.attempt]
  BY <1>5, Updated
<1>8. Goto(r, next) \/ (\E class : Fail(r, class, "bytes"))
  BY DEF ReadBytes, Move
<1>9. RequestOK(next, analyses')
  <2>1. /\ at \in {"bytes", "latest", "provider", "candidates", "core", "wrapper"}
        /\ (at \in {"latest", "provider"}) => (q.input.kind = "generate")
        /\ (at \in {"candidates", "core", "wrapper"}) => (q.input.kind = "analyze")
        /\ at # "provider" /\ at # "wrapper"
    BY <1>6
  <2>2. (q.input.kind = "analyze" /\ at # "candidates") =>
            (q.candidates = FindCandidateJobs(q.input))
    BY <1>4, <1>5 DEF Running
  <2> HIDE DEF q, at, next
  <2> QED BY <2>1, <2>2, <1>5, <1>6, <1>7, RunningOn
<1> HIDE DEF next
<1>10. RequestsOK(request', analyses') BY <1>2, <1>3, <1>6, <1>8, <1>9, GotoKeeps, FailKeeps
<1> QED BY <1>1, <1>10, NothingStored

\* The latest analysis counts only if it is of this file.
LEMMA LatestStep ==
    ASSUME DocumentsInv, NEW r \in Requests, ResolveLatestAnalysis(r) PROVE DocumentsInv'
<1>1. UNCHANGED <<state, analyses, runs>> BY DEF ResolveLatestAnalysis, Resting
<1>2. Extends(analyses', analyses) BY <1>1, SameStored
<1>3. RequestsOK(request, analyses) BY DEF DocumentsInv
<1> DEFINE q == request[r]
<1>4. q.at = "latest" BY DEF ResolveLatestAnalysis
<1>5. Running(q) BY <1>3, <1>4, Places
<1>6. PICK latest :
          /\ Goto(r, [q EXCEPT !.at = "provider", !.latest = latest])
          /\ Evidence(latest, q.input, analyses)
  BY DEF ResolveLatestAnalysis, LatestOf, OfThisFile, Evidence
<1> DEFINE next == [q EXCEPT !.at = "provider", !.latest = latest]
<1>7. next = [at |-> "provider", input |-> q.input, latest |-> latest,
              candidates |-> q.candidates, core |-> q.core, attempt |-> q.attempt]
  BY <1>5, Updated
<1>8. q.input.kind = "generate" /\ q.attempt \in 1..(MaxRetries + 1)
  BY <1>4, <1>5 DEF Running
<1>9. Goto(r, next) BY <1>6
<1> HIDE DEF q, next
<1>10. RequestOK(next, analyses') BY <1>1, <1>5, <1>6, <1>7, <1>8, RunningOn
<1>11. RequestsOK(request', analyses') BY <1>2, <1>3, <1>9, <1>10, GotoKeeps
<1> QED BY <1>1, <1>11, NothingStored

\* Whatever the provider's call ends in: the document is made of words the
\* CV may use, or nothing is answered.
LEMMA ProviderStep ==
    ASSUME DocumentsInv, NEW r \in Requests, ProviderEnds(r) PROVE DocumentsInv'
<1>1. UNCHANGED <<state, analyses, runs>> BY DEF ProviderEnds, Resting
<1>2. Extends(analyses', analyses) BY <1>1, SameStored
<1>3. RequestsOK(request, analyses) /\ StoredOK(analyses) BY DEF DocumentsInv
<1>4. request[r].at = "provider" BY DEF ProviderEnds
<1>5. request[r].input \in Inputs /\ request[r].input.kind = "generate"
  BY <1>3, <1>4, Places DEF Running
<1>6. PICK q, prepared, fallback : /\ q = request[r] /\ prepared = Prepared(q)
                                   /\ fallback = Fallback(q, prepared)
  OBVIOUS
<1>7. PICK ending \in Endings(q, prepared) :
          CASE ending.cause = "unsafe" -> Fail(r, "Downstream", "unsafe")
            [] ending.cause = "provider" -> Answer(r, 201, "provider", {ending.doc})
            [] OTHER -> AnswerFallback(r, fallback, ending.cause)
  BY <1>6 DEF ProviderEnds
<1>8. /\ \A doc \in ProviderDocuments(q, prepared) :
             Words(NormalizeMarkdown(doc)) \subseteq Own(q.input, analyses')
      /\ Words(fallback) \subseteq Own(q.input, analyses')
      /\ \/ Resisted(q.input, analyses')
         \/ /\ Acceptable(fallback, q.input.template)
            /\ ValidateTemplateStructure(NormalizeHtmlTemplate(q.input.template), fallback)
            /\ ~RenderThrows(q.input.template)
  <2>1. \A i \in DOMAIN analyses' : HasTexts(analyses'[i].response)
    BY <1>1, <1>3 DEF StoredOK, AsScored
  <2>2. Evidence(q.latest, q.input, analyses') BY <1>1, <1>3, <1>4, <1>6, Places DEF Grounded
  <2>3. PICK W : W = Own(q.input, analyses') \cap DOMAIN About OBVIOUS
  <2>4. /\ \A doc \in ProviderDocuments(q, prepared) : Words(NormalizeMarkdown(doc)) \subseteq W
        /\ Words(fallback) \subseteq W
    BY <1>5, <1>6, <2>1, <2>2, <2>3, AnswersIn
  <2>5. \/ Resisted(q.input, analyses')
        \/ /\ Acceptable(fallback, q.input.template)
           /\ ValidateTemplateStructure(NormalizeHtmlTemplate(q.input.template), fallback)
    BY <1>5, <1>6, <2>1, <2>2, FallbackIsAcceptable
  <2>6. \/ Resisted(q.input, analyses') \/ ~RenderThrows(q.input.template)
    BY NothingThrows DEF Resisted
  <2> QED BY <2>3, <2>4, <2>5, <2>6
<1>9. \/ /\ ending.cause \in {"unsafe", "structure", "provider", "ungrounded"}
         /\ \E doc \in ProviderDocuments(q, prepared) : ending.doc = NormalizeMarkdown(doc)
      \/ ending.cause \in {"again", "failed"}
  BY DEF Endings, Judged, RequestGeneratedCvMarkdown
<1>10. RequestsOK(request', analyses')
  <2>1. CASE ending.cause = "unsafe"
    <3>1. Fail(r, "Downstream", "unsafe") BY <1>7, <2>1
    <3> QED BY <1>2, <1>3, <1>5, <3>1, FailKeeps
  <2>2. CASE ending.cause = "provider"
    <3>1. Answer(r, 201, "provider", {ending.doc}) BY <1>7, <2>2
    <3>2. Words(ending.doc) \subseteq Own(q.input, analyses') BY <1>8, <1>9, <2>2
    <3> QED BY <1>2, <1>3, <1>5, <1>6, <3>1, <3>2, GeneratedKeeps
  <2>3. CASE ending.cause # "unsafe" /\ ending.cause # "provider"
    <3>1. AnswerFallback(r, fallback, ending.cause) BY <1>7, <2>3
    <3>2. ending.cause \notin {"deterministic", "wrapper"} BY <1>9
    <3>3. CASE Answer(r, 201, ending.cause, {fallback})
      BY <1>2, <1>3, <1>5, <1>6, <1>8, <3>2, <3>3, GeneratedKeeps
    <3>4. ASSUME NEW class, Fail(r, class, ending.cause), Resisted(q.input, analyses'),
                 Normalized(class) # 201
          PROVE  RequestsOK(request', analyses')
      <4>1. PICK status, cause : status = Normalized(class) /\ cause = ending.cause
        OBVIOUS
      <4>2. Reply(r, q.input, status, cause, {}) BY <1>6, <3>4, <4>1 DEF Fail, Answer
      <4>3. Allowed(q.input, status, cause, {}, analyses')
        BY <1>5, <1>6, <3>4 DEF Allowed, ItemsOf
      <4> QED BY <1>2, <1>3, <1>5, <1>6, <4>2, <4>3, ReplyKeeps
    <3>5. Normalized("Downstream") # 201 /\ Normalized("TypeError") # 201
      BY DEF Normalized, StatusOf
    <3>6. \/ Answer(r, 201, ending.cause, {fallback})
          \/ \E class \in {"Downstream", "TypeError"} :
                Fail(r, class, ending.cause) /\ Resisted(q.input, analyses')
      BY <1>6, <1>8, <3>1 DEF AnswerFallback
    <3> QED BY <3>3, <3>4, <3>5, <3>6
  <2> QED BY <2>1, <2>2, <2>3
<1> QED BY <1>1, <1>10, NothingStored

\* Only a class that is tried again leads here, and not in the last attempt.
LEMMA RetryStep ==
    ASSUME DocumentsInv, NEW r \in Requests, Retry(r) PROVE DocumentsInv'
<1>1. UNCHANGED <<state, analyses, runs>> BY DEF Retry, Resting
<1>2. Extends(analyses', analyses) BY <1>1, SameStored
<1>3. RequestsOK(request, analyses) BY DEF DocumentsInv
<1> DEFINE q == request[r]
           next == [q EXCEPT !.attempt = @ + 1]
<1>4. q.at \in {"provider", "wrapper"} BY DEF Retry
<1>5. Running(q) BY <1>3, <1>4, Places
<1>6. q.attempt < MaxRetries + 1
  <2>1. CASE "again" \in {RequestGeneratedCvMarkdown(f, q.attempt) : f \in GenAiFailures}
    BY <2>1 DEF RequestGeneratedCvMarkdown, ShouldRetryProviderError
  <2>2. CASE "again" \in {RequestCvAnalyzerCopy(f, q.attempt) : f \in CopyFailures}
    BY <2>2 DEF RequestCvAnalyzerCopy, ShouldRetryProviderError
  <2> QED BY <2>1, <2>2 DEF Retry
<1>7. q.attempt + 1 \in 1..(MaxRetries + 1)
  <2>1. q.attempt \in 1..(MaxRetries + 1) BY <1>5 DEF Running
  <2> HIDE DEF q
  <2> QED BY <2>1, <1>6, GenAiAssumption
<1>8. next = [at |-> q.at, input |-> q.input, latest |-> q.latest,
              candidates |-> q.candidates, core |-> q.core, attempt |-> q.attempt + 1]
  BY <1>5 DEF Running
<1>9. Goto(r, next) BY DEF Retry
<1>10. /\ (q.at \in {"latest", "provider"}) => (q.input.kind = "generate")
       /\ (q.at \in {"candidates", "core", "wrapper"}) => (q.input.kind = "analyze")
  BY <1>5 DEF Running
<1>11. (q.at = "provider") => Evidence(q.latest, q.input, analyses')
  BY <1>1, <1>3, Places DEF Grounded
<1>12. /\ q.input.kind = "analyze" => q.candidates = FindCandidateJobs(q.input)
       /\ q.at = "wrapper" => \A answer \in q.core : CoreOK(answer)
  BY <1>4, <1>5 DEF Running
<1> HIDE DEF q, next
<1>13. RequestOK(next, analyses')
  <2>1. PICK place, latest, candidates, core, attempt :
            /\ place = q.at /\ latest = q.latest /\ candidates = q.candidates
            /\ core = q.core /\ attempt = q.attempt + 1
    OBVIOUS
  <2>2. next = [at |-> place, input |-> q.input, latest |-> latest,
                candidates |-> candidates, core |-> core, attempt |-> attempt]
    BY <1>8, <2>1
  <2>3. /\ place \in {"provider", "wrapper"} /\ attempt \in 1..(MaxRetries + 1)
        /\ (place \in {"latest", "provider"}) => (q.input.kind = "generate")
        /\ (place \in {"candidates", "core", "wrapper"}) => (q.input.kind = "analyze")
        /\ (place = "provider") => Evidence(latest, q.input, analyses')
        /\ (q.input.kind = "analyze" /\ place # "candidates") =>
               (candidates = FindCandidateJobs(q.input))
        /\ (place = "wrapper") => (\A answer \in core : CoreOK(answer))
    BY <1>4, <1>7, <1>10, <1>11, <1>12, <2>1
  <2> QED BY <1>5, <2>2, <2>3, RunningOn
<1>14. RequestsOK(request', analyses') BY <1>2, <1>3, <1>9, <1>13, GotoKeeps
<1> QED BY <1>1, <1>14, NothingStored

\* The candidates are those of the request.
LEMMA CandidatesStep ==
    ASSUME DocumentsInv, NEW r \in Requests, ReadCandidates(r) PROVE DocumentsInv'
<1>1. UNCHANGED <<state, analyses, runs>> BY DEF ReadCandidates, Resting
<1>2. Extends(analyses', analyses) BY <1>1, SameStored
<1>3. RequestsOK(request, analyses) BY DEF DocumentsInv
<1> DEFINE q == request[r]
<1>4. q.at = "candidates" BY DEF ReadCandidates
<1>5. Running(q) BY <1>3, <1>4, Places
<1>6. q.input \in Inputs /\ q.attempt \in 1..(MaxRetries + 1) BY <1>5 DEF Running
<1>7. PICK jobs : jobs = FindCandidateJobs(q.input) OBVIOUS
<1>8. PICK next : next = [q EXCEPT !.at = "bytes", !.candidates = jobs] OBVIOUS
<1>9. Goto(r, next) \/ Fail(r, NoCandidatesError(q.input.source), "candidates")
  BY <1>7, <1>8 DEF ReadCandidates
<1>10. RequestOK(next, analyses')
  <2> HIDE DEF q
  <2>1. next = [at |-> "bytes", input |-> q.input, latest |-> q.latest,
                candidates |-> jobs, core |-> q.core, attempt |-> q.attempt]
    BY <1>5, <1>8, Updated
  <2> QED BY <1>5, <1>6, <1>7, <2>1, RunningOn
<1>11. RequestsOK(request', analyses')
  BY <1>2, <1>3, <1>6, <1>9, <1>10, GotoKeeps, FailKeeps
<1> QED BY <1>1, <1>11, NothingStored

\* What buildPublicCvAnalysisResponse may answer: kept for persisting,
\* answered, or an error.
LEMMA RespondKeeps ==
    ASSUME RequestsOK(request, analyses), Extends(analyses', analyses),
           NEW r \in Requests, Running(request[r]), request[r].input.kind = "analyze",
           request[r].candidates = FindCandidateJobs(request[r].input),
           NEW core, CoreOK(core), NEW wrapped, NEW cause, Respond(r, core, wrapped, cause)
    PROVE  RequestsOK(request', analyses')
<1> DEFINE q == request[r]
           Analysis1(response) == [user |-> q.input.user, file |-> q.input.file,
                                   core |-> core, response |-> response]
           Kept(response) == [at |-> "persist", input |-> q.input,
                              analysis |-> Analysis1(response)]
<1>1. q.input \in Inputs BY DEF Running
<1>2. q.input.file \in Files BY <1>1, InputsAssumption
<1>3. CASE /\ BuildPublicResponse(core, q.candidates, wrapped) = {}
           /\ Answer(r, 500, cause, {core})
  <2>1. Reply(r, q.input, 500, cause, {core}) BY <1>3 DEF Answer
  <2>2. Excused(core, q.input) BY <1>3, NoneIsExcused
  <2>3. Allowed(q.input, 500, cause, {core}, analyses') BY <2>2 DEF Allowed
  <2> QED BY <1>1, <2>1, <2>3, ReplyKeeps
<1>4. ASSUME NEW response \in BuildPublicResponse(core, q.candidates, wrapped),
             Goto(r, Kept(response))
      PROVE  RequestsOK(request', analyses')
  <2>1. PICK a : a = Analysis1(response) OBVIOUS
  <2>2. a.response = response /\ a.core = core /\ a.file = q.input.file BY <2>1
  <2>3. AsScored(a) BY <1>4, <2>2, PublicIsValid, ValidAsScored
  <2>4. PICK next : next = [at |-> "persist", input |-> q.input, analysis |-> a] OBVIOUS
  <2>5. next.at = "persist" /\ next.input = q.input /\ next.analysis = a BY <2>4
  <2>6. Goto(r, next) BY <1>4, <2>1, <2>4
  <2>7. Persisting(next) BY <1>1, <1>2, <2>2, <2>3, <2>5 DEF Persisting
  <2>8. RequestOK(next, analyses') BY <2>7 DEF RequestOK
  <2> QED BY <2>6, <2>8, GotoKeeps
<1>5. ASSUME NEW response \in BuildPublicResponse(core, q.candidates, wrapped),
             Answer(r, 200, cause, {[core |-> core, response |-> response]})
      PROVE  RequestsOK(request', analyses')
  <2>1. PICK a : a = [core |-> core, response |-> response] OBVIOUS
  <2>2. a.response = response /\ a.core = core BY <2>1
  <2>3. AsScored(a) BY <1>5, <2>2, PublicIsValid, ValidAsScored
  <2>4. Reply(r, q.input, 200, cause, {a}) BY <1>5, <2>1 DEF Answer
  <2>5. Allowed(q.input, 200, cause, {a}, analyses') BY <2>3 DEF Allowed
  <2> QED BY <1>1, <2>4, <2>5, ReplyKeeps
<1> QED BY <1>3, <1>4, <1>5 DEF Respond

\* The Model API failed, or scored the candidates.
LEMMA ModelStep ==
    ASSUME DocumentsInv, NEW r \in Requests, ModelAnalyses(r) PROVE DocumentsInv'
<1>1. UNCHANGED <<state, analyses, runs>> BY DEF ModelAnalyses, Resting
<1>2. Extends(analyses', analyses) BY <1>1, SameStored
<1>3. RequestsOK(request, analyses) BY DEF DocumentsInv
<1> DEFINE q == request[r]
<1>4. q.at = "core" BY DEF ModelAnalyses
<1>5. Running(q) BY <1>3, <1>4, Places
<1>6. /\ q.input \in Inputs /\ q.input.kind = "analyze" /\ q.attempt \in 1..(MaxRetries + 1)
      /\ q.candidates = FindCandidateJobs(q.input)
  BY <1>4, <1>5 DEF Running
<1>7. \/ \E class : Fail(r, class, "payload") \/ Fail(r, class, "core")
      \/ \E core \in CoreAnswers(q) : Goto(r, [q EXCEPT !.at = "wrapper", !.core = {core}])
      \/ \E core \in CoreAnswers(q) : Respond(r, core, {}, "deterministic")
  BY DEF ModelAnalyses
<1>8. \A core \in CoreAnswers(q) : CoreOK(core)
  <2>1. q.input.file \in Files BY <1>6, InputsAssumption
  <2>2. IsFiniteSet(q.candidates) BY <1>6, CandidatesFinite
  <2> QED BY <2>1, <2>2, CoreAnswersOK
<1>9. ASSUME NEW core \in CoreAnswers(q), Goto(r, [q EXCEPT !.at = "wrapper", !.core = {core}])
      PROVE  RequestsOK(request', analyses')
  <2>1. PICK next : next = [q EXCEPT !.at = "wrapper", !.core = {core}] OBVIOUS
  <2>2. next = [at |-> "wrapper", input |-> q.input, latest |-> q.latest,
                candidates |-> q.candidates, core |-> {core}, attempt |-> q.attempt]
    BY <1>5, <2>1, Updated
  <2>3. \A answer \in {core} : CoreOK(answer) BY <1>8
  <2> HIDE DEF q
  <2>4. RequestOK(next, analyses') BY <1>5, <1>6, <2>2, <2>3, RunningOn
  <2> QED BY <1>2, <1>3, <1>9, <2>1, <2>4, GotoKeeps
<1>10. RequestsOK(request', analyses')
  <2>1. ASSUME NEW core \in CoreAnswers(q), Respond(r, core, {}, "deterministic")
        PROVE  RequestsOK(request', analyses')
    BY <1>2, <1>3, <1>5, <1>6, <1>8, <2>1, RespondKeeps
  <2> QED BY <1>2, <1>3, <1>6, <1>7, <1>9, <2>1, FailKeeps
<1> QED BY <1>1, <1>10, NothingStored

\* Whatever the wrapper wrote, or did not write.
LEMMA WrapperStep ==
    ASSUME DocumentsInv, NEW r \in Requests, WrapperWrites(r) \/ WrapperFails(r)
    PROVE  DocumentsInv'
<1>1. UNCHANGED <<state, analyses, runs>> BY DEF WrapperWrites, WrapperFails, Resting
<1>2. Extends(analyses', analyses) BY <1>1, SameStored
<1>3. RequestsOK(request, analyses) BY DEF DocumentsInv
<1>4. request[r].at = "wrapper" BY DEF WrapperWrites, WrapperFails
<1>5. Running(request[r]) BY <1>3, <1>4, Places
<1>6. /\ request[r].input.kind = "analyze"
      /\ request[r].candidates = FindCandidateJobs(request[r].input)
      /\ \A core \in request[r].core : CoreOK(core)
  BY <1>4, <1>5 DEF Running
<1>7. PICK core \in request[r].core : \E wrapped, cause : Respond(r, core, wrapped, cause)
  BY DEF WrapperWrites, WrapperFails
<1>8. RequestsOK(request', analyses') BY <1>2, <1>3, <1>5, <1>6, <1>7, RespondKeeps
<1> QED BY <1>1, <1>8, NothingStored

\* The transaction commits: what it stores was validated before.
LEMMA SnapshotStores ==
    ASSUME DocumentsInv, NEW r \in Requests, request[r].at = "persist", Snapshot(request[r])
    PROVE  /\ state' \in [Files -> {"live", "expired", "unlinked", "deleted"}]
           /\ StoredOK(analyses') /\ runs' \subseteq Keys
           /\ Extends(analyses', analyses)
<1> DEFINE q == request[r]
<1>1. RequestsOK(request, analyses) /\ StoredOK(analyses) BY DEF DocumentsInv
<1>2. Persisting(q) BY <1>1, Places
<1>3. analyses' = Append(analyses, q.analysis) /\ UNCHANGED state BY DEF Snapshot
<1>4. StoredOK(analyses') /\ Extends(analyses', analyses)
  BY <1>1, <1>2, <1>3, StoredGrows DEF Persisting
<1>5. KeyOf(q) \in Keys BY <1>2 DEF Persisting, KeyOf, Keys
<1>6. runs' = runs \/ runs' = runs \cup {KeyOf(q)} BY DEF Snapshot
<1> QED BY <1>3, <1>4, <1>5, <1>6 DEF DocumentsInv

\* The snapshot commits, is refused, or commits and its answer is lost.
LEMMA PersistStep ==
    ASSUME DocumentsInv, NEW r \in Requests, Persist(r) \/ PersistAnswerLost(r)
    PROVE  DocumentsInv'
<1>1. RequestsOK(request, analyses) BY DEF DocumentsInv
<1>2. request[r].at = "persist" BY DEF Persist, PersistAnswerLost
<1>3. request[r].input \in Inputs /\ request[r].input.kind = "analyze"
  BY <1>1, <1>2, Places DEF Persisting
<1>4. CASE /\ Fail(r, "P2002", "duplicate")
           /\ UNCHANGED <<state, analyses, runs, genAi, calls>>
  <2>1. Extends(analyses', analyses) BY <1>4, SameStored
  <2>2. RequestsOK(request', analyses') BY <1>1, <1>3, <1>4, <2>1, FailKeeps
  <2> QED BY <1>4, <2>2, NothingStored
<1>5. CASE /\ Answer(r, 200, "stored", {}) \/ Fail(r, "database", "database")
           /\ Snapshot(request[r])
  <2>1. /\ state' \in [Files -> {"live", "expired", "unlinked", "deleted"}]
        /\ StoredOK(analyses') /\ runs' \subseteq Keys
        /\ Extends(analyses', analyses)
    BY <1>2, <1>5, SnapshotStores
  <2>2. RequestsOK(request', analyses')
    <3>1. CASE Fail(r, "database", "database") BY <1>1, <1>3, <2>1, <3>1, FailKeeps
    <3>2. CASE Answer(r, 200, "stored", {})
      <4>1. Reply(r, request[r].input, 200, "stored", {}) BY <3>2 DEF Answer
      <4> QED BY <1>1, <1>3, <2>1, <4>1, NothingAllowed, ReplyKeeps
    <3> QED BY <1>5, <3>1, <3>2
  <2> QED BY <2>1, <2>2 DEF DocumentsInv
<1> QED BY <1>4, <1>5 DEF Persist, PersistAnswerLost

\* One analysis is read in one statement.
LEMMA ReadStep ==
    ASSUME DocumentsInv, NEW r \in Requests, NEW input \in Inputs, ReadAnalysis(r, input)
    PROVE  DocumentsInv'
<1>1. UNCHANGED <<state, analyses, runs>> BY DEF ReadAnalysis, Resting
<1>2. Extends(analyses', analyses) BY <1>1, SameStored
<1>3. RequestsOK(request, analyses) BY DEF DocumentsInv
<1>4. input.kind = "read" BY DEF ReadAnalysis
<1> DEFINE found == IF input.what = "latest" THEN LatestOf(input.user)
                    ELSE {input.id} \cap AnalysesWhere(input.user, Files)
<1>5. \A i \in found : i \in DOMAIN analyses /\ analyses[i].user = input.user
  BY DEF LatestOf, AnalysesWhere
<1>6. \/ Reply(r, input, StatusOf.NotFound, "analysis", {})
      \/ \E i \in found : Reply(r, input, 200, "read", {MapCvAnalysisResultDetail(i)})
  BY DEF ReadAnalysis
<1> HIDE DEF found
<1>7. ASSUME NEW i \in found
      PROVE  Allowed(input, 200, "read", {MapCvAnalysisResultDetail(i)}, analyses')
  <2>1. MapCvAnalysisResultDetail(i).id = i BY DEF MapCvAnalysisResultDetail
  <2>2. ItemsOf({MapCvAnalysisResultDetail(i)}, input.user, analyses')
    BY <1>1, <1>5, <1>7, <2>1 DEF ItemsOf
  <2> QED BY <1>4, <2>2 DEF Allowed
<1>8. RequestsOK(request', analyses')
  BY <1>2, <1>3, <1>6, <1>7, NothingAllowed, ReplyKeeps
<1> QED BY <1>1, <1>8, NothingStored

\* The page is read now, its rows are of the user whatever is stored later.
LEMMA ListStep ==
    ASSUME DocumentsInv, NEW r \in Requests, NEW input \in Inputs, ListAnalyses(r, input)
    PROVE  DocumentsInv'
<1>1. UNCHANGED <<state, analyses, runs>> BY DEF ListAnalyses, Resting
<1>2. Extends(analyses', analyses) BY <1>1, SameStored
<1>3. RequestsOK(request, analyses) /\ StoredOK(analyses) BY DEF DocumentsInv
<1>4. input.kind = "read" /\ input.skip \in Nat /\ input.limit \in Nat
  BY InputsAssumption DEF ListAnalyses
<1> DEFINE found == AnalysesWhere(input.user, input.files)
           page(order) == Take(SubSeq(order, input.skip + 1, Len(order)), input.limit)
           items(order) == {MapCvAnalysisResultSummary(i) : i \in ToSet(page(order))}
<1>5. IsFiniteSet(found)
  <2>1. analyses \in Seq(ToSet(analyses)) BY <1>3 DEF StoredOK
  <2>2. Len(analyses) \in Nat /\ DOMAIN analyses = 1..Len(analyses) BY <2>1, LenProperties
  <2>3. IsFiniteSet(1..Len(analyses)) BY <2>2, FS_Interval
  <2>4. found \subseteq 1..Len(analyses) BY <2>2 DEF AnalysesWhere
  <2> QED BY <2>3, <2>4, FS_Subset
<1>6. PICK order \in Listed(found) :
          Goto(r, [at |-> "total", input |-> input, items |-> items(order)])
  BY DEF ListAnalyses
<1>7. order \in SetToSeqs(found) BY <1>6 DEF Listed
<1>8. ToSet(page(order)) \subseteq found
  <2> HIDE DEF found
  <2> QED BY <1>4, <1>5, <1>7, PageOfRows
<1>9. ItemsOf(items(order), input.user, analyses')
  <2>1. \A i \in found : i \in DOMAIN analyses /\ analyses[i].user = input.user
    BY DEF AnalysesWhere
  <2>2. \A i : MapCvAnalysisResultSummary(i).id = i BY DEF MapCvAnalysisResultSummary
  <2> HIDE DEF found, page
  <2> QED BY <1>1, <1>8, <2>1, <2>2 DEF ItemsOf
<1>10. PICK next : next = [at |-> "total", input |-> input, items |-> items(order)] OBVIOUS
<1> HIDE DEF items
<1>11. next.at = "total" /\ next.input = input /\ next.items = items(order) BY <1>10
<1>12. Counting(next, analyses') BY <1>4, <1>9, <1>11 DEF Counting
<1>13. RequestOK(next, analyses') BY <1>12 DEF RequestOK
<1>14. RequestsOK(request', analyses') BY <1>2, <1>3, <1>6, <1>10, <1>13, GotoKeeps
<1> QED BY <1>1, <1>14, NothingStored

\* The count changes nothing of the page read before it.
LEMMA CountStep ==
    ASSUME DocumentsInv, NEW r \in Requests, CountAnalyses(r) PROVE DocumentsInv'
<1>1. UNCHANGED <<state, analyses, runs>> BY DEF CountAnalyses, Resting
<1>2. Extends(analyses', analyses) BY <1>1, SameStored
<1>3. RequestsOK(request, analyses) BY DEF DocumentsInv
<1>4. request[r].at = "total" BY DEF CountAnalyses
<1>5. Counting(request[r], analyses) BY <1>3, <1>4, Places
<1>6. PICK cause : Answer(r, 200, cause, request[r].items) BY DEF CountAnalyses
<1>7. Reply(r, request[r].input, 200, cause, request[r].items) BY <1>6 DEF Answer
<1>8. /\ request[r].input \in Inputs
      /\ Allowed(request[r].input, 200, cause, request[r].items, analyses')
  BY <1>1, <1>5 DEF Counting, ItemsOf, Allowed
<1>9. RequestsOK(request', analyses') BY <1>2, <1>3, <1>7, <1>8, ReplyKeeps
<1> QED BY <1>1, <1>9, NothingStored

\* A failed statement answers with nothing.
LEMMA StatementStep ==
    ASSUME DocumentsInv, NEW r \in Requests, StatementFails(r) PROVE DocumentsInv'
<1>1. UNCHANGED <<state, analyses, runs>> BY DEF StatementFails
<1>2. Extends(analyses', analyses) BY <1>1, SameStored
<1>3. RequestsOK(request, analyses) BY DEF DocumentsInv
<1>4. request[r].at \in {"candidates", "latest", "persist", "total"} BY DEF StatementFails
<1>5. request[r].input \in Inputs
  BY <1>3, <1>4, Places DEF Running, Persisting, Counting
<1>6. Fail(r, "database", "database") BY DEF StatementFails
<1>7. RequestsOK(request', analyses') BY <1>2, <1>3, <1>5, <1>6, FailKeeps
<1> QED BY <1>1, <1>7, NothingStored

\* The retention job changes no request and no analysis.
LEMMA EraseStep ==
    ASSUME DocumentsInv, NEW file \in Expiring, Erase(file) PROVE DocumentsInv'
<1>1. UNCHANGED <<analyses, runs, request>> BY DEF Erase
<1>2. state' \in [Files -> {"live", "expired", "unlinked", "deleted"}]
  BY DEF Erase, DocumentsInv
<1> QED BY <1>1, <1>2 DEF DocumentsInv

\* Every step keeps the invariant.
LEMMA DocumentsStep == DocumentsInv /\ [Next]_vars => DocumentsInv'
<1> SUFFICES ASSUME DocumentsInv, [Next]_vars PROVE DocumentsInv'
  OBVIOUS
<1>1. ASSUME NEW r \in Requests, NEW input \in Inputs,
             Receive(r, input) \/ ReadAnalysis(r, input) \/ ListAnalyses(r, input)
      PROVE  DocumentsInv'
  BY <1>1, ReceiveStep, ReadStep, ListStep
<1>2. ASSUME NEW r \in Requests, Generation(r) PROVE DocumentsInv'
  BY <1>2, LatestStep, ProviderStep, RetryStep DEF Generation
<1>3. ASSUME NEW r \in Requests, Analysis(r) PROVE DocumentsInv'
  BY <1>3, CandidatesStep, ModelStep, WrapperStep, PersistStep DEF Analysis
<1>4. ASSUME NEW r \in Requests, ReadBytes(r) \/ CountAnalyses(r) \/ StatementFails(r)
      PROVE  DocumentsInv'
  BY <1>4, ReadBytesStep, CountStep, StatementStep
<1>5. CASE UNCHANGED vars BY <1>5 DEF vars, DocumentsInv
<1> QED BY <1>1, <1>2, <1>3, <1>4, <1>5, EraseStep DEF Next
-----------------------------------------------------------------------------
(* The theorems.                                                           *)

\* The invariant holds in every reachable state, whatever is asked, stored
\* before, answered by the Model API or written by the wrapper.
THEOREM Inductive == Spec => []DocumentsInv
<1>1. Init => DocumentsInv BY InitHolds
<1>2. DocumentsInv /\ [Next]_vars => DocumentsInv' BY DocumentsStep
<1> QED BY <1>1, <1>2, PTL DEF Spec

\* Files are erased in their order, a run belongs to a request for an
\* analysis, no call of the provider is repeated beyond its retries
\* (ai-cv-generate.genai, ai-cv-analyzer.genai), and what
\* getAnalysisResultDetail and listAnalysisResults answer is of their user.
THEOREM TypeCorrect == Spec => []TypeOK
<1>1. DocumentsInv => TypeOK
  <2> SUFFICES ASSUME DocumentsInv PROVE TypeOK
    OBVIOUS
  <2>1. StoredOK(analyses) /\ RequestsOK(request, analyses) BY DEF DocumentsInv
  <2>2. \A i \in DOMAIN analyses : analyses[i].file \in Files BY <2>1 DEF StoredOK
  <2>3. ASSUME NEW r \in Requests, request[r].at \in {"provider", "wrapper"}
        PROVE  request[r].attempt \in 1..(MaxRetries + 1)
    BY <2>1, <2>3, Places DEF Running
  <2>4. ASSUME NEW r \in Requests, request[r].at = "answered", request[r].input.kind = "read"
        PROVE  \A item \in request[r].result : analyses[item.id].user = request[r].input.user
    <3>1. RequestOK(request[r], analyses) BY <2>1 DEF RequestsOK
    <3>2. Answered(request[r], analyses)
      BY <2>4, <3>1 DEF RequestOK, Running, Persisting, Counting
    <3> QED BY <2>4, <3>2 DEF Answered, Allowed, ItemsOf
  <2> QED BY <2>2, <2>3, <2>4 DEF TypeOK, DocumentsInv, Keys
<1> QED BY <1>1, Inductive, PTL

EvidenceIsOwn ==
    \A r \in Requests :
        request[r].at = "provider" => Evidence(request[r].latest, request[r].input, analyses)

\* Whatever is stored and erased between its reads, a generation hands the
\* provider no evidence of another file or of another user (the service's
\* resolveLatestAnalysis, mapLatestAnalysisEvidence): it has none, or what an
\* analysis of its own user and file says.
THEOREM GenerationIsGrounded == Spec => []EvidenceIsOwn
<1>1. DocumentsInv => EvidenceIsOwn BY Places DEF DocumentsInv, EvidenceIsOwn, Grounded
<1> QED BY <1>1, Inductive, PTL

\* An analysis that is stored or answered has the scores and the ranking of
\* the Model API and repeats no private word, however the wrapper answers
\* (validatePublicCvAnalysisResponse, buildPublicCvAnalysisResponse,
\* createSnapshot).
THEOREM PublishedIsScored == Spec => []PublishedAsScored
<1>1. DocumentsInv => PublishedAsScored
  <2> SUFFICES ASSUME DocumentsInv, NEW a \in Published PROVE AsScored(a)
    BY DEF PublishedAsScored, AsScored
  <2>1. StoredOK(analyses) /\ RequestsOK(request, analyses) BY DEF DocumentsInv
  <2>2. CASE a \in {analyses[i] : i \in DOMAIN analyses} BY <2>1, <2>2 DEF StoredOK
  <2>3. ASSUME NEW r \in Requests, request[r].at = "answered", request[r].status = 200,
               request[r].input.kind = "analyze", a \in request[r].result
        PROVE  AsScored(a)
    <3>1. RequestOK(request[r], analyses) BY <2>1 DEF RequestsOK
    <3>2. Answered(request[r], analyses)
      BY <2>3, <3>1 DEF RequestOK, Running, Persisting, Counting
    <3> QED BY <2>3, <3>2 DEF Answered, Allowed
  <2> QED BY <2>2, <2>3 DEF Published
<1> QED BY <1>1, Inductive, PTL

\* No answer of the wrapper (buildPublicCvAnalysisResponse), and no failure
\* of it, makes an analysis fail: what is answered instead, made of the
\* scores alone (buildDeterministicPublicResponse), passes
\* validatePublicCvAnalysisResponse for every text of the file and of the
\* Model API, except for a ranking of other jobs, or of one twice, for three
\* long skills on both sides, for blanks around the model's name and for a
\* skill or an issue that reads as an address before a full stop.
THEOREM NoWrapperNeeded == Spec => []WrapperIsOptional
<1>1. DocumentsInv => WrapperIsOptional
  <2> SUFFICES ASSUME DocumentsInv, NEW r \in Requests, request[r].at = "answered",
                      request[r].cause \in {"deterministic", "wrapper"},
                      request[r].status # 200, NEW core \in request[r].result
               PROVE  Excused(core, request[r].input)
    BY DEF WrapperIsOptional, Excused
  <2>1. RequestOK(request[r], analyses) BY DEF DocumentsInv, RequestsOK
  <2>2. Answered(request[r], analyses)
    BY <2>1 DEF RequestOK, Running, Persisting, Counting
  <2> QED BY <2>2 DEF Answered, Allowed
<1> QED BY <1>1, Inductive, PTL

\* A generated CV, written by a provider that repeats what it was given or
\* rendered by renderDeterministicCvMarkdown, has no word but those of its
\* file, of the request, of the headlines the service infers and of analyses
\* of the same file and user, whatever else is stored or erased meanwhile.
THEOREM NoOtherCv == Spec => []OnlyThisCv
<1>1. DocumentsInv => OnlyThisCv
  <2> SUFFICES ASSUME DocumentsInv, NEW r \in Requests, request[r].at = "answered",
                      request[r].input.kind = "generate", request[r].status = 201,
                      NEW doc \in request[r].result
               PROVE  Words(doc) \subseteq Own(request[r].input, analyses)
    BY OwnIs DEF OnlyThisCv, Generated
  <2>1. RequestOK(request[r], analyses) BY DEF DocumentsInv, RequestsOK
  <2>2. Answered(request[r], analyses)
    BY <2>1 DEF RequestOK, Running, Persisting, Counting
  <2> QED BY <2>2 DEF Answered, Allowed
<1> QED BY <1>1, Inductive, PTL

\* A failed provider, and an answer of it that breaks the template or says
\* nothing of the CV, never costs the request its CV: what
\* renderDeterministicCvMarkdown makes of the template is safe, leaks no
\* secret and keeps the elements and the labels (isSafeMarkdown,
\* leaksTemplateOnlySecret, validateTemplateStructure), for every template
\* and every CV but those FallbackAnswers names.
THEOREM FallbackIsAnswered == Spec => []FallbackAnswers
<1>1. DocumentsInv => FallbackAnswers
  <2> SUFFICES ASSUME DocumentsInv, NEW r \in Requests, request[r].at = "answered",
                      request[r].input.kind = "generate",
                      request[r].status \in {StatusOf.Downstream, 500},
                      request[r].cause \in {"failed", "structure", "ungrounded"}
               PROVE  Resisted(request[r].input, analyses)
    BY OwnIs DEF FallbackAnswers, Generated, Resisted
  <2>1. RequestOK(request[r], analyses) BY DEF DocumentsInv, RequestsOK
  <2>2. Answered(request[r], analyses)
    BY <2>1 DEF RequestOK, Running, Persisting, Counting
  <2> QED BY <2>2 DEF Answered, Allowed
<1> QED BY <1>1, Inductive, PTL
=============================================================================
