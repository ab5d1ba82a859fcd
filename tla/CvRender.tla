------------------------------ MODULE CvRender ------------------------------
(***************************************************************************)
(* The HTML templates of generated CVs (ai-cv-generate.service): what is   *)
(* normalised away, how the deterministic renderer fills one, and what an  *)
(* answer must keep of it.                                                 *)
(*                                                                         *)
(* A document is [nodes, tail, fence]. A node is an element: its tag, the  *)
(* class signals it carries, its other attributes, the section it is in    *)
(* (0: none), its texts between inner tags, how many inner tags, and if a  *)
(* closing tag ends it (an open element up to the closing tag of another   *)
(* is not modelled). tail                                                  *)
(* holds the loose text at the end of each section, fence tells whether    *)
(* code fences stand around the document ("whole") or inside ("part").     *)
(* Labels are words of their own, none contained in another.               *)
(***************************************************************************)
EXTENDS CvEvidence

CONSTANTS Labels,   \* isRequiredStaticTextChunk
          Secrets,  \* words that look like token=...
          Scripts,  \* event handlers and javascript: URLs
          Inherited \* the names every object has: constructor, toString

ActiveTags == {"script", "iframe", "object", "embed"}
TitleTags == {"h1", "h2", "h3", "div", "span", "p"}
RawTags == {"style", "script", "title"}

IsDocument(doc) ==
    /\ DOMAIN doc = {"nodes", "tail", "fence"}
    /\ doc.nodes \in Seq(ToSet(doc.nodes))
    /\ \A i \in DOMAIN doc.nodes :
           /\ DOMAIN doc.nodes[i] = {"tag", "cls", "attr", "sec", "slots", "inner", "closed"}
           /\ doc.nodes[i].slots \in Seq(Texts) /\ doc.nodes[i].attr \in Texts
           /\ doc.nodes[i].inner \in Nat /\ Len(doc.nodes[i].slots) = doc.nodes[i].inner + 1
    /\ \A s \in DOMAIN doc.tail : doc.tail[s] \in Texts

TextOf(node) == FlattenSeq(node.slots)
Words(doc) ==
    (UNION {ToSet(TextOf(doc.nodes[i])) : i \in DOMAIN doc.nodes})
        \cup (UNION {ToSet(doc.tail[s]) : s \in DOMAIN doc.tail})
Attributes(doc) == UNION {ToSet(doc.nodes[i].attr) : i \in DOMAIN doc.nodes}
Leaf(node) == Len(node.slots) = 1 /\ node.inner = 0
Blank(text) == \A i \in DOMAIN text : text[i] = " "
Demo(text) == \E i \in DOMAIN text : About[text[i]].demo

\* What a replacement over the whole document does to every element it matches.
OnNodes(doc, Change(_)) ==
    [doc EXCEPT !.nodes = [i \in DOMAIN doc.nodes |-> Change(doc.nodes[i])]]
OnText(doc, Change(_)) ==
    [OnNodes(doc, LAMBDA n : [n EXCEPT !.slots = [k \in DOMAIN @ |-> Change(@[k])]])
     EXCEPT !.tail = [s \in DOMAIN doc.tail |-> Change(doc.tail[s])]]

Harmless == DOMAIN About \ (Secrets \cup Scripts)

\* An active element without a closing tag stays, unless it is an <embed>.
Removed(node) == node.tag \in ActiveTags /\ (node.closed \/ node.tag = "embed")

NormalizeHtmlTemplate(doc) ==
    LET Kept(text) == Keep(text, Harmless)
        passive == [doc EXCEPT !.nodes = Keep(@, {n \in ToSet(@) : ~Removed(n)})]
    IN OnNodes(OnText(passive, Kept), LAMBDA n : [n EXCEPT !.attr = Kept(@)])

-----------------------------------------------------------------------------
(* Values and the deterministic renderer. *)

BuildPlaceholderValues(summary, evidence, private) ==
    LET summaryValue == FirstUsable(private.summary, FirstUsable(summary,
                            FirstUsable(evidence.candidateSummary, <<>>)))
        Both(field) == FirstNonEmpty(private[field], evidence[field])
        contact == private.email \o private.phone \o private.location \o private.links
    IN [name |-> private.fullName, fullName |-> private.fullName,
        title |-> private.headline, headline |-> private.headline,
        email |-> private.email, phone |-> private.phone,
        address |-> private.location, location |-> private.location,
        links |-> private.links, contact |-> contact,
        summary |-> summaryValue, candidateSummary |-> summaryValue, profile |-> summaryValue,
        experience |-> Both("experience"), workExperience |-> Both("experience"),
        projects |-> Both("projects"), skills |-> Both("skills"),
        education |-> Both("education"), certifications |-> Both("certifications"),
        languages |-> Both("languages"), rawText |-> private.rawText,
        ats |-> evidence.gaps, actionables |-> evidence.gaps]

ValueTokens(values) == UNION {TokenSet(values[name]) : name \in DOMAIN values}

\* The placeholders of a text, those without a value being removed.
FillText(text, values) ==
    FlattenSeq([i \in DOMAIN text |->
        LET slot == About[text[i]].slot
        IN IF slot = "" THEN <<text[i]>> ELSE ReadKey(values, slot)])

\* values[name] of an inherited name is no text: escapeHtml throws.
RenderThrows(template) ==
    LET normal == NormalizeHtmlTemplate(template)
    IN \E w \in Words(normal) \cup Attributes(normal) : About[w].slot \in Inherited

FillPlaceholders(doc, values) ==
    OnNodes(OnText(doc, LAMBDA text : FillText(text, values)),
            LAMBDA n : [n EXCEPT !.attr = FillText(@, values)])

\* The value is the replacement string of String.replace: each "$1" in it
\* puts the opening tag in once more.
Written(node, value) ==
    [node EXCEPT !.slots = <<value>>,
                 !.inner = Cardinality({i \in DOMAIN value : About[value[i]].dollar})]

ReplaceElementTextByClass(doc, signal, value) ==
    LET Change(n) == IF value # <<>> /\ signal \in n.cls /\ Leaf(n) THEN Written(n, value) ELSE n
    IN OnNodes(doc, Change)

ReplaceEmptyElementByClass(doc, signal, value) ==
    LET Change(n) == IF value # <<>> /\ signal \in n.cls /\ Leaf(n) /\ Blank(n.slots[1])
                     THEN Written(n, value) ELSE n
    IN OnNodes(doc, Change)

\* The slots that hold any text get one value each, the last one all the rest.
ReplaceElementTextSlots(doc, signal, parts) ==
    LET Change(n) ==
            LET used == {k \in DOMAIN n.slots : n.slots[k] # <<>>}
                Rank(k) == Cardinality({j \in used : j <= k})
                Value(k) == IF Rank(k) > Len(parts) THEN <<>>
                            ELSE IF k = Max(used)
                                 THEN FlattenSeq(SubSeq(parts, Rank(k), Len(parts)))
                                 ELSE parts[Rank(k)]
            IN IF signal \notin n.cls \/ (parts = <<>> /\ ~Demo(TextOf(n))) THEN n
               ELSE [n EXCEPT !.slots = [k \in DOMAIN @ |-> IF k \in used THEN Value(k) ELSE <<>>]]
    IN OnNodes(doc, Change)

ReplaceContactInfo(doc, values) ==
    LET parts == <<values.location, values.email, values.phone, values.links>>
    IN ReplaceElementTextSlots(doc, "contact-info", Keep(parts, ToSet(parts) \ {<<>>}))

(* Regression: no label of a template is kept. *)
NeverStatic(text) == FALSE

IsStatic(text) == Len(text) = 1 /\ text[1] \in Labels

\* Leaf text is cleared unless it is a label or shares a token with a value.
ClearMutableDemoLeafText(doc, values) ==
    LET kept == ValueTokens(values)
        Change(n) ==
            IF /\ Leaf(n) /\ n.tag \notin RawTags /\ n.slots[1] # <<>>
               /\ ~IsStatic(n.slots[1]) /\ TokenSet(n.slots[1]) \cap kept = {}
            THEN [n EXCEPT !.slots = << <<>> >>] ELSE n
    IN OnNodes(doc, Change)

ClearKnownTemplateGarbageText(doc) ==
    OnText(doc, LAMBDA text : IF \E i \in DOMAIN text : About[text[i]].garbage THEN <<>> ELSE text)

ClearKnownDemoIdentityText(doc, values) ==
    LET kept == ValueTokens(values)
        Change(n) ==
            IF /\ Leaf(n) /\ n.tag \notin RawTags /\ Demo(n.slots[1])
               /\ TokenSet(n.slots[1]) \cap kept = {}
            THEN [n EXCEPT !.slots = << <<>> >>] ELSE n
    IN OnNodes(doc, Change)

\* Sections that contain an element whose whole text is the title.
TitledSections(doc, title) ==
    {s \in DOMAIN doc.tail :
        \E i \in DOMAIN doc.nodes : LET n == doc.nodes[i] IN
            n.sec = s /\ n.tag \in TitleTags /\ Leaf(n) /\ n.slots[1] = <<title>>}

\* Every empty <li> of the section gets the next item, its inner tags go.
PopulateSectionListItems(doc, title, items) ==
    LET Open(i) == LET n == doc.nodes[i] IN
            /\ n.sec \in TitledSections(doc, title) /\ n.tag = "li"
            /\ n.attr = <<>> /\ n.cls = {} /\ (Blank(TextOf(n)) \/ Demo(TextOf(n)))
        Index(i) == Cardinality({j \in 1..i : doc.nodes[j].sec = doc.nodes[i].sec /\ Open(j)})
        Item(i) == IF Index(i) <= Len(items) THEN items[Index(i)] ELSE <<>>
    IN IF items = <<>> THEN doc
       ELSE [doc EXCEPT !.nodes = [i \in DOMAIN @ |->
                IF Open(i) THEN [@[i] EXCEPT !.slots = <<Item(i)>>, !.inner = 0] ELSE @[i]]]

\* splitCvItems: lists are joined with ";" and split there again.
SplitCvItems(value, n) ==
    LET usable == Keep(UniqueList(value), Clean)
    IN Take([i \in DOMAIN usable |-> <<usable[i]>>], n)

\* Skills are joined with "," and stay one item.
OneItem(value) == IF value = <<>> \/ \E i \in DOMAIN value : About[value[i]].garbage
                  THEN <<>> ELSE <<value>>

SectionTokens(doc, s) ==
    UNION {ToSet(About[w].tokens) :
        w \in ToSet(doc.tail[s]) \cup UNION {ToSet(TextOf(doc.nodes[i])) :
                  i \in {j \in DOMAIN doc.nodes : doc.nodes[j].sec = s}}}

AppendToSparseSection(doc, title, value) ==
    LET HasEvidence(s) == ToSet(Take(Tokens(value), 4)) \cap SectionTokens(doc, s) # {}
        sparse == {s \in TitledSections(doc, title) : ~HasEvidence(s)}
    IN [doc EXCEPT !.tail = [s \in DOMAIN @ |-> IF s \in sparse THEN @[s] \o value ELSE @[s]]]

\* The passes of renderSemanticCvFallback, in its order.
IdentityPasses(values) ==
    << <<"header-name", values.name>>, <<"cv-name", values.name>>,
       <<"header-title", values.title>>, <<"cv-title", values.title>>,
       <<"header-contact", values.contact>> >>
ContactPasses(values) ==
    << <<"contact-info", values.contact>>, <<"cv-contact", values.contact>>,
       <<"contact-link", values.contact>>, <<"email", values.email>>,
       <<"phone", values.phone>>, <<"location", values.location>>, <<"link", values.links>> >>
RegionPasses(values) ==
    << <<"summary", values.summary>>, <<"profile", values.profile>>,
       <<"experience", values.experience>>, <<"project", values.projects>>,
       <<"skill", values.skills>>, <<"education", values.education>>,
       <<"certification", values.certifications>>, <<"language", values.languages>> >>
ListPasses(values) ==
    LET experience == SplitCvItems(values.experience, 8)
        projects == SplitCvItems(values.projects, 6)
        education == SplitCvItems(values.education, 4)
        skills == OneItem(values.skills)
    IN << <<"work experience", experience>>, <<"professional experience", experience>>,
          <<"experience", experience>>, <<"projects", projects>>, <<"projects", projects>>,
          <<"education", education>>, <<"education", education>>,
          <<"key skills", skills>>, <<"skills", skills>> >>
SectionPasses(values) ==
    << <<"summary", values.summary>>, <<"professional experience", values.experience>>,
       <<"work experience", values.experience>>, <<"experience", values.experience>>,
       <<"education", values.education>>, <<"academic history", values.education>>,
       <<"projects", values.projects>>, <<"skills", values.skills>>,
       <<"key skills", values.skills>>, <<"contact", values.contact>>,
       <<"certifications", values.certifications>>, <<"languages", values.languages>> >>

InTurn(Pass(_, _, _), doc, passes) ==
    LET after[k \in 0..Len(passes)] ==
            IF k = 0 THEN doc ELSE Pass(after[k - 1], passes[k][1], passes[k][2])
    IN after[Len(passes)]

RenderSemanticCvFallback(doc, values) ==
    LET named == InTurn(ReplaceElementTextByClass, doc, IdentityPasses(values))
        reached == InTurn(ReplaceElementTextByClass, ReplaceContactInfo(named, values),
                          ContactPasses(values))
        filled == InTurn(ReplaceEmptyElementByClass, ClearMutableDemoLeafText(reached, values),
                         RegionPasses(values))
        cleaned == ClearKnownDemoIdentityText(ClearKnownTemplateGarbageText(filled), values)
        listed == InTurn(PopulateSectionListItems, cleaned, ListPasses(values))
    IN InTurn(AppendToSparseSection, listed, SectionPasses(values))

RenderDeterministicCvMarkdown(template, values) ==
    RenderSemanticCvFallback(FillPlaceholders(NormalizeHtmlTemplate(template), values), values)

-----------------------------------------------------------------------------
(* What is asked of every answer. *)

NormalizeMarkdown(doc) == IF doc.fence = "whole" THEN [doc EXCEPT !.fence = "none"] ELSE doc

IsSafeMarkdown(doc) ==
    /\ doc.nodes # <<>> /\ doc.fence = "none"
    /\ \A i \in DOMAIN doc.nodes : doc.nodes[i].tag \notin ActiveTags
    /\ \A w \in Words(doc) \cup Attributes(doc) : ~About[w].forbidden

\* The secrets of a document, in its texts and its attributes.
SecretsIn(doc) == (Words(doc) \cup Attributes(doc)) \cap Secrets

LeaksTemplateOnlySecret(doc, template) == SecretsIn(doc) \cap SecretsIn(template) # {}

\* An element keeps the tag, the inner tags and the attributes of the template's;
\* class is one attribute, and an answer may add others.
KeepsSignature(expected, actual) ==
    /\ actual.tag = expected.tag /\ actual.inner = expected.inner
    /\ expected.cls \in {{}, actual.cls}
    /\ ToSet(expected.attr) \subseteq ToSet(actual.attr)

NoSlot == {w \in DOMAIN About : About[w].slot = ""}

\* Texts that are a label once the placeholders in them are gone.
RequiredStaticText(template) ==
    {w \in Labels : \E i \in DOMAIN template.nodes : \E k \in DOMAIN template.nodes[i].slots :
        Keep(template.nodes[i].slots[k], NoSlot) = <<w>>}

ValidateTemplateStructure(template, doc) ==
    /\ template.nodes # <<>>
    /\ Len(template.nodes) = Len(doc.nodes)
    /\ \A i \in DOMAIN template.nodes : KeepsSignature(template.nodes[i], doc.nodes[i])
    /\ RequiredStaticText(template) \subseteq Words(doc)

\* hasGroundedCvContent: a token of who the candidate is, if there is one,
\* and a token of any evidence.
HasGroundedCvContent(doc, summary, evidence, private) ==
    LET output == UNION {ToSet(About[w].tokens) : w \in Words(doc)}
        identity == UNION {TokenSet(private[f]) : f \in {"fullName", "email", "phone"}}
        grounding == identity \cup TokenSet(summary)
            \cup (UNION {TokenSet(private[f]) : f \in {"headline", "location", "summary"}})
            \cup TokenSet(evidence.candidateSummary)
            \cup (UNION {TokenSet(<<w>>) : w \in UNION {ToSet(private[f]) :
                f \in {"links", "experience", "projects", "skills", "education",
                       "certifications", "languages"}}})
            \cup (UNION {TokenSet(<<w>>) : w \in UNION {ToSet(evidence[f]) :
                f \in {"experience", "projects", "skills", "education", "certifications",
                       "languages", "gaps"}}})
    IN /\ identity # {} => identity \cap output # {}
       /\ IF grounding = {} THEN Words(doc) # {} ELSE grounding \cap output # {}
=============================================================================
