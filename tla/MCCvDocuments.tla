---------------------------- MODULE MCCvDocuments ----------------------------
(* Inputs for TLC: two files of ann, whose strings are shown one by one in  *)
(* the first and in arrays in the second, one of bob, five templates, and   *)
(* requests for listings of which one is over the limits of the payload.    *)
EXTENDS CvDocuments

Plain == [mvp |-> "none", shared |-> "none", tokens |-> <<>>, email |-> "", phone |-> "",
          link |-> "", name |-> FALSE, role |-> FALSE, place |-> FALSE, infers |-> 5,
          skills |-> <<>>, sharedSkills |-> <<>>, garbage |-> FALSE, demo |-> FALSE, dollar |-> FALSE,
          forbidden |-> FALSE, private |-> FALSE, abbreviated |-> FALSE, size |-> 20, slot |-> ""]
Says(word) == [Plain EXCEPT !.tokens = <<word>>]
Skill(size) == [Plain EXCEPT !.size = size]
Heading(mvp, shared) == [Plain EXCEPT !.mvp = mvp, !.shared = shared]

AboutMap ==
    "%PDF" :> [Plain EXCEPT !.garbage = TRUE]
    @@ "Anneke" :> [Says("anneke") EXCEPT !.name = TRUE]
    @@ "a@x" :> [Plain EXCEPT !.email = "a@x", !.private = TRUE]
    @@ "+62" :> [Plain EXCEPT !.phone = "+62", !.private = TRUE]
    @@ "Experience" :> Heading("experience", "experience")
    @@ "Built APIs" :> [Says("built") EXCEPT !.infers = 2]
    @@ "Skills" :> Heading("skills", "skills")
    @@ "Go, Vi" :> [Plain EXCEPT !.skills = <<"Go", "Vi">>, !.sharedSkills = <<"go", "vi">>]
    @@ "Go" :> Skill(2) @@ "Vi" :> Skill(2) @@ "go" :> Skill(2) @@ "vi" :> Skill(2)
    @@ "Summary" :> Heading("summary", "summary")
    @@ "Saved $100K" :> [Says("saved") EXCEPT !.dollar = TRUE]
    @@ "Projects" :> Heading("projects", "projects")
    @@ "JavaScript: ES6" :> [Says("javascript") EXCEPT !.forbidden = TRUE]
    @@ "Beta lead" :> Says("beta")
    @@ "Frontend Developer" :> Says("frontend") @@ "Backend Developer" :> Says("backend")
    @@ "Full-Stack Developer" :> Says("full") @@ "Data Analyst" :> Says("data")
    @@ "cover" :> Says("cover")
    @@ "overall" :> Says("overall")
    @@ "long1" :> Skill(120) @@ "long2" :> Skill(130) @@ "long3" :> Skill(120)
    @@ "long4" :> Skill(120) @@ "long5" :> Skill(120) @@ "long6" :> Skill(120)
    @@ "jalan" :> [Plain EXCEPT !.private = TRUE]
    @@ "jl" :> [Plain EXCEPT !.abbreviated = TRUE]
    @@ "Alex Doe" :> [Says("alex") EXCEPT !.demo = TRUE]
    @@ "experience" :> Plain @@ "skills" :> Plain @@ "projects" :> Plain
    @@ "{{name}}" :> [Plain EXCEPT !.slot = "name"]
    @@ "{{email}}" :> [Plain EXCEPT !.slot = "email"]
    @@ "{{constructor}}" :> [Plain EXCEPT !.slot = "constructor"]
    @@ "token=1" :> Plain @@ "onclick" :> [Plain EXCEPT !.forbidden = TRUE]
    @@ " " :> Plain

InferredMap == <<"Frontend Developer", "Backend Developer", "Full-Stack Developer", "Data Analyst">>

Lines1 == <<"Anneke", "a@x", "+62", "Experience", "Built APIs", "Skills", "Go, Vi">>
Lines2 == <<"Summary", "Saved $100K", "Projects", "Beta lead">>
Pdf(shown, literals, printable) ==
    [pdf |-> TRUE, shown |-> shown, literals |-> literals,
     raw |-> <<"%PDF">> \o literals, printable |-> printable]
ContentMap == "f1" :> Pdf(Lines1, Lines1, FALSE) @@ "f2" :> Pdf(<<>>, Lines2, TRUE)
              @@ "f3" :> Pdf(<<>>, <<"JavaScript: ES6">>, TRUE)
OwnerMap == "f1" :> "ann" @@ "f2" :> "ann" @@ "f3" :> "bob"

Node(tag, cls, sec, text) ==
    [tag |-> tag, cls |-> cls, attr |-> <<>>, sec |-> sec, slots |-> <<text>>, inner |-> 0,
     closed |-> TRUE]
Doc(nodes) == [nodes |-> nodes, tail |-> [s \in 1..2 |-> <<>>], fence |-> "none"]
\* Demonstration copy, an empty region, a list, a section without a list.
Template1 == Doc(<<Node("h1", {"header-name"}, 0, <<"Alex Doe">>),
                   Node("p", {"summary"}, 0, <<>>),
                   Node("h2", {}, 1, <<"experience">>), Node("li", {}, 1, <<>>),
                   Node("h2", {}, 2, <<"skills">>)>>)
\* Placeholders, also in an attribute, a script, an event handler, a secret.
Template2 == Doc(<<Node("h1", {}, 0, <<"{{name}}">>),
                   [Node("a", {"email"}, 0, <<"{{email}}", "token=1">>) EXCEPT
                       !.attr = <<"{{email}}", "onclick">>],
                   Node("script", {}, 0, <<>>)>>)
\* Structured contact data, list items with inner tags, a label alone.
Template3 == Doc(<<[Node("div", {"contact-info"}, 0, <<>>) EXCEPT
                       !.slots = << <<" ">>, <<"Alex Doe">>, <<>> >>, !.inner = 2],
                   Node("h2", {}, 1, <<"projects">>),
                   [Node("li", {}, 1, <<>>) EXCEPT !.slots = << <<>>, <<>> >>, !.inner = 1],
                   Node("li", {}, 1, <<>>),
                   Node("h3", {"header-title"}, 2, <<"skills">>)>>)

\* A script that is never closed; a placeholder of a name every object has.
Template4 == Doc(<<Node("h1", {}, 0, <<>>),
                   [Node("script", {}, 0, <<>>) EXCEPT !.closed = FALSE]>>)
Template5 == Doc(<<Node("h1", {}, 0, <<"{{constructor}}">>)>>)

Listing(posted, role, title) ==
    [posted |-> posted, open |-> TRUE, role |-> role, title |-> title, summary |-> 300]
TraitsOf == <<Listing(1, TRUE, 40), Listing(2, FALSE, 40), Listing(3, FALSE, 255)>>
CoreSays(matched, missing, detected, ranking, at) ==
    [matched |-> matched, missing |-> missing, detected |-> detected,
     ranking |-> ranking, model |-> <<"core", FALSE>>, at |-> at]
CoreSet == {CoreSays(<<"Go", "jalan">>, <<>>, <<"a@x">>, "all", 2),
            CoreSays(<<"Go">>, <<"Vi">>, <<>>, "none", 1),
            CoreSays(<<"long1", "long2", "long3">>, <<"long4", "long5", "long6">>, <<>>, "all", 1),
            CoreSays(<<"jl">>, <<>>, <<>>, "none", 1),
            [CoreSays(<<>>, <<>>, <<>>, "none", 1) EXCEPT !.model = <<"core", TRUE>>],
            CoreSays(<<>>, <<>>, <<>>, "twice", 1), CoreSays(<<>>, <<>>, <<>>, "unknown", 1)}

Generate(user, file, template) ==
    [kind |-> "generate", user |-> user, file |-> file, summary |-> <<"cover">>,
     template |-> template]
Analyze(file, source, job, persist, id) ==
    [kind |-> "analyze", user |-> "ann", file |-> file, source |-> source, job |-> job,
     persist |-> persist, id |-> id]
Read(user, what) == [kind |-> "read", user |-> user, what |-> what]
InputSet == {Generate("ann", "f1", Template1), Generate("ann", "f2", Template1),
             Generate("ann", "f1", Template2), Generate("ann", "f2", Template3),
             Generate("bob", "f3", Template1), Generate("bob", "f1", Template1),
             Generate("ann", "f1", Template4), Generate("ann", "f1", Template5),
             Analyze("f1", "JOB_SEARCH", 0, TRUE, "new"),
             Analyze("f2", "DIRECT_JOB_DETAIL", 2, TRUE, "id"),
             Analyze("f2", "DIRECT_JOB_DETAIL", 3, FALSE, "id"),
             Analyze("f2", "BOOKMARK", 0, FALSE, "id"),
             Read("ann", "latest"), Read("ann", "detail") @@ [id |-> 2],
             Read("bob", "detail") @@ [id |-> 1],
             Read("ann", "list") @@ [files |-> {"f1", "f2"}, skip |-> 0, limit |-> 1]}

EarlierCore == [fit |-> [score |-> 7, matched |-> <<>>, missing |-> <<"Go">>],
                ats |-> [score |-> 8, detected |-> <<>>], evidence |-> <<"Beta lead">>,
                recommendations |-> <<>>, model |-> <<"core", FALSE>>, at |-> 1]
EarlierList == <<[user |-> "ann", file |-> "f2", core |-> EarlierCore,
                  response |-> BuildDeterministicResponse(EarlierCore)]>>
EarlierKeys == {<<"ann", "id">>}
Calls == [kind \in Kinds |-> 1]
Symmetry == Permutations(Requests)
=============================================================================
