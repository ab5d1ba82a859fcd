---------------------------- MODULE MCJobBoard ----------------------------
(* Batches and queries for TLC: two platforms, one company on both, a job  *)
(* twice in one batch, listings that are hidden, tie or have half a salary; *)
(* one query per list and order, one edit that writes both of its fields.  *)
EXTENDS JobBoard, TLC

NameSet == {"Glints", "Kalibrr", "PT Acme", "Acme", "Go", "go"}
SlugSet == {"glints", "kalibrr", "acme", "go"}
SlugMap == [n \in NameSet |-> CASE n = "Glints" -> "glints"
                                [] n = "Kalibrr" -> "kalibrr"
                                [] n \in {"PT Acme", "Acme"} -> "acme"
                                [] OTHER -> "go"]

Data(status, seen, posted, min, max) ==
    [status |-> status, seen |-> seen, posted |-> posted, min |-> min, max |-> max,
     words |-> IF seen = 0 THEN {"w"} ELSE {}, facet |-> "f"]
AJob(platform, external, company, skills, run, data) ==
    [platform |-> platform, external |-> external, company |-> company,
     skills |-> skills, run |-> run, data |-> data]

First == <<AJob("Glints", 1, "Acme", {}, "r1", Data("ACTIVE", 1, None, 1, 2)),
           AJob("Glints", 2, "Acme", {"Go", "go"}, "r1", Data("STALE", 0, 1, 2, None)),
           AJob("Glints", 1, "PT Acme", {}, "r1", Data("ACTIVE", 0, None, 1, 3))>>
Second == <<AJob("Kalibrr", 1, "Acme", {}, "r1", Data("ACTIVE", 0, None, None, 2)),
            AJob("Glints", 1, "Acme", {}, None, Data("HIDDEN", 1, 0, None, None))>>
BatchSet == {First, Second}

Query(kind, sort, min, max, keyword) ==
    [kind |-> kind, sort |-> sort, min |-> min, max |-> max, keyword |-> keyword,
     facet |-> None, platform |-> None, skill |-> None, limit |-> 1]
QuerySet == {Query("jobs", "salary_highest", 3, 3, None),
             [Query("jobs", "newest", None, 1, None) EXCEPT
                 !.facet = "f", !.platform = "glints", !.skill = "go"],
             Query("bookmarks", "newest", None, None, "w"),
             [Query("applications", "updated_desc", None, None, "w") EXCEPT
                 !.facet = "INTERVIEW"]}
AtLeastTwo == {Query("jobs", "salary_highest", 2, None, None)}
EditSet == {[status |-> "INTERVIEW", notes |-> {"w"}]}
WantedSet == {<<"glints", 1>>}

Symmetry == Permutations(Syncs)
============================================================================
