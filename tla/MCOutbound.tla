----------------------------- MODULE MCOutbound -----------------------------
(* Inputs for TLC: two listings of which the model is sent one, a user      *)
(* who may be analysed, one whose profile is empty and one without          *)
(* preferences, an analysis for role names, one for a listing, a listing    *)
(* with texts over the limits.                                              *)
EXTENDS Outbound

JobSet == {1, 2}
TraitsOf == [j \in JobSet |->
    [role |-> j = 2, skills |-> IF j = 1 THEN 7 ELSE 0, remote |-> FALSE, posted |-> 1,
     title |-> 40, skill |-> IF j = 1 THEN 20 ELSE 100,
     requirement |-> IF j = 1 THEN 20 ELSE 600]]
Complete == [profile |-> {[careerStatus |-> FALSE, latestRole |-> FALSE]},
             skills |-> 2, experience |-> 0,
             preference |-> {[targetRoles |-> <<"backend">>, locations |-> <<"Bali">>,
                              workTypes |-> {"REMOTE"}]}]
ProfileMap == "ann" :> Complete @@ "bob" :> [Complete EXCEPT !.skills = 0]
              @@ "cid" :> [Complete EXCEPT !.preference = {}]
Analysis(job) == [owner |-> "ann", job |-> job, signals |-> {12}, summary |-> {90},
                  actions |-> {150}, missing |-> {30}]
AnalysisList == <<Analysis(1), Analysis(None)>>

Recommend(key, limit, analysis, exclude) ==
    [kind |-> "recommend", user |-> "ann", key |-> key, limit |-> limit,
     analysis |-> analysis, filter |-> JobSet, excludeApplied |-> exclude]
InputSet == {Recommend("k", 2, None, TRUE), Recommend("k", 1, 1, FALSE),
             [kind |-> "latest", user |-> "ann", limit |-> 1],
             [kind |-> "detail", user |-> "ann", limit |-> 1, run |-> 1],
             [kind |-> "detail", user |-> "bob", limit |-> 1, run |-> 1],
             [kind |-> "fit", user |-> "ann", job |-> 1, persist |-> TRUE],
             [kind |-> "fit", user |-> "ann", job |-> 2, persist |-> FALSE],
             [kind |-> "fit", user |-> "bob", job |-> 1, persist |-> TRUE],
             [kind |-> "fit", user |-> "cid", job |-> 1, persist |-> TRUE],
             [kind |-> "ready"]}
KeyMap == "verify" :> "k1" @@ "reset" :> "k2" @@ "again" :> "k2"

Symmetry == Permutations(Requests) \cup Permutations(Senders)
=============================================================================
