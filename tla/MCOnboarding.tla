---------------------------- MODULE MCOnboarding ----------------------------
(* Instances of Onboarding for TLC: each set of Clients is the part of the  *)
(* API the clients of one behaviour use.                                    *)
EXTENDS Onboarding, TLC

ProfileAndPreferences == {"profile", "photo", "preferences"}
ClientSets == {ProfileAndPreferences, {"skills"}, {"experience"}, {"education"}}

ItemSet == {[start |-> 1, end |-> 2, current |-> FALSE],
            [start |-> 2, end |-> None, current |-> TRUE],
            [start |-> None, end |-> 1, current |-> FALSE],
            [start |-> 2, end |-> 1, current |-> FALSE],
            [start |-> 1, end |-> 2, current |-> TRUE]}

Symmetry == Permutations(Requests) \cup Permutations(Slugs)
============================================================================
