------------------------ MODULE MCApplicationTracker ------------------------
(* Instances of ApplicationTracker for TLC.                                 *)
EXTENDS ApplicationTracker, TLC

Symmetry == Permutations(Applications) \cup Permutations(Jobs)
            \cup Permutations(Requests)
============================================================================
