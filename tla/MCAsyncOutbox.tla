--------------------------- MODULE MCAsyncOutbox ---------------------------
(***************************************************************************)
(* AsyncOutbox for TLC.  Workers and publishers are interchangeable: no    *)
(* action, invariant or action property tells one from another.            *)
(***************************************************************************)
EXTENDS AsyncOutboxRefinement, TLC

Symmetry == Permutations(Workers) \cup Permutations(Publishers)
=============================================================================
