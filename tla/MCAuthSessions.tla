--------------------------- MODULE MCAuthSessions ---------------------------
(* The auth module on small sets of requests, tokens and Google accounts.  *)
EXTENDS AuthSessions, TLC

Symmetry ==
  Permutations(Requests) \cup Permutations(Tokens)
    \cup Permutations(Resets) \cup Permutations(GoogleIds)
=============================================================================
