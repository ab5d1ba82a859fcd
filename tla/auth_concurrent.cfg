\* Two requests of any kind, two refresh tokens, one reset token, two Google
\* accounts, one request that dies half way.  Requests may all be refused, so
\* the system may stop.
SPECIFICATION Spec
CONSTANTS
  Requests = {r1, r2}
  Tokens = {t1, t2}
  Resets = {x1}
  GoogleIds = {g1, g2}
  None = None
  MaxFaults = 1
SYMMETRY Symmetry
INVARIANTS SessionsAreVerified SessionsOfLinkedIdentity UnverifiedKeepsItsCode UsedResetChangedPassword SequentialRotation SequentialReset
CHECK_DEADLOCK FALSE
