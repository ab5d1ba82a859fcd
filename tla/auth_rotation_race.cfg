\* docs/operations/security.md:87 with two overlapping refreshes.
SPECIFICATION Spec
CONSTANTS
  Requests = {r1, r2}
  Tokens = {t1, t2, t3}
  Resets = {}
  GoogleIds = {}
  None = None
  MaxFaults = 0
PROPERTIES InvalidatedIsNotExchanged
CHECK_DEADLOCK FALSE
