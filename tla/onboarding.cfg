\* One user, two handlers, one failing statement or dying process; clients
\* use the profile and the preferences, or one kind of list.
SPECIFICATION Spec
CONSTANTS
  Requests = {r1, r2}
  Slugs = {s1, s2}
  Items <- ItemSet
  Amounts = {1, 2}
  Roles = {role}
  Usernames = {n1}
  Clients <- ClientSets
  MaxFaults = 1
  None = None
  Keep = Keep
INVARIANTS
  TypeOK
  StatusNeverAhead
  SequentialStatus
  StoredRangeIsValid
  SequentialLists
SYMMETRY Symmetry
