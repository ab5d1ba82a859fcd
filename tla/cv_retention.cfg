\* Liveness: two file ids, two requests on them, one cleanup job; any two
\* faults.  No symmetry: TLC's
\* liveness checking does not allow it.
SPECIFICATION FairSpec
CONSTANTS
  Files = {f1, f2}
  Requests = {r1, r2}
  Sweepers = {s1}
  RunKeys = {k1}
  Faults = {"db", "lost", "unlink", "sweep", "crash"}
  MaxFaults = 2
  NoFile = NoFile
PROPERTY ExpiredFilesAreErased
CHECK_DEADLOCK FALSE
