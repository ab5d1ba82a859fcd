\* Three files, two requests, one cleanup job; two faults of any kind but a
\* failing unlink in the catch block and a lost commit answer.
SPECIFICATION Spec
CONSTANTS
  Files = {f1, f2, f3}
  Requests = {r1, r2}
  Sweepers = {s1}
  RunKeys = {k1}
  Faults = {"db", "sweep", "crash"}
  MaxFaults = 2
  NoFile = NoFile
INVARIANTS
  OneActiveCv
  SnapshotKeepsItsFile
  DeletedMeansGone
PROPERTY ActiveCvOnlyExpires
SYMMETRY Symmetry
CHECK_DEADLOCK FALSE
