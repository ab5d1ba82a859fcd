\* Two batches in flight, chunks of two jobs, two batches in all, one
\* failure; one client that reads lists, saves and tracks a job and edits it.
SPECIFICATION Spec
CONSTANTS
  Batches <- BatchSet
  Names <- NameSet
  Slugs <- SlugSet
  Slug <- SlugMap
  Externals = {1, 2}
  SourceRuns = {"r1"}
  Syncs = {s1, s2}
  ChunkSize = 2
  MaxBatches = 2
  MaxFaults = 1
  None = None
  Queries <- QuerySet
  Readers = {r1, r2}
  Walkers = {r1}
  MaxClock = 1
  StaleAfter = 0
  Edits <- EditSet
  Wanted <- WantedSet
  MaxSaved = 1
INVARIANTS
  TypeOK
  OneCompanyPerPlatform
  SequentialSync
  SequentialWalk
SYMMETRY Symmetry
CHECK_DEADLOCK FALSE
