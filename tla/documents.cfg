\* Two requests of different kinds: generating, analysing, reading.
SPECIFICATION Spec
CONSTANTS
  About <- AboutMap
  Inferred <- InferredMap
  Labels = {"experience", "skills", "projects"}
  Secrets = {"token=1"}
  Scripts = {"onclick"}
  Inherited = {"constructor"}
  Phrase = "overall"
  Requests = {q1, q2}
  Inputs <- InputSet
  Files = {"f1", "f2", "f3"}
  Owner <- OwnerMap
  Content <- ContentMap
  Jobs = {1, 2, 3}
  Traits <- TraitsOf
  Bookmarked = {}
  Cores <- CoreSet
  Earlier <- EarlierList
  EarlierRuns <- EarlierKeys
  Expiring = {"f1"}
  MaxRetries = 1
  MaxCalls <- Calls
  MaxLoad = 2
  MaxFaults = 1
INVARIANTS
  TypeOK
  OnlyThisCv
  FallbackAnswers
  PublishedAsScored
  WrapperIsOptional
SYMMETRY Symmetry
CHECK_DEADLOCK FALSE
