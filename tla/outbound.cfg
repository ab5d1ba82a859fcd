\* Two requests, or three e-mails by two senders, or one request and one e-mail.
SPECIFICATION Spec
CONSTANTS
  Requests = {q1, q2}
  Inputs <- InputSet
  Users = {"ann", "bob", "cid"}
  Profiles <- ProfileMap
  Jobs <- JobSet
  Traits <- TraitsOf
  Analyses <- AnalysisList
  Bookmarked = {}
  Alien = 9
  Stamps = {1, 2}
  MaxModelCandidateJobs = 1
  MaxList = 2
  MaxCalls = 2
  MaxFaults = 1
  MaxChanges = 1
  None = None
  Senders = {s1, s2}
  Messages = {"verify", "reset", "again"}
  EmailKey <- KeyMap
  MaxRetries = 1
  MaxSends = 3
  NoMessage = NoMessage
  MaxLoad = 6
INVARIANTS
  TypeOK
  OneRunPerKey
  FitScoresHaveGaps
  DocumentedStatus
  EmailOncePerKey
SYMMETRY Symmetry
CHECK_DEADLOCK FALSE
