SPECIFICATION Spec
CONSTANTS
  Sessions = {s1, s2, s3}
  Workers = {w1, w2, w3}
  MaxParallel = 2
  PollInterval = 2
  BackoffMax = 3
  IntMax = 3
  ConfigCode = ""
  RegisterOnStartup = FALSE
  Replies <- MCReplies
  Hanging = {}
  SendMayThrow = TRUE
  SpawnMayFail = TRUE
  MaxCrashes = 1
  MaxFailures = 2
SYMMETRY Symmetry
INVARIANTS
  NoConcurrentSession
  LiveIsClaimed
  ParallelLimit
  RequestsCarryCode
