SPECIFICATION Spec
CONSTANTS
  Sessions = {s1, s2}
  Workers = {w1, w2, w3}
  MaxParallel = 2
  PollInterval = 1
  BackoffMax = 3
  IntMax = 7
  ConfigCode = ""
  RegisterOnStartup = TRUE
  Replies <- MCReplies
  Hanging = {}
  SendMayThrow = FALSE
  SpawnMayFail = TRUE
  MaxCrashes = 1
  MaxFailures = 2
PROPERTIES
  OnlyRunningSessionsAreRefused
