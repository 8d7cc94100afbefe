SPECIFICATION FairSpec
CONSTANTS
  Sessions = {s1, s2, s3}
  Workers = {w1, w2, w3}
  MaxParallel = 2
  PollInterval = 1
  BackoffMax = 3
  IntMax = 7
  ConfigCode = "configured"
  RegisterOnStartup = TRUE
  Replies <- MCReplies
  Hanging = {s1}
  SendMayThrow = FALSE
  SpawnMayFail = FALSE
  MaxCrashes = 1
  MaxFailures = 2
INVARIANTS
  TypeOK
  RegistryIsExact
  OneRequestInFlight
  BackoffFollowsErrors
  OneOutcomePerRun
PROPERTIES
  OnlyRunningSessionsAreRefused
  ImplementsTaskService
  PollingNeverStops
  ClaimsAreReleased
  EveryRunIsReported
