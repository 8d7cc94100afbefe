SPECIFICATION FairSpec
CONSTANTS
  NFiles = 2
  MaxBlocks = 2
  Tls = TRUE
INVARIANTS
  EveryFileArrives
CHECK_DEADLOCK FALSE
