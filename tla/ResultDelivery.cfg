SPECIFICATION FairSpec
CONSTANTS
  NFiles = 2
  MaxBlocks = 2
  Tls = TRUE
INVARIANTS
  FirstBodyIsWhole
  NoHeadlessBlock
PROPERTIES
  DeliveryEnds
  ImplementsExchange
CHECK_DEADLOCK FALSE
