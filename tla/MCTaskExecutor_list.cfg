SPECIFICATION Spec
CONSTANTS
  Jobs = {j1, j2}
  Sessions <- MCSessions
  LogName <- SafeName
  Files = {"f", "g"}
  UnsafeNames = {"../f"}
  Instructions <- ListInstructions
  ExitCodes <- MCExitCodes
  Grain = 1
  MaxTime = 2
SYMMETRY Symmetry
INVARIANTS
  EveryOutputIsReturned
CHECK_DEADLOCK FALSE
