SPECIFICATION Spec
CONSTANTS
  Jobs = {j1, j2}
  Sessions <- MCSessions
  LogName <- SafeName
  Files = {"f", "g"}
  UnsafeNames = {"../f"}
  Instructions <- AllInstructions
  ExitCodes <- MCExitCodes
  Grain = 2
  MaxTime = 3
SYMMETRY Symmetry
INVARIANTS
  TypeOK
  
  NewFilesAreCollected
  WaitsForEveryFile
CHECK_DEADLOCK FALSE
