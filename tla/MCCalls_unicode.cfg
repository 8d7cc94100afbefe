SPECIFICATION Spec
CONSTANTS
  Sessions = {s1}
  Links <- MCLinks
  RegularFiles <- MCRegularFiles
  Cwd <- MCCwd
  ResultDirectory <- AbsoluteDirectory
  Names <- MCNames
  EnvNames = {"WEB_AGENT_ACCESS_CODE", "OTHER", "1BAD"}
  ValidNames = {"WEB_AGENT_ACCESS_CODE", "OTHER"}
  DefaultEnv = "WEB_AGENT_ACCESS_CODE"
  Numbers <- MCNumbers
  MaxCaptured = 3
  Instructions <- MCInstructions
  PathOf <- MCPathOf
  ConfigFiles <- MCConfigFiles
  CommandLines <- MCCommandLines
  Outputs <- MCOutputs
  NumberTexts <- MCNumberTexts
  Messages <- MCMessages
  EncodedStrings <- MCEncodedStrings
  Documents <- MCDocuments
  Payloads <- MCPayloads
  KeyOrder <- MCKeyOrder
  Depth = 2
INVARIANTS
  ReadsEveryEscape
CHECK_DEADLOCK FALSE
