SPECIFICATION Spec
CONSTANTS
  Plans <- MCPlans
  KeepAlive = TRUE
  IncludeUsage = TRUE
  CutAfter = {1, 3}
  ScriptBound = 3
  ControlBound = 2
INVARIANTS
  TypeOK
  WireOrder
  OneResponse
  LogTracksWire
  NothingLost
  AnswerOnWire
  ResponseOwned
  CutCount
  HardAbortTruncates
  OneEnding
PROPERTIES
  RecordFrozen
  ContractSpec
