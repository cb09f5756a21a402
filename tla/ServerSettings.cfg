CONSTANTS
  PutBound = 2
  RestartBound = 1
  AskBound = 2
SPECIFICATION Spec
INVARIANTS TypeOK RestartKeeps CodecInStep SettingsShown
