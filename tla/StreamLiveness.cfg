SPECIFICATION FairSpec
CONSTANTS
  Plans <- MCShortPlans
  KeepAlive = TRUE
  IncludeUsage = FALSE
  CutAfter = {1}
  ScriptBound = 2
  ControlBound = 1
PROPERTIES
  EndingComes
  SubmittedEnds
