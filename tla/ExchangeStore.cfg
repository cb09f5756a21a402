CONSTANTS
  x1 = x1
  x2 = x2
  Ids <- MCIds
  DraftBound = 2
  InjectBound = 1
  CrashBound = 2
SPECIFICATION FairSpec
INVARIANTS
  LogLeadsRow
  RowTracksRuntime
  ResultMatchesRow
  DraftsInStep
PROPERTIES
  AbandonedEnds
