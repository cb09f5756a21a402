CONSTANTS
  Drafts <- MCDrafts
  Wide <- MCWide
  TokenEnds <- MCTokenEnds
  IncludeUsage = TRUE
  EventLimit = 100
SPECIFICATION Spec
INVARIANTS
  PlanPhased
  PrefixReplay
  RoundTrip
  ClientAgrees
