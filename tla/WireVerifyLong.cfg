CONSTANTS
  Drafts <- MCDrafts
  Wide <- MCWide
  TokenEnds <- MCTokenEnds
  IncludeUsage = TRUE
  EventLimit = 6
SPECIFICATION Spec
INVARIANT DualRepresentation
