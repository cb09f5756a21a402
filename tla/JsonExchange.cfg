SPECIFICATION FairSpec
INVARIANTS
  BreachMarked
PROPERTIES
  Settled
  ContractSpec
  SubmittedEnds
  WaitEnds
