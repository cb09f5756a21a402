SPECIFICATION FairSpec
CONSTANTS
  ExchangeBound = 1
  SocketBound = 2
  FlightBound = 2
  RequestBound = 2
  ListLimit = 1
INVARIANTS
  FeedInOrder
  QueueShown
PROPERTY
  ChangeDelivered
