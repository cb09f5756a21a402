SPECIFICATION Spec
CONSTANTS
  ExchangeBound = 2
  SocketBound = 2
  FlightBound = 2
  RequestBound = 1
  ListLimit = 2
INVARIANT
  QueueShows
