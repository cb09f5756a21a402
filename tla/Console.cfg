CONSTANTS
  Exchanges = {a, b}
  Nobody = nobody
  GestureBound = 6
  FlightBound = 2
  WireBound = 2
SPECIFICATION Spec
SYMMETRY Symmetry
INVARIANTS OwnText ReasoningFirst EndShown AutoSaved
CHECK_DEADLOCK FALSE
