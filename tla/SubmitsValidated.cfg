CONSTANTS
  Exchanges = {a, b}
  Nobody = nobody
  GestureBound = 4
  FlightBound = 2
  WireBound = 1
SPECIFICATION Spec
INVARIANT SubmitsValidated
CHECK_DEADLOCK FALSE
