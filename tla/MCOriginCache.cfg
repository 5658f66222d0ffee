SPECIFICATION Spec
CONSTANTS
  q1 = q1
  q2 = q2
  q3 = q3
  q4 = q4
  k1 = k1
  k2 = k2
  k3 = k3
  NoRequest = NoRequest
  Requests <- MCRequests
  Keys <- MCKeys
  Sizes <- MCSizes
  MaxWaiters = 1
  MaxEntries = 2
  StoreBytes = 2
  Protected = FALSE
INVARIANT
  FlightsLed
PROPERTIES
  WaitersReleased
  CloseEnds
CHECK_DEADLOCK FALSE
