SPECIFICATION Spec
CONSTANTS
  q1 = q1
  q2 = q2
  Requests <- MCRequests
  MaxRuntimes = 3
  MaxInFlight = 1
  MaxHealth = 1
  MaxStreams = 1
INVARIANT
  StreamKeepsRuntime
