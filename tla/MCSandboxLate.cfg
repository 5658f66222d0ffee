SPECIFICATION Spec
CONSTANTS
  Calls = {c1}
  NoCall = NoCall
  Size = 1
  MaxWorkers = 4
INVARIANT NoWorkerLeft
CHECK_DEADLOCK FALSE
