SPECIFICATION Spec
CONSTANTS
  Calls = {c1, c2}
  NoCall = NoCall
  Size = 2
  MaxWorkers = 3
INVARIANTS
  TypeOK
  NeverLatched
  ReadyServes
  CallsTracked
PROPERTIES
  EvaluationNotCut
  BacksOff
  CallsAnswered
  CloseCompletes
CHECK_DEADLOCK FALSE
