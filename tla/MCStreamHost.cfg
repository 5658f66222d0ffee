SPECIFICATION Spec
CONSTANTS
  s1 = s1
  s2 = s2
  Streams <- MCStreams
  Sizes <- MCSizes
  MaxStreams = 1
  MaxBytes = 2
INVARIANTS
  TypeOK
  HonestEnding
  ProducerStopped
  SlotsExact
PROPERTIES
  FirstReasonWins
  StreamEnds
CHECK_DEADLOCK FALSE
