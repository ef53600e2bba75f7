\* Three queues, so that the last group of two is not full; one of them has a
\* threshold of its own.  All three tries of a request may fail, and one more.
CONSTANTS
  q1 = q1
  q2 = q2
  q3 = q3
  Queues = {q1, q2, q3}
  GroupSize = 2
  max_tries = 3
  default_threshold = 50
  thresholds <- OneThreshold
  NoAlarm = NoAlarm
  MaxQueued = 2
  MaxErrors = 4
SPECIFICATION Spec
INVARIANTS
  CompleteWhenDone
  SameCountsToBoth
  RaisesOnlyWhenExhausted
PROPERTIES
  KeepsReport
