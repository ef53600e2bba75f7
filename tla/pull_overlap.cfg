\* Two web workers and one submission: every overlap of two requests, with lost
\* replies, aborted requests and results sent again.
CONSTANTS
  s1 = s1
  q1 = q1
  u1 = u1
  k1 = k1
  k2 = k2
  k3 = k3
  k4 = k4
  w1 = w1
  w2 = w2
  Ids = {s1}
  Queues = {q1}
  Urls = {u1}
  Keys = {k1, k2, k3, k4}
  NoKey = NoKey
  Null = Null
  NoOwner = NoOwner
  NoSubmission = NoSubmission
  SUBMISSION_PROCESSING_DELAY = 1
  MAX_NUMBER_OF_FAILURES = 1
  ATOMIC_REQUESTS = FALSE
  WebWorkers = {w1, w2}
  MaxGraders = 2
  MaxResends = 2
  MaxFaults = 1
  MaxTime = 4
SPECIFICATION Spec
SYMMETRY Symmetry
INVARIANTS
  PullInv
PROPERTIES
  LockedRowStays
  FailedReplyCounted
  ReopenedInTwoWays
