\* One web worker, two submissions, each view a transaction: requests do not
\* overlap, but replies are lost, requests abort and graders forget.  MaxTime is
\* beyond the last pull that graders who are not late can cause.
CONSTANTS
  s1 = s1
  s2 = s2
  q1 = q1
  u1 = u1
  k1 = k1
  k2 = k2
  k3 = k3
  k4 = k4
  w1 = w1
  Ids = {s1, s2}
  Queues = {q1}
  Urls = {u1}
  Keys = {k1, k2, k3, k4}
  NoKey = NoKey
  Null = Null
  NoOwner = NoOwner
  NoSubmission = NoSubmission
  SUBMISSION_PROCESSING_DELAY = 1
  MAX_NUMBER_OF_FAILURES = 1
  ATOMIC_REQUESTS = TRUE
  WebWorkers = {w1}
  MaxGraders = 2
  MaxResends = 0
  MaxFaults = 1
  MaxTime = 5
SPECIFICATION FairSpec
INVARIANTS
  NoDoublePull
  AutoRetired
  GradedOnce
PROPERTIES
  KeepsPromise
  EventuallyRetired
