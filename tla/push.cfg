\* One worker for each of two queues, two submissions, two crashes, two kills.
CONSTANTS
  s1 = s1
  s2 = s2
  q1 = q1
  q2 = q2
  u1 = u1
  p1 = p1
  p2 = p2
  Ids = {s1, s2}
  Queues = {q1, q2}
  Urls = {u1}
  Keys = {}
  NoKey = NoKey
  Null = Null
  NoOwner = NoOwner
  NoSubmission = NoSubmission
  SUBMISSION_PROCESSING_DELAY = 1
  MAX_NUMBER_OF_FAILURES = 1
  Workers = {p1, p2}
  QueueOf <- OnePerQueue
  MaxFaults = 2
  MaxKills = 2
  MaxTime = 2
SPECIFICATION FairSpec
INVARIANTS
  PushTypeOK
  RetiredIsReported
  GradedAgainOnlyAfterCrash
PROPERTIES
  QueuesAreEmptied
