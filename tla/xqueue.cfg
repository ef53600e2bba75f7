\* Two submissions of one pair, two web workers, a push worker and a command; one
\* pull, and one command, fault, signal, resend or minute in all.
CONSTANTS
  s1 = s1
  s2 = s2
  q1 = q1
  a = a
  colA = colA
  k1 = k1
  w1 = w1
  w2 = w2
  p1 = p1
  c1 = c1
  Ids = {s1, s2}
  Queues = {q1}
  Urls = {colA}
  Keys = {k1}
  NoKey = NoKey
  Null = Null
  NoOwner = NoOwner
  SUBMISSION_PROCESSING_DELAY = 1
  MAX_NUMBER_OF_FAILURES = 1
  MaxTime = 2
  MaxFaults = 2
  WebWorkers = {w1, w2}
  ATOMIC_REQUESTS = FALSE
  MaxGraders = 1
  MaxResends = 1
  CallbackUrls = {a}
  Truncated <- OnePair
  NoRequest = NoRequest
  Workers = {p1}
  QueueOf <- PushWorker
  MaxKills = 1
  Commands = {c1}
  Jobs <- SomeJobs
  NoJob = NoJob
  ChunkSize = 1
  NoSubmission = NoSubmission
  MaxEvents = 1
SPECIFICATION Spec
SYMMETRY Symmetry
INVARIANTS
  EveryAckIsReal
  NoSilentEnd
PROPERTIES
  NoticeIsDeserved
  LockHoldsForAll
  ReopenedOnlyByThese
