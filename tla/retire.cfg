\* Two processes run any of the commands for q1 on two submissions of q1 or q2, in
\* chunks of one, and one command is interrupted.  With a maximum of 0 every row without a
\* failure has reached it: exclude(num_failures=0) alone keeps it out.
CONSTANTS
  s1 = s1
  s2 = s2
  q1 = q1
  q2 = q2
  u1 = u1
  k1 = k1
  c1 = c1
  c2 = c2
  Ids = {s1, s2}
  Queues = {q1, q2}
  Urls = {u1}
  Keys = {k1}
  NoKey = NoKey
  Null = Null
  NoOwner = NoOwner
  NoJob = NoJob
  NoSubmission = NoSubmission
  SUBMISSION_PROCESSING_DELAY = 1
  MAX_NUMBER_OF_FAILURES = 0
  Commands = {c1, c2}
  Jobs <- AllJobs
  ChunkSize = 1
  MaxFaults = 1
  MaxTime = 2
SPECIFICATION FairSpec
INVARIANTS
  CommandTypeOK
  RetiredIsNotified
PROPERTIES
  RetiredForAReason
  NoneLeftOut
  ReopenedOnlyByFailedNotice
  CommandsEnd
