\* Callback URLs longer than the column: two modules of one user, same first 128
\* characters.
CONSTANTS
  s1 = s1
  s2 = s2
  s3 = s3
  q1 = q1
  a = a
  b = b
  colA = colA
  colB = colB
  w1 = w1
  w2 = w2
  Ids = {s1, s2, s3}
  Queues = {q1}
  Urls = {colA, colB}
  CallbackUrls = {a, b}
  Truncated <- Long
  Keys = {}
  NoKey = NoKey
  Null = Null
  NoOwner = NoOwner
  NoRequest = NoRequest
  WebWorkers = {w1, w2}
  SUBMISSION_PROCESSING_DELAY = 1
  MAX_NUMBER_OF_FAILURES = 1
  MaxFaults = 0
  MaxTime = 1
SPECIFICATION Spec
SYMMETRY Symmetry
PROPERTIES
  OnlyOwnPriorRetired

