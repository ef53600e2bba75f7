\* Two calls that overlap, five attempts each, and an LMS that is taken out of
\* service up to twice.
CONSTANTS
  c1 = c1
  c2 = c2
  Callers = {c1, c2}
  Pending = Pending
  MAX_ATTEMPTS = 5
  MaxOutages = 2
SPECIFICATION FairSpec
INVARIANTS
  DeliveryTypeOK
  GivesUpAfterAllAttempts
PROPERTIES
  KeepsContract
  AlwaysReturns
