\* Two requests, one response is waited for, and sleeps that last up to twice as
\* long as asked for.  The timeout is not a multiple of them.
CONSTANTS
  s1 = s1
  s2 = s2
  Submissions = {s1, s2}
  Nothing = Nothing
  Wanted = 1
  timeout = 3
  sleep_time = 1
  Oversleep = 1
  MAX_ATTEMPTS = 2
  MaxFaults = 2
SPECIFICATION FairSpec
INVARIANTS
  TimeoutIsReal
  OneMoreAfterStop
  FailureOnlyOfFault
PROPERTIES
  TestEnds
