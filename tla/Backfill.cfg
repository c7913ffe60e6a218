SPECIFICATION FairSpec
CONSTANTS
  Sessions = {1, 2}
  MaxVersion = 2
  Quota = 2
  MaxConcurrency = 2
  MaxAttempts = 2
  Legacy = {1}
  MaxFaults = 1
INVARIANTS
  WithinQuota
  NoneRefused
  RequestsBounded
PROPERTIES
  ContentKept
  PublishedArrives
