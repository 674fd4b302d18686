\* Two members, one reader, one restore request, one fault.
SPECIFICATION FairMediaSpec
CONSTANTS
  reader1 = reader1
  Members <- MCMembers
  Jobs <- MCJobs
  Readers <- OneReader
  RetentionTime = 2
  HotTime = 1
  RetryTime = 1
  MaxRequests = 1
  MaxFaults = 1
  MaxNow = 3
INVARIANTS
  OriginalsSurvive
  GoneIsExplained
  LeaseKeepsOriginals
PROPERTIES
  NothingComesBack
  DueIsPurged
CHECK_DEADLOCK FALSE
