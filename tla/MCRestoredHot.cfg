\* A pass acts on a decision that a crash and a restore have overtaken.
SPECIFICATION FairMediaSpec
CONSTANTS
  reader1 = reader1
  Members <- MCMembers
  Jobs <- MCJobs
  Readers <- OneReader
  RetentionTime = 2
  HotTime = 1
  RetryTime = 1
  MaxRequests = 1
  MaxFaults = 1
  MaxNow = 3
PROPERTIES
  RestoredStaysHot
CHECK_DEADLOCK FALSE
