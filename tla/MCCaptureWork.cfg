\* One item, claimed on two business days of three, two workers, two attempts of each run, with fairness.
SPECIFICATION FairCaptureSpec
CONSTANTS
  item1 = item1
  w1 = w1
  w2 = w2
  frozen = frozen
  NoIdentity = NoIdentity
  Roots <- MCItems
  Workers <- MCWorkers
  Identities <- MCIdentities
  Scope = frozen
  Days <- MCDays
  ResumeDelays <- MCDelays
  DayLength = 3
  RetryBase = 1
  ClockLag = 1
  MaxSeq = 2
  LeaseSeconds = 1
  MaxAttempts = 2
  MaxNow = 6
  MaxItems = 0
INVARIANTS
  OneContinuationPerDay
  ContinuationChain
  AttemptHoldsItem
  OneExecutor
  CompletedIsTerminal
  DueIsClaimable
PROPERTIES
  ChargedOnItsDay
  HoldsAwaitCommand
  AbandonedIsRequeued
CHECK_DEADLOCK FALSE
