\* One item, one slot claimed twice, two workers, two attempts, with fairness.
SPECIFICATION PlainPaidWork
CONSTANTS
  item1 = item1
  w1 = w1
  w2 = w2
  frozen = frozen
  s1 = s1
  identity = identity
  NoIdentity = NoIdentity
  Roots <- MCItems
  Workers <- MCWorkers
  Identities <- MCIdentities
  Scope = frozen
  Days <- MCDays
  ResumeDelays <- MCDelays
  DayLength = 9
  RetryBase = 0
  ClockLag = 0
  MaxSeq = 0
  LeaseSeconds = 0
  MaxAttempts = 2
  MaxNow = 2
  MaxItems = 0
  Slots <- OneSlot
  ItemOf <- OfTheItem
  PaidIdentities <- OneIdentity
  IdentityOf <- SharedIdentity
  MaxSequence = 1
  MaxRequests = 2
  MaxClaims <- TwoEach
PROPERTIES
  ImplementsPaidFetch
  OpenUsageCloses
CHECK_DEADLOCK FALSE
