\* Two slots with one identity, two claims and one, one compensation.
SPECIFICATION FetchSpec
CONSTANTS
  s1 = s1
  s2 = s2
  identity = identity
  Slots <- TwoSlots
  Identities <- OneIdentity
  IdentityOf <- SharedIdentity
  MaxSequence = 1
  MaxRequests = 3
  MaxClaims <- TwoAndOne
INVARIANTS
  BoughtOnce
  ReleasedNeverCalls
  BudgetBalanced
  OpenUsageHoldsSlot
  AdmissionFollowsPurchase
PROPERTIES
  LateAnswersAreAudit
CHECK_DEADLOCK FALSE
