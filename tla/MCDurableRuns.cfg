\* One root with a continuation, two attempts each, two workers, two proposals for
\* the inputs to freeze, under fairness:
\* fencing, the refinement of FencedJobs, and recovery.
SPECIFICATION FairSpec
CONSTANTS
  root1 = root1
  w1 = w1
  w2 = w2
  roster = roster
  revised = revised
  NoIdentity = NoIdentity
  Roots <- MCRoots
  Workers <- MCWorkers
  Identities <- MCIdentities
  Days <- MCDays
  ResumeDelays <- MCDelays
  MaxSeq = 1
  LeaseSeconds = 1
  MaxAttempts = 2
  MaxNow = 3
  MaxItems = 1
INVARIANTS
  OneOwner
  OwnerViewIsCurrent
PROPERTIES
  ProgressKept
  HistoryKept
  ImplementsFencedJobs
  OrphanIsRecovered
CHECK_DEADLOCK FALSE
