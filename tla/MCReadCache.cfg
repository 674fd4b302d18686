\* Two requests at a time under fairness: two computations, one loader, one entry.
SPECIFICATION FairCacheSpec
CONSTANTS
  c1 = c1
  c2 = c2
  contents = contents
  NoClient = NoClient
  Clients <- MCClients
  Domains <- MCDomains
  MaxEntries = 1
  MaxBytes = 2
  MaxInflight = 2
  MaxLoaders = 1
  Ttl = 1
  Window = 1
  Sizes = {1, 3}
  MaxWrites = 1
  MaxEpochs = 1
  MaxNow = 1
INVARIANTS
  OldDataStaysOut
  CacheIsBounded
  HitsAreYoung
PROPERTIES
  ImplementsFreshReads
  RequestsEnd
CHECK_DEADLOCK FALSE
