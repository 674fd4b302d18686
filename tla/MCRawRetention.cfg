\* Three responses with the same bytes, two hot days, two faults.
SPECIFICATION FairRawSpec
CONSTANTS
  resp1 = resp1
  resp2 = resp2
  resp3 = resp3
  Responses <- MCResponses
  HotDays = 2
  MaxDay = 5
  MaxFaults = 2
INVARIANTS
  EvidenceSurvives
PROPERTIES
  CleanupEnds
CHECK_DEADLOCK FALSE
