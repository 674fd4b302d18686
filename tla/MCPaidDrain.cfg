\* Two profiles, more than a day of three instants, further drains and activations,
\* two requests.
SPECIFICATION DrainSpec
CONSTANTS
  integrated = integrated
  tikhub = tikhub
  Profiles <- MCProfiles
  Tikhub = tikhub
  Integrated = integrated
  First = tikhub
  Day = 3
  Evening = 1
  Lead = 2
  MaxActivations = 3
  MaxDrains = 3
  MaxUsages = 2
  MaxClock = 4
INVARIANTS
  ReleasedSwitchIsDrained
  LedgerExplainsSends
CHECK_DEADLOCK FALSE
