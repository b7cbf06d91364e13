SPECIFICATION Spec
CONSTANTS
  Relays = {r1}
  Stamp <- ThreeApart
  Rumor <- ThreeRumors
  Backlog = {1, 2}
  Corrupt = {2}
  Fuzz = 1
  Recent = 1
  PageLimit = 2
  MaxPages = 1
  RetryLimit = 2
  None = None
  MaxFailures = 3
  MaxFaults = 0
INVARIANTS
  TypeOK
PROPERTIES
  InReachKept
  EventuallySaved
