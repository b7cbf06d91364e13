SPECIFICATION Spec
CONSTANTS
  Relays = {r1}
  Stamp <- ThreeApart
  Rumor <- FirstAgain3
  Backlog = {1, 2, 3}
  Corrupt = {}
  Fuzz = 0
  Recent = 1
  PageLimit = 2
  MaxPages = 1
  RetryLimit = 2
  None = None
  MaxFailures = 1
  MaxFaults = 1
INVARIANTS
  ClaimsAreHeld
  WatermarkIsSaved
  OneHandlerPerRumor
PROPERTIES
  InReachKept
