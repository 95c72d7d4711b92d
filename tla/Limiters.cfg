CONSTANTS
  q1 = q1
  q2 = q2
  q3 = q3
  Quads <- MCQuads
  Ids <- MCQuads
  Rank <- MCRank
  Limits = {1, 2, 3}
  DefaultLimit = 2
  Settings <- MCSettings
  DefaultSetting <- MCDefault
SPECIFICATION LimitersSpec
INVARIANTS
  NeverWaitsInFlight
  WorkConserving
  RateHolds
  WakeUpPending
PROPERTIES
  GrowsWithinLimit
  QueueDrains
