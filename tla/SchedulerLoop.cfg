CONSTANTS
  root = root
  west = west
  inner = inner
  Quads <- MCQuads
  Ancestors <- MCAncestors
  Rank <- MCRank
  Deep = {inner}
  GpuLimits = {3}
  RamLimits = {2, 3}
  SlackDivisor = 20
  Retiring = {west}
  MaxTime = 1
  Limit = 1
SPECIFICATION Spec
INVARIANTS
  ViewIsRequested
  LoadsOnlyMissing
  PurgeIsScheduled
PROPERTY
  Converges
