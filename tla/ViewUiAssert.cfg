CONSTANTS
  root = root
  west = west
  east = east
  Quads <- MCQuads
  Ancestors <- MCAncestors
  Tiles <- MCQuads
  Deep = {west}
  GpuLimits = {1, 2}
  RamLimits = {2}
  SlackDivisor = 20
  Retiring = {}
  MaxTime = 1
  ArraySize = 2
  MaxPending = 2
SPECIFICATION UiSpec
INVARIANTS
  UpdatesApply
