CONSTANTS
  root = root
  west = west
  east = east
  inner = inner
  Quads <- MCQuads
  Ancestors <- MCAncestors
  Deep = {inner}
  GpuLimits = {3}
  RamLimits = {1, 2}
  SlackDivisor = 2
  Retiring = {inner}
  MaxTime = 1
SPECIFICATION Spec
INVARIANTS
  TypeOK
  GpuTopDown
  ViewIsShown
PROPERTY
  ViewStaysInMemory
