CONSTANTS
  a = a
  b = b
  N = 2
  Regions = {{a}, {a, b}}
  MaxRuns = 2
  MaxHeld = 1
SPECIFICATION UiSpec
PROPERTY
  EveryRunEnds
