CONSTANTS
  q1 = q1
  q2 = q2
  q3 = q3
  Quads = {q1, q2, q3}
  MaxClock = 4
  Faults = {"open"}
SYMMETRY QuadSymmetry
SPECIFICATION Spec
INVARIANTS
  PersistedIsReadable
