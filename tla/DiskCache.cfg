CONSTANTS
  q1 = q1
  q2 = q2
  q3 = q3
  Quads = {q1, q2, q3}
  MaxClock = 4
  Faults = {"crash", "open", "short"}
SYMMETRY QuadSymmetry
SPECIFICATION Spec
INVARIANTS
  TypeOK
  ReadableUnlessFlawed
  NeverOlderThanMeta
