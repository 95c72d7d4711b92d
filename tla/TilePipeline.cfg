CONSTANTS
  q1 = q1
  q2 = q2
  q3 = q3
  NoId = NoId
  Quads <- MCQuads
  Rank <- MCRank
  Limit = 2
  Setting <- MCSetting
  Answers = {0, 2}
SPECIFICATION Spec
INVARIANTS
  SlotsAccountedFor
  TilesAccountedFor
  EntriesConsistent
  TypeOK
PROPERTIES
  ServiceSpec
