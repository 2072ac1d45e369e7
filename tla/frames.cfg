CONSTANTS
  u1 = u1
  o1 = o1
  d1 = d1
  d2 = d2
  w1 = w1
  w2 = w2
  Units = {u1}
  Doodads = {o1}
  Details = {d1}
  Workers = {w1, w2}
  MayQuit = TRUE
SPECIFICATION FairSpec
ACTION_CONSTRAINT UnitsAlone
INVARIANTS TypeOK CullExclusive StaleUsesKnown
PROPERTIES FramesGoOn CollectedFreed
