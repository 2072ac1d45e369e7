CONSTANTS
  u1 = u1
  o1 = o1
  d1 = d1
  d2 = d2
  w1 = w1
  w2 = w2
  Units = {}
  Doodads = {}
  Details = {d1}
  Workers = {w1}
  MayQuit = TRUE
SPECIFICATION FairSpec
INVARIANTS CullThreadsJoined
