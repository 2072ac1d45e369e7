CONSTANTS
  t1 = t1
  t2 = t2
  t3 = t3
  d1 = d1
  d2 = d2
  w1 = w1
  w2 = w2
  m = m
  frame = frame
  None = None
  Tiles = {t1, t2}
  Maps = {m}
  Ids = {d1, d2}
  IdOf <- Shared
  Workers = {w1, w2}
  Frame = frame
SPECIFICATION Spec
SYMMETRY Symmetry
INVARIANTS TypeOK LocksRanked HandlesKept LoadsTold FaultsKnown
