CONSTANTS
  k1 = k1
  k2 = k2
  w1 = w1
  w2 = w2
  Places = {0, 2}
  Distance = 0
  Keys = {k1, k2}
  KeysAt <- Neighbours
  Workers = {w1}
  Tiles = {1, 2}
  MaxMoves = 1
SPECIFICATION FairSpec
PROPERTIES CondemnedFreed NearDrawn
