CONSTANTS
  b1 = b1
  b2 = b2
  m1 = m1
  m2 = m2
  a1 = a1
  a2 = a2
  g1 = g1
  main_thread = main_thread
  tile_worker = tile_worker
  w1 = w1
  w2 = w2
  KeyOf <- OneKeyAKind
  Users = {main_thread, tile_worker}
  FrameUsers = {main_thread}
  Workers = {w1, w2}
  Outcomes = {"ok", "nofile", "badfile", "loadfail"}
  Blp = {}
  M2 = {}
  Wmo = {a1}
  Group = {g1}
  GroupsOf <- OneGroup
  MayQuit = TRUE
SPECIFICATION FairSpec
PROPERTIES CondemnedFreed LoadsEnd ShutdownEnds ImplementsResource
