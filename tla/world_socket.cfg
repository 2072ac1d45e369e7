CONSTANTS
  Size = 10
  DownBodies = {0, 6}
  UpBodies = {0, 3}
  MaxDown = 3
  MaxUp = 2
SPECIFICATION FairSpec
INVARIANTS TypeOK InOrder ServerInOrder
PROPERTIES SentHandled CloseNoticed
