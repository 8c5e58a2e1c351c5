SPECIFICATION FairSpec
CONSTANTS
  Header = 3
  LenField = 2
  Lens <- MCLens
  MaxTotal = 4
  Parts = 2
  Cap = 3
  RecvMax = 3
  PolicyLen = 2
  MaxPackets = 2
  MaxBreaks = 1
INVARIANTS TypeOK PacketsWhole StreamToHall WatchedForWriting
PROPERTIES PacketsProcessed Reconnects
CHECK_DEADLOCK FALSE
