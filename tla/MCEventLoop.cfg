SPECIFICATION FairSpec
CONSTANTS
  Fd <- MCFd
  MaxConns = 3
  Cap = 1
  MaxReplies = 1
  CheckPoint = 2
INVARIANTS KeptIsWatched PendingHasEdge
PROPERTIES ClosedForAReason SilentAndOverfullEnd
