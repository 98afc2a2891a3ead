SPECIFICATION RestFairSpec
CONSTANTS
  Requests <- MCRequests
  Lists <- MCLists
  Schemes <- MCSchemes
  NameMax = 8
  StartRoom = 3
  DataRoom = 1
  Limits = {0, 1, 3}
  BufSize = 5
  DiscardSize = 2
  MaxConns = 2
CHECK_DEADLOCK FALSE
INVARIANT DataShownInFull
