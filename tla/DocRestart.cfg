CONSTANTS
  EmptyTape = EmptyTape
  Junk = Junk
  TapeA = TapeA
  TapeB = TapeB
  DirD = DirD
  NoPath = NoPath
  Tapes <- MCTapes
  Files = {TapeA, TapeB}
  Dirs = {DirD}
  Requests <- LiveRequests
  InitialBuffers = {EmptyTape}
  BindMayFail = {}
  NxLibs = {"loaded"}
  MaxRequests = 3
  MaxRetries = 0
  MaxInterrupts = 0
  CommandLines <- OneLine
SPECIFICATION FairSpec
PROPERTIES StartReachesNxCore
CHECK_DEADLOCK FALSE
