CONSTANTS
  EmptyTape = EmptyTape
  Junk = Junk
  TapeA = TapeA
  TapeB = TapeB
  DirD = DirD
  NoPath = NoPath
  Tapes <- MCTapes
  Files = {TapeA, TapeB}
  Dirs = {DirD}
  Requests <- DownRequests
  InitialBuffers = {EmptyTape}
  BindMayFail = {}
  NxLibs = {"loaded"}
  MaxRequests = 2
  MaxRetries = 1
  MaxInterrupts = 0
  CommandLines <- OneLine
SPECIFICATION FairSpec
PROPERTIES ShutdownEndsApplication
CHECK_DEADLOCK FALSE
