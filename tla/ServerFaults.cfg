CONSTANTS
  EmptyTape = EmptyTape
  Junk = Junk
  TapeA = TapeA
  TapeB = TapeB
  DirD = DirD
  NoPath = NoPath
  Tapes <- MCTapes
  Files = {TapeA, TapeB}
  Dirs = {DirD}
  Requests <- FaultRequests
  InitialBuffers = {Junk}
  BindMayFail = {"cchan_in", "cchan_out", "market", "inproc"}
  NxLibs = {"loaded", "no dll", "no function"}
  MaxRequests = 3
  MaxRetries = 1
  MaxInterrupts = 1
  CommandLines <- AnyLine
SPECIFICATION Spec
INVARIANTS OnlyRetriesLeak NoRequestWithoutCchanOut ChannelsAsGiven
PROPERTIES ImplementsService
CHECK_DEADLOCK FALSE
