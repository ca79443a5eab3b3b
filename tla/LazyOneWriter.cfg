CONSTANTS
  EmptyTape = EmptyTape
  TapeA = TapeA
  Tapes <- MCTapes
  Values <- MCValues
  Writers = {w1}
  Readers = {r1, r2}
  NoThread = NoThread
  MaxUpdates = 2
SPECIFICATION FairSpec
INVARIANTS TypeOK VersionNamesRecord
PROPERTIES ImplementsShared UpdatesReachReaders
