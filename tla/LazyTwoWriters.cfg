CONSTANTS
  EmptyTape = EmptyTape
  TapeA = TapeA
  Tapes <- MCTapes
  Values <- MCValues
  Writers = {w1, w2}
  Readers = {r1}
  NoThread = NoThread
  MaxUpdates = 3
SPECIFICATION Spec
INVARIANTS NoTornRead
