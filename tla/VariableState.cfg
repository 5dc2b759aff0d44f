CONSTANTS
  Bits = {b1, b2}
  Vals = {v1, v2}
  Absent = Absent
  NoEntry = NoEntry
  MaxDepth = 3
SPECIFICATION Spec
INVARIANT TypeOK
INVARIANT RevertedBitsBound
INVARIANT UndoReachesSnapshot
PROPERTY ImplementsScopedStore
