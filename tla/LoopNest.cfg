CONSTANTS
  Loops = {each, other}
  Each = each
  Limit = 7
  MaxNest = 3
  MaxInner = 2
  Bounds <- MCBounds
  MaxDims = 3
SPECIFICATION NestFairSpec
INVARIANT TypeOK
INVARIANT BudgetShared
INVARIANT AllContributorsNoted
INVARIANT VisitedInOrder
INVARIANT ElementsCharged
PROPERTY EveryNestEnds
