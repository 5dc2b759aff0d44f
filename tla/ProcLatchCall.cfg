CONSTANTS
  NWires = 2
  Statics <- OneStatic
  Profiles <- LatchedCall
  Limit = 2
SPECIFICATION Spec
CHECK_DEADLOCK FALSE
INVARIANT LatchStaging
