CONSTANTS
  NWires = 2
  Statics <- OneStatic
  Profiles <- InitialCase
  Limit = 2
SPECIFICATION Spec
CHECK_DEADLOCK FALSE
INVARIANT ValuesCorrect
