CONSTANTS
  NWires = 3
  Statics <- OneStatic
  Profiles <- Programs
  Limit = 2
SPECIFICATION Spec
CHECK_DEADLOCK FALSE
INVARIANT TypeOK
INVARIANT ValuesCorrect
INVARIANT EnablesExact
INVARIANT LatchStagingOutsideEscapes
INVARIANT NoAssertionFailure
