CONSTANTS
  AllowDualEdge = TRUE
  IgnoreTiming = FALSE
  None = None
  Vars = {q}
  Wires = {"c", "r", "d"}
  Data = "d"
  Programs <- MCPrograms
SPECIFICATION Spec
CHECK_DEADLOCK FALSE
INVARIANT TypeOK
INVARIANT FollowsProgram
INVARIANT EffectsExact
INVARIANT RecognisesReset
