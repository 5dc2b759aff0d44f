CONSTANTS
  Wires = {"p", "q"}
  Bits = {x}
  Switches <- OneOrTwo
  Compares <- Patterns
  Assigns <- SetOrClear
  MaxSteps = 5
  MaxNest = 2
SPECIFICATION Spec
CHECK_DEADLOCK FALSE
INVARIANT TypeOK
INVARIANT NoLatchMissed
INVARIANT NoLatchNeedless
INVARIANT LatchFollowsProgram
