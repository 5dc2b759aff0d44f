CONSTANTS
  Width = 2
  Arrays = {"m", "n"}
  Hinted = {"m"}
  Uses <- MCUses
  Ranges <- MCRanges
  NetRange <- MCNetRange
  Traced = "m"
  MaxUses = 3
  Files <- MCFiles
  MaxMembers = 3
SPECIFICATION Spec
CHECK_DEADLOCK FALSE
INVARIANT TypeOK
INVARIANT InferenceSound
INVARIANT PortsFollowProgram
INVARIANT ReadsBefore
INVARIANT DrivenOnce
INVARIANT StartValues
INVARIANT InitialWords
