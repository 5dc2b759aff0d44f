CONSTANTS
  Width = 2
  Arrays = {"m", "n"}
  Hinted = {"m"}
  Uses = {}
  Ranges <- MCRanges
  NetRange <- MCNetRange
  Traced = "m"
  MaxUses = 0
  Files = {}
  MaxMembers = 2
SPECIFICATION Spec
CHECK_DEADLOCK FALSE
INVARIANT InitialContents
