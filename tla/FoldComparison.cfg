CONSTANTS
  Types <- SelectTypes
  PartTypes <- PairedTypes
  Width = 3
  MaxItems = 3
  MaxParts = 2
  NWires = 2
  Lefts <- AllLefts
  Rights <- AllRights
  Others <- AllOthers
  Result = 3
  MaxWidth = 4
  MaxOps = 1
SPECIFICATION EvalSpec
CHECK_DEADLOCK FALSE
INVARIANT OperatorsCorrect
