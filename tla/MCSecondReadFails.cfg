SPECIFICATION Spec
CONSTANTS
  left = left
  right = right
  panel = panel
  Displays = {left, right}
  BuiltIn = {}
  Model <- DistinctModels
  DisplayMax <- UnequalMax
  Faults = {"get"}
  Slots = {1, 2, 3}
  MaxOpen = 3
  StepDen = 2
  DefaultMax = 4
PROPERTY
  NewDisplaysStartFromTheirOwn
