SPECIFICATION Spec
CONSTANTS
  left = left
  right = right
  panel = panel
  Displays = {left, right, panel}
  BuiltIn = {panel}
  Model <- DistinctModels
  DisplayMax <- UnequalMax
  Faults = {"set", "probe"}
  Slots = {1,2,3}
  MaxOpen = 3
  StepDen = 2
  DefaultMax = 3
INVARIANTS
  TypeOK
  HandlesValid
  LevelTracksHardware
  SetsInRange
PROPERTY
  IsBank
