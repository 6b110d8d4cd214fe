SPECIFICATION Spec
CONSTANTS
  left = left
  right = right
  panel = panel
  Displays = {left, right}
  BuiltIn = {}
  Model <- SameModels
  DisplayMax <- EqualMax
  Faults = {"set", "get", "osd", "moved"}
  Slots = {1, 2}
  MaxOpen = 4
  StepDen = 3
  DefaultMax = 3
INVARIANT
  NoneRunsAway
PROPERTY
  OffsetsKept
