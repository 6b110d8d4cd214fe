SPECIFICATION FairSpec
CONSTANTS
  left = left
  right = right
  Displays = {left, right}
  BuiltIn = {}
  Model <- Alike
  DisplayMax <- Maxima
  Slots = {1, 2}
  MaxOpen = 3
  StepDen = 1
  DefaultMax = 1
  Faults = {"set"}
  Commands = {"up"}
  Backlog = 1
  InputKind = "none"
PROPERTY
  PressesAreServed
