SPECIFICATION FairSpec
CONSTANTS
  left = left
  right = right
  Displays = {left}
  BuiltIn = {}
  Model <- Models
  DisplayMax <- Maxima
  Slots = {1, 2}
  MaxOpen = 4
  StepDen = 2
  DefaultMax = 2
  Faults = {"startup"}
  Commands = {"up"}
  Backlog = 1
  InputKind = "darwin"
PROPERTY
  ShutdownCompletes
