SPECIFICATION Spec
CONSTANTS
  left = left
  right = right
  Displays = {left, right}
  BuiltIn = {}
  Model <- Models
  DisplayMax <- Maxima
  Slots = {1, 2}
  MaxOpen = 4
  StepDen = 1
  DefaultMax = 1
  Faults = {}
  Commands = {"up"}
  Backlog = 1
  InputKind = "darwin"
SYMMETRY Swap
INVARIANTS
  TypeOK
  HandlesValid
  NoneRunsAway
  NoLostWakeup
PROPERTY
  IsController
