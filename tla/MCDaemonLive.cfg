SPECIFICATION FairSpec
CONSTANTS
  left = left
  right = right
  Displays = {left}
  BuiltIn = {}
  Model <- Models
  DisplayMax <- Maxima
  Slots = {1, 2}
  MaxOpen = 2
  StepDen = 1
  DefaultMax = 1
  Faults = {"set", "osd", "startup", "accept", "descriptors"}
  Commands = {"up", "down", "denied"}
  Backlog = 1
  InputKind = "windows"
INVARIANTS
  ControllerOutlivesThreads
  NothingLeftBehind
PROPERTIES
  ShutdownCompletes
  IsInputThread
