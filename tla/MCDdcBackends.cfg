SPECIFICATION Spec
CONSTANTS
  desk = desk
  wide = wide
  blank = blank
  panel = panel
  former = former
  latter = latter
  None = None
  Platforms = {"linux", "netbsd", "windows", "m1ddc", "ddcctl", "mock"}
  Monitors = {desk, wide, blank, panel}
  BuiltIn = {panel}
  Scale <- MCScale
  Ports = {0, 1}
  PanelPort = 0
  Values = {100, 400}
  Half = 128
  Garbage <- MCGarbage
  Rounds = {former, latter}
SYMMETRY Renamed
INVARIANTS
  TypeOK
  ObjectsAccounted
  OneSourcePerMonitor
  PanelLeftAlone
  VcpFaithful
