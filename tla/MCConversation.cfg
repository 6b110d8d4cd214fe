SPECIFICATION FairSpec
CONSTANTS
  member = member
  stranger = stranger
  garbler = garbler
  Nobody = Nobody
  System = "linux"
  GroupExists = TRUE
  DaemonUser <- MCDaemonUser
  GroupListMax = 3
  Clients = {member, stranger, garbler}
  User <- MCUser
  Script <- MCScript
  Backlog = 2
CHECK_DEADLOCK FALSE
INVARIANTS
  TypeOK
  PressedOnce
  OnlyExactCommands
  KilledAfterItsPress
  OnlyMembersPress
  MembersAreLetIn
PROPERTY
  PressesGetThrough
