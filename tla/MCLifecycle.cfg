SPECIFICATION FairSpec
CONSTANTS
  service = service
  rival = rival
  Daemons = {service, rival}
  Service = service
  Systems = {"linux", "bsd", "windows"}
  Policies = {"always", "on-failure", "never"}
  Users = {root, somebody}
  Root = root
  root = root
  somebody = somebody
  MaxFaults = 3
  MaxRuns = 2
CHECK_DEADLOCK FALSE
INVARIANTS
  TypeOK
  ReachedWhenAlone
  OnlyKilledLeaveSockets
PROPERTY
  ServiceComesBack
