SPECIFICATION FairSpec
CONSTANTS
  agent = agent
  operator = operator
  Clients <- MCClients
  Port <- MCPort
  ClientId <- MCClientId
  HeartbeatOnly <- MCHeartbeatOnly
  Beside <- MCBeside
  FullPorts = 2
  FullIds = 2
  MaxFaults = 2
INVARIANTS LiveSessionIsKnown
PROPERTIES NothingFreeIsSkipped ServedInReach ServedAtItsPlace
