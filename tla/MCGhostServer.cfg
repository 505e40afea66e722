SPECIFICATION MCSpec
CONSTANTS
  Clients = {c1, c2}
  Addresses = {a1, a2}
  None = None
  MaxTyped = 1
  MaxFaults = 2
  Caps <- MCCaps
  Versions <- MCVersions
  Unsupported = Unsupported
  MaxLooks = 2
  Hosts <- MCHosts
INVARIANTS GhostInOrder ResourcesInOrder WorldIsWhole HostsAreRead
PROPERTIES PlayersAreTold EveryoneIsSentAway ProcessEnds
CHECK_DEADLOCK FALSE
