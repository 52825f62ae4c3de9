SPECIFICATION UrlSpec
CONSTANTS
  Characters <- MCCharacters
  Protos <- MCProtos
  Users <- MCUsers
  Hosts <- MCHosts
  Ports <- MCPorts
  Tails <- MCTails
  Parses <- MCParses
INVARIANTS
  PartsAreFound
  AbortsOnlyOnReuse
CHECK_DEADLOCK FALSE
