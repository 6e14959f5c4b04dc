CONSTANTS
  Heads <- MCHeads
  Tails <- MCTails
  IfcPrefixes <- MCPrefixes
  Ports <- MCPorts
SPECIFICATION Spec
INVARIANT AddressRoundTrip
INVARIANT ListenSentinel
INVARIANT CidrPrefixAsDocumented
