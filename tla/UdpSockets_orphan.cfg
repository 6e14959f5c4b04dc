CONSTANTS
  MaxRx <- MCMaxRx
  MaxSockets <- MCMaxSockets
  MaxSends <- MCMaxSends
  Ports <- MCPorts
  DgLens <- MCDgLens
  ReceiveOnZero = FALSE

SPECIFICATION Spec




INVARIANT NoDatagramToOrphan
