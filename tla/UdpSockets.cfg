CONSTANTS
  MaxRx <- MCMaxRxLive
  MaxSockets <- MCMaxSockets
  MaxSends <- MCMaxSends
  Ports <- MCPorts
  DgLens <- MCDgLens
  ReceiveOnZero = FALSE

SPECIFICATION Spec

INVARIANT TypeOK
INVARIANT UdpInOrder
INVARIANT NoAbort
PROPERTY DeliveredEventuallyReceived
