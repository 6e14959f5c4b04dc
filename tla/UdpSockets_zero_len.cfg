CONSTANTS
  MaxRx <- MCMaxRxLive
  MaxSockets <- MCMaxSockets
  MaxSends <- MCMaxSends
  Ports <- MCPorts
  DgLens <- MCDgLensZero
  ReceiveOnZero = FALSE

SPECIFICATION Spec

PROPERTY DeliveredEventuallyReceived
