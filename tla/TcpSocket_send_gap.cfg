CONSTANTS
  Cap <- MCCap
  MaxStream <- MCMaxStream
  MaxOpens <- MCMaxOpens
  SendSizes <- MCSendSizes
  RecvSizes <- MCRecvSizes
  CheckedHost = FALSE

SPECIFICATION Spec

INVARIANT HostStreamDelivered
