CONSTANTS
  Cap <- MCCap
  MaxStream <- MCMaxStream
  MaxOpens <- MCMaxOpens
  SendSizes <- MCSendSizes
  RecvSizes <- MCRecvSizesFull
  CheckedHost = TRUE

SPECIFICATION Spec

INVARIANT FacadeNeverPanics
