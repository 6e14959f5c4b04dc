SPECIFICATION Spec
CONSTANTS
  Idents <- MCIdents
  Ports <- MCPorts
  Seqs <- MCSeqs
  PayloadLens <- MCPayloadLens
  DstSizes <- MCDstSizes
  RecvSizes <- MCRecvSizes
  StrayMsgs <- MCStrayMsgs
  MaxSends = 2
  MaxStray = 2
INVARIANT TypeOK
INVARIANT ReceiveNeverAborts
INVARIANT IcmpInOrder
