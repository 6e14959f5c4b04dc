CONSTANTS
  Addrs <- MCAddrs
  MaxAllocs <- MCMaxAllocs
  Interfaces <- MCInterfaces
  Gateways <- MCGateways
  Media <- MCMedia
  Mtu <- MCMtu
SPECIFICATION Spec
INVARIANT TypeOK
INVARIANT HandlesLive
INVARIANT NoLeak
