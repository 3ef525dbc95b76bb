SPECIFICATION Spec
CONSTANTS
  BYTE = 4
  Addrs <- MCAddrs
  aether_ip <- MCOurs
  PROTO = 2
  MaxSeg = 3
INVARIANTS HeaderSumIsInternet OwnPacketsDelivered DamageNotDelivered
