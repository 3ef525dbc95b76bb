SPECIFICATION TakenSpec
CONSTANTS
  ARP_CACHE_SIZE = 2
  IPs = {0, 1, 2, 3}
  aether_ip = 9
  m1 = m1
  m2 = m2
  MACs = {m1, m2}
  NoMac = NoMac
  client_ip = 1
  client_mac = m1
  Neighbours <- MCNeighbours
  SEQ_MOD = 18
  FirstIsn = 16
  ISN_STEP = 5
  RESP = 2
  MaxOpen = 2
  LinkCap = 2
  DownCap = 1
INVARIANTS CacheCurrent SendersCached
PROPERTIES PageLoaded TcbReclaimed
