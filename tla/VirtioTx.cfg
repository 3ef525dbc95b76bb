SPECIFICATION FairSpec
CONSTANTS
  IdxMod = 4
  NULL = NULL
  RxSize = 1
  TxSize = 2
  Buffers = {b1, b2}
  MaxReplies = 2
  PrefillOrdered = FALSE
INVARIANTS
  FreeListSound
  TxBuffersExact
PROPERTIES
  RxReposted
  TxReclaimed
