SPECIFICATION Spec
CONSTANTS
  IdxMod = 4
  NULL = NULL
  RxSize = 2
  TxSize = 1
  Buffers = {b1, b2}
  MaxReplies = 1
  PrefillOrdered = TRUE
INVARIANTS
  TypeOK
  DescInOnePlace
  FreeListSound
  RxBufferOwnership
  RxAllPosted
PROPERTIES
  RxQueueImplemented
