SPECIFICATION Spec
CONSTANTS
  IdxMod = 4
  NULL = NULL
  RxSize = 2
  TxSize = 1
  Buffers = {b1}
  MaxReplies = 1
  PrefillOrdered = FALSE
INVARIANTS
  RxHandedOnce
