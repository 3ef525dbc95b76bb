SPECIFICATION Spec
CONSTANTS
  IdxMod = 4
  NULL = NULL
  RxSize = 1
  TxSize = 2
  Buffers = {b1, b2, b3}
  MaxReplies = 2
  PrefillOrdered = TRUE
INVARIANTS
  TxRingNamesDescriptors
