SPECIFICATION Spec
CONSTANTS
  c1 = c1
  other = other
  Conns = {c1, other}
  Listening = {c1}
  SEQ_MOD = 18
  FirstIsn = 16
  ISN_STEP = 5
  RESP = 2
  Segments <- MCSegments
  MaxOpen = 3
  BufCap = 3
  HeapFails = FALSE
INVARIANT SegmentBuffersFreed
