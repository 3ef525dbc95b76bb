SPECIFICATION Spec
CONSTANTS
  c1 = c1
  c2 = c2
  other = other
  Conns = {c1, c2, other}
  Listening = {c1, c2}
  SEQ_MOD = 18
  FirstIsn = 16
  ISN_STEP = 5
  RESP = 2
  Segments <- MCSegments
  MaxOpen = 3
  BufCap = 0
  HeapFails = TRUE
SYMMETRY ConnSymmetry
INVARIANTS TypeOK UniqueTuple AtRest SeqRangesDisjoint AnsweredOnce
PROPERTIES OnlyClosedLeaves SentInOrder
