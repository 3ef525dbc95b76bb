SPECIFICATION Spec
CONSTANTS
  HEAP_START = 8
  HEAP_SIZE = 136
  HEADER = 24
  Sizes = {0, 5, 12}
INVARIANTS
  TypeOK
  HeapInv
  NoOverlap
  RecyclingBound
PROPERTIES
  HeapSpecImplemented
