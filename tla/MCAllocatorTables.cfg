\* Tables of two entries, so that every call can find them full, and blocks of
\* no byte.
SPECIFICATION Spec
CONSTANTS
  BufSize = 5
  MaxPtrs = 2
  Handles = {p1, p2, p3}
  Sizes = {0, 1, 2, 3}
  Byte = {0}
  NULL = NULL
SYMMETRY HandleSymmetry
INVARIANTS NoOverlap PointersValid
PROPERTY BytesKept
