\* Every way of filling and cutting a buffer of four bytes, tables large enough;
\* bytes of two values, so that a byte that is lost or overwritten shows.
SPECIFICATION FairSpec
CONSTANTS
  BufSize = 4
  MaxPtrs = 4
  Handles = {p1, p2, p3}
  Sizes = {1, 2, 3, 4}
  Byte = {0, 1}
  NULL = NULL
INVARIANTS TypeOK NoLeak GapsServed
PROPERTIES ImplementsStore DefragMakesRoom CallReturns
