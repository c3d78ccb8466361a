\* One unit stands for 8 bytes: a header is 4 units, allocations are rounded
\* to 2, a page has 20.  Heap of up to three pages, three frames, requests of one to eighteen units.
CONSTANTS
  HDR = 4
  Align = 2
  MinSplit = 4
  PageSize = 20
  HeapMax = 60
  Sizes = {0, 1, 7, 18}
  Frames = 3
  MaxTables = 1
SPECIFICATION Spec
INVARIANTS
  TypeOK
  BlockList
  Coalesced
  LiveIsUsed
  NoOverlap
  Accounting
PROPERTY OthersUntouched
\* A panic halts the machine.
CHECK_DEADLOCK FALSE
