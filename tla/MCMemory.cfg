SPECIFICATION Spec
CONSTANTS
  FrameSize = 2
  BitmapBits = 16
  Window = 13
  Bad = "bad"
  MaxRequest = 2
  MaxTracked = 3
  Huge = {"low"}
  Maps <- MCMaps
  Page <- MCPage
  Table <- MCTable
  Path <- MCPath
  Files <- MCFiles
  Stack <- MCStack
  BinPages <- MCBinPages
  HeapPages <- MCHeapPages
INVARIANTS
  TypeOK
  OwnedOnce
  NothingLost
  CounterExact
  SafeFrames
  NothingStays
  UnloadNeverPanics
CHECK_DEADLOCK FALSE
