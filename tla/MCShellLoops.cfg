\* The demonstration script, alone.
CONSTANTS
  Strings <- MCStrings
  Lines <- MCDemo
  Ref <- MCRef
  Assigns <- MCAssigns
  BadNames = {"", ".."}
  Fs0 <- MCFs
  MaxLine = 3
  HistSize = 2
  MaxVars = 2
  MaxDepth = 1
  MaxUsers = 1
  MaxScript = 19
  MaxEntered = 1
SPECIFICATION Spec
INVARIANT LoopsAsHelped
\* After MaxEntered lines nothing is typed any more.
CHECK_DEADLOCK FALSE
