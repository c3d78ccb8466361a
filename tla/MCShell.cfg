\* Three lines in a history of two; one variable fewer than the scripts set,
\* and no path deeper than a directory.
CONSTANTS
  Strings <- MCStrings
  Lines <- MCLines
  Ref <- MCRef
  Assigns <- MCAssigns
  BadNames = {"", ".."}
  Fs0 <- MCFs
  MaxLine = 3
  HistSize = 2
  MaxVars = 2
  MaxDepth = 1
  MaxUsers = 1
  MaxScript = 19
  MaxEntered = 3
SPECIFICATION Spec
INVARIANTS
  TypeOK
  HistoryShows
  ScriptsAsWritten
PROPERTY ScriptsEnd
\* After MaxEntered lines nothing is typed any more.
CHECK_DEADLOCK FALSE
