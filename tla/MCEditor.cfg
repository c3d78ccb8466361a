\* Three lines of two characters, two of them on the screen, and a save
\* buffer that a full text does not fit into.
CONSTANTS
  a = a
  b = b
  NL = NL
  NUL = NUL
  Magic = Magic
  Missing = Missing
  Lost = Lost
  MaxLines = 3
  MaxLen = 3
  IoBuf = 9
  Rows = 2
  Letters = {a}
  Files <- MCFiles
  Program <- MCProgram
  MaxSaves = 1
SPECIFICATION Spec
INVARIANTS
  TypeOK
  
  SavedIsReadBack
PROPERTY ImplementsTextBuffer
CHECK_DEADLOCK FALSE
