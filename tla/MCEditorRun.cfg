CONSTANTS
  a = a
  b = b
  NL = NL
  NUL = NUL
  Magic = Magic
  Missing = Missing
  Lost = Lost
  MaxLines = 3
  MaxLen = 3
  IoBuf = 9
  Rows = 2
  Letters = {a}
  Files <- MCBinaries
  Program <- MCProgram
  MaxSaves = 1
SPECIFICATION Spec
PROPERTY ProgramsRun
CHECK_DEADLOCK FALSE
