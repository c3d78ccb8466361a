\* A ring that holds three events, and up to nine events typed.
CONSTANTS
  Size = 4
  MaxTyped = 9
SPECIFICATION Spec
INVARIANTS
  TypeOK
  NothingLostUnlessFull
PROPERTY InOrder
\* The model stops following the keyboard after MaxTyped events.
CHECK_DEADLOCK FALSE
