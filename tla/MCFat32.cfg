CONSTANTS
  Total = 4
  PerCluster = 2
  Names = {A, B}
  Contents <- MCContents
  MaxCrossed = 2
SYMMETRY NameSymmetry
VIEW InUse
SPECIFICATION Spec
INVARIANTS
  TypeOK
  VolumeSound
PROPERTY ImplementsFileStore
\* The model stops following a crossed volume, and there a call may panic.
CHECK_DEADLOCK FALSE
