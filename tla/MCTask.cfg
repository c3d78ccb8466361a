\* Three tasks: 0 yields and finishes, 1 only finishes, 2 computes for ever.
CONSTANTS
  MaxTasks = 3
  Yielding = {0}
  Finishing = {0, 1}
  MaxFrames = 5
SPECIFICATION MCFairSpec
INVARIANTS
  TypeOK
  OwnContexts
  ShellInterruptible
  BoundedWaiting
PROPERTIES
  ReadyRuns
  ShellComesBack
