\* Two tasks that yield, the timer hitting at any instruction.
CONSTANTS
  MaxTasks = 2
  Yielding = {0, 1}
  Finishing = {}
  MaxFrames = 5
SPECIFICATION MCSpec
INVARIANT ShellContextKept
