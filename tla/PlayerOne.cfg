SPECIFICATION Spec
CONSTANTS
  Apps = {app}
  Releasers = {app}
  Loops = {loop1, loop2}
  Positions = {0}
  PastEnd = {}
  StartOnPrepared = {TRUE, FALSE}
  LoopCounts = {1}
  MaxCalls = 4
INVARIANTS PausedIsPaused StartedIsRunning
PROPERTIES SeekIsAnswered ReleaseFrees
