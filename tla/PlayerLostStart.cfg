SPECIFICATION Spec
CONSTANTS
  Apps = {app}
  Releasers = {app}
  Loops = {loop1, loop2}
  Positions = {0, 9}
  PastEnd = {9}
  StartOnPrepared = {TRUE}
  LoopCounts = {1}
  MaxCalls = 7
INVARIANT StartedIsRunning
