SPECIFICATION Spec
CONSTANTS
  Apps = {app}
  Releasers = {app}
  Loops = {loop1, loop2}
  Positions = {0}
  PastEnd = {}
  StartOnPrepared = {TRUE}
  LoopCounts = {1}
  MaxCalls = 4
INVARIANT PreparedWithoutStream
