SPECIFICATION Spec
CONSTANTS
  Apps = {app, binder}
  Releasers = {app}
  Loops = {loop1, loop2}
  Positions = {0}
  PastEnd = {}
  StartOnPrepared = {TRUE}
  LoopCounts = {1}
  MaxCalls = 3
PROPERTY ReleaseEndsPlayback
