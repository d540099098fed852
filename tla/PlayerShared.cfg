SPECIFICATION Spec
CONSTANTS
  Apps = {app, binder}
  Releasers = {app}
  Loops = {loop1, loop2}
  Positions = {0, 9}
  PastEnd = {9}
  StartOnPrepared = {FALSE}
  LoopCounts = {2}
  MaxCalls = 5
INVARIANTS TypeOK RefCountExact FreedIsUnused
