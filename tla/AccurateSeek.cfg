SPECIFICATION Spec
CONSTANTS
  Last = 2
  Deviation = 0
  Level = 1
  MaxSeeks = 2
INVARIANTS TypeOK StopWakesDecoders CompletesOnce ResumeTogether
PROPERTIES FramesAreReleased
CHECK_DEADLOCK FALSE
