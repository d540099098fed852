SPECIFICATION Spec
CONSTANTS
  MaxSize = 4
  Frames = 6
INVARIANTS TypeOK WriterAlone ShownIsKept NoLostWakeup
PROPERTIES AbortFinishes IsFifo
