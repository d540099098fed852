SPECIFICATION Spec
CONSTANTS
  Media <- BothFile
  Streams = {"audio", "video"}
  PacketBuffering = FALSE
  MaxBufferSize = 1
  MinFrames = 1
  MinMinFrames = 1
  FrameSlots = 1
  CodecDelay = 0
  Discontinuities = {2}
  SeekTargets = {2}
  Calls = {"seek"}
  MayBreak = TRUE
  LoopCount = 1
  MaxSeeks = 1
INVARIANTS QueuesBounded
PROPERTIES IsPlayback
CHECK_DEADLOCK FALSE
