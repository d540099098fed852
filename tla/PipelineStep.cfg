SPECIFICATION Spec
CONSTANTS
  Media <- VideoFile
  Streams = {"video"}
  PacketBuffering = TRUE
  MaxBufferSize = 2
  MinFrames = 1
  MinMinFrames = 1
  FrameSlots = 1
  CodecDelay = 0
  Discontinuities = {}
  SeekTargets = {1, 2, 3}
  Calls = {"start", "pause", "seek", "restart"}
  MayBreak = FALSE
  LoopCount = 1
  MaxSeeks = 1
PROPERTIES StepShowsNewFrame
