SPECIFICATION Spec
CONSTANTS
  Media <- LongFile
  Streams = {"audio", "video"}
  PacketBuffering = TRUE
  MaxBufferSize = 1
  MinFrames = 1
  MinMinFrames = 1
  FrameSlots = 1
  CodecDelay = 0
  Discontinuities = {}
  SeekTargets = {1, 2, 3}
  Calls = {"pause", "start"}
  MayBreak = FALSE
  LoopCount = 1
  MaxSeeks = 0
PROPERTIES BufferingEnds
