SPECIFICATION Spec
CONSTANTS
  Media <- VideoFile
  Streams = {"video"}
  PacketBuffering = TRUE
  MaxBufferSize = 2
  MinFrames = 1
  MinMinFrames = 1
  FrameSlots = 1
  CodecDelay = 1
  Discontinuities = {}
  SeekTargets = {2, 3}
  Calls = {"start", "pause", "seek", "restart"}
  MayBreak = FALSE
  LoopCount = 2
  MaxSeeks = 1
INVARIANTS TypeOK FinishedIsFinal
PROPERTIES IsPlayback BufferingEnds PlaybackEnds
