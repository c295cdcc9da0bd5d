CONSTANTS
  BlockFrames = 4
  BufferBlocks = 2
  Num = 19
  Den = 10
  ClockMod = 32
  QueueMax = 3
  PhaseMod = 16
  Transports = {"capture"}
  Distances = {0, 1, 2, 7, 8, 9, 15, 16}
  Writes = 4
  StreamFrames = 24
  CaptureFrames = 16
  Stamps = {0, 1, 3, 4, 7, 8, 14, 15, 16}
SPECIFICATION CaptureSpec
INVARIANT NoSilentMismatch
CHECK_DEADLOCK FALSE
