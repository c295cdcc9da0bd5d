CONSTANTS
  BlockFrames = 4
  BufferBlocks = 2
  Num = 19
  Den = 10
  ClockMod = 32
  QueueMax = 3
  PhaseMod = 16
  Transports = {"both"}
  Distances = {0, 1, 2, 7, 8, 9, 15, 16}
  Writes = 5
  StreamFrames = 24
SPECIFICATION StreamSpec
INVARIANT LiveInOrder
CHECK_DEADLOCK FALSE
