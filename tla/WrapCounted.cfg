CONSTANTS
  TrackCount = 2
  FmCount = 1
  Budget = 3
  Silence = 2
  Repertoires <- MCRepertoires
  Encoded = {0, 1}
  Lengths = {8, 12}
  Delays = {0, 1}
  FadeWaits = {1, 2}
SPECIFICATION TracksSpec
INVARIANT WrapCounted
CHECK_DEADLOCK FALSE
