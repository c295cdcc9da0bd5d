CONSTANTS
  TrackCount = 2
  FmCount = 1
  Budget = 3
  Silence = 2
  Repertoires <- MCRepertoires
  Encoded = {0, 1}
  Lengths = {8, 12}
  Delays = {0, 1}
  FadeWaits = {1, 2}
SPECIFICATION TracksLive
INVARIANTS
  TracksTypeOK
  KeysBelongToTracks
  KeyHasGate
  NeverCutShort
PROPERTIES
  TickEnds
  FlaggedWakes
  FadeEnds
\* The song ends.
CHECK_DEADLOCK FALSE
