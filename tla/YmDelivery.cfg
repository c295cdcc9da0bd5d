CONSTANTS
  Payloads = 3
  Faults = FALSE
  Latches = {tl, kc}
  Edges = {key}
  BatchMax = 2
  MaxWrites = 4
SPECIFICATION DeliverySpec
INVARIANTS
  BatchTypeOK
  SlotsCurrent
  BatchComplete
  VoiceAheadOfKey
  KeysInOrder
  ChipMatchesMirror
PROPERTY
  NeverOlder
SYMMETRY
  LatchSymmetry
CHECK_DEADLOCK FALSE
