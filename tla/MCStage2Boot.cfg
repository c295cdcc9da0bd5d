CONSTANTS
  MemWords = 9
  LoaderFirst = 3
  LoaderLimit = 5
  BootLimit = 7
  ProgramLimit = 6
  Islands <- MCIslands
  Lines = 7
  FileSections = 3
  FileWords <- MCFileWords
  Starts = {0, 1, 5, 7}
SPECIFICATION BootLive
INVARIANTS
  StreamIffLoadable
  EntersProgram
  LoaderIntact
PROPERTY
  ReplyArrives
\* The program runs, or the build stopped.
CHECK_DEADLOCK FALSE
