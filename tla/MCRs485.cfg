SPECIFICATION FairSpec
CONSTANTS
  FrameLength = 3
  FifoSize = 2
  MaxFrames = 2
  MaxErrors = 2
  MaxSends = 1
INVARIANTS
  TypeOK
  BufferInBounds
PROPERTIES
  CleanFrameIsTaken
  ImplementsLossyLine
