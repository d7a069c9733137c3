SPECIFICATION Spec
CONSTANTS
  ETH_RXBUFNB = 2
  ETH_TXBUFNB = 2
  FrameIds = 3
  LateFrames = 1
INVARIANT NeverDeaf
PROPERTY CopiesInOrder
PROPERTY WireIsExact
PROPERTY EveryFrameTaken
PROPERTY EveryFrameSent
