SPECIFICATION DhtFairSpec
CONSTANTS
  Bits = 2
  Frames <- MCFrames
  ReplyTime <- MCReplyTime
  ZeroTime <- MCZeroTime
  Delays = {5, 12}
  MaxLate = 12

PROPERTY ResponseWaitEnds
