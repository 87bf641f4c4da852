SPECIFICATION DhtFairSpec
CONSTANTS
  Bits = 2
  Frames <- MCFrames
  ReplyTime <- MCReplyTime
  ZeroTime <- MCZeroTime
  Delays = {3, 5, 12}
  MaxLate = 12
INVARIANTS Dht11TypeOK AcceptedIsSent 
PROPERTY ReadEnds
