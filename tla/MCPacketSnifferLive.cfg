CONSTANTS
  k1 = k1
  k2 = k2
  k3 = k3
  Keys = {k1, k2}
  Frames <- LiveFrames
  NoFrame = NoFrame
  Unread = Unread
  MaxNodes = 2
  U16 = 2
  U32 = 32
  MAX_BUF_LEN = 4
  MaxDamage = 0
SPECIFICATION FairSpec
PROPERTIES FrameEnds LRUClearEnds PoolRecovers
