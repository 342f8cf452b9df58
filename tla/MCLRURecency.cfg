CONSTANTS
  k1 = k1
  k2 = k2
  Keys = {k1, k2}
  Frames <- MCFrames
  NoFrame = NoFrame
  Unread = Unread
  MaxNodes = 3
  U16 = 2
  U32 = 32
  MAX_BUF_LEN = 4
  MaxDamage = 0
SPECIFICATION HSpec
PROPERTY EvictsLeastRecent
