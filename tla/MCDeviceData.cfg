SPECIFICATION MCSpec
CONSTANTS
  NULL = NULL
  result_len = 19
  ByteRange = 19
  MaxType = 4
  MaxRank = 1
  CapOff <- MCCapOff
  ExtOff <- MCExtOff
  ByteBase = 2
INVARIANTS
  BestChosen
  InsideReply
  SerialIsDevices
  ReadsBack
PROPERTIES
  WalkReturns
  SearchReturns
