SPECIFICATION PFairSpec
CONSTANTS
  Global = g
  NULL = null
  Handles = {h1}
  Videos <- MCVideos
  Sizes <- MCSizes
  NullAlloc <- OnlyBGRA
  MaxForgotten = 1
  FULL_WIDTH = 4
  FULL_HEIGHT = 3
  FAXTOR_NUM = 10
INVARIANTS TypeOK NothingLost FaultsOnly ScalerFits OwnPacket EndMeansAll CopyFits
PROPERTIES PlaysToEnd
\* The player crashes if its video does not open.
CHECK_DEADLOCK FALSE
