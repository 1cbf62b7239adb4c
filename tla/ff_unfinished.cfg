SPECIFICATION PSpec
CONSTANTS
  Global = g
  NULL = null
  Handles = {h1}
  Videos <- MCVideos
  Sizes <- MCSizes
  NullAlloc <- OnlyBGRA
  MaxForgotten = 1
  FULL_WIDTH = 4
  FULL_HEIGHT = 3
  FAXTOR_NUM = 10
INVARIANTS ReturnsFinishedFrame
CHECK_DEADLOCK FALSE
