SPECIFICATION Spec
CONSTANTS
  Bdes = 3
  FRAMES_PER_BLOCK = 2
  BLOCK_SIZE = 5
  Totals <- LongFile
  Buffers <- None
PROPERTIES PlaysLiveData
