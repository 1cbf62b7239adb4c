SPECIFICATION FairSpec
CONSTANTS
  Bdes = 3
  FRAMES_PER_BLOCK = 2
  BLOCK_SIZE = 5
  Totals <- MCTotals
  Buffers <- MCBuffers
INVARIANTS TypeOK HeardInOrder WithinFile
PROPERTIES DescriptorsStable PlaysProgrammed
