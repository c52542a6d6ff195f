SPECIFICATION ToolsSpec
CHECK_DEADLOCK FALSE
CONSTANTS
  MAX_CHILDREN = 2
  BLOCK_SIZE = 2
  TREE_COUNT = 7
  COUNT = 6
  Num_of_writes = 4
  sortRows = 4
  targetSum = 4
  upperBound = 1
  RowGarbage <- MCRowGarbage
  num_threads = 3
  bucket_size = 2
  Repeats = 2
  threads_count = 3
  MaxPowNonce = 5
  Difficulties <- MCDifficulties
  NUM_THREADS = 3
  Sorters = {0, 1, 2}
INVARIANTS
  BlocksAreFilled
  IndexNamesBlocks
  BlocksKept
  FileIsFilled
  PrintedIsFound
  FileOfOneThread
  LockLostOnlyByFailure
