SPECIFICATION Spec
CONSTANTS
  Hashes = {1, 2}
  numBuckets = 2
  hashesPerBucketRead = 4
  hashesPerBucket = 2
  maxHashesToSort = 2
  NumThreads = 2
  Leftovers = {0, 3}
  SizeRange = 32
  IntRange = 8
INVARIANTS
  InItsShare
  NothingLost
  SearchFinds
