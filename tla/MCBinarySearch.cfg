SPECIFICATION FairSpec
CONSTANTS
  Hashes = {0, 1, 2, 3, 4}
  MaxSize = 5
  SizeRange = 64
  IntRange = 16
INVARIANTS
  AnswerIsRight
  ReadsInside
PROPERTIES
  ReturnsUnlessBelow
