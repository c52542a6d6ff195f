SPECIFICATION FairSpec
CONSTANTS
  Claimants = {m, o}
  Miner = m
  MetronomeWorkers = 2
  InitialDifficulty = 2
  HashBits = 4
  MaxClaims = 3
  NumThreads = 2
  NumNonces = 3
  Spare = 1
  Proofs = {"pow", "pom", "pom2"}
  MaxRounds = 1
INVARIANTS
  ClaimSolves
  FoundIsClaimed
  EachHashedOnce
  SearchHits
  DifficultyExplained
  PuzzleFollowsClaims
PROPERTIES
  MinerClaims
