SPECIFICATION Spec
CONSTANTS
  Validators = {v1, v2}
  MetronomeWorkers = 2
  MaxBlocks = 3
  Crashing = {v2}
CONSTRAINT ChainBound
INVARIANTS
  NoGap
  MetronomeIDsDistinct
  HashMatchesID
  LinksBackwards
  WinnersBounded
PROPERTIES
  ImplementsLedger
