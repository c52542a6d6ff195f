SPECIFICATION Spec
CONSTANTS
  BLOCK_LEN = 2
  CHUNK_LEN = 4
  MAX_DEPTH = 5
  Machines <- MCMachines
  Lens = {1, 2, 4, 5, 8, 12, 16, 33, 64, 128}
  ContextLens = {1, 21}
  Windows <- MCWindows
INVARIANTS
  FinalizeIsTreeHash
  StackShape
  WideFits
  RoutinesRun
