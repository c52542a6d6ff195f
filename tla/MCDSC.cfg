SPECIFICATION FairDSC
CHECK_DEADLOCK FALSE
CONSTANTS
  Validators = {v1, v2}
  MetronomeWorkers = 1
  MaxBlocks = 2
  Crashing = {v1, v2}
  TransactionIds = {t1}
  NotAsked = NotAsked
  Checked = Checked
  NoTx = NoTx
  CannotRead = {v2}
INVARIANT
  ConfirmedInOneBlock
PROPERTIES
  WinnerReports
  RoundOpens
