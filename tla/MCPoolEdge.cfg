SPECIFICATION Spec
CONSTANTS
  Wallets = {w1, w2}
  Queriers = {q1}
  Validators = {v1, v2}
  NoTx = NoTx
  SendsPerWallet = 1
  MaxWorkers = 2
  Quitters = {}
  NeverReport = {v2}
  TransactionIds <- BenchmarkTransactionIds
  IdOf <- BenchmarkIds
PROPERTIES
  ExhaustionIsPermanent
CHECK_DEADLOCK FALSE
