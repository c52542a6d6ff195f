SPECIFICATION Spec
CONSTANTS
  Wallets = {w1}
  Queriers = {}
  Validators = {v1}
  NoTx = NoTx
  SendsPerWallet = 1
  MaxWorkers = 2
  Quitters = {}
  NeverReport = {}
  TransactionIds <- BenchmarkTransactionIds
  IdOf <- BenchmarkIds
INVARIANTS
  ConfirmedIsTrue
