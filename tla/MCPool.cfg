SPECIFICATION Spec
CONSTANTS
  Wallets = {w1, w2}
  Queriers = {}
  Validators = {v1, v2}
  NoTx = NoTx
  SendsPerWallet = 2
  MaxWorkers = 3
  Quitters = {}
  NeverReport = {}
  TransactionIds <- BenchmarkTransactionIds
  IdOf <- BenchmarkIds
SYMMETRY Symmetry
INVARIANTS
  FirstInFirstOut
  CheckedStaysUnconfirmed
  ConfirmedUnlessRaced
PROPERTIES
  ImplementsQueue
