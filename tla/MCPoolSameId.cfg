SPECIFICATION FairSpec
CONSTANTS
  Wallets = {w1, w2}
  Queriers = {}
  Validators = {v1, v2}
  NoTx = NoTx
  SendsPerWallet = 1
  MaxWorkers = 3
  Quitters = {w1}
  NeverReport = {}
  TransactionIds <- WalletTransactionIds
  IdOf <- WalletIds
INVARIANTS
  SomeValidatorSurvives
PROPERTIES
  SendReturns
