------------------------------- MODULE MCPool -------------------------------
(* Instances of Pool for TLC.                                              *)
EXTENDS Pool

\* The benchmarks: secrets.token_hex(8) for every send.
BenchmarkIds == [p \in Wallets \X (1..SendsPerWallet) |-> p]
BenchmarkTransactionIds == Wallets \X (1..SendsPerWallet)

\* wallet.py: transaction_id = "101" for every send.
WalletIds == [p \in Wallets \X (1..SendsPerWallet) |-> "101"]
WalletTransactionIds == {"101"}

Symmetry == Permutations(Wallets) \cup Permutations(Validators)
=============================================================================
