----------------------------- MODULE Blockchain -----------------------------
(***************************************************************************)
(* The chain kept by the blockchain server, src/dsc_py/blockchain.py.      *)
(*                                                                         *)
(* A block is its identifier, the block it names as its predecessor, who   *)
(* made it and its transactions.  Hashes are collision-free and no two     *)
(* blocks are equal, so the hash of a block is its position in the chain;  *)
(* NoHash stands for the empty string.                                     *)
(***************************************************************************)
EXTENDS Integers, SequencesExt

VARIABLE block_chain

NoHash == 0

Block(id, previous, maker, transactions) ==
  [blockID |-> id, previous_block_hash |-> previous, maker |-> maker,
   transactions |-> transactions]

\* create_genesis_block, appended before the server starts.
GenesisBlock == Block(0, NoHash, "genesis", <<>>)

\* create_block(..., []): the transactions of the request are not stored.
Stored(transactions) == <<>>

\* block_creation: whatever identifier and predecessor the request names.
block_creation(id, previous, maker, transactions) ==
  block_chain' =
    Append(block_chain, Block(id, previous, maker, Stored(transactions)))

\* The two reads of metronome_blockHash.
LastHash == Len(block_chain)
LastID == block_chain[Len(block_chain)].blockID

IDs == {block_chain[k].blockID : k \in DOMAIN block_chain}
=============================================================================
