---------------------------- MODULE MCValidator -----------------------------
(* Instances of Validator for TLC.                                         *)
EXTENDS Validator

\* Bound: winners may add one block to those of the main loop.
ChainBound == Len(block_chain) <= MaxBlocks + 1
=============================================================================
