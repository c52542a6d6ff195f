---------------------------- MODULE RoundLedger -----------------------------
(***************************************************************************)
(* What the metronome and the blockchain promise together, with threads,   *)
(* hashes and winners left out: the rounds are announced one after the     *)
(* other, each for a block that exists, and a block is only ever added for *)
(* the round after one that was announced.                                 *)
(***************************************************************************)
EXTENDS Naturals

VARIABLES rounds,  \* how many rounds were announced: 0 .. rounds - 1
          ids      \* the identifiers of the blocks

vars == <<rounds, ids>>

Init ==
  /\ rounds = 0
  /\ ids = {0}

Announce ==
  /\ rounds \in ids
  /\ rounds' = rounds + 1
  /\ UNCHANGED ids

\* Several blocks of one identifier are allowed: winners and metronome race.
AddBlock ==
  /\ \E id \in 1..rounds : ids' = ids \cup {id}
  /\ UNCHANGED rounds

Next == Announce \/ AddBlock

Spec == Init /\ [][Next]_vars
=============================================================================
