----------------------------- MODULE Difficulty -----------------------------
(***************************************************************************)
(* The difficulty of the puzzle, src/dsc_py/metronome_server.py.           *)
(*                                                                         *)
(* validator_win is called once a round by every validator that mines: a   *)
(* claim that wins makes the puzzle harder by one bit, every other claim   *)
(* easier.  The handlers run in the threads of the metronome's pool, and   *)
(* "difficulty += 1" reads the global and later writes it.  A handler is   *)
(* identified with its validator, as in Metronome, where the difficulty is *)
(* left out; here the reply is.                                            *)
(***************************************************************************)
EXTENDS Integers, FiniteSets

CONSTANTS
  Claimants,          \* the validators
  MetronomeWorkers,   \* ThreadPoolExecutor(max_workers=2)
  InitialDifficulty,  \* 30
  HashBits,           \* length of the bit string of a hash
  MaxClaims           \* bound: no other validator calls after so many
                      \* claims

ASSUME DifficultyAssumption ==
  /\ MetronomeWorkers \in Nat \ {0}
  /\ InitialDifficulty \in Nat
  /\ HashBits \in Nat \ {0}
  /\ MaxClaims \in Nat

VARIABLES
  difficulty,     \* the global of the metronome
  validator_win,  \* somebody won this window
  cpc,            \* where the claim of each validator is
  found,          \* request.nonce != -1
  loaded,         \* what "difficulty += 1" has read, 0 outside of it
  wins,           \* history: claims that raised the difficulty
  losses,         \* history: claims that lowered it
  claims          \* history: calls of validator_win

counter == <<difficulty, loaded, wins, losses>>
claimVars == <<difficulty, validator_win, cpc, found, loaded, wins, losses,
               claims>>

ClaimPCs == {"idle", "test", "win", "up", "down", "raise", "lower", "answered"}
InHandler == {c \in Claimants : cpc[c] \notin {"idle", "answered"}}

\* bin_str1[:diff]: how many leading bits are compared.  A negative
\* difficulty drops bits from the end instead.
ComparedBits(d) ==
  IF d >= 0 THEN (IF d < HashBits THEN d ELSE HashBits)
  ELSE (IF HashBits + d > 0 THEN HashBits + d ELSE 0)

DifficultyInit ==
  /\ difficulty = InitialDifficulty
  /\ validator_win = 0
  /\ cpc = [c \in Claimants |-> "idle"]
  /\ found = [c \in Claimants |-> FALSE]
  /\ loaded = [c \in Claimants |-> 0]
  /\ wins = 0
  /\ losses = 0
  /\ claims = 0

\* stub.validator_win, served by a free thread
CallWin(c, f) ==
  /\ cpc[c] = "idle"
  /\ Cardinality(InHandler) < MetronomeWorkers
  /\ claims' = claims + 1
  /\ found' = [found EXCEPT ![c] = f]
  /\ cpc' = [cpc EXCEPT ![c] = "test"]
  /\ UNCHANGED <<validator_win, counter>>

\* if request.nonce != -1 and validator_win==0
TestWin(c) ==
  /\ cpc[c] = "test"
  /\ cpc' = [cpc EXCEPT ![c] = IF found[c] /\ validator_win = 0 THEN "win" ELSE "down"]
  /\ UNCHANGED <<validator_win, found, claims, counter>>

\* validator_win = 1
SetWin(c) ==
  /\ cpc[c] = "win"
  /\ validator_win' = 1
  /\ cpc' = [cpc EXCEPT ![c] = "up"]
  /\ UNCHANGED <<found, claims, counter>>

\* difficulty+=1 and difficulty-=1 read ...
ReadDifficulty(c) ==
  /\ cpc[c] \in {"up", "down"}
  /\ loaded' = [loaded EXCEPT ![c] = difficulty]
  /\ cpc' = [cpc EXCEPT ![c] = IF cpc[c] = "up" THEN "raise" ELSE "lower"]
  /\ UNCHANGED <<difficulty, validator_win, found, wins, losses, claims>>

\* Slip: the branch of the winner falls into that of the losers.
LoweredTwice(d) == d - 2

\* Slip: the loser's branch writes back what it read.
LoweredNot(d) == d

Lowered(d) == d - 1

\* ... and write.
Lower(c) ==
  /\ cpc[c] = "lower"
  /\ difficulty' = Lowered(loaded[c])
  /\ losses' = losses + 1
  /\ loaded' = [loaded EXCEPT ![c] = 0]
  /\ cpc' = [cpc EXCEPT ![c] = "answered"]
  /\ UNCHANGED <<validator_win, found, wins, claims>>

Raise(c) ==
  /\ cpc[c] = "raise"
  /\ difficulty' = loaded[c] + 1
  /\ wins' = wins + 1
  /\ loaded' = [loaded EXCEPT ![c] = 0]
  /\ cpc' = [cpc EXCEPT ![c] = "answered"]
  /\ UNCHANGED <<validator_win, found, losses, claims>>

\* The main thread: request_block_chain resets the flag for a new window.
ResetWin ==
  /\ validator_win' = 0
  /\ UNCHANGED <<cpc, found, claims, counter>>

Handle(c) ==
  \/ TestWin(c)
  \/ SetWin(c)
  \/ ReadDifficulty(c)
  \/ Raise(c)
  \/ Lower(c)

=============================================================================
