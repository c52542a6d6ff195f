------------------------------- MODULE Mining -------------------------------
(***************************************************************************)
(* A validator that mines: the threads of src/dsc_py/validator.py and      *)
(* src/dsc_py/validator2.py, and the claims it makes to the metronome.     *)
(*                                                                         *)
(* dsc-config.yaml enables one proof.  "pow": the threads hash nonces      *)
(* while the round lasts and write a nonce that solves the puzzle to a     *)
(* global.  "pom": they hash nonces once, into a table, which is scanned   *)
(* in each round.  "pom2": the same in validator2.py, where the table is   *)
(* sorted and searched by halves.                                          *)
(*                                                                         *)
(* A hash is a random function of its nonce: a puzzle is the set of nonces *)
(* whose hash agrees with it in the bits compared, any set as long as bits *)
(* are compared, and all of them when none is.  Time is a choice: a thread *)
(* or a search may find in every iteration that the round is over.         *)
(*                                                                         *)
(* An operator marked "Slip" is no part of the specification: it is the    *)
(* operator after it with a mistake in it, kept to show which property     *)
(* notices the mistake.                                                    *)
(***************************************************************************)
EXTENDS Difficulty

CONSTANTS
  Miner,       \* the claimant with the threads; the others only claim
  NumThreads,  \* threads_hash of dsc-config.yaml
  NumNonces,   \* hashes_to_be_generated; bound: nonces hashed in a round
  Spare,       \* the 100 entries the table is longer
  Proofs,      \* which of "pow", "pom", "pom2" may be enabled
  MaxRounds    \* bound: how many rounds are announced

ASSUME MiningAssumption ==
  /\ Miner \in Claimants
  /\ {NumThreads, NumNonces} \subseteq Nat \ {0}
  /\ {Spare, MaxRounds} \subseteq Nat
  /\ Proofs \subseteq {"pow", "pom", "pom2"}

Threads == 0..(NumThreads - 1)
Nonces == 0..(NumNonces - 1)
Slots == 0..(NumNonces + Spare - 1)
NoHash == -1

VARIABLES
  proof,              \* which proof dsc-config.yaml enables
  announced,          \* previous_blockID of the metronome
  opening,            \* the window is open, the round not announced yet
  pc,                 \* where the main thread is
  tpc,                \* where each thread is
  tnonce,             \* hash_block_thread.nonce of each thread
  nonce,              \* the global the threads write
  hashes_generated,
  blockID,            \* the round that is mined for
  previous_block_ID,  \* the round that was last mined for
  match,              \* nonces (pom2: slots) that solve the puzzle
  below,              \* pom2: the first slot not below the puzzle
  table,              \* proof_of_memory_hashes: whose hash is in a slot
  low, high,          \* the part of the table left to search
  times,              \* history: how often a nonce was hashed this round
  late                \* history: somebody ran out of time this round

mainVars == <<proof, announced, opening>>
roundVars == <<blockID, previous_block_ID, match, below>>
search == <<low, high>>
threadVars == <<tpc, tnonce, times, hashes_generated>>
vars == <<claimVars, mainVars, pc, threadVars, nonce, roundVars, table, search,
          late>>

Init ==
  /\ DifficultyInit
  /\ proof \in Proofs
  /\ announced = -1
  /\ opening = TRUE
  /\ pc = IF proof = "pow" THEN "poll" ELSE "fill"
  /\ tpc = [t \in Threads |-> IF proof = "pow" THEN "off" ELSE "fill"]
  /\ tnonce = [t \in Threads |-> t]
  /\ nonce = -1
  /\ hashes_generated = -1
  /\ blockID = 0
  /\ previous_block_ID = -1
  /\ match = {}
  /\ below = 0
  /\ table = [s \in Slots |-> NoHash]
  /\ low = 0
  /\ high = NumNonces + Spare - 1
  /\ times = [n \in Nonces |-> 0]
  /\ late = FALSE

-----------------------------------------------------------------------------
(* The metronome, and the claims of all validators.                        *)

OpenWindow ==
  /\ ~opening
  /\ announced < MaxRounds
  /\ opening' = TRUE
  /\ ResetWin
  /\ UNCHANGED <<proof, announced, pc, threadVars, nonce, roundVars, table, search,
                 late>>

Announce ==
  /\ opening
  /\ opening' = FALSE
  /\ announced' = announced + 1
  /\ UNCHANGED <<claimVars, proof, pc, threadVars, nonce, roundVars, table,
                 search, late>>

\* Another validator claims, with or without a nonce, and goes on.
OtherClaims(c) ==
  /\ c # Miner
  /\ claims < MaxClaims
  /\ \E f \in BOOLEAN : CallWin(c, f)
  /\ UNCHANGED <<mainVars, pc, threadVars, nonce, roundVars, table,
                 search, late>>

OtherGoesOn(c) ==
  /\ c # Miner
  /\ cpc[c] = "answered"
  /\ cpc' = [cpc EXCEPT ![c] = "idle"]
  /\ UNCHANGED <<validator_win, found, claims, counter, mainVars, pc,
                 threadVars, nonce, roundVars, table, search, late>>

HandleClaim(c) ==
  /\ Handle(c)
  /\ UNCHANGED <<mainVars, pc, threadVars, nonce, roundVars, table, search, late>>

-----------------------------------------------------------------------------
(* The table of a proof of memory.                                         *)

\* The number stored beside the hash of n: in validator2.py the thread
\* stores the global nonce, which is -1, instead of the one it hashed.
Beside(n) == IF proof = "pom2" THEN -1 ELSE n

\* Slip: one more than there are threads.
StrideTooLong == NumThreads + 1

\* hash_block_thread.nonce += threads
Stride == NumThreads

\* proof_of_memory: one iteration
FillSlot(t) ==
  /\ tpc[t] = "fill"
  /\ IF tnonce[t] < NumNonces
       THEN /\ table' = [table EXCEPT ![tnonce[t]] = tnonce[t]]
            /\ tnonce' = [tnonce EXCEPT ![t] = @ + Stride]
            /\ UNCHANGED tpc
       ELSE /\ tpc' = [tpc EXCEPT ![t] = "off"]
            /\ UNCHANGED <<table, tnonce>>
  /\ UNCHANGED <<claimVars, mainVars, pc, times, hashes_generated, nonce,
                 roundVars, search, late>>

\* All threads joined.  validator2.py sorts the table: the entries without
\* a hash come first; which nonce is where is not told apart, as the
\* numbers beside the hashes are all the same.
JoinFill ==
  /\ pc = "fill"
  /\ \A t \in Threads : tpc[t] = "off"
  /\ pc' = "poll"
  /\ tnonce' = [t \in Threads |-> t]
  /\ table' = IF proof = "pom2"
                THEN [s \in Slots |->
                        IF s < Spare THEN NoHash ELSE table[s - Spare]]
                ELSE table
  /\ UNCHANGED <<claimVars, mainVars, tpc, times, hashes_generated, nonce, roundVars,
                 search, late>>

-----------------------------------------------------------------------------
(* A round.                                                                *)

\* A puzzle at difficulty d: the nonces that solve it.  In a sorted table
\* these are neighbours, on both sides of where the puzzle itself would be;
\* an empty string has no bit in common with a puzzle.
Puzzle(d) ==
  /\ proof # "pom2"
  /\ match' \in IF ComparedBits(d) = 0 THEN {Nonces} ELSE SUBSET Nonces
  /\ below' = 0

SortedPuzzle(d) ==
  /\ proof = "pom2"
  /\ \E first \in Spare..(NumNonces + Spare), last \in Slots :
       /\ first <= last + 1
       /\ match' = IF ComparedBits(d) = 0 THEN Slots ELSE first..last
       /\ below' \in first..(last + 1)

\* The round is still the one that was mined for last.
PollAgain ==
  /\ pc = "poll"
  /\ announced = previous_block_ID
  /\ UNCHANGED vars

\* Slip: the nonce of the last round is kept.
StartAsLeft == nonce

\* nonce = -1
StartNonce == -1

\* get_details has told of a new round: the threads or the search start.
TakeDetails ==
  /\ pc = "poll"
  /\ announced # previous_block_ID
  /\ Puzzle(difficulty) \/ SortedPuzzle(difficulty)
  /\ blockID' = announced
  /\ nonce' = StartNonce
  /\ IF proof = "pow"
       THEN pc' = "mine" /\ tpc' = [t \in Threads |-> "run"]
       ELSE pc' = "search" /\ UNCHANGED tpc
  /\ UNCHANGED <<claimVars, mainVars, tnonce, times, hashes_generated,
                 previous_block_ID, table, search, late>>

\* proof_of_Work: one iteration
HashNonce(t) ==
  /\ tpc[t] = "run"
  /\ tnonce[t] < NumNonces
  /\ times' = [times EXCEPT ![tnonce[t]] = @ + 1]
  /\ IF tnonce[t] \in match
       THEN tpc' = [tpc EXCEPT ![t] = "hit"] /\ UNCHANGED tnonce
       ELSE tnonce' = [tnonce EXCEPT ![t] = @ + Stride] /\ UNCHANGED tpc
  /\ UNCHANGED <<claimVars, mainVars, pc, hashes_generated, nonce, roundVars,
                 table, search, late>>

\* Slip: the thread gives up on behalf of all, as the searches do.
TimeUpForAll(t) ==
  /\ tpc[t] = "run"
  /\ tpc' = [tpc EXCEPT ![t] = "end"]
  /\ nonce' = -1
  /\ late' = TRUE
  /\ UNCHANGED <<claimVars, mainVars, pc, tnonce, times, hashes_generated,
                 roundVars, table, search>>

\* Slip: the loop of Proof_of_work.c, which goes on when a nonce was found.
TimeUpUnlessFound(t) ==
  /\ tpc[t] = "run"
  /\ nonce = -1
  /\ tpc' = [tpc EXCEPT ![t] = "end"]
  /\ late' = TRUE
  /\ UNCHANGED <<claimVars, mainVars, pc, tnonce, times, hashes_generated, nonce,
                 roundVars, table, search>>

\* The test of the while loop: the time of the block is over.
TimeUp(t) ==
  /\ tpc[t] = "run"
  /\ tpc' = [tpc EXCEPT ![t] = "end"]
  /\ late' = TRUE
  /\ UNCHANGED <<claimVars, mainVars, pc, tnonce, times, hashes_generated, nonce,
                 roundVars, table, search>>

Found(t) == tnonce[t]

\* nonce = hash_block_thread.nonce
WriteNonce(t) ==
  /\ tpc[t] = "hit"
  /\ nonce' = Found(t)
  /\ tpc' = [tpc EXCEPT ![t] = "end"]
  /\ UNCHANGED <<claimVars, mainVars, pc, tnonce, times, hashes_generated,
                 roundVars, table, search, late>>

\* The thread with the last number leaves its nonce as the count of hashes.
EndThread(t) ==
  /\ tpc[t] = "end"
  /\ hashes_generated' = IF t + 1 = NumThreads THEN tnonce[t] ELSE hashes_generated
  /\ tpc' = [tpc EXCEPT ![t] = "off"]
  /\ UNCHANGED <<claimVars, mainVars, pc, tnonce, times, nonce, roundVars, table,
                 search, late>>

\* join
JoinThreads ==
  /\ pc = "mine"
  /\ \A t \in Threads : tpc[t] = "off"
  /\ pc' = "claim"
  /\ UNCHANGED <<claimVars, mainVars, threadVars, nonce, roundVars, table, search,
                 late>>

-----------------------------------------------------------------------------
(* proof_of_memory_search                                                  *)

mid == (low + high) \div 2
Probe == IF proof = "pom2" THEN mid ELSE low
\* compare_first_bits; entries of pom that are no tuple are passed over
Solves(s) == IF proof = "pom2" THEN s \in match
             ELSE table[s] # NoHash /\ table[s] \in match

\* The entry matches.
SearchHit ==
  /\ pc = "search"
  /\ low <= high
  /\ Solves(Probe)
  /\ nonce' = IF table[Probe] = NoHash THEN -1 ELSE Beside(table[Probe])
  /\ pc' = "claim"
  /\ UNCHANGED <<claimVars, mainVars, threadVars, roundVars, table, search, late>>

\* Slip: the halves are swapped.
ToTheRight == proof = "pom2" /\ mid < below

\* pom2: mid_value is not less than result_hash
ToTheLeft == proof = "pom2" /\ ~(mid < below)

\* It does not: on to the next entry, or to one half.
SearchNext ==
  /\ pc = "search"
  /\ low <= high
  /\ ~Solves(Probe)
  /\ IF ToTheLeft
       THEN high' = mid - 1 /\ UNCHANGED low
       ELSE low' = Probe + 1 /\ UNCHANGED high
  /\ UNCHANGED <<claimVars, mainVars, pc, threadVars, nonce, roundVars, table, late>>

\* It does not, and the time is over.
SearchTimeUp ==
  /\ pc = "search"
  /\ low <= high
  /\ ~Solves(Probe)
  /\ nonce' = -1
  /\ late' = TRUE
  /\ pc' = "claim"
  /\ UNCHANGED <<claimVars, mainVars, threadVars, roundVars, table, search>>

\* Nothing is left to search.
SearchEnd ==
  /\ pc = "search"
  /\ low > high
  /\ pc' = "claim"
  /\ UNCHANGED <<claimVars, mainVars, threadVars, nonce, roundVars, table, search,
                 late>>

-----------------------------------------------------------------------------
(* The claim.                                                              *)

\* stub.validator_win.  The locals of threads and search are gone, and so is
\* the history of the round.
SendClaim ==
  /\ pc = "claim"
  /\ CallWin(Miner, nonce # -1)
  /\ pc' = "answer"
  /\ tnonce' = [t \in Threads |-> t]
  /\ low' = 0
  /\ high' = NumNonces + Spare - 1
  /\ match' = {}
  /\ below' = 0
  /\ times' = [n \in Nonces |-> 0]
  /\ late' = FALSE
  /\ UNCHANGED <<mainVars, tpc, hashes_generated, nonce, blockID,
                 previous_block_ID, table>>

\* previous_block_ID = blockID; what a winner does then is in Validator.
ClaimAnswered ==
  /\ pc = "answer"
  /\ cpc[Miner] = "answered"
  /\ cpc' = [cpc EXCEPT ![Miner] = "idle"]
  /\ previous_block_ID' = blockID
  /\ pc' = "poll"
  /\ UNCHANGED <<validator_win, found, claims, counter, mainVars, threadVars,
                 nonce, blockID, match, below, table, search, late>>

-----------------------------------------------------------------------------
ThreadStep(t) ==
  \/ FillSlot(t)
  \/ HashNonce(t)
  \/ TimeUp(t)
  \/ WriteNonce(t)
  \/ EndThread(t)

MainStep ==
  \/ JoinFill
  \/ PollAgain
  \/ TakeDetails
  \/ JoinThreads
  \/ SearchHit
  \/ SearchNext
  \/ SearchTimeUp
  \/ SearchEnd
  \/ ClaimAnswered

Next ==
  \/ OpenWindow
  \/ Announce
  \/ \E c \in Claimants : OtherClaims(c) \/ OtherGoesOn(c) \/ HandleClaim(c)
  \/ \E t \in Threads : ThreadStep(t)
  \/ MainStep
  \/ SendClaim

Spec == Init /\ [][Next]_vars

\* Threads that run are scheduled, and time passes: a round's time is over
\* some time.  No call has to be made by others, and no window to open.
Fairness ==
  /\ \A t \in Threads : WF_vars(ThreadStep(t)) /\ WF_vars(TimeUp(t))
  /\ WF_vars(MainStep)

FairSpec == Spec /\ Fairness

-----------------------------------------------------------------------------
(* Properties.                                                             *)

\* The nonce of a claim solves the puzzle of the round it is claimed for:
\* it is no leftover of another round, whichever thread wrote it.
ClaimSolves == pc = "claim" /\ nonce # -1 => nonce \in match

\* What a thread found is claimed: no thread that runs out of time, and no
\* later match, makes the claim empty.
FoundIsClaimed ==
  pc = "claim" /\ proof = "pow" /\ (\E n \in match : times[n] > 0) => nonce # -1

\* The threads share out the nonces: in a round none is hashed twice, and a
\* thread that moved on has left out none of its own.
EachHashedOnce ==
  proof = "pow" /\ pc = "mine" =>
    \A t \in Threads, n \in Nonces :
      n % NumThreads = t => times[n] <= 1 /\ (n < tnonce[t] => times[n] = 1)

\* A search that has the time ends at a match when the table has one, the
\* search by halves too: it never leaves the half with the matches.
SearchHits ==
  pc = "claim" /\ proof # "pow" /\ ~late /\ match # {} => low <= high

\* A lost update of the difficulty never moves it further than the claims
\* made so far: it is not below what the losses alone explain, and not
\* above what the wins alone explain.
DifficultyExplained ==
  difficulty \in (InitialDifficulty - losses)..(InitialDifficulty + wins)

\* What lost claims do to the puzzle, whichever updates of the difficulty are
\* lost, and though nothing stops it at zero, below which the slice compares
\* nearly all bits again.  The puzzle is harder than the first one only after a
\* win, or when more claims were lost than the first difficulty; it compares
\* nothing only after as many.  Up to there overlapping losses never undo each
\* other altogether: before the first win they leave it easier than the first.
PuzzleFollowsClaims ==
  LET bits == ComparedBits(difficulty)
      first == ComparedBits(InitialDifficulty)
  IN /\ bits > first =>
          wins > 0 \/ (difficulty < 0 /\ losses > InitialDifficulty)
     /\ bits = 0 => losses >= InitialDifficulty
     /\ wins = 0 /\ losses \in 1..InitialDifficulty /\ InitialDifficulty <= HashBits
          => bits < first

\* A round that was taken is claimed: neither the threads nor a search go
\* on without end.
MinerClaims == pc \in {"mine", "search"} ~> pc = "claim"
=============================================================================
