---------------------------- MODULE MiningProofs ----------------------------
(***************************************************************************)
(* Theorems about Mining: lost updates move the difficulty no further than *)
(* the claims explain, at and below zero too the puzzle follows them, a    *)
(* claim carries a nonce that solves its puzzle, what a thread found is    *)
(* claimed, each nonce is hashed once, and a search hits if it can.        *)
(***************************************************************************)
EXTENDS Mining, TLAPS

Explained == (InitialDifficulty - losses)..(InitialDifficulty + wins)

(***************************************************************************)
(* The difficulty.  What a handler has read was explained when it read it, *)
(* and the range never shrinks.                                            *)
(***************************************************************************)
CounterInv ==
  /\ wins \in Nat
  /\ losses \in Nat
  /\ cpc \in [Claimants -> ClaimPCs]
  /\ loaded \in [Claimants -> Int]
  /\ difficulty \in Explained
  /\ \A c \in Claimants : cpc[c] \in {"raise", "lower"} => loaded[c] \in Explained

\* Nothing that only moves a claim on, from and to places where nothing was
\* read, disturbs the counter.
LEMMA CounterKept ==
  ASSUME CounterInv, NEW c \in Claimants, NEW l \in ClaimPCs \ {"raise", "lower"},
         cpc' = [cpc EXCEPT ![c] = l],
         UNCHANGED <<difficulty, loaded, wins, losses>>
  PROVE  CounterInv'
BY DEF CounterInv, Explained, ClaimPCs

\* The handler of validator_win keeps it.
LEMMA CounterHandle ==
  ASSUME CounterInv, DifficultyAssumption, NEW c \in Claimants, Handle(c)
  PROVE  CounterInv'
<1>1. CASE TestWin(c)
  <2>1. PICK l \in {"win", "down"} : cpc' = [cpc EXCEPT ![c] = l]
    BY <1>1 DEF TestWin
  <2>2. l \in ClaimPCs \ {"raise", "lower"}
    BY <2>1 DEF ClaimPCs
  <2> QED
    BY <1>1, <2>1, <2>2, CounterKept DEF TestWin, counter
<1>2. CASE SetWin(c)
  <2>1. "up" \in ClaimPCs \ {"raise", "lower"}
    BY DEF ClaimPCs
  <2> QED
    BY <1>2, <2>1, CounterKept DEF SetWin, counter
<1>3. CASE ReadDifficulty(c)
  BY <1>3 DEF ReadDifficulty, CounterInv, Explained, ClaimPCs
<1>4. CASE Raise(c)
  <2>1. loaded[c] \in Explained /\ loaded[c] \in Int
    BY <1>4 DEF Raise, CounterInv
  <2>2. /\ difficulty' = loaded[c] + 1
        /\ wins' = wins + 1 /\ losses' = losses
    BY <1>4 DEF Raise
  <2>3. difficulty' \in Explained' /\ wins' \in Nat /\ losses' \in Nat
    BY <2>1, <2>2 DEF CounterInv, Explained, DifficultyAssumption
  <2>4. \A x \in Explained : x \in Explained'
    BY <2>2 DEF CounterInv, Explained, DifficultyAssumption
  <2>5. /\ cpc' \in [Claimants -> ClaimPCs]
        /\ loaded' \in [Claimants -> Int]
    BY <1>4 DEF Raise, CounterInv, ClaimPCs
  <2>6. ASSUME NEW d \in Claimants, cpc'[d] \in {"raise", "lower"}
        PROVE  loaded'[d] \in Explained'
    <3>1. d # c
      BY <1>4, <2>6 DEF Raise, CounterInv
    <3>2. cpc[d] = cpc'[d] /\ loaded'[d] = loaded[d]
      BY <1>4, <3>1 DEF Raise, CounterInv
    <3> QED
      BY <2>4, <2>6, <3>2 DEF CounterInv
  <2> QED
    BY <2>3, <2>5, <2>6 DEF CounterInv
<1>5. CASE Lower(c)
  <2>1. loaded[c] \in Explained /\ loaded[c] \in Int
    BY <1>5 DEF Lower, Lowered, CounterInv
  <2>2. /\ difficulty' = loaded[c] - 1
        /\ losses' = losses + 1 /\ wins' = wins
    BY <1>5 DEF Lower, Lowered
  <2>3. difficulty' \in Explained' /\ wins' \in Nat /\ losses' \in Nat
    BY <2>1, <2>2 DEF CounterInv, Explained, DifficultyAssumption
  <2>4. \A x \in Explained : x \in Explained'
    BY <2>2 DEF CounterInv, Explained, DifficultyAssumption
  <2>5. /\ cpc' \in [Claimants -> ClaimPCs]
        /\ loaded' \in [Claimants -> Int]
    BY <1>5 DEF Lower, Lowered, CounterInv, ClaimPCs
  <2>6. ASSUME NEW d \in Claimants, cpc'[d] \in {"raise", "lower"}
        PROVE  loaded'[d] \in Explained'
    <3>1. d # c
      BY <1>5, <2>6 DEF Lower, Lowered, CounterInv
    <3>2. cpc[d] = cpc'[d] /\ loaded'[d] = loaded[d]
      BY <1>5, <3>1 DEF Lower, Lowered, CounterInv
    <3> QED
      BY <2>4, <2>6, <3>2 DEF CounterInv
  <2> QED
    BY <2>3, <2>5, <2>6 DEF CounterInv
<1> QED
  BY <1>1, <1>2, <1>3, <1>4, <1>5 DEF Handle

\* A call of validator_win keeps it.
LEMMA CounterCall ==
  ASSUME CounterInv, NEW c \in Claimants, NEW f, CallWin(c, f)
  PROVE  CounterInv'
<1>1. "test" \in ClaimPCs \ {"raise", "lower"}
  BY DEF ClaimPCs
<1> QED
  BY <1>1, CounterKept DEF CallWin, counter

\* Every step keeps it.
LEMMA CounterStep ==
  ASSUME CounterInv, DifficultyAssumption, MiningAssumption, [Next]_vars
  PROVE  CounterInv'
<1>0. "idle" \in ClaimPCs \ {"raise", "lower"}
  BY DEF ClaimPCs
<1>1. CASE UNCHANGED claimVars
  BY <1>1 DEF CounterInv, Explained, claimVars
<1>2. CASE OpenWindow
  BY <1>2 DEF OpenWindow, ResetWin, counter, CounterInv, Explained
<1>3. ASSUME NEW c \in Claimants, OtherClaims(c) PROVE CounterInv'
  BY <1>3, CounterCall DEF OtherClaims
<1>4. ASSUME NEW c \in Claimants, OtherGoesOn(c) PROVE CounterInv'
  BY <1>0, <1>4, CounterKept DEF OtherGoesOn, counter
<1>5. ASSUME NEW c \in Claimants, HandleClaim(c) PROVE CounterInv'
  BY <1>5, CounterHandle DEF HandleClaim
<1>6. CASE SendClaim
  <2>1. CallWin(Miner, nonce # -1)
    BY <1>6 DEF SendClaim
  <2> QED
    BY <2>1, CounterCall DEF MiningAssumption
<1>7. CASE ClaimAnswered
  BY <1>0, <1>7, CounterKept DEF ClaimAnswered, counter, MiningAssumption
<1>8. ASSUME NEW t \in Threads, ThreadStep(t) PROVE UNCHANGED claimVars
  BY <1>8 DEF ThreadStep, FillSlot, HashNonce, TimeUp, WriteNonce, EndThread
<1>9. CASE Announce
  BY <1>1, <1>9 DEF Announce
<1>10. ASSUME MainStep, ~ClaimAnswered PROVE UNCHANGED claimVars
  BY <1>10 DEF MainStep, JoinFill, PollAgain, TakeDetails, JoinThreads, SearchHit,
       SearchNext, SearchTimeUp, SearchEnd, vars
<1>11. CASE UNCHANGED vars
  BY <1>1, <1>11 DEF vars
<1> QED
  BY <1>1, <1>2, <1>3, <1>4, <1>5, <1>6, <1>7, <1>8, <1>9, <1>10, <1>11 DEF Next

\* The counter starts explained.
LEMMA CounterInit == Init => CounterInv
<1> SUFFICES ASSUME Init PROVE CounterInv
  OBVIOUS
<1>1. difficulty = InitialDifficulty /\ wins = 0 /\ losses = 0
  BY DEF Init, DifficultyInit
<1>2. difficulty \in Explained
  BY <1>1, DifficultyAssumption DEF Explained, DifficultyAssumption
<1>3. /\ cpc \in [Claimants -> ClaimPCs]
      /\ loaded \in [Claimants -> Int]
      /\ \A c \in Claimants : cpc[c] = "idle"
  BY DEF Init, DifficultyInit, ClaimPCs
<1> QED
  BY <1>1, <1>2, <1>3 DEF CounterInv

\* However the two statements of "difficulty += 1" interleave in the threads
\* of the metronome, an update that is lost moves the difficulty no further
\* than the claims made.
THEOREM DifficultyStaysExplained == Spec => []DifficultyExplained
<1>1. Init => CounterInv
  BY CounterInit
<1>2. CounterInv /\ [Next]_vars => CounterInv'
  BY CounterStep, DifficultyAssumption, MiningAssumption
<1>3. CounterInv => DifficultyExplained
  BY DEF CounterInv, Explained, DifficultyExplained
<1> QED
  BY <1>1, <1>2, <1>3, PTL DEF Spec

-----------------------------------------------------------------------------
(***************************************************************************)
(* The puzzle.  Before the first win no handler has read more than the     *)
(* first difficulty, so that every write of a lost claim leaves less.      *)
(***************************************************************************)
MarkInv == wins = 0 /\ losses > 0 => difficulty < InitialDifficulty

\* Only the two writes of validator_win move the difficulty.
LEMMA DifficultyMoves ==
  ASSUME [Next]_vars
  PROVE  \/ UNCHANGED <<difficulty, wins, losses>>
         \/ \E c \in Claimants : Raise(c) \/ Lower(c)
<1>1. ASSUME NEW t \in Threads, ThreadStep(t)
      PROVE  UNCHANGED <<difficulty, wins, losses>>
  BY <1>1 DEF ThreadStep, FillSlot, HashNonce, TimeUp, WriteNonce, EndThread, claimVars
<1>2. ASSUME MainStep \/ SendClaim \/ Announce \/ OpenWindow \/ UNCHANGED vars
      PROVE  UNCHANGED <<difficulty, wins, losses>>
  BY <1>2 DEF MainStep, JoinFill, PollAgain, TakeDetails, JoinThreads, SearchHit, SearchNext,
       SearchTimeUp, SearchEnd, ClaimAnswered, SendClaim, CallWin, Announce, OpenWindow,
       ResetWin, vars, claimVars, counter
<1>3. ASSUME NEW c \in Claimants, OtherClaims(c) \/ OtherGoesOn(c)
      PROVE  UNCHANGED <<difficulty, wins, losses>>
  BY <1>3 DEF OtherClaims, OtherGoesOn, CallWin, counter
<1>4. ASSUME NEW c \in Claimants, HandleClaim(c), ~Raise(c), ~Lower(c)
      PROVE  UNCHANGED <<difficulty, wins, losses>>
  BY <1>4 DEF HandleClaim, Handle, TestWin, SetWin, ReadDifficulty, counter
<1> QED BY <1>1, <1>2, <1>3, <1>4 DEF Next

\* A write of a lost claim leaves its mark, however old what it has read is.
LEMMA MarkStep == CounterInv /\ MarkInv /\ [Next]_vars => MarkInv'
<1> SUFFICES ASSUME CounterInv, MarkInv, [Next]_vars PROVE MarkInv'
  OBVIOUS
<1>1. CASE UNCHANGED <<difficulty, wins, losses>>
  BY <1>1 DEF MarkInv
<1>2. ASSUME NEW c \in Claimants, Raise(c) PROVE MarkInv'
  <2>1. wins' = wins + 1 /\ wins \in Nat
    BY <1>2 DEF Raise, CounterInv
  <2> QED BY <2>1 DEF MarkInv
<1>3. ASSUME NEW c \in Claimants, Lower(c) PROVE MarkInv'
  <2>1. difficulty' = loaded[c] - 1 /\ wins' = wins
    BY <1>3 DEF Lower, Lowered
  <2>2. loaded[c] \in (InitialDifficulty - losses)..(InitialDifficulty + wins)
    BY <1>3 DEF Lower, CounterInv, Explained
  <2>3. InitialDifficulty \in Nat /\ wins \in Nat /\ losses \in Nat
    BY DifficultyAssumption DEF CounterInv, DifficultyAssumption
  <2> QED BY <2>1, <2>2, <2>3 DEF MarkInv
<1> QED BY <1>1, <1>2, <1>3, DifficultyMoves

\* How many bits are compared at a difficulty: more from zero up, up to all
\* of them, and none below minus their number.
LEMMA Bits ==
  ASSUME NEW d \in Int, NEW e \in Nat
  PROVE  /\ d \in 0..e => ComparedBits(d) <= ComparedBits(e)
         /\ d \in 0..e /\ d < e /\ e <= HashBits => ComparedBits(d) < ComparedBits(e)
         /\ ComparedBits(d) = 0 => d <= 0
<1>1. HashBits \in Nat \ {0}
  BY DifficultyAssumption DEF DifficultyAssumption
<1> QED BY <1>1 DEF ComparedBits

\* However updates are lost, and below zero too: the puzzle gets harder than
\* the first by wins, or by more losses than the first difficulty, and it
\* compares nothing only after as many losses; before the first win, and
\* before zero, losses leave it easier than the first.
THEOREM PuzzleStaysExplained == Spec => []PuzzleFollowsClaims
<1>1. Init => CounterInv /\ MarkInv
  BY CounterInit DEF Init, DifficultyInit, MarkInv
<1>2. CounterInv /\ [Next]_vars => CounterInv'
  BY CounterStep, DifficultyAssumption, MiningAssumption
<1>3. CounterInv /\ MarkInv => PuzzleFollowsClaims
  <2> SUFFICES ASSUME CounterInv, MarkInv PROVE PuzzleFollowsClaims
    OBVIOUS
  <2> DEFINE bits == ComparedBits(difficulty)
             first == ComparedBits(InitialDifficulty)
  <2>1. /\ InitialDifficulty \in Nat /\ wins \in Nat /\ losses \in Nat
        /\ difficulty \in Int
        /\ InitialDifficulty - losses <= difficulty
        /\ difficulty <= InitialDifficulty + wins
    BY DifficultyAssumption DEF CounterInv, Explained, DifficultyAssumption
  <2>2. bits \in Nat /\ first \in Nat
    BY <2>1, DifficultyAssumption DEF ComparedBits, DifficultyAssumption
  <2>3. /\ difficulty \in 0..InitialDifficulty => bits <= first
        /\ difficulty \in 0..InitialDifficulty /\ difficulty < InitialDifficulty
             /\ InitialDifficulty <= HashBits => bits < first
        /\ bits = 0 => difficulty <= 0
    BY <2>1, Bits
  <2> HIDE DEF bits, first
  <2>4. bits > first => wins > 0 \/ (difficulty < 0 /\ losses > InitialDifficulty)
    BY <2>1, <2>2, <2>3
  <2>5. bits = 0 => losses >= InitialDifficulty
    BY <2>1, <2>3
  <2>6. wins = 0 /\ losses \in 1..InitialDifficulty /\ InitialDifficulty <= HashBits
          => bits < first
    BY <2>1, <2>3 DEF MarkInv
  <2> QED BY <2>4, <2>5, <2>6 DEF PuzzleFollowsClaims, bits, first
<1> QED
  BY <1>1, <1>2, <1>3, MarkStep, PTL DEF Spec

-----------------------------------------------------------------------------
(***************************************************************************)
(* The nonce.  While a round is mined or searched the global nonce is -1   *)
(* or a solution, so is the nonce of a thread that is about to write it,   *)
(* and a solution that was hashed is on its way or written.                *)
(***************************************************************************)
Active == pc \in {"mine", "search", "claim"}

NonceTypes ==
  /\ tpc \in [Threads -> {"fill", "run", "hit", "end", "off"}]
  /\ tnonce \in [Threads -> Nat]
  /\ times \in [Nonces -> Nat]

NonceInv ==
  /\ NonceTypes
  /\ Active /\ nonce # -1 => nonce \in match
  /\ pc = "search" => proof # "pow"
  /\ proof = "pow" => match \subseteq Nonces
  /\ \A t \in Threads : tpc[t] \in {"run", "hit"} => pc = "mine"
  /\ \A t \in Threads : tpc[t] = "hit" => tnonce[t] \in match
  /\ \A n \in Nonces : times[n] > 0 => Active
  /\ proof = "pow" => \A n \in Nonces :
       n \in match /\ times[n] > 0 =>
         nonce # -1 \/ \E t \in Threads : tpc[t] = "hit" /\ tnonce[t] = n

nonceVars == <<pc, proof, tpc, tnonce, times, nonce, match>>

\* The steps of the threads.
LEMMA NonceThread ==
  ASSUME NonceInv, MiningAssumption, NEW t \in Threads, ThreadStep(t)
  PROVE  NonceInv'
<1> USE DEF NonceTypes, Active
<1>0. NumThreads \in Nat
  BY DEF MiningAssumption
<1>1. CASE FillSlot(t)
  BY <1>0, <1>1 DEF FillSlot, Stride, NonceInv, mainVars, roundVars
<1>2. CASE HashNonce(t)
  <2>1. /\ pc = "mine" /\ tpc[t] = "run" /\ tnonce[t] \in Nonces
        /\ UNCHANGED <<pc, proof, nonce, match>>
        /\ times' = [times EXCEPT ![tnonce[t]] = @ + 1]
    BY <1>2 DEF HashNonce, Stride, NonceInv, mainVars, roundVars, Nonces, MiningAssumption
  <2>2. CASE tnonce[t] \in match
    <3>1. tpc' = [tpc EXCEPT ![t] = "hit"] /\ UNCHANGED tnonce
      BY <1>2, <2>2 DEF HashNonce, Stride
    <3> QED
      BY <2>1, <2>2, <3>1 DEF NonceInv
  <2>3. CASE tnonce[t] \notin match
    <3>1. tnonce' = [tnonce EXCEPT ![t] = @ + NumThreads] /\ UNCHANGED tpc
      BY <1>2, <2>3 DEF HashNonce, Stride
    <3>2. NonceTypes'
      BY <1>0, <2>1, <3>1 DEF NonceInv
    <3>3. \A u \in Threads : tpc'[u] = "hit" => u # t /\ tnonce'[u] = tnonce[u]
      BY <2>1, <3>1 DEF NonceInv
    <3>4. \A u \in Threads : tpc[u] = "hit" => u # t /\ tnonce'[u] = tnonce[u]
      BY <2>1, <3>1 DEF NonceInv
    <3>5. \A n \in Nonces : n \in match => times'[n] = times[n]
      BY <2>1, <2>3 DEF NonceInv
    <3> QED
      BY <2>1, <3>1, <3>2, <3>3, <3>4, <3>5 DEF NonceInv
  <2> QED
    BY <2>2, <2>3
<1>3. CASE TimeUp(t)
  BY <1>3 DEF TimeUp, NonceInv, mainVars, roundVars
<1>4. CASE WriteNonce(t)
  <2>1. /\ nonce' = tnonce[t] /\ tnonce[t] \in match /\ tnonce[t] # -1
        /\ tpc' = [tpc EXCEPT ![t] = "end"]
        /\ UNCHANGED <<pc, proof, tnonce, times, match>>
    BY <1>4 DEF WriteNonce, Found, NonceInv, mainVars, roundVars
  <2> QED
    BY <2>1 DEF NonceInv
<1>5. CASE EndThread(t)
  BY <1>5 DEF EndThread, NonceInv, mainVars, roundVars
<1> QED
  BY <1>1, <1>2, <1>3, <1>4, <1>5 DEF ThreadStep

\* The steps of the main thread.
LEMMA NonceMain ==
  ASSUME NonceInv, MiningAssumption, MainStep
  PROVE  NonceInv'
<1> USE DEF NonceTypes, Active
<1>1. CASE JoinFill
  BY <1>1 DEF JoinFill, NonceInv, mainVars, roundVars, Threads
<1>2. CASE PollAgain
  BY <1>2 DEF PollAgain, NonceInv, vars, mainVars, roundVars, threadVars
<1>3. CASE TakeDetails
  <2>1. /\ nonce' = -1 /\ UNCHANGED <<tnonce, times, proof>> /\ pc = "poll"
        /\ \A n \in Nonces : ~(times[n] > 0)
        /\ \A t \in Threads : tpc[t] \notin {"run", "hit"}
    BY <1>3 DEF TakeDetails, StartNonce, NonceInv, mainVars
  <2>2. CASE proof = "pow"
    BY <1>3, <2>1, <2>2 DEF TakeDetails, StartNonce, NonceInv, Puzzle, SortedPuzzle
  <2>3. CASE proof # "pow"
    BY <1>3, <2>1, <2>3 DEF TakeDetails, StartNonce, NonceInv
  <2> QED
    BY <2>2, <2>3
<1>4. CASE JoinThreads
  BY <1>4 DEF JoinThreads, NonceInv, mainVars, roundVars, threadVars
<1>5. CASE SearchHit
  <2>1. /\ pc = "search" /\ proof # "pow" /\ pc' = "claim"
        /\ UNCHANGED <<proof, tpc, tnonce, times, match>>
        /\ \A t \in Threads : tpc[t] \notin {"run", "hit"}
    BY <1>5 DEF SearchHit, NonceInv, mainVars, threadVars, roundVars
  <2>2. nonce' # -1 => nonce' \in match
    BY <1>5 DEF SearchHit, Beside, Solves
  <2> QED
    BY <2>1, <2>2 DEF NonceInv
<1>6. CASE SearchNext
  BY <1>6 DEF SearchNext, NonceInv, mainVars, threadVars, roundVars
<1>7. CASE SearchTimeUp
  BY <1>7 DEF SearchTimeUp, NonceInv, mainVars, threadVars, roundVars
<1>8. CASE SearchEnd
  BY <1>8 DEF SearchEnd, NonceInv, mainVars, threadVars, roundVars
<1>9. CASE ClaimAnswered
  BY <1>9 DEF ClaimAnswered, NonceInv, mainVars, threadVars
<1> QED
  BY <1>1, <1>2, <1>3, <1>4, <1>5, <1>6, <1>7, <1>8, <1>9 DEF MainStep

\* Every step keeps it.
LEMMA NonceStep ==
  ASSUME NonceInv, MiningAssumption, [Next]_vars
  PROVE  NonceInv'
<1>1. CASE UNCHANGED nonceVars
  BY <1>1 DEF NonceInv, NonceTypes, Active, nonceVars
<1>2. CASE SendClaim
  <2>1. /\ pc' = "answer" /\ pc = "claim" /\ UNCHANGED <<tpc, proof, nonce>>
        /\ match' = {} /\ times' = [n \in Nonces |-> 0]
        /\ tnonce' = [t \in Threads |-> t]
    BY <1>2 DEF SendClaim, mainVars
  <2>2. \A t \in Threads : tpc'[t] \notin {"run", "hit"}
    BY <2>1 DEF NonceInv
  <2>3. NonceTypes'
    BY <2>1 DEF NonceInv, NonceTypes, Threads
  <2> QED
    BY <2>1, <2>2, <2>3 DEF NonceInv, Active
<1>3. CASE OpenWindow \/ Announce
  BY <1>1, <1>3 DEF OpenWindow, Announce, nonceVars, threadVars, roundVars
<1>4. ASSUME NEW c \in Claimants, OtherClaims(c) \/ OtherGoesOn(c) \/ HandleClaim(c)
      PROVE  UNCHANGED nonceVars
  BY <1>4 DEF OtherClaims, OtherGoesOn, HandleClaim, nonceVars, mainVars, threadVars,
       roundVars
<1>5. CASE UNCHANGED vars
  BY <1>1, <1>5 DEF vars, nonceVars, mainVars, threadVars, roundVars
<1> QED
  BY <1>1, <1>2, <1>3, <1>4, <1>5, NonceThread, NonceMain DEF Next

\* Init satisfies it.
LEMMA NonceInit == Init /\ MiningAssumption => NonceInv
<1> SUFFICES ASSUME Init, MiningAssumption PROVE NonceInv
  OBVIOUS
<1>1. /\ nonce = -1 /\ match = {} /\ times = [n \in Nonces |-> 0]
      /\ tnonce = [t \in Threads |-> t] /\ pc \in {"poll", "fill"}
      /\ tpc = [t \in Threads |-> IF proof = "pow" THEN "off" ELSE "fill"]
  BY DEF Init
<1>2. NonceTypes
  BY <1>1 DEF NonceTypes, Threads
<1> QED
  BY <1>1, <1>2 DEF NonceInv, Active

\* A claim never carries a nonce of another round, and none that its thread
\* did not find to solve the puzzle.
THEOREM ClaimsSolve == Spec => []ClaimSolves
<1>1. Init => NonceInv
  BY NonceInit, MiningAssumption
<1>2. NonceInv /\ [Next]_vars => NonceInv'
  BY NonceStep, MiningAssumption
<1>3. NonceInv => ClaimSolves
  BY DEF NonceInv, Active, ClaimSolves
<1> QED
  BY <1>1, <1>2, <1>3, PTL DEF Spec

\* What a thread found is claimed, whichever threads run out of time.
THEOREM FoundIsNotLost == Spec => []FoundIsClaimed
<1>1. Init => NonceInv
  BY NonceInit, MiningAssumption
<1>2. NonceInv /\ [Next]_vars => NonceInv'
  BY NonceStep, MiningAssumption
<1>3. NonceInv => FoundIsClaimed
  <2> SUFFICES ASSUME NonceInv, pc = "claim", proof = "pow",
                      NEW n \in match, times[n] > 0
               PROVE  nonce # -1
    BY DEF FoundIsClaimed
  <2>1. n \in Nonces
    BY DEF NonceInv
  <2> QED
    BY <2>1 DEF NonceInv
<1> QED
  BY <1>1, <1>2, <1>3, PTL DEF Spec

-----------------------------------------------------------------------------
(***************************************************************************)
(* The share of a thread: its nonces have its number as remainder, those   *)
(* below the one it is at were hashed once and those above not yet.        *)
(***************************************************************************)
\* What is left of a division is the number less the multiple.
LEMMA Division ==
  ASSUME NEW k \in Nat \ {0}, NEW a \in Nat
  PROVE  a % k = a - k * (a \div k)
BY Z3

\* The remainder of a multiple and a rest.
LEMMA Remainder ==
  ASSUME NEW k \in Nat \ {0}, NEW r \in 0..(k - 1), NEW q \in Nat
  PROVE  (q * k + r) % k = r
BY Z3

\* Remainders are below the divisor, and quotients are natural.
LEMMA InRange ==
  ASSUME NEW k \in Nat \ {0}, NEW a \in Nat
  PROVE  a % k \in 0..(k - 1) /\ (a \div k) \in Nat
<1>1. a % k \in 0..(k - 1)
  BY Z3
<1>2. (a \div k) \in Nat
  BY Z3
<1> QED
  BY <1>1, <1>2

\* Steps in a product.
LEMMA Product ==
  ASSUME NEW k \in Nat, NEW q \in Nat
  PROVE  k * q \in Nat /\ q * k = k * q /\ (q + 1) * k = k * q + k
BY Z3

\* A step as long as there are threads stays in the share of a thread.
LEMMA NextOfShare ==
  ASSUME NEW k \in Nat \ {0}, NEW a \in Nat
  PROVE  (a + k) % k = a % k
<1> DEFINE q == a \div k
           r == a % k
<1>1. q \in Nat /\ r \in 0..(k - 1) /\ r = a - k * q
  BY Division, InRange
<1> HIDE DEF q, r
<1>2. ((q + 1) * k + r) % k = r
  <2>1. q + 1 \in Nat
    BY <1>1
  <2> QED
    BY <1>1, <2>1, Remainder
<1>3. k * q \in Nat /\ (q + 1) * k = k * q + k
  BY <1>1, Product
<1>4. (q + 1) * k + r = a + k
  BY <1>1, <1>3
<1>5. (a + k) % k = r
  BY <1>2, <1>4
<1> QED
  BY <1>5 DEF r

\* The first nonce of a thread is in its share.
LEMMA OwnShare ==
  ASSUME NEW k \in Nat \ {0}, NEW t \in 0..(k - 1)
  PROVE  t % k = t
BY Z3

\* Between two neighbours of a share there is no other of it.
LEMMA NoneBetween ==
  ASSUME NEW k \in Nat \ {0}, NEW a \in Nat, NEW n \in Nat,
         a % k = n % k, a < n
  PROVE  a + k <= n
<1> DEFINE x == a \div k
           y == n \div k
<1>1. x \in Nat /\ y \in Nat /\ a % k = a - k * x /\ n % k = n - k * y
  BY Division, InRange
<1> HIDE DEF x, y
<1>2. k * x \in Nat /\ k * y \in Nat /\ k * x < k * y /\ n - a = k * y - k * x
  BY <1>1, Product
<1>3. x < y
  <2>1. CASE y <= x
    <3>1. k * y <= k * x
      BY <1>1, <2>1, Z3
    <3> QED
      BY <1>2, <3>1
  <2> QED
    BY <1>1, <2>1
<1>4. k * y >= k * (x + 1)
  BY <1>1, <1>3, Z3
<1>5. k * (x + 1) = k * x + k
  BY <1>1, Product
<1> QED
  BY <1>2, <1>4, <1>5

Share(t) ==
  /\ tnonce[t] % NumThreads = t
  /\ \A n \in Nonces : n % NumThreads = t =>
       /\ n < tnonce[t] => times[n] = 1
       /\ n > tnonce[t] => times[n] = 0
       /\ n = tnonce[t] /\ tpc[t] = "run" => times[n] = 0
       /\ times[n] \in {0, 1}

AtStart ==
  /\ \A t \in Threads : tnonce[t] = t
  /\ \A n \in Nonces : times[n] = 0

ShareInv ==
  /\ NonceTypes
  /\ pc \in {"poll", "answer"} => AtStart
  /\ pc = "fill" => \A n \in Nonces : times[n] = 0
  /\ \A t \in Threads : tpc[t] = "fill" => pc = "fill"
  /\ \A t \in Threads : tpc[t] \in {"run", "hit"} => pc = "mine"
  /\ pc = "mine" => \A t \in Threads : Share(t)

shareVars == <<pc, tpc, tnonce, times>>

\* A thread that starts has all of its share before it.
LEMMA ShareAtStart ==
  ASSUME NonceTypes, AtStart, MiningAssumption, NEW t \in Threads
  PROVE  Share(t)
<1>1. NumThreads \in Nat \ {0} /\ t \in 0..(NumThreads - 1)
  BY DEF MiningAssumption, Threads
<1>2. t % NumThreads = t
  BY <1>1, OwnShare
<1>3. ASSUME NEW n \in Nonces, n % NumThreads = t
      PROVE  ~(n < t)
  <2>1. CASE n < t
    <3>1. n \in 0..(NumThreads - 1)
      BY <1>1, <2>1 DEF Nonces, MiningAssumption
    <3>2. n % NumThreads = n
      BY <1>1, <3>1, OwnShare
    <3> QED
      BY <1>1, <1>3, <2>1, <3>2
  <2> QED
    BY <2>1
<1> QED
  BY <1>2, <1>3 DEF Share, AtStart

\* One nonce more of a share.
LEMMA ShareHash ==
  ASSUME ShareInv, MiningAssumption, NEW t \in Threads, HashNonce(t),
         NEW u \in Threads
  PROVE  Share(u)'
<1>0. /\ NumThreads \in Nat \ {0}
      /\ \A n \in Nonces : n \in Nat
      /\ tnonce[t] \in Nonces /\ tnonce[t] \in Nat /\ tnonce[u] \in Nat
      /\ tnonce[t] % NumThreads = t
  BY DEF MiningAssumption, Nonces, HashNonce, ShareInv, NonceTypes, Share
<1>1. Share(t) /\ Share(u) /\ tpc[t] = "run"
  BY DEF HashNonce, Stride, ShareInv
<1>2. times' = [times EXCEPT ![tnonce[t]] = 1]
  <2>1. times[tnonce[t]] = 0
    BY <1>0, <1>1 DEF Share
  <2>2. times' = [times EXCEPT ![tnonce[t]] = times[tnonce[t]] + 1]
    BY DEF HashNonce, Stride
  <2> QED
    BY <2>1, <2>2
<1>3. times \in [Nonces -> Nat] /\ tnonce \in [Threads -> Nat]
  BY DEF ShareInv, NonceTypes
<1>4. CASE u # t
  <2>1. tpc'[u] = tpc[u] /\ tnonce'[u] = tnonce[u]
    BY <1>4 DEF HashNonce, Stride, ShareInv, NonceTypes
  <2>2. \A n \in Nonces : n % NumThreads = u => times'[n] = times[n]
    BY <1>0, <1>2, <1>3, <1>4
  <2> QED
    BY <1>1, <2>1, <2>2 DEF Share
<1>5. CASE u = t /\ tnonce[t] \in match
  <2>1. tpc'[t] = "hit" /\ tnonce'[t] = tnonce[t]
    BY <1>5 DEF HashNonce, Stride, ShareInv, NonceTypes
  <2> QED
    BY <1>0, <1>1, <1>2, <1>3, <1>5, <2>1 DEF Share
<1>6. CASE u = t /\ tnonce[t] \notin match
  <2>1. tpc'[t] = "run" /\ tnonce'[t] = tnonce[t] + NumThreads
    BY <1>1, <1>3, <1>6 DEF HashNonce, Stride
  <2>2. tnonce'[t] % NumThreads = t
    BY <1>0, <2>1, NextOfShare
  <2>3. ASSUME NEW n \in Nonces, n % NumThreads = t
        PROVE  /\ n < tnonce'[t] => times'[n] = 1
               /\ n > tnonce'[t] => times'[n] = 0
               /\ n = tnonce'[t] => times'[n] = 0
    <3>1. n \in Nat /\ (tnonce[t] < n => tnonce[t] + NumThreads <= n)
      BY <1>0, <2>3, NoneBetween
    <3>2. CASE n <= tnonce[t]
      BY <1>0, <1>1, <1>2, <1>3, <2>1, <2>3, <3>1, <3>2 DEF Share
    <3>3. CASE tnonce[t] < n
      <4>1. times[n] = 0 /\ times'[n] = times[n]
        BY <1>0, <1>1, <1>2, <1>3, <2>3, <3>1, <3>3 DEF Share
      <4> QED
        BY <1>0, <2>1, <3>1, <3>3, <4>1
    <3> QED
      BY <1>0, <3>1, <3>2, <3>3
  <2>4. \A n \in Nonces : n % NumThreads = t => times'[n] \in {0, 1}
    BY <1>0, <1>1, <1>2, <1>3 DEF Share
  <2> QED
    BY <1>6, <2>1, <2>2, <2>3, <2>4 DEF Share
<1> QED
  BY <1>4, <1>5, <1>6

\* The steps of a thread keep ShareInv.
LEMMA ShareThread ==
  ASSUME ShareInv, MiningAssumption, NEW t \in Threads, ThreadStep(t)
  PROVE  ShareInv'
<1>1. CASE FillSlot(t)
  <2>1. pc = "fill" /\ pc' = pc /\ UNCHANGED times
    BY <1>1 DEF FillSlot, Stride, ShareInv
  <2>2. NonceTypes'
    BY <1>1 DEF FillSlot, Stride, ShareInv, NonceTypes, MiningAssumption
  <2>3. \A u \in Threads : tpc'[u] \in {tpc[u], "off"}
    BY <1>1 DEF FillSlot, Stride, ShareInv, NonceTypes
  <2> QED
    BY <2>1, <2>2, <2>3 DEF ShareInv
<1>2. CASE HashNonce(t)
  <2>1. pc = "mine" /\ pc' = pc
    BY <1>2 DEF HashNonce, Stride, ShareInv
  <2>2. NonceTypes'
    <3>1. NumThreads \in Nat /\ tnonce[t] \in Nat
      BY DEF ShareInv, NonceTypes, MiningAssumption
    <3>2. times' \in [Nonces -> Nat]
      <4>1. times' = [times EXCEPT ![tnonce[t]] = times[tnonce[t]] + 1]
        BY <1>2 DEF HashNonce, Stride
      <4>2. tnonce[t] \in Nonces
        BY <1>2, <3>1 DEF HashNonce, Stride, Nonces, MiningAssumption
      <4> QED
        BY <4>1, <4>2 DEF ShareInv, NonceTypes
    <3>3. tnonce' \in [Threads -> Nat]
      BY <1>2, <3>1 DEF HashNonce, Stride, ShareInv, NonceTypes
    <3>4. tpc' = tpc \/ tpc' = [tpc EXCEPT ![t] = "hit"]
      BY <1>2 DEF HashNonce, Stride
    <3>5. tpc' \in [Threads -> {"fill", "run", "hit", "end", "off"}]
      BY <3>4 DEF ShareInv, NonceTypes
    <3> QED
      BY <3>2, <3>3, <3>5 DEF NonceTypes
  <2>3. \A u \in Threads : tpc'[u] \in {tpc[u], "hit"}
    BY <1>2 DEF HashNonce, Stride, ShareInv, NonceTypes
  <2>4. \A u \in Threads : Share(u)'
    BY <1>2, ShareHash
  <2> QED
    BY <2>1, <2>2, <2>3, <2>4 DEF ShareInv
<1>3. CASE TimeUp(t) \/ WriteNonce(t) \/ EndThread(t)
  <2>1. /\ UNCHANGED <<pc, tnonce, times>>
        /\ \E l \in {"end", "off"} : tpc' = [tpc EXCEPT ![t] = l]
    BY <1>3 DEF TimeUp, WriteNonce, EndThread
  <2>2. NonceTypes'
    BY <2>1 DEF ShareInv, NonceTypes
  <2>3. \A u \in Threads : tpc'[u] = tpc[u] \/ tpc'[u] \in {"end", "off"}
    BY <2>1 DEF ShareInv, NonceTypes
  <2>4. \A u \in Threads : Share(u) => Share(u)'
    BY <2>1, <2>3 DEF Share
  <2> QED
    BY <2>1, <2>2, <2>3, <2>4 DEF ShareInv, AtStart
<1> QED
  BY <1>1, <1>2, <1>3 DEF ThreadStep

\* Every step of the client keeps ShareInv.
LEMMA ShareStep ==
  ASSUME ShareInv, MiningAssumption, [Next]_vars
  PROVE  ShareInv'
<1>1. CASE UNCHANGED shareVars
  BY <1>1 DEF ShareInv, NonceTypes, AtStart, Share, shareVars
<1>2. CASE TakeDetails
  <2>1. pc = "poll" /\ UNCHANGED <<tnonce, times>> /\ AtStart
    BY <1>2 DEF TakeDetails, StartNonce, ShareInv
  <2>2. NonceTypes' /\ AtStart'
    BY <1>2, <2>1 DEF TakeDetails, StartNonce, ShareInv, NonceTypes, AtStart
  <2>3. CASE proof = "pow"
    <3>1. pc' = "mine" /\ tpc' = [t \in Threads |-> "run"]
      BY <1>2, <2>3 DEF TakeDetails
    <3>2. \A t \in Threads : Share(t)
      BY <2>1, ShareAtStart DEF ShareInv
    <3>3. \A t \in Threads : Share(t)'
      BY <2>1, <3>1, <3>2 DEF Share, AtStart
    <3> QED
      BY <2>2, <3>1, <3>3 DEF ShareInv
  <2>4. CASE proof # "pow"
    BY <1>2, <2>1, <2>2, <2>4 DEF TakeDetails, StartNonce, ShareInv
  <2> QED
    BY <2>3, <2>4
<1>3. CASE JoinFill
  <2>1. /\ pc = "fill" /\ pc' = "poll" /\ UNCHANGED <<tpc, times>>
        /\ tnonce' = [t \in Threads |-> t]
        /\ \A t \in Threads : tpc[t] = "off"
    BY <1>3 DEF JoinFill
  <2>2. NonceTypes' /\ AtStart'
    BY <2>1 DEF ShareInv, NonceTypes, AtStart, Threads
  <2> QED
    BY <2>1, <2>2 DEF ShareInv
<1>4. CASE JoinThreads
  BY <1>4 DEF JoinThreads, threadVars, ShareInv, NonceTypes
<1>5. CASE SearchHit \/ SearchNext \/ SearchTimeUp \/ SearchEnd
  BY <1>5 DEF SearchHit, SearchNext, SearchTimeUp, SearchEnd, threadVars, ShareInv,
       NonceTypes
<1>6. CASE SendClaim
  <2>1. /\ pc = "claim" /\ pc' = "answer" /\ UNCHANGED tpc
        /\ times' = [n \in Nonces |-> 0] /\ tnonce' = [t \in Threads |-> t]
    BY <1>6 DEF SendClaim
  <2>2. NonceTypes' /\ AtStart'
    BY <2>1 DEF ShareInv, NonceTypes, AtStart, Threads
  <2> QED
    BY <2>1, <2>2 DEF ShareInv
<1>7. CASE ClaimAnswered
  BY <1>7 DEF ClaimAnswered, threadVars, ShareInv, NonceTypes, AtStart
<1>8. CASE OpenWindow \/ Announce \/ PollAgain \/ UNCHANGED vars
  BY <1>1, <1>8 DEF OpenWindow, Announce, PollAgain, vars, shareVars, threadVars
<1>9. ASSUME NEW c \in Claimants, OtherClaims(c) \/ OtherGoesOn(c) \/ HandleClaim(c)
      PROVE  UNCHANGED shareVars
  BY <1>9 DEF OtherClaims, OtherGoesOn, HandleClaim, shareVars, threadVars
<1> QED
  BY <1>1, <1>2, <1>3, <1>4, <1>5, <1>6, <1>7, <1>8, <1>9, ShareThread
  DEF Next, MainStep

\* The shares start whole.
LEMMA ShareInit == Init => ShareInv
<1> SUFFICES ASSUME Init PROVE ShareInv
  OBVIOUS
<1>1. /\ times = [n \in Nonces |-> 0] /\ tnonce = [t \in Threads |-> t]
      /\ pc = IF proof = "pow" THEN "poll" ELSE "fill"
      /\ tpc = [t \in Threads |-> IF proof = "pow" THEN "off" ELSE "fill"]
  BY DEF Init
<1>2. NonceTypes /\ AtStart
  BY <1>1 DEF NonceTypes, AtStart, Threads
<1> QED
  BY <1>1, <1>2 DEF ShareInv, AtStart

\* The threads of the proof of work share out the nonces: none is hashed
\* twice and none is left out on the way.
THEOREM NoncesAreShared == Spec => []EachHashedOnce
<1>1. Init => ShareInv
  BY ShareInit
<1>2. ShareInv /\ [Next]_vars => ShareInv'
  BY ShareStep, MiningAssumption
<1>3. ShareInv => EachHashedOnce
  <2> SUFFICES ASSUME ShareInv, pc = "mine", NEW t \in Threads, NEW n \in Nonces,
                      n % NumThreads = t
               PROVE  times[n] <= 1 /\ (n < tnonce[t] => times[n] = 1)
    BY DEF EachHashedOnce
  <2>1. Share(t)
    BY DEF ShareInv
  <2> QED
    BY <2>1 DEF Share
<1> QED
  BY <1>1, <1>2, <1>3, PTL DEF Spec

-----------------------------------------------------------------------------
(***************************************************************************)
(* The table.  A thread has filled the slots of its share up to the nonce  *)
(* it is at, so that all are filled when the threads have ended.           *)
(***************************************************************************)
Filled(t) ==
  /\ tnonce[t] % NumThreads = t
  /\ \A n \in Nonces : n % NumThreads = t /\ n < tnonce[t] => table[n] = n

TableInv ==
  /\ proof \in {"pow", "pom", "pom2"}
  /\ table \in [Slots -> Nonces \cup {NoHash}]
  /\ pc = "fill" =>
       \A t \in Threads :
         /\ Filled(t)
         /\ tpc[t] \in {"fill", "off"}
         /\ tpc[t] = "off" => NumNonces <= tnonce[t]
  /\ pc # "fill" /\ proof = "pom" => \A n \in Nonces : table[n] = n

\* The numbers that are nonces, slots and threads.
LEMMA Ranges ==
  /\ NumThreads \in Nat \ {0} /\ NumNonces \in Nat \ {0} /\ Spare \in Nat
  /\ \A n \in Nonces : n \in Nat /\ n < NumNonces /\ n \in Slots
  /\ \A n \in Nat : n < NumNonces => n \in Nonces
  /\ \A t \in Threads : t \in Nat
<1>1. NumThreads \in Nat \ {0} /\ NumNonces \in Nat \ {0} /\ Spare \in Nat
  BY MiningAssumption
<1> QED BY <1>1 DEF Nonces, Slots, Threads

\* One slot more of a share.
LEMMA FillStep ==
  ASSUME ShareInv, TableInv, NEW t \in Threads, FillSlot(t)
  PROVE  TableInv'
<1>1. /\ pc = "fill" /\ tpc[t] = "fill" /\ UNCHANGED <<pc, proof>>
      /\ NonceTypes /\ tnonce[t] \in Nat /\ Filled(t)
  BY DEF FillSlot, ShareInv, NonceTypes, TableInv, mainVars
<1>2. CASE tnonce[t] < NumNonces
  <2>1. /\ table' = [table EXCEPT ![tnonce[t]] = tnonce[t]]
        /\ tnonce' = [tnonce EXCEPT ![t] = @ + NumThreads]
        /\ UNCHANGED tpc /\ tnonce[t] \in Nonces /\ tnonce[t] \in Slots
    BY <1>1, <1>2, Ranges DEF FillSlot, Stride
  <2>2. table' \in [Slots -> Nonces \cup {NoHash}]
    BY <2>1 DEF TableInv
  <2>3. \A n \in Nonces : table'[n] = IF n = tnonce[t] THEN n ELSE table[n]
    BY <2>1, Ranges DEF TableInv
  <2>4. ASSUME NEW u \in Threads, u # t PROVE Filled(u)'
    <3>1. tnonce'[u] = tnonce[u] /\ Filled(u)
      BY <1>1, <2>1, <2>4 DEF NonceTypes, TableInv
    <3> QED BY <2>3, <3>1 DEF Filled
  <2>5. Filled(t)'
    <3>1. tnonce'[t] = tnonce[t] + NumThreads
      BY <1>1, <2>1 DEF NonceTypes
    <3>2. tnonce'[t] % NumThreads = t
      BY <1>1, <3>1, Ranges, NextOfShare DEF Filled
    <3>3. ASSUME NEW n \in Nonces, n % NumThreads = t, n < tnonce'[t]
          PROVE  table'[n] = n
      <4>1. n \in Nat /\ (tnonce[t] < n => tnonce[t] + NumThreads <= n)
        BY <1>1, <3>3, Ranges, NoneBetween DEF Filled
      <4>2. n < tnonce[t] \/ n = tnonce[t]
        BY <1>1, <3>1, <3>3, <4>1, Ranges
      <4> QED BY <1>1, <2>3, <3>3, <4>2 DEF Filled
    <3> QED BY <3>2, <3>3 DEF Filled
  <2> QED BY <1>1, <2>1, <2>2, <2>4, <2>5 DEF TableInv
<1>3. CASE ~(tnonce[t] < NumNonces)
  <2>1. tpc' = [tpc EXCEPT ![t] = "off"] /\ UNCHANGED <<table, tnonce>>
    BY <1>3 DEF FillSlot
  <2>2. NumNonces <= tnonce[t]
    BY <1>1, <1>3, Ranges
  <2>3. \A u \in Threads : tpc'[u] = IF u = t THEN "off" ELSE tpc[u]
    BY <1>1, <2>1 DEF NonceTypes
  <2> QED BY <1>1, <2>1, <2>2, <2>3 DEF TableInv, Filled
<1> QED BY <1>2, <1>3

\* With all threads off, each nonce was in somebody's share.
LEMMA JoinTable ==
  ASSUME ShareInv, TableInv, JoinFill
  PROVE  TableInv'
<1>1. /\ pc = "fill" /\ pc' = "poll" /\ UNCHANGED proof
      /\ \A t \in Threads : tpc[t] = "off"
  BY DEF JoinFill, mainVars
<1>2. \A n \in Nonces : table[n] = n
  <2> SUFFICES ASSUME NEW n \in Nonces PROVE table[n] = n
    OBVIOUS
  <2> DEFINE t == n % NumThreads
  <2>1. n \in Nat /\ t \in Threads
    BY Ranges, InRange DEF Threads
  <2> HIDE DEF t
  <2>2. Filled(t) /\ NumNonces <= tnonce[t] /\ tnonce[t] \in Nat
    BY <1>1, <2>1 DEF TableInv, ShareInv, NonceTypes
  <2>3. n < tnonce[t]
    BY <2>1, <2>2, Ranges
  <2> QED BY <2>2, <2>3 DEF Filled, t
<1>3. table' \in [Slots -> Nonces \cup {NoHash}]
  <2>1. ASSUME NEW s \in Slots, ~(s < Spare) PROVE s - Spare \in Slots
    BY <2>1, Ranges DEF Slots
  <2> QED BY <2>1 DEF JoinFill, TableInv
<1>4. proof = "pom" => table' = table
  BY DEF JoinFill
<1> QED BY <1>1, <1>2, <1>3, <1>4 DEF TableInv

\* Every step keeps it.
LEMMA TableStep == ShareInv /\ TableInv /\ [Next]_vars => TableInv'
<1> SUFFICES ASSUME ShareInv, TableInv, [Next]_vars PROVE TableInv'
  OBVIOUS
<1>1. CASE UNCHANGED <<proof, table>> /\ pc # "fill" /\ pc' # "fill"
  BY <1>1 DEF TableInv
<1>2. CASE UNCHANGED <<proof, table, pc, tpc, tnonce>>
  BY <1>2 DEF TableInv, Filled
<1>3. ASSUME NEW t \in Threads, ThreadStep(t), ~FillSlot(t) PROVE TableInv'
  <2>1. UNCHANGED <<proof, table, pc>> /\ tpc[t] \in {"run", "hit", "end"}
    BY <1>3 DEF ThreadStep, HashNonce, TimeUp, WriteNonce, EndThread, mainVars
  <2>2. pc # "fill"
    BY <2>1 DEF TableInv
  <2> QED BY <1>1, <2>1, <2>2
<1>4. ASSUME OpenWindow \/ Announce \/ PollAgain \/ UNCHANGED vars
      PROVE  UNCHANGED <<proof, table, pc, tpc, tnonce>>
  BY <1>4 DEF OpenWindow, Announce, PollAgain, vars, mainVars, threadVars
<1>5. ASSUME NEW c \in Claimants, OtherClaims(c) \/ OtherGoesOn(c) \/ HandleClaim(c)
      PROVE  UNCHANGED <<proof, table, pc, tpc, tnonce>>
  BY <1>5 DEF OtherClaims, OtherGoesOn, HandleClaim, mainVars, threadVars
<1>6. CASE TakeDetails \/ JoinThreads \/ SearchHit \/ SearchNext \/ SearchTimeUp
           \/ SearchEnd \/ ClaimAnswered \/ SendClaim
  BY <1>1, <1>6 DEF TakeDetails, JoinThreads, SearchHit, SearchNext, SearchTimeUp,
       SearchEnd, ClaimAnswered, SendClaim, mainVars
<1> QED BY <1>2, <1>3, <1>4, <1>5, <1>6, FillStep, JoinTable DEF Next, ThreadStep, MainStep

-----------------------------------------------------------------------------
(***************************************************************************)
(* The searches.                                                           *)
(***************************************************************************)
LastSlot == NumNonces + Spare - 1

\* The solutions are where the search has not looked yet; those of pom2 are
\* together in the table, on the side where the search looks for them.
StillAhead ==
  /\ low \in Nat /\ high \in Int /\ high <= LastSlot
  /\ proof = "pom" =>
       high = LastSlot /\ match \subseteq Nonces /\ \A n \in match : low <= n
  /\ proof = "pom2" =>
       /\ match \subseteq low..high
       /\ below \in Int
       /\ \A s \in Slots, n \in match : s \notin match => (s < below <=> s < n)

SearchInv ==
  /\ pc \notin {"search", "claim"} => low = 0 /\ high = LastSlot
  /\ pc = "search" => StillAhead /\ proof # "pow"
  /\ pc = "mine" => proof = "pow"
  /\ SearchHits

\* A puzzle: its solutions in a sorted table are neighbours.
LEMMA PuzzleAhead ==
  ASSUME TableInv, SearchInv, TakeDetails, proof # "pow"
  PROVE  StillAhead'
<1> USE Ranges
<1>1. low' = 0 /\ high' = LastSlot /\ LastSlot \in Nat /\ UNCHANGED proof
  BY DEF TakeDetails, SearchInv, search, mainVars, LastSlot
<1>2. CASE proof = "pom"
  <2>1. match' \subseteq Nonces
    BY <1>2 DEF TakeDetails, Puzzle, SortedPuzzle
  <2> QED BY <1>1, <1>2, <2>1 DEF StillAhead
<1>3. CASE proof = "pom2"
  <2>1. PICK first \in Spare..(NumNonces + Spare), last \in Slots :
          /\ first <= last + 1
          /\ match' = IF ComparedBits(difficulty) = 0 THEN Slots ELSE first..last
          /\ below' \in first..(last + 1)
    BY <1>3 DEF TakeDetails, Puzzle, SortedPuzzle
  <2>2. first \in Nat /\ last \in Nat /\ last <= LastSlot /\ Slots = 0..LastSlot
    BY <2>1 DEF Slots, LastSlot
  <2>3. match' \subseteq 0..LastSlot
    BY <1>1, <2>1, <2>2
  <2>4. ASSUME NEW s \in Slots, NEW n \in match', s \notin match'
        PROVE  s < below' <=> s < n
    <3>1. match' = first..last
      BY <2>1, <2>4
    <3> QED BY <2>1, <2>2, <2>4, <3>1
  <2> QED BY <1>1, <1>3, <2>1, <2>2, <2>3, <2>4 DEF StillAhead
<1> QED BY <1>2, <1>3 DEF TableInv

\* The slot a search looks at.
LEMMA ProbeInTable ==
  ASSUME StillAhead, low <= high
  PROVE  /\ low \in Slots /\ mid \in Slots
         /\ low <= mid /\ mid <= high
<1>1. low \in Nat /\ high \in Nat /\ high <= LastSlot
  BY DEF StillAhead
<1>2. mid \in Nat /\ low <= mid /\ mid <= high
  BY <1>1, Z3 DEF mid
<1> QED BY <1>1, <1>2, Ranges DEF Slots, LastSlot

\* A search leaves no solution behind.
LEMMA NextAhead ==
  ASSUME TableInv, SearchInv, SearchNext
  PROVE  StillAhead'
<1>1. /\ pc = "search" /\ low <= high /\ ~Solves(Probe) /\ StillAhead
      /\ UNCHANGED <<proof, match, below>>
  BY DEF SearchNext, SearchInv, mainVars, roundVars
<1>2. low \in Slots /\ mid \in Slots /\ low <= mid /\ mid <= high /\ LastSlot \in Nat
      /\ low \in Nat /\ high \in Int /\ mid \in Nat /\ high <= LastSlot
  <2>1. Slots = 0..LastSlot /\ LastSlot \in Nat
    BY Ranges DEF Slots, LastSlot
  <2> QED BY <1>1, <2>1, ProbeInTable DEF StillAhead
<1>3. CASE proof = "pom"
  <2>1. low' = low + 1 /\ UNCHANGED high
    BY <1>3 DEF SearchNext, ToTheLeft, Probe
  <2>2. low \notin match
    <3> SUFFICES ASSUME low \in match PROVE FALSE
      OBVIOUS
    <3>1. table[low] = low /\ low # NoHash
      BY <1>1, <1>2, <1>3 DEF TableInv, StillAhead, NoHash
    <3> QED BY <1>1, <1>3, <3>1 DEF Solves, Probe
  <2>3. \A n \in match : n \in Nat /\ low + 1 <= n
    BY <1>1, <1>2, <1>3, <2>2, Ranges DEF StillAhead
  <2> QED BY <1>1, <1>2, <1>3, <2>1, <2>3 DEF StillAhead
<1>4. CASE proof = "pom2"
  <2>1. mid \notin match
    BY <1>1, <1>4 DEF Solves, Probe
  <2>2. \A n \in match : n \in Int /\ low <= n /\ n <= high /\ (mid < below <=> mid < n) /\ n # mid
    BY <1>1, <1>2, <1>4, <2>1 DEF StillAhead
  <2>3. below \in Int
    BY <1>1, <1>4 DEF StillAhead
  <2>4. CASE mid < below
    <3>1. low' = mid + 1 /\ UNCHANGED high
      BY <1>4, <2>4 DEF SearchNext, ToTheLeft, Probe
    <3>2. match \subseteq (mid + 1)..high
      BY <1>2, <2>2, <2>4
    <3> QED BY <1>1, <1>2, <1>4, <3>1, <3>2 DEF StillAhead
  <2>5. CASE ~(mid < below)
    <3>1. high' = mid - 1 /\ UNCHANGED low
      BY <1>4, <2>5 DEF SearchNext, ToTheLeft, Probe
    <3>2. match \subseteq low..(mid - 1)
      BY <1>2, <2>2, <2>5
    <3>3. mid - 1 \in Int /\ mid - 1 <= LastSlot
      BY <1>2
    <3> QED BY <1>1, <1>2, <1>4, <3>1, <3>2, <3>3 DEF StillAhead
  <2> QED BY <2>4, <2>5
<1> QED BY <1>1, <1>3, <1>4 DEF TableInv, SearchInv

\* Every step keeps the searches on their way.
LEMMA SearchStep == TableInv /\ SearchInv /\ [Next]_vars => SearchInv'
<1> SUFFICES ASSUME TableInv, SearchInv, [Next]_vars PROVE SearchInv'
  OBVIOUS
<1>1. CASE UNCHANGED <<pc, proof, low, high, match, below, late>>
  BY <1>1 DEF SearchInv, StillAhead, SearchHits
<1>2. CASE OpenWindow \/ Announce \/ PollAgain \/ UNCHANGED vars
  BY <1>1, <1>2 DEF OpenWindow, Announce, PollAgain, vars, mainVars, roundVars, search
<1>3. ASSUME NEW c \in Claimants, OtherClaims(c) \/ OtherGoesOn(c) \/ HandleClaim(c)
      PROVE  UNCHANGED <<pc, proof, low, high, match, below, late>>
  BY <1>3 DEF OtherClaims, OtherGoesOn, HandleClaim, mainVars, roundVars, search
<1>4. ASSUME NEW t \in Threads, ThreadStep(t)
      PROVE  /\ UNCHANGED <<pc, proof, low, high, match, below>>
             /\ late' = late \/ late' = TRUE
  BY <1>4 DEF ThreadStep, FillSlot, HashNonce, TimeUp, WriteNonce, EndThread, mainVars,
       roundVars, search
<1>5. ASSUME UNCHANGED <<pc, proof, low, high, match, below>>, late' = late \/ late' = TRUE
      PROVE  SearchInv'
  BY <1>5 DEF SearchInv, StillAhead, SearchHits
<1>6. CASE JoinFill
  BY <1>6 DEF JoinFill, SearchInv, SearchHits, search
<1>7. CASE TakeDetails
  <2>1. CASE proof = "pow"
    BY <1>7, <2>1 DEF TakeDetails, SearchInv, SearchHits, search, mainVars
  <2>2. CASE proof # "pow"
    <3>1. pc' = "search" /\ UNCHANGED proof
      BY <1>7, <2>2 DEF TakeDetails, mainVars
    <3> QED BY <1>7, <2>2, <3>1, PuzzleAhead DEF SearchInv, SearchHits
  <2> QED BY <2>1, <2>2
<1>8. CASE JoinThreads
  BY <1>8 DEF JoinThreads, SearchInv, SearchHits, mainVars
<1>9. CASE SearchHit
  BY <1>9 DEF SearchHit, SearchInv, SearchHits, search, mainVars
<1>10. CASE SearchNext
  BY <1>10, NextAhead DEF SearchNext, SearchInv, SearchHits, mainVars
<1>11. CASE SearchTimeUp
  BY <1>11 DEF SearchTimeUp, SearchInv, SearchHits
<1>12. CASE SearchEnd
  <2>1. /\ pc' = "claim" /\ pc = "search" /\ low > high /\ StillAhead /\ proof # "pow"
        /\ UNCHANGED match
    BY <1>12 DEF SearchEnd, SearchInv, roundVars
  <2>2. match = {}
    <3>1. low \in Nat /\ high \in Int /\ \A n \in Nonces : n \in Nat /\ n <= LastSlot
      BY <2>1, Ranges DEF StillAhead, LastSlot
    <3> QED BY <2>1, <3>1 DEF StillAhead, TableInv
  <2> QED BY <2>1, <2>2 DEF SearchInv, SearchHits
<1>13. CASE SendClaim
  BY <1>13 DEF SendClaim, SearchInv, SearchHits, LastSlot
<1>14. CASE ClaimAnswered
  BY <1>14 DEF ClaimAnswered, SearchInv, SearchHits, search
<1> QED
  BY <1>1, <1>2, <1>3, <1>4, <1>5, <1>6, <1>7, <1>8, <1>9, <1>10, <1>11, <1>12, <1>13, <1>14
     DEF Next, MainStep

\* A search that has the time hits when the table has a solution, the one by
\* halves as well as the one that goes through all slots.
THEOREM SearchesHit == Spec => []SearchHits
<1>1. Init => ShareInv /\ TableInv /\ SearchInv
  <2> SUFFICES ASSUME Init PROVE ShareInv /\ TableInv /\ SearchInv
    OBVIOUS
  <2>1. \A t \in Threads : tnonce[t] = t /\ t % NumThreads = t /\ t \in Nat
    BY Ranges, OwnShare DEF Init, Threads
  <2>2. proof \in {"pow", "pom", "pom2"}
    BY MiningAssumption DEF Init
  <2>3. ASSUME NEW t \in Threads, NEW n \in Nonces, n % NumThreads = t
        PROVE  ~(n < t)
    <3> SUFFICES ASSUME n < t PROVE FALSE
      OBVIOUS
    <3>1. n \in 0..(NumThreads - 1)
      BY Ranges DEF Threads
    <3>2. n % NumThreads = n
      BY <3>1, Ranges, OwnShare
    <3> QED BY <2>3, <3>2, Ranges
  <2>4. \A t \in Threads : Filled(t)
    BY <2>1, <2>3 DEF Filled
  <2>5. /\ table \in [Slots -> Nonces \cup {NoHash}] /\ pc \in {"poll", "fill"}
        /\ pc = "fill" => \A t \in Threads : tpc[t] = "fill"
        /\ pc # "fill" => proof = "pow"
        /\ low = 0 /\ high = LastSlot
    BY DEF Init, LastSlot
  <2> QED BY <2>2, <2>4, <2>5, ShareInit DEF TableInv, SearchInv, SearchHits
<1>2. ShareInv /\ [Next]_vars => ShareInv'
  BY ShareStep, MiningAssumption
<1>3. SearchInv => SearchHits
  BY DEF SearchInv
<1> QED
  BY <1>1, <1>2, <1>3, TableStep, SearchStep, PTL DEF Spec

=============================================================================
