----------------------------- MODULE Validator ------------------------------
(***************************************************************************)
(* The loop of a proof-of-work validator, connect_to_metronome in          *)
(* src/dsc_py/validator.py, with the metronome and the blockchain it talks *)
(* to.  The calls to the pool that a winner makes before and after its     *)
(* block are not steps here: the pool is a component of its own (Pool).    *)
(***************************************************************************)
EXTENDS Metronome

CONSTANT
  Crashing  \* winners that may end before their block: validator2.py does,
            \* with AttributeError, when the pool gave it a transaction

ASSUME CrashingAssumption == Crashing \subseteq Validators

VARIABLE previous_block_ID  \* the round each validator worked on last

vars == <<mvars, previous_block_ID>>

TypeOK ==
  /\ MetronomeTypeOK
  /\ previous_block_ID \in [Validators -> Int]

Init ==
  /\ MetronomeInit
  /\ previous_block_ID = [v \in Validators |-> -1]

\* stub.get_details, first half.
AskDetails(v) == GetHash(v) /\ UNCHANGED previous_block_ID

\* while previous_block_ID == metronome_response.blockID: ask again
TakeDetails(v) ==
  /\ GetID(v, previous_block_ID[v])
  /\ UNCHANGED previous_block_ID

\* What the mining threads leave behind: a nonce, or -1 when time ran out.
Nonces == {-1, 1}

\* After every claim, granted or not: previous_block_ID = blockID
FinishRound(v) ==
  previous_block_ID' = [previous_block_ID EXCEPT ![v] = details[v].blockID]

\* stub.validator_win
ClaimLost(v) ==
  /\ \E nonce \in Nonces : LoseClaim(v, nonce)
  /\ FinishRound(v)

ClaimPassed(v) ==
  /\ \E nonce \in Nonces : PassClaim(v, nonce)
  /\ UNCHANGED previous_block_ID

ClaimGranted(v) ==
  /\ GrantClaim(v)
  /\ FinishRound(v)

\* stub.block_creation_validator
SendBlock(v) == FixID(v) /\ UNCHANGED previous_block_ID

BlockAppended(v) == AppendBlock(v) /\ UNCHANGED previous_block_ID

Crash(v) ==
  /\ pc[v] = "won"
  /\ v \in Crashing
  /\ Goto(v, "dead")
  /\ UNCHANGED <<block_chain, validator_win, main, expired, details, newID,
                 wins, torn, previous_block_ID>>

Main == MainStep /\ UNCHANGED previous_block_ID
Timer == Expire /\ UNCHANGED previous_block_ID

\* A call waits for a thread of the metronome's pool; the other steps do not.
CallStep(v) == AskDetails(v) \/ ClaimLost(v) \/ ClaimPassed(v) \/ SendBlock(v)
LocalStep(v) == TakeDetails(v) \/ ClaimGranted(v) \/ BlockAppended(v)

Next ==
  \/ Main
  \/ Timer
  \/ \E v \in Validators : CallStep(v) \/ LocalStep(v) \/ Crash(v)

Spec == Init /\ [][Next]_vars

Fairness ==
  /\ WF_vars(Main)
  /\ WF_vars(Timer)
  /\ \A v \in Validators : SF_vars(CallStep(v)) /\ WF_vars(LocalStep(v))

FairSpec == Spec /\ Fairness

-----------------------------------------------------------------------------
\* No identifier is skipped: every block but the genesis block follows the
\* identifier of a block that was there before it.
NoGap ==
  \A k \in 2..Len(block_chain) :
    \E j \in 1..(k - 1) : block_chain[j].blockID = block_chain[k].blockID - 1

\* The rounds are announced in order, none twice and none skipped, although
\* the main thread announces whatever block happens to be the last one.
RoundsInOrder ==
  \A i \in DOMAIN previous_blockIDs : previous_blockIDs[i] = i - 1

\* At most one claim per thread of the pool is granted in a window: claims
\* that all passed the check before the first of them set validator_win.
WinnersBounded == wins <= MetronomeWorkers

\* The metronome makes at most one block of an identifier.
MetronomeIDsDistinct ==
  \A j, k \in DOMAIN block_chain :
    /\ block_chain[j].maker = "metronome"
    /\ block_chain[k].maker = "metronome"
    /\ block_chain[j].blockID = block_chain[k].blockID
    => j = k

\* The hash announced is the one of the block whose identifier is announced,
\* unless a block was appended between the two reads.
HashMatchesID ==
  mpc = "wait" /\ ~torn
    => block_chain[previous_hash_value].blockID = previous_blockID

\* A block names as its predecessor an earlier block with a smaller
\* identifier, or none.
LinksBackwards ==
  \A k \in 2..Len(block_chain) :
    LET h == block_chain[k].previous_block_hash
    IN  h # NoHash =>
          /\ h \in 1..(k - 1)
          /\ block_chain[h].blockID < block_chain[k].blockID

\* The servers and the validators implement the abstract ledger.
Ledger == INSTANCE RoundLedger WITH
            rounds <- previous_blockID + 1,
            ids <- IDs

ImplementsLedger == Ledger!Spec
=============================================================================
