----------------------------- MODULE Metronome ------------------------------
(***************************************************************************)
(* The metronome server, src/dsc_py/metronome_server.py: the main thread   *)
(* that opens a round every six seconds, and the handlers that serve the   *)
(* validators in MetronomeWorkers threads.  Both share the module's global *)
(* variables without a lock.                                               *)
(*                                                                         *)
(* A validator has one call outstanding, so a handler is identified with   *)
(* the validator it serves: pc[v] is the place of v in its loop            *)
(* (Validator) or in the handler, and details[v] is the reply of           *)
(* get_details, which the loop then uses as its result_hash and blockID.   *)
(* Time is whether six seconds passed since "timer" was set.  The          *)
(* difficulty, which only changes how soon a nonce is found, is left out:  *)
(* finding one is a choice of Validator.                                   *)
(***************************************************************************)
EXTENDS Blockchain, FiniteSets

CONSTANTS
  Validators,
  MetronomeWorkers,  \* ThreadPoolExecutor(max_workers=2)
  MaxBlocks          \* bound: the main loop ends with this many blocks

ASSUME MetronomeAssumption ==
  /\ MetronomeWorkers \in Nat \ {0}
  /\ MaxBlocks \in Nat
  /\ Validators \cap {"genesis", "metronome"} = {}

VARIABLES
  validator_win,        \* 1 when somebody won the current window
  previous_blockID,     \* the identifier announced by get_details
  previous_blockIDs,    \* all identifiers announced so far
  previous_hash_value,  \* the hash announced by get_details
  expired,              \* six seconds passed since timer was set
  mpc,                  \* where the main thread is
  reply,                \* the reply of metronome_blockHash it works on
  pc,                   \* where each validator is
  details,              \* the reply of get_details to each validator
  newID,                \* the identifier block_creation_validator decided on
  wins,                 \* history: claims granted since validator_win was reset
  torn                  \* history: a block came between the reads of reply

main == <<previous_blockID, previous_blockIDs, previous_hash_value, mpc, reply>>
handlers == <<pc, details, newID>>
mvars == <<block_chain, validator_win, previous_blockID, previous_blockIDs,
           previous_hash_value, expired, mpc, reply, pc, details, newID,
           wins, torn>>

MainPCs == {"reset", "hash", "id", "setID", "setIDs", "setHash", "wait", "create"}
HandlerPCs == {"details", "set", "sleep", "append"}
LoopPCs == {"poll", "mine", "won", "dead"}
PCs == HandlerPCs \cup LoopPCs
Busy == {v \in Validators : pc[v] \in HandlerPCs}

\* A call starts when a thread of the pool is free.
WorkerFree == Cardinality(Busy) < MetronomeWorkers

BlockRecords ==
  [blockID : Nat, previous_block_hash : Nat,
   maker : Validators \cup {"genesis", "metronome"}, transactions : {<<>>}]

MetronomeTypeOK ==
  /\ block_chain \in Seq(BlockRecords)
  /\ validator_win \in {0, 1}
  /\ previous_blockID \in Int
  /\ previous_blockIDs \in Seq(Nat)
  /\ previous_hash_value \in Nat
  /\ expired \in BOOLEAN
  /\ mpc \in MainPCs
  /\ reply \in [hash : Nat, blockID : Nat]
  /\ pc \in [Validators -> PCs]
  /\ details \in [Validators -> [hash : Nat, blockID : Int]]
  /\ newID \in [Validators -> Nat]
  /\ wins \in Nat
  /\ torn \in BOOLEAN

NoReply == [hash |-> NoHash, blockID |-> 0]
NoDetails == [hash |-> NoHash, blockID |-> -1]

MetronomeInit ==
  /\ block_chain = <<GenesisBlock>>
  /\ validator_win = 0
  /\ previous_blockID = -1
  /\ previous_blockIDs = <<>>
  /\ previous_hash_value = NoHash
  /\ expired = FALSE
  /\ mpc = "reset"
  /\ reply = NoReply
  /\ pc = [v \in Validators |-> "poll"]
  /\ details = [v \in Validators |-> NoDetails]
  /\ newID = [v \in Validators |-> 0]
  /\ wins = 0
  /\ torn = FALSE

Goto(v, l) == pc' = [pc EXCEPT ![v] = l]

\* Back to the top of the loop: what it knew of the last round is gone.
Restart(v) ==
  /\ Goto(v, "poll")
  /\ details' = [details EXCEPT ![v] = NoDetails]
  /\ newID' = [newID EXCEPT ![v] = 0]

-----------------------------------------------------------------------------
(* The main thread: client, request_block_chain, send_request_to_block.    *)

\* timer = datetime.now(); validator_win = 0.  One step for both: no handler
\* reads the two variables.
OpenWindow ==
  /\ mpc = "reset"
  /\ validator_win' = 0
  /\ expired' = FALSE
  /\ wins' = 0
  /\ torn' = FALSE
  /\ mpc' = "hash"
  /\ UNCHANGED <<block_chain, previous_blockID, previous_blockIDs,
                 previous_hash_value, reply, handlers>>

\* metronome_blockHash reads the last block for its hash, ...
ReadHash ==
  /\ mpc = "hash"
  /\ reply' = [reply EXCEPT !.hash = LastHash]
  /\ torn' = FALSE
  /\ mpc' = "id"
  /\ UNCHANGED <<block_chain, validator_win, previous_blockID,
                 previous_blockIDs, previous_hash_value, expired, handlers,
                 wins>>

\* Slip: the reply is used without the while loop.
ReadIDOnce ==
  /\ mpc = "id"
  /\ reply' = [reply EXCEPT !.blockID = LastID]
  /\ mpc' = "setID"
  /\ UNCHANGED <<block_chain, validator_win, previous_blockID,
                 previous_blockIDs, previous_hash_value, expired, handlers,
                 wins, torn>>

\* ... and again for its identifier.  The main thread asks again as long as
\* it has announced that identifier before.
ReadID ==
  /\ mpc = "id"
  /\ reply' = [reply EXCEPT !.blockID = LastID]
  /\ mpc' = IF LastID \in Range(previous_blockIDs) THEN "hash" ELSE "setID"
  /\ UNCHANGED <<block_chain, validator_win, previous_blockID,
                 previous_blockIDs, previous_hash_value, expired, handlers,
                 wins, torn>>

SetPreviousID ==
  /\ mpc = "setID"
  /\ previous_blockID' = reply.blockID
  /\ mpc' = "setIDs"
  /\ UNCHANGED <<block_chain, validator_win, previous_blockIDs,
                 previous_hash_value, expired, reply, handlers, wins, torn>>

AppendPreviousID ==
  /\ mpc = "setIDs"
  /\ previous_blockIDs' = Append(previous_blockIDs, previous_blockID)
  /\ mpc' = "setHash"
  /\ UNCHANGED <<block_chain, validator_win, previous_blockID,
                 previous_hash_value, expired, reply, handlers, wins, torn>>

\* Slip: the hash comes from a second request.
SetHashAsked ==
  /\ mpc = "setHash"
  /\ previous_hash_value' = LastHash
  /\ reply' = NoReply
  /\ mpc' = "wait"
  /\ UNCHANGED <<block_chain, validator_win, previous_blockID,
                 previous_blockIDs, expired, handlers, wins, torn>>

SetPreviousHash ==
  /\ mpc = "setHash"
  /\ previous_hash_value' = reply.hash
  /\ reply' = NoReply
  /\ mpc' = "wait"
  /\ UNCHANGED <<block_chain, validator_win, previous_blockID,
                 previous_blockIDs, expired, handlers, wins, torn>>

\* Six seconds passed: the main loop notices, and the handlers that slept
\* for the rest of them wake up.
Expire ==
  /\ ~expired
  /\ expired' = TRUE
  /\ pc' = [v \in Validators |-> IF pc[v] = "sleep" THEN "append" ELSE pc[v]]
  /\ UNCHANGED <<block_chain, validator_win, main, details, newID, wins, torn>>

\* Slip: the condition inverted.
CheckWinInverted ==
  /\ mpc = "wait"
  /\ expired
  /\ Len(block_chain) < MaxBlocks
  /\ mpc' = IF validator_win # 0 THEN "create" ELSE "reset"
  /\ UNCHANGED <<block_chain, validator_win, previous_blockID,
                 previous_blockIDs, previous_hash_value, expired, reply,
                 handlers, wins, torn>>

\* if validator_win == 0 of send_request_to_block
CheckWin ==
  /\ mpc = "wait"
  /\ expired
  /\ Len(block_chain) < MaxBlocks
  /\ mpc' = IF validator_win = 0 THEN "create" ELSE "reset"
  /\ UNCHANGED <<block_chain, validator_win, previous_blockID,
                 previous_blockIDs, previous_hash_value, expired, reply,
                 handlers, wins, torn>>

\* Slip: no new round after the block.
CreateBlockAgain ==
  /\ mpc = "create"
  /\ block_creation(previous_blockID + 1, previous_hash_value, "metronome",
                    <<"transaction">>)
  /\ mpc' = "wait"
  /\ UNCHANGED <<validator_win, previous_blockID, previous_blockIDs,
                 previous_hash_value, expired, reply, handlers, wins, torn>>

\* The block of a round nobody won, with a transaction that is made up.
CreateBlock ==
  /\ mpc = "create"
  /\ block_creation(previous_blockID + 1, previous_hash_value, "metronome",
                    <<"transaction">>)
  /\ mpc' = "reset"
  /\ UNCHANGED <<validator_win, previous_blockID, previous_blockIDs,
                 previous_hash_value, expired, reply, handlers, wins, torn>>

-----------------------------------------------------------------------------
(* The handlers.                                                           *)

\* get_details reads previous_hash_value first, ...
GetHash(v) ==
  /\ pc[v] = "poll"
  /\ WorkerFree
  /\ details' = [details EXCEPT ![v].hash = previous_hash_value]
  /\ Goto(v, "details")
  /\ UNCHANGED <<block_chain, validator_win, main, expired, newID, wins, torn>>

\* ... and previous_blockID last.  The validator asks again for a round it
\* has worked on.
GetID(v, worked) ==
  /\ pc[v] = "details"
  /\ IF previous_blockID = worked
       THEN Restart(v)
       ELSE /\ details' = [details EXCEPT ![v].blockID = previous_blockID]
            /\ Goto(v, "mine")
            /\ UNCHANGED newID
  /\ UNCHANGED <<block_chain, validator_win, main, expired, wins, torn>>

\* if request.nonce != -1 and validator_win == 0, here false: no win
LoseClaim(v, nonce) ==
  /\ pc[v] = "mine"
  /\ WorkerFree
  /\ nonce = -1 \/ validator_win # 0
  /\ Restart(v)
  /\ UNCHANGED <<block_chain, validator_win, main, expired, wins, torn>>

\* Slip: the claim is granted without looking at validator_win.
PassAnyClaim(v, nonce) ==
  /\ pc[v] = "mine"
  /\ WorkerFree
  /\ nonce # -1
  /\ Goto(v, "set")
  /\ UNCHANGED <<block_chain, validator_win, main, expired, details, newID,
                 wins, torn>>

PassClaim(v, nonce) ==
  /\ pc[v] = "mine"
  /\ WorkerFree
  /\ nonce # -1
  /\ validator_win = 0
  /\ Goto(v, "set")
  /\ UNCHANGED <<block_chain, validator_win, main, expired, details, newID,
                 wins, torn>>

\* validator_win = 1
GrantClaim(v) ==
  /\ pc[v] = "set"
  /\ validator_win' = 1
  /\ wins' = wins + 1
  /\ Goto(v, "won")
  /\ UNCHANGED <<block_chain, main, expired, details, newID, torn>>

\* Slip: the identifier after next, whether the next one was used or not.
SkipID(id) == id + 1

\* if request.header.blockID in previous_blockIDs: one more
NextFreeID(id) == IF id \in Range(previous_blockIDs) THEN id + 1 ELSE id

\* block_creation_validator: fixes the identifier and sleeps until the timer
\* expires.  The two reads are one step: an identifier once announced stays
\* announced, and a sleeper is woken by the timer it would have found expired.
FixID(v) ==
  /\ pc[v] = "won"
  /\ WorkerFree
  /\ newID' = [newID EXCEPT ![v] = NextFreeID(details[v].blockID + 1)]
  /\ Goto(v, IF expired THEN "append" ELSE "sleep")
  /\ UNCHANGED <<block_chain, validator_win, main, expired, details, wins,
                 torn>>

\* Slip: the predecessor is the block announced now, not the request's.
AppendToLatest(v) ==
  /\ pc[v] = "append"
  /\ block_creation(newID[v], previous_hash_value, v, <<>>)
  /\ torn' = (torn \/ mpc = "id")
  /\ Restart(v)
  /\ UNCHANGED <<validator_win, main, expired, wins>>

\* stub.block_creation of block_creation_validator.  What the transactions of
\* the request are is in DSC; none is stored.
AppendBlock(v) ==
  /\ pc[v] = "append"
  /\ block_creation(newID[v], details[v].hash, v, <<>>)
  /\ torn' = (torn \/ mpc = "id")
  /\ Restart(v)
  /\ UNCHANGED <<validator_win, main, expired, wins>>

MainStep ==
  \/ OpenWindow
  \/ ReadHash
  \/ ReadID
  \/ SetPreviousID
  \/ AppendPreviousID
  \/ SetPreviousHash
  \/ CheckWin
  \/ CreateBlock
=============================================================================
