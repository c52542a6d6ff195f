-------------------------------- MODULE DSC --------------------------------
(***************************************************************************)
(* The whole of dsc_py: wallets send transactions to the pool, validators  *)
(* that won a round take one each, have it put into a block and report it  *)
(* to the pool.  Metronome, blockchain and the validators' rounds are      *)
(* those of Validator; the pool is PoolQueue, which it implements when     *)
(* identifiers are fresh (Pool), with threads to spare for the validators. *)
(*                                                                         *)
(* A winner can end before its block: by the IndexError of a pop that came *)
(* too late, or, in the loops that read transactions.sender, by the        *)
(* AttributeError of any transaction.  No other winner ends.               *)
(*                                                                         *)
(* An operator marked "Slip" is no part of the specification: it is the    *)
(* operator after it with a mistake in it, kept to show which property     *)
(* notices the mistake.                                                    *)
(***************************************************************************)
EXTENDS Validator

CONSTANTS
  TransactionIds,
  NotAsked,    \* the validator has not called the pool in this round
  Checked,     \* its handler saw that there is a transaction
  NoTx,        \* it got an empty list
  CannotRead   \* validators of validator2.py and of the proof of memory

ASSUME DSCAssumption ==
  /\ NotAsked # Checked /\ NotAsked # NoTx /\ Checked # NoTx
  /\ {NotAsked, Checked, NoTx} \cap TransactionIds = {}
  /\ CannotRead \subseteq Validators
  /\ Crashing = Validators

VARIABLES
  waiting, taken, done,  \* the pool
  batch,                 \* what each validator got from the pool
  carried                \* history: what the request of each block carried,
                         \* of which the chain keeps the number only

Queue == INSTANCE PoolQueue

pool == <<waiting, taken, done>>
rest == <<pool, batch, carried>>
dscVars == <<vars, rest>>

DSCInit ==
  /\ Init
  /\ Queue!Init
  /\ batch = [v \in Validators |-> NotAsked]
  /\ carried = <<NoTx>>

Gets(v, b) == batch' = [batch EXCEPT ![v] = b]

\* stub.send of a wallet, as far as submit_transaction.
Submit ==
  /\ \E t \in TransactionIds : Queue!Submit(t)
  /\ UNCHANGED <<vars, batch, carried>>

\* Slip: the pool waits for a transaction.
CheckWhenSubmitted(v) ==
  /\ pc[v] = "won" /\ batch[v] = NotAsked
  /\ waiting # <<>>
  /\ Gets(v, Checked)
  /\ UNCHANGED <<vars, pool, carried>>

\* stub_pool.confirm_transactions: if submitted, ...
CheckSubmitted(v) ==
  /\ pc[v] = "won" /\ batch[v] = NotAsked
  /\ Gets(v, IF waiting = <<>> THEN NoTx ELSE Checked)
  /\ UNCHANGED <<vars, pool, carried>>

\* Slip: submitted[0] for submitted.pop(0).
PeekSubmitted(v) ==
  /\ pc[v] = "won" /\ batch[v] = Checked
  /\ waiting # <<>>
  /\ taken' = taken \cup {Head(waiting)}
  /\ UNCHANGED <<waiting, done>>
  /\ Gets(v, Head(waiting))
  /\ UNCHANGED <<vars, carried>>

\* ... submitted.pop(0), ...
PopSubmitted(v) ==
  /\ pc[v] = "won" /\ batch[v] = Checked
  /\ Queue!Take
  /\ Gets(v, Head(waiting))
  /\ UNCHANGED <<vars, carried>>

\* ... or IndexError, when another winner popped the last one.
PopFails(v) ==
  /\ pc[v] = "won" /\ batch[v] = Checked
  /\ waiting = <<>>
  /\ Crash(v)
  /\ UNCHANGED rest

\* transactions.sender
ReadFails(v) ==
  /\ v \in CannotRead
  /\ pc[v] = "won" /\ batch[v] \in TransactionIds
  /\ Crash(v)
  /\ UNCHANGED rest

\* block_request.transactions
BuildAndSend(v) ==
  /\ batch[v] \in TransactionIds => v \notin CannotRead
  /\ batch[v] \in TransactionIds \cup {NoTx}
  /\ SendBlock(v)
  /\ UNCHANGED rest

BatchAppended(v) ==
  /\ BlockAppended(v)
  /\ carried' = Append(carried, batch[v])
  /\ UNCHANGED <<pool, batch>>

\* stub_pool.move_to_confirm of the batch, and the end of the round.
MoveToConfirm(v) ==
  /\ pc[v] = "poll" /\ batch[v] # NotAsked
  /\ IF batch[v] \in TransactionIds THEN Queue!Report(batch[v]) ELSE UNCHANGED pool
  /\ Gets(v, NotAsked)
  /\ UNCHANGED <<vars, carried>>

\* The main thread's own block carries a transaction that it makes up.
MainThread ==
  /\ Main
  /\ carried' = IF mpc = "create" THEN Append(carried, NoTx) ELSE carried
  /\ UNCHANGED <<pool, batch>>

\* The calls of the metronome, which wait for one of its threads; a round
\* ends before the next begins.
Call(v) ==
  \/ /\ AskDetails(v) /\ batch[v] = NotAsked
     /\ UNCHANGED rest
  \/ (ClaimLost(v) \/ ClaimPassed(v)) /\ UNCHANGED rest
  \/ BuildAndSend(v)

Local(v) ==
  \/ (TakeDetails(v) \/ ClaimGranted(v)) /\ UNCHANGED rest
  \/ CheckSubmitted(v)
  \/ PopSubmitted(v)
  \/ PopFails(v)
  \/ ReadFails(v)
  \/ BatchAppended(v)
  \/ MoveToConfirm(v)

DSCNext ==
  \/ Submit
  \/ MainThread
  \/ Timer /\ UNCHANGED rest
  \/ \E v \in Validators : Call(v) \/ Local(v)

DSCSpec == DSCInit /\ [][DSCNext]_dscVars

\* As in Validator, and a pool that answers; nobody has to send.
DSCFairness ==
  /\ WF_dscVars(MainThread)
  /\ WF_dscVars(Timer /\ UNCHANGED rest)
  /\ \A v \in Validators : SF_dscVars(Call(v)) /\ WF_dscVars(Local(v))

FairDSC == DSCSpec /\ DSCFairness

-----------------------------------------------------------------------------
(* Properties.                                                             *)

\* A transaction is reported to the pool only once a block was appended whose
\* request carried it, and no two blocks carried the same one; until then it
\* is the batch of one validator, dead or alive (confirm_transactions,
\* block_creation_validator and move_to_confirm of validator.py:236-276).
ConfirmedInOneBlock ==
  /\ \A j, k \in DOMAIN carried :
       carried[j] = carried[k] /\ carried[j] \in TransactionIds => j = k
  /\ \A t \in done : \E k \in DOMAIN carried : carried[k] = t
  /\ \A t \in taken : \E v \in Validators : batch[v] = t
  /\ \A u, v \in Validators :
       batch[u] = batch[v] /\ batch[u] \in TransactionIds => u = v

Dead == {v \in Validators : pc[v] = "dead"}

\* A winner that does not end before its block gets it into the chain and
\* reports what it took, however long its handler sleeps and whoever else
\* has the threads of the metronome (validator.py:235-276).
WinnerReports ==
  \A v \in Validators :
    pc[v] = "won" ~> v \in Dead \/ (pc[v] = "poll" /\ batch[v] = NotAsked)

\* Two blocks with one identifier.
Forked ==
  \E j, k \in DOMAIN block_chain :
    j # k /\ block_chain[j].blockID = block_chain[k].blockID

\* As long as no identifier is used twice and no winner ended, every round
\* opens: the main thread does not poll for ever for a block with a new
\* identifier (metronome_server.py:165).
RoundOpens == mpc = "reset" ~> mpc = "wait" \/ Forked \/ Dead # {}
=============================================================================
