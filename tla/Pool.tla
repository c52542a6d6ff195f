-------------------------------- MODULE Pool --------------------------------
(***************************************************************************)
(* The transaction pool server, src/dsc_py/pool.py.                        *)
(*                                                                         *)
(* A gRPC server with a thread pool of MaxWorkers threads serves wallets   *)
(* (send), queriers (transaction, the second choice of wallet.py) and      *)
(* validators (confirm_transactions, move_to_confirm).  Every client has   *)
(* at most one call outstanding, so a handler is identified with its       *)
(* client: pc[c] is the place of c's call, in the queue of the thread pool *)
(* or in the handler.  Two statements of different handlers interleave; a  *)
(* single operation on the list "submitted" or the dict "unconfirmed" is   *)
(* atomic (the interpreter lock).                                          *)
(*                                                                         *)
(* A transaction is its identifier: the pool reads no other field.         *)
(*                                                                         *)
(* An operator marked "Slip" is no part of the specification: it is the    *)
(* operator after it with a mistake in it, kept to show which property     *)
(* notices the mistake.                                                    *)
(***************************************************************************)
EXTENDS Naturals, FiniteSets, SequencesExt

CONSTANTS
  Wallets,         \* processes that call send, one stream at a time
  Queriers,        \* processes that call transaction
  Validators,      \* processes that won a round
  TransactionIds,
  NoTx,            \* an empty transaction list
  SendsPerWallet,  \* the benchmarks' range(0, 128)
  IdOf,            \* IdOf[<<w, n>>]: the identifier of the n-th send of wallet w
  MaxWorkers,      \* ThreadPoolExecutor(max_workers=10)
  Quitters,        \* wallets that may close a stream before it ends
  NeverReport      \* validators whose loop reads transactions.sender, which a
                   \* reply does not have, and has no move_to_confirm

ASSUME PoolAssumption ==
  /\ SendsPerWallet \in Nat
  /\ MaxWorkers \in Nat \ {0}
  /\ IdOf \in [Wallets \X (1..SendsPerWallet) -> TransactionIds]
  /\ NoTx \notin TransactionIds
  /\ Quitters \subseteq Wallets
  /\ NeverReport \subseteq Validators
  /\ Wallets \cap Queriers = {}
  /\ Wallets \cap Validators = {}
  /\ Queriers \cap Validators = {}

Clients == Wallets \cup Queriers \cup Validators

\* token_hex(8) never repeats, unlike the "101" of wallet.py.
FreshIds == \A p, q \in DOMAIN IdOf : IdOf[p] = IdOf[q] => p = q

VARIABLES
  submitted,    \* the list of transactions nobody took yet
  unconfirmed,  \* the keys of the dict of transactions handed out
  queue,        \* calls that wait for a thread of the pool
  pc,           \* where the call of each client is
  tx,           \* the transaction a client sent, asks about or holds
  index,        \* position of the iterator of "for t in submitted"
  reply,        \* send_reply.reply or transaction_reply.status
  sent,         \* how many sends a wallet has made
  accepted,     \* history: all that was ever submitted, in order
  handed,       \* history: all that was ever popped, in order
  confirmed,    \* history: all that a validator reported
  raced         \* history: a pop overlapped this wallet's last scan

pool == <<submitted, unconfirmed>>
history == <<accepted, handed, confirmed>>
vars == <<submitted, unconfirmed, queue, pc, tx, index, reply, sent,
          accepted, handed, confirmed, raced>>

ScanPCs == {"scan", "lookup", "yield"}
ServingPCs == ScanPCs \cup {"submit", "check", "pop", "insert", "mcheck", "mpop"}
OutsidePCs == {"idle", "mining", "gone", "failed"}
PCs == ServingPCs \cup OutsidePCs \cup {"queued", "mqueued"}

Serving == {c \in Clients : pc[c] \in ServingPCs}
Replies == {"", "Submitted", "Unconfirmed", "Confirmed"}

TypeOK ==
  /\ submitted \in Seq(TransactionIds)
  /\ unconfirmed \subseteq TransactionIds
  /\ queue \in Seq(Clients)
  /\ pc \in [Clients -> PCs]
  /\ tx \in [Clients -> TransactionIds \cup {NoTx}]
  /\ index \in [Clients -> Nat \ {0}]
  /\ reply \in [Clients -> Replies]
  /\ sent \in [Wallets -> 0..SendsPerWallet]
  /\ accepted \in Seq(TransactionIds)
  /\ handed \in Seq(TransactionIds)
  /\ confirmed \subseteq TransactionIds
  /\ raced \in [Wallets -> BOOLEAN]

Init ==
  /\ submitted = <<>>
  /\ unconfirmed = {}
  /\ queue = <<>>
  /\ pc = [c \in Clients |-> "idle"]
  /\ tx = [c \in Clients |-> NoTx]
  /\ index = [c \in Clients |-> 1]
  /\ reply = [c \in Clients |-> ""]
  /\ sent = [w \in Wallets |-> 0]
  /\ accepted = <<>>
  /\ handed = <<>>
  /\ confirmed = {}
  /\ raced = [w \in Wallets |-> FALSE]

Goto(c, l) == pc' = [pc EXCEPT ![c] = l]

-----------------------------------------------------------------------------
(* The clients' calls and the thread pool.                                 *)

\* stub.send: a wallet sends its next transaction.
CallSend(w) ==
  /\ pc[w] = "idle"
  /\ sent[w] < SendsPerWallet
  /\ sent' = [sent EXCEPT ![w] = @ + 1]
  /\ tx' = [tx EXCEPT ![w] = IdOf[<<w, sent[w] + 1>>]]
  /\ reply' = [reply EXCEPT ![w] = ""]
  /\ queue' = Append(queue, w)
  /\ Goto(w, "queued")
  /\ UNCHANGED <<pool, index, history, raced>>

\* stub.transaction: somebody asks for the status of one transaction.
CallTransaction(q) ==
  /\ pc[q] = "idle"
  /\ \E t \in TransactionIds : tx' = [tx EXCEPT ![q] = t]
  /\ reply' = [reply EXCEPT ![q] = ""]
  /\ queue' = Append(queue, q)
  /\ Goto(q, "queued")
  /\ UNCHANGED <<pool, index, sent, history, raced>>

\* stub_pool.confirm_transactions: a validator that won asks for a batch.
CallConfirm(v) ==
  /\ pc[v] = "idle"
  /\ queue' = Append(queue, v)
  /\ Goto(v, "queued")
  /\ UNCHANGED <<pool, tx, index, reply, sent, history, raced>>

\* Slip: the loop never reports a batch.
CallNoMove(v) ==
  /\ pc[v] = "mining"
  /\ Goto(v, "idle")
  /\ tx' = [tx EXCEPT ![v] = NoTx]
  /\ UNCHANGED <<pool, queue, index, reply, sent, history, raced>>

\* stub_pool.move_to_confirm.  In the loops without it an empty batch goes
\* well, and a transaction ends the validator with AttributeError.
CallMove(v) ==
  /\ pc[v] = "mining"
  /\ IF v \in NeverReport
       THEN /\ Goto(v, IF tx[v] = NoTx THEN "idle" ELSE "failed")
            /\ UNCHANGED queue
       ELSE /\ Goto(v, "mqueued")
            /\ queue' = Append(queue, v)
  /\ UNCHANGED <<pool, tx, index, reply, sent, history, raced>>

FirstPC(c) ==
  CASE c \in Wallets -> "submit"
    [] c \in Queriers -> "scan"
    [] c \in Validators /\ pc[c] = "queued" -> "check"
    [] c \in Validators /\ pc[c] = "mqueued" -> "mcheck"

\* Slip: a thread for every call.
ServeUnbounded ==
  /\ queue # <<>>
  /\ queue' = Tail(queue)
  /\ Goto(Head(queue), FirstPC(Head(queue)))
  /\ UNCHANGED <<pool, tx, index, reply, sent, history, raced>>

\* A free thread of the executor takes the oldest call.
Serve ==
  /\ Cardinality(Serving) < MaxWorkers
  /\ queue # <<>>
  /\ queue' = Tail(queue)
  /\ Goto(Head(queue), FirstPC(Head(queue)))
  /\ UNCHANGED <<pool, tx, index, reply, sent, history, raced>>

-----------------------------------------------------------------------------
(* send and transaction.                                                   *)

\* submit_transaction
SubmitTransaction(w) ==
  /\ pc[w] = "submit"
  /\ submitted' = Append(submitted, tx[w])
  /\ accepted' = Append(accepted, tx[w])
  /\ raced' = [raced EXCEPT ![w] = FALSE]
  /\ Goto(w, "scan")
  /\ UNCHANGED <<unconfirmed, queue, tx, index, reply, sent, handed, confirmed>>

\* What the lookup loop decides: the rest of the loop after a match can
\* only set "submit" to 1 again, so the model leaves it at the match.
Found(c) == index[c] <= Len(submitted) /\ submitted[index[c]] = tx[c]

ScanMatch(c) ==
  /\ pc[c] = "scan"
  /\ Found(c)
  /\ reply' = [reply EXCEPT ![c] = "Submitted"]
  /\ index' = [index EXCEPT ![c] = 1]
  /\ Goto(c, "yield")
  /\ UNCHANGED <<pool, queue, tx, sent, history, raced>>

\* One iteration on another transaction.  The iterator keeps a position in
\* the live list, whatever other threads popped in the meantime.
ScanNext(c) ==
  /\ pc[c] = "scan"
  /\ index[c] <= Len(submitted)
  /\ ~Found(c)
  /\ index' = [index EXCEPT ![c] = @ + 1]
  /\ UNCHANGED <<pool, queue, pc, tx, reply, sent, history, raced>>

\* The loop ended without a match.  The handler of transaction never bound
\* "submit": UnboundLocalError, and the call of the querier fails.
ScanEnd(c) ==
  /\ pc[c] = "scan"
  /\ index[c] > Len(submitted)
  /\ index' = [index EXCEPT ![c] = 1]
  /\ Goto(c, IF c \in Wallets THEN "lookup" ELSE "failed")
  /\ UNCHANGED <<pool, queue, tx, reply, sent, history, raced>>

\* Some handler popped w's transaction and has not stored it yet.
InTheGap(w) == \E v \in Validators : pc[v] = "insert" /\ tx[v] = tx[w]

\* elif request.transaction_id in unconfirmed ... else "Confirmed"
Lookup(w) ==
  /\ pc[w] = "lookup"
  /\ reply' = [reply EXCEPT ![w] =
                 IF tx[w] \in unconfirmed THEN "Unconfirmed" ELSE "Confirmed"]
  /\ raced' = [raced EXCEPT ![w] = @ \/ InTheGap(w)]
  /\ Goto(w, "yield")
  /\ UNCHANGED <<pool, queue, tx, index, sent, history>>

\* yield, sleep and the test of the while loop; a return for transaction.
YieldReply(c) ==
  /\ pc[c] = "yield"
  /\ IF c \in Wallets /\ reply[c] # "Confirmed"
       THEN /\ Goto(c, "scan")
            /\ raced' = [raced EXCEPT ![c] = FALSE]
       ELSE Goto(c, "idle") /\ UNCHANGED raced
  /\ UNCHANGED <<pool, queue, tx, index, reply, sent, history>>

\* The wallet went away: the server drops the generator at its next yield.
Disconnect(w) ==
  /\ pc[w] = "yield"
  /\ w \in Quitters
  /\ Goto(w, "gone")
  /\ UNCHANGED <<pool, queue, tx, index, reply, sent, history, raced>>

-----------------------------------------------------------------------------
(* confirm_transactions: its loop over range(0,200) ends with the first    *)
(* iteration, so a batch is one transaction or none.                       *)

\* Slip: pop(0) without "if submitted".
CheckNothing(v) ==
  /\ pc[v] = "check"
  /\ Goto(v, "pop")
  /\ UNCHANGED <<pool, queue, tx, index, reply, sent, history, raced>>

\* if submitted: ... the batch is empty when there is nothing to take
CheckSubmitted(v) ==
  /\ pc[v] = "check"
  /\ IF submitted # <<>>
       THEN Goto(v, "pop")
       ELSE Goto(v, "mining")
  /\ UNCHANGED <<pool, queue, tx, index, reply, sent, history, raced>>

\* Slip: pop() for pop(0).
PopLast(v) ==
  /\ pc[v] = "pop"
  /\ submitted # <<>>
  /\ tx' = [tx EXCEPT ![v] = Last(submitted)]
  /\ submitted' = Front(submitted)
  /\ handed' = Append(handed, Last(submitted))
  /\ Goto(v, "insert")
  /\ UNCHANGED <<unconfirmed, queue, index, reply, sent, accepted, confirmed, raced>>

\* Slip: submitted[0] for submitted.pop(0).
PeekSubmitted(v) ==
  /\ pc[v] = "pop"
  /\ submitted # <<>>
  /\ tx' = [tx EXCEPT ![v] = Head(submitted)]
  /\ Goto(v, "insert")
  /\ UNCHANGED <<pool, queue, index, reply, sent, history, raced>>

\* submitted.pop(0)
PopSubmitted(v) ==
  /\ pc[v] = "pop"
  /\ submitted # <<>>
  /\ tx' = [tx EXCEPT ![v] = Head(submitted)]
  /\ submitted' = Tail(submitted)
  /\ handed' = Append(handed, Head(submitted))
  /\ raced' = [w \in Wallets |-> raced[w] \/ pc[w] = "scan"]
  /\ Goto(v, "insert")
  /\ UNCHANGED <<unconfirmed, queue, index, reply, sent, accepted, confirmed>>

\* IndexError: another handler popped the last one after the check.  The
\* call fails and the validator, which handles no error, ends.
PopFails(v) ==
  /\ pc[v] = "pop"
  /\ submitted = <<>>
  /\ Goto(v, "failed")
  /\ UNCHANGED <<pool, queue, tx, index, reply, sent, history, raced>>

\* Slip: the transaction popped is not stored.
InsertNothing(v) ==
  /\ pc[v] = "insert"
  /\ Goto(v, "mining")
  /\ UNCHANGED <<pool, queue, tx, index, reply, sent, history, raced>>

\* unconfirmed[latest_transaction.transaction_id] = latest_transaction
InsertUnconfirmed(v) ==
  /\ pc[v] = "insert"
  /\ unconfirmed' = unconfirmed \cup {tx[v]}
  /\ Goto(v, "mining")
  /\ UNCHANGED <<submitted, queue, tx, index, reply, sent, history, raced>>

-----------------------------------------------------------------------------
(* move_to_confirm: confirm_transaction for each transaction of the batch. *)

CheckUnconfirmed(v) ==
  /\ pc[v] = "mcheck"
  /\ IF tx[v] \in unconfirmed
       THEN Goto(v, "mpop") /\ UNCHANGED tx
       ELSE Goto(v, "idle") /\ tx' = [tx EXCEPT ![v] = NoTx]
  /\ UNCHANGED <<pool, queue, index, reply, sent, history, raced>>

\* unconfirmed.pop(transaction_id)
PopUnconfirmed(v) ==
  /\ pc[v] = "mpop"
  /\ tx[v] \in unconfirmed
  /\ unconfirmed' = unconfirmed \ {tx[v]}
  /\ confirmed' = confirmed \cup {tx[v]}
  /\ tx' = [tx EXCEPT ![v] = NoTx]
  /\ Goto(v, "idle")
  /\ UNCHANGED <<submitted, queue, index, reply, sent, accepted, handed, raced>>

\* KeyError: another handler popped the same identifier after the check.
PopUnconfirmedFails(v) ==
  /\ pc[v] = "mpop"
  /\ tx[v] \notin unconfirmed
  /\ Goto(v, "failed")
  /\ UNCHANGED <<pool, queue, tx, index, reply, sent, history, raced>>

-----------------------------------------------------------------------------
SendStep(w) ==
  \/ SubmitTransaction(w)
  \/ ScanMatch(w)
  \/ ScanNext(w)
  \/ ScanEnd(w)
  \/ Lookup(w)
  \/ YieldReply(w)

TransactionStep(q) ==
  \/ ScanMatch(q)
  \/ ScanNext(q)
  \/ ScanEnd(q)
  \/ YieldReply(q)

ConfirmStep(v) ==
  \/ CheckSubmitted(v)
  \/ PopSubmitted(v)
  \/ PopFails(v)
  \/ InsertUnconfirmed(v)

MoveStep(v) ==
  \/ CheckUnconfirmed(v)
  \/ PopUnconfirmed(v)
  \/ PopUnconfirmedFails(v)

Next ==
  \/ Serve
  \/ \E w \in Wallets : CallSend(w) \/ SendStep(w) \/ Disconnect(w)
  \/ \E q \in Queriers : CallTransaction(q) \/ TransactionStep(q)
  \/ \E v \in Validators :
       CallConfirm(v) \/ CallMove(v) \/ ConfirmStep(v) \/ MoveStep(v)

Spec == Init /\ [][Next]_vars

\* Threads that run are scheduled, a free worker takes a waiting call, and a
\* validator that got a batch goes on to report it.  No wallet has to send,
\* nobody has to query, and no validator has to win another round.
Fairness ==
  /\ WF_vars(Serve)
  /\ \A w \in Wallets : WF_vars(SendStep(w))
  /\ \A q \in Queriers : WF_vars(TransactionStep(q))
  /\ \A v \in Validators : WF_vars(CallMove(v) \/ ConfirmStep(v) \/ MoveStep(v))

FairSpec == Spec /\ Fairness

-----------------------------------------------------------------------------
(* Properties.                                                             *)

Inserting == {tx[v] : v \in {u \in Validators : pc[u] = "insert"}}

\* The transactions handed out are, in order, the first ones submitted:
\* concurrent confirm_transactions neither lose, repeat nor reorder any.
FirstInFirstOut == accepted = handed \o submitted

\* With fresh identifiers, the second statement of confirm_transaction never
\* raises KeyError: what the check saw in "unconfirmed" is still there,
\* because no two validators were ever given the same transaction.
CheckedStaysUnconfirmed ==
  FreshIds => \A v \in Validators : pc[v] = "mpop" => tx[v] \in unconfirmed

\* Overlapping confirm_transactions can end in IndexError and so end a
\* validator, but never the last one: a failing pop has a winner, and the
\* winner lives on.  (With repeated identifiers, the same for KeyError.)
SomeValidatorSurvives ==
  NeverReport = {} /\ Validators # {} => \E v \in Validators : pc[v] # "failed"

\* The stream of a send says "Confirmed" of a transaction that no validator
\* reported only when a pop of another handler overlapped its scan of the
\* live list, or its lookup fell between the pop and the insert of its own.
ConfirmedUnlessRaced ==
  FreshIds =>
    \A w \in Wallets :
      pc[w] = "yield" /\ reply[w] = "Confirmed" /\ ~raced[w]
        => tx[w] \in confirmed

\* Every thread of the pool serves the stream of a send whose transaction
\* waits in "submitted" or "unconfirmed".
Exhausted ==
  /\ Cardinality(Serving) = MaxWorkers
  /\ \A c \in Serving :
       /\ c \in Wallets /\ pc[c] \in ScanPCs
       /\ tx[c] \in Range(submitted) \cup unconfirmed
       /\ reply[c] # "Confirmed" /\ ~raced[c]

\* Once as many streams as threads wait for a confirmation the pool is
\* stuck: no thread is left for the validator whose call would end one.
ExhaustionIsPermanent ==
  [][FreshIds /\ Quitters = {} /\ Exhausted => Exhausted']_vars

\* With a thread to spare for the validators, a stream waits for ever only if
\* rounds are no longer won: as long as some validator asks for a batch again
\* and again, every send ends, whatever the races, the repeated identifiers
\* and the validators that end (the loop of send ends by itself).
SendReturns ==
  []<><<\E v \in Validators : CallConfirm(v)>>_vars =>
    \A w \in Wallets : pc[w] = "queued" ~> pc[w] \in {"idle", "gone"}

\* The status that "Confirmed" should stand for.
ConfirmedIsTrue ==
  \A w \in Wallets :
    pc[w] = "yield" /\ reply[w] = "Confirmed" => tx[w] \in confirmed

\* The pool implements the abstract queue when identifiers are fresh.
Queue == INSTANCE PoolQueue WITH
           waiting <- submitted,
           taken <- unconfirmed \cup Inserting,
           done <- confirmed

ImplementsQueue == Queue!Spec

=============================================================================
