----------------------------- MODULE PoolProofs -----------------------------
(***************************************************************************)
(* Theorems about the transaction pool, for any number of wallets,         *)
(* validators, threads and sends.                                          *)
(***************************************************************************)
EXTENDS Pool, SequenceTheorems, TLAPS

-----------------------------------------------------------------------------
(* Types.                                                                  *)

\* The labels are members of PCs.
LEMMA Labels ==
  /\ "submit" \in PCs /\ "scan" \in PCs /\ "lookup" \in PCs
  /\ "yield" \in PCs /\ "idle" \in PCs /\ "queued" \in PCs
  /\ "gone" \in PCs /\ "check" \in PCs /\ "pop" \in PCs
  /\ "insert" \in PCs /\ "mcheck" \in PCs /\ "mpop" \in PCs
  /\ "mining" \in PCs /\ "mqueued" \in PCs /\ "failed" \in PCs
  /\ "" \in Replies /\ "Submitted" \in Replies
  /\ "Unconfirmed" \in Replies /\ "Confirmed" \in Replies
  BY DEF PCs, ServingPCs, ScanPCs, OutsidePCs, Replies

\* The three kinds of clients are clients, and of one kind only.
LEMMA SomeClients ==
  Wallets \subseteq Clients /\ Queriers \subseteq Clients /\ Validators \subseteq Clients
  BY DEF Clients

\* The types hold in the initial states.
LEMMA InitTypeOK == Init => TypeOK
<1> SUFFICES ASSUME Init PROVE TypeOK
  OBVIOUS
<1>1. /\ <<>> \in Seq(TransactionIds)
      /\ <<>> \in Seq(Clients)
  BY EmptySeq
<1>2. sent \in [Wallets -> 0..SendsPerWallet]
  <2>1. 0 \in 0..SendsPerWallet
    BY PoolAssumption
  <2> QED BY <2>1 DEF Init
<1>3. index \in [Clients -> Nat \ {0}]
  <2>1. 1 \in Nat \ {0}
    OBVIOUS
  <2> QED BY <2>1 DEF Init
<1> QED BY <1>1, <1>2, <1>3, Labels DEF Init, TypeOK

\* The identifier of a wallet's next send is one of the identifiers.
LEMMA NextIdType ==
  ASSUME TypeOK, NEW w \in Wallets, sent[w] < SendsPerWallet
  PROVE  /\ sent[w] + 1 \in 1..SendsPerWallet
         /\ sent[w] + 1 \in 0..SendsPerWallet
         /\ IdOf[<<w, sent[w] + 1>>] \in TransactionIds
<1>1. sent[w] \in 0..SendsPerWallet
  BY DEF TypeOK
<1>2. sent[w] + 1 \in 1..SendsPerWallet /\ sent[w] + 1 \in 0..SendsPerWallet
  BY <1>1, PoolAssumption
<1> QED BY <1>2, PoolAssumption

\* A call that enters the queue of the thread pool keeps the types.
LEMMA CallTypeOK ==
  ASSUME TypeOK, NEW c \in Clients,
         \/ c \in Wallets /\ (CallSend(c) \/ Disconnect(c))
         \/ CallTransaction(c)
         \/ CallConfirm(c)
         \/ CallMove(c)
  PROVE  TypeOK'
<1> USE Labels, SomeClients DEF TypeOK, Goto, pool, history
<1>0. Append(queue, c) \in Seq(Clients)
  BY AppendProperties
<1>1. ASSUME c \in Wallets, CallSend(c) PROVE TypeOK'
  <2>1. /\ sent[c] + 1 \in 0..SendsPerWallet
        /\ IdOf[<<c, sent[c] + 1>>] \in TransactionIds
    BY <1>1, NextIdType DEF CallSend
  <2> QED BY <1>0, <1>1, <2>1 DEF CallSend
<1>2. ASSUME Disconnect(c) PROVE TypeOK'
  BY <1>2 DEF Disconnect
<1>3. ASSUME CallTransaction(c) PROVE TypeOK'
  BY <1>0, <1>3 DEF CallTransaction
<1>4. ASSUME CallConfirm(c) PROVE TypeOK'
  BY <1>0, <1>4 DEF CallConfirm
<1>5. ASSUME CallMove(c) PROVE TypeOK'
  BY <1>0, <1>5 DEF CallMove
<1> QED BY <1>1, <1>2, <1>3, <1>4, <1>5

\* So does a thread that takes a call ...
LEMMA ServeTypeOK ==
  ASSUME TypeOK, Serve, FirstPC(Head(queue)) \in PCs
  PROVE  TypeOK'
<1>1. Head(queue) \in Clients /\ Tail(queue) \in Seq(Clients)
  BY HeadTailProperties DEF TypeOK, Serve
<1> QED BY <1>1 DEF TypeOK, Serve, Goto, pool, history

\* ... and the steps of send and transaction, apart from the submission.
LEMMA StreamTypeOK ==
  ASSUME TypeOK, NEW c \in Clients,
         \/ ScanMatch(c) \/ ScanNext(c) \/ ScanEnd(c) \/ YieldReply(c)
         \/ c \in Wallets /\ Lookup(c)
  PROVE  TypeOK'
<1> USE Labels, SomeClients DEF TypeOK, Goto, pool, history
<1>0. 1 \in Nat \ {0} /\ index[c] + 1 \in Nat \ {0}
  <2>1. index[c] \in Nat \ {0}
    OBVIOUS
  <2> QED BY ONLY <2>1
<1>1. ASSUME ScanMatch(c) PROVE TypeOK'
  BY <1>0, <1>1 DEF ScanMatch
<1>2. ASSUME ScanNext(c) PROVE TypeOK'
  BY <1>0, <1>2 DEF ScanNext
<1>3. ASSUME ScanEnd(c) PROVE TypeOK'
  BY <1>0, <1>3 DEF ScanEnd
<1>4. ASSUME YieldReply(c) PROVE TypeOK'
  BY <1>4 DEF YieldReply
<1>5. ASSUME c \in Wallets, Lookup(c) PROVE TypeOK'
  <2> DEFINE r == raced[c] \/ InTheGap(c)
  <2>1. r \in BOOLEAN
    OBVIOUS
  <2> HIDE DEF r
  <2>2. raced' = [raced EXCEPT ![c] = r]
    BY <1>5 DEF Lookup, r
  <2>3. raced' \in [Wallets -> BOOLEAN]
    BY <1>5, <2>1, <2>2
  <2> QED BY <1>5, <2>3 DEF Lookup
<1> QED BY <1>1, <1>2, <1>3, <1>4, <1>5

\* The first submission of w's transaction; tx[w] is one by then.
LEMMA SubmitTypeOK ==
  ASSUME TypeOK, NEW w \in Wallets, tx[w] # NoTx, SubmitTransaction(w)
  PROVE  TypeOK'
<1>1. tx[w] \in TransactionIds
  BY SomeClients DEF TypeOK
<1>2. submitted' \in Seq(TransactionIds) /\ accepted' \in Seq(TransactionIds)
  BY <1>1, AppendProperties DEF TypeOK, SubmitTransaction
<1> QED BY <1>2, Labels, SomeClients DEF SubmitTransaction, TypeOK, Goto

\* The steps of confirm_transactions and move_to_confirm keep the types.
LEMMA ConfirmTypeOK ==
  ASSUME TypeOK, NEW v \in Validators,
         \/ CheckSubmitted(v) \/ PopSubmitted(v) \/ PopFails(v)
         \/ tx[v] # NoTx /\ InsertUnconfirmed(v)
         \/ MoveStep(v)
  PROVE  TypeOK'
<1> USE Labels, SomeClients DEF TypeOK, Goto, pool, history
<1>1. ASSUME CheckSubmitted(v) PROVE TypeOK'
  BY <1>1 DEF CheckSubmitted
<1>2. ASSUME PopSubmitted(v) PROVE TypeOK'
  <2>1. /\ Head(submitted) \in TransactionIds
        /\ Tail(submitted) \in Seq(TransactionIds)
    BY <1>2, HeadTailProperties DEF PopSubmitted
  <2>2. handed' \in Seq(TransactionIds)
    BY <1>2, <2>1, AppendProperties DEF PopSubmitted
  <2>3. raced' \in [Wallets -> BOOLEAN]
    BY <1>2 DEF PopSubmitted
  <2> QED BY <1>2, <2>1, <2>2, <2>3 DEF PopSubmitted
<1>3. ASSUME PopFails(v) PROVE TypeOK'
  BY <1>3 DEF PopFails
<1>4. ASSUME tx[v] # NoTx, InsertUnconfirmed(v) PROVE TypeOK'
  BY <1>4 DEF InsertUnconfirmed
<1>5. ASSUME CheckUnconfirmed(v) PROVE TypeOK'
  BY <1>5, ZenonT(30) DEF CheckUnconfirmed
<1>6. ASSUME PopUnconfirmed(v) PROVE TypeOK'
  BY <1>6 DEF PopUnconfirmed
<1>7. ASSUME PopUnconfirmedFails(v) PROVE TypeOK'
  BY <1>7 DEF PopUnconfirmedFails
<1> QED BY <1>1, <1>2, <1>3, <1>4, <1>5, <1>6, <1>7 DEF MoveStep

-----------------------------------------------------------------------------
(* The places a client's call can be in, and the queue.                    *)

Waiting == {"queued", "mqueued"}

PCsOf(c) ==
  CASE c \in Wallets -> {"idle", "queued", "submit", "scan", "lookup", "yield", "gone"}
    [] c \in Queriers -> {"idle", "queued", "scan", "yield", "failed"}
    [] OTHER -> {"idle", "queued", "check", "pop", "insert", "mining",
                 "mqueued", "mcheck", "mpop", "failed"}

Kinds == \A c \in Clients : pc[c] \in PCsOf(c)

\* The queue holds the clients whose call waits, each once.
QueueOK ==
  /\ \A i \in 1..Len(queue) : pc[queue[i]] \in Waiting
  /\ \A i, j \in 1..Len(queue) : queue[i] = queue[j] => i = j

\* What the handlers find in the variables of their call.
CallsOK ==
  /\ \A w \in Wallets : pc[w] # "idle" =>
       sent[w] \in 1..SendsPerWallet /\ tx[w] = IdOf[<<w, sent[w]>>]
  /\ \A v \in Validators : pc[v] = "insert" => tx[v] # NoTx

BaseInv == TypeOK /\ Kinds /\ QueueOK /\ CallsOK /\ FirstInFirstOut

\* A step changes the place of one client.
LEMMA GotoKinds ==
  ASSUME TypeOK, Kinds, NEW c \in Clients, NEW l \in PCsOf(c), Goto(c, l)
  PROVE  Kinds'
BY DEF TypeOK, Kinds, Goto, PCsOf

\* A client whose call is not waiting moves: the queue does not notice.
LEMMA MoveQueueOK ==
  ASSUME TypeOK, QueueOK, NEW c \in Clients, NEW l,
         pc[c] \notin Waiting, Goto(c, l), UNCHANGED queue
  PROVE  QueueOK'
<1>1. \A i \in 1..Len(queue) : queue[i] \in Clients /\ queue[i] # c
  BY ElementOfSeq DEF TypeOK, QueueOK
<1> QED BY <1>1 DEF TypeOK, QueueOK, Goto

\* A new call is in the queue once.
LEMMA CallQueueOK ==
  ASSUME TypeOK, QueueOK, NEW c \in Clients, NEW l \in Waiting,
         pc[c] \notin Waiting, Goto(c, l), queue' = Append(queue, c)
  PROVE  QueueOK'
<1>1. \A i \in 1..Len(queue) : queue[i] \in Clients /\ queue[i] # c
  BY ElementOfSeq DEF TypeOK, QueueOK
<1>2. /\ Len(queue') = Len(queue) + 1
      /\ \A i \in 1..Len(queue) : queue'[i] = queue[i]
      /\ queue'[Len(queue) + 1] = c
  BY AppendProperties DEF TypeOK
<1>3. Len(queue) \in Nat
  BY LenProperties DEF TypeOK
<1>4. \A i \in 1..Len(queue') : i \in 1..Len(queue) \/ i = Len(queue) + 1
  BY <1>2, <1>3
<1>5. pc'[c] \in Waiting /\ \A d \in Clients : d # c => pc'[d] = pc[d]
  BY DEF TypeOK, Goto
<1> QED BY <1>1, <1>2, <1>4, <1>5 DEF QueueOK

\* The call that a thread takes is one that waits, and is taken once.
LEMMA ServeHead ==
  ASSUME TypeOK, QueueOK, Kinds, CallsOK, Serve
  PROVE  /\ Head(queue) \in Clients
         /\ pc[Head(queue)] \in Waiting
         /\ FirstPC(Head(queue)) \in PCsOf(Head(queue))
         /\ FirstPC(Head(queue)) \notin {"idle", "insert"}
         /\ QueueOK'
<1> DEFINE h == Head(queue)
<1>1. /\ queue # <<>>
      /\ Goto(h, FirstPC(h))
      /\ queue' = Tail(queue)
  BY DEF Serve
<1>2. /\ Len(queue) \in Nat
      /\ Len(queue) # 0
      /\ 1 \in 1..Len(queue)
      /\ h = queue[1]
      /\ h \in Clients
  BY <1>1, LenProperties, EmptySeq DEF TypeOK
<1>3. pc[h] \in Waiting
  BY <1>2 DEF QueueOK
<1>4. FirstPC(h) \in PCsOf(h) /\ FirstPC(h) \notin {"idle", "insert"}
  <2>1. CASE h \in Wallets
    BY <2>1, PoolAssumption DEF FirstPC, PCsOf
  <2>2. CASE h \in Queriers
    BY <2>2, PoolAssumption DEF FirstPC, PCsOf
  <2>3. CASE h \in Validators
    <3>1. h \notin Wallets /\ h \notin Queriers
      BY <2>3, PoolAssumption
    <3>2. CASE pc[h] = "queued"
      BY <2>3, <3>1, <3>2 DEF FirstPC, PCsOf
    <3>3. CASE pc[h] = "mqueued"
      BY <2>3, <3>1, <3>3 DEF FirstPC, PCsOf
    <3> QED BY <1>3, <3>2, <3>3 DEF Waiting
  <2> QED BY <1>2, <2>1, <2>2, <2>3 DEF Clients
<1>5. /\ Len(queue') = Len(queue) - 1
      /\ \A i \in 1..Len(queue') : queue'[i] = queue[i + 1]
  BY <1>1, HeadTailProperties DEF TypeOK
<1>6. \A i \in 1..Len(queue') : i + 1 \in 1..Len(queue) /\ i + 1 # 1
  BY <1>2, <1>5
<1>7. \A i \in 1..Len(queue') : queue'[i] \in Clients /\ queue'[i] # h
  <2>1. \A i \in 1..Len(queue) : queue[i] \in Clients
    BY ElementOfSeq DEF TypeOK
  <2> QED BY <1>2, <1>5, <1>6, <2>1 DEF QueueOK
<1>8. \A i \in 1..Len(queue') : pc'[queue'[i]] \in Waiting
  <2>1. \A d \in Clients : d # h => pc'[d] = pc[d]
    BY <1>1 DEF TypeOK, Goto
  <2>2. \A i \in 1..Len(queue') : pc[queue'[i]] \in Waiting
    BY <1>5, <1>6 DEF QueueOK
  <2> HIDE DEF h
  <2> QED BY <1>7, <2>1, <2>2
<1>9. \A i, j \in 1..Len(queue') : queue'[i] = queue'[j] => i = j
  <2> SUFFICES ASSUME NEW i \in 1..Len(queue'), NEW j \in 1..Len(queue'),
                      queue'[i] = queue'[j]
               PROVE  i = j
    OBVIOUS
  <2>1. i + 1 = j + 1
    BY <1>5, <1>6 DEF QueueOK
  <2> QED BY <2>1
<1> QED BY <1>2, <1>3, <1>4, <1>8, <1>9 DEF QueueOK

\* Moving the head of the rest to the end of the first part keeps the whole.
LEMMA HeadTailConcat ==
  ASSUME NEW S, NEW s \in Seq(S), s # <<>>
  PROVE  s = <<Head(s)>> \o Tail(s)
<1> DEFINE t == <<Head(s)>> \o Tail(s)
<1>1. /\ Head(s) \in S
      /\ Tail(s) \in Seq(S)
      /\ Len(s) \in Nat \ {0}
      /\ Len(Tail(s)) = Len(s) - 1
      /\ \A i \in 1..Len(Tail(s)) : Tail(s)[i] = s[i + 1]
  BY HeadTailProperties, EmptySeq
<1>2. <<Head(s)>> \in Seq(S) /\ Len(<<Head(s)>>) = 1
  BY <1>1
<1>3. /\ t \in Seq(S)
      /\ Len(t) = Len(s)
      /\ \A i \in 1..Len(s) : t[i] = IF i <= 1 THEN <<Head(s)>>[i] ELSE Tail(s)[i - 1]
  BY <1>1, <1>2, ConcatProperties
<1>4. ASSUME NEW i \in 1..Len(s) PROVE s[i] = t[i]
  <2>1. CASE i = 1
    BY <1>3, <2>1
  <2>2. CASE i # 1
    <3>1. i - 1 \in 1..Len(Tail(s)) /\ (i - 1) + 1 = i /\ ~(i <= 1)
      BY <1>1, <2>2
    <3> HIDE DEF t
    <3> QED BY <1>1, <1>3, <3>1
  <2> QED BY <2>1, <2>2
<1> HIDE DEF t
<1>5. s = t
  BY <1>3, <1>4, SeqEqual
<1> QED BY <1>5 DEF t

\* The basic invariant holds in the initial states.
LEMMA InitBase == Init => BaseInv
<1> SUFFICES ASSUME Init PROVE BaseInv
  OBVIOUS
<1>1. TypeOK
  BY InitTypeOK
<1>2. Kinds
  BY DEF Init, Kinds, PCsOf
<1>3. QueueOK
  <2>1. Len(queue) = 0
    BY EmptySeq DEF Init
  <2> QED BY <2>1 DEF QueueOK
<1>4. CallsOK
  BY SomeClients DEF Init, CallsOK
<1>5. FirstInFirstOut
  <2>1. <<>> \o <<>> = <<>>
    BY EmptySeq, ConcatEmptySeq
  <2> QED BY <2>1 DEF Init, FirstInFirstOut
<1> QED BY <1>1, <1>2, <1>3, <1>4, <1>5 DEF BaseInv

\* A thread that takes a call keeps the basic invariant.
LEMMA ServeBase == BaseInv /\ Serve => BaseInv'
<1> SUFFICES ASSUME BaseInv, Serve PROVE BaseInv'
  OBVIOUS
<1>1. TypeOK /\ Kinds /\ QueueOK /\ CallsOK /\ FirstInFirstOut
  BY DEF BaseInv
<1> DEFINE h == Head(queue)
<1>2. /\ h \in Clients
      /\ pc[h] \in Waiting
      /\ FirstPC(h) \in PCsOf(h)
      /\ FirstPC(h) \notin {"idle", "insert"}
      /\ QueueOK'
  BY <1>1, ServeHead
<1>3. PCsOf(h) \subseteq PCs
  BY Labels DEF PCsOf
<1>4. TypeOK'
  BY <1>1, <1>2, <1>3, ServeTypeOK
<1>5. Goto(h, FirstPC(h)) /\ UNCHANGED <<tx, sent, submitted, accepted, handed>>
  BY DEF Serve, pool, history
<1> HIDE DEF h
<1>6. Kinds'
  BY <1>1, <1>2, <1>5, GotoKinds
<1>7. CallsOK'
  BY <1>1, <1>2, <1>5, SomeClients DEF CallsOK, TypeOK, Goto, Waiting
<1>8. FirstInFirstOut'
  BY <1>1, <1>5 DEF FirstInFirstOut
<1> QED BY <1>2, <1>4, <1>6, <1>7, <1>8 DEF BaseInv

\* A step of client c that goes to l, where the queue either stays or gets
\* c: what is left to look at is the types, the calls and the order.
LEMMA ClientBase ==
  ASSUME BaseInv, NEW c \in Clients, NEW l \in PCsOf(c), pc[c] \notin Waiting,
         Goto(c, l),
         \/ UNCHANGED queue
         \/ l \in Waiting /\ queue' = Append(queue, c),
         TypeOK', CallsOK', FirstInFirstOut'
  PROVE  BaseInv'
  BY GotoKinds, MoveQueueOK, CallQueueOK DEF BaseInv

\* The steps of a wallet keep the basic invariant.
LEMMA WalletBase ==
  ASSUME BaseInv, NEW w \in Wallets, CallSend(w) \/ SendStep(w) \/ Disconnect(w)
  PROVE  BaseInv'
<1>1. TypeOK /\ CallsOK /\ FirstInFirstOut /\ w \in Clients
  BY SomeClients DEF BaseInv
<1>2. w \notin Queriers /\ w \notin Validators
  BY PoolAssumption
<1>3. PCsOf(w) = {"idle", "queued", "submit", "scan", "lookup", "yield", "gone"}
  BY <1>2 DEF PCsOf
<1>4. CASE CallSend(w)
  <2>1. TypeOK'
    BY <1>1, <1>4, CallTypeOK
  <2>2. sent[w] + 1 \in 1..SendsPerWallet
    BY <1>1, <1>4, NextIdType DEF CallSend
  <2>3. CallsOK'
    BY <1>1, <1>2, <1>4, <2>2, SomeClients DEF CallSend, CallsOK, TypeOK, Goto
  <2>4. FirstInFirstOut'
    BY <1>1, <1>4 DEF CallSend, FirstInFirstOut, pool, history
  <2> QED BY <1>1, <1>3, <1>4, <2>1, <2>3, <2>4, ClientBase DEF CallSend, Waiting
<1>5. CASE SubmitTransaction(w)
  <2>1. tx[w] \in TransactionIds
    BY <1>1, <1>5, PoolAssumption DEF CallsOK, SubmitTransaction
  <2>2. TypeOK'
    BY <1>1, <1>5, <2>1, PoolAssumption, SubmitTypeOK
  <2>3. CallsOK'
    BY <1>1, <1>2, <1>5, SomeClients DEF SubmitTransaction, CallsOK, TypeOK, Goto
  <2>4. FirstInFirstOut'
    <3>1. /\ accepted' = accepted \o <<tx[w]>>
          /\ submitted' = submitted \o <<tx[w]>>
          /\ <<tx[w]>> \in Seq(TransactionIds)
      BY <1>1, <1>5, <2>1, AppendIsConcat DEF SubmitTransaction, TypeOK
    <3>2. (handed \o submitted) \o <<tx[w]>> = handed \o (submitted \o <<tx[w]>>)
      <4>1. \A s, t, u \in Seq(TransactionIds) : (s \o t) \o u = s \o (t \o u)
        BY ConcatAssociative
      <4>2. handed \in Seq(TransactionIds) /\ submitted \in Seq(TransactionIds)
        BY <1>1 DEF TypeOK
      <4> QED BY <3>1, <4>1, <4>2
    <3> QED BY <1>1, <1>5, <3>1, <3>2 DEF SubmitTransaction, FirstInFirstOut
  <2> QED BY <1>1, <1>3, <1>5, <2>2, <2>3, <2>4, ClientBase
          DEF SubmitTransaction, Waiting
<1>6. ASSUME NEW l \in {"scan", "lookup", "yield", "idle", "gone"},
             pc[w] \notin Waiting \cup {"idle"}, Goto(w, l), TypeOK',
             UNCHANGED <<queue, tx, sent, submitted, accepted, handed>>
      PROVE  BaseInv'
  <2>1. CallsOK'
    BY <1>1, <1>2, <1>6, SomeClients DEF CallsOK, TypeOK, Goto
  <2>2. FirstInFirstOut'
    BY <1>1, <1>6 DEF FirstInFirstOut
  <2> QED BY <1>1, <1>3, <1>6, <2>1, <2>2, ClientBase
<1>7. CASE ScanMatch(w) \/ ScanNext(w) \/ ScanEnd(w) \/ Lookup(w) \/ YieldReply(w)
  <2>1. TypeOK'
    BY <1>1, <1>7, StreamTypeOK
  <2>2. CASE ScanMatch(w)
    BY <1>6, <2>1, <2>2 DEF ScanMatch, Waiting, pool, history
  <2>3. CASE ScanNext(w)
    <3>1. Goto(w, "scan")
      BY <1>1, <2>3 DEF ScanNext, TypeOK, Goto
    <3> QED BY <1>6, <2>1, <2>3, <3>1 DEF ScanNext, Waiting, pool, history
  <2>4. CASE ScanEnd(w)
    BY <1>6, <2>1, <2>4 DEF ScanEnd, Waiting, pool, history
  <2>5. CASE Lookup(w)
    BY <1>6, <2>1, <2>5 DEF Lookup, Waiting, pool, history
  <2>6. CASE YieldReply(w)
    BY <1>6, <2>1, <2>6 DEF YieldReply, Waiting, pool, history
  <2> QED BY <1>7, <2>2, <2>3, <2>4, <2>5, <2>6
<1>8. CASE Disconnect(w)
  <2>1. TypeOK'
    BY <1>1, <1>8, CallTypeOK
  <2> QED BY <1>6, <1>8, <2>1 DEF Disconnect, Waiting, pool, history
<1> QED BY <1>4, <1>5, <1>7, <1>8 DEF SendStep

\* The steps of a querier keep the basic invariant.
LEMMA QuerierBase ==
  ASSUME BaseInv, NEW q \in Queriers, CallTransaction(q) \/ TransactionStep(q)
  PROVE  BaseInv'
<1>1. TypeOK /\ CallsOK /\ FirstInFirstOut /\ q \in Clients
  BY SomeClients DEF BaseInv
<1>2. q \notin Wallets /\ q \notin Validators
  BY PoolAssumption
<1>3. PCsOf(q) = {"idle", "queued", "scan", "yield", "failed"}
  BY <1>2 DEF PCsOf
<1>4. TypeOK'
  BY <1>1, CallTypeOK, StreamTypeOK DEF TransactionStep
<1>5. FirstInFirstOut'
  BY <1>1 DEF CallTransaction, TransactionStep, ScanMatch, ScanNext, ScanEnd,
     YieldReply, FirstInFirstOut, pool, history
<1>6. ASSUME NEW l, Goto(q, l), UNCHANGED sent,
             \A c \in Clients : c # q => tx'[c] = tx[c]
      PROVE  CallsOK'
  BY <1>1, <1>2, <1>6, SomeClients DEF CallsOK, TypeOK, Goto
<1>7. CASE CallTransaction(q)
  <2>1. CallsOK'
    BY <1>1, <1>6, <1>7 DEF CallTransaction, TypeOK
  <2> QED BY <1>1, <1>3, <1>4, <1>5, <1>7, <2>1, ClientBase
          DEF CallTransaction, Waiting
<1>8. CASE ScanMatch(q)
  BY <1>1, <1>3, <1>4, <1>5, <1>6, <1>8, ClientBase DEF ScanMatch, Waiting
<1>9. CASE ScanNext(q)
  <2>1. Goto(q, "scan")
    BY <1>1, <1>9 DEF ScanNext, TypeOK, Goto
  <2> QED BY <1>1, <1>3, <1>4, <1>5, <1>6, <1>9, <2>1, ClientBase
          DEF ScanNext, Waiting
<1>10. CASE ScanEnd(q)
  BY <1>1, <1>2, <1>3, <1>4, <1>5, <1>6, <1>10, ClientBase DEF ScanEnd, Waiting
<1>11. CASE YieldReply(q)
  BY <1>1, <1>2, <1>3, <1>4, <1>5, <1>6, <1>11, ClientBase DEF YieldReply, Waiting
<1> QED BY <1>7, <1>8, <1>9, <1>10, <1>11 DEF TransactionStep

\* The steps of a validator keep the basic invariant; pop(0) is the one that
\* moves a transaction from submitted to handed.
LEMMA ValidatorBase ==
  ASSUME BaseInv, NEW v \in Validators,
         CallConfirm(v) \/ CallMove(v) \/ ConfirmStep(v) \/ MoveStep(v)
  PROVE  BaseInv'
<1>1. TypeOK /\ CallsOK /\ FirstInFirstOut /\ v \in Clients
  BY SomeClients DEF BaseInv
<1>2. v \notin Wallets /\ v \notin Queriers
  BY PoolAssumption
<1>3. PCsOf(v) = {"idle", "queued", "check", "pop", "insert", "mining",
                  "mqueued", "mcheck", "mpop", "failed"}
  BY <1>2 DEF PCsOf
<1>4. TypeOK'
  BY <1>1, CallTypeOK, ConfirmTypeOK DEF ConfirmStep, CallsOK, InsertUnconfirmed
<1>5. ASSUME NEW l, Goto(v, l), UNCHANGED sent,
             \A c \in Clients : c # v => tx'[c] = tx[c],
             l = "insert" => tx'[v] # NoTx
      PROVE  CallsOK'
  BY <1>1, <1>2, <1>5, SomeClients DEF CallsOK, TypeOK, Goto
<1>6. ASSUME NEW l \in PCsOf(v) \ {"insert"}, pc[v] \notin Waiting, Goto(v, l),
             UNCHANGED <<sent, submitted, accepted, handed>>,
             \A c \in Clients : c # v => tx'[c] = tx[c],
             \/ UNCHANGED queue
             \/ l \in Waiting /\ queue' = Append(queue, v)
      PROVE  BaseInv'
  <2>1. CallsOK'
    BY <1>5, <1>6
  <2>2. FirstInFirstOut'
    BY <1>1, <1>6 DEF FirstInFirstOut
  <2> QED BY <1>1, <1>4, <1>6, <2>1, <2>2, ClientBase
<1>7. CASE CallConfirm(v)
  BY <1>3, <1>6, <1>7 DEF CallConfirm, Waiting, pool, history
<1>8. CASE CallMove(v)
  <2>1. \A c \in Clients : c # v => tx'[c] = tx[c]
    BY <1>1, <1>8 DEF CallMove, TypeOK
  <2>2. CASE v \in NeverReport
    BY <1>3, <1>6, <1>8, <2>1, <2>2 DEF CallMove, Waiting, pool, history
  <2>3. CASE v \notin NeverReport
    BY <1>3, <1>6, <1>8, <2>1, <2>3 DEF CallMove, Waiting, pool, history
  <2> QED BY <2>2, <2>3
<1>9. CASE CheckSubmitted(v)
  <2>1. CASE submitted # <<>>
    BY <1>3, <1>6, <1>9, <2>1 DEF CheckSubmitted, Waiting, pool, history
  <2>2. CASE submitted = <<>>
    BY <1>3, <1>6, <1>9, <2>2 DEF CheckSubmitted, Waiting, pool, history
  <2> QED BY <2>1, <2>2
<1>10. CASE PopSubmitted(v)
  <2>1. /\ Head(submitted) \in TransactionIds
        /\ Tail(submitted) \in Seq(TransactionIds)
        /\ submitted = <<Head(submitted)>> \o Tail(submitted)
    BY <1>1, <1>10, HeadTailProperties, HeadTailConcat DEF PopSubmitted, TypeOK
  <2>2. CallsOK'
    BY <1>1, <1>5, <1>10, <2>1, PoolAssumption DEF PopSubmitted, TypeOK
  <2>3. FirstInFirstOut'
    <3>1. handed' = handed \o <<Head(submitted)>>
      BY <1>1, <1>10, <2>1, AppendIsConcat DEF PopSubmitted, TypeOK
    <3>2. \A s, t, u \in Seq(TransactionIds) : (s \o t) \o u = s \o (t \o u)
      BY ConcatAssociative, SMTT(30)
    <3>3. /\ handed \in Seq(TransactionIds)
          /\ <<Head(submitted)>> \in Seq(TransactionIds)
      BY <1>1, <2>1 DEF TypeOK
    <3>4. handed' \o submitted' = handed \o submitted
      BY <1>10, <2>1, <3>1, <3>2, <3>3 DEF PopSubmitted
    <3> QED BY <1>1, <1>10, <3>4 DEF PopSubmitted, FirstInFirstOut
  <2> QED BY <1>1, <1>3, <1>4, <1>10, <2>2, <2>3, ClientBase
          DEF PopSubmitted, Waiting
<1>11. CASE PopFails(v)
  BY <1>3, <1>6, <1>11 DEF PopFails, Waiting, pool, history
<1>12. CASE InsertUnconfirmed(v)
  BY <1>3, <1>6, <1>12 DEF InsertUnconfirmed, Waiting, history
<1>13. CASE CheckUnconfirmed(v)
  <2>1. \A c \in Clients : c # v => tx'[c] = tx[c]
    BY <1>1, <1>13 DEF CheckUnconfirmed, TypeOK
  <2>2. CASE tx[v] \in unconfirmed
    BY <1>3, <1>6, <1>13, <2>1, <2>2 DEF CheckUnconfirmed, Waiting, pool, history
  <2>3. CASE tx[v] \notin unconfirmed
    BY <1>3, <1>6, <1>13, <2>1, <2>3 DEF CheckUnconfirmed, Waiting, pool, history
  <2> QED BY <2>2, <2>3
<1>14. CASE PopUnconfirmed(v)
  <2>1. \A c \in Clients : c # v => tx'[c] = tx[c]
    BY <1>1, <1>14 DEF PopUnconfirmed, TypeOK
  <2> QED BY <1>3, <1>6, <1>14, <2>1 DEF PopUnconfirmed, Waiting
<1>15. CASE PopUnconfirmedFails(v)
  BY <1>3, <1>6, <1>15 DEF PopUnconfirmedFails, Waiting, pool, history
<1> QED BY <1>7, <1>8, <1>9, <1>10, <1>11, <1>12, <1>13, <1>14, <1>15
        DEF ConfirmStep, MoveStep

\* Every step keeps the basic invariant.
LEMMA NextBase == BaseInv /\ [Next]_vars => BaseInv'
<1> SUFFICES ASSUME BaseInv, [Next]_vars PROVE BaseInv'
  OBVIOUS
<1>1. CASE Next
  BY <1>1, ServeBase, WalletBase, QuerierBase, ValidatorBase DEF Next
<1>2. CASE UNCHANGED vars
  BY <1>2 DEF vars, BaseInv, TypeOK, Kinds, QueueOK, CallsOK, FirstInFirstOut
<1> QED BY <1>1, <1>2

\* The basic invariant holds in every reachable state.
LEMMA AlwaysBase == Spec => []BaseInv
<1>1. Init => BaseInv
  BY InitBase
<1>2. BaseInv /\ [Next]_vars => BaseInv'
  BY NextBase
<1> QED BY <1>1, <1>2, PTL DEF Spec

\* The variables of the pool always have their types, whatever handlers
\* overlap: no call is served twice and None is never stored.
THEOREM PoolTypes == Spec => []TypeOK
<1>1. BaseInv => TypeOK
  BY DEF BaseInv
<1> QED BY <1>1, AlwaysBase, PTL

\* Any number of overlapping confirm_transactions hand out every
\* transaction once and in the order of submission, fresh identifiers or not.
THEOREM HandedOutInOrder == Spec => []FirstInFirstOut
<1>1. BaseInv => FirstInFirstOut
  BY DEF BaseInv
<1> QED BY <1>1, AlwaysBase, PTL

-----------------------------------------------------------------------------
(* Fresh identifiers: every transaction is in one place.                   *)

Held == Range(submitted) \cup Inserting \cup unconfirmed \cup confirmed

Unsubmitted == {"queued", "submit"}

\* What the pool has seen was sent, and is none of the sends that have not
\* reached submit_transaction.
Sources ==
  \A t \in Held : \E w \in Wallets, n \in 1..SendsPerWallet :
     /\ t = IdOf[<<w, n>>]
     /\ n <= sent[w]
     /\ pc[w] \in Unsubmitted => n # sent[w]

OnePlace ==
  /\ \A i, j \in 1..Len(submitted) : submitted[i] = submitted[j] => i = j
  /\ Range(submitted) \cap (Inserting \cup unconfirmed \cup confirmed) = {}
  /\ Inserting \cap (unconfirmed \cup confirmed) = {}
  /\ unconfirmed \cap confirmed = {}

Holds(v) == tx[v] # NoTx /\ pc[v] # "failed"

\* A validator's batch is its own, and stays in "unconfirmed" until the
\* validator reports it.
Holders ==
  /\ \A u, v \in Validators : u # v /\ Holds(u) /\ Holds(v) => tx[u] # tx[v]
  /\ \A v \in Validators :
       /\ pc[v] \in {"idle", "queued", "check", "pop"} => tx[v] = NoTx
       /\ pc[v] \in {"mining", "mqueued", "mcheck", "mpop"} /\ tx[v] # NoTx
            => tx[v] \in unconfirmed
       /\ pc[v] = "mpop" => tx[v] # NoTx

FreshInv == Sources /\ OnePlace /\ Holders

\* The invariant for fresh identifiers holds in the initial states.
LEMMA InitFresh == Init => FreshInv /\ Queue!Init
<1> SUFFICES ASSUME Init PROVE FreshInv /\ Queue!Init
  OBVIOUS
<1>1. 1..Len(submitted) = {} /\ Range(submitted) = {}
  <2>1. submitted \in Seq({}) /\ Len(submitted) = 0
    BY EmptySeq DEF Init
  <2>2. DOMAIN submitted = {}
    BY <2>1, LenProperties
  <2> QED BY <2>1, <2>2 DEF Range
<1>0. Inserting = {} /\ unconfirmed = {} /\ confirmed = {}
  BY SomeClients DEF Init, Inserting
<1>2. Held = {}
  BY <1>0, <1>1 DEF Held
<1>3. Sources
  BY <1>2 DEF Sources
<1>4. OnePlace
  BY <1>0, <1>1 DEF OnePlace
<1>5. Holders
  BY SomeClients DEF Init, Holders, Holds
<1> QED BY <1>0, <1>3, <1>4, <1>5 DEF FreshInv, Queue!Init, Init

\* The members of a sequence with one more element.
LEMMA RangeAppend ==
  ASSUME NEW S, NEW s \in Seq(S), NEW e \in S
  PROVE  Range(Append(s, e)) = Range(s) \cup {e}
<1> DEFINE t == Append(s, e)
<1>1. /\ t \in Seq(S)
      /\ Len(s) \in Nat
      /\ Len(t) = Len(s) + 1
      /\ \A i \in 1..Len(s) : t[i] = s[i]
      /\ t[Len(s) + 1] = e
  BY AppendProperties, LenProperties
<1> HIDE DEF t
<1>2. DOMAIN t = 1..Len(t) /\ DOMAIN s = 1..Len(s)
  BY <1>1, LenProperties
<1>3. 1..Len(t) = 1..Len(s) \cup {Len(s) + 1}
  BY <1>1
<1> QED BY <1>1, <1>2, <1>3 DEF Range, t

\* Popping the head of a sequence without repetitions.
LEMMA RangeTail ==
  ASSUME NEW S, NEW s \in Seq(S), s # <<>>,
         \A i, j \in 1..Len(s) : s[i] = s[j] => i = j
  PROVE  /\ Head(s) \in Range(s)
         /\ Range(Tail(s)) = Range(s) \ {Head(s)}
         /\ \A i, j \in 1..Len(Tail(s)) : Tail(s)[i] = Tail(s)[j] => i = j
<1> DEFINE t == Tail(s)
<1>1. /\ t \in Seq(S)
      /\ Len(s) \in Nat \ {0}
      /\ Len(t) = Len(s) - 1
      /\ \A i \in 1..Len(t) : t[i] = s[i + 1]
      /\ Head(s) = s[1]
  BY HeadTailProperties, EmptySeq
<1> HIDE DEF t
<1>2. DOMAIN t = 1..Len(t) /\ DOMAIN s = 1..Len(s)
  BY <1>1, LenProperties
<1>3. /\ 1 \in 1..Len(s)
      /\ \A i \in 1..Len(t) : i + 1 \in 1..Len(s) /\ i + 1 # 1
      /\ \A i \in 1..Len(s) : i # 1 => i - 1 \in 1..Len(t) /\ (i - 1) + 1 = i
  BY <1>1
<1>4. Head(s) \in Range(s)
  BY <1>1, <1>2, <1>3 DEF Range
<1>5. ASSUME NEW x \in Range(t) PROVE x \in Range(s) \ {Head(s)}
  <2>1. PICK i \in 1..Len(t) : x = t[i]
    BY <1>2 DEF Range
  <2>2. x = s[i + 1] /\ i + 1 \in 1..Len(s) /\ i + 1 # 1
    BY <1>1, <1>3, <2>1
  <2> QED BY <1>1, <1>2, <1>3, <2>2 DEF Range
<1>6. ASSUME NEW x \in Range(s), x # Head(s) PROVE x \in Range(t)
  <2>1. PICK i \in 1..Len(s) : x = s[i]
    BY <1>2 DEF Range
  <2>2. i - 1 \in 1..Len(t) /\ t[i - 1] = x
    BY <1>1, <1>3, <1>6, <2>1
  <2> QED BY <1>2, <2>2 DEF Range
<1>7. \A i, j \in 1..Len(t) : t[i] = t[j] => i = j
  <2> SUFFICES ASSUME NEW i \in 1..Len(t), NEW j \in 1..Len(t), t[i] = t[j]
               PROVE  i = j
    OBVIOUS
  <2>1. i + 1 = j + 1
    BY <1>1, <1>3
  <2> QED BY <2>1
<1> QED BY <1>4, <1>5, <1>6, <1>7 DEF t

\* A validator that neither enters nor leaves the gap leaves Inserting alone.
LEMMA InsertingSame ==
  ASSUME TypeOK, NEW c \in Clients, NEW l, l # "insert", pc[c] # "insert",
         Goto(c, l), \A d \in Clients : d # c => tx'[d] = tx[d]
  PROVE  Inserting' = Inserting
<1>1. \A v \in Validators : /\ pc'[v] = "insert" <=> pc[v] = "insert"
                            /\ pc[v] = "insert" => tx'[v] = tx[v]
  BY SomeClients DEF TypeOK, Goto
<1> QED BY <1>1 DEF Inserting

\* A step that changes none of the places, and of client c only.
LEMMA QuietFresh ==
  ASSUME BaseInv, FreshInv, NEW c \in Clients, NEW l, Goto(c, l),
         l # "insert", pc[c] # "insert",
         UNCHANGED <<submitted, unconfirmed, confirmed>>,
         \A d \in Clients : d # c => tx'[d] = tx[d],
         Sources', Holders'
  PROVE  FreshInv' /\ UNCHANGED Queue!vars
<1>1. Inserting' = Inserting
  BY InsertingSame DEF BaseInv
<1> QED BY <1>1 DEF FreshInv, OnePlace, Queue!vars

\* A step of one client leaves the holders among the others alone.
LEMMA HoldersOfOthers ==
  ASSUME Holders, TypeOK, NEW c \in Wallets \cup Queriers, NEW l, Goto(c, l),
         \A d \in Clients : d # c => tx'[d] = tx[d],
         unconfirmed \subseteq unconfirmed'
  PROVE  Holders'
<1>1. \A v \in Validators : pc'[v] = pc[v] /\ tx'[v] = tx[v]
  BY PoolAssumption, SomeClients DEF TypeOK, Goto
<1> QED BY <1>1 DEF Holders, Holds

\* Every transaction stays in the place it is in.
LEMMA SourcesKept ==
  ASSUME Sources, TypeOK, NEW c \in Clients, NEW l, Goto(c, l), Held' \subseteq Held,
         c \in Wallets =>
           \/ sent' = sent /\ (l \in Unsubmitted => pc[c] \in Unsubmitted)
           \/ sent' = [sent EXCEPT ![c] = @ + 1],
         c \notin Wallets => sent' = sent
  PROVE  Sources'
<1> SUFFICES ASSUME NEW t \in Held'
             PROVE  \E w \in Wallets, n \in 1..SendsPerWallet :
                      /\ t = IdOf[<<w, n>>]
                      /\ n <= sent'[w]
                      /\ pc'[w] \in Unsubmitted => n # sent'[w]
  BY DEF Sources
<1>1. PICK w \in Wallets, n \in 1..SendsPerWallet :
        /\ t = IdOf[<<w, n>>]
        /\ n <= sent[w]
        /\ pc[w] \in Unsubmitted => n # sent[w]
  BY DEF Sources
<1>2. sent[w] \in Nat /\ n \in Nat
  BY PoolAssumption DEF TypeOK
<1>3. CASE w # c \/ c \notin Wallets
  <2>1. pc'[w] = pc[w] /\ sent'[w] = sent[w]
    BY <1>3, SomeClients DEF TypeOK, Goto
  <2> QED BY <1>1, <2>1
<1>4. CASE w = c /\ sent' = sent /\ (l \in Unsubmitted => pc[c] \in Unsubmitted)
  <2>1. pc'[w] = l
    BY <1>4, SomeClients DEF TypeOK, Goto
  <2> QED BY <1>1, <1>4, <2>1
<1>5. CASE w = c /\ sent' = [sent EXCEPT ![c] = @ + 1]
  <2>1. sent'[w] = sent[w] + 1
    BY <1>5 DEF TypeOK
  <2>2. n <= sent'[w] /\ n # sent'[w]
    BY <1>1, <1>2, <2>1
  <2> QED BY <1>1, <2>2
<1> QED BY <1>3, <1>4, <1>5

\* A thread that takes a call stutters for the abstract queue ...
LEMMA ServeFresh ==
  ASSUME BaseInv, FreshInv, Serve
  PROVE  FreshInv' /\ UNCHANGED Queue!vars
<1> DEFINE h == Head(queue)
<1>1. TypeOK /\ Kinds /\ QueueOK /\ CallsOK /\ Sources /\ Holders
  BY DEF BaseInv, FreshInv
<1>2. /\ h \in Clients
      /\ pc[h] \in Waiting
      /\ FirstPC(h) \in PCsOf(h)
      /\ FirstPC(h) # "insert"
  BY <1>1, ServeHead
<1>3. /\ Goto(h, FirstPC(h))
      /\ UNCHANGED <<tx, sent, submitted, unconfirmed, confirmed>>
  BY DEF Serve, pool, history
<1> HIDE DEF h
<1>4. Inserting' = Inserting
  BY <1>1, <1>2, <1>3, InsertingSame DEF Waiting
<1>5. h \in Wallets => pc[h] \in Unsubmitted
  BY <1>1, <1>2, PoolAssumption DEF Kinds, PCsOf, Waiting, Unsubmitted
<1>6. Sources'
  BY <1>1, <1>2, <1>3, <1>4, <1>5, SourcesKept DEF Held
<1>7. CASE h \in Validators
  <2>1. FirstPC(h) = IF pc[h] = "queued" THEN "check" ELSE "mcheck"
    BY <1>2, <1>7, PoolAssumption DEF FirstPC, Waiting
  <2>2. Holders'
    BY <1>1, <1>2, <1>3, <1>7, <2>1, SomeClients
       DEF Holders, Holds, TypeOK, Goto, Waiting
  <2> QED BY <1>2, <1>3, <1>6, <2>2, QuietFresh DEF Waiting
<1>8. CASE h \in Wallets \cup Queriers
  <2>1. Holders'
    BY <1>1, <1>3, <1>8, HoldersOfOthers
  <2> QED BY <1>2, <1>3, <1>6, <2>1, QuietFresh DEF Waiting
<1> QED BY <1>2, <1>7, <1>8 DEF Clients

\* ... and so does a querier.
LEMMA QuerierFresh ==
  ASSUME BaseInv, FreshInv, NEW q \in Queriers,
         CallTransaction(q) \/ TransactionStep(q)
  PROVE  FreshInv' /\ UNCHANGED Queue!vars
<1>1. TypeOK /\ Sources /\ Holders /\ q \in Clients
  BY SomeClients DEF BaseInv, FreshInv
<1>2. q \notin Wallets /\ q \notin Validators
  BY PoolAssumption
<1>3. ASSUME NEW l, Goto(q, l), l # "insert", pc[q] # "insert",
             UNCHANGED <<submitted, unconfirmed, confirmed, sent>>,
             \A d \in Clients : d # q => tx'[d] = tx[d]
      PROVE  FreshInv' /\ UNCHANGED Queue!vars
  <2>1. Inserting' = Inserting
    BY <1>1, <1>3, InsertingSame
  <2>2. Sources'
    BY <1>1, <1>2, <1>3, <2>1, SourcesKept DEF Held
  <2>3. Holders'
    BY <1>1, <1>3, HoldersOfOthers
  <2> QED BY <1>1, <1>3, <2>2, <2>3, QuietFresh
<1>4. CASE CallTransaction(q)
  <2>1. \A d \in Clients : d # q => tx'[d] = tx[d]
    BY <1>1, <1>4 DEF CallTransaction, TypeOK
  <2> QED BY <1>3, <1>4, <2>1 DEF CallTransaction, pool, history
<1>5. CASE ScanMatch(q)
  BY <1>3, <1>5 DEF ScanMatch, pool, history
<1>6. CASE ScanNext(q)
  <2>1. Goto(q, "scan")
    BY <1>1, <1>6 DEF ScanNext, TypeOK, Goto
  <2> QED BY <1>3, <1>6, <2>1 DEF ScanNext, pool, history
<1>7. CASE ScanEnd(q)
  BY <1>2, <1>3, <1>7 DEF ScanEnd, pool, history
<1>8. CASE YieldReply(q)
  BY <1>2, <1>3, <1>8 DEF YieldReply, pool, history
<1> QED BY <1>4, <1>5, <1>6, <1>7, <1>8 DEF TransactionStep

\* A submission is a Submit of the abstract queue.
LEMMA SubmitFresh ==
  ASSUME BaseInv, FreshInv, FreshIds, NEW w \in Wallets, SubmitTransaction(w)
  PROVE  FreshInv' /\ Queue!Submit(tx[w]) /\ tx[w] \in TransactionIds
<1>1. TypeOK /\ CallsOK /\ Sources /\ OnePlace /\ Holders /\ w \in Clients
  BY SomeClients DEF BaseInv, FreshInv
<1> DEFINE t == tx[w]
<1>2. /\ sent[w] \in 1..SendsPerWallet
      /\ t = IdOf[<<w, sent[w]>>]
      /\ t \in TransactionIds
  BY <1>1, PoolAssumption DEF CallsOK, SubmitTransaction
<1>3. t \notin Held
  <2> SUFFICES ASSUME t \in Held PROVE FALSE
    OBVIOUS
  <2>1. PICK u \in Wallets, n \in 1..SendsPerWallet :
          /\ t = IdOf[<<u, n>>]
          /\ n <= sent[u]
          /\ pc[u] \in Unsubmitted => n # sent[u]
    BY <1>1 DEF Sources
  <2>2. <<u, n>> \in DOMAIN IdOf /\ <<w, sent[w]>> \in DOMAIN IdOf
    BY <1>2, PoolAssumption
  <2>3. <<u, n>> = <<w, sent[w]>>
    BY <1>2, <2>1, <2>2 DEF FreshIds
  <2> QED BY <2>1, <2>3 DEF SubmitTransaction, Unsubmitted
<1>4. /\ submitted' = Append(submitted, t)
      /\ Range(submitted') = Range(submitted) \cup {t}
  BY <1>1, <1>2, RangeAppend DEF SubmitTransaction, TypeOK
<1>5. Goto(w, "scan") /\ UNCHANGED <<unconfirmed, confirmed, tx, sent>>
  BY DEF SubmitTransaction
<1>6. pc[w] = "submit"
  BY DEF SubmitTransaction
<1> HIDE DEF t
<1>7. Inserting' = Inserting
  BY <1>1, <1>5, <1>6, InsertingSame
<1>8. Sources'
  <2> SUFFICES ASSUME NEW x \in Held'
               PROVE  \E u \in Wallets, n \in 1..SendsPerWallet :
                        /\ x = IdOf[<<u, n>>]
                        /\ n <= sent'[u]
                        /\ pc'[u] \in Unsubmitted => n # sent'[u]
    BY DEF Sources
  <2>1. \A u \in Wallets : pc'[u] \in Unsubmitted => pc[u] \in Unsubmitted
    BY <1>1, <1>5, SomeClients DEF TypeOK, Goto, Unsubmitted
  <2>2. CASE x \in Held
    BY <1>1, <1>5, <2>1, <2>2 DEF Sources
  <2>3. CASE x = t
    <3>1. pc'[w] \notin Unsubmitted
      BY <1>1, <1>5 DEF TypeOK, Goto, Unsubmitted
    <3>2. sent[w] <= sent[w]
      BY <1>2, PoolAssumption
    <3> QED BY <1>2, <1>5, <2>3, <3>1, <3>2
  <2> QED BY <1>4, <1>5, <1>7, <2>2, <2>3 DEF Held
<1>9. OnePlace'
  <2>1. \A i, j \in 1..Len(submitted') : submitted'[i] = submitted'[j] => i = j
    <3>1. /\ Len(submitted') = Len(submitted) + 1
          /\ Len(submitted) \in Nat
          /\ \A i \in 1..Len(submitted) : submitted'[i] = submitted[i]
          /\ submitted'[Len(submitted) + 1] = t
      BY <1>1, <1>2, <1>4, AppendProperties, LenProperties DEF TypeOK
    <3>2. \A i \in 1..Len(submitted') : i \in 1..Len(submitted) \/ i = Len(submitted) + 1
      BY <3>1
    <3>3. \A i \in 1..Len(submitted) : submitted[i] # t
      <4>1. DOMAIN submitted = 1..Len(submitted)
        BY <1>1, LenProperties DEF TypeOK
      <4> QED BY <1>3, <4>1 DEF Held, Range
    <3> QED BY <1>1, <3>1, <3>2, <3>3 DEF OnePlace
  <2> QED BY <1>1, <1>3, <1>4, <1>5, <1>7, <2>1 DEF OnePlace, Held
<1>10. Holders'
  BY <1>1, <1>5, HoldersOfOthers
<1>11. Queue!Submit(t)
  <2>1. t \notin Queue!Known
    BY <1>3 DEF Queue!Known, Queue!Range, Held, Range
  <2> QED BY <1>4, <1>5, <1>7, <2>1 DEF Queue!Submit
<1> QED BY <1>2, <1>8, <1>9, <1>10, <1>11 DEF FreshInv, t

\* Of a wallet's steps only the submission is seen by the abstract queue.
LEMMA WalletFresh ==
  ASSUME BaseInv, FreshInv, FreshIds, NEW w \in Wallets,
         CallSend(w) \/ SendStep(w) \/ Disconnect(w)
  PROVE  FreshInv' /\ [Queue!Next]_Queue!vars
<1>1. TypeOK /\ Sources /\ Holders /\ w \in Clients
  BY SomeClients DEF BaseInv, FreshInv
<1>2. ASSUME NEW l, Goto(w, l), l # "insert", pc[w] # "insert",
             UNCHANGED <<submitted, unconfirmed, confirmed>>,
             \A d \in Clients : d # w => tx'[d] = tx[d],
             \/ sent' = sent /\ l \notin Unsubmitted
             \/ sent' = [sent EXCEPT ![w] = @ + 1]
      PROVE  FreshInv' /\ [Queue!Next]_Queue!vars
  <2>1. Inserting' = Inserting
    BY <1>1, <1>2, InsertingSame
  <2>2. Sources'
    BY <1>1, <1>2, <2>1, SourcesKept DEF Held
  <2>3. Holders'
    BY <1>1, <1>2, HoldersOfOthers
  <2> QED BY <1>1, <1>2, <2>2, <2>3, QuietFresh
<1>3. CASE CallSend(w)
  <2>1. \A d \in Clients : d # w => tx'[d] = tx[d]
    BY <1>1, <1>3 DEF CallSend, TypeOK
  <2> QED BY <1>2, <1>3, <2>1 DEF CallSend, pool, history
<1>4. CASE SubmitTransaction(w)
  BY <1>4, SubmitFresh DEF Queue!Next
<1>5. CASE ScanMatch(w)
  BY <1>2, <1>5 DEF ScanMatch, Unsubmitted, pool, history
<1>6. CASE ScanNext(w)
  <2>1. Goto(w, "scan")
    BY <1>1, <1>6 DEF ScanNext, TypeOK, Goto
  <2> QED BY <1>2, <1>6, <2>1 DEF ScanNext, Unsubmitted, pool, history
<1>7. CASE ScanEnd(w)
  BY <1>2, <1>7 DEF ScanEnd, Unsubmitted, pool, history
<1>8. CASE Lookup(w)
  BY <1>2, <1>8 DEF Lookup, Unsubmitted, pool, history
<1>9. CASE YieldReply(w)
  BY <1>2, <1>9 DEF YieldReply, Unsubmitted, pool, history
<1>10. CASE Disconnect(w)
  BY <1>2, <1>10 DEF Disconnect, Unsubmitted, pool, history
<1> QED BY <1>3, <1>4, <1>5, <1>6, <1>7, <1>8, <1>9, <1>10 DEF SendStep

\* Popping is a Take of the abstract queue: the transaction counts as taken
\* from the pop on, though the handler stores it only later.
LEMMA PopFresh ==
  ASSUME BaseInv, FreshInv, NEW v \in Validators, PopSubmitted(v)
  PROVE  FreshInv' /\ Queue!Take
<1>1. TypeOK /\ Sources /\ OnePlace /\ Holders /\ v \in Clients
  BY SomeClients DEF BaseInv, FreshInv
<1> DEFINE t == Head(submitted)
<1>2. /\ submitted # <<>>
      /\ submitted' = Tail(submitted)
      /\ tx' = [tx EXCEPT ![v] = t]
      /\ Goto(v, "insert")
      /\ pc[v] = "pop"
      /\ UNCHANGED <<unconfirmed, confirmed, sent>>
  BY DEF PopSubmitted
<1>3. /\ t \in Range(submitted)
      /\ Range(submitted') = Range(submitted) \ {t}
      /\ \A i, j \in 1..Len(submitted') : submitted'[i] = submitted'[j] => i = j
      /\ t \in TransactionIds
  <2>1. /\ submitted \in Seq(TransactionIds)
        /\ \A i, j \in 1..Len(submitted) : submitted[i] = submitted[j] => i = j
    BY <1>1 DEF TypeOK, OnePlace
  <2>2. t \in TransactionIds
    BY <1>2, <2>1, HeadTailProperties
  <2> QED BY <1>2, <2>1, <2>2, RangeTail
<1> HIDE DEF t
<1>4. /\ pc'[v] = "insert" /\ tx'[v] = t
      /\ \A u \in Validators : u # v => pc'[u] = pc[u] /\ tx'[u] = tx[u]
  BY <1>1, <1>2, SomeClients DEF TypeOK, Goto
<1>5. Inserting' = Inserting \cup {t}
  BY <1>2, <1>4 DEF Inserting
<1>6. Sources'
  <2>1. Held' \subseteq Held
    BY <1>2, <1>3, <1>5 DEF Held
  <2>2. v \notin Wallets
    BY PoolAssumption
  <2> QED BY <1>1, <1>2, <2>1, <2>2, SourcesKept
<1>7. OnePlace'
  BY <1>1, <1>2, <1>3, <1>5 DEF OnePlace
<1>8. Holders'
  <2>1. \A u \in Validators : Holds(u) => tx[u] # t
    <3> SUFFICES ASSUME NEW u \in Validators, Holds(u) PROVE tx[u] # t
      OBVIOUS
    <3>1. CASE pc[u] = "insert"
      BY <1>1, <1>3, <3>1 DEF OnePlace, Inserting
    <3>2. CASE pc[u] # "insert"
      <4>1. pc[u] \in PCsOf(u)
        BY SomeClients DEF BaseInv, Kinds
      <4>2. pc[u] \in {"mining", "mqueued", "mcheck", "mpop"}
        BY <1>1, <3>2, <4>1, PoolAssumption DEF PCsOf, Holders, Holds
      <4> QED BY <1>1, <1>3, <4>2 DEF Holders, Holds, OnePlace
    <3> QED BY <3>1, <3>2
  <2> QED BY <1>1, <1>2, <1>4, <2>1 DEF Holders, Holds
<1>9. Queue!Take
  BY <1>2, <1>5 DEF Queue!Take, t
<1> QED BY <1>6, <1>7, <1>8, <1>9 DEF FreshInv

\* The insert that ends the gap is a stutter.
LEMMA InsertFresh ==
  ASSUME BaseInv, FreshInv, NEW v \in Validators, InsertUnconfirmed(v)
  PROVE  FreshInv' /\ UNCHANGED Queue!vars
<1>1. /\ TypeOK /\ Sources /\ OnePlace /\ Holders /\ v \in Clients
      /\ tx[v] # NoTx
  BY SomeClients DEF BaseInv, FreshInv, CallsOK, InsertUnconfirmed
<1>2. /\ pc[v] = "insert"
      /\ unconfirmed' = unconfirmed \cup {tx[v]}
      /\ Goto(v, "mining")
      /\ UNCHANGED <<submitted, confirmed, tx, sent>>
  BY DEF InsertUnconfirmed, history
<1>3. /\ pc'[v] = "mining"
      /\ \A u \in Validators : u # v => pc'[u] = pc[u]
  BY <1>1, <1>2, SomeClients DEF TypeOK, Goto
<1>4. \A u \in Validators : u # v /\ pc[u] = "insert" => tx[u] # tx[v]
  <2>1. \A u \in Validators : pc[u] = "insert" => Holds(u)
    BY DEF BaseInv, CallsOK, Holds
  <2> QED BY <1>1, <1>2, <2>1 DEF Holders
<1>5. tx[v] \in Inserting /\ Inserting' = Inserting \ {tx[v]}
  BY <1>2, <1>3, <1>4 DEF Inserting
<1>6. Sources'
  <2>1. Held' \subseteq Held
    BY <1>2, <1>5 DEF Held
  <2>2. v \notin Wallets
    BY PoolAssumption
  <2> QED BY <1>1, <1>2, <2>1, <2>2, SourcesKept
<1>7. OnePlace'
  BY <1>1, <1>2, <1>5 DEF OnePlace
<1>8. Holders'
  BY <1>1, <1>2, <1>3 DEF Holders, Holds
<1> QED BY <1>2, <1>5, <1>6, <1>7, <1>8 DEF FreshInv, Queue!vars

\* The pop of a reported transaction is a Report.
LEMMA ReportFresh ==
  ASSUME BaseInv, FreshInv, NEW v \in Validators, PopUnconfirmed(v)
  PROVE  /\ FreshInv'
         /\ tx[v] \in TransactionIds /\ Queue!Report(tx[v])
<1>1. TypeOK /\ Sources /\ OnePlace /\ Holders /\ v \in Clients
  BY SomeClients DEF BaseInv, FreshInv
<1> DEFINE t == tx[v]
<1>2. /\ pc[v] = "mpop"
      /\ t \in unconfirmed
      /\ unconfirmed' = unconfirmed \ {t}
      /\ confirmed' = confirmed \cup {t}
      /\ tx' = [tx EXCEPT ![v] = NoTx]
      /\ Goto(v, "idle")
      /\ UNCHANGED <<submitted, sent>>
  BY DEF PopUnconfirmed
<1> HIDE DEF t
<1>3. /\ pc'[v] = "idle" /\ tx'[v] = NoTx
      /\ \A u \in Clients : u # v => pc'[u] = pc[u] /\ tx'[u] = tx[u]
  BY <1>1, <1>2 DEF TypeOK, Goto
<1>4. Inserting' = Inserting
  BY <1>1, <1>2, <1>3, InsertingSame
<1>5. Sources'
  <2>1. Held' \subseteq Held
    BY <1>2, <1>4 DEF Held
  <2>2. v \notin Wallets
    BY PoolAssumption
  <2> QED BY <1>1, <1>2, <1>3, <2>1, <2>2, SourcesKept
<1>6. OnePlace'
  BY <1>1, <1>2, <1>4 DEF OnePlace
<1>7. Holders'
  <2>1. \A u \in Validators : u # v /\ Holds(u) => tx[u] # t
    BY <1>1, <1>2 DEF Holders, Holds, t
  <2> QED BY <1>1, <1>2, <1>3, <2>1, SomeClients DEF Holders, Holds
<1>8. t \in TransactionIds
  BY <1>1, <1>2 DEF TypeOK
<1>9. Queue!Report(t)
  BY <1>1, <1>2, <1>4 DEF Queue!Report, OnePlace
<1> QED BY <1>5, <1>6, <1>7, <1>8, <1>9 DEF FreshInv, t

\* The steps of a validator are Take, Report or stutters.
LEMMA ValidatorFresh ==
  ASSUME BaseInv, FreshInv, NEW v \in Validators,
         CallConfirm(v) \/ CallMove(v) \/ ConfirmStep(v) \/ MoveStep(v)
  PROVE  FreshInv' /\ [Queue!Next]_Queue!vars
<1>1. TypeOK /\ Sources /\ OnePlace /\ Holders /\ v \in Clients
  BY SomeClients DEF BaseInv, FreshInv
<1>2. v \notin Wallets
  BY PoolAssumption
<1>3. ASSUME NEW l, Goto(v, l), l # "insert", pc[v] # "insert",
             UNCHANGED <<submitted, unconfirmed, confirmed, sent>>,
             tx' = tx \/ tx' = [tx EXCEPT ![v] = NoTx],
             l \in {"idle", "queued", "check", "pop"} => tx'[v] = NoTx,
             l \in {"mining", "mqueued", "mcheck", "mpop"} /\ tx'[v] # NoTx
               => tx[v] \in unconfirmed,
             l = "mpop" => tx'[v] # NoTx,
             pc[v] # "failed"
      PROVE  FreshInv' /\ [Queue!Next]_Queue!vars
  <2>1. /\ pc'[v] = l
        /\ tx'[v] = tx[v] \/ tx'[v] = NoTx
        /\ \A u \in Clients : u # v => pc'[u] = pc[u] /\ tx'[u] = tx[u]
    BY <1>1, <1>3 DEF TypeOK, Goto
  <2>2. Inserting' = Inserting
    BY <1>1, <1>3, <2>1, InsertingSame
  <2>3. Sources'
    BY <1>1, <1>2, <1>3, <2>2, SourcesKept DEF Held
  <2>4. Holders'
    BY <1>1, <1>3, <2>1, SomeClients DEF Holders, Holds
  <2> QED BY <1>1, <1>3, <2>1, <2>3, <2>4, QuietFresh
<1>4. CASE CallConfirm(v)
  BY <1>1, <1>3, <1>4 DEF CallConfirm, Holders, pool, history
<1>5. CASE CallMove(v)
  <2>1. tx[v] # NoTx => tx[v] \in unconfirmed
    BY <1>1, <1>5 DEF CallMove, Holders
  <2>2. CASE v \in NeverReport
    <3>1. CASE tx[v] = NoTx
      BY <1>3, <1>5, <2>2, <3>1 DEF CallMove, pool, history
    <3>2. CASE tx[v] # NoTx
      BY <1>3, <1>5, <2>2, <3>2 DEF CallMove, pool, history
    <3> QED BY <3>1, <3>2
  <2>3. CASE v \notin NeverReport
    BY <1>3, <1>5, <2>1, <2>3 DEF CallMove, pool, history
  <2> QED BY <2>2, <2>3
<1>6. CASE CheckSubmitted(v)
  <2>1. tx[v] = NoTx
    BY <1>1, <1>6 DEF CheckSubmitted, Holders
  <2>2. CASE submitted # <<>>
    BY <1>3, <1>6, <2>1, <2>2 DEF CheckSubmitted, pool, history
  <2>3. CASE submitted = <<>>
    BY <1>3, <1>6, <2>1, <2>3 DEF CheckSubmitted, pool, history
  <2> QED BY <2>2, <2>3
<1>7. CASE PopSubmitted(v)
  BY <1>7, PopFresh DEF Queue!Next
<1>8. CASE PopFails(v)
  BY <1>3, <1>8 DEF PopFails, pool, history
<1>9. CASE InsertUnconfirmed(v)
  BY <1>9, InsertFresh
<1>10. CASE CheckUnconfirmed(v)
  <2>1. CASE tx[v] \in unconfirmed
    <3>1. tx[v] # NoTx
      BY <1>1, <2>1, PoolAssumption DEF TypeOK
    <3> QED BY <1>3, <1>10, <2>1, <3>1 DEF CheckUnconfirmed, pool, history
  <2>2. CASE tx[v] \notin unconfirmed
    <3>1. tx'[v] = NoTx
      BY <1>1, <1>10, <2>2 DEF CheckUnconfirmed, TypeOK
    <3> QED BY <1>3, <1>10, <2>2, <3>1 DEF CheckUnconfirmed, pool, history
  <2> QED BY <2>1, <2>2
<1>11. CASE PopUnconfirmed(v)
  BY <1>11, ReportFresh DEF Queue!Next
<1>12. CASE PopUnconfirmedFails(v)
  BY <1>3, <1>12 DEF PopUnconfirmedFails, pool, history
<1> QED BY <1>4, <1>5, <1>6, <1>7, <1>8, <1>9, <1>10, <1>11, <1>12
        DEF ConfirmStep, MoveStep

\* Every step is one of the abstract queue or a stutter.
LEMMA NextFresh ==
  ASSUME FreshIds
  PROVE  BaseInv /\ FreshInv /\ [Next]_vars => FreshInv' /\ [Queue!Next]_Queue!vars
<1> SUFFICES ASSUME BaseInv, FreshInv, [Next]_vars
             PROVE  FreshInv' /\ [Queue!Next]_Queue!vars
  OBVIOUS
<1>1. CASE Next
  BY <1>1, ServeFresh, WalletFresh, QuerierFresh, ValidatorFresh DEF Next
<1>2. CASE UNCHANGED vars
  <2>1. UNCHANGED Queue!vars
    BY <1>2 DEF vars, Queue!vars, Inserting
  <2>2. FreshInv'
    BY <1>2 DEF vars, FreshInv, Sources, OnePlace, Holders, Holds, Held, Inserting
  <2> QED BY <2>1, <2>2
<1> QED BY <1>1, <1>2

\* With fresh identifiers no call of move_to_confirm ends in KeyError: the
\* transaction its check found is still in "unconfirmed" when it is popped.
THEOREM NoKeyError == Spec => []CheckedStaysUnconfirmed
<1>1. CASE FreshIds
  <2>1. Init => FreshInv
    BY InitFresh
  <2>2. BaseInv /\ FreshInv /\ [Next]_vars => FreshInv'
    BY <1>1, NextFresh
  <2>3. FreshInv => CheckedStaysUnconfirmed
    BY DEF FreshInv, Holders, CheckedStaysUnconfirmed
  <2> QED BY <2>1, <2>2, <2>3, AlwaysBase, PTL DEF Spec
<1>2. CASE ~FreshIds
  <2>1. CheckedStaysUnconfirmed
    BY <1>2 DEF CheckedStaysUnconfirmed
  <2> QED BY <2>1, PTL
<1> QED BY <1>1, <1>2

\* With fresh identifiers the pool, threads, races and failing handlers
\* included, implements the abstract queue: a transaction enters once, is
\* taken in order, and is done only after a validator took it.
THEOREM PoolImplementsQueue ==
  ASSUME FreshIds
  PROVE  Spec => ImplementsQueue
<1>1. Init => FreshInv /\ Queue!Init
  BY InitFresh
<1>2. BaseInv /\ FreshInv /\ [Next]_vars => FreshInv' /\ [Queue!Next]_Queue!vars
  BY NextFresh
<1> QED BY <1>1, <1>2, AlwaysBase, PTL DEF Spec, ImplementsQueue, Queue!Spec

-----------------------------------------------------------------------------
(* The stream of a send: what its scan and its lookup have seen.           *)

\* What a wallet's scan has looked at is not its transaction, unless a pop
\* moved the list under it; so a scan that ends without a match has not
\* missed it.
StreamInv(w) ==
  /\ pc[w] # "scan" => index[w] = 1
  /\ pc[w] \in ScanPCs => tx[w] \in Held
  /\ pc[w] = "scan" /\ ~raced[w] =>
       \A k \in 1..Len(submitted) : k < index[w] => submitted[k] # tx[w]
  /\ pc[w] = "lookup" /\ ~raced[w] => tx[w] \notin Range(submitted)
  /\ pc[w] = "yield" /\ reply[w] = "Confirmed" /\ ~raced[w] => tx[w] \in confirmed

StreamsInv == \A w \in Wallets : StreamInv(w)

\* No send is under way in the initial states.
LEMMA InitStreams == Init => StreamsInv
BY SomeClients DEF Init, StreamsInv, StreamInv, ScanPCs

\* No step takes a transaction out of the pool's sight, or a report back.
LEMMA HeldGrows ==
  ASSUME BaseInv, FreshInv, [Queue!Next]_Queue!vars
  PROVE  Held \subseteq Held' /\ confirmed \subseteq confirmed'
<1> USE DEF Queue!Known
<1>1. Held = Range(submitted) \cup (unconfirmed \cup Inserting) \cup confirmed
  BY DEF Held
<1>2. CASE UNCHANGED Queue!vars
  BY <1>2 DEF Queue!vars, Held
<1>3. ASSUME NEW t \in TransactionIds, Queue!Submit(t)
      PROVE  Held \subseteq Held' /\ confirmed \subseteq confirmed'
  <2>1. Range(submitted') = Range(submitted) \cup {t}
    BY <1>3, RangeAppend DEF Queue!Submit, BaseInv, TypeOK
  <2> QED BY <1>3, <2>1 DEF Queue!Submit, Held
<1>4. CASE Queue!Take
  <2>1. Range(submitted') = Range(submitted) \ {Head(submitted)}
    BY <1>4, RangeTail DEF Queue!Take, BaseInv, TypeOK, FreshInv, OnePlace
  <2> QED BY <1>4, <2>1 DEF Queue!Take, Held
<1>5. ASSUME NEW t \in TransactionIds, Queue!Report(t)
      PROVE  Held \subseteq Held' /\ confirmed \subseteq confirmed'
  BY <1>5 DEF Queue!Report, Held
<1> QED BY <1>2, <1>3, <1>4, <1>5 DEF Queue!Next

\* A step that does not concern the wallet.
LEMMA StreamKept ==
  ASSUME TypeOK, NEW w \in Wallets, StreamInv(w),
         pc'[w] = pc[w], tx'[w] = tx[w], index'[w] = index[w],
         reply'[w] = reply[w], raced'[w] = raced[w],
         Held \subseteq Held', confirmed \subseteq confirmed',
         UNCHANGED submitted
  PROVE  StreamInv(w)'
BY DEF StreamInv

\* What the two lemmas before establish of a step.
Grows == Held \subseteq Held' /\ confirmed \subseteq confirmed'

\* A thread that takes a send starts at its submission.
LEMMA ServeStreams ==
  ASSUME BaseInv, StreamsInv, Grows, Serve
  PROVE  StreamsInv'
<1> SUFFICES ASSUME NEW w \in Wallets PROVE StreamInv(w)'
  BY DEF StreamsInv
<1>1. TypeOK /\ w \in Clients /\ StreamInv(w)
  BY SomeClients DEF BaseInv, StreamsInv
<1> DEFINE h == Head(queue)
<1>2. h \in Clients /\ pc[h] \in Waiting
  BY ServeHead DEF BaseInv
<1>3. Goto(h, FirstPC(h)) /\ UNCHANGED <<submitted, tx, index, reply, raced>>
  BY DEF Serve, pool
<1>4. CASE h = w
  <2>1. FirstPC(w) = "submit"
    BY PoolAssumption DEF FirstPC
  <2>2. pc'[w] = "submit" /\ pc[w] # "scan"
    BY <1>1, <1>2, <1>3, <1>4, <2>1 DEF Goto, TypeOK, Waiting
  <2> QED BY <1>1, <1>3, <2>2 DEF StreamInv, ScanPCs
<1>5. CASE h # w
  <2>1. pc'[w] = pc[w]
    BY <1>1, <1>2, <1>3, <1>5 DEF Goto, TypeOK
  <2> QED BY <1>1, <1>3, <2>1, StreamKept DEF Grows
<1> QED BY <1>4, <1>5

\* Two sends that are under way have different transactions.
LEMMA SendsDiffer ==
  ASSUME FreshIds, BaseInv, NEW u \in Wallets, NEW w \in Wallets, u # w,
         pc[u] # "idle", pc[w] # "idle"
  PROVE  tx[u] # tx[w]
<1>1. /\ sent[u] \in 1..SendsPerWallet /\ tx[u] = IdOf[<<u, sent[u]>>]
      /\ sent[w] \in 1..SendsPerWallet /\ tx[w] = IdOf[<<w, sent[w]>>]
  BY DEF BaseInv, CallsOK
<1>2. <<u, sent[u]>> \in DOMAIN IdOf /\ <<w, sent[w]>> \in DOMAIN IdOf
  BY <1>1, PoolAssumption
<1> QED BY <1>1, <1>2 DEF FreshIds

\* A submission starts a scan, and is not what another stream looks for.
LEMMA SubmitStreams ==
  ASSUME FreshIds, BaseInv, FreshInv, StreamsInv, Grows,
         NEW u \in Wallets, SubmitTransaction(u)
  PROVE  StreamsInv'
<1> SUFFICES ASSUME NEW w \in Wallets PROVE StreamInv(w)'
  BY DEF StreamsInv
<1>1. TypeOK /\ w \in Clients /\ u \in Clients /\ StreamInv(w)
  BY SomeClients DEF BaseInv, StreamsInv
<1>2. /\ Goto(u, "scan") /\ pc[u] = "submit"
      /\ submitted' = Append(submitted, tx[u])
      /\ raced' = [raced EXCEPT ![u] = FALSE]
      /\ UNCHANGED <<tx, index, reply, confirmed>>
  BY DEF SubmitTransaction
<1>t. tx[u] \in TransactionIds
  BY SubmitFresh
<1>3. Range(submitted') = Range(submitted) \cup {tx[u]}
  BY <1>1, <1>2, <1>t, RangeAppend DEF TypeOK
<1>4. /\ Len(submitted') = Len(submitted) + 1
      /\ Len(submitted) \in Nat
      /\ \A k \in 1..Len(submitted) : submitted'[k] = submitted[k]
      /\ submitted'[Len(submitted) + 1] = tx[u]
  BY <1>1, <1>2, <1>t, AppendProperties, LenProperties DEF TypeOK
<1>5. CASE w = u
  <2>1. pc'[w] = "scan" /\ index'[w] = 1 /\ tx'[w] \in Held'
    BY <1>1, <1>2, <1>3, <1>5 DEF Goto, TypeOK, StreamInv, Held
  <2>2. \A k \in 1..Len(submitted') : ~(k < 1)
    BY <1>4
  <2> QED BY <2>1, <2>2 DEF StreamInv
<1>6. CASE w # u
  <2>1. pc'[w] = pc[w] /\ raced'[w] = raced[w]
    BY <1>1, <1>2, <1>6 DEF Goto, TypeOK
  <2>2. pc[w] \in ScanPCs => tx[u] # tx[w]
    BY <1>2, <1>6, SendsDiffer DEF ScanPCs
  <2>3. \A k \in 1..Len(submitted') : k \in 1..Len(submitted) \/ k = Len(submitted) + 1
    BY <1>4
  <2> QED BY <1>1, <1>2, <1>3, <1>4, <2>1, <2>2, <2>3 DEF StreamInv, ScanPCs, Grows
<1> QED BY <1>5, <1>6

\* A pop marks the scans it overlaps, and adds nothing to the list.
LEMMA PopStreams ==
  ASSUME BaseInv, FreshInv, StreamsInv, Grows, NEW v \in Validators, PopSubmitted(v)
  PROVE  StreamsInv'
<1> SUFFICES ASSUME NEW w \in Wallets PROVE StreamInv(w)'
  BY DEF StreamsInv
<1>1. TypeOK /\ w \in Clients /\ v \in Clients /\ w # v /\ StreamInv(w)
  BY SomeClients, PoolAssumption DEF BaseInv, StreamsInv
<1>2. Range(submitted') \subseteq Range(submitted)
  BY RangeTail, ZenonT(30) DEF PopSubmitted, BaseInv, TypeOK, FreshInv, OnePlace
<1>3. /\ pc'[w] = pc[w] /\ tx'[w] = tx[w] /\ index'[w] = index[w] /\ reply'[w] = reply[w]
      /\ raced'[w] = (raced[w] \/ pc[w] = "scan")
  BY <1>1 DEF PopSubmitted, TypeOK, Goto
<1> QED BY <1>1, <1>2, <1>3 DEF StreamInv, Grows

\* The steps of a wallet leave the streams of the others alone.
LEMMA WalletStreams ==
  ASSUME FreshIds, BaseInv, FreshInv, StreamsInv, Grows, NEW u \in Wallets,
         CallSend(u) \/ SendStep(u) \/ Disconnect(u)
  PROVE  StreamsInv'
<1> SUFFICES ASSUME NEW w \in Wallets, ~SubmitTransaction(u) PROVE StreamInv(w)'
  BY SubmitStreams DEF StreamsInv
<1> USE DEF Goto, pool, history
<1>1. TypeOK /\ w \in Clients /\ u \in Clients /\ StreamInv(w)
  BY SomeClients DEF BaseInv, StreamsInv
<1>2. /\ UNCHANGED <<submitted, unconfirmed, confirmed>>
      /\ w # u => /\ pc'[w] = pc[w] /\ tx'[w] = tx[w] /\ index'[w] = index[w]
                  /\ reply'[w] = reply[w] /\ raced'[w] = raced[w]
  BY <1>1 DEF CallSend, SendStep, ScanMatch, ScanNext, ScanEnd, Lookup,
       YieldReply, Disconnect, TypeOK
<1>3. CASE w # u
  BY <1>1, <1>2, <1>3, StreamKept DEF Grows
<1>4. CASE w = u
  <2>1. CASE CallSend(u)
    BY <1>1, <1>4, <2>1 DEF CallSend, StreamInv, ScanPCs, TypeOK
  <2>2. CASE ScanMatch(u)
    <3>1. /\ pc'[w] = "yield" /\ index'[w] = 1 /\ reply'[w] = "Submitted"
          /\ tx'[w] = tx[w] /\ pc[w] = "scan"
      BY <1>1, <1>4, <2>2 DEF ScanMatch, TypeOK
    <3> QED BY <1>1, <3>1 DEF StreamInv, ScanPCs, Grows
  <2>3. CASE ScanNext(u)
    <3>1. /\ pc'[w] = "scan" /\ pc[w] = "scan" /\ index'[w] = index[w] + 1
          /\ tx'[w] = tx[w] /\ raced'[w] = raced[w]
          /\ index[w] <= Len(submitted) /\ submitted[index[w]] # tx[w]
      BY <1>1, <1>4, <2>3 DEF ScanNext, Found, TypeOK
    <3>2. index[w] \in Nat /\ Len(submitted) \in Nat
      BY <1>1, LenProperties DEF TypeOK
    <3>3. \A k \in 1..Len(submitted) : k < index[w] + 1 => k < index[w] \/ k = index[w]
      BY <3>2
    <3> QED BY <1>1, <1>2, <3>1, <3>3 DEF StreamInv, ScanPCs, Grows
  <2>4. CASE ScanEnd(u)
    <3>1. /\ pc'[w] = "lookup" /\ pc[w] = "scan" /\ index'[w] = 1
          /\ tx'[w] = tx[w] /\ raced'[w] = raced[w] /\ index[w] > Len(submitted)
      BY <1>1, <1>4, <2>4 DEF ScanEnd, TypeOK
    <3>2. index[w] \in Nat /\ Len(submitted) \in Nat /\ DOMAIN submitted = 1..Len(submitted)
      BY <1>1, LenProperties DEF TypeOK
    <3>3. \A k \in 1..Len(submitted) : k < index[w]
      BY <3>1, <3>2
    <3>4. ~raced[w] => tx[w] \notin Range(submitted)
      BY <1>1, <3>1, <3>2, <3>3 DEF StreamInv, Range
    <3> QED BY <1>1, <1>2, <3>1, <3>4 DEF StreamInv, ScanPCs, Grows
  <2>5. CASE Lookup(u)
    <3>1. /\ pc'[w] = "yield" /\ pc[w] = "lookup" /\ index'[w] = index[w]
          /\ tx'[w] = tx[w] /\ (raced'[w] <=> raced[w] \/ InTheGap(w))
          /\ reply'[w] = IF tx[w] \in unconfirmed THEN "Unconfirmed" ELSE "Confirmed"
      BY <1>1, <1>4, <2>5 DEF Lookup, TypeOK
    <3>2. ~InTheGap(w) => tx[w] \notin Inserting
      BY DEF InTheGap, Inserting
    <3>3. reply'[w] = "Confirmed" /\ ~raced'[w] => tx[w] \in confirmed
      BY <1>1, <3>1, <3>2 DEF StreamInv, ScanPCs, Held
    <3> QED BY <1>1, <1>2, <3>1, <3>3 DEF StreamInv, ScanPCs, Grows
  <2>6. CASE YieldReply(u)
    <3>1. /\ pc'[w] \in {"scan", "idle"} /\ pc[w] = "yield" /\ index'[w] = index[w]
          /\ tx'[w] = tx[w]
      BY <1>1, <1>4, <2>6 DEF YieldReply, TypeOK
    <3>2. Len(submitted) \in Nat
      BY <1>1, LenProperties DEF TypeOK
    <3>3. \A k \in 1..Len(submitted) : ~(k < 1)
      BY <3>2
    <3> QED BY <1>1, <1>2, <3>1, <3>3 DEF StreamInv, ScanPCs, Grows
  <2>7. CASE Disconnect(u)
    BY <1>1, <1>4, <2>7 DEF Disconnect, StreamInv, ScanPCs, TypeOK
  <2> QED BY <2>1, <2>2, <2>3, <2>4, <2>5, <2>6, <2>7 DEF SendStep
<1> QED BY <1>3, <1>4

\* So do the steps of queriers, and those of validators but for the pop.
LEMMA OtherStreams ==
  ASSUME BaseInv, FreshInv, StreamsInv, Grows, NEW c \in Queriers \cup Validators,
         \/ c \in Queriers /\ (CallTransaction(c) \/ TransactionStep(c))
         \/ c \in Validators /\ (CallConfirm(c) \/ CallMove(c) \/ ConfirmStep(c) \/ MoveStep(c))
  PROVE  StreamsInv'
<1> SUFFICES ASSUME NEW w \in Wallets, ~(c \in Validators /\ PopSubmitted(c))
             PROVE  StreamInv(w)'
  BY PopStreams DEF StreamsInv
<1>1. TypeOK /\ w \in Clients /\ c \in Clients /\ w # c /\ StreamInv(w)
  BY SomeClients, PoolAssumption DEF BaseInv, StreamsInv
<1>2. /\ UNCHANGED submitted
      /\ pc'[w] = pc[w] /\ tx'[w] = tx[w] /\ index'[w] = index[w]
      /\ reply'[w] = reply[w] /\ raced'[w] = raced[w]
  <2> USE DEF Goto, pool, history, TypeOK
  <2>1. CASE c \in Queriers
    <3>1. c \notin Validators /\ c \notin Wallets
      BY <2>1, PoolAssumption
    <3> QED BY <1>1, <3>1 DEF CallTransaction, TransactionStep, ScanMatch, ScanNext,
          ScanEnd, YieldReply
  <2>2. CASE c \in Validators
    <3>1. c \notin Queriers /\ c \notin Wallets
      BY <2>2, PoolAssumption
    <3> QED BY <1>1, <2>2, <3>1 DEF CallConfirm, CallMove, ConfirmStep, MoveStep,
          CheckSubmitted, PopFails, InsertUnconfirmed, CheckUnconfirmed,
          PopUnconfirmed, PopUnconfirmedFails
  <2> QED BY <2>1, <2>2
<1> QED BY <1>1, <1>2, StreamKept DEF Grows

\* No step breaks a stream.
LEMMA NextStreams ==
  ASSUME FreshIds
  PROVE  BaseInv /\ FreshInv /\ StreamsInv /\ [Next]_vars => StreamsInv'
<1> SUFFICES ASSUME BaseInv, FreshInv, StreamsInv, [Next]_vars
             PROVE  StreamsInv'
  OBVIOUS
<1>1. Grows
  BY NextFresh, HeldGrows DEF Grows
<1>2. CASE Next
  BY <1>1, <1>2, ServeStreams, WalletStreams, OtherStreams DEF Next
<1>3. CASE UNCHANGED vars
  BY <1>3 DEF vars, StreamsInv, StreamInv, Held, Inserting
<1> QED BY <1>2, <1>3

\* With fresh identifiers a stream says "Confirmed" of a transaction that
\* nobody reported only when a pop overlapped its scan or its lookup fell
\* into the gap between a pop and the insert: no other race does it.
THEOREM ConfirmedIsTrueUnlessRaced == Spec => []ConfirmedUnlessRaced
<1>1. CASE FreshIds
  <2>1. Init => FreshInv /\ StreamsInv
    BY InitFresh, InitStreams
  <2>2. BaseInv /\ FreshInv /\ StreamsInv /\ [Next]_vars => FreshInv' /\ StreamsInv'
    BY <1>1, NextFresh, NextStreams
  <2>3. StreamsInv => ConfirmedUnlessRaced
    BY DEF StreamsInv, StreamInv, ConfirmedUnlessRaced
  <2> QED BY <2>1, <2>2, <2>3, AlwaysBase, PTL DEF Spec
<1>2. CASE ~FreshIds
  <2>1. ConfirmedUnlessRaced
    BY <1>2 DEF ConfirmedUnlessRaced
  <2> QED BY <2>1, PTL
<1> QED BY <1>1, <1>2

-----------------------------------------------------------------------------
(* The last validator.                                                     *)

\* A validator whose next statement in the pool raises an error.
Doomed(v) ==
  \/ pc[v] = "pop" /\ submitted = <<>>
  \/ pc[v] = "mpop" /\ tx[v] \notin unconfirmed

\* A failing pop has a winner, which is past its own pop.
Survivor == \E v \in Validators : pc[v] # "failed" /\ ~Doomed(v)

\* A validator that finds what it checked for or pops it lives on.
LEMMA MoverSurvives ==
  ASSUME TypeOK, NeverReport = {}, NEW v \in Validators,
         \/ CallConfirm(v) \/ CallMove(v) \/ CheckSubmitted(v) \/ PopSubmitted(v)
         \/ InsertUnconfirmed(v) \/ CheckUnconfirmed(v) \/ PopUnconfirmed(v)
  PROVE  Survivor'
<1>1. v \in Clients
  BY SomeClients
<1>2. pc'[v] # "failed" /\ Doomed(v)' = FALSE
  <2> USE <1>1 DEF Doomed, TypeOK, Goto, pool
  <2>1. CASE CallConfirm(v)
    BY <2>1 DEF CallConfirm
  <2>2. CASE CallMove(v)
    BY <2>2 DEF CallMove
  <2>3. CASE CheckSubmitted(v)
    BY <2>3 DEF CheckSubmitted
  <2>4. CASE PopSubmitted(v)
    BY <2>4 DEF PopSubmitted
  <2>5. CASE InsertUnconfirmed(v)
    BY <2>5 DEF InsertUnconfirmed
  <2>6. CASE CheckUnconfirmed(v)
    BY <2>6 DEF CheckUnconfirmed
  <2>7. CASE PopUnconfirmed(v)
    BY <2>7 DEF PopUnconfirmed
  <2> QED BY <2>1, <2>2, <2>3, <2>4, <2>5, <2>6, <2>7
<1> QED BY <1>2 DEF Survivor

\* A survivor stays one while nothing is taken from the list or the dict.
LEMMA SurvivorKept ==
  ASSUME Survivor,
         \A u \in Validators : pc[u] # "failed" /\ ~Doomed(u) =>
           \/ pc'[u] = pc[u] /\ tx'[u] = tx[u]
           \/ pc'[u] \in {"check", "mcheck"},
         submitted' = <<>> => submitted = <<>>,
         unconfirmed \subseteq unconfirmed'
  PROVE  Survivor'
<1>1. PICK u \in Validators : pc[u] # "failed" /\ ~Doomed(u)
  BY DEF Survivor
<1>2. pc'[u] # "failed" /\ Doomed(u)' = FALSE
  BY <1>1 DEF Doomed
<1> QED BY <1>2 DEF Survivor

\* A failing validator was doomed, so it was not the survivor.
LEMMA FailureSpares ==
  ASSUME TypeOK, Survivor, NEW v \in Validators, PopFails(v) \/ PopUnconfirmedFails(v)
  PROVE  Survivor'
<1>1. Doomed(v) /\ Goto(v, "failed") /\ UNCHANGED <<submitted, unconfirmed, tx>>
  BY DEF PopFails, PopUnconfirmedFails, Doomed, pool
<1>2. \A u \in Validators : ~Doomed(u) => pc'[u] = pc[u]
  BY <1>1, SomeClients DEF Goto, TypeOK
<1> QED BY <1>1, <1>2, SurvivorKept

\* The steps of wallets and queriers leave the validators alone.
LEMMA StreamSpares ==
  ASSUME BaseInv, Survivor, NEW c \in Wallets \cup Queriers,
         \/ c \in Wallets /\ (CallSend(c) \/ SendStep(c) \/ Disconnect(c))
         \/ c \in Queriers /\ (CallTransaction(c) \/ TransactionStep(c))
  PROVE  Survivor'
<1>1. TypeOK /\ CallsOK /\ c \in Clients /\ \A u \in Validators : u \in Clients /\ u # c
  BY PoolAssumption, SomeClients DEF BaseInv
<1>2. UNCHANGED unconfirmed
  BY DEF CallSend, SendStep, SubmitTransaction, ScanMatch, ScanNext, ScanEnd, Lookup,
         YieldReply, Disconnect, CallTransaction, TransactionStep, pool
<1>3. submitted' = <<>> => submitted = <<>>
  <2>1. ASSUME c \in Wallets, SubmitTransaction(c) PROVE submitted' # <<>>
    <3>1. sent[c] \in 1..SendsPerWallet /\ tx[c] = IdOf[<<c, sent[c]>>]
      BY <1>1, <2>1 DEF CallsOK, SubmitTransaction
    <3>2. tx[c] \in TransactionIds
      BY <2>1, <3>1, PoolAssumption
    <3>3. submitted' = Append(submitted, tx[c])
      BY <2>1 DEF SubmitTransaction
    <3> QED BY <1>1, <3>2, <3>3, AppendProperties DEF TypeOK
  <2>2. (c \in Wallets /\ SubmitTransaction(c)) \/ UNCHANGED submitted
    BY DEF CallSend, SendStep, ScanMatch, ScanNext, ScanEnd, Lookup, YieldReply,
           Disconnect, CallTransaction, TransactionStep, pool
  <2> QED BY <2>1, <2>2
<1>4. \A u \in Validators : pc'[u] = pc[u] /\ tx'[u] = tx[u]
  BY <1>1 DEF CallSend, SendStep, SubmitTransaction, ScanMatch, ScanNext, ScanEnd, Lookup,
         YieldReply, Disconnect, CallTransaction, TransactionStep, Goto, TypeOK
<1> QED BY <1>2, <1>3, <1>4, SurvivorKept

\* A thread that takes a call has not failed yet.
LEMMA ServeSpares ==
  ASSUME BaseInv, Survivor, Serve
  PROVE  Survivor'
<1> DEFINE h == Head(queue)
<1>1. h \in Clients /\ pc[h] \in Waiting /\ TypeOK
  BY ServeHead DEF BaseInv
<1>2. Goto(h, FirstPC(h)) /\ UNCHANGED <<submitted, unconfirmed, tx>>
  BY DEF Serve, pool
<1>3. h \in Validators => FirstPC(h) \in {"check", "mcheck"}
  <2>1. h \in Validators => h \notin Wallets /\ h \notin Queriers
    BY PoolAssumption
  <2> QED BY <1>1, <2>1 DEF FirstPC, Waiting
<1>4. \A u \in Validators : pc'[u] = pc[u] \/ pc'[u] \in {"check", "mcheck"}
  BY <1>1, <1>2, <1>3, SomeClients DEF Goto, TypeOK
<1> QED BY <1>2, <1>4, SurvivorKept

\* No step leaves only failed and failing validators.
LEMMA NextSpares ==
  ASSUME NeverReport = {}
  PROVE  BaseInv /\ Survivor /\ [Next]_vars => Survivor'
<1> SUFFICES ASSUME BaseInv, Survivor, [Next]_vars PROVE Survivor'
  OBVIOUS
<1>1. TypeOK
  BY DEF BaseInv
<1>2. CASE Next
  BY <1>1, <1>2, ServeSpares, StreamSpares, MoverSurvives, FailureSpares
     DEF Next, ConfirmStep, MoveStep
<1>3. CASE UNCHANGED vars
  BY <1>3 DEF vars, Survivor, Doomed
<1> QED BY <1>2, <1>3

\* Whatever handlers of the pool end in IndexError or KeyError, fresh
\* identifiers or not, they never end the last validator.
THEOREM LastValidatorSurvives == Spec => []SomeValidatorSurvives
<1>1. CASE NeverReport = {} /\ Validators # {}
  <2>1. Init => Survivor
    BY <1>1, SomeClients DEF Init, Survivor, Doomed
  <2>2. BaseInv /\ Survivor /\ [Next]_vars => Survivor'
    BY <1>1, NextSpares
  <2>3. Survivor => SomeValidatorSurvives
    BY DEF Survivor, SomeValidatorSurvives
  <2> QED BY <2>1, <2>2, <2>3, AlwaysBase, PTL DEF Spec
<1>2. CASE ~(NeverReport = {} /\ Validators # {})
  <2>1. SomeValidatorSurvives
    BY <1>2 DEF SomeValidatorSurvives
  <2> QED BY <2>1, PTL
<1> QED BY <1>1, <1>2

-----------------------------------------------------------------------------
(* The pool with all its threads taken.                                    *)

\* While the threads are all taken by streams, whoever calls waits.
LEMMA WaiterKeepsExhausted ==
  ASSUME TypeOK, Exhausted, NEW c \in Clients, NEW l,
         pc[c] \notin ServingPCs, l \notin ServingPCs, Goto(c, l),
         UNCHANGED <<submitted, unconfirmed, raced>>,
         \A d \in Clients : d # c => tx'[d] = tx[d] /\ reply'[d] = reply[d]
  PROVE  Exhausted'
<1>1. Serving' = Serving /\ c \notin Serving
  BY DEF Serving, Goto, TypeOK
<1>2. \A d \in Serving : d \in Clients /\ d # c /\ pc'[d] = pc[d]
  BY <1>1 DEF Serving, Goto, TypeOK
<1> QED BY <1>1, <1>2 DEF Exhausted

\* A stream that goes on to its next statement stays one.
LEMMA StreamKeepsExhausted ==
  ASSUME TypeOK, Exhausted, NEW w \in Wallets, NEW l \in ScanPCs,
         pc[w] \in ScanPCs, Goto(w, l), UNCHANGED <<submitted, unconfirmed, tx>>,
         \A d \in Clients : d # w => reply'[d] = reply[d] /\ (d \in Wallets => raced'[d] = raced[d]),
         reply'[w] # "Confirmed", ~raced'[w]
  PROVE  Exhausted'
<1>1. w \in Clients /\ ScanPCs \subseteq ServingPCs
  BY SomeClients DEF ServingPCs
<1>2. Serving' = Serving /\ w \in Serving
  BY <1>1 DEF Serving, Goto, TypeOK
<1>3. \A d \in Serving : d \in Clients /\ pc'[d] = (IF d = w THEN l ELSE pc[d])
  BY <1>1 DEF Serving, Goto, TypeOK
<1> QED BY <1>2, <1>3 DEF Exhausted

\* The steps of a wallet: a stream never sees its transaction confirmed.
LEMMA WalletKeepsExhausted ==
  ASSUME BaseInv, StreamsInv, Exhausted, Quitters = {}, NEW w \in Wallets,
         CallSend(w) \/ SendStep(w) \/ Disconnect(w)
  PROVE  Exhausted'
<1> USE DEF pool, history
<1>1. TypeOK /\ w \in Clients /\ StreamInv(w)
  BY SomeClients DEF BaseInv, StreamsInv
<1>2. pc[w] \in ServingPCs =>
        /\ w \in Serving /\ pc[w] \in ScanPCs /\ tx[w] \in Range(submitted) \cup unconfirmed
        /\ reply[w] # "Confirmed" /\ ~raced[w]
  BY <1>1 DEF Exhausted, Serving
<1>3. {"scan", "lookup", "yield", "submit"} \subseteq ServingPCs
  BY DEF ServingPCs, ScanPCs
<1>4. CASE CallSend(w)
  <2>1. pc[w] \notin ServingPCs /\ "queued" \notin ServingPCs
    BY <1>4 DEF CallSend, ServingPCs, ScanPCs
  <2>2. \A d \in Clients : d # w => tx'[d] = tx[d] /\ reply'[d] = reply[d]
    BY <1>1, <1>4 DEF CallSend, TypeOK
  <2> QED BY <1>1, <1>4, <2>1, <2>2, WaiterKeepsExhausted DEF CallSend
<1>5. CASE SubmitTransaction(w)
  BY <1>2, <1>3, <1>5 DEF SubmitTransaction, ScanPCs
<1>6. CASE ScanMatch(w)
  <2>1. /\ pc[w] = "scan" /\ Goto(w, "yield") /\ UNCHANGED raced
        /\ reply'[w] = "Submitted" /\ \A d \in Clients : d # w => reply'[d] = reply[d]
    BY <1>1, <1>6 DEF ScanMatch, TypeOK
  <2> QED BY <1>1, <1>2, <1>3, <1>6, <2>1, StreamKeepsExhausted DEF ScanMatch, ScanPCs
<1>7. CASE ScanNext(w)
  BY <1>7 DEF ScanNext, Exhausted, Serving
<1>8. CASE ScanEnd(w)
  <2>1. Goto(w, "lookup") /\ pc[w] = "scan"
    BY <1>8 DEF ScanEnd
  <2> QED BY <1>1, <1>2, <1>3, <1>8, <2>1, StreamKeepsExhausted DEF ScanEnd, ScanPCs
<1>9. CASE Lookup(w)
  <2>1. /\ pc[w] = "lookup" /\ Goto(w, "yield")
        /\ \A d \in Clients : d # w => reply'[d] = reply[d] /\ (d \in Wallets => raced'[d] = raced[d])
        /\ raced'[w] <=> raced[w] \/ InTheGap(w)
        /\ reply'[w] = IF tx[w] \in unconfirmed THEN "Unconfirmed" ELSE "Confirmed"
    BY <1>1, <1>9 DEF Lookup, TypeOK
  <2>2. ~InTheGap(w)
    <3>1. \A v \in Validators : v \in Clients /\ v \notin Wallets
      BY PoolAssumption, SomeClients
    <3> QED BY <3>1 DEF InTheGap, Exhausted, Serving, ServingPCs
  <2>3. tx[w] \in unconfirmed
    BY <1>1, <1>2, <1>3, <2>1 DEF StreamInv
  <2> QED BY <1>1, <1>2, <1>3, <1>9, <2>1, <2>2, <2>3, StreamKeepsExhausted DEF Lookup, ScanPCs
<1>10. CASE YieldReply(w)
  <2>1. /\ pc[w] = "yield" /\ Goto(w, "scan") /\ UNCHANGED reply
        /\ raced' = [raced EXCEPT ![w] = FALSE]
    BY <1>2, <1>3, <1>10 DEF YieldReply
  <2>2. ~raced'[w] /\ \A d \in Wallets : d # w => raced'[d] = raced[d]
    BY <1>1, <2>1 DEF TypeOK
  <2> QED BY <1>1, <1>2, <1>3, <1>10, <2>1, <2>2, StreamKeepsExhausted DEF YieldReply, ScanPCs
<1>11. ~Disconnect(w)
  BY DEF Disconnect
<1> QED BY <1>4, <1>5, <1>6, <1>7, <1>8, <1>9, <1>10, <1>11 DEF SendStep

\* Queriers and validators get no thread: they can only call and wait.
LEMMA OthersKeepExhausted ==
  ASSUME BaseInv, Exhausted, NEW c \in Queriers \cup Validators,
         \/ c \in Queriers /\ (CallTransaction(c) \/ TransactionStep(c))
         \/ c \in Validators /\ (CallConfirm(c) \/ CallMove(c) \/ ConfirmStep(c) \/ MoveStep(c))
  PROVE  Exhausted'
<1> USE DEF pool, history
<1>1. TypeOK /\ c \in Clients /\ c \notin Wallets
  BY PoolAssumption, SomeClients DEF BaseInv
<1>2. pc[c] \notin ServingPCs
  BY <1>1 DEF Exhausted, Serving
<1>3. {"scan", "yield", "check", "pop", "insert", "mcheck", "mpop"} \subseteq ServingPCs
      /\ {"queued", "mqueued", "idle", "failed"} \cap ServingPCs = {}
  BY DEF ServingPCs, ScanPCs
<1>4. CASE c \in Queriers /\ CallTransaction(c)
  BY <1>1, <1>2, <1>3, <1>4, WaiterKeepsExhausted DEF CallTransaction, TypeOK
<1>5. CASE c \in Validators /\ CallConfirm(c)
  BY <1>1, <1>2, <1>3, <1>5, WaiterKeepsExhausted DEF CallConfirm
<1>6. CASE c \in Validators /\ CallMove(c)
  <2>1. \E l \in {"idle", "failed", "mqueued"} : Goto(c, l)
    BY <1>6 DEF CallMove
  <2> QED BY <1>1, <1>2, <1>3, <1>6, <2>1, WaiterKeepsExhausted DEF CallMove
<1>7. ~TransactionStep(c) /\ ~ConfirmStep(c) /\ ~MoveStep(c)
  BY <1>2, <1>3 DEF TransactionStep, ScanMatch, ScanNext, ScanEnd, YieldReply, ConfirmStep,
     CheckSubmitted, PopSubmitted, PopFails, InsertUnconfirmed, MoveStep,
     CheckUnconfirmed, PopUnconfirmed, PopUnconfirmedFails
<1> QED BY <1>4, <1>5, <1>6, <1>7

\* Streams whose transactions wait starve the validators for ever: with
\* every thread of the pool in such a stream, no step leaves that state.
THEOREM FullPoolStaysFull == Spec => ExhaustionIsPermanent
<1>1. CASE FreshIds
  <2>1. Init => FreshInv /\ StreamsInv
    BY InitFresh, InitStreams
  <2>2. BaseInv /\ FreshInv /\ StreamsInv /\ [Next]_vars => FreshInv' /\ StreamsInv'
    BY <1>1, NextFresh, NextStreams
  <2>3. BaseInv /\ StreamsInv /\ [Next]_vars
          => [FreshIds /\ Quitters = {} /\ Exhausted => Exhausted']_vars
    <3> SUFFICES ASSUME BaseInv, StreamsInv, Next, Quitters = {}, Exhausted PROVE Exhausted'
      OBVIOUS
    <3>1. ~Serve
      <4>1. MaxWorkers \in Nat /\ Cardinality(Serving) = MaxWorkers
        BY PoolAssumption DEF Exhausted
      <4> QED BY <4>1 DEF Serve
    <3> QED BY <3>1, WalletKeepsExhausted, OthersKeepExhausted DEF Next
  <2> QED BY <2>1, <2>2, <2>3, AlwaysBase, PTL DEF Spec, ExhaustionIsPermanent
<1>2. CASE ~FreshIds
  <2>1. [Next]_vars => [FreshIds /\ Quitters = {} /\ Exhausted => Exhausted']_vars
    BY <1>2
  <2> QED BY <2>1, PTL DEF Spec, ExhaustionIsPermanent
<1> QED BY <1>1, <1>2

=============================================================================
