----------------------------- MODULE DSCProofs ------------------------------
(***************************************************************************)
(* Proofs about Validator and about DSC, the system it is part of.         *)
(*                                                                         *)
(* The first part is about Validator, for every number of validators and   *)
(* of threads of the metronome's pool, and for chains of every length.     *)
(* The second is about DSC, for every number of transactions as well: it   *)
(* implements the two specifications it is composed of, so that what is    *)
(* proved of them holds in it; and a transaction is confirmed only after   *)
(* one block carried it.                                                   *)
(***************************************************************************)
EXTENDS DSC, FiniteSetTheorems, TLAPS

-----------------------------------------------------------------------------
(* Validator.                                                              *)

Working == {"mine", "set", "won", "sleep", "append"}
Sending == {"sleep", "append"}
InRound == {"setIDs", "setHash", "wait", "create"}
Holding == {"setIDs", "setHash"}

\* The identifiers announced are 0 .. previous_blockID, and the reply that
\* passed the while loop names the one after them, which exists.
RoundInv ==
  /\ previous_blockID >= -1
  /\ Len(previous_blockIDs) =
       IF mpc = "setIDs" THEN previous_blockID ELSE previous_blockID + 1
  /\ RoundsInOrder
  /\ mpc \in InRound => previous_blockID >= 0
  /\ mpc = "setID" =>
       /\ reply.blockID = previous_blockID + 1
       /\ reply.blockID \in IDs

\* Every announced identifier is that of a block, and at most one more is.
ChainInv ==
  /\ block_chain # <<>>
  /\ \A k \in DOMAIN block_chain :
       block_chain[k].blockID <= previous_blockID + 1
  /\ \A i \in 0..previous_blockID : i \in IDs
  /\ NoGap

\* What a validator works on was announced, and what it sends follows it.
WorkInv ==
  \A v \in Validators :
    /\ previous_block_ID[v] \in -1..previous_blockID
    /\ pc[v] \in Working => details[v].blockID \in 0..previous_blockID
    /\ pc[v] \in Sending =>
         newID[v] \in (details[v].blockID + 1)..(previous_blockID + 1)

\* h is no hash or that of a block with at most the identifier i.
HashUpTo(h, i) ==
  h # NoHash => h \in DOMAIN block_chain /\ block_chain[h].blockID <= i

\* A hash on its way from the chain to a block is never ahead of the
\* identifier it travels with, however the two were torn apart.
LinkInv ==
  /\ LinksBackwards
  /\ HashUpTo(previous_hash_value, previous_blockID)
  /\ mpc \in {"id", "setID"} => HashUpTo(reply.hash, previous_blockID + 1)
  /\ mpc \in Holding => HashUpTo(reply.hash, previous_blockID)
  /\ \A v \in Validators :
       /\ pc[v] = "details" => HashUpTo(details[v].hash, previous_blockID)
       /\ pc[v] \in Working => HashUpTo(details[v].hash, details[v].blockID)

\* The metronome's blocks stay behind the round it is in.
MakerInv ==
  /\ MetronomeIDsDistinct
  /\ \A k \in DOMAIN block_chain :
       block_chain[k].maker = "metronome" /\ mpc \in InRound
         => block_chain[k].blockID <= previous_blockID

IInv == TypeOK /\ RoundInv /\ ChainInv /\ WorkInv /\ LinkInv /\ MakerInv

-----------------------------------------------------------------------------
(* Lemmas about the chain.                                                 *)

\* What block_creation does to the chain and to the set of identifiers.
LEMMA ChainGrows ==
  ASSUME NEW id \in Nat, NEW h \in Nat,
         NEW m \in Validators \cup {"genesis", "metronome"},
         block_chain \in Seq(BlockRecords),
         block_creation(id, h, m, <<>>)
  PROVE  /\ block_chain' \in Seq(BlockRecords)
         /\ Len(block_chain') = Len(block_chain) + 1
         /\ \A k \in 1..Len(block_chain) : block_chain'[k] = block_chain[k]
         /\ block_chain'[Len(block_chain) + 1] = Block(id, h, m, <<>>)
         /\ IDs' = IDs \cup {id}
<1>1. Block(id, h, m, <<>>) \in BlockRecords
  BY DEF Block, BlockRecords
<1>2. block_chain' = Append(block_chain, Block(id, h, m, <<>>))
  BY DEF block_creation, Stored
<1>3. /\ block_chain' \in Seq(BlockRecords)
      /\ Len(block_chain') = Len(block_chain) + 1
      /\ \A k \in 1..Len(block_chain) : block_chain'[k] = block_chain[k]
      /\ block_chain'[Len(block_chain) + 1] = Block(id, h, m, <<>>)
  BY <1>1, <1>2
<1>4. IDs' = IDs \cup {id}
  <2>1. /\ DOMAIN block_chain' = 1..(Len(block_chain) + 1)
        /\ DOMAIN block_chain = 1..Len(block_chain)
        /\ Len(block_chain) \in Nat
    BY <1>3
  <2>2. Block(id, h, m, <<>>).blockID = id
    BY DEF Block
  <2>3. ASSUME NEW i \in IDs' PROVE i \in IDs \cup {id}
    BY <1>3, <2>1, <2>2 DEF IDs
  <2>4. ASSUME NEW i \in IDs \cup {id} PROVE i \in IDs'
    <3>1. CASE i = id
      BY <3>1, <1>3, <2>1, <2>2 DEF IDs
    <3>2. CASE i \in IDs
      BY <3>2, <1>3, <2>1 DEF IDs
    <3> QED BY <3>1, <3>2
  <2> QED BY <2>3, <2>4
<1> QED BY <1>3, <1>4

\* The fields of the blocks of a chain.
LEMMA BlockTypes ==
  ASSUME block_chain \in Seq(BlockRecords)
  PROVE  \A k \in DOMAIN block_chain :
           /\ block_chain[k].blockID \in Nat
           /\ block_chain[k].previous_block_hash \in Nat
<1>1. ASSUME NEW k \in DOMAIN block_chain
      PROVE  block_chain[k] \in BlockRecords
  BY <1>1
<1> QED BY <1>1 DEF BlockRecords

\* The last block, the one the main thread asks about.
LEMMA LastBlock ==
  ASSUME block_chain \in Seq(BlockRecords), block_chain # <<>>
  PROVE  /\ LastHash \in DOMAIN block_chain
         /\ LastHash \in Nat
         /\ LastID \in IDs
         /\ LastID \in Nat
         /\ LastID = block_chain[LastHash].blockID
<1>1. Len(block_chain) \in 1..Len(block_chain) /\ Len(block_chain) \in Nat
  OBVIOUS
<1>2. block_chain[Len(block_chain)] \in BlockRecords
  BY <1>1
<1> QED BY <1>1, <1>2 DEF LastHash, LastID, IDs, BlockRecords

-----------------------------------------------------------------------------
(* Types.                                                                  *)

\* The labels, and the records that stand for "nothing yet".
LEMMA Labels ==
  /\ {"reset", "hash", "id", "setID", "setIDs", "setHash", "wait", "create"}
       \subseteq MainPCs
  /\ {"details", "set", "sleep", "append", "poll", "mine", "won", "dead"}
       \subseteq PCs
  /\ NoReply \in [hash : Nat, blockID : Nat]
  /\ NoDetails \in [hash : Nat, blockID : Int]
BY DEF MainPCs, PCs, HandlerPCs, LoopPCs, NoReply, NoDetails, NoHash

\* A step keeps the types.
LEMMA TypeStep == IInv /\ [Next]_vars => TypeOK'
<1> SUFFICES ASSUME IInv, [Next]_vars PROVE TypeOK'
  OBVIOUS
<1> USE Labels DEF IInv, TypeOK, MetronomeTypeOK
<1>1. CASE Main
  <2>1. CASE OpenWindow
    BY <1>1, <2>1 DEF OpenWindow, Main, main, handlers
  <2>2. CASE ReadHash
    <3>1. LastHash \in Nat
      BY LastBlock DEF ChainInv
    <3>2. reply' \in [hash : Nat, blockID : Nat]
      BY <2>2, <3>1 DEF ReadHash
    <3> QED BY <1>1, <2>2, <3>2 DEF ReadHash, Main, handlers
  <2>3. CASE ReadID
    <3>1. LastID \in Nat
      BY LastBlock DEF ChainInv
    <3>2. reply' \in [hash : Nat, blockID : Nat]
      BY <2>3, <3>1 DEF ReadID
    <3> QED BY <1>1, <2>3, <3>2 DEF ReadID, Main, handlers
  <2>4. CASE SetPreviousID
    BY <1>1, <2>4 DEF SetPreviousID, Main, main, handlers
  <2>5. CASE AppendPreviousID
    <3>1. previous_blockID \in Nat
      BY <2>5 DEF AppendPreviousID, RoundInv, InRound
    <3>2. previous_blockIDs' \in Seq(Nat)
      BY <2>5, <3>1 DEF AppendPreviousID
    <3> QED BY <1>1, <2>5, <3>2 DEF AppendPreviousID, Main, handlers
  <2>6. CASE SetPreviousHash
    BY <1>1, <2>6 DEF SetPreviousHash, Main, main, handlers
  <2>7. CASE CheckWin
    BY <1>1, <2>7 DEF CheckWin, Main, main, handlers
  <2>8. CASE CreateBlock
    <3>1. previous_blockID + 1 \in Nat
      BY <2>8 DEF CreateBlock, RoundInv, InRound
    <3>2. block_creation(previous_blockID + 1, previous_hash_value,
                         "metronome", <<>>)
      BY <2>8 DEF CreateBlock, block_creation, Stored
    <3>3. block_chain' \in Seq(BlockRecords)
      BY <3>1, <3>2, ChainGrows
    <3> QED BY <1>1, <2>8, <3>3 DEF CreateBlock, Main, handlers
  <2> QED BY <1>1, <2>1, <2>2, <2>3, <2>4, <2>5, <2>6, <2>7, <2>8 DEF Main, MainStep
<1>2. CASE Timer
  BY <1>2 DEF Timer, Expire, main, handlers
<1>3. ASSUME NEW v \in Validators, CallStep(v) \/ LocalStep(v) \/ Crash(v)
      PROVE  TypeOK'
  <2>1. CASE AskDetails(v)
    BY <1>3, <2>1 DEF AskDetails, GetHash, Goto, main, handlers
  <2>2. CASE TakeDetails(v)
    <3>1. CASE Restart(v)
      BY <2>2, <3>1 DEF TakeDetails, GetID, Restart, Goto, main
    <3>2. CASE /\ details' = [details EXCEPT ![v].blockID = previous_blockID]
               /\ Goto(v, "mine")
               /\ UNCHANGED newID
      <4>1. details' \in [Validators -> [hash : Nat, blockID : Int]]
        BY <3>2
      <4> QED BY <2>2, <3>2, <4>1 DEF TakeDetails, GetID, Goto, main
    <3> QED BY <2>2, <3>1, <3>2 DEF TakeDetails, GetID
  <2>3. CASE ClaimLost(v)
    BY <1>3, <2>3, SMTT(30) DEF ClaimLost, LoseClaim, Restart, Goto, FinishRound, main, handlers
  <2>4. CASE ClaimPassed(v)
    BY <1>3, <2>4, SMTT(30) DEF ClaimPassed, PassClaim, Goto, main, handlers
  <2>5. CASE ClaimGranted(v)
    BY <1>3, <2>5 DEF ClaimGranted, GrantClaim, Goto, FinishRound, main, handlers
  <2>6. CASE SendBlock(v)
    <3>1. details[v].blockID + 1 \in Nat
      BY <2>6, SMTT(30) DEF SendBlock, FixID, WorkInv, Working
    <3>2. NextFreeID(details[v].blockID + 1) \in Nat
      BY <3>1 DEF NextFreeID
    <3>3. newID' \in [Validators -> Nat]
      BY <2>6, <3>2 DEF SendBlock, FixID
    <3> QED BY <2>6, <3>3 DEF SendBlock, FixID, Goto, main
  <2>7. CASE BlockAppended(v)
    <3>1. newID[v] \in Nat /\ details[v].hash \in Nat
      OBVIOUS
    <3>2. block_chain' \in Seq(BlockRecords)
      BY <2>7, <3>1, ChainGrows DEF BlockAppended, AppendBlock
    <3>3. /\ pc' \in [Validators -> PCs]
          /\ details' \in [Validators -> [hash : Nat, blockID : Int]]
          /\ newID' \in [Validators -> Nat]
      BY <2>7 DEF BlockAppended, AppendBlock, Restart, Goto
    <3> QED BY <2>7, <3>2, <3>3 DEF BlockAppended, AppendBlock, main
  <2>8. CASE Crash(v)
    BY <1>3, <2>8 DEF Crash, Goto, main, handlers
  <2> QED BY <1>3, <2>1, <2>2, <2>3, <2>4, <2>5, <2>6, <2>7, <2>8 DEF CallStep, LocalStep
<1>4. CASE UNCHANGED vars
  BY <1>4 DEF vars, mvars, main, handlers
<1> QED BY <1>1, <1>2, <1>3, <1>4 DEF Next

-----------------------------------------------------------------------------
(* What a step does to the chain and to the round.                         *)

Makers == Validators \cup {"genesis", "metronome"}

\* A block that is added follows a round that was announced, and names a
\* predecessor with a smaller identifier.
LEMMA BlockAdded ==
  ASSUME IInv, [Next]_vars
  PROVE  \/ UNCHANGED block_chain
         \/ \E id \in 1..(previous_blockID + 1), h \in Nat, m \in Makers :
              /\ block_creation(id, h, m, <<>>)
              /\ HashUpTo(h, id - 1)
              /\ m = "metronome" =>
                   /\ id = previous_blockID + 1
                   /\ mpc \in InRound
                   /\ mpc' = "reset"
              /\ UNCHANGED previous_blockID
<1> USE DEF IInv, TypeOK, MetronomeTypeOK
<1>1. CASE Main
  <2>1. CASE CreateBlock
    <3>1. /\ previous_blockID + 1 \in 1..(previous_blockID + 1)
          /\ previous_hash_value \in Nat
          /\ "metronome" \in Makers
      BY <2>1 DEF CreateBlock, RoundInv, InRound, Makers
    <3>2. block_creation(previous_blockID + 1, previous_hash_value,
                         "metronome", <<>>)
      BY <2>1 DEF CreateBlock, block_creation, Stored
    <3>3. HashUpTo(previous_hash_value, (previous_blockID + 1) - 1)
      BY DEF LinkInv, HashUpTo
    <3>4. mpc \in InRound /\ mpc' = "reset" /\ UNCHANGED previous_blockID
      BY <2>1 DEF CreateBlock, InRound
    <3> QED BY <3>1, <3>2, <3>3, <3>4
  <2>2. CASE ~CreateBlock
    BY <1>1, <2>2 DEF Main, MainStep, OpenWindow, ReadHash, ReadID,
         SetPreviousID, AppendPreviousID, SetPreviousHash, CheckWin
  <2> QED BY <2>1, <2>2
<1>2. CASE Timer
  BY <1>2 DEF Timer, Expire
<1>3. ASSUME NEW v \in Validators, CallStep(v) \/ LocalStep(v) \/ Crash(v)
      PROVE  \/ UNCHANGED block_chain
             \/ BlockAppended(v)
  BY <1>3 DEF CallStep, LocalStep, AskDetails, GetHash, TakeDetails, GetID,
       Restart, ClaimLost, LoseClaim, ClaimPassed, PassClaim, ClaimGranted,
       GrantClaim, SendBlock, FixID, Crash
<1>4. ASSUME NEW v \in Validators, BlockAppended(v)
      PROVE  \E id \in 1..(previous_blockID + 1), h \in Nat, m \in Makers :
               /\ block_creation(id, h, m, <<>>)
               /\ HashUpTo(h, id - 1)
               /\ m = "metronome" =>
                    /\ id = previous_blockID + 1
                    /\ mpc \in InRound
                    /\ mpc' = "reset"
               /\ UNCHANGED previous_blockID
  <2>1. pc[v] \in Working /\ pc[v] \in Sending
    BY <1>4 DEF BlockAppended, AppendBlock, Working, Sending
  <2>2. /\ newID[v] \in (details[v].blockID + 1)..(previous_blockID + 1)
        /\ details[v].blockID \in 0..previous_blockID
    BY <2>1 DEF WorkInv
  <2>3. newID[v] \in 1..(previous_blockID + 1)
    BY <2>2
  <2>4. HashUpTo(details[v].hash, details[v].blockID)
    BY <2>1 DEF LinkInv
  <2>5. HashUpTo(details[v].hash, newID[v] - 1)
    <3>1. \A k \in DOMAIN block_chain : block_chain[k].blockID \in Nat
      BY BlockTypes
    <3> QED BY <2>2, <2>4, <3>1 DEF HashUpTo
  <2>6. /\ details[v].hash \in Nat
        /\ v \in Makers
        /\ v # "metronome"
    BY MetronomeAssumption DEF Makers
  <2>7. block_creation(newID[v], details[v].hash, v, <<>>)
    BY <1>4 DEF BlockAppended, AppendBlock
  <2>8. UNCHANGED previous_blockID
    BY <1>4 DEF BlockAppended, AppendBlock, main
  <2> QED BY <2>3, <2>5, <2>6, <2>7, <2>8
<1>5. CASE UNCHANGED vars
  BY <1>5 DEF vars, mvars
<1> QED BY <1>1, <1>2, <1>3, <1>4, <1>5 DEF Next

\* Blocks, and so identifiers, are never lost.
LEMMA IDsGrow ==
  ASSUME IInv, [Next]_vars
  PROVE  IDs \subseteq IDs'
<1>1. CASE UNCHANGED block_chain
  BY <1>1 DEF IDs
<1>2. ASSUME NEW id \in 1..(previous_blockID + 1), NEW h \in Nat,
             NEW m \in Makers, block_creation(id, h, m, <<>>)
      PROVE  IDs \subseteq IDs'
  <2>1. id \in Nat
    OBVIOUS
  <2> QED BY <1>2, <2>1, ChainGrows
        DEF IInv, TypeOK, MetronomeTypeOK, Makers
<1> QED BY <1>1, <1>2, BlockAdded

\* The announced identifier changes in one place only, by one.
LEMMA RoundGoesOn ==
  ASSUME IInv, [Next]_vars
  PROVE  \/ UNCHANGED previous_blockID
         \/ /\ mpc = "setID"
            /\ previous_blockID' = previous_blockID + 1
            /\ previous_blockID' \in IDs
            /\ UNCHANGED block_chain
<1>1. CASE Main
  <2>1. CASE SetPreviousID
    BY <2>1 DEF SetPreviousID, IInv, RoundInv
  <2>2. CASE ~SetPreviousID
    BY <1>1, <2>2 DEF Main, MainStep, OpenWindow, ReadHash, ReadID,
         CreateBlock, AppendPreviousID, SetPreviousHash, CheckWin
  <2> QED BY <2>1, <2>2
<1>2. CASE Timer
  BY <1>2 DEF Timer, Expire, main
<1>3. ASSUME NEW v \in Validators, CallStep(v) \/ LocalStep(v) \/ Crash(v)
      PROVE  UNCHANGED previous_blockID
  BY <1>3 DEF CallStep, LocalStep, AskDetails, GetHash, TakeDetails, GetID,
       Restart, ClaimLost, LoseClaim, ClaimPassed, PassClaim, ClaimGranted,
       GrantClaim, SendBlock, FixID, BlockAppended, AppendBlock, Crash, main
<1>4. CASE UNCHANGED vars
  BY <1>4 DEF vars, mvars
<1> QED BY <1>1, <1>2, <1>3, <1>4 DEF Next

-----------------------------------------------------------------------------
(* The rounds.                                                             *)

\* A step keeps the rounds in order: a reply leaves the while loop only when
\* it names the one identifier that was not announced.
LEMMA RoundStep == IInv /\ [Next]_vars => RoundInv'
<1> SUFFICES ASSUME IInv, [Next]_vars PROVE RoundInv'
  OBVIOUS
<1>1. IDs \subseteq IDs'
  BY IDsGrow
<1>2. /\ previous_blockID \in Int
      /\ previous_blockIDs \in Seq(Nat)
  BY DEF IInv, TypeOK, MetronomeTypeOK
<1>3. RoundInv
  BY DEF IInv
<1>4. CASE UNCHANGED <<previous_blockID, previous_blockIDs, mpc, reply>>
  BY <1>1, <1>3, <1>4 DEF RoundInv, RoundsInOrder
<1>5. CASE Main
  <2>1. CASE OpenWindow
    BY <1>3, <2>1 DEF OpenWindow, RoundInv, RoundsInOrder, InRound
  <2>2. CASE ReadHash
    BY <1>3, <2>2 DEF ReadHash, RoundInv, RoundsInOrder, InRound
  <2>3. CASE ReadID
    <3>1. reply'.blockID = LastID
      BY <2>3 DEF ReadID, IInv, TypeOK, MetronomeTypeOK
    <3>2. /\ LastID \in IDs
          /\ LastID \in Nat
          /\ LastID <= previous_blockID + 1
      BY LastBlock DEF IInv, ChainInv, TypeOK, MetronomeTypeOK
    <3>3. ASSUME LastID \notin Range(previous_blockIDs)
          PROVE  LastID = previous_blockID + 1
      <4>1. SUFFICES ASSUME LastID <= previous_blockID PROVE FALSE
        BY <1>2, <3>2
      <4>2. /\ LastID + 1 \in DOMAIN previous_blockIDs
            /\ previous_blockIDs[LastID + 1] = LastID
        BY <1>2, <1>3, <2>3, <3>2, <4>1 DEF ReadID, RoundInv, RoundsInOrder
      <4> QED BY <3>3, <4>2 DEF Range
    <3> QED BY <1>1, <1>3, <2>3, <3>1, <3>2, <3>3
          DEF ReadID, RoundInv, RoundsInOrder, InRound
  <2>4. CASE SetPreviousID
    BY <1>2, <1>3, <2>4 DEF SetPreviousID, RoundInv, RoundsInOrder, InRound
  <2>5. CASE AppendPreviousID
    <3>1. previous_blockID \in Nat /\ Len(previous_blockIDs) = previous_blockID
      BY <1>2, <1>3, <2>5 DEF AppendPreviousID, RoundInv, InRound
    <3>2. /\ Len(previous_blockIDs') = previous_blockID + 1
          /\ \A i \in 1..previous_blockID :
               previous_blockIDs'[i] = previous_blockIDs[i]
          /\ previous_blockIDs'[previous_blockID + 1] = previous_blockID
          /\ DOMAIN previous_blockIDs' = 1..(previous_blockID + 1)
      BY <1>2, <2>5, <3>1 DEF AppendPreviousID
    <3>3. RoundsInOrder'
      BY <1>2, <1>3, <3>1, <3>2 DEF RoundInv, RoundsInOrder
    <3> QED BY <1>2, <1>3, <2>5, <3>1, <3>2, <3>3
          DEF AppendPreviousID, RoundInv, InRound
  <2>6. CASE SetPreviousHash
    BY <1>3, <2>6 DEF SetPreviousHash, RoundInv, RoundsInOrder, InRound
  <2>7. CASE CheckWin
    BY <1>3, <2>7 DEF CheckWin, RoundInv, RoundsInOrder, InRound
  <2>8. CASE CreateBlock
    BY <1>3, <2>8 DEF CreateBlock, RoundInv, RoundsInOrder, InRound
  <2> QED BY <1>5, <2>1, <2>2, <2>3, <2>4, <2>5, <2>6, <2>7, <2>8
        DEF Main, MainStep
<1>6. CASE Timer
  BY <1>4, <1>6 DEF Timer, Expire, main
<1>7. ASSUME NEW v \in Validators, CallStep(v) \/ LocalStep(v) \/ Crash(v)
      PROVE  RoundInv'
  BY <1>4, <1>7 DEF CallStep, LocalStep, AskDetails, GetHash, TakeDetails,
       GetID, Restart, ClaimLost, LoseClaim, ClaimPassed, PassClaim,
       ClaimGranted, GrantClaim, SendBlock, FixID, BlockAppended, AppendBlock,
       Crash, main
<1>8. CASE UNCHANGED vars
  BY <1>4, <1>8 DEF vars, mvars
<1> QED BY <1>5, <1>6, <1>7, <1>8 DEF Next

-----------------------------------------------------------------------------
(* The chain.                                                              *)

\* A step keeps the chain without gaps.
LEMMA ChainStep == IInv /\ [Next]_vars => ChainInv'
<1> SUFFICES ASSUME IInv, [Next]_vars PROVE ChainInv'
  OBVIOUS
<1>1. IDs \subseteq IDs'
  BY IDsGrow
<1>2. /\ previous_blockID \in Int
      /\ block_chain \in Seq(BlockRecords)
      /\ ChainInv
      /\ previous_blockID >= -1
  BY DEF IInv, TypeOK, MetronomeTypeOK, RoundInv
<1>3. \A k \in DOMAIN block_chain : block_chain[k].blockID \in Nat
  BY <1>2, BlockTypes
<1>4. CASE UNCHANGED block_chain
  <2>1. CASE UNCHANGED previous_blockID
    BY <1>2, <1>4, <2>1 DEF ChainInv, IDs, NoGap
  <2>2. CASE /\ previous_blockID' = previous_blockID + 1
             /\ previous_blockID' \in IDs
    BY <1>1, <1>2, <1>3, <1>4, <2>2 DEF ChainInv, NoGap
  <2> QED BY <2>1, <2>2, RoundGoesOn
<1>5. ASSUME NEW id \in 1..(previous_blockID + 1), NEW h \in Nat,
             NEW m \in Makers, block_creation(id, h, m, <<>>),
             UNCHANGED previous_blockID
      PROVE  ChainInv'
  <2>1. /\ block_chain' \in Seq(BlockRecords)
        /\ Len(block_chain') = Len(block_chain) + 1
        /\ \A k \in 1..Len(block_chain) : block_chain'[k] = block_chain[k]
        /\ block_chain'[Len(block_chain) + 1].blockID = id
    <3>1. id \in Nat /\ m \in Validators \cup {"genesis", "metronome"}
      BY DEF Makers
    <3>2. Block(id, h, m, <<>>).blockID = id
      BY DEF Block
    <3> QED BY <1>2, <1>5, <3>1, <3>2, ChainGrows
  <2>2. /\ Len(block_chain) \in Nat
        /\ DOMAIN block_chain = 1..Len(block_chain)
        /\ DOMAIN block_chain' = 1..(Len(block_chain) + 1)
    BY <1>2, <2>1
  <2>3. block_chain' # <<>>
    BY <2>1, <2>2
  <2>4. \A k \in DOMAIN block_chain' :
          block_chain'[k].blockID <= previous_blockID' + 1
    BY <1>2, <1>5, <2>1, <2>2 DEF ChainInv
  <2>5. \A i \in 0..previous_blockID' : i \in IDs'
    BY <1>1, <1>2, <1>5 DEF ChainInv
  <2>6. \E j \in 1..Len(block_chain) : block_chain[j].blockID = id - 1
    <3>1. id - 1 \in 0..previous_blockID
      BY <1>2
    <3> QED BY <1>2, <2>2, <3>1 DEF ChainInv, IDs
  <2>7. NoGap'
    <3>1. ASSUME NEW k \in 2..(Len(block_chain) + 1)
          PROVE  \E j \in 1..(k - 1) :
                   block_chain'[j].blockID = block_chain'[k].blockID - 1
      <4>1. CASE k = Len(block_chain) + 1
        BY <2>1, <2>2, <2>6, <4>1
      <4>2. CASE k \in 2..Len(block_chain)
        <5>1. PICK j \in 1..(k - 1) :
                block_chain[j].blockID = block_chain[k].blockID - 1
          BY <1>2, <4>2 DEF ChainInv, NoGap
        <5> QED BY <2>1, <2>2, <4>2, <5>1
      <4> QED BY <2>2, <4>1, <4>2
    <3> QED BY <2>1, <3>1 DEF NoGap
  <2> QED BY <2>3, <2>4, <2>5, <2>7 DEF ChainInv
<1> QED BY <1>4, <1>5, BlockAdded

-----------------------------------------------------------------------------
(* The validators.                                                         *)

\* A step keeps the validators within the rounds that were announced.
LEMMA WorkStep == IInv /\ [Next]_vars => WorkInv'
<1> SUFFICES ASSUME IInv, [Next]_vars PROVE WorkInv'
  OBVIOUS
<1>1. /\ previous_blockID \in Int
      /\ previous_blockID >= -1
      /\ details \in [Validators -> [hash : Nat, blockID : Int]]
      /\ newID \in [Validators -> Nat]
      /\ pc \in [Validators -> PCs]
      /\ previous_block_ID \in [Validators -> Int]
      /\ WorkInv
  BY DEF IInv, TypeOK, MetronomeTypeOK, RoundInv
<1>2. previous_blockID' \in Int /\ previous_blockID' >= previous_blockID
  BY <1>1, RoundGoesOn
<1>3. CASE UNCHANGED <<pc, details, newID, previous_block_ID>>
  BY <1>1, <1>2, <1>3 DEF WorkInv
<1>4. CASE Main
  BY <1>3, <1>4 DEF Main, MainStep, OpenWindow, ReadHash, ReadID,
       SetPreviousID, AppendPreviousID, SetPreviousHash, CheckWin, CreateBlock,
       handlers
<1>5. CASE Timer
  BY <1>1, <1>2, <1>5 DEF Timer, Expire, WorkInv, Working, Sending, main
<1>6. ASSUME NEW v \in Validators, CallStep(v) \/ LocalStep(v) \/ Crash(v)
      PROVE  WorkInv'
  <2>1. ASSUME pc' = [pc EXCEPT ![v] = pc'[v]],
               details' = [details EXCEPT ![v] = details'[v]],
               newID' = [newID EXCEPT ![v] = newID'[v]],
               previous_block_ID' =
                 [previous_block_ID EXCEPT ![v] = previous_block_ID'[v]],
               previous_block_ID'[v] \in -1..previous_blockID,
               pc'[v] \in Working => details'[v].blockID \in 0..previous_blockID,
               pc'[v] \in Sending =>
                 newID'[v] \in (details'[v].blockID + 1)..(previous_blockID + 1)
        PROVE  WorkInv'
    <3>1. ASSUME NEW u \in Validators, u # v
          PROVE  /\ pc'[u] = pc[u]
                 /\ details'[u] = details[u]
                 /\ newID'[u] = newID[u]
                 /\ previous_block_ID'[u] = previous_block_ID[u]
      BY <1>1, <2>1, <3>1
    <3> QED BY <1>1, <1>2, <2>1, <3>1 DEF WorkInv, Working, Sending
  <2>2. CASE AskDetails(v)
    BY <1>1, <2>1, <2>2
      DEF AskDetails, GetHash, Goto, WorkInv, Working, Sending
  <2>3. CASE TakeDetails(v)
    BY <1>1, <2>1, <2>3
      DEF TakeDetails, GetID, Restart, Goto, WorkInv, Working, Sending
  <2>4. CASE ClaimLost(v)
    BY <1>1, <2>1, <2>4
      DEF ClaimLost, LoseClaim, Restart, Goto, FinishRound, WorkInv, Working,
          Sending
  <2>5. CASE ClaimPassed(v)
    BY <1>1, <2>1, <2>5
      DEF ClaimPassed, PassClaim, Goto, WorkInv, Working, Sending
  <2>6. CASE ClaimGranted(v)
    BY <1>1, <2>1, <2>6
      DEF ClaimGranted, GrantClaim, Goto, FinishRound, WorkInv, Working, Sending
  <2>7. CASE SendBlock(v)
    <3>1. /\ newID'[v] = NextFreeID(details[v].blockID + 1)
          /\ pc'[v] \in Sending
          /\ details'[v] = details[v]
          /\ previous_block_ID'[v] = previous_block_ID[v]
      BY <1>1, <2>7 DEF SendBlock, FixID, Goto, Sending
    <3>2. details[v].blockID \in 0..previous_blockID
      BY <1>1, <2>7 DEF SendBlock, FixID, WorkInv, Working
    <3>3. ASSUME details[v].blockID + 1 \in Range(previous_blockIDs)
          PROVE  details[v].blockID + 1 <= previous_blockID
      <4>1. PICK i \in DOMAIN previous_blockIDs :
              previous_blockIDs[i] = details[v].blockID + 1
        BY <3>3 DEF Range
      <4>2. /\ i \in Nat
            /\ i <= previous_blockID + 1
            /\ previous_blockIDs[i] = i - 1
        BY <1>1, <4>1, SMTT(30)
          DEF IInv, TypeOK, MetronomeTypeOK, RoundInv, RoundsInOrder
      <4> QED BY <1>1, <3>2, <4>1, <4>2
    <3>4. newID'[v] \in (details[v].blockID + 1)..(previous_blockID + 1)
      BY <1>1, <3>1, <3>2, <3>3 DEF NextFreeID
    <3>5. /\ pc' = [pc EXCEPT ![v] = pc'[v]]
          /\ newID' = [newID EXCEPT ![v] = newID'[v]]
          /\ details' = [details EXCEPT ![v] = details'[v]]
          /\ previous_block_ID' =
               [previous_block_ID EXCEPT ![v] = previous_block_ID'[v]]
      BY <1>1, <2>7 DEF SendBlock, FixID, Goto
    <3> QED BY <1>1, <2>1, <3>1, <3>2, <3>4, <3>5 DEF WorkInv
  <2>8. CASE BlockAppended(v)
    BY <1>1, <2>1, <2>8
      DEF BlockAppended, AppendBlock, Restart, Goto, WorkInv, Working, Sending
  <2>9. CASE Crash(v)
    BY <1>1, <2>1, <2>9 DEF Crash, Goto, WorkInv, Working, Sending, handlers
  <2> QED BY <1>6, <2>2, <2>3, <2>4, <2>5, <2>6, <2>7, <2>8, <2>9
        DEF CallStep, LocalStep
<1>7. CASE UNCHANGED vars
  BY <1>3, <1>7 DEF vars, mvars
<1> QED BY <1>4, <1>5, <1>6, <1>7 DEF Next

-----------------------------------------------------------------------------
(* The hashes.                                                             *)

\* A block stays where it is.
LEMMA ChainKept ==
  ASSUME IInv, [Next]_vars
  PROVE  \A k \in DOMAIN block_chain :
           k \in DOMAIN block_chain' /\ block_chain'[k] = block_chain[k]
<1>1. CASE UNCHANGED block_chain
  BY <1>1
<1>2. ASSUME NEW id \in 1..(previous_blockID + 1), NEW h \in Nat,
             NEW m \in Makers, block_creation(id, h, m, <<>>)
      PROVE  \A k \in DOMAIN block_chain :
               k \in DOMAIN block_chain' /\ block_chain'[k] = block_chain[k]
  <2>1. block_chain \in Seq(BlockRecords)
    BY DEF IInv, TypeOK, MetronomeTypeOK
  <2>2. id \in Nat /\ m \in Validators \cup {"genesis", "metronome"}
    BY DEF Makers
  <2>3. /\ block_chain' \in Seq(BlockRecords)
        /\ Len(block_chain') = Len(block_chain) + 1
        /\ \A k \in 1..Len(block_chain) : block_chain'[k] = block_chain[k]
    BY <1>2, <2>1, <2>2, ChainGrows
  <2>4. /\ DOMAIN block_chain = 1..Len(block_chain)
        /\ DOMAIN block_chain' = 1..(Len(block_chain) + 1)
        /\ Len(block_chain) \in Nat
    BY <2>1, <2>3
  <2> QED BY <2>3, <2>4
<1> QED BY <1>1, <1>2, BlockAdded

\* A step keeps hashes behind the identifiers they travel with.
LEMMA LinkStep == IInv /\ [Next]_vars => LinkInv'
<1> SUFFICES ASSUME IInv, [Next]_vars PROVE LinkInv'
  OBVIOUS
<1>1. /\ previous_blockID \in Int
      /\ previous_hash_value \in Nat
      /\ reply \in [hash : Nat, blockID : Nat]
      /\ details \in [Validators -> [hash : Nat, blockID : Int]]
      /\ pc \in [Validators -> PCs]
      /\ block_chain \in Seq(BlockRecords)
      /\ RoundInv
      /\ ChainInv
      /\ WorkInv
      /\ LinkInv
  BY DEF IInv, TypeOK, MetronomeTypeOK
<1>2. previous_blockID' \in Int /\ previous_blockID' >= previous_blockID
  BY <1>1, RoundGoesOn
<1>3. \A k \in DOMAIN block_chain :
        /\ k \in DOMAIN block_chain'
        /\ block_chain'[k] = block_chain[k]
        /\ block_chain[k].blockID \in Nat
  BY <1>1, ChainKept, BlockTypes
<1>4. LinksBackwards'
  <2>1. CASE UNCHANGED block_chain
    BY <1>1, <2>1 DEF LinkInv, LinksBackwards
  <2>2. ASSUME NEW id \in 1..(previous_blockID + 1), NEW h \in Nat,
               NEW m \in Makers, block_creation(id, h, m, <<>>),
               HashUpTo(h, id - 1)
        PROVE  LinksBackwards'
    <3>1. id \in Nat /\ m \in Validators \cup {"genesis", "metronome"}
      BY DEF Makers
    <3>2. /\ Block(id, h, m, <<>>).blockID = id
          /\ Block(id, h, m, <<>>).previous_block_hash = h
      BY DEF Block
    <3>3. /\ block_chain' \in Seq(BlockRecords)
          /\ Len(block_chain') = Len(block_chain) + 1
          /\ block_chain'[Len(block_chain) + 1].blockID = id
          /\ block_chain'[Len(block_chain) + 1].previous_block_hash = h
      BY <1>1, <2>2, <3>1, <3>2, ChainGrows
    <3>4. /\ Len(block_chain) \in Nat
          /\ DOMAIN block_chain = 1..Len(block_chain)
      BY <1>1
    <3>5. ASSUME NEW k \in 2..Len(block_chain'),
                 block_chain'[k].previous_block_hash # NoHash
          PROVE  /\ block_chain'[k].previous_block_hash \in 1..(k - 1)
                 /\ block_chain'[block_chain'[k].previous_block_hash].blockID
                      < block_chain'[k].blockID
      <4>1. CASE k = Len(block_chain) + 1
        BY <1>3, <2>2, <3>1, <3>3, <3>5, <4>1 DEF HashUpTo
      <4>2. CASE k \in 2..Len(block_chain)
        <5>1. block_chain'[k] = block_chain[k]
          BY <1>3, <3>4, <4>2
        <5>2. /\ block_chain[k].previous_block_hash \in 1..(k - 1)
              /\ block_chain[block_chain[k].previous_block_hash].blockID
                   < block_chain[k].blockID
          BY <1>1, <3>5, <4>2, <5>1 DEF LinkInv, LinksBackwards
        <5> QED BY <1>3, <3>4, <4>2, <5>1, <5>2
      <4> QED BY <3>3, <3>4, <4>1, <4>2
    <3> QED BY <3>5 DEF LinksBackwards
  <2> QED BY <2>1, <2>2, BlockAdded
<1>5. \A h \in Nat, i, j \in Int :
        /\ h # NoHash => h \in DOMAIN block_chain /\ block_chain[h].blockID <= i
        /\ i <= j
        => (h # NoHash =>
              h \in DOMAIN block_chain' /\ block_chain'[h].blockID <= j)
  BY <1>3
<1>6. HashUpTo(previous_hash_value, previous_blockID)'
  <2>1. CASE UNCHANGED previous_hash_value
    BY <1>1, <1>2, <1>5, <2>1 DEF LinkInv, HashUpTo
  <2>2. CASE SetPreviousHash
    <3>1. /\ previous_hash_value' = reply.hash
          /\ UNCHANGED previous_blockID
          /\ mpc \in Holding
          /\ reply.hash \in Nat
      BY <1>1, <2>2 DEF SetPreviousHash, Holding
    <3> QED BY <1>1, <1>5, <3>1 DEF LinkInv, HashUpTo
  <2> QED BY <2>1, <2>2 DEF Next, Main, MainStep, OpenWindow, ReadHash, ReadID,
        SetPreviousID, AppendPreviousID, CheckWin, CreateBlock, Timer, Expire,
        CallStep, LocalStep, AskDetails, GetHash, TakeDetails, GetID, Restart,
        ClaimLost, LoseClaim, ClaimPassed, PassClaim, ClaimGranted, GrantClaim,
        SendBlock, FixID, BlockAppended, AppendBlock, Crash, main, vars, mvars
<1>7. /\ mpc' \in {"id", "setID"} =>
           HashUpTo(reply.hash, previous_blockID + 1)'
      /\ mpc' \in Holding => HashUpTo(reply.hash, previous_blockID)'
  <2>1. CASE UNCHANGED <<mpc, reply>>
    <3>1. reply.hash \in Nat /\ reply'.hash = reply.hash
      BY <1>1, <2>1
    <3> QED BY <1>1, <1>2, <1>5, <2>1, <3>1 DEF LinkInv, HashUpTo
  <2>2. CASE ReadHash
    <3>1. /\ reply'.hash = LastHash
          /\ mpc' = "id"
          /\ UNCHANGED <<block_chain, previous_blockID>>
      BY <1>1, <2>2 DEF ReadHash
    <3>2. /\ LastHash \in DOMAIN block_chain
          /\ block_chain[LastHash].blockID <= previous_blockID + 1
      BY <1>1, LastBlock DEF ChainInv
    <3> QED BY <3>1, <3>2 DEF HashUpTo, Holding
  <2>3. CASE ReadID
    <3>1. /\ reply'.hash = reply.hash
          /\ mpc = "id"
          /\ mpc' \in {"hash", "setID"}
          /\ UNCHANGED <<block_chain, previous_blockID>>
      BY <1>1, <2>3 DEF ReadID
    <3> QED BY <1>1, <3>1 DEF LinkInv, HashUpTo, Holding
  <2>4. CASE SetPreviousID
    <3>1. /\ previous_blockID' = previous_blockID + 1
          /\ mpc = "setID"
          /\ mpc' = "setIDs"
          /\ UNCHANGED <<block_chain, reply>>
      BY <1>1, <2>4 DEF SetPreviousID, RoundInv
    <3> QED BY <1>1, <3>1 DEF LinkInv, HashUpTo, Holding
  <2>5. CASE AppendPreviousID
    BY <1>1, <2>5 DEF AppendPreviousID, LinkInv, HashUpTo, Holding
  <2>6. CASE mpc' \in {"reset", "hash", "wait", "create"}
    BY <2>6 DEF Holding
  <2> QED BY <2>1, <2>2, <2>3, <2>4, <2>5, <2>6 DEF Next, Main, MainStep,
        OpenWindow, SetPreviousHash, CheckWin, CreateBlock, Timer, Expire,
        CallStep, LocalStep, AskDetails, GetHash, TakeDetails, GetID, Restart,
        ClaimLost, LoseClaim, ClaimPassed, PassClaim, ClaimGranted, GrantClaim,
        SendBlock, FixID, BlockAppended, AppendBlock, Crash, main, vars, mvars
<1>8. ASSUME NEW v \in Validators
      PROVE  /\ pc'[v] = "details" => HashUpTo(details[v].hash, previous_blockID)'
             /\ pc'[v] \in Working =>
                  HashUpTo(details[v].hash, details[v].blockID)'
  <2>1. details[v].hash \in Nat /\ details[v].blockID \in Int
    BY <1>1
  <2>2. CASE /\ details'[v] = details[v]
             /\ pc'[v] = "details" => pc[v] = "details"
             /\ pc'[v] \in Working => pc[v] \in Working
    <3> DEFINE h == details[v].hash
               i == details[v].blockID
    <3>1. h \in Nat /\ i \in Int /\ previous_blockID \in Int
      BY <1>1, <2>1
    <3>2. ASSUME pc'[v] = "details"
          PROVE  h # NoHash => /\ h \in DOMAIN block_chain'
                               /\ block_chain'[h].blockID <= previous_blockID'
      <4>1. h # NoHash => /\ h \in DOMAIN block_chain
                          /\ block_chain[h].blockID <= previous_blockID
        BY <1>1, <2>2, <3>2 DEF LinkInv, HashUpTo
      <4> HIDE DEF h
      <4> QED BY ONLY <1>2, <1>5, <3>1, <4>1
    <3>3. ASSUME pc'[v] \in Working
          PROVE  h # NoHash => /\ h \in DOMAIN block_chain'
                               /\ block_chain'[h].blockID <= i
      <4>1. h # NoHash => h \in DOMAIN block_chain /\ block_chain[h].blockID <= i
        BY <1>1, <2>2, <3>3 DEF LinkInv, HashUpTo
      <4>2. i <= i
        BY <3>1
      <4> HIDE DEF h, i
      <4> QED BY ONLY <1>5, <3>1, <4>1, <4>2
    <3> QED BY <2>2, <3>2, <3>3 DEF HashUpTo
  <2>3. CASE pc'[v] \in {"poll", "dead"}
    BY <2>3 DEF Working
  <2>4. CASE UNCHANGED <<pc, details>>
    BY <2>2, <2>4
  <2>5. CASE Main
    BY <2>4, <2>5 DEF Main, MainStep, OpenWindow, ReadHash, ReadID,
         SetPreviousID, AppendPreviousID, SetPreviousHash, CheckWin,
         CreateBlock, handlers
  <2>6. CASE Timer
    BY <1>1, <2>2, <2>6 DEF Timer, Expire, Working
  <2>7. ASSUME NEW u \in Validators, CallStep(u) \/ LocalStep(u) \/ Crash(u),
               u # v
        PROVE  pc'[v] = pc[v] /\ details'[v] = details[v]
    BY <1>1, <2>7 DEF CallStep, LocalStep, AskDetails, GetHash, TakeDetails,
         GetID, Restart, ClaimLost, LoseClaim, ClaimPassed, PassClaim,
         ClaimGranted, GrantClaim, SendBlock, FixID, BlockAppended,
         AppendBlock, Crash, Goto
  <2>8. CASE AskDetails(v)
    <3>1. /\ details'[v].hash = previous_hash_value
          /\ pc'[v] = "details"
          /\ UNCHANGED <<block_chain, previous_blockID>>
      BY <1>1, <2>8 DEF AskDetails, GetHash, Goto, main
    <3> QED BY <1>1, <3>1 DEF LinkInv, HashUpTo, Working
  <2>9. CASE TakeDetails(v)
    <3>1. CASE Restart(v)
      BY <1>1, <2>3, <3>1 DEF Restart, Goto
    <3>2. CASE /\ details' = [details EXCEPT ![v].blockID = previous_blockID]
               /\ Goto(v, "mine")
      <4>1. /\ details'[v].hash = details[v].hash
            /\ details'[v].blockID = previous_blockID
            /\ pc'[v] = "mine"
            /\ pc[v] = "details"
            /\ UNCHANGED block_chain
        BY <1>1, <2>9, <3>2 DEF TakeDetails, GetID, Goto
      <4> QED BY <1>1, <4>1 DEF LinkInv, HashUpTo
    <3> QED BY <2>9, <3>1, <3>2 DEF TakeDetails, GetID
  <2>10. CASE ClaimLost(v) \/ BlockAppended(v) \/ Crash(v)
    BY <1>1, <2>3, <2>10 DEF ClaimLost, LoseClaim, BlockAppended, AppendBlock,
         Crash, Restart, Goto
  <2>11. CASE ClaimPassed(v) \/ ClaimGranted(v) \/ SendBlock(v)
    BY <1>1, <2>2, <2>11 DEF ClaimPassed, PassClaim, ClaimGranted, GrantClaim,
         SendBlock, FixID, Goto, Working
  <2>12. CASE UNCHANGED vars
    BY <2>4, <2>12 DEF vars, mvars
  <2> QED BY <2>2, <2>5, <2>6, <2>7, <2>8, <2>9, <2>10, <2>11, <2>12
        DEF Next, CallStep, LocalStep
<1> QED BY <1>4, <1>6, <1>7, <1>8 DEF LinkInv

-----------------------------------------------------------------------------
(* Who made the blocks.                                                    *)

\* A step keeps the metronome's blocks distinct.
LEMMA MakerStep == IInv /\ [Next]_vars => MakerInv'
<1> SUFFICES ASSUME IInv, [Next]_vars PROVE MakerInv'
  OBVIOUS
<1>1. /\ previous_blockID \in Int
      /\ block_chain \in Seq(BlockRecords)
      /\ RoundInv
      /\ ChainInv
      /\ MakerInv
  BY DEF IInv, TypeOK, MetronomeTypeOK
<1>2. CASE UNCHANGED block_chain
  <2>1. CASE mpc' \in InRound => mpc \in InRound
    BY <1>1, <1>2, <2>1, RoundGoesOn DEF MakerInv, MetronomeIDsDistinct, InRound
  <2>2. CASE mpc = "setID" /\ previous_blockID' = previous_blockID + 1
    BY <1>1, <1>2, <2>2 DEF MakerInv, MetronomeIDsDistinct, ChainInv
  <2>3. \/ mpc' \in InRound => mpc \in InRound
        \/ SetPreviousID
    BY DEF InRound, Next, Main, MainStep, OpenWindow, ReadHash, ReadID,
         AppendPreviousID, SetPreviousHash, CheckWin, CreateBlock, Timer,
         Expire, CallStep, LocalStep, AskDetails, GetHash, TakeDetails, GetID,
         Restart, ClaimLost, LoseClaim, ClaimPassed, PassClaim, ClaimGranted,
         GrantClaim, SendBlock, FixID, BlockAppended, AppendBlock, Crash, main,
         vars, mvars
  <2>4. SetPreviousID => mpc = "setID" /\ previous_blockID' = previous_blockID + 1
    BY <1>1 DEF SetPreviousID, RoundInv
  <2> QED BY <2>1, <2>2, <2>3, <2>4
<1>3. ASSUME NEW id \in 1..(previous_blockID + 1), NEW h \in Nat,
             NEW m \in Makers, block_creation(id, h, m, <<>>),
             m = "metronome" => /\ id = previous_blockID + 1
                                /\ mpc \in InRound
                                /\ mpc' = "reset",
             UNCHANGED previous_blockID,
             mpc' \in InRound => mpc \in InRound
      PROVE  MakerInv'
  <2>1. id \in Nat /\ m \in Validators \cup {"genesis", "metronome"}
    BY DEF Makers
  <2>2. /\ Block(id, h, m, <<>>).blockID = id
        /\ Block(id, h, m, <<>>).maker = m
    BY DEF Block
  <2>3. /\ block_chain' \in Seq(BlockRecords)
        /\ Len(block_chain') = Len(block_chain) + 1
        /\ \A k \in 1..Len(block_chain) : block_chain'[k] = block_chain[k]
        /\ block_chain'[Len(block_chain) + 1].blockID = id
        /\ block_chain'[Len(block_chain) + 1].maker = m
    BY <1>1, <1>3, <2>1, <2>2, ChainGrows
  <2>4. /\ Len(block_chain) \in Nat
        /\ DOMAIN block_chain = 1..Len(block_chain)
        /\ DOMAIN block_chain' = 1..(Len(block_chain) + 1)
    BY <1>1, <2>3
  <2>5. \A k \in 1..Len(block_chain) :
          block_chain[k].maker = "metronome" /\ mpc \in InRound
            => block_chain[k].blockID <= previous_blockID
    BY <1>1, <2>4 DEF MakerInv
  <2>6. m = "metronome" =>
          \A k \in 1..Len(block_chain) :
            block_chain[k].maker = "metronome" => block_chain[k].blockID # id
    BY <1>1, <1>3, <2>5
  <2>7. MetronomeIDsDistinct'
    BY <1>1, <2>3, <2>4, <2>6 DEF MakerInv, MetronomeIDsDistinct
  <2>8. ASSUME NEW k \in DOMAIN block_chain',
               block_chain'[k].maker = "metronome", mpc' \in InRound
        PROVE  block_chain'[k].blockID <= previous_blockID'
    <3>1. k # Len(block_chain) + 1
      BY <1>3, <2>3, <2>8 DEF InRound
    <3> QED BY <1>3, <2>3, <2>4, <2>5, <2>8, <3>1
  <2> QED BY <2>7, <2>8 DEF MakerInv
<1>4. mpc' \in InRound => mpc \in InRound \/ UNCHANGED block_chain
  BY DEF InRound, Next, Main, MainStep, OpenWindow, ReadHash, ReadID,
       SetPreviousID, AppendPreviousID, SetPreviousHash, CheckWin, CreateBlock,
       Timer, Expire, CallStep, LocalStep, AskDetails, GetHash, TakeDetails,
       GetID, Restart, ClaimLost, LoseClaim, ClaimPassed, PassClaim,
       ClaimGranted, GrantClaim, SendBlock, FixID, BlockAppended, AppendBlock,
       Crash, main, vars, mvars
<1> QED BY <1>2, <1>3, <1>4, BlockAdded

-----------------------------------------------------------------------------
(* The invariant, and what follows from it.                                *)

\* The invariant holds initially, ...
LEMMA InitIInv == Init => IInv
<1> SUFFICES ASSUME Init PROVE IInv
  OBVIOUS
<1> USE DEF Init, MetronomeInit
<1>1. /\ GenesisBlock \in BlockRecords
      /\ GenesisBlock.blockID = 0
      /\ GenesisBlock.maker = "genesis"
  BY DEF GenesisBlock, Block, BlockRecords, NoHash
<1>2. /\ block_chain \in Seq(BlockRecords)
      /\ Len(block_chain) = 1
      /\ DOMAIN block_chain = {1}
      /\ block_chain[1] = GenesisBlock
      /\ block_chain # <<>>
  BY <1>1
<1>3. TypeOK
  <2>1. /\ details \in [Validators -> [hash : Nat, blockID : Int]]
        /\ reply \in [hash : Nat, blockID : Nat]
    BY Labels
  <2>2. /\ pc \in [Validators -> PCs]
        /\ newID \in [Validators -> Nat]
        /\ previous_block_ID \in [Validators -> Int]
        /\ mpc \in MainPCs
    BY Labels
  <2>3. /\ previous_blockIDs \in Seq(Nat)
        /\ previous_blockID \in Int
        /\ previous_hash_value \in Nat
        /\ wins \in Nat
        /\ validator_win \in {0, 1}
    BY DEF NoHash
  <2>4. expired \in BOOLEAN /\ torn \in BOOLEAN
    BY Zenon
  <2> QED BY <1>2, <2>1, <2>2, <2>3, <2>4 DEF TypeOK, MetronomeTypeOK
<1>4. RoundInv
  BY DEF RoundInv, RoundsInOrder, InRound
<1>5. ChainInv
  BY <1>1, <1>2 DEF ChainInv, NoGap
<1>6. WorkInv
  BY DEF WorkInv, Working, Sending
<1>7. LinkInv
  BY <1>2 DEF LinkInv, LinksBackwards, HashUpTo, Working, Holding, NoHash
<1>8. MakerInv
  BY <1>1, <1>2 DEF MakerInv, MetronomeIDsDistinct, InRound
<1> QED BY <1>3, <1>4, <1>5, <1>6, <1>7, <1>8 DEF IInv

\* ... every step keeps it, ...
LEMMA StepIInv == IInv /\ [Next]_vars => IInv'
BY TypeStep, RoundStep, ChainStep, WorkStep, LinkStep, MakerStep DEF IInv

\* ... and so it holds always.
LEMMA AlwaysIInv == Spec => []IInv
BY InitIInv, StepIInv, PTL DEF Spec

\* Every variable of the metronome, the chain and the validators has its type
\* in every reachable state; above all the identifiers computed from replies
\* are natural numbers, although previous_blockID starts at -1.
THEOREM ValidatorTypes == Spec => []TypeOK
<1>1. IInv => TypeOK
  BY DEF IInv
<1> QED BY <1>1, AlwaysIInv, PTL

\* The metronome announces the rounds 0, 1, 2, ... whatever the order in
\* which the blocks of winners and its own reach the chain.
THEOREM AnnouncedInOrder == Spec => []RoundsInOrder
<1>1. IInv => RoundsInOrder
  BY DEF IInv, RoundInv
<1> QED BY <1>1, AlwaysIInv, PTL

\* No identifier is skipped in the chain, although block_creation_validator
\* guesses the identifier of a late block.
THEOREM ChainHasNoGap == Spec => []NoGap
<1>1. IInv => NoGap
  BY DEF IInv, ChainInv
<1> QED BY <1>1, AlwaysIInv, PTL

\* The links of the chain lead back to the genesis block, although
\* get_details and metronome_blockHash read hash and identifier one by one.
THEOREM ChainLinksBackwards == Spec => []LinksBackwards
<1>1. IInv => LinksBackwards
  BY DEF IInv, LinkInv
<1> QED BY <1>1, AlwaysIInv, PTL

\* The main thread makes one block of an identifier at most.
THEOREM MetronomeMakesOne == Spec => []MetronomeIDsDistinct
<1>1. IInv => MetronomeIDsDistinct
  BY DEF IInv, MakerInv
<1> QED BY <1>1, AlwaysIInv, PTL

-----------------------------------------------------------------------------
(* The refinement.                                                         *)

\* A step is an Announce, an AddBlock or a stutter of the ledger.
LEMMA LedgerStep ==
  ASSUME IInv, [Next]_vars
  PROVE  [Ledger!Next]_(Ledger!vars)
<1>1. previous_blockID \in Int /\ previous_blockID >= -1
  BY DEF IInv, TypeOK, MetronomeTypeOK, RoundInv
<1>2. CASE UNCHANGED block_chain /\ UNCHANGED previous_blockID
  BY <1>2 DEF Ledger!vars, IDs
<1>3. CASE /\ previous_blockID' = previous_blockID + 1
           /\ previous_blockID' \in IDs
           /\ UNCHANGED block_chain
  <2>1. UNCHANGED IDs
    BY <1>3 DEF IDs
  <2>2. Ledger!Announce
    BY <1>1, <1>3, <2>1 DEF Ledger!Announce
  <2> QED BY <2>2 DEF Ledger!Next
<1>4. ASSUME NEW id \in 1..(previous_blockID + 1), NEW h \in Nat,
             NEW m \in Makers, block_creation(id, h, m, <<>>),
             UNCHANGED previous_blockID
      PROVE  Ledger!AddBlock
  <2>1. id \in Nat /\ m \in Validators \cup {"genesis", "metronome"}
    BY DEF Makers
  <2>2. IDs' = IDs \cup {id}
    BY <1>4, <2>1, ChainGrows DEF IInv, TypeOK, MetronomeTypeOK
  <2> QED BY <1>4, <2>2 DEF Ledger!AddBlock
<1> QED BY <1>2, <1>3, <1>4, BlockAdded, RoundGoesOn DEF Ledger!Next

\* The servers and validators implement the ledger: a round is announced for
\* a block that exists, and a block is only added for the round after one
\* that was announced.
THEOREM ValidatorImplementsLedger == Spec => ImplementsLedger
<1>1. Init => Ledger!Init
  <2> SUFFICES ASSUME Init PROVE Ledger!Init
    OBVIOUS
  <2>1. previous_blockID = -1 /\ block_chain = <<GenesisBlock>>
    BY DEF Init, MetronomeInit
  <2>2. IDs = {0}
    <3>1. /\ DOMAIN block_chain = {1}
          /\ block_chain[1].blockID = 0
      BY <2>1 DEF GenesisBlock, Block
    <3> QED BY <3>1 DEF IDs
  <2> QED BY <2>1, <2>2 DEF Ledger!Init
<1>2. IInv /\ [Next]_vars => [Ledger!Next]_(Ledger!vars)
  BY LedgerStep
<1> QED BY <1>1, <1>2, AlwaysIInv, PTL DEF Spec, ImplementsLedger, Ledger!Spec

-----------------------------------------------------------------------------
(* The hash and the identifier that are announced together.                *)

\* The block h is there and has the identifier id.
Names(h, id) == h \in DOMAIN block_chain /\ block_chain[h].blockID = id

\* The hash that is announced with an identifier, followed through the main
\* thread: torn tells whether it may be that of another block.
TornInv ==
  ~torn =>
    /\ mpc = "id" => reply.hash = LastHash
    /\ mpc \in {"setID", "setIDs", "setHash"} => Names(reply.hash, reply.blockID)
    /\ mpc \in Holding => reply.blockID = previous_blockID
    /\ mpc = "wait" => Names(previous_hash_value, previous_blockID)

\* The blocks that are there stay.
LEMMA NamesStay ==
  ASSUME IInv, [Next]_vars
  PROVE  \A h, i : Names(h, i) => h \in DOMAIN block_chain' /\ block_chain'[h].blockID = i
<1>1. block_chain \in Seq(BlockRecords)
  BY DEF IInv, TypeOK, MetronomeTypeOK
<1>2. CASE UNCHANGED block_chain
  BY <1>2 DEF Names
<1>3. ASSUME NEW id \in 1..(previous_blockID + 1), NEW h \in Nat,
             NEW m \in Makers, block_creation(id, h, m, <<>>)
      PROVE  \A k \in DOMAIN block_chain : k \in DOMAIN block_chain' /\ block_chain'[k] = block_chain[k]
  <2>1. id \in Nat /\ m \in Validators \cup {"genesis", "metronome"}
    BY DEF Makers
  <2> QED BY <1>1, <1>3, <2>1, ChainGrows
<1> QED BY <1>2, <1>3, BlockAdded DEF Names

\* The steps of the main thread.
LEMMA MainTorn ==
  ASSUME IInv, TornInv, Main
  PROVE  TornInv'
<1>1. TypeOK /\ reply \in [hash : Nat, blockID : Nat] /\ block_chain \in Seq(BlockRecords)
      /\ block_chain # <<>> /\ RoundInv
  BY DEF IInv, TypeOK, MetronomeTypeOK, ChainInv
<1>2. CASE OpenWindow
  BY <1>2 DEF OpenWindow, TornInv, Holding
<1>3. CASE ReadHash
  BY <1>1, <1>3 DEF ReadHash, TornInv, Holding, LastHash
<1>4. CASE ReadID
  <2>1. /\ reply'.hash = reply.hash /\ reply'.blockID = LastID
        /\ mpc = "id" /\ mpc' \in {"hash", "setID"} /\ UNCHANGED <<torn, block_chain>>
    BY <1>1, <1>4 DEF ReadID
  <2>2. LastHash \in DOMAIN block_chain /\ LastID = block_chain[LastHash].blockID
    BY <1>1, LastBlock
  <2> QED BY <2>1, <2>2 DEF TornInv, Names, Holding
<1>5. CASE SetPreviousID
  BY <1>5 DEF SetPreviousID, TornInv, Names, Holding
<1>6. CASE AppendPreviousID
  BY <1>6 DEF AppendPreviousID, TornInv, Names, Holding
<1>7. CASE SetPreviousHash
  BY <1>7 DEF SetPreviousHash, TornInv, Names, Holding
<1>8. CASE CheckWin
  BY <1>8 DEF CheckWin, TornInv, Names, Holding
<1>9. CASE CreateBlock
  BY <1>9 DEF CreateBlock, TornInv, Holding
<1> QED BY <1>2, <1>3, <1>4, <1>5, <1>6, <1>7, <1>8, <1>9 DEF Main, MainStep

\* The steps of the validators and their handlers: a block that comes between
\* the two reads is noticed, one that comes later does not matter.
LEMMA HandlerTorn ==
  ASSUME IInv, TornInv, [Next]_vars, ~Main
  PROVE  TornInv'
<1>1. UNCHANGED <<mpc, reply, previous_blockID, previous_hash_value>>
  BY DEF Next, Timer, Expire, CallStep, LocalStep, AskDetails, GetHash, TakeDetails,
       GetID, Restart, ClaimLost, LoseClaim, ClaimPassed, PassClaim, ClaimGranted,
       GrantClaim, SendBlock, FixID, BlockAppended, AppendBlock, Crash, main, vars, mvars
<1>2. \/ UNCHANGED <<torn, block_chain>>
      \/ torn' = (torn \/ mpc = "id")
  BY DEF Next, Timer, Expire, CallStep, LocalStep, AskDetails, GetHash, TakeDetails,
       GetID, Restart, ClaimLost, LoseClaim, ClaimPassed, PassClaim, ClaimGranted,
       GrantClaim, SendBlock, FixID, BlockAppended, AppendBlock, Crash, main, vars, mvars
<1>3. torn \in BOOLEAN
  BY DEF IInv, TypeOK, MetronomeTypeOK
<1>4. CASE UNCHANGED <<torn, block_chain>>
  BY <1>1, <1>4 DEF TornInv, Names, LastHash
<1>5. CASE torn' = (torn \/ mpc = "id")
  <2>1. ~torn' => ~torn /\ mpc # "id"
    BY <1>3, <1>5
  <2> QED BY <1>1, <2>1, NamesStay DEF TornInv, Names
<1> QED BY <1>2, <1>4, <1>5

\* The main thread announces the hash and the identifier of one block, unless
\* a winner's block comes between its two reads: no other interleaving of
\* handlers and main thread separates the two.
THEOREM AnnouncedTogether == Spec => []HashMatchesID
<1>1. Init => TornInv
  BY DEF Init, MetronomeInit, TornInv, Holding
<1>2. IInv /\ TornInv /\ [Next]_vars => TornInv'
  BY MainTorn, HandlerTorn
<1>3. TornInv => HashMatchesID
  BY DEF TornInv, HashMatchesID, Names
<1> QED BY <1>1, <1>2, <1>3, AlwaysIInv, PTL DEF Spec

-----------------------------------------------------------------------------
(* How many claims a window grants.                                        *)

\* The claims that passed the check and have not set validator_win.
Passed == {v \in Validators : pc[v] = "set"}

\* A claim that passed holds a thread of the pool until it is granted.
WinInv ==
  /\ IsFiniteSet(Busy)
  /\ Cardinality(Busy) <= MetronomeWorkers
  /\ validator_win = 0 => wins = 0
  /\ wins + Cardinality(Passed) <= MetronomeWorkers

\* The claims that passed are calls being served.
LEMMA PassedServed ==
  ASSUME IsFiniteSet(Busy)
  PROVE  /\ IsFiniteSet(Passed)
         /\ Cardinality(Passed) \in Nat
         /\ Cardinality(Busy) \in Nat
         /\ Cardinality(Passed) <= Cardinality(Busy)
<1>1. Passed \subseteq Busy
  BY DEF Passed, Busy, HandlerPCs
<1> QED BY <1>1, FS_Subset, FS_CardinalityType

\* A validator changes place: a call starts only when a thread is free.
LEMMA MoveBusy ==
  ASSUME TypeOK, WinInv, NEW v \in Validators, NEW l, Goto(v, l),
         l \in HandlerPCs /\ pc[v] \notin HandlerPCs => WorkerFree
  PROVE  IsFiniteSet(Busy') /\ Cardinality(Busy') <= MetronomeWorkers
<1>1. \A u \in Validators : pc'[u] = IF u = v THEN l ELSE pc[u]
  BY DEF Goto, TypeOK, MetronomeTypeOK
<1>2. Cardinality(Busy) \in Nat /\ MetronomeWorkers \in Nat
  BY FS_CardinalityType, MetronomeAssumption DEF WinInv
<1>3. CASE l \in HandlerPCs /\ pc[v] \notin HandlerPCs
  <2>1. Busy' = Busy \cup {v}
    BY <1>1, <1>3 DEF Busy
  <2>2. Cardinality(Busy) < MetronomeWorkers
    BY <1>3 DEF WorkerFree
  <2>3. v \notin Busy
    BY <1>3 DEF Busy
  <2>4. IsFiniteSet(Busy') /\ Cardinality(Busy') = Cardinality(Busy) + 1
    BY <2>1, <2>3, FS_AddElement DEF WinInv
  <2> QED BY <1>2, <2>2, <2>4
<1>4. CASE ~(l \in HandlerPCs /\ pc[v] \notin HandlerPCs)
  <2>1. Busy' \subseteq Busy
    BY <1>1, <1>4 DEF Busy
  <2>2. IsFiniteSet(Busy') /\ Cardinality(Busy') <= Cardinality(Busy)
    BY <2>1, FS_Subset DEF WinInv
  <2>3. Cardinality(Busy') \in Nat
    BY <2>2, FS_CardinalityType
  <2> QED BY <1>2, <2>2, <2>3 DEF WinInv
<1> QED BY <1>3, <1>4

\* A step that passes and grants no claim.
LEMMA MoveWins ==
  ASSUME TypeOK, WinInv, NEW v \in Validators, NEW l, Goto(v, l),
         l \in HandlerPCs /\ pc[v] \notin HandlerPCs => WorkerFree,
         l # "set", pc[v] # "set", UNCHANGED <<validator_win, wins>>
  PROVE  WinInv'
<1>1. Passed' = Passed
  BY DEF Passed, Goto, TypeOK, MetronomeTypeOK
<1> QED BY <1>1, MoveBusy DEF WinInv

\* A claim passes while nobody won: all that passed are being served.
LEMMA PassWins ==
  ASSUME TypeOK, WinInv, NEW v \in Validators, ClaimPassed(v)
  PROVE  WinInv'
<1>1. Goto(v, "set") /\ WorkerFree /\ validator_win = 0 /\ UNCHANGED <<validator_win, wins>>
  BY DEF ClaimPassed, PassClaim
<1>2. IsFiniteSet(Busy') /\ Cardinality(Busy') <= MetronomeWorkers
  BY <1>1, MoveBusy
<1>3. Passed' \subseteq Busy'
  BY DEF Passed, Busy, HandlerPCs
<1>4. /\ IsFiniteSet(Passed') /\ Cardinality(Passed') <= Cardinality(Busy')
      /\ Cardinality(Passed') \in Nat /\ Cardinality(Busy') \in Nat
  BY <1>2, <1>3, FS_Subset, FS_CardinalityType
<1>5. wins' = 0 /\ MetronomeWorkers \in Nat
  BY <1>1, MetronomeAssumption DEF WinInv
<1>6. 0 + Cardinality(Passed') <= MetronomeWorkers
  BY <1>2, <1>4, <1>5
<1> QED BY <1>1, <1>2, <1>5, <1>6 DEF WinInv

\* A claim is granted once.
LEMMA GrantWins ==
  ASSUME TypeOK, WinInv, NEW v \in Validators, ClaimGranted(v)
  PROVE  WinInv'
<1>1. Goto(v, "won") /\ pc[v] = "set" /\ validator_win' = 1 /\ wins' = wins + 1
  BY DEF ClaimGranted, GrantClaim
<1>2. IsFiniteSet(Busy') /\ Cardinality(Busy') <= MetronomeWorkers
  BY <1>1, MoveBusy DEF HandlerPCs
<1>3. Passed' = Passed \ {v} /\ v \in Passed
  BY <1>1 DEF Passed, Goto, TypeOK, MetronomeTypeOK
<1>4. IsFiniteSet(Passed) /\ Cardinality(Passed) \in Nat
  BY PassedServed DEF WinInv
<1>5. Cardinality(Passed \ {v}) = Cardinality(Passed) - 1
  BY <1>3, <1>4, FS_RemoveElement
<1>6. wins \in Nat /\ wins + Cardinality(Passed) <= MetronomeWorkers
  BY DEF WinInv, TypeOK, MetronomeTypeOK
<1>7. (wins + 1) + (Cardinality(Passed) - 1) = wins + Cardinality(Passed)
  BY <1>4, <1>6
<1>8. wins' + Cardinality(Passed') <= MetronomeWorkers
  BY <1>1, <1>3, <1>5, <1>6, <1>7
<1> QED BY <1>1, <1>2, <1>8 DEF WinInv

\* Every step keeps the bound.
LEMMA StepWins == IInv /\ WinInv /\ [Next]_vars => WinInv'
<1> SUFFICES ASSUME IInv, WinInv, [Next]_vars PROVE WinInv'
  OBVIOUS
<1>1. TypeOK
  BY DEF IInv
<1>2. CASE UNCHANGED <<pc, wins, validator_win>>
  BY <1>2 DEF WinInv, Busy, Passed
<1>3. CASE Main
  <2>1. CASE OpenWindow
    <3>1. Busy' = Busy /\ Passed' = Passed /\ wins' = 0
      BY <2>1 DEF OpenWindow, Busy, Passed, handlers
    <3>2. MetronomeWorkers \in Nat
      BY MetronomeAssumption
    <3>3. 0 + Cardinality(Passed) <= MetronomeWorkers
      BY <3>2, PassedServed DEF WinInv
    <3> QED BY <3>1, <3>3 DEF WinInv
  <2>2. CASE ~OpenWindow
    BY <1>2, <1>3, <2>2 DEF Main, MainStep, ReadHash, ReadID, SetPreviousID,
         AppendPreviousID, SetPreviousHash, CheckWin, CreateBlock, handlers
  <2> QED BY <2>1, <2>2
<1>4. CASE Timer
  <2>1. /\ \A v \in Validators : pc'[v] = IF pc[v] = "sleep" THEN "append" ELSE pc[v]
        /\ UNCHANGED <<validator_win, wins>>
    BY <1>1, <1>4 DEF Timer, Expire, TypeOK, MetronomeTypeOK
  <2>2. Busy' = Busy /\ Passed' = Passed
    BY <2>1 DEF Busy, Passed, HandlerPCs
  <2> QED BY <2>1, <2>2 DEF WinInv
<1>5. ASSUME NEW v \in Validators, CallStep(v) \/ LocalStep(v) \/ Crash(v)
      PROVE  WinInv'
  <2> USE DEF Restart
  <2>1. CASE AskDetails(v)
    BY <1>1, <2>1, MoveWins DEF AskDetails, GetHash
  <2>2. CASE TakeDetails(v)
    BY <1>1, <2>2, MoveWins DEF TakeDetails, GetID, HandlerPCs
  <2>3. CASE ClaimLost(v)
    BY <1>1, <2>3, MoveWins DEF ClaimLost, LoseClaim
  <2>4. CASE SendBlock(v)
    <3>1. \E l \in {"append", "sleep"} : Goto(v, l)
      BY <2>4 DEF SendBlock, FixID
    <3> QED BY <1>1, <2>4, <3>1, MoveWins DEF SendBlock, FixID
  <2>5. CASE BlockAppended(v)
    BY <1>1, <2>5, MoveWins DEF BlockAppended, AppendBlock, HandlerPCs
  <2>6. CASE Crash(v)
    BY <1>1, <2>6, MoveWins DEF Crash, HandlerPCs
  <2> QED BY <1>1, <1>5, <2>1, <2>2, <2>3, <2>4, <2>5, <2>6, PassWins, GrantWins
        DEF CallStep, LocalStep
<1>6. CASE UNCHANGED vars
  BY <1>2, <1>6 DEF vars, mvars
<1> QED BY <1>3, <1>4, <1>5, <1>6 DEF Next

\* The metronome grants no more claims in a window than its pool has threads:
\* only claims that were all served at once can have passed the unlocked
\* check of validator_win.
THEOREM WindowGrantsFew == Spec => []WinnersBounded
<1>1. Init => WinInv
  <2> SUFFICES ASSUME Init PROVE WinInv
    OBVIOUS
  <2>1. Busy = {} /\ Passed = {} /\ wins = 0
    BY DEF Init, MetronomeInit, Busy, Passed, HandlerPCs
  <2>2. MetronomeWorkers \in Nat
    BY MetronomeAssumption
  <2>3. IsFiniteSet({}) /\ Cardinality({}) = 0
    BY FS_EmptySet
  <2> QED BY <2>1, <2>2, <2>3 DEF WinInv
<1>2. IInv /\ WinInv => WinnersBounded
  <2> SUFFICES ASSUME IInv, WinInv PROVE WinnersBounded
    OBVIOUS
  <2>1. wins \in Nat /\ MetronomeWorkers \in Nat /\ Cardinality(Passed) \in Nat
    BY PassedServed, MetronomeAssumption DEF IInv, TypeOK, MetronomeTypeOK, WinInv
  <2> QED BY <2>1 DEF WinInv, WinnersBounded
<1> QED BY <1>1, <1>2, StepWins, AlwaysIInv, PTL DEF Spec

-----------------------------------------------------------------------------
(* DSC.                                                                    *)

Ids == TransactionIds

-----------------------------------------------------------------------------
(* The parts.                                                              *)

\* A step of the composition is one of the validator or leaves it alone.
LEMMA StepOfValidator == [DSCNext]_dscVars => [Next]_vars
<1>1. ASSUME NEW v \in Validators, Call(v)
      PROVE  CallStep(v)
  BY <1>1 DEF Call, BuildAndSend, CallStep
<1>2. ASSUME NEW v \in Validators, Local(v)
      PROVE  LocalStep(v) \/ Crash(v) \/ UNCHANGED vars
  BY <1>2 DEF Local, LocalStep, CheckSubmitted, PopSubmitted, PopFails,
       ReadFails, BatchAppended, MoveToConfirm
<1> QED BY <1>1, <1>2 DEF DSCNext, Submit, MainThread, dscVars, Next

\* Servers and validators do in the whole system what they do in Validator,
\* so that its theorems hold here: the calls to the pool only delay them, and
\* a winner that a failing call ends is one that crashes there.
THEOREM DSCImplementsValidator == DSCSpec => Spec
<1>1. DSCInit => Init
  BY DEF DSCInit
<1> QED BY <1>1, StepOfValidator, PTL DEF DSCSpec, Spec

\* In particular the chain of the whole system is linked back to the genesis
\* block and has no gap, whatever winners the pool ends.
THEOREM DSCKeepsChain == DSCSpec => [](NoGap /\ LinksBackwards)
BY DSCImplementsValidator, ChainHasNoGap, ChainLinksBackwards, PTL

\* The validator's types hold in the composition.
LEMMA AlwaysTypes == DSCSpec => []TypeOK
BY DSCImplementsValidator, ValidatorTypes, PTL

-----------------------------------------------------------------------------
(* The invariant.                                                          *)

BatchTypes ==
  /\ batch \in [Validators -> Ids \cup {NotAsked, Checked, NoTx}]
  /\ carried \in Seq(Ids \cup {NoTx})
  /\ waiting \in Seq(Ids)
  /\ taken \subseteq Ids /\ done \subseteq Ids

\* A transaction is in one place of the pool.
OnePlace ==
  /\ \A i, j \in DOMAIN waiting : waiting[i] = waiting[j] => i = j
  /\ \A i \in DOMAIN waiting : waiting[i] \notin taken \cup done
  /\ taken \cap done = {}

HoldingPCs == {"won", "sleep", "append", "poll", "dead"}

\* What was taken is in the hands of one validator, which is then between its
\* win and its report, or dead.
HoldInv ==
  /\ \A v \in Validators :
       batch[v] \in Ids => batch[v] \in taken /\ pc[v] \in HoldingPCs
  /\ \A v \in Validators : pc[v] \in Sending => batch[v] \in Ids \cup {NoTx}
  /\ \A t \in taken : \E v \in Validators : batch[v] = t
  /\ \A u, v \in Validators : batch[u] = batch[v] /\ batch[u] \in Ids => u = v

IsCarried(t) == \E k \in DOMAIN carried : carried[k] = t

\* A block carried what was reported and what its validator is about to
\* report, and nothing that a validator still has to send.
CarryInv ==
  /\ \A j, k \in DOMAIN carried :
       carried[j] = carried[k] /\ carried[j] \in Ids => j = k
  /\ \A t \in done : IsCarried(t)
  /\ \A v \in Validators :
       batch[v] \in Ids => (IsCarried(batch[v]) <=> pc[v] = "poll")
  /\ \A k \in DOMAIN carried : carried[k] \in Ids => carried[k] \in taken \cup done

BatchInv == BatchTypes /\ OnePlace /\ HoldInv /\ CarryInv

\* BatchInv holds at the start.
LEMMA InitBatchInv == DSCInit => BatchInv
<1> SUFFICES ASSUME DSCInit PROVE BatchInv
  OBVIOUS
<1> USE DEF DSCInit, Queue!Init, Init, MetronomeInit, Ids
<1>1. BatchTypes
  BY DEF BatchTypes
<1>2. OnePlace
  BY DEF OnePlace
<1>3. HoldInv
  BY DSCAssumption DEF HoldInv, HoldingPCs, Sending
<1>4. DOMAIN carried = {1} /\ carried[1] = NoTx
  OBVIOUS
<1>5. CarryInv
  BY <1>4, DSCAssumption DEF CarryInv, IsCarried
<1> QED BY <1>1, <1>2, <1>3, <1>5 DEF BatchInv

\* A validator that goes on within its round, or has nothing in its hands.
GoesOn(v) ==
  \/ pc'[v] = pc[v]
  \/ batch[v] \notin Ids /\ pc'[v] \notin Sending
  \/ /\ pc[v] \in {"won", "sleep"}
     /\ \/ pc'[v] = "dead"
        \/ pc'[v] \in Sending /\ batch[v] \in Ids \cup {NoTx}

\* A step that touches neither the batch nor the block keeps BatchInv.
LEMMA QuietStep ==
  ASSUME BatchInv, UNCHANGED rest, \A v \in Validators : GoesOn(v)
  PROVE  BatchInv'
<1> USE DEF BatchInv, rest, pool
<1>1. BatchTypes'
  BY DEF BatchTypes
<1>2. OnePlace'
  BY DEF OnePlace
<1>3. ASSUME NEW v \in Validators, batch[v] \in Ids
      PROVE  pc'[v] \in HoldingPCs /\ (pc'[v] = "poll" <=> pc[v] = "poll")
  BY <1>3 DEF GoesOn, HoldInv, HoldingPCs, Sending
<1>4. ASSUME NEW v \in Validators, pc'[v] \in Sending
      PROVE  batch[v] \in Ids \cup {NoTx}
  BY <1>4 DEF GoesOn, HoldInv, Sending
<1>5. HoldInv'
  BY <1>3, <1>4 DEF HoldInv
<1>6. CarryInv'
  BY <1>3 DEF CarryInv, IsCarried
<1> QED BY <1>1, <1>2, <1>5, <1>6

\* A transaction that a wallet submits is in no block yet.
LEMMA SubmitStep ==
  ASSUME BatchInv, Submit
  PROVE  BatchInv'
<1> USE DEF BatchInv, Ids
<1>0. PICK t \in TransactionIds : Queue!Submit(t)
  BY DEF Submit
<1>u. UNCHANGED <<batch, carried, pc>>
  BY DEF Submit, vars, mvars
<1>1. /\ waiting' = Append(waiting, t)
      /\ UNCHANGED <<taken, done, batch, carried, pc>>
      /\ t \notin taken \cup done
      /\ \A i \in DOMAIN waiting : waiting[i] # t
  BY <1>0, <1>u DEF Queue!Submit, Queue!Known, Queue!Range
<1>2. /\ waiting' \in Seq(Ids)
      /\ DOMAIN waiting' = DOMAIN waiting \cup {Len(waiting) + 1}
      /\ \A i \in DOMAIN waiting : waiting'[i] = waiting[i]
      /\ waiting'[Len(waiting) + 1] = t
  BY <1>1 DEF BatchTypes
<1>3. BatchTypes'
  BY <1>1, <1>2 DEF BatchTypes
<1>4. OnePlace'
  BY <1>1, <1>2 DEF OnePlace
<1>5. HoldInv' /\ CarryInv'
  BY <1>1 DEF HoldInv, CarryInv, IsCarried
<1> QED BY <1>3, <1>4, <1>5

\* The pool's answer whether anything is submitted.
LEMMA CheckStep ==
  ASSUME BatchInv, NEW v \in Validators, CheckSubmitted(v)
  PROVE  BatchInv'
<1> USE DEF BatchInv, Ids
<1>1. /\ batch'[v] \in {NoTx, Checked} /\ batch'[v] \notin Ids
      /\ batch[v] \notin Ids /\ pc[v] = "won"
      /\ \A u \in Validators \ {v} : batch'[u] = batch[u]
      /\ UNCHANGED <<waiting, taken, done, carried, pc>>
  BY DSCAssumption DEF CheckSubmitted, Gets, BatchTypes, pool, vars, mvars
<1>2. BatchTypes'
  BY <1>1 DEF BatchTypes, CheckSubmitted, Gets
<1>3. OnePlace'
  BY <1>1 DEF OnePlace
<1>4. HoldInv'
  <2>1. \A u \in Validators : batch'[u] \in Ids => batch'[u] = batch[u] /\ u # v
    BY <1>1
  <2>2. \A t \in taken : \E u \in Validators \ {v} : batch[u] = t
    BY <1>1 DEF HoldInv, BatchTypes
  <2> QED BY <1>1, <2>1, <2>2 DEF HoldInv, Sending
<1>5. CarryInv'
  BY <1>1 DEF CarryInv, IsCarried
<1> QED BY <1>2, <1>3, <1>4, <1>5

\* The transaction that a validator pops is its own from then on.
LEMMA PopStep ==
  ASSUME BatchInv, NEW v \in Validators, PopSubmitted(v)
  PROVE  BatchInv'
<1> USE DEF BatchInv, Ids
<1> DEFINE t == Head(waiting)
<1>1. /\ waiting # <<>>
      /\ waiting' = Tail(waiting)
      /\ taken' = taken \cup {t}
      /\ batch' = [batch EXCEPT ![v] = t]
      /\ batch[v] = Checked /\ pc[v] = "won"
      /\ UNCHANGED <<done, carried, pc>>
  BY DEF PopSubmitted, Queue!Take, Gets, vars, mvars
<1>2. /\ 1 \in DOMAIN waiting /\ t = waiting[1] /\ t \in Ids
      /\ Tail(waiting) \in Seq(Ids)
      /\ \A i \in DOMAIN Tail(waiting) :
           i + 1 \in DOMAIN waiting /\ Tail(waiting)[i] = waiting[i + 1]
      /\ \A i \in DOMAIN Tail(waiting) : i \in Nat \ {0}
  BY <1>1 DEF BatchTypes
<1>3. t \notin taken \cup done
  BY <1>2 DEF OnePlace
<1>4. /\ batch'[v] = t /\ batch[v] \notin Ids
      /\ \A u \in Validators \ {v} : batch'[u] = batch[u]
  BY <1>1, DSCAssumption DEF BatchTypes
<1>5. ~IsCarried(t)
  BY <1>2, <1>3 DEF CarryInv, IsCarried
<1>6. BatchTypes'
  BY <1>1, <1>2 DEF BatchTypes
<1>7. OnePlace'
  <2>1. \A i \in DOMAIN waiting' : waiting'[i] # t
    <3> SUFFICES ASSUME NEW i \in DOMAIN waiting' PROVE waiting'[i] # t
      OBVIOUS
    <3>1. i + 1 \in DOMAIN waiting /\ waiting'[i] = waiting[i + 1] /\ i + 1 # 1
      BY <1>1, <1>2
    <3> QED BY <3>1, <1>2 DEF OnePlace
  <2>2. \A i, j \in DOMAIN waiting' : waiting'[i] = waiting'[j] => i = j
    BY <1>1, <1>2 DEF OnePlace
  <2>3. \A i \in DOMAIN waiting' : waiting'[i] \notin taken' \cup done'
    BY <1>1, <1>2, <2>1 DEF OnePlace
  <2> QED BY <1>1, <1>3, <2>2, <2>3 DEF OnePlace
<1>8. HoldInv'
  <2>1. \A u \in Validators : batch'[u] \in Ids =>
          batch'[u] \in taken' /\ pc'[u] \in HoldingPCs
    BY <1>1, <1>4 DEF HoldInv, HoldingPCs
  <2>2. \A u \in Validators : pc'[u] \in Sending => batch'[u] \in Ids \cup {NoTx}
    BY <1>1, <1>4 DEF HoldInv, Sending
  <2>3. \A x \in taken' : \E u \in Validators : batch'[u] = x
    BY <1>1, <1>4 DEF HoldInv, BatchTypes
  <2>4. ASSUME NEW u \in Validators, NEW w \in Validators,
               batch'[u] = batch'[w], batch'[u] \in Ids
        PROVE  u = w
    BY <2>4, <1>3, <1>4 DEF HoldInv
  <2> QED BY <2>1, <2>2, <2>3, <2>4 DEF HoldInv
<1>9. CarryInv'
  <2>1. \A u \in Validators : batch'[u] \in Ids =>
          (IsCarried(batch'[u]) <=> pc'[u] = "poll")
    BY <1>1, <1>4, <1>5 DEF CarryInv
  <2>2. (\A u \in Validators : batch[u] \in Ids =>
          (IsCarried(batch[u]) <=> pc[u] = "poll"))'
    BY <1>1, <2>1 DEF IsCarried
  <2> QED BY <1>1, <2>2 DEF CarryInv, IsCarried
<1> QED BY <1>6, <1>7, <1>8, <1>9

\* A block more is carried.
LEMMA CarriedGrows ==
  ASSUME BatchTypes, NEW b \in Ids \cup {NoTx}, carried' = Append(carried, b)
  PROVE  /\ carried' \in Seq(Ids \cup {NoTx})
         /\ DOMAIN carried' = DOMAIN carried \cup {Len(carried) + 1}
         /\ Len(carried) + 1 \notin DOMAIN carried
         /\ \A k \in DOMAIN carried : carried'[k] = carried[k]
         /\ carried'[Len(carried) + 1] = b
BY DEF BatchTypes

\* The block that a validator appends carries the batch it popped.
LEMMA AppendStep ==
  ASSUME BatchInv, TypeOK, NEW v \in Validators, BatchAppended(v)
  PROVE  BatchInv'
<1> USE DEF BatchInv, Ids
<1>1. /\ pc[v] = "append" /\ pc'[v] = "poll"
      /\ \A u \in Validators \ {v} : pc'[u] = pc[u]
      /\ carried' = Append(carried, batch[v])
      /\ UNCHANGED <<waiting, taken, done, batch>>
  BY DEF BatchAppended, BlockAppended, AppendBlock, Restart, Goto, pool,
       TypeOK, MetronomeTypeOK
<1> DEFINE b == batch[v]
<1>2. b \in Ids \cup {NoTx} /\ NoTx \notin Ids
  BY <1>1, DSCAssumption DEF HoldInv, Sending
<1>3. /\ carried' \in Seq(Ids \cup {NoTx})
      /\ DOMAIN carried' = DOMAIN carried \cup {Len(carried) + 1}
      /\ Len(carried) + 1 \notin DOMAIN carried
      /\ \A k \in DOMAIN carried : carried'[k] = carried[k]
      /\ carried'[Len(carried) + 1] = b
  BY <1>1, <1>2, CarriedGrows
<1>4. b \in Ids => ~IsCarried(b) /\ b \in taken
  BY <1>1 DEF CarryInv, HoldInv
<1>5. \A x : IsCarried(x)' <=> IsCarried(x) \/ x = b
  BY <1>3 DEF IsCarried
<1>6. BatchTypes' /\ OnePlace'
  BY <1>1, <1>3 DEF BatchTypes, OnePlace
<1>7. HoldInv'
  BY <1>1 DEF HoldInv, HoldingPCs, Sending
<1>8. CarryInv'
  <2>1. \A j, k \in DOMAIN carried' :
          carried'[j] = carried'[k] /\ carried'[j] \in Ids => j = k
    BY <1>3, <1>4 DEF CarryInv, IsCarried
  <2>2. \A x \in done' : IsCarried(x)'
    BY <1>1, <1>5 DEF CarryInv
  <2>3. ASSUME NEW u \in Validators, batch[u] \in Ids
        PROVE  IsCarried(batch[u])' <=> pc'[u] = "poll"
    <3>1. CASE u = v
      BY <3>1, <1>1, <1>5
    <3>2. CASE u # v
      <4>1. batch[u] # b
        BY <3>2, <2>3 DEF HoldInv
      <4> QED BY <4>1, <3>2, <2>3, <1>1, <1>5 DEF CarryInv
    <3> QED BY <3>1, <3>2
  <2>4. \A k \in DOMAIN carried' :
          carried'[k] \in Ids => carried'[k] \in taken' \cup done'
    BY <1>1, <1>3, <1>4 DEF CarryInv
  <2>5. \A u \in Validators : batch'[u] = batch[u]
    BY <1>1
  <2>6. (\A u \in Validators : batch[u] \in Ids =>
          (IsCarried(batch[u]) <=> pc[u] = "poll"))'
    BY <2>3, <2>5 DEF IsCarried
  <2> QED BY <2>1, <2>2, <2>4, <2>6 DEF CarryInv, IsCarried
<1> QED BY <1>6, <1>7, <1>8

\* A transaction is confirmed after the block that carries it.
LEMMA MoveStep ==
  ASSUME BatchInv, NEW v \in Validators, MoveToConfirm(v)
  PROVE  BatchInv'
<1> USE DEF BatchInv, Ids
<1> DEFINE b == batch[v]
<1>1. /\ batch' = [batch EXCEPT ![v] = NotAsked]
      /\ pc[v] = "poll"
      /\ UNCHANGED <<waiting, carried, pc>>
      /\ IF b \in Ids THEN taken' = taken \ {b} /\ done' = done \cup {b}
         ELSE UNCHANGED <<taken, done>>
  BY DEF MoveToConfirm, Queue!Report, Gets, pool, vars, mvars
<1>2. /\ batch'[v] = NotAsked /\ NotAsked \notin Ids
      /\ \A u \in Validators \ {v} : batch'[u] = batch[u]
  BY <1>1, DSCAssumption DEF BatchTypes
<1>3. b \in Ids => b \in taken /\ IsCarried(b)
  BY <1>1 DEF HoldInv, CarryInv
<1>4. taken' \cup done' = taken \cup done /\ taken' \subseteq taken
  BY <1>1, <1>3
<1>5. BatchTypes'
  BY <1>1 DEF BatchTypes
<1>6. OnePlace'
  <2>1. taken' \cap done' = {}
    BY <1>1 DEF OnePlace
  <2> QED BY <1>1, <1>4, <2>1 DEF OnePlace
<1>7. HoldInv'
  <2>1. ASSUME NEW u \in Validators, batch'[u] \in Ids
        PROVE  u # v /\ batch'[u] = batch[u] /\ batch'[u] \in taken' /\
               pc'[u] \in HoldingPCs
    <3>1. u # v /\ batch'[u] = batch[u]
      BY <2>1, <1>2
    <3>2. batch[u] # b /\ batch[u] \in taken /\ pc[u] \in HoldingPCs
      BY <3>1, <2>1 DEF HoldInv
    <3> QED BY <3>1, <3>2, <1>1
  <2>2. ASSUME NEW u \in Validators, pc'[u] \in Sending
        PROVE  batch'[u] \in Ids \cup {NoTx}
    <3>1. u # v
      BY <2>2, <1>1 DEF Sending
    <3> QED BY <3>1, <2>2, <1>1, <1>2 DEF HoldInv
  <2>3. ASSUME NEW x \in taken'
        PROVE  \E u \in Validators : batch'[u] = x
    <3>1. PICK u \in Validators : batch[u] = x
      BY <2>3, <1>4 DEF HoldInv
    <3>2. u # v
      BY <3>1, <2>3, <1>1 DEF BatchTypes
    <3> QED BY <3>1, <3>2, <1>2
  <2> QED BY <2>1, <2>2, <2>3 DEF HoldInv
<1>8. CarryInv'
  <2>1. \A x : IsCarried(x)' <=> IsCarried(x)
    BY <1>1 DEF IsCarried
  <2>2. \A x \in done' : IsCarried(x)'
    BY <1>1, <1>3, <2>1 DEF CarryInv
  <2>3. (\A u \in Validators : batch[u] \in Ids =>
          (IsCarried(batch[u]) <=> pc[u] = "poll"))'
    BY <1>1, <1>2 DEF CarryInv, IsCarried
  <2> QED BY <1>1, <1>4, <2>2, <2>3 DEF CarryInv, IsCarried
<1> QED BY <1>5, <1>6, <1>7, <1>8

\* The block that the main thread of the metronome makes carries no batch.
LEMMA MainThreadStep ==
  ASSUME BatchInv, MainThread
  PROVE  BatchInv'
<1> USE DEF BatchInv, Ids
<1>1. UNCHANGED <<pc, pool, batch>>
  BY DEF MainThread, Main, MainStep, OpenWindow, ReadHash, ReadID,
       SetPreviousID, AppendPreviousID, SetPreviousHash, CheckWin, CreateBlock,
       handlers
<1>2. CASE mpc = "create"
  <2>1. carried' = Append(carried, NoTx)
    BY <1>2 DEF MainThread
  <2>2. /\ carried' \in Seq(Ids \cup {NoTx})
        /\ DOMAIN carried' = DOMAIN carried \cup {Len(carried) + 1}
        /\ \A k \in DOMAIN carried : carried'[k] = carried[k]
        /\ carried'[Len(carried) + 1] = NoTx
    BY <2>1, CarriedGrows
  <2>3. NoTx \notin Ids
    BY DSCAssumption
  <2>4. \A x \in Ids : IsCarried(x)' <=> IsCarried(x)
    BY <2>2, <2>3 DEF IsCarried
  <2>5. BatchTypes' /\ OnePlace' /\ HoldInv'
    BY <1>1, <2>2 DEF BatchTypes, OnePlace, HoldInv, pool
  <2>6. CarryInv'
    <3>1. \A j, k \in DOMAIN carried' :
            carried'[j] = carried'[k] /\ carried'[j] \in Ids => j = k
      BY <2>2, <2>3 DEF CarryInv
    <3>2. \A x \in done' : IsCarried(x)'
      BY <1>1, <2>4 DEF CarryInv, BatchTypes, pool
    <3>3. (\A u \in Validators : batch[u] \in Ids =>
            (IsCarried(batch[u]) <=> pc[u] = "poll"))'
      BY <1>1, <2>4 DEF CarryInv, IsCarried
    <3>4. \A k \in DOMAIN carried' :
            carried'[k] \in Ids => carried'[k] \in taken' \cup done'
      BY <1>1, <2>2, <2>3 DEF CarryInv, pool
    <3> QED BY <3>1, <3>2, <3>3, <3>4 DEF CarryInv, IsCarried
  <2> QED BY <2>5, <2>6
<1>3. CASE mpc # "create"
  <2>1. UNCHANGED rest
    BY <1>1, <1>3 DEF MainThread, rest
  <2>2. \A v \in Validators : GoesOn(v)
    BY <1>1 DEF GoesOn
  <2> QED BY <2>1, <2>2, QuietStep
<1> QED BY <1>2, <1>3

\* The calls of a validator to the servers keep BatchInv.
LEMMA CallsGoOn ==
  ASSUME BatchInv, TypeOK, NEW v \in Validators, Call(v)
  PROVE  BatchInv'
<1> USE DEF BatchInv, Ids
<1>1. UNCHANGED rest
  BY DEF Call, BuildAndSend
<1>2. \A u \in Validators \ {v} : pc'[u] = pc[u]
  BY DEF Call, BuildAndSend, AskDetails, GetHash, ClaimLost, LoseClaim,
       ClaimPassed, PassClaim, SendBlock, FixID, Restart, Goto, TypeOK,
       MetronomeTypeOK
<1>3. GoesOn(v)
  <2>1. CASE AskDetails(v) /\ batch[v] = NotAsked
    BY <2>1, DSCAssumption DEF AskDetails, GetHash, Goto, GoesOn, Sending,
         TypeOK, MetronomeTypeOK
  <2>2. CASE ClaimLost(v) \/ ClaimPassed(v)
    <3>1. pc[v] = "mine" /\ pc'[v] \in {"poll", "set"}
      BY <2>2 DEF ClaimLost, LoseClaim, ClaimPassed, PassClaim, Restart, Goto,
           TypeOK, MetronomeTypeOK
    <3> QED BY <3>1 DEF HoldInv, HoldingPCs, GoesOn, Sending
  <2>3. CASE BuildAndSend(v)
    <3>1. pc[v] = "won" /\ pc'[v] \in Sending
      BY <2>3 DEF BuildAndSend, SendBlock, FixID, Goto, Sending, TypeOK,
           MetronomeTypeOK
    <3> QED BY <3>1, <2>3 DEF BuildAndSend, GoesOn
  <2> QED BY <2>1, <2>2, <2>3 DEF Call
<1>4. \A u \in Validators : GoesOn(u)
  BY <1>2, <1>3 DEF GoesOn
<1> QED BY <1>1, <1>4, QuietStep

\* The steps of a validator on its own keep BatchInv.
LEMMA LocalGoesOn ==
  ASSUME BatchInv, TypeOK, NEW v \in Validators, Local(v)
  PROVE  BatchInv'
<1> USE DEF BatchInv, Ids
<1>1. CASE (TakeDetails(v) \/ ClaimGranted(v)) /\ UNCHANGED rest
  <2>1. /\ pc[v] \in {"details", "set"} /\ pc'[v] \in {"poll", "mine", "won"}
        /\ \A u \in Validators \ {v} : pc'[u] = pc[u]
    BY <1>1 DEF TakeDetails, GetID, ClaimGranted, GrantClaim, Restart, Goto,
         TypeOK, MetronomeTypeOK
  <2>2. \A u \in Validators : GoesOn(u)
    BY <2>1 DEF HoldInv, HoldingPCs, GoesOn, Sending
  <2> QED BY <1>1, <2>2, QuietStep
<1>2. CASE PopFails(v) \/ ReadFails(v)
  <2>1. /\ pc[v] = "won" /\ pc'[v] = "dead"
        /\ \A u \in Validators \ {v} : pc'[u] = pc[u]
        /\ UNCHANGED rest
    BY <1>2 DEF PopFails, ReadFails, Crash, Goto, TypeOK, MetronomeTypeOK
  <2>2. \A u \in Validators : GoesOn(u)
    BY <2>1 DEF GoesOn
  <2> QED BY <2>1, <2>2, QuietStep
<1> QED BY <1>1, <1>2, CheckStep, PopStep, AppendStep, MoveStep DEF Local

\* Every step of the whole system keeps BatchInv.
LEMMA StepBatchInv == BatchInv /\ TypeOK /\ [DSCNext]_dscVars => BatchInv'
<1> SUFFICES ASSUME BatchInv, TypeOK, [DSCNext]_dscVars PROVE BatchInv'
  OBVIOUS
<1>1. CASE Timer /\ UNCHANGED rest
  <2>1. \A v \in Validators : pc'[v] = IF pc[v] = "sleep" THEN "append" ELSE pc[v]
    BY <1>1 DEF Timer, Expire
  <2>2. \A v \in Validators : GoesOn(v)
    BY <2>1 DEF GoesOn, Sending, BatchInv, HoldInv
  <2> QED BY <1>1, <2>2, QuietStep
<1>2. CASE UNCHANGED dscVars
  <2>1. UNCHANGED rest /\ \A v \in Validators : GoesOn(v)
    BY <1>2 DEF dscVars, rest, vars, mvars, handlers, GoesOn
  <2> QED BY <2>1, QuietStep
<1> QED BY <1>1, <1>2, SubmitStep, MainThreadStep, CallsGoOn, LocalGoesOn
        DEF DSCNext

\* BatchInv holds in every behaviour of the whole system.
LEMMA AlwaysBatchInv == DSCSpec => []BatchInv
BY InitBatchInv, StepBatchInv, AlwaysTypes, PTL DEF DSCSpec

-----------------------------------------------------------------------------
(* The theorems.                                                           *)

\* A transaction is confirmed only once a block was appended whose request
\* carried it, no two blocks carried the same one, and what was taken and not
\* reported is in the hands of one validator, however claims, late blocks,
\* pops and failing winners interleave.
THEOREM ConfirmedOnce == DSCSpec => []ConfirmedInOneBlock
<1>1. BatchInv => ConfirmedInOneBlock
  BY DEF BatchInv, HoldInv, CarryInv, IsCarried, ConfirmedInOneBlock, Ids
<1> QED BY <1>1, AlwaysBatchInv, PTL

\* The validators use the pool as PoolQueue allows: a winner reports only
\* what it was handed out.
THEOREM DSCImplementsQueue == DSCSpec => Queue!Spec
<1>1. DSCInit => Queue!Init
  BY DEF DSCInit
<1>2. BatchInv /\ [DSCNext]_dscVars => [Queue!Next]_(Queue!vars)
  <2> SUFFICES ASSUME BatchInv, [DSCNext]_dscVars
               PROVE  [Queue!Next]_(Queue!vars)
    OBVIOUS
  <2> USE DEF Queue!vars, Queue!Next, pool, rest
  <2>1. CASE Submit
    BY <2>1 DEF Submit
  <2>2. CASE MainThread
    BY <2>2 DEF MainThread
  <2>3. ASSUME NEW v \in Validators, Call(v)
        PROVE  UNCHANGED pool
    BY <2>3 DEF Call, BuildAndSend
  <2>4. ASSUME NEW v \in Validators, Local(v)
        PROVE  [Queue!Next]_(Queue!vars)
    BY <2>4 DEF Local, CheckSubmitted, PopSubmitted, PopFails, ReadFails,
         BatchAppended, MoveToConfirm
  <2> QED BY <2>1, <2>2, <2>3, <2>4 DEF DSCNext, dscVars
<1> QED BY <1>1, <1>2, AlwaysBatchInv, PTL DEF DSCSpec, Queue!Spec
=============================================================================
