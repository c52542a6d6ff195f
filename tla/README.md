# Verification of dsc_py

`dsc_py` is a small blockchain: wallets send transactions to a *pool*; every
six seconds a *metronome* opens a round with a puzzle; *validators* race for it
by proof of work or proof of memory, and the winner takes transactions from the
pool and has a block appended to the chain of the *blockchain server*. Beside it
lie C programs that write, sort and search files of hashes (the plots of a
proof of space). This directory holds TLA+ modules of the program, the
configurations that check them with TLC, and theorems about them proved with
TLAPS. `PROJECT.json` lists components, runs, hazards, the source lines of each
definition, and theorems.

## The system

| Component (under `src/dsc_py`) | State | Operations | Used by |
|---|---|---|---|
| Pool, `pool.py` | list `submitted`, dict `unconfirmed`, 10 worker threads | `send` (a stream), `transaction`, `confirm_transactions`, `move_to_confirm` | wallets, validators |
| Blockchain, `blockchain.py` | list `block_chain`, cache `balance` | `block_creation`, `metronome_blockHash`, `balance` | metronome, wallet |
| Metronome, `metronome_server.py` | globals `validator_win`, `previous_blockID(s)`, `previous_hash_value`, `timer`, `difficulty`; 2 worker threads and the main thread | `get_details`, `validator_win`, `block_creation_validator`; the main loop `client` / `request_block_chain` / `send_request_to_block` | validators |
| Validator, `validator.py`, `validator2.py` | its last round, the globals `nonce`, `hashes_generated` of its mining threads | the loop: poll, mine, claim, take transactions, send the block, report them | nobody |
| Wallet and benchmarks | keys, how many sends it made | calls of the pool and of `balance` | a person |
| Plot programs, `hash-search/buckets` | a file of buckets, the buffers of `hashgen` | write, sort (`psort`, `sort`, `sort_parallel`), search (`bsearch`, `search`) | from a shell |
| BLAKE3, `hash-search/blake3/blake3*.c` | the hasher: a partial chunk, a stack of chaining values; the cached features of the processor | `hasher_init*`, `update`, `finalize`, `reset` | the C programs |
| Hash generators, `generate_hash*.c` | an array of hashes, their threads, a file | fill, join, write | from a shell |
| Hash tree file, `generate_hash_tree*.c` | a leaf per prefix with its block and the numbers of its blocks | collect, write a full block, index | from a shell |
| Block sort, `block_sort.c` | rows of block numbers, the file, one block in a buffer | exchange blocks in place | from a shell |
| `Proof_of_work.c` | the global `nonce`, a nonce per thread | search, join, print | from a shell; `validator.py` only in a comment |
| Text programs, `sort-search` | text files of hashes | generate, search | from a shell |

The servers talk by gRPC: a call waits for a free thread of the server's
executor, is served by that thread and answered once. Nothing is persisted but
the plot files, no call is retried, and no server handles the loss of a
client; a client that gets an error ends, as it handles none.

What is hard here is concurrency without locks. `pool.py` iterates over a list
that other threads pop from, and tests before it pops; a transaction is for a
moment in neither container. `metronome_server.py` reads and writes five
globals in three threads; `blockchain.py` reads the last block twice for one
answer; the identifier of a late block is fixed up to six seconds before the
block is appended. A validator that won may end in one of its calls to the pool, and
nobody takes its place. In the C programs the hard things are boundaries (the
last buffer, the last block, a share that is full, an unsigned number below zero),
threads that share a loop counter or a lock, and a tree that is hashed
in an order which depends on the machine. What makes each component correct:

* **Pool.** A transaction is handed to one validator, in the order of
  submission, and is not lost on the way. What a wallet is told about it is
  true but for two races. Every send ends as long as
  rounds are won. No error of a handler ends the
  last validator.
* **Metronome, blockchain, validators.** Rounds are announced once each and in
  order; identifiers of blocks leave no gap; blocks link backwards; few winners
  per window; every round opens; a winner's block gets into the chain.
* **The whole.** A transaction is confirmed only after exactly one block carried
  it; a winner that does not end appends its block and reports.
* **Mining.** A claim carries a nonce that solves the puzzle of its round; what
  a thread found is claimed; the threads share out the nonces without overlap; a
  search that has the time finds a match; the difficulty follows the claims.
* **Plot.** What was generated is in its bucket, what is in the file is found.
* **BLAKE3.** The hash is that of the tree of the message, however it is cut in pieces
  and however many lanes the machine has; no array overflows, and no routine runs on a
  processor without its instructions.
* **Single programs.** No slot is written before it was filled; blocks hold the hashes of
  their leaf and indices name them; no block is lost; what is printed was found; a
  file is never put together of two buckets, and a lock is lost only by a failure.

## The modules

| Module | Models |
|---|---|
| `PoolQueue` | abstract: what the pool promises, without threads and replies |
| `Pool` | `pool.py` with its clients and its thread pool |
| `MCPool` | instances of `Pool`; identifiers of the benchmarks and of `wallet.py` |
| `PoolProofs` | theorems about `Pool` |
| `Blockchain` | the chain and the operations on it, as operators for `Metronome` |
| `Metronome` | the main thread and the handlers of `metronome_server.py` |
| `RoundLedger` | abstract: rounds and identifiers, without threads, hashes and winners |
| `Validator` | the loop of `validator.py`, composed with metronome and blockchain |
| `MCValidator` | instances of `Validator` |
| `DSC` | the whole: `Validator` with the calls to the pool around each block, the pool being `PoolQueue` |
| `DSCProofs` | theorems about `Validator` and about `DSC` |
| `Difficulty` | the unlocked difficulty counter of `metronome_server.py` and the claims that move it |
| `Mining` | the mining threads, tables and searches of `validator.py` and `validator2.py`, composed with `Difficulty` |
| `MiningProofs` | theorems about `Mining` |
| `BinarySearch` | `binarySearch` of `bsearch.c`, with the widths of its integers |
| `BinarySearchProofs` | theorems about `BinarySearch` |
| `Plot` | `hashgen.c`, `psort.c` or `sort.c`, `generate_search.c`, `bsearch.c` and `search.c`, one after the other on one file |
| `PlotProofs` | theorems about `Plot`, which use those about `BinarySearch` for each search |
| `HashTree` | abstract: what the hash of a message is |
| `Blake3` | `blake3.c`, `blake3_impl.h`, `blake3_dispatch.c`, `blake3_portable.c`, composed with `HashTree` |
| `Recursion` | when a recursive function exists, and induction over natural numbers |
| `Blake3Proofs` | theorems about `Blake3`, which use `Recursion` for each recursive function |
| `MCBlake3` | the machines and windows of output of `Blake3` |
| `HashTreeFile` | `generate_hash_tree.c`, `generate_hash_tree_test.c` |
| `BlockSort` | `block_sort.c` |
| `HashThreads` | `generate_hash.c`, `generate_hash4.c`, `generate_hash5.c`, `generate_hash6.c` |
| `ProofOfWork` | `Proof_of_work.c` |
| `SortParallel` | `sort_parallel.c` |
| `Tools` | the five modules before it, one program at a time; `MCTools` gives numbers |
| `ToolsProofs` | theorems about the five programs of `Tools` |

In each module an operator whose comment is or starts with `Slip` stands
before the operator it resembles. It is not part of the specification; it is the
next operator with a plausible mistake in it, and `PROJECT.json` names the
property that fails when it takes that operator's place.

### Pool

A client has at most one call outstanding, so a handler is its client: `pc[c]`
is where the call is. `queued` and `mqueued` are the executor's queue, the other
labels are places between two statements of a handler. A single operation on
the list or on the dict is one step, as the interpreter lock makes it; between
two of them any other thread may run.

| Action | Code |
|---|---|
| `CallSend`, `CallTransaction`, `CallConfirm`, `CallMove` | the stubs' calls in `wallet*.py` and `validator*.py` |
| `Serve` | a free thread of `ThreadPoolExecutor(max_workers=10)` |
| `SubmitTransaction` | `submit_transaction` |
| `ScanMatch`, `ScanNext`, `ScanEnd` | one iteration of `for t in submitted`; the iterator keeps a position in the *live* list |
| `Lookup`, `YieldReply`, `Disconnect` | the rest of `send` |
| `CheckSubmitted`, `PopSubmitted`, `PopFails`, `InsertUnconfirmed` | `confirm_transactions` and `move_to_unconfirmed` |
| `CheckUnconfirmed`, `PopUnconfirmed`, `PopUnconfirmedFails` | `move_to_confirm` and `confirm_transaction` |

Errors are outcomes: an `IndexError`, a `KeyError` and the
`UnboundLocalError` of `transaction` end in `failed`, from which the
client does not come back. The loop over `range(0, 200)` in
`confirm_transactions` returns in its first iteration, so a batch has at most
one transaction. The loops of `validator2.py` and the proof-of-memory loop of
`validator.py` read the field `sender` of a reply that has none and never call
`move_to_confirm`; such validators are the constant `NeverReport`.

A transaction is its identifier, for the pool reads nothing else. `IdOf` says
which identifiers are sent: distinct ones (`token_hex(8)` in the benchmarks, the
assumption `FreshIds` of some properties) or `"101"` every time (`wallet.py`).

### Metronome, blockchain and validator

`Blockchain` has the chain and three operators, `block_creation` and the two
reads of `metronome_blockHash`. The transactions of a request are not stored
(`create_block(..., [])`), and the module keeps that. `Metronome` has the main thread
(`mpc`) and the handlers; `Validator` adds the validators' loop and the
specification. As in `Pool` a handler is the validator it serves.

| Action | Code |
|---|---|
| `OpenWindow` | `timer = now; validator_win = 0` |
| `ReadHash`, `ReadID` | `metronome_blockHash`, which evaluates `block_chain[-1]` twice; `ReadID` also takes the decision of the `while` loop that polls for a new identifier |
| `SetPreviousID`, `AppendPreviousID`, `SetPreviousHash` | the three assignments after that loop |
| `Expire` | six seconds passed: the main loop may go on, and sleeping handlers wake |
| `CheckWin`, `CreateBlock` | `send_request_to_block`: the test and the block of a round nobody won |
| `GetHash`, `GetID` (`AskDetails`, `TakeDetails`) | `get_details`, and the validator's test whether the round is new |
| `LoseClaim`, `PassClaim`, `GrantClaim` | `validator_win`: the test and, later, the assignment |
| `FixID`, `AppendBlock` (`SendBlock`, `BlockAppended`) | `block_creation_validator`: identifier, sleep, append |
| `Crash` | a winner that ends before its block |

Time is one bit, `expired`. A nonce is a choice (`Nonces`), as mining is in a
module of its own; a lost claim stands for a late one and for one without a nonce.
Two pairs of statements are one step each. `OpenWindow` assigns `timer` and
`validator_win`: nothing reads both, and the main thread alone writes
`timer`. `FixID` tests `previous_blockIDs` and reads the timer: an identifier that
was announced stays announced, and a sleeper is woken by the timer that it would
have found expired. The hash of a block is its position in the chain, which no
other block has.

### The whole system

`DSC` extends `Validator`: its steps are those of `Validator` and, between the win and the
block and after the block, the calls to the pool. `batch[v]` is what validator `v` got from the
pool in its round, `carried` records what the request of each block carried, of which the
chain keeps the number only.

| Action | Code |
|---|---|
| `Submit` | a wallet's `send`, as far as `submit_transaction` |
| `CheckSubmitted`, `PopSubmitted`, `PopFails` | `confirm_transactions` for a winner: the test of `submitted` and the `pop(0)` that may come too late |
| `ReadFails` | `transactions.sender` of a reply that has no such field: `validator2.py` and the proof-of-memory loop of `validator.py`, the constant `CannotRead` |
| `BuildAndSend`, `BatchAppended` | `block_request.transactions = ...` and `block_creation_validator`, up to the append |
| `MoveToConfirm` | `move_to_confirm`, and the end of the round |
| `MainThread`, `Timer`, `Call`, `Local` | the actions of `Validator` in the groups of the fairness below |

The pool is `PoolQueue`, which `Pool` implements when identifiers are fresh
(`PoolImplementsQueue`), with threads to spare for the validators. A validator that
got an empty list sends its block and calls `move_to_confirm` all the same.

### Difficulty and mining

`Mining` refines the part of a round that `Validator` leaves to a choice: what
a validator does between `get_details` and the answer to its claim. The constant
`Proofs` says which proofs `dsc-config.yaml` may enable; the initial state picks one.
Of the metronome it keeps that windows open and rounds are announced; `Difficulty`
adds the handler of `validator_win` in the steps the interpreter may interleave. The
other claimants only claim.

| Action | Code |
|---|---|
| `OpenWindow`, `Announce` | the main loop of the metronome; `ResetWin` is its `validator_win = 0` |
| `CallWin` (`OtherClaims`, `SendClaim`) | the call `validator_win`, served by a free thread |
| `TestWin`, `SetWin`, `ReadDifficulty`, `Raise`, `Lower` | its handler; `difficulty += 1` is a read and a write |
| `FillSlot`, `JoinFill` | `proof_of_memory` and the sort of `validator2.py` |
| `PollAgain`, `TakeDetails` | `get_details`, the test for a new round, `nonce = -1`, start of the threads |
| `HashNonce`, `TimeUp`, `WriteNonce`, `EndThread` | one iteration of `proof_of_Work`, its loop test, `nonce = ...`, the end of the thread |
| `JoinThreads` | `join` |
| `SearchHit`, `SearchNext`, `SearchTimeUp`, `SearchEnd` | one iteration of `proof_of_memory_search`, linear or by halves |
| `ClaimAnswered` | `previous_block_ID = blockID` |

A hash is a random function of its nonce, so a puzzle is the set of nonces
that solve it, any set as long as bits are compared (`ComparedBits` is Python's
slice `[:diff]`, negative numbers included). In the sorted table of `validator2.py`
equal leading bits are neighbours, hence an interval with the puzzle's own place in it
or at its ends. The 100 entries the table is longer are `Spare`; as
empty strings they sort to the front.

### Plot and binary search

`Plot` runs the programs that share `plot.memo` in their order; `stage` says
where they are. A hash is a prefix (its bucket) and a number, ordered as
`memcmp` orders the bytes; offsets count entries. The number `NONCE` stored
beside a hash is read by no program and left out.

| Action | Code |
|---|---|
| `Generate` | one iteration of `hashgen`: store, and write the buffer when it is full |
| `FlushRest` | its last loop: one more buffer, as it is, of every bucket with space left |
| `ReadBuckets`, `sortBucket`, `WriteBuckets` | one batch of `psort`: read, a thread per part, write |
| `SortBucketAlone` | one part in `sort.c`: read, `qsort`, write (`sort1.c` differs in its clock) |
| `PickTarget`, `PickZero` | `generate_search`: a random entry, again if it is all zeros |
| `LoadBucket`, `SearchBucket`, `TakeResult` | `bsearch`: the parts of the bucket one after the other |
| `ScanBucket` | `search`: the whole share, one hash after the other |
| `NextTarget` | the next of the hashes to be searched |

`qsort` of a thread is one step, because the threads' parts do not overlap. What
`malloc` leaves in the buffers is a choice (`Leftovers`); on Linux it is zeros for
buffers of this size.

`BinarySearch` makes one step of each iteration. `left` and `right` are of type
`size_t`, `mid` is an `int`, and the conversions are those of the compiler
(remainder by `SizeRange` and `IntRange`, 2^64 and 2^32 in the program). A read outside
of the array gives `inFront`, any hash that does not change meanwhile.

### BLAKE3

`HashTree` says what a hash is by recursion over the tree of chunks. `Blake3` has the hasher:
the actions are the calls of a program, and each computes the next value of the hasher by
operators that have the names of the functions of `blake3.c`.

| Action | Code |
|---|---|
| `hasher_init`, `hasher_init_keyed`, `hasher_init_derive_key` | the functions of that name, the last one with a hasher of its own for the context |
| `hasher_update` | the loop over the rest of a chunk, subtrees and the last piece: `ChunkStateUpdate`, `FinishChunk`, `SubtreeLen`, `HashSubtree` (`SubtreeToParentNode`, `CompressSubtreeWide`), `PushCv`, `MergeCvStack` |
| `hasher_finalize` | the walk down the stack (`FinalizeSeek`, `OutputRootBytes`); it changes nothing but the cache |
| `hasher_reset` | the function of that name |

The compression function is a constructor of terms: two results are equal only when all of
what went into them is, so that equality with `HashTree` speaks of every counter, flag,
length and order. Its rounds, and the assembler routines, are left out; which routine is
called is not (`DetectFeatures`, `CompressRoutine`, `HashManyRoutine`, `SimdDegree`), as the number
of lanes shapes the computation. Places of an array that were never written hold
`junk`. `g_cpu_features` is written without a lock, but always with the same value.

### The single programs

They share nothing, and `Tools` runs one of them at a time.

| Action | Code |
|---|---|
| `TreeStart`, `TreeTestStart` | the start of `main` of the two programs, which builds the tree |
| `GenerateHash`, `GenerateHashTest` (`StoreHash`, `IndexBlock`) | one iteration of the loop of `main`: a random hash to its leaf, a full block to the file, its number to `block_index` |
| `GenerationEnds`, `IndexRows`, `OffsetRow` | the end of the loop, after which unfilled blocks are dropped; `prefix_index`; one iteration of the loop that fills `offset_start` |
| `ChooseRow`, `ChooseLastRow`, `ShuffleValue`, `FillRows` | the random rows and `shuffle_array` of `block_sort.c` |
| `ReadFirst`, `MoveBlock`, `MoveCrashes`, `SwappingEnds` | its loop of exchanges; indices used before they are set are a choice or the end of the program |
| `GeneratorStart`, `CreateThread`, `AllCreated`, `FillSlot`, `ThreadEnds`, `JoinThread`, `AllJoined`, `WriteSlots`, `GeneratorEnds` | a generator: threads, bounds, joins and file |
| `PowStart`, `PowCreate`, `PowCheck`, `PowMatch`, `PowNoMatch`, `PowReport`, `PowJoin`, `PowPrint` | `Proof_of_work.c` |
| `SortParallelStart`, `CreateSorter`, `AllSortersCreated`, `JoinSorter`, `SortParallelEnds` | `main` of `sort_parallel.c` |
| `ReadId`, `OpenToRead`, `ReadSomething`, `LockFile`, `OpenToWrite`, `SeekToWrite`, `WriteBucket`, `UnlockFile` | its threads; `OpenToReadFails`, `ReadNothing`, `ReadCrashes` and `WriteFails` are their failures |

`bubbleSort` of `block_sort.c` is modelled by what it returns, an ordered rearrangement of
its input, and so is the library's `qsort` in `Plot`; `bsSum` and `bsStart` are `currentSum` and the
places of the rows in the file, which grow with each row.

In `sort_parallel.c` a failure of the file system is part of the model, because the lock is lost
by one; in the other programs it ends the program with a message and is left out. `ReadId` takes
what is at the address of `main`'s counter when the thread runs, or what was there when the
loop had ended.

## What is checked

Each run with the properties it checks is in `PROJECT.json`; here is what they
show. Deadlock is checked in all runs but three, in which the system may really stop:
in `pool_edge` and `dsc` all validators may have ended, and the programs of `tools` end
(or wait for a lock for ever).

| Run | Instance | Shows |
|---|---|---|
| `pool` | 2 wallets x 2 sends, 2 validators, 3 threads | transactions are handed out once and in order; a pop never raises `KeyError`; a false `Confirmed` needs one of two races; the pool implements `PoolQueue` |
| `pool_edge` | 2 wallets x 1 send, a querier, a validator that never reports, 2 threads | when each thread serves a waiting stream the pool stays stuck for ever |
| `pool_same_id` | fairness, all identifiers `101`, a wallet that may leave, a thread to spare | validators can end with `KeyError` and `IndexError`, never the last; every send ends as long as some validator asks for a batch again and again |
| `pool_confirmed` | 1 wallet, 1 validator | **violation**: `Confirmed` of a transaction nobody reported |
| `rounds` | 2 validators, one of which may crash, 2 threads, 3 blocks of the metronome | no gap, links go backwards, one block per identifier from the metronome, no more winners in a window than threads, hash and identifier agree unless a block came between the reads; the system implements `RoundLedger` |
| `dsc` | fairness, 2 validators, one of a loop that cannot read a transaction, 1 thread of the metronome, 2 blocks, 1 transaction | a transaction is confirmed only after one block carried it; a winner that does not end appends and reports; every round opens unless an identifier was used twice or a winner ended |
| `mining` | fairness, a miner with 2 threads and 3 nonces or a table of 3 and a spare entry, each of the 3 proofs, another claimant, 2 rounds, 2 threads of the metronome | a claim solves its puzzle, a find is claimed, nonces are hashed once, a search that has the time hits if the table has a match, lost updates move the difficulty no further than the claims explain and the puzzle follows the claims, below zero too, and a round taken is claimed |
| `search` | fairness, every sorted array of up to 5 out of 5 hashes, 6 and 4 bits | the answer is right; memory in front of the array is read, and the search may not return, only when the target is smaller than all of the array |
| `search_absent` | arrays of up to 2 | **violation**: the search does not return |
| `plot` | 2 buckets of 4, buffers of 2, parts of 2, 2 threads or none | shares keep to their bucket, nothing is lost unless a bucket is full or disturbed, and both searches find every hash of the file |
| `blake3` | pieces of ten lengths, messages of up to 32 chunks of 2 blocks of 2 bytes, three modes, 8 machines | the hash is the tree hash; stack and arrays are large enough; routines run only where they can |
| `tools` | the five programs, each with 2 to 4 threads, leaves or rows | blocks, indices, files, printed nonces and locks as the properties of the modules say |

### Findings

* `pool_confirmed`: `send` takes "in neither container" for "confirmed"; it is
  also what a transaction looks like between `pop(0)` and its store in
  `unconfirmed` (`pool.py:98-99`), and `transaction` answers the same condition
  with "cannot verify ask blockchain" (`pool.py:53`). `ConfirmedUnlessRaced`
  says that this gap and an iterator overtaken by a pop are the only causes.
* `search_absent`: at `mid = 0` the assignment `right = mid - 1` wraps around and
  the loop goes on for ever at `array[-1]`, where the comment says "Element not found".
  `bsearch` meets this on hashes that are in the file: a bucket is sorted in parts and searched part
  by part, and a hash of the second part may be smaller than all of the first.

A third thing the runs showed is no contradiction to any document. One `IndexError` of a
winner (`pool.py:97`, a check that is stale when `pop(0)` runs) can stop the chain for ever: a
claim for the old round wins in the new window, its validator ends at the pop,
`validator_win` stays 1, the live validator's claim is lost, and the main thread polls for a block
that nobody makes. This takes three blocks and no validator of `CannotRead`; it is why `RoundOpens`
speaks only of behaviours without a dead winner.

### Bounds

* `SendsPerWallet` (128 in the benchmarks) is 1 or 2: two sends of two wallets
  give lists of up to four transactions, long enough for an iterator to be
  overtaken in front of and behind its own transaction.
* `MaxWorkers` (10) is 2 or 3: the number of threads matters only compared with
  the number of streams, and both sides of that are checked (`pool_edge`,
  `pool_same_id`). `MetronomeWorkers` is the code's 2 in `rounds`, and 1 in `dsc`, so that two
  validators are enough for one to wait for a thread.
* `MaxBlocks` ends the main loop (the code's runs for ever) and, in `rounds`, the
  constraint `ChainBound` lets winners add one block. With three and four, two
  rounds follow each other with late blocks of the first in the second, forks of an
  identifier and the poll that never ends among them. In `dsc` 2 is enough for a fork and for
  a winner whose block comes late. One transaction is enough for two winners to race for
  it, for one to report it and the other to be left with an empty list or with an error, and for a
  wrong report; several transactions in their order are in `pool`, and the theorem `ConfirmedOnce`
  has no bound.
* Mining: with 2 threads and 3 nonces one thread hashes two nonces and the other one,
  so that they end at different times and both may hit. `MaxRounds` 1 is
  two rounds, so that something of the first can leak into the second. The difficulty
  starts at 2 (30) and `MaxClaims` 3 of 2 claimants bring it to zero, where a slice is empty,
  and below, where it drops bits from the end: of `HashBits` 4 a difficulty of -1
  compares 3, more than the first difficulty. A thread that has
  hashed `NumNonces` nonces waits for the time to end, which it also may at any
  earlier point.
* Plot: a share is two buffers (64 in `common.c`), so that a bucket can be empty,
  partly written, full, and overflow once or twice; a bucket has two parts (16), so that a
  hash can be in either. 8 hashes in 2 buckets, with buffers and parts of 2, reach each of these.
  `SizeRange` 32 and `IntRange` 8 keep the relation of 2^64 and 2^32 that the
  wrap-around depends on (`SearchAssumption`).
* BLAKE3: the code's 64 and 1024 bytes are 2 and 4, so that a chunk has a first and a last
  block, either of which may be partial. 33 and 128 bytes are 9 and 32 chunks: more than the 16
  lanes of the widest machine, unbalanced trees among them. The ten lengths are on and off each
  boundary. `MAX_DEPTH` 5 (54) allows exactly the longest message.
* Single programs: 2 leaves with blocks of 2 and 7 hashes (4 blocks) give a leaf up to three
  blocks, more than the two of which the second program copies the numbers; four rows of at most one block
  and a last one with garbage; 3 threads of 2 slots each; nonces up to 5 for 3 threads, and
  difficulties on both sides of zero; 3 threads for one lock.
* Symmetry: wallets and validators are interchangeable in the runs that declare
  it; the runs with liveness, and those in which validators differ, declare none.

### Fairness

`Pool`: threads run, a free thread takes a waiting call, and a validator that got a batch goes on
to report it, its next calls after the block it sends (`WinnerReports` of `DSC`). All of it is
weak fairness: nothing else disables these steps. No wallet has to send, nobody has to query,
and no validator has to win another round. The loop of a validator is `while True`, but it
asks for a batch only after a win, and a fork or a winner that ended before its block can stop
the rounds for ever (`RoundOpens`, and the third thing under the findings). That batches are
asked for again and again is therefore the premise of `SendReturns` and no assumption of the
specification: as long as it holds, no wallet is passed over for ever, whichever validators
ended on the way.

`Validator`: weak fairness of the main thread, the timer and of the steps of a
handler that is being served. A call waits for one of the two threads, which
others may take again and again; the executor's queue is first in, first out,
so that a call is served if threads become free again and again: strong fairness of
`CallStep`. `Crash` has no fairness.

`DSC`: as `Validator`, with weak fairness of a validator's own steps and of its calls to the
pool, which answers as long as it has threads to spare, and strong fairness of its
calls to the metronome. No wallet has to send.

`Mining`: the threads and the main thread run, and time passes (`TimeUp`), as
`block_time` is finite; a claim need not be served and no window need open.

`BinarySearch`: weak fairness of its only step; it is a sequential function.

## What is proved

The seven modules named `...Proofs`, and `Recursion` which one of them uses, prove
for every number of clients, threads, sends, nonces, blocks, buckets and leaves, every size of
arrays and integers and every length of messages, from the named assumptions on the constants alone:

| Theorem | Says |
|---|---|
| `PoolTypes` | `Spec => []TypeOK` |
| `HandedOutInOrder` | `Spec => []FirstInFirstOut`, also with repeated identifiers |
| `NoKeyError` | `Spec => []CheckedStaysUnconfirmed` |
| `PoolImplementsQueue` | `FreshIds => (Spec => ImplementsQueue)` |
| `ConfirmedIsTrueUnlessRaced` | `Spec => []ConfirmedUnlessRaced` |
| `LastValidatorSurvives` | `Spec => []SomeValidatorSurvives`, also with repeated identifiers |
| `FullPoolStaysFull` | `Spec => ExhaustionIsPermanent` |
| `ValidatorTypes` | `Spec => []TypeOK` |
| `AnnouncedInOrder` | `Spec => []RoundsInOrder` |
| `ChainHasNoGap` | `Spec => []NoGap` |
| `ChainLinksBackwards` | `Spec => []LinksBackwards` |
| `MetronomeMakesOne` | `Spec => []MetronomeIDsDistinct` |
| `ValidatorImplementsLedger` | `Spec => ImplementsLedger` |
| `AnnouncedTogether` | `Spec => []HashMatchesID` |
| `WindowGrantsFew` | `Spec => []WinnersBounded` |
| `DSCImplementsValidator` | `DSCSpec => Spec` of `Validator`: the theorems above hold in the whole system |
| `DSCKeepsChain` | `DSCSpec => [](NoGap /\ LinksBackwards)` |
| `ConfirmedOnce` | `DSCSpec => []ConfirmedInOneBlock` |
| `DSCImplementsQueue` | `DSCSpec => Queue!Spec`: validators use the pool as `PoolQueue` allows |
| `DifficultyStaysExplained` | `Spec => []DifficultyExplained` |
| `ClaimsSolve` | `Spec => []ClaimSolves` |
| `FoundIsNotLost` | `Spec => []FoundIsClaimed` |
| `NoncesAreShared` | `Spec => []EachHashedOnce` |
| `PuzzleStaysExplained` | `Spec => []PuzzleFollowsClaims`: however updates are lost, at and below zero too |
| `SearchesHit` | `Spec => []SearchHits` |
| `SearchAnswersRight` | `Spec => []AnswerIsRight` |
| `SearchReadsInside` | `Spec => []ReadsInside` |
| `SearchKeepsTarget` | `Spec => []NotCutOff` |
| `SharesStayApart` | `Spec => []InItsShare` of `Plot` |
| `HashesStay` | `Spec => []NothingLost` |
| `SearchesFind` | `Spec => []SearchFinds` |
| `LockIsReturned` | `ToolsSpec => []LockLostOnlyByFailure` |
| `OneBucketAtMost` | `ToolsSpec => []FileOfOneThread` |
| `PrintsWhatWasFound` | `ToolsSpec => []PrintedIsFound` |
| `FilesAreOfHashes` | `ToolsSpec => []FileIsFilled` |
| `NoBlockLost` | `ToolsSpec => []BlocksKept` |
| `BlocksHoldHashes` | `ToolsSpec => []BlocksAreFilled` |
| `IndexIsRight` | `ToolsSpec => []IndexNamesBlocks` |
| `RoutinesFitMachine` | `Spec => []RoutinesRun` of `Blake3` |
| `HashIsTreeHash` | `Spec => []FinalizeIsTreeHash`: every part of the output is that of the tree hash of the message, however it was cut |
| `StackKeepsShape` | `Spec => []StackShape`, so that `cv_stack` is never outgrown |
| `WideSubtreeFits` | `Spec => []WideFits`, the assertion of `blake3.c`, line 343 |

The assumptions are `PoolAssumption` (counts are natural numbers, the kinds of
clients are disjoint, `IdOf` is a function to identifiers), `MetronomeAssumption`
(the same, and no validator is called "genesis" or "metronome") and
`CrashingAssumption`; `DSCAssumption` (what stands for no transaction is none, and any
validator may end); `DifficultyAssumption` and `MiningAssumption` (counts are natural
numbers, the miner is a claimant); `SearchAssumption` says that the two ranges are even, that half of
`SizeRange` is a multiple of `IntRange`, and that an `int` can index the array; `WidthAssumption` says the same of the part of a bucket
that `bsearch.c` reads at a time, and `PlotAssumption` that the sizes of `common.c` divide each other
as its comments ask. The assumptions of the five modules of `Tools` say that sizes and numbers of
threads are positive, that counts and sums are natural numbers, that the threads of `SortParallel` are
numbered from 0, and in `HashThreads` that the number of threads and the size of a bucket divide
`COUNT`, as they do in the generators. `LengthsAssumption` says that a chunk of BLAKE3 is a whole
number of blocks, `Blake3Assumption` that it is a power of two of bytes, as `left_len` and the loop of
`hasher_update` need, and that lengths are natural numbers; `MachineAssumption` that
no processor has AVX512VL without AVX512F: `compress_in_place` looks at AVX512VL alone and relies
on that. `FreshIds` is a hypothesis where it is needed, never an
assumption, because `wallet.py` violates it.

**Pool.** `BaseInv` adds to the types that every client is at a label of its
kind and that the executor's queue holds exactly the waiting clients, once
each; without that a thread could serve a call that another thread serves. Then
`FirstInFirstOut` is inductive. For the refinement `FreshInv` says where an
identifier may be: each one known came from a send already made (`Sources`), it
is in one of `submitted`, a handler's hands, `unconfirmed` and `confirmed`
(`OnePlace`), and two validators never hold the same (`Holders`). A scan, a
lookup or a call maps to a stutter, `SubmitTransaction`, `PopSubmitted` and
`PopUnconfirmed` to `Submit`, `Take` and `Report`; `InsertUnconfirmed` stutters
because `taken` already counts what is in a handler's hands.

`StreamsInv` follows one `send`: what its scan has passed in `submitted` is not its
transaction, and when the scan has ended its transaction is not there at all, as long as no
pop came between. Since the refinement keeps it in the pool's sight (`HeldGrows`), only
`confirmed` is left. `Survivor` is stronger than `SomeValidatorSurvives`: some validator is neither dead
nor on its way to a pop that will fail, which whoever emptied the list before is not. For
`ExhaustionIsPermanent` no thread is free to serve a call: queriers and validators can only call and
wait (`OthersKeepExhausted`), so no pop comes between a stream's scan and its lookup, and then
`StreamsInv` says that what the scan missed is in `unconfirmed`; no stream ever reads "Confirmed", and
so none ends (`WalletKeepsExhausted`).

**Validator.** `IInv` has, beside types, four parts that hold only together.
`RoundInv`: announced identifiers are 0, 1, 2, ..., and what the main thread is
about to announce is the next and has a block. `ChainInv`: every block is at most one
ahead of the announced round, and every announced identifier is in the chain; this
is what makes the next identifier the only new one. `WorkInv`: what a validator works
on was announced, so that `NextFreeID` is at most one ahead. `LinkInv`: a hash on its
way from the chain to a block, through `reply`, `previous_hash_value` and
`details`, is never ahead of the identifier it travels with, however torn the reads
were; from it `LinksBackwards` follows. `MakerInv` keeps the metronome's
own blocks behind its round. `TornInv` follows the announced hash from the last block through
`reply` to `previous_hash_value`, and says that it names the announced identifier as long as `torn` is not
set. `WinInv` bounds the wins so far together with the claims that passed the check: each of
these holds a thread, and a claim passes only before the first win. `MCValidator` was used to check `IInv` before
it was proved.

**The whole.** A step of `DSC` is a step of `Validator`, a crash of a winner, or a stutter,
whence the refinement. For `ConfirmedOnce` the invariant `BatchInv` says where a transaction is:
in one of `waiting`, `taken` and `done` (`OnePlace`); if taken, in the batch of exactly one
validator, which is between its win and its report, or dead (`HoldInv`); and some block carried
it exactly if it is done or its validator is behind its block (`CarryInv`). The last part is needed
to know that the block about to be appended is the first that carries its batch. `QuietStep`
handles all steps that touch neither the pool nor a batch.

**Mining.** `CounterInv` says that not only the difficulty but also what a handler
has read of it lies between what the losses and what the wins explain; the range
only grows, so a late write of an old value stays inside. `NonceInv` says where a
solution of the round's puzzle may be: in the global `nonce`, or in the hands of a thread
that hit and has not written yet. It holds because a thread that ends without a hit does not
touch `nonce`. `ShareInv` says that a thread's next nonce leaves its number
as remainder, and that below it exactly its own nonces were hashed, once each. `MarkInv` says that as long
as nobody has won, a loss has left the difficulty below the first one: by `CounterInv` no
handler has then read more than the first difficulty, so that each write of a lost claim leaves
less, however the writes overlap. With `CounterInv` and the lemma `Bits` on the slice it gives
`PuzzleFollowsClaims`, from which overlap, zero and the values below zero are not
excluded. `TableInv` says that a thread has filled its share of the table up to
its nonce; then `SearchInv` keeps a match in the part of the table that the search
has not left (`StillAhead`), which for the search by halves needs that the matches of a sorted table
are neighbours.

**Binary search.** `SearchInv` splits in two. In `Narrowing` the bounds are
inside the array and all outside of them was excluded. In `Wrapped` the bound `right`
is one of the two largest values of `size_t`, `left` is 0 and the target is smaller than
everything; `HalfwayInt` shows that `mid` is then -1, whence the answer, if
one comes, is -1. The arithmetic of remainders is in lemmas of its own.

**Plot.** `HashgenInv` says what the writes of `hashgen` have done to the share of each bucket that no
earlier bucket reached: the buffers it has written, and those only, are there, and what it has not
written is in the buffer (`SharesHold`, `SharesKeep`). The sorts rearrange parts of shares, so that no
share's set of hashes changes (`Contents`); `SortInv` adds which parts are in order, and that a
thread of `psort` that has not ended sorts a part of the buffer that holds what the file does. That an
ordered rearrangement exists, which `qsort` returns, is proved by a minimal counterexample: take the
smallest length at which some sequence cannot be ordered; one entry fewer can be, and the smallest
entry goes before it (`OrdersOneMore`). `LookInv` is the
search: the target is in the part being searched or in a later one, the part is sorted and so
`SearchInv` of `BinarySearchProofs` holds of it; `PlotProofs` takes that module with `INSTANCE` and
cites its lemmas for every step of a search.

**The single programs.** Each has an invariant of its own, and a step of another one leaves it alone.
`SortersInv`: a thread is between lock and unlock only when the lock is its own, and the file holds
nothing or one piece, of a thread that has written. `PowInv`: once it is not -1 the shared `nonce` is the
nonce of a thread that found one and stands still from then on; a thread reports only what it found
or when its time is up. `GenInv`: the parts of the array that the threads fill are disjoint and make
up a bucket (`PartsInv`), the slots before a thread's position are filled, and a slot is written after its thread
was joined. `BsInv`: rows lie one behind the other (`RowsInv`), and a block is at one place
or in the buffer (`MovesInv`), since an exchange, at a wrong cursor too, leaves the number of copies of
each block as it is: what the file gains of it the buffer loses (`Exchanged`). `TreeInv`: the leaf holds exactly those hashes that are in no block, in order, so
that their number is the leaf's length (`IncreasingCounts`) and a flush writes all of them. `PlacesInv`:
`block_index` is as long as the leaf has blocks, or one longer in the first program, and an entry that is set
names the block of its rank; a new block comes last, so that the ranks of the others stay.

**BLAKE3.** `CacheInv`: the cache of features is empty or has those detected on this machine. Then
each combination of features is looked at once.

The other three theorems are about what loops and recursive calls compute. The library's induction
theorems cannot be used for that, since they take an operator as a parameter. `Recursion` goes around it:
a set of natural numbers has a smallest member (`Smallest`), hence what follows for n from all smaller
numbers holds of all (`Below`, about a set instead of an operator), and a function whose value at an argument
depends on the values at smaller arguments only exists (`RecursiveFunction`). `Blake3Proofs` takes an instance of it
for every recursive function of the model, among them those that stand for a loop, and so may use their definitions.

`HasherInv` says what the hasher is between two calls, as a function of the bytes so far (`Good`): the
chunk state is that of the last chunk and its bytes, and the stack has one chaining value for each 1-bit of the
number of full chunks, the largest subtree lowest. This alone is not inductive: `hasher_update` hashes a subtree of several
chunks down to its two children and pushes both, and merges them only when more input comes, because they may
be the children of the root. So after such a subtree the last one may still be in two halves (`Loose`), and it never
is once a byte of the next chunk has come. Then

* a chunk does not depend on the pieces in which its bytes came (`ChunkUpdate`), and its output is the node of
  the tree (`NodeIsOutput`);
* a subtree that is hashed at once, at whatever degree of parallelism, gives values that fit in the array, and
  pairing them again and again keeps the tree over them (`PairTree`, `WideTree`, `ParentNode`);
* merging down to the number of 1-bits makes the stack of n chunks out of that of n - p chunks and a subtree
  of p, when p is a power of two that divides n - p (`MergeH`, `PushH`); the length that the loop of `hasher_update`
  takes next always is such a p (`SubtreeLenIs`);
* `hasher_update` as a whole takes `Good` of one length to `Good` of a longer one (`UpdateGood`);
* `hasher_finalize_seek` puts the entries of the stack to the left of the last node, from the top down,
  and what remains is the root (`FinalizeGood`).

That the stack stays within its `MAX_DEPTH` + 1 entries follows from the length of the message, which is
2^`MAX_DEPTH` chunks at most (`MaxLen`), the limit that `blake3.h` gives (line 38).

## What is only model-checked

Liveness (`SendReturns`, `WinnerReports`, `RoundOpens`, `MinerClaims`, `ReturnsUnlessBelow`) is out of
the prover's reach. All invariants and action properties of the runs are theorems.

Type correctness is proved for `Pool`, `Validator` and (as a part of the invariants) `DSC`; it
is not a property of any run.

## What is not modelled

* Logging, timing measurements and message texts, everywhere.
* `balance` of the blockchain server: blocks are stored without transactions
  (`blockchain.py:117`), so that every balance is zero and its cache never differs from
  it. The handlers that nobody calls.
* The rounds of BLAKE3's compression function and the assembler and intrinsics routines.
* `hashgen3.c`, which does not compile, and `generate_hash2.0.c`, a single loop.
* The exchange of blocks in `generate_hash_tree_test.c`, which is commented out, and
  `Proof_of_memory.c`, a stub.
* The binary search over the sorted text file (`sort-search/search.c`): it is called only with
  records that the file has, so that the boundaries of `bsearch.c` do not arise.
* The file readers, key creation, the gRPC stubs (generated), notebooks and trials: input
  and output without state.

## What could follow

A refinement of the plot's programs: that `hashgen` and the sorts together implement a plot that is a set
of hashes for each prefix. Today `HashgenInv` and `SortInv` say so of each program on its own, not of a
specification they implement.
