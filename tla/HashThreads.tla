---------------------------- MODULE HashThreads ----------------------------
(***************************************************************************)
(* The generators generate_hash.c, generate_hash4.c, generate_hash5.c and  *)
(* generate_hash6.c of hash-search/blake3: threads fill an array of COUNT  *)
(* slots with hashes, each its own part of it; main waits for them and     *)
(* writes the array in pieces of bucket_size.                              *)
(*                                                                         *)
(*   "hash"   main fills the array itself and writes it 10 times           *)
(*   "hash4"  the same in a function that ends the main thread             *)
(*   "hash5"  one thread, which gets its bounds by reference               *)
(*   "hash6"  num_threads threads, which get their numbers                 *)
(*                                                                         *)
(* A slot that was filled is the nonce it was filled with.  The slots are  *)
(* one more than COUNT: generate_hash5.c writes behind its array (line     *)
(* 94).  Failures of malloc and of the file system end a program and are   *)
(* left out.                                                               *)
(*                                                                         *)
(* An operator marked "Slip" is no part of the specification: it is the    *)
(* operator after it with a mistake in it, kept to show which property     *)
(* notices the mistake.                                                    *)
(***************************************************************************)
EXTENDS Integers, FiniteSets

CONSTANTS
  COUNT,
  num_threads,   \* of "hash6"
  bucket_size,
  Repeats        \* how often "hash" writes the array

\* Powers of two in all of the programs.
ASSUME HashThreadsAssumption ==
  /\ {COUNT, num_threads, bucket_size, Repeats} \subseteq Nat \ {0}
  /\ COUNT % num_threads = 0
  /\ COUNT % bucket_size = 0

Generators == {"hash", "hash4", "hash5", "hash6"}
Slots == 0..COUNT
Empty == -1
Sentinel == 0     \* the nonce of "abcdefgh"

VARIABLES
  generator,    \* which program runs, or "off"
  genStage,     \* of main: "create", "join", "write", "done"
  genI,         \* the counter of main's loop
  position,     \* the next slot of each thread
  running,      \* the threads that did not end yet
  hashresults,  \* the array
  genFile       \* the slots written so far, as a function from places

genVars == <<generator, genStage, genI, position, running, hashresults, genFile>>

GenThreads == 0..(num_threads - 1)

\* The threads of each program; main is thread 0 of the first two.
ThreadsOf(g) == IF g = "hash6" THEN GenThreads ELSE {0}

Share(g) == COUNT \div Cardinality(ThreadsOf(g))

PartStart(g, t) == t * Share(g)

\* Exclusive in "hash" and "hash6", one less and inclusive in the others.
PartEnd(g, t) == (t + 1) * Share(g)

HashThreadsInit ==
  /\ generator = "off"
  /\ genStage = "create"
  /\ genI = 0
  /\ position = [t \in GenThreads |-> 0]
  /\ running = {}
  /\ hashresults = [k \in Slots |-> Empty]
  /\ genFile = [place \in {} |-> Empty]

\* "hash5" first marks the slots at the bounds of the parts.
GeneratorStart(g) ==
  /\ generator = "off"
  /\ generator' = g
  /\ hashresults' = [k \in Slots |->
                       IF g = "hash5" /\ k \in {0, COUNT} THEN Sentinel ELSE Empty]
  /\ UNCHANGED <<genStage, genI, position, running, genFile>>

\* pthread_create of the next thread; the programs without threads call.
CreateThread ==
  /\ generator # "off" /\ genStage = "create"
  /\ genI \in ThreadsOf(generator)
  /\ position' = [position EXCEPT ![genI] = PartStart(generator, genI)]
  /\ running' = running \cup {genI}
  /\ genI' = genI + 1
  /\ UNCHANGED <<generator, genStage, hashresults, genFile>>

AllCreated ==
  /\ generator # "off" /\ genStage = "create"
  /\ genI \notin ThreadsOf(generator)
  /\ genStage' = "join" /\ genI' = 0
  /\ UNCHANGED <<generator, position, running, hashresults, genFile>>

\* generate_hashes: one slot.
FillSlot(t) ==
  /\ t \in running /\ position[t] < PartEnd(generator, t)
  /\ hashresults' = [hashresults EXCEPT ![position[t]] = position[t]]
  /\ position' = [position EXCEPT ![t] = @ + 1]
  /\ UNCHANGED <<generator, genStage, genI, running, genFile>>

\* pthread_exit, which in "hash4" ends main: it never gets to its end.
ThreadEnds(t) ==
  /\ t \in running /\ position[t] >= PartEnd(generator, t)
  /\ running' = running \ {t}
  /\ genStage' = IF generator = "hash4" THEN "done" ELSE genStage
  /\ UNCHANGED <<generator, genI, position, hashresults, genFile>>

\* pthread_join of one thread after the other.
JoinThread ==
  /\ genStage = "join" /\ genI \in ThreadsOf(generator) \ running
  /\ genI' = genI + 1
  /\ UNCHANGED <<generator, genStage, position, running, hashresults, genFile>>

JoinsFirst ==  \* Slip
  /\ genStage = "join" /\ 0 \notin running
  /\ genStage' = "write" /\ genI' = 0
  /\ UNCHANGED <<generator, position, running, hashresults, genFile>>

AllJoined ==
  /\ genStage = "join" /\ genI \notin ThreadsOf(generator)
  /\ genStage' = "write" /\ genI' = 0
  /\ UNCHANGED <<generator, position, running, hashresults, genFile>>

Written == Cardinality(DOMAIN genFile)

\* fwrite of the next bucket_size slots.
WriteSlots ==
  /\ genStage = "write"
  /\ Written < COUNT * (IF generator = "hash" THEN Repeats ELSE 1)
  /\ genFile' = [place \in 0..(Written + bucket_size - 1) |->
                   IF place < Written THEN genFile[place]
                   ELSE hashresults[genI + place - Written]]
  /\ genI' = (genI + bucket_size) % COUNT
  /\ UNCHANGED <<generator, genStage, position, running, hashresults>>

GeneratorEnds ==
  /\ genStage = "write"
  /\ Written = COUNT * (IF generator = "hash" THEN Repeats ELSE 1)
  /\ genStage' = "done"
  /\ UNCHANGED <<generator, genI, position, running, hashresults, genFile>>

HashThreadsNext ==
  \/ \E g \in Generators : GeneratorStart(g)
  \/ CreateThread
  \/ AllCreated
  \/ \E t \in GenThreads : FillSlot(t) \/ ThreadEnds(t)
  \/ JoinThread
  \/ AllJoined
  \/ WriteSlots
  \/ GeneratorEnds

HashThreadsSpec == HashThreadsInit /\ [][HashThreadsNext]_genVars

-----------------------------------------------------------------------------
\* Properties.

\* What is in the file is the array, slot after slot, and no slot is written
\* before the thread whose part it is has filled it (the joins come before
\* the file); "hash4" writes nothing.
FileIsFilled ==
  /\ \A place \in DOMAIN genFile : genFile[place] = place % COUNT
  /\ generator = "hash4" => genFile = [place \in {} |-> Empty]
=============================================================================
