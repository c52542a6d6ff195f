---------------------------- MODULE SortParallel ----------------------------
(***************************************************************************)
(* sort_parallel.c of hash-search/buckets: threads that are each to sort a *)
(* bucket of the plot file.                                                *)
(*                                                                         *)
(* Every thread gets the address of main's loop counter and reads its      *)
(* number from it whenever it starts (line 105); after the loop the place  *)
(* holds the last value or the counter of the second loop.  The file is    *)
(* closed before it is read (lines 65-67), so that the read gives nothing, *)
(* or something, or ends the program.  The file is written under           *)
(* file_lock; opening it for writing empties it (line 20), and a failure   *)
(* there returns without unlocking.                                        *)
(*                                                                         *)
(* The file is a set of pieces: the plot as it was, or the bucket of a     *)
(* thread at an offset (in bytes: line 27).                                *)
(*                                                                         *)
(* An operator marked "Slip" is no part of the specification: it is the    *)
(* operator after it with a mistake in it, kept to show which property     *)
(* notices the mistake.                                                    *)
(***************************************************************************)
EXTENDS Integers, FiniteSets

CONSTANTS
  NUM_THREADS,
  Sorters        \* as many names for the threads

ASSUME SortParallelAssumption ==
  /\ NUM_THREADS \in Nat \ {0}
  /\ Sorters = 0..(NUM_THREADS - 1)

Nobody == -1

VARIABLES
  spStage,    \* of main: "off", "create", "join", "done", "crashed"
  spI,        \* the counter of main's loops
  spPc,       \* of each thread
  thread_id,  \* what each thread read
  file_lock,  \* the thread that locked it and did not unlock it
  spFile,     \* plot.memo
  spFailed    \* the threads that met a failure: history

spVars == <<spStage, spI, spPc, thread_id, file_lock, spFile, spFailed>>

Plot == [by |-> Nobody, at |-> 0]

SortParallelInit ==
  /\ spStage = "off"
  /\ spI = 0
  /\ spPc = [t \in Sorters |-> "none"]
  /\ thread_id = [t \in Sorters |-> Nobody]
  /\ file_lock = Nobody
  /\ spFile = {Plot}
  /\ spFailed = {}

SortParallelStart ==
  /\ spStage = "off" /\ spStage' = "create"
  /\ UNCHANGED <<spI, spPc, thread_id, file_lock, spFile, spFailed>>

CreateSorter ==
  /\ spStage = "create" /\ spI < NUM_THREADS
  /\ spPc' = [spPc EXCEPT ![spI] = "start"]
  /\ spI' = spI + 1
  /\ UNCHANGED <<spStage, thread_id, file_lock, spFile, spFailed>>

AllSortersCreated ==
  /\ spStage = "create" /\ spI = NUM_THREADS
  /\ spStage' = "join" /\ spI' = 0
  /\ UNCHANGED <<spPc, thread_id, file_lock, spFile, spFailed>>

\* From here to the end, a step of thread t.
Step(t, from, to) ==
  /\ spStage # "crashed"
  /\ spPc[t] = from
  /\ spPc' = [spPc EXCEPT ![t] = to]

\* What is at the address of the counter: main may not have incremented it
\* since the last thread was created.
CounterNow ==
  IF spStage = "create" THEN {spI - 1, spI} ELSE {NUM_THREADS, spI}

ReadId(t) ==
  /\ Step(t, "start", "open")
  /\ \E id \in CounterNow : thread_id' = [thread_id EXCEPT ![t] = id]
  /\ UNCHANGED <<spStage, spI, file_lock, spFile, spFailed>>

\* fopen, fseeko and fclose.
OpenToRead(t) ==
  /\ Step(t, "open", "read")
  /\ UNCHANGED <<spStage, spI, thread_id, file_lock, spFile, spFailed>>

OpenToReadFails(t) ==
  /\ Step(t, "open", "ended")
  /\ spFailed' = spFailed \cup {t}
  /\ UNCHANGED <<spStage, spI, thread_id, file_lock, spFile>>

\* The read of the closed file, and the sort.
ReadSomething(t) ==
  /\ Step(t, "read", "lock")
  /\ UNCHANGED <<spStage, spI, thread_id, file_lock, spFile, spFailed>>

ReadNothing(t) ==
  /\ Step(t, "read", "ended")
  /\ spFailed' = spFailed \cup {t}
  /\ UNCHANGED <<spStage, spI, thread_id, file_lock, spFile>>

ReadCrashes(t) ==
  /\ spStage # "crashed" /\ spPc[t] = "read"
  /\ spStage' = "crashed"
  /\ UNCHANGED <<spI, spPc, thread_id, file_lock, spFile, spFailed>>

LockUnchecked(t) ==  \* Slip
  /\ Step(t, "lock", "open_to_write")
  /\ file_lock' = t
  /\ UNCHANGED <<spStage, spI, thread_id, spFile, spFailed>>

LockFile(t) ==
  /\ file_lock = Nobody
  /\ Step(t, "lock", "open_to_write")
  /\ file_lock' = t
  /\ UNCHANGED <<spStage, spI, thread_id, spFile, spFailed>>

\* fopen with "wb".
OpenToWrite(t) ==
  /\ Step(t, "open_to_write", "seek")
  /\ spFile' = {}
  /\ UNCHANGED <<spStage, spI, thread_id, file_lock, spFailed>>

\* The early returns of writebucketToFile.
WriteFails(t) ==
  /\ \/ Step(t, "open_to_write", "ended")
     \/ Step(t, "seek", "ended")
  /\ spFailed' = spFailed \cup {t}
  /\ UNCHANGED <<spStage, spI, thread_id, file_lock, spFile>>

SeekToWrite(t) ==
  /\ Step(t, "seek", "write")
  /\ UNCHANGED <<spStage, spI, thread_id, file_lock, spFile, spFailed>>

\* fwrite and fclose.
WriteBucket(t) ==
  /\ Step(t, "write", "unlock")
  /\ spFile' = spFile \cup {[by |-> t, at |-> thread_id[t]]}
  /\ UNCHANGED <<spStage, spI, thread_id, file_lock, spFailed>>

NeverUnlock(t) ==  \* Slip
  /\ Step(t, "unlock", "ended")
  /\ UNCHANGED <<spStage, spI, thread_id, file_lock, spFile, spFailed>>

UnlockFile(t) ==
  /\ Step(t, "unlock", "ended")
  /\ file_lock' = Nobody
  /\ UNCHANGED <<spStage, spI, thread_id, spFile, spFailed>>

JoinSorter ==
  /\ spStage = "join" /\ spI < NUM_THREADS /\ spPc[spI] = "ended"
  /\ spI' = spI + 1
  /\ UNCHANGED <<spStage, spPc, thread_id, file_lock, spFile, spFailed>>

SortParallelEnds ==
  /\ spStage = "join" /\ spI = NUM_THREADS
  /\ spStage' = "done"
  /\ UNCHANGED <<spI, spPc, thread_id, file_lock, spFile, spFailed>>

Sorter(t) ==
  \/ ReadId(t)
  \/ OpenToRead(t)
  \/ OpenToReadFails(t)
  \/ ReadSomething(t)
  \/ ReadNothing(t)
  \/ ReadCrashes(t)
  \/ LockFile(t)
  \/ OpenToWrite(t)
  \/ WriteFails(t)
  \/ SeekToWrite(t)
  \/ WriteBucket(t)
  \/ UnlockFile(t)

SortParallelNext ==
  \/ SortParallelStart
  \/ CreateSorter
  \/ AllSortersCreated
  \/ \E t \in Sorters : Sorter(t)
  \/ JoinSorter
  \/ SortParallelEnds

SortParallelSpec == SortParallelInit /\ [][SortParallelNext]_spVars

-----------------------------------------------------------------------------
\* Properties.

\* Between lock and unlock.
Critical == {"open_to_write", "seek", "write", "unlock"}

\* Whatever numbers the threads have read, the file is never put together of
\* two buckets: it is the plot, or nothing, or one bucket behind a hole (lines
\* 16-37).  The plot is gone once a thread has opened the file.
FileOfOneThread ==
  /\ Cardinality(spFile) <= 1
  /\ Plot \in spFile => \A t \in Sorters : spPc[t] \notin {"seek", "write", "unlock"}
  /\ \A t \in Sorters : spPc[t] \in {"seek", "write"} => spFile = {}
  /\ \A piece \in spFile \ {Plot} : piece.at = thread_id[piece.by]

\* The lock has one owner, who is on its way to unlock it, unless it left by
\* an early return (lines 24 and 31): only after such a failure do the other
\* threads, and main, wait for ever.
LockLostOnlyByFailure ==
  /\ \A t \in Sorters : spPc[t] \in Critical => file_lock = t
  /\ file_lock # Nobody =>
       \/ spPc[file_lock] \in Critical
       \/ spPc[file_lock] = "ended" /\ file_lock \in spFailed
=============================================================================
