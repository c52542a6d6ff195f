---------------------------- MODULE ToolsProofs -----------------------------
(***************************************************************************)
(* Theorems about the single programs of hash-search, for any number of    *)
(* threads and any sizes: the file that the sorters share under a lock,    *)
(* the nonce that the threads of the proof of work share without one, the  *)
(* array that the generators' threads fill, the blocks that block_sort     *)
(* moves about in a file, and the leaves and blocks of the hash tree.      *)
(*                                                                         *)
(* Each program has an inductive invariant of its own, which the steps of  *)
(* the other programs leave alone.                                         *)
(***************************************************************************)
EXTENDS Tools, FiniteSetTheorems, WellFoundedInduction, TLAPS

-----------------------------------------------------------------------------
(* sort_parallel.c                                                         *)

SpPCs == Critical \cup {"none", "start", "open", "read", "lock", "ended"}

\* The file is empty or of one piece, and the bucket in it is that of a
\* thread that is done with it.  Threads that are not created yet have not
\* started, so that none starts twice.
SortersInv ==
  /\ spI \in Nat
  /\ spPc \in [Sorters -> SpPCs]
  /\ thread_id \in [Sorters -> Int]
  /\ file_lock \in Sorters \cup {Nobody}
  /\ spStage \in {"off", "create"} => \A t \in Sorters : t >= spI => spPc[t] = "none"
  /\ LockLostOnlyByFailure
  /\ spFile = {} \/ \E piece : spFile = {piece}
  /\ Plot \in spFile => \A t \in Sorters : spPc[t] \notin {"seek", "write", "unlock"}
  /\ \A t \in Sorters : spPc[t] \in {"seek", "write"} => spFile = {}
  /\ \A piece \in spFile \ {Plot} :
       /\ piece.by \in Sorters
       /\ spPc[piece.by] \in {"unlock", "ended"}
       /\ piece.at = thread_id[piece.by]

\* Names of threads, and the places in their program.
LEMMA SorterNames ==
  /\ Nobody \notin Sorters
  /\ \A t \in Sorters : t \in Nat
  /\ {"none", "start", "open", "read", "lock", "ended", "open_to_write", "seek",
      "write", "unlock"} = SpPCs
BY SortParallelAssumption DEF Nobody, SpPCs, Critical

\* Main creates the threads and waits for them.
LEMMA SortersMain ==
  ASSUME SortersInv,
         \/ SortParallelStart \/ CreateSorter \/ AllSortersCreated
         \/ JoinSorter \/ SortParallelEnds
  PROVE  SortersInv'
<1>1. CASE CreateSorter
  <2>1. /\ spI \in Sorters /\ spPc[spI] = "none" /\ spI' = spI + 1
        /\ spPc' = [spPc EXCEPT ![spI] = "start"]
        /\ UNCHANGED <<spStage, thread_id, file_lock, spFile, spFailed>>
    BY <1>1, SortParallelAssumption DEF CreateSorter, SortersInv
  <2>2. \A t \in Sorters : spPc'[t] = IF t = spI THEN "start" ELSE spPc[t]
    BY <2>1 DEF SortersInv
  <2>3. \A t \in Sorters : t >= spI + 1 => t >= spI /\ t # spI
    BY SorterNames DEF SortersInv
  <2>4. LockLostOnlyByFailure'
    BY <2>1, <2>2, SorterNames DEF SortersInv, LockLostOnlyByFailure, Critical
  <2>5. spPc' \in [Sorters -> SpPCs] /\ spI' \in Nat
    BY <2>1, SorterNames DEF SortersInv
  <2> QED BY <2>1, <2>2, <2>3, <2>4, <2>5 DEF SortersInv
<1>2. CASE ~CreateSorter
  <2>1. /\ UNCHANGED <<spPc, thread_id, file_lock, spFile, spFailed>> /\ spI' \in Nat
        /\ spStage' \in {"off", "create"} => spI' = spI /\ spStage \in {"off", "create"}
    BY <1>2 DEF SortParallelStart, AllSortersCreated, JoinSorter, SortParallelEnds, SortersInv
  <2> QED BY <2>1 DEF SortersInv, LockLostOnlyByFailure
<1> QED BY <1>1, <1>2

\* A thread before its lock, or one that fails to read.
LEMMA SorterReads ==
  ASSUME SortersInv, NEW t \in Sorters,
         \/ ReadId(t) \/ OpenToRead(t) \/ OpenToReadFails(t)
         \/ ReadSomething(t) \/ ReadNothing(t) \/ ReadCrashes(t)
  PROVE  SortersInv'
<1>1. CASE ReadCrashes(t)
  BY <1>1 DEF ReadCrashes, SortersInv, LockLostOnlyByFailure
<1>2. CASE ~ReadCrashes(t)
  <2>1. /\ spPc[t] \in {"start", "open", "read"}
        /\ \E l \in {"open", "read", "lock", "ended"} : spPc' = [spPc EXCEPT ![t] = l]
        /\ UNCHANGED <<spStage, spI, file_lock, spFile>> /\ spFailed \subseteq spFailed'
        /\ thread_id' \in [Sorters -> Int]
        /\ \A u \in Sorters : u # t => thread_id'[u] = thread_id[u]
    <3>1. ReadId(t) => thread_id' \in [Sorters -> Int]
      <4>1. \A id \in CounterNow : id \in Int
        BY SortParallelAssumption DEF SortersInv, CounterNow
      <4> QED BY <4>1 DEF ReadId, SortersInv
    <3> QED BY <1>2, <3>1 DEF ReadId, OpenToRead, OpenToReadFails, ReadSomething, ReadNothing,
              Step, SortersInv
  <2>2. PICK l \in {"open", "read", "lock", "ended"} : spPc' = [spPc EXCEPT ![t] = l]
    BY <2>1
  <2>3. \A u \in Sorters : spPc'[u] = IF u = t THEN l ELSE spPc[u]
    BY <2>2 DEF SortersInv
  <2>4. LockLostOnlyByFailure'
    BY <2>1, <2>3, SorterNames DEF SortersInv, LockLostOnlyByFailure, Critical
  <2>5. spPc' \in [Sorters -> SpPCs]
    BY <2>2, SorterNames DEF SortersInv
  <2> QED BY <2>1, <2>3, <2>4, <2>5 DEF SortersInv
<1> QED BY <1>1, <1>2

\* A thread from its lock on: nobody else is between lock and unlock.
LEMMA SorterWrites ==
  ASSUME SortersInv, NEW t \in Sorters,
         \/ LockFile(t) \/ OpenToWrite(t) \/ WriteFails(t) \/ SeekToWrite(t)
         \/ WriteBucket(t) \/ UnlockFile(t)
  PROVE  SortersInv'
<1>1. \A u \in Sorters : u # t /\ spPc[t] # "lock" => spPc[u] \notin Critical
  <2>1. spPc[t] # "lock" => spPc[t] \in Critical
    BY DEF LockFile, OpenToWrite, WriteFails, SeekToWrite, WriteBucket, UnlockFile, Step, Critical
  <2> QED BY <2>1 DEF SortersInv, LockLostOnlyByFailure
<1>2. /\ \E l \in {"open_to_write", "seek", "write", "unlock", "ended"} :
           spPc' = [spPc EXCEPT ![t] = l]
      /\ UNCHANGED <<spStage, spI, thread_id>>
      /\ file_lock' \in Sorters \cup {Nobody}
  BY DEF LockFile, OpenToWrite, WriteFails, SeekToWrite, WriteBucket, UnlockFile, Step, SortersInv
<1>3. PICK l \in {"open_to_write", "seek", "write", "unlock", "ended"} :
        spPc' = [spPc EXCEPT ![t] = l]
  BY <1>2
<1>4. \A u \in Sorters : spPc'[u] = IF u = t THEN l ELSE spPc[u]
  BY <1>3 DEF SortersInv
<1>5. spPc' \in [Sorters -> SpPCs]
  BY <1>3, SorterNames DEF SortersInv
<1>6. spPc[t] # "none" /\ (spPc[t] \in Critical => file_lock = t)
  BY DEF LockFile, OpenToWrite, WriteFails, SeekToWrite, WriteBucket, UnlockFile, Step,
         SortersInv, LockLostOnlyByFailure
<1> DEFINE Pieces == \A piece \in spFile \ {Plot} :
             /\ piece.by \in Sorters
             /\ spPc[piece.by] \in {"unlock", "ended"}
             /\ piece.at = thread_id[piece.by]
<1>7. CASE LockFile(t)
  <2>1. l = "open_to_write" /\ spPc[t] = "lock" /\ file_lock = Nobody /\ file_lock' = t
        /\ UNCHANGED <<spFile, spFailed>>
    BY <1>4, <1>7 DEF LockFile, Step, SortersInv
  <2>2. \A u \in Sorters : spPc[u] \notin Critical
    BY <2>1, SorterNames DEF SortersInv, LockLostOnlyByFailure
  <2>3. LockLostOnlyByFailure'
    BY <1>4, <2>1, <2>2 DEF LockLostOnlyByFailure, Critical
  <2> QED BY <1>2, <1>4, <1>5, <2>1, <2>3 DEF SortersInv
<1>8. CASE OpenToWrite(t)
  <2>1. l = "seek" /\ spPc[t] = "open_to_write" /\ spFile' = {}
        /\ UNCHANGED <<file_lock, spFailed>>
    BY <1>4, <1>8 DEF OpenToWrite, Step, SortersInv
  <2>2. LockLostOnlyByFailure'
    BY <1>1, <1>4, <1>6, <2>1 DEF SortersInv, LockLostOnlyByFailure, Critical
  <2> QED BY <1>2, <1>4, <1>5, <2>1, <2>2 DEF SortersInv
<1>9. CASE WriteFails(t)
  <2>1. l = "ended" /\ spPc[t] \in {"open_to_write", "seek"}
        /\ spFailed' = spFailed \cup {t} /\ UNCHANGED <<file_lock, spFile>>
    BY <1>4, <1>9 DEF WriteFails, Step, SortersInv
  <2>2. LockLostOnlyByFailure'
    BY <1>1, <1>4, <1>6, <2>1 DEF SortersInv, LockLostOnlyByFailure, Critical
  <2> QED BY <1>2, <1>4, <1>5, <2>1, <2>2 DEF SortersInv
<1>10. CASE SeekToWrite(t)
  <2>1. l = "write" /\ spPc[t] = "seek" /\ UNCHANGED <<file_lock, spFile, spFailed>>
    BY <1>4, <1>10 DEF SeekToWrite, Step, SortersInv
  <2>2. LockLostOnlyByFailure'
    BY <1>1, <1>4, <1>6, <2>1 DEF SortersInv, LockLostOnlyByFailure, Critical
  <2> QED BY <1>2, <1>4, <1>5, <2>1, <2>2 DEF SortersInv
<1>11. CASE WriteBucket(t)
  <2> DEFINE piece == [by |-> t, at |-> thread_id[t]]
  <2>1. l = "unlock" /\ spPc[t] = "write" /\ spFile' = spFile \cup {piece}
        /\ UNCHANGED <<file_lock, spFailed>>
    BY <1>4, <1>11 DEF WriteBucket, Step, SortersInv
  <2>2. spFile' = {piece} /\ piece # Plot
    BY <2>1, SorterNames DEF SortersInv, Plot
  <2>3. LockLostOnlyByFailure'
    BY <1>1, <1>4, <1>6, <2>1 DEF SortersInv, LockLostOnlyByFailure, Critical
  <2>4. \A u \in Sorters : spPc'[u] \notin {"seek", "write"}
    BY <1>1, <1>4, <2>1 DEF Critical
  <2> QED BY <1>2, <1>4, <1>5, <2>1, <2>2, <2>3, <2>4 DEF SortersInv
<1>12. CASE UnlockFile(t)
  <2>1. l = "ended" /\ spPc[t] = "unlock" /\ file_lock' = Nobody
        /\ UNCHANGED <<spFile, spFailed>>
    BY <1>4, <1>12 DEF UnlockFile, Step, SortersInv
  <2>2. LockLostOnlyByFailure'
    BY <1>1, <1>4, <2>1 DEF LockLostOnlyByFailure, Critical
  <2> QED BY <1>2, <1>4, <1>5, <2>1, <2>2 DEF SortersInv
<1> QED BY <1>7, <1>8, <1>9, <1>10, <1>11, <1>12

\* The sorters start with no thread, and every step keeps the invariant.
LEMMA SortersStart == SortParallelInit => SortersInv
<1> SUFFICES ASSUME SortParallelInit PROVE SortersInv
  OBVIOUS
<1>1. \A t \in Sorters : spPc[t] = "none"
  BY DEF SortParallelInit
<1>2. spFile = {Plot} /\ file_lock = Nobody /\ spI = 0
  BY DEF SortParallelInit
<1>3. spPc \in [Sorters -> SpPCs] /\ thread_id \in [Sorters -> Int]
  BY SorterNames DEF SortParallelInit, Nobody
<1> QED BY <1>1, <1>2, <1>3 DEF SortersInv, LockLostOnlyByFailure, Critical

\* Every step of the sorters keeps SortersInv.
LEMMA SortersStep == SortersInv /\ [SortParallelNext]_spVars => SortersInv'
<1> SUFFICES ASSUME SortersInv, [SortParallelNext]_spVars PROVE SortersInv'
  OBVIOUS
<1>1. CASE UNCHANGED spVars
  BY <1>1 DEF spVars, SortersInv, LockLostOnlyByFailure
<1> QED BY <1>1, SortersMain, SorterReads, SorterWrites DEF SortParallelNext, Sorter

\* One program at a time: a step of Tools is one of the sorters' or none.
LEMMA SortersAlone == ToolsNext => [SortParallelNext]_spVars
BY DEF ToolsNext, TreeRuns, BlockSortRuns, HashThreadsRun, ProofOfWorkRuns,
       SortParallelRuns, spVars

\* SortersInv holds whichever program is run.
LEMMA AlwaysSorters == ToolsSpec => []SortersInv
<1>1. ToolsInit => SortersInv
  BY SortersStart DEF ToolsInit
<1>2. SortersInv /\ [ToolsNext]_toolsVars => SortersInv'
  <2>1. UNCHANGED toolsVars => UNCHANGED spVars
    BY DEF toolsVars, spVars
  <2> QED BY <2>1, SortersAlone, SortersStep
<1> QED BY <1>1, <1>2, PTL DEF ToolsSpec

\* The lock has one owner, and is lost only when a write fails: whatever
\* number a thread has read, it unlocks what it locked.
THEOREM LockIsReturned == ToolsSpec => []LockLostOnlyByFailure
<1>1. SortersInv => LockLostOnlyByFailure
  BY DEF SortersInv
<1> QED BY <1>1, AlwaysSorters, PTL

\* Under the lock the file is never put together of the buckets of two
\* threads, although each opens it with "wb" after it has read its own.
THEOREM OneBucketAtMost == ToolsSpec => []FileOfOneThread
<1>1. SortersInv => FileOfOneThread
  <2> SUFFICES ASSUME SortersInv PROVE FileOfOneThread
    OBVIOUS
  <2>1. Cardinality(spFile) <= 1
    <3>1. Cardinality({}) = 0 /\ \A x : Cardinality({x}) = 1
      BY FS_EmptySet, FS_Singleton
    <3>2. CASE spFile = {}
      BY <3>1, <3>2
    <3>3. CASE \E piece : spFile = {piece}
      <4>1. PICK piece : spFile = {piece}
        BY <3>3
      <4>2. Cardinality(spFile) = 1
        BY <3>1, <4>1
      <4> QED BY <4>2
    <3>4. spFile = {} \/ \E piece : spFile = {piece}
      BY DEF SortersInv
    <3> QED BY <3>2, <3>3, <3>4
  <2> QED BY <2>1 DEF SortersInv, FileOfOneThread
<1> QED BY <1>1, AlwaysSorters, PTL

-----------------------------------------------------------------------------
(* Proof_of_work.c                                                         *)

PowPCs == {"none", "check", "hash", "report", "ended"}

\* The nonce is that of a thread that found one and stays where it found it;
\* a thread reports only with a nonce of its own or when its time was up.
PowInv ==
  /\ powPc \in [PowThreads -> PowPCs]
  /\ powInput \in [PowThreads -> Nat]
  /\ powI \in Nat
  /\ powFound \subseteq PowThreads
  /\ powFound = {} <=> nonce = -1
  /\ powFound # {} => /\ nonce \in powMatches
                      /\ \E t \in powFound : powInput[t] = nonce
  /\ \A t \in powFound : powPc[t] \in {"report", "ended"}
  /\ \A t \in PowThreads :
       powPc[t] \in {"report", "ended"} => t \in powFound \/ t \in powTimeUp
  /\ powPc[threads_count - 1] = "ended" =>
       hashes_generated = powInput[threads_count - 1]
  /\ powStage \in {"off", "create"} =>
       powI < threads_count /\ \A t \in PowThreads : t >= powI => powPc[t] = "none"
  /\ powStage = "off" => powI = 0
  /\ powStage = "join" => \A t \in PowThreads : t < powI => powPc[t] = "ended"
  /\ powStage = "printed" =>
       /\ \A t \in PowThreads : powPc[t] = "ended"
       /\ powPrinted = <<hashes_generated, nonce>>

\* Names of threads; the last one is one of them.
LEMMA PowNames ==
  /\ \A t \in PowThreads : t \in Nat /\ t < threads_count
  /\ threads_count - 1 \in PowThreads
BY ProofOfWorkAssumption DEF PowThreads

\* PowInv holds before the proof of work is started.
LEMMA PowInvInit == ProofOfWorkInit => PowInv
<1> SUFFICES ASSUME ProofOfWorkInit PROVE PowInv
  OBVIOUS
<1>1. /\ powStage = "off" /\ powI = 0 /\ powFound = {} /\ nonce = -1
      /\ \A t \in PowThreads : powPc[t] = "none"
  BY DEF ProofOfWorkInit
<1>2. powPc \in [PowThreads -> PowPCs] /\ powInput \in [PowThreads -> Nat]
  BY PowNames DEF ProofOfWorkInit, PowPCs
<1> QED BY <1>1, <1>2, PowNames, ProofOfWorkAssumption DEF PowInv

\* Main starts, creates the threads, waits for them and prints.
LEMMA PowMain ==
  ASSUME PowInv, PowStart \/ PowCreate \/ PowJoin \/ PowPrint
  PROVE  PowInv'
<1>1. CASE PowStart
  <2>1. /\ powStage = "off" /\ powStage' = "create"
        /\ UNCHANGED <<powI, powPc, powInput, powTimeUp, powFound, nonce, hashes_generated>>
    BY <1>1 DEF PowStart
  <2>2. powFound = {}
    <3>1. \A t \in PowThreads : powPc[t] = "none"
      BY <2>1, PowNames DEF PowInv
    <3> QED BY <3>1 DEF PowInv
  <2> QED BY <2>1, <2>2 DEF PowInv
<1>2. CASE PowCreate
  <2>1. /\ powStage = "create" /\ powI \in PowThreads
        /\ powPc' = [powPc EXCEPT ![powI] = "check"]
        /\ UNCHANGED <<powMatches, powInput, powTimeUp, powFound, nonce, hashes_generated>>
    BY <1>2, ProofOfWorkAssumption DEF PowCreate, PowInv, PowThreads
  <2>2. powPc[powI] = "none"
    BY <2>1, PowNames DEF PowInv
  <2>3. \A t \in PowThreads : powPc'[t] = IF t = powI THEN "check" ELSE powPc[t]
    BY <2>1 DEF PowInv
  <2>4. powPc' \in [PowThreads -> PowPCs]
    BY <2>1 DEF PowInv, PowPCs
  <2>5. /\ powI' \in Nat
        /\ powStage' \in {"create", "join"}
        /\ powStage' = "create" => powI' = powI + 1 /\ powI + 1 < threads_count
        /\ powStage' = "join" => powI' = 0
    BY <1>2, ProofOfWorkAssumption DEF PowCreate, PowInv
  <2>6. powPc'[threads_count - 1] = "ended" => powPc[threads_count - 1] = "ended"
    BY <2>3, PowNames
  <2>7. powStage' = "create" => \A t \in PowThreads : t >= powI' => powPc'[t] = "none"
    BY <2>1, <2>3, <2>5, PowNames DEF PowInv
  <2>8. powStage' = "join" => \A t \in PowThreads : t < powI' => powPc'[t] = "ended"
    BY <2>5, PowNames
  <2>9. \A t \in powFound : powPc'[t] \in {"report", "ended"}
    BY <2>2, <2>3 DEF PowInv
  <2>10. \A t \in PowThreads :
           powPc'[t] \in {"report", "ended"} => t \in powFound \/ t \in powTimeUp
    BY <2>3 DEF PowInv
  <2> QED BY <2>1, <2>4, <2>5, <2>6, <2>7, <2>8, <2>9, <2>10 DEF PowInv
<1>3. CASE PowJoin
  <2>1. /\ powStage = "join" /\ powPc[powI] = "ended" /\ powI' = powI + 1
        /\ UNCHANGED <<powStage, powMatches, powPc, powInput, powTimeUp, powFound, nonce,
                       hashes_generated>>
    BY <1>3 DEF PowJoin
  <2>2. \A t \in PowThreads : t < powI + 1 => t < powI \/ t = powI
    BY PowNames DEF PowInv
  <2> QED BY <2>1, <2>2 DEF PowInv
<1>4. CASE PowPrint
  BY <1>4, PowNames DEF PowPrint, PowInv
<1> QED BY <1>1, <1>2, <1>3, <1>4

\* A thread looks, and finds one, goes on, or reports.
LEMMA PowThread ==
  ASSUME PowInv, NEW t \in PowThreads,
         PowCheck(t) \/ PowMatch(t) \/ PowNoMatch(t) \/ PowReport(t)
  PROVE  PowInv'
<1>1. /\ powPc[t] \in {"check", "hash", "report"}
      /\ \E l \in PowPCs \ {"none"} : powPc' = [powPc EXCEPT ![t] = l]
      /\ UNCHANGED <<powStage, powI, powMatches>>
  BY DEF PowCheck, PowMatch, PowNoMatch, PowReport, PowPCs
<1>2. PICK l \in PowPCs \ {"none"} : powPc' = [powPc EXCEPT ![t] = l]
  BY <1>1
<1>3. \A u \in PowThreads : powPc'[u] = IF u = t THEN l ELSE powPc[u]
  BY <1>2 DEF PowInv
<1>4. powPc' \in [PowThreads -> PowPCs]
  BY <1>2 DEF PowInv
<1>5. /\ powI' \in Nat
      /\ powStage' \in {"off", "create"} =>
           powI' < threads_count /\ \A u \in PowThreads : u >= powI' => powPc'[u] = "none"
      /\ powStage' = "off" => powI' = 0
      /\ powStage' = "join" => \A u \in PowThreads : u < powI' => powPc'[u] = "ended"
      /\ powStage' # "printed"
  BY <1>1, <1>3 DEF PowInv
<1>6. CASE PowCheck(t)
  <2>1. /\ powPc[t] = "check" /\ l = IF PowGoesOn(t) THEN "hash" ELSE "report"
        /\ UNCHANGED <<powInput, powTimeUp, powFound, nonce, hashes_generated>>
    BY <1>3, <1>6 DEF PowCheck, PowInv
  <2>2. l = "report" => t \in powTimeUp
    BY <2>1 DEF PowGoesOn
  <2> QED BY <1>1, <1>3, <1>4, <1>5, <2>1, <2>2, PowNames DEF PowInv
<1>7. CASE PowMatch(t)
  <2>1. /\ powPc[t] = "hash" /\ l = "report" /\ powInput[t] \in powMatches
        /\ nonce' = powInput[t] /\ powFound' = powFound \cup {t}
        /\ UNCHANGED <<powInput, powTimeUp, hashes_generated>>
    BY <1>3, <1>7 DEF PowMatch, PowInv
  <2>2. powFound' # {} /\ nonce' # -1 /\ nonce' \in powMatches
    BY <2>1 DEF PowInv
  <2>3. \A u \in powFound' : powPc'[u] \in {"report", "ended"}
    BY <1>3, <2>1 DEF PowInv
  <2>4. \A u \in PowThreads :
          powPc'[u] \in {"report", "ended"} => u \in powFound' \/ u \in powTimeUp
    BY <1>3, <2>1 DEF PowInv
  <2> QED BY <1>1, <1>3, <1>4, <1>5, <2>1, <2>2, <2>3, <2>4, PowNames DEF PowInv
<1>8. CASE PowNoMatch(t)
  <2>1. /\ powPc[t] = "hash" /\ l = "check"
        /\ powInput' = [powInput EXCEPT ![t] = powInput[t] + threads_count]
        /\ powTimeUp \subseteq powTimeUp'
        /\ UNCHANGED <<powFound, nonce, hashes_generated>>
    BY <1>3, <1>8 DEF PowNoMatch, PowInv
  <2>2. t \notin powFound
    BY <2>1 DEF PowInv
  <2>3. \A u \in PowThreads : u # t => powInput'[u] = powInput[u]
    BY <2>1 DEF PowInv
  <2>4. powInput' \in [PowThreads -> Nat]
    <3>1. powInput[t] + threads_count \in Nat
      BY ProofOfWorkAssumption DEF PowInv
    <3> QED BY <2>1, <3>1 DEF PowInv
  <2>5. powFound' # {} => \E u \in powFound' : powInput'[u] = nonce'
    BY <2>1, <2>2, <2>3 DEF PowInv
  <2>6. \A u \in PowThreads :
          powPc'[u] \in {"report", "ended"} => u \in powFound' \/ u \in powTimeUp'
    BY <1>3, <2>1 DEF PowInv
  <2>7. \A u \in powFound' : powPc'[u] \in {"report", "ended"}
    BY <1>3, <2>1, <2>2 DEF PowInv
  <2>8. powPc'[threads_count - 1] = "ended" =>
          hashes_generated' = powInput'[threads_count - 1]
    BY <1>3, <2>1, <2>3, PowNames DEF PowInv
  <2> QED BY <1>1, <1>4, <1>5, <2>1, <2>4, <2>5, <2>6, <2>7, <2>8 DEF PowInv
<1>9. CASE PowReport(t)
  <2>1. /\ powPc[t] = "report" /\ l = "ended"
        /\ hashes_generated' = IF t = threads_count - 1 THEN powInput[t] ELSE hashes_generated
        /\ UNCHANGED <<powInput, powTimeUp, powFound, nonce>>
    BY <1>3, <1>9 DEF PowReport, PowInv
  <2> QED BY <1>1, <1>3, <1>4, <1>5, <2>1, PowNames DEF PowInv
<1> QED BY <1>6, <1>7, <1>8, <1>9

\* Every step of the proof of work keeps PowInv.
LEMMA PowStep == PowInv /\ [ProofOfWorkNext]_powVars => PowInv'
<1> SUFFICES ASSUME PowInv, [ProofOfWorkNext]_powVars PROVE PowInv'
  OBVIOUS
<1>1. CASE UNCHANGED powVars
  BY <1>1 DEF powVars, PowInv
<1> QED BY <1>1, PowMain, PowThread DEF ProofOfWorkNext

\* What main prints is the nonce of a thread that found one and stopped there,
\* whoever of them wrote the global last, and -1 only when nobody found any;
\* every other thread found one too or was out of time.
THEOREM PrintsWhatWasFound == ToolsSpec => []PrintedIsFound
<1>1. ToolsInit => PowInv
  BY PowInvInit DEF ToolsInit
<1>2. PowInv /\ [ToolsNext]_toolsVars => PowInv'
  <2>1. UNCHANGED toolsVars => UNCHANGED powVars
    BY DEF toolsVars, powVars
  <2>2. ToolsNext => [ProofOfWorkNext]_powVars
    BY DEF ToolsNext, TreeRuns, BlockSortRuns, HashThreadsRun, ProofOfWorkRuns,
           SortParallelRuns, powVars
  <2> QED BY <2>1, <2>2, PowStep
<1>3. PowInv => PrintedIsFound
  <2> SUFFICES ASSUME PowInv, powStage = "printed" PROVE PrintedIsFound
    BY DEF PrintedIsFound
  <2>1. powPrinted[1] = hashes_generated /\ powPrinted[2] = nonce
    BY DEF PowInv
  <2>2. \A t \in PowThreads : powPc[t] = "ended"
    BY DEF PowInv
  <2> QED BY <2>1, <2>2, PowNames DEF PowInv, PrintedIsFound
<1> QED BY <1>1, <1>2, <1>3, PTL DEF ToolsSpec

-----------------------------------------------------------------------------
(* generate_hash*.c                                                        *)

\* A product is ordered as its first factor.
LEMMA Products ==
  ASSUME NEW s \in Nat, NEW x \in Nat, NEW y \in Nat
  PROVE  /\ x * s \in Nat /\ (x + 1) * s = x * s + s
         /\ x <= y => x * s <= y * s
<1>1. x * s \in Nat /\ (x + 1) * s = x * s + s
  BY Z3
<1>2. x <= y => x * s <= y * s
  BY Z3
<1> QED BY <1>1, <1>2

\* The quotient and the rest of a division give the number back.
LEMMA Quotient ==
  ASSUME NEW k \in Nat \ {0}, NEW a \in Nat
  PROVE  /\ a \div k \in Nat /\ a % k \in 0..(k - 1)
         /\ a = (a \div k) * k + (a % k)
<1>1. a \div k \in Nat
  BY Z3
<1>2. a % k \in 0..(k - 1)
  BY Z3
<1>3. a = (a \div k) * k + (a % k)
  BY Z3
<1> QED BY <1>1, <1>2, <1>3

\* The remainder of a multiple and a rest.
LEMMA RestOfSum ==
  ASSUME NEW k \in Nat \ {0}, NEW q \in Nat, NEW r \in 0..(k - 1)
  PROVE  (q * k + r) % k = r
BY Z3

\* A smaller product has a smaller first factor.
LEMMA Smaller ==
  ASSUME NEW k \in Nat \ {0}, NEW x \in Nat, NEW y \in Nat, x * k < y * k
  PROVE  x < y
<1>1. ~(y <= x)
  BY Products
<1> QED BY <1>1

\* A number below n parts of s lies in one of them.
LEMMA PartOf ==
  ASSUME NEW n \in Nat, NEW s \in Nat \ {0}, NEW k \in Nat, k < n * s
  PROVE  /\ k \div s \in 0..(n - 1)
         /\ (k \div s) * s <= k
         /\ k < (k \div s + 1) * s
<1> DEFINE t == k \div s
           r == k % s
<1>1. t \in Nat /\ r \in 0..(s - 1) /\ k = t * s + r
  BY Quotient
<1> HIDE DEF t, r
<1>2. t * s \in Nat /\ (t + 1) * s = t * s + s /\ n * s \in Nat
  BY <1>1, Products
<1>3. t * s <= k /\ k < (t + 1) * s
  BY <1>1, <1>2
<1>4. t < n
  BY <1>1, <1>2, <1>3, Smaller
<1>5. t \in 0..(n - 1) /\ t * s <= k /\ k < (t + 1) * s
  BY <1>1, <1>3, <1>4
<1> QED BY <1>5 DEF t

\* The threads of a program are 0..n-1, and their shares make up the array.
LEMMA Shares ==
  ASSUME NEW g \in Generators
  PROVE  \E n \in Nat \ {0} :
           /\ ThreadsOf(g) = 0..(n - 1)
           /\ Share(g) \in Nat \ {0}
           /\ n * Share(g) = COUNT
<1> DEFINE n == IF g = "hash6" THEN num_threads ELSE 1
<1>1. n \in Nat \ {0} /\ ThreadsOf(g) = 0..(n - 1) /\ COUNT \in Nat \ {0}
  <2>1. COUNT \in Nat \ {0} /\ num_threads \in Nat \ {0}
    BY HashThreadsAssumption
  <2>2. {0} = 0..(1 - 1)
    OBVIOUS
  <2> QED BY <2>1, <2>2 DEF ThreadsOf, GenThreads
<1>2. Cardinality(ThreadsOf(g)) = n
  BY <1>1, FS_Interval
<1>3. COUNT % n = 0
  <2>1. COUNT % 1 = 0
    BY <1>1
  <2> QED BY <2>1, HashThreadsAssumption
<1>4. Share(g) = COUNT \div n
  BY <1>2 DEF Share
<1> HIDE DEF n
<1>5. Share(g) \in Nat /\ Share(g) * n = COUNT
  <2> DEFINE q == COUNT \div n
  <2>1. q \in Nat /\ COUNT = q * n + (COUNT % n)
    BY <1>1, Quotient
  <2> HIDE DEF q
  <2>2. q * n \in Nat
    BY <1>1, <2>1, Products
  <2>3. q * n = COUNT
    BY <1>1, <1>3, <2>1, <2>2
  <2>4. Share(g) = q
    BY <1>4 DEF q
  <2> QED BY <2>1, <2>3, <2>4
<1>6. n * Share(g) = Share(g) * n
  BY <1>1, <1>5, Z3
<1>7. Share(g) # 0
  BY <1>1, <1>5
<1> QED BY <1>1, <1>5, <1>6, <1>7

\* The part of a thread lies in the array, and every slot in a part.
LEMMA Parts ==
  ASSUME NEW g \in Generators
  PROVE  /\ \A t \in ThreadsOf(g) :
              /\ PartStart(g, t) \in Nat /\ PartEnd(g, t) \in Nat
              /\ PartStart(g, t) <= PartEnd(g, t) /\ PartEnd(g, t) <= COUNT
         /\ \A k \in 0..(COUNT - 1) : \E t \in ThreadsOf(g) :
              PartStart(g, t) <= k /\ k < PartEnd(g, t)
<1>1. PICK n \in Nat \ {0} : /\ ThreadsOf(g) = 0..(n - 1)
                             /\ Share(g) \in Nat \ {0}
                             /\ n * Share(g) = COUNT
  BY Shares
<1> DEFINE s == Share(g)
<1>2. ASSUME NEW t \in ThreadsOf(g)
      PROVE  /\ PartStart(g, t) \in Nat /\ PartEnd(g, t) \in Nat
             /\ PartStart(g, t) <= PartEnd(g, t) /\ PartEnd(g, t) <= COUNT
  <2>1. t \in Nat /\ t + 1 <= n
    BY <1>1
  <2>2. t * s \in Nat /\ (t + 1) * s = t * s + s /\ (t + 1) * s <= n * s
    BY <1>1, <2>1, Products
  <2> QED BY <1>1, <2>2 DEF PartStart, PartEnd
<1>3. ASSUME NEW k \in 0..(COUNT - 1)
      PROVE  \E t \in ThreadsOf(g) : PartStart(g, t) <= k /\ k < PartEnd(g, t)
  <2> DEFINE t == k \div Share(g)
  <2>1. k \in Nat /\ k < n * Share(g)
    BY <1>1, HashThreadsAssumption
  <2>2. t \in 0..(n - 1) /\ t * Share(g) <= k /\ k < (t + 1) * Share(g)
    BY <1>1, <2>1, PartOf
  <2> HIDE DEF t
  <2>3. PartStart(g, t) = t * Share(g) /\ PartEnd(g, t) = (t + 1) * Share(g)
    BY DEF PartStart, PartEnd
  <2>4. t \in ThreadsOf(g)
    BY <1>1, <2>2
  <2> QED BY <2>2, <2>3, <2>4
<1> QED BY <1>2, <1>3

\* The buckets of the array are whole; the next one may start it again.
LEMMA NextBucket ==
  ASSUME NEW m \in Nat, m < COUNT \div bucket_size
  PROVE  /\ m * bucket_size \in Nat
         /\ m * bucket_size + bucket_size <= COUNT
         /\ \/ /\ m + 1 < COUNT \div bucket_size
               /\ (m * bucket_size + bucket_size) % COUNT = (m + 1) * bucket_size
            \/ /\ m * bucket_size + bucket_size = COUNT
               /\ (m * bucket_size + bucket_size) % COUNT = 0
<1> DEFINE c == COUNT \div bucket_size
<1>1. COUNT \in Nat \ {0} /\ bucket_size \in Nat \ {0} /\ COUNT % bucket_size = 0
  BY HashThreadsAssumption
<1>2. c \in Nat /\ COUNT = c * bucket_size
  <2>1. c \in Nat /\ COUNT = c * bucket_size + (COUNT % bucket_size)
    BY <1>1, Quotient
  <2>2. c * bucket_size \in Nat
    BY <1>1, <2>1, Products
  <2> QED BY <1>1, <2>1, <2>2
<1> HIDE DEF c
<1>3. m < c
  BY DEF c
<1>4. m * bucket_size \in Nat /\ (m + 1) * bucket_size = m * bucket_size + bucket_size
  BY <1>1, Products
<1>5. (m + 1) * bucket_size <= COUNT
  BY <1>1, <1>2, <1>3, Products
<1>6. CASE m + 1 < c
  <2>1. (m + 1) * bucket_size < COUNT
    <3>1. (m + 1 + 1) * bucket_size <= COUNT
      BY <1>1, <1>2, <1>6, Products
    <3>2. (m + 1 + 1) * bucket_size = (m + 1) * bucket_size + bucket_size
      BY <1>1, Products
    <3> QED BY <1>1, <1>4, <3>1, <3>2
  <2>2. ((m + 1) * bucket_size) % COUNT = (m + 1) * bucket_size
    <3>1. \A x \in 0..(COUNT - 1) : (0 * COUNT + x) % COUNT = x /\ 0 * COUNT + x = x
      BY <1>1, RestOfSum
    <3> QED BY <1>1, <1>4, <2>1, <3>1
  <2> QED BY <1>4, <1>5, <1>6, <2>2 DEF c
<1>7. CASE m + 1 = c
  <2>1. (m + 1) * bucket_size = COUNT
    BY <1>2, <1>7
  <2>2. COUNT % COUNT = 0
    BY <1>1
  <2>3. m * bucket_size + bucket_size = COUNT
    BY <1>4, <2>1
  <2>4. (m * bucket_size + bucket_size) % COUNT = 0
    BY <2>2, <2>3
  <2> QED BY <1>1, <1>4, <2>3, <2>4
<1>8. m + 1 < c \/ m + 1 = c
  <2>1. c \in Nat
    BY <1>2
  <2> QED BY <1>3, <2>1
<1> QED BY <1>6, <1>7, <1>8

\* The first bucket starts where the file and the array do.
LEMMA FirstBucket ==
  /\ 0 < COUNT \div bucket_size /\ 0 * bucket_size = 0
  /\ 0..(0 * COUNT + 0 - 1) = {}
<1>1. COUNT \in Nat \ {0} /\ bucket_size \in Nat \ {0} /\ COUNT % bucket_size = 0
  BY HashThreadsAssumption
<1>2. COUNT \div bucket_size \in Nat
      /\ COUNT = (COUNT \div bucket_size) * bucket_size + (COUNT % bucket_size)
  BY <1>1, Quotient
<1>3. COUNT \div bucket_size # 0
  BY <1>1, <1>2
<1> QED BY <1>1, <1>2, <1>3

\* Whether main has created the thread.
Created(t) == genStage = "create" => t < genI

\* What a thread has passed it has filled, and it ends at the end of its part.
PartsInv ==
  \A t \in ThreadsOf(generator) : Created(t) =>
    /\ PartStart(generator, t) <= position[t]
    /\ position[t] <= PartEnd(generator, t)
    /\ \A k \in Nat : PartStart(generator, t) <= k /\ k < position[t] => hashresults[k] = k
    /\ t \notin running => position[t] = PartEnd(generator, t)

\* Main writes when every thread has ended, and reaches the file in pieces
\* that never go over the end of the array.
StageInv ==
  /\ running \subseteq ThreadsOf(generator)
  /\ \A t \in running : Created(t)
  /\ genStage \in {"create", "join", "write", "done"}
  /\ genStage = "join" => \A t \in ThreadsOf(generator) : t < genI => t \notin running
  /\ genStage \in {"write", "done"} => running = {}
  /\ generator = "hash4" =>
       /\ genStage # "write" /\ genFile = [place \in {} |-> Empty]
       /\ genStage # "done" /\ Created(0) => 0 \in running
  /\ genStage \in {"create", "join"} => genFile = [place \in {} |-> Empty]

FileInv ==
  /\ \A place \in DOMAIN genFile : genFile[place] = place % COUNT
  /\ genStage = "write" =>
       \E q \in Nat, m \in Nat :
         /\ m < COUNT \div bucket_size
         /\ genI = m * bucket_size
         /\ DOMAIN genFile = 0..(q * COUNT + genI - 1)

GenTypes ==
  /\ generator \in Generators \cup {"off"}
  /\ genI \in Nat
  /\ position \in [GenThreads -> Nat]
  /\ DOMAIN hashresults = Slots

GenInv ==
  /\ GenTypes
  /\ generator = "off" =>
       /\ genStage = "create" /\ genI = 0 /\ running = {}
       /\ genFile = [place \in {} |-> Empty]
  /\ generator # "off" => PartsInv /\ StageInv /\ FileInv

\* Names of threads.
LEMMA GenNames ==
  ASSUME NEW g \in Generators
  PROVE  /\ ThreadsOf(g) \subseteq GenThreads
         /\ \A t \in ThreadsOf(g) : t \in Nat
         /\ \A i \in Nat : i \notin ThreadsOf(g) => \A t \in ThreadsOf(g) : t < i
         /\ 0 \in ThreadsOf(g)
         /\ g = "hash4" => ThreadsOf(g) = {0}
<1>1. num_threads \in Nat \ {0}
  BY HashThreadsAssumption
<1> QED BY <1>1 DEF ThreadsOf, GenThreads

\* GenInv holds before a generator is started.
LEMMA GenInvInit == HashThreadsInit => GenInv
<1> SUFFICES ASSUME HashThreadsInit PROVE GenInv
  OBVIOUS
<1>1. GenTypes
  <2>1. position \in [GenThreads -> Nat]
    BY DEF HashThreadsInit
  <2> QED BY <2>1 DEF HashThreadsInit, GenTypes
<1> QED BY <1>1 DEF HashThreadsInit, GenInv, Generators

\* Nothing is filled and nothing written when a program starts.
LEMMA GenStarts ==
  ASSUME GenInv, NEW g \in Generators, GeneratorStart(g)
  PROVE  GenInv'
<1>1. /\ generator' = g /\ genStage' = "create" /\ genI' = 0 /\ running' = {}
      /\ genFile' = [place \in {} |-> Empty] /\ position' = position
      /\ DOMAIN hashresults' = Slots
  BY DEF GeneratorStart, GenInv
<1>2. g # "off"
  BY DEF Generators
<1>3. PartsInv'
  <2>1. \A t \in ThreadsOf(g) : ~(t < 0)
    BY GenNames
  <2> QED BY <1>1, <2>1 DEF PartsInv, Created
<1>4. StageInv'
  <2>1. ~(0 < 0)
    OBVIOUS
  <2> QED BY <1>1, <2>1 DEF StageInv, Created
<1>5. FileInv'
  BY <1>1 DEF FileInv
<1> QED BY <1>1, <1>2, <1>3, <1>4, <1>5 DEF GenInv, GenTypes

\* Main creates a thread at the start of its part.
LEMMA GenCreates ==
  ASSUME GenInv, CreateThread
  PROVE  GenInv'
<1>1. /\ generator \in Generators /\ generator # "off" /\ genStage = "create"
      /\ genI \in ThreadsOf(generator) /\ genI \in Nat
      /\ position' = [position EXCEPT ![genI] = PartStart(generator, genI)]
      /\ running' = running \cup {genI} /\ genI' = genI + 1
      /\ UNCHANGED <<generator, genStage, hashresults, genFile>>
  BY DEF CreateThread, GenInv, GenTypes
<1>2. PartsInv /\ StageInv /\ FileInv
  BY <1>1 DEF GenInv
<1>3. /\ PartStart(generator, genI) \in Nat
      /\ PartStart(generator, genI) <= PartEnd(generator, genI)
      /\ genI \in GenThreads
      /\ \A t \in ThreadsOf(generator) : t \in GenThreads /\ t \in Nat
  BY <1>1, Parts, GenNames
<1>4. \A t \in GenThreads :
        position'[t] = IF t = genI THEN PartStart(generator, genI) ELSE position[t]
  BY <1>1 DEF GenInv, GenTypes
<1>5. \A t \in ThreadsOf(generator) : Created(t)' => t = genI \/ t < genI
  BY <1>1, <1>3 DEF Created
<1>6. GenTypes'
  <2>1. position' \in [GenThreads -> Nat]
    BY <1>1, <1>3 DEF GenInv, GenTypes
  <2> QED BY <1>1, <2>1 DEF GenInv, GenTypes
<1>7. PartsInv'
  <2> SUFFICES ASSUME NEW t \in ThreadsOf(generator), Created(t)'
               PROVE  /\ PartStart(generator, t) <= position'[t]
                      /\ position'[t] <= PartEnd(generator, t)
                      /\ \A k \in Nat : PartStart(generator, t) <= k /\ k < position'[t]
                                        => hashresults[k] = k
                      /\ t \notin running' => position'[t] = PartEnd(generator, t)
    BY <1>1 DEF PartsInv
  <2>1. CASE t = genI
    <3>1. position'[t] = PartStart(generator, t)
      BY <1>3, <1>4, <2>1
    <3> QED BY <1>1, <1>3, <2>1, <3>1
  <2>2. CASE t # genI
    <3>1. Created(t)
      BY <1>5, <2>2 DEF Created
    <3> QED BY <1>1, <1>2, <1>3, <1>4, <2>2, <3>1 DEF PartsInv
  <2> QED BY <2>1, <2>2
<1>8. StageInv'
  <2>1. \A t \in running' : Created(t)'
    BY <1>1, <1>2, <1>3 DEF StageInv, Created
  <2>2. generator = "hash4" => genI = 0
    BY <1>1, GenNames
  <2> QED BY <1>1, <1>2, <2>1, <2>2 DEF StageInv
<1>9. FileInv'
  BY <1>1, <1>2 DEF FileInv
<1> QED BY <1>1, <1>6, <1>7, <1>8, <1>9 DEF GenInv

\* Main goes from one loop to the next, or joins a thread.
LEMMA GenJoins ==
  ASSUME GenInv, AllCreated \/ JoinThread \/ AllJoined \/ GeneratorEnds
  PROVE  GenInv'
<1>1. generator \in Generators /\ generator # "off"
  BY DEF AllCreated, JoinThread, AllJoined, GeneratorEnds, GenInv, GenTypes
<1>2. PartsInv /\ StageInv /\ FileInv /\ GenTypes
  BY <1>1 DEF GenInv
<1>3. /\ UNCHANGED <<generator, position, running, hashresults, genFile>>
      /\ genI' \in Nat
  BY <1>2 DEF AllCreated, JoinThread, AllJoined, GeneratorEnds, GenTypes
<1>4. GenTypes'
  BY <1>2, <1>3 DEF GenTypes
<1>5. \A t \in ThreadsOf(generator) : Created(t) /\ t \in Nat
  <2>1. AllCreated => \A t \in ThreadsOf(generator) : t < genI
    BY <1>1, <1>2, GenNames DEF AllCreated, GenTypes
  <2>2. JoinThread \/ AllJoined \/ GeneratorEnds => genStage # "create"
    BY DEF JoinThread, AllJoined, GeneratorEnds
  <2> QED BY <1>1, <2>1, <2>2, GenNames DEF Created
<1>6. PartsInv'
  <2>1. PartsInv' <=> PartsInv
    <3>1. \A t \in ThreadsOf(generator) : Created(t)'
      BY DEF Created, AllCreated, JoinThread, AllJoined, GeneratorEnds
    <3> QED BY <1>3, <1>5, <3>1 DEF PartsInv
  <2> QED BY <1>2, <2>1
<1>7. \A t \in running : Created(t)'
  BY DEF Created, AllCreated, JoinThread, AllJoined, GeneratorEnds
<1>8. generator = "hash4" => 0 \in ThreadsOf(generator) /\ (genStage # "done" => 0 \in running)
  BY <1>1, <1>2, <1>5, GenNames DEF StageInv
<1>9. CASE AllCreated
  <2>1. genStage = "create" /\ genStage' = "join" /\ genI' = 0
    BY <1>9 DEF AllCreated
  <2>2. StageInv'
    BY <1>2, <1>3, <1>5, <1>7, <1>8, <2>1 DEF StageInv
  <2>3. FileInv'
    BY <1>2, <1>3, <2>1 DEF FileInv
  <2> QED BY <1>1, <1>3, <1>4, <1>6, <2>2, <2>3 DEF GenInv
<1>10. CASE JoinThread
  <2>1. genStage = "join" /\ genStage' = "join" /\ genI \notin running /\ genI' = genI + 1
        /\ genI \in Nat
    BY <1>2, <1>10 DEF JoinThread, GenTypes
  <2>2. \A t \in ThreadsOf(generator) : t < genI + 1 => t < genI \/ t = genI
    BY <1>5, <2>1
  <2>3. StageInv'
    BY <1>2, <1>3, <1>7, <1>8, <2>1, <2>2 DEF StageInv
  <2>4. FileInv'
    BY <1>2, <1>3, <2>1 DEF FileInv
  <2> QED BY <1>1, <1>3, <1>4, <1>6, <2>3, <2>4 DEF GenInv
<1>11. CASE AllJoined
  <2>1. genStage = "join" /\ genStage' = "write" /\ genI' = 0
        /\ genI \notin ThreadsOf(generator) /\ genI \in Nat
    BY <1>2, <1>11 DEF AllJoined, GenTypes
  <2>2. running = {}
    BY <1>1, <1>2, <2>1, GenNames DEF StageInv
  <2>3. StageInv'
    BY <1>2, <1>3, <1>7, <1>8, <2>1, <2>2 DEF StageInv
  <2>4. FileInv'
    <3>1. genFile = [place \in {} |-> Empty]
      BY <1>2, <2>1 DEF StageInv
    <3>2. /\ 0 < COUNT \div bucket_size /\ 0 * bucket_size = 0
          /\ 0..(0 * COUNT + 0 - 1) = {}
      BY FirstBucket
    <3>3. DOMAIN genFile = 0..(0 * COUNT + genI' - 1) /\ genI' = 0 * bucket_size
      BY <2>1, <3>1, <3>2
    <3> QED BY <1>3, <3>1, <3>2, <3>3 DEF FileInv
  <2> QED BY <1>1, <1>3, <1>4, <1>6, <2>3, <2>4 DEF GenInv
<1>12. CASE GeneratorEnds
  <2>1. genStage = "write" /\ genStage' = "done" /\ genI' = genI
    BY <1>12 DEF GeneratorEnds
  <2>2. StageInv'
    BY <1>2, <1>3, <1>7, <1>8, <2>1 DEF StageInv
  <2>3. FileInv'
    BY <1>2, <1>3, <2>1 DEF FileInv
  <2> QED BY <1>1, <1>3, <1>4, <1>6, <2>2, <2>3 DEF GenInv
<1> QED BY <1>9, <1>10, <1>11, <1>12

\* A thread fills its next slot; nobody else's slots are lost by it.
LEMMA GenFills ==
  ASSUME GenInv, NEW t \in GenThreads, FillSlot(t)
  PROVE  GenInv'
<1>1. /\ t \in running /\ position[t] < PartEnd(generator, t)
      /\ hashresults' = [hashresults EXCEPT ![position[t]] = position[t]]
      /\ position' = [position EXCEPT ![t] = position[t] + 1]
      /\ UNCHANGED <<generator, genStage, genI, running, genFile>>
  BY DEF FillSlot
<1>2. generator # "off" /\ generator \in Generators
  BY <1>1 DEF GenInv, GenTypes
<1>3. PartsInv /\ StageInv /\ FileInv /\ GenTypes
  BY <1>2 DEF GenInv
<1>4. /\ t \in ThreadsOf(generator) /\ Created(t) /\ position[t] \in Nat
      /\ \A u \in ThreadsOf(generator) : u \in GenThreads
      /\ \A u \in ThreadsOf(generator) : PartEnd(generator, u) \in Nat
                                          /\ PartEnd(generator, u) <= COUNT
  BY <1>1, <1>2, <1>3, GenNames, Parts DEF StageInv, GenTypes
<1>5. \A u \in GenThreads : position'[u] = IF u = t THEN position[t] + 1 ELSE position[u]
  BY <1>1, <1>3 DEF GenTypes
<1>6. \A k \in Nat : k < COUNT =>
        hashresults'[k] = IF k = position[t] THEN k ELSE hashresults[k]
  <2>1. \A k \in Nat : k < COUNT => k \in DOMAIN hashresults
    BY <1>3, HashThreadsAssumption DEF GenTypes, Slots
  <2> QED BY <1>1, <2>1
<1>7. GenTypes'
  <2>1. position' \in [GenThreads -> Nat]
    BY <1>1, <1>3, <1>4 DEF GenTypes
  <2>2. DOMAIN hashresults' = Slots
    BY <1>1, <1>3 DEF GenTypes
  <2> QED BY <1>1, <1>3, <2>1, <2>2 DEF GenTypes
<1>8. PartsInv'
  <2> SUFFICES ASSUME NEW u \in ThreadsOf(generator), Created(u)
               PROVE  /\ PartStart(generator, u) <= position'[u]
                      /\ position'[u] <= PartEnd(generator, u)
                      /\ \A k \in Nat : PartStart(generator, u) <= k /\ k < position'[u]
                                        => hashresults'[k] = k
                      /\ u \notin running => position'[u] = PartEnd(generator, u)
    BY <1>1 DEF PartsInv, Created
  <2>1. /\ PartStart(generator, u) <= position[u]
        /\ position[u] <= PartEnd(generator, u)
        /\ \A k \in Nat : PartStart(generator, u) <= k /\ k < position[u] => hashresults[k] = k
        /\ u \notin running => position[u] = PartEnd(generator, u)
    BY <1>3 DEF PartsInv
  <2>2. PartStart(generator, u) \in Nat /\ position[u] \in Nat
    BY <1>2, <1>3, <1>4, Parts DEF GenTypes
  <2>3. position'[u] = IF u = t THEN position[t] + 1 ELSE position[u]
    BY <1>4, <1>5
  <2>4. /\ PartStart(generator, u) <= position'[u]
        /\ position'[u] <= PartEnd(generator, u)
        /\ u \notin running => position'[u] = PartEnd(generator, u)
    BY <1>1, <1>4, <2>1, <2>2, <2>3
  <2>5. ASSUME NEW k \in Nat, PartStart(generator, u) <= k, k < position'[u]
        PROVE  hashresults'[k] = k
    <3>1. k < COUNT
      <4>1. COUNT \in Nat /\ PartEnd(generator, u) \in Nat /\ PartEnd(generator, u) <= COUNT
        BY <1>4, HashThreadsAssumption
      <4>2. position'[u] \in Nat /\ position'[u] <= PartEnd(generator, u)
        BY <2>2, <2>3, <2>4, <1>4
      <4> QED BY <2>5, <4>1, <4>2
    <3>2. k < position[u] \/ k = position[t]
      BY <1>4, <2>2, <2>3, <2>5
    <3> QED BY <1>6, <2>1, <2>5, <3>1, <3>2
  <2> QED BY <2>4, <2>5
<1>9. StageInv'
  BY <1>1, <1>3 DEF StageInv, Created
<1>10. FileInv'
  BY <1>1, <1>3 DEF FileInv
<1> QED BY <1>1, <1>2, <1>7, <1>8, <1>9, <1>10 DEF GenInv

\* A thread ends where its part ends.
LEMMA GenThreadEnds ==
  ASSUME GenInv, NEW t \in GenThreads, ThreadEnds(t)
  PROVE  GenInv'
<1>1. /\ t \in running /\ position[t] >= PartEnd(generator, t)
      /\ running' = running \ {t}
      /\ genStage' = IF generator = "hash4" THEN "done" ELSE genStage
      /\ UNCHANGED <<generator, genI, position, hashresults, genFile>>
  BY DEF ThreadEnds
<1>2. generator # "off" /\ generator \in Generators
  BY <1>1 DEF GenInv, GenTypes
<1>3. PartsInv /\ StageInv /\ FileInv /\ GenTypes
  BY <1>2 DEF GenInv
<1>4. /\ t \in ThreadsOf(generator) /\ Created(t) /\ position[t] \in Nat
      /\ PartEnd(generator, t) \in Nat
  BY <1>1, <1>2, <1>3, Parts DEF StageInv, GenTypes
<1>5. \A u \in ThreadsOf(generator) : Created(u)' => Created(u)
  <2>1. generator = "hash4" => \A u \in ThreadsOf(generator) : u = t
    BY <1>2, <1>4, GenNames
  <2> QED BY <1>1, <1>4, <2>1 DEF Created
<1>6. GenTypes'
  BY <1>1, <1>3 DEF GenTypes
<1>7. PartsInv'
  <2>1. position[t] = PartEnd(generator, t)
    BY <1>1, <1>3, <1>4 DEF PartsInv
  <2> QED BY <1>1, <1>3, <1>5, <2>1 DEF PartsInv
<1>8. StageInv'
  <2>1. \A u \in running' : Created(u)'
    BY <1>1, <1>3 DEF StageInv, Created
  <2>2. genStage' = "done" => running' = {}
    <3>1. generator = "hash4" => ThreadsOf(generator) = {0}
      BY <1>2, GenNames
    <3> QED BY <1>1, <1>3, <1>4, <3>1 DEF StageInv
  <2>3. genStage' # "write" \/ running' = {}
    BY <1>1, <1>3 DEF StageInv
  <2>4. generator = "hash4" => genStage' = "done"
    BY <1>1
  <2>5. /\ running' \subseteq ThreadsOf(generator)
        /\ genStage' \in {"create", "join", "write", "done"}
        /\ genStage' = "join" => \A u \in ThreadsOf(generator) : u < genI => u \notin running'
        /\ genStage' \in {"create", "join"} => genFile = [place \in {} |-> Empty]
        /\ generator = "hash4" => genFile = [place \in {} |-> Empty]
    BY <1>1, <1>3 DEF StageInv
  <2> QED BY <1>1, <2>1, <2>2, <2>3, <2>4, <2>5 DEF StageInv
<1>9. FileInv'
  BY <1>1, <1>3 DEF FileInv
<1> QED BY <1>1, <1>2, <1>6, <1>7, <1>8, <1>9 DEF GenInv

\* The next bucket of the array is written behind the last one.
LEMMA GenWrites ==
  ASSUME GenInv, WriteSlots
  PROVE  GenInv'
<1> DEFINE W == Written
<1>1. /\ genStage = "write"
      /\ genFile' = [place \in 0..(W + bucket_size - 1) |->
                       IF place < W THEN genFile[place]
                       ELSE hashresults[genI + place - W]]
      /\ genI' = (genI + bucket_size) % COUNT
      /\ UNCHANGED <<generator, genStage, position, running, hashresults>>
  BY DEF WriteSlots
<1>2. generator # "off" /\ generator \in Generators
  BY <1>1 DEF GenInv, GenTypes
<1>3. PartsInv /\ StageInv /\ FileInv /\ GenTypes
  BY <1>2 DEF GenInv
<1>4. PICK q \in Nat, m \in Nat :
        /\ m < COUNT \div bucket_size
        /\ genI = m * bucket_size
        /\ DOMAIN genFile = 0..(q * COUNT + genI - 1)
  BY <1>1, <1>3 DEF FileInv
<1>5. COUNT \in Nat \ {0} /\ bucket_size \in Nat \ {0}
  BY HashThreadsAssumption
<1>6. /\ genI \in Nat /\ genI + bucket_size <= COUNT
      /\ \/ /\ m + 1 < COUNT \div bucket_size
            /\ genI' = (m + 1) * bucket_size
            /\ genI' = genI + bucket_size
         \/ genI + bucket_size = COUNT /\ genI' = 0
  <2>1. (m + 1) * bucket_size = m * bucket_size + bucket_size
    BY <1>5, Products
  <2> QED BY <1>1, <1>4, <2>1, NextBucket
<1>7. W = q * COUNT + genI /\ q * COUNT \in Nat /\ (q + 1) * COUNT = q * COUNT + COUNT
  <2>1. q * COUNT \in Nat /\ (q + 1) * COUNT = q * COUNT + COUNT
    BY <1>5, Products
  <2>2. Cardinality(0..(q * COUNT + genI - 1)) = q * COUNT + genI
    <3> HIDE DEF W
    <3> DEFINE b == q * COUNT + genI - 1
    <3>1. b \in Int /\ b + 1 = q * COUNT + genI /\ b + 1 >= 0
      BY <1>6, <2>1
    <3> HIDE DEF b
    <3>2. Cardinality(0..b) = IF 0 > b THEN 0 ELSE b - 0 + 1
      BY <3>1, FS_Interval
    <3>3. Cardinality(0..b) = b + 1
      BY <3>1, <3>2
    <3> QED BY <3>1, <3>3 DEF b
  <2>3. Written = Cardinality(DOMAIN genFile)
    BY DEF Written
  <2> QED BY <1>4, <2>1, <2>2, <2>3
<1> HIDE DEF W
<1>8. \A k \in 0..(COUNT - 1) : hashresults[k] = k
  <2> SUFFICES ASSUME NEW k \in 0..(COUNT - 1) PROVE hashresults[k] = k
    OBVIOUS
  <2>1. PICK t \in ThreadsOf(generator) :
          PartStart(generator, t) <= k /\ k < PartEnd(generator, t)
    BY <1>2, Parts
  <2>2. Created(t) /\ t \notin running
    BY <1>1, <1>3 DEF Created, StageInv
  <2>3. k \in Nat
    BY <1>5
  <2> QED BY <1>3, <2>1, <2>2, <2>3 DEF PartsInv
<1>9. \A place \in DOMAIN genFile' : genFile'[place] = place % COUNT
  <2> SUFFICES ASSUME NEW place \in 0..(W + bucket_size - 1)
               PROVE  genFile'[place] = place % COUNT
    BY <1>1
  <2>1. place \in Nat /\ W \in Nat /\ place < W + bucket_size
    BY <1>5, <1>6, <1>7
  <2>2. CASE place < W
    <3>1. place \in DOMAIN genFile
      BY <1>4, <1>6, <1>7, <2>1, <2>2
    <3>2. genFile'[place] = genFile[place]
      BY <1>1, <2>2
    <3> QED BY <1>3, <3>1, <3>2 DEF FileInv
  <2>3. CASE ~(place < W)
    <3> DEFINE k == genI + place - W
    <3>1. k \in 0..(COUNT - 1)
      BY <1>5, <1>6, <2>1, <2>3
    <3>2. place = q * COUNT + k
      BY <1>6, <1>7, <2>1
    <3>3. genFile'[place] = hashresults[k]
      BY <1>1, <2>3
    <3> HIDE DEF k
    <3>4. place % COUNT = k
      BY <1>5, <3>1, <3>2, RestOfSum
    <3> QED BY <1>8, <3>1, <3>3, <3>4
  <2> QED BY <2>2, <2>3
<1>10. \E r \in Nat, x \in Nat :
          /\ x < COUNT \div bucket_size
          /\ genI' = x * bucket_size
          /\ DOMAIN genFile' = 0..(r * COUNT + genI' - 1)
  <2>1. DOMAIN genFile' = 0..(W + bucket_size - 1)
    BY <1>1
  <2>2. CASE m + 1 < COUNT \div bucket_size /\ genI' = (m + 1) * bucket_size
             /\ genI' = genI + bucket_size
    <3>1. W + bucket_size - 1 = q * COUNT + genI' - 1
      BY <1>5, <1>6, <1>7, <2>2
    <3>2. DOMAIN genFile' = 0..(q * COUNT + genI' - 1)
      BY <2>1, <3>1
    <3>3. m + 1 \in Nat
      OBVIOUS
    <3> QED BY <2>2, <3>2, <3>3
  <2>3. CASE genI + bucket_size = COUNT /\ genI' = 0
    <3>1. W + bucket_size - 1 = (q + 1) * COUNT + genI' - 1
      BY <1>5, <1>6, <1>7, <2>3
    <3>2. DOMAIN genFile' = 0..((q + 1) * COUNT + genI' - 1)
      BY <2>1, <3>1
    <3>3. q + 1 \in Nat
      OBVIOUS
    <3>4. 0 < COUNT \div bucket_size /\ genI' = 0 * bucket_size
      BY <2>3, FirstBucket
    <3> QED BY <3>2, <3>3, <3>4
  <2> QED BY <1>6, <2>2, <2>3
<1>11. GenTypes'
  <2>1. genI' \in Nat
    BY <1>1, <1>5, <1>6
  <2> QED BY <1>1, <1>3, <2>1 DEF GenTypes
<1>12. PartsInv' /\ StageInv'
  <2>1. genStage # "create" /\ genStage' # "create"
    BY <1>1
  <2>2. PartsInv'
    BY <1>1, <1>3, <2>1 DEF PartsInv, Created
  <2>3. generator # "hash4"
    BY <1>1, <1>3 DEF StageInv
  <2>4. StageInv'
    BY <1>1, <1>3, <2>1, <2>3 DEF StageInv, Created
  <2> QED BY <2>2, <2>4
<1> QED BY <1>1, <1>2, <1>9, <1>10, <1>11, <1>12 DEF GenInv, FileInv

\* Every step of the generators keeps GenInv.
LEMMA GenStep == GenInv /\ [HashThreadsNext]_genVars => GenInv'
<1> SUFFICES ASSUME GenInv, [HashThreadsNext]_genVars PROVE GenInv'
  OBVIOUS
<1>1. CASE UNCHANGED genVars
  BY <1>1 DEF genVars, GenInv, GenTypes, PartsInv, StageInv, FileInv, Created
<1> QED BY <1>1, GenStarts, GenCreates, GenJoins, GenFills, GenThreadEnds, GenWrites
        DEF HashThreadsNext

\* Every generator that writes its array writes what its threads have filled,
\* slot after slot, however many threads share it and in whatever pieces.
THEOREM FilesAreOfHashes == ToolsSpec => []FileIsFilled
<1>1. ToolsInit => GenInv
  BY GenInvInit DEF ToolsInit
<1>2. GenInv /\ [ToolsNext]_toolsVars => GenInv'
  <2>1. UNCHANGED toolsVars => UNCHANGED genVars
    BY DEF toolsVars, genVars
  <2>2. ToolsNext => [HashThreadsNext]_genVars
    BY DEF ToolsNext, TreeRuns, BlockSortRuns, HashThreadsRun, ProofOfWorkRuns,
           SortParallelRuns, genVars
  <2> QED BY <2>1, <2>2, GenStep
<1>3. GenInv => FileIsFilled
  BY DEF GenInv, FileInv, StageInv, FileIsFilled
<1> QED BY <1>1, <1>2, <1>3, PTL DEF ToolsSpec

-----------------------------------------------------------------------------
(* block_sort.c                                                            *)

\* A nonempty set of natural numbers has a smallest one.
LEMMA FirstPlace ==
  ASSUME NEW T \in SUBSET Nat, T # {}
  PROVE  \E x \in T : \A y \in T : x <= y
<1>1. PICK x \in T : \A y \in T : ~(<<y, x>> \in OpToRel(<, Nat))
  BY NatLessThanWellFounded, WFMin
<1>2. \A y \in T : y < x => <<y, x>> \in OpToRel(<, Nat)
  BY DEF OpToRel
<1>3. \A y \in T : x <= y
  <2> TAKE y \in T
  <2>1. ~(y < x)
    BY <1>1, <1>2
  <2> QED BY <2>1
<1> QED BY <1>3

\* The rows lie in the file one behind the other, and a row has as many
\* numbers as its size says, the last one included.
RowsInv ==
  /\ bsSum \in 0..targetSum
  /\ bsArray \in Seq(Nat) /\ bsStart \in Seq(Nat) /\ Len(bsStart) = Len(bsArray)
  /\ \A row \in 1..Len(bsArray) : bsStart[row] + bsArray[row] <= bsSum
  /\ bsValues \in [1..targetSum -> Int] /\ bsCount \in Nat
  /\ bsStage \in {"off", "rows"} => Len(bsArray) < sortRows
  /\ bsStage \in {"shuffle", "swap"} => Len(bsArray) = sortRows
  /\ bsStage = "shuffle" => bsStart[sortRows] + bsArray[sortRows] = targetSum
  /\ bsStage = "swap" => \A row \in 1..sortRows : DOMAIN bsIndex[row] = 1..bsArray[row]

\* Blocks are written to places of the file.
MovesInv ==
  /\ bsFile \in [BlockPlaces -> BlockPlaces]
  /\ bsBuffer \in BlockPlaces \cup {NoPlace}
  /\ bsPlace \in BlockPlaces \cup {NoPlace}
  /\ bsBuffer = NoPlace => bsFile = [b \in BlockPlaces |-> b]
  /\ BlocksKept

BsInv == RowsInv /\ MovesInv

PlacesOf(f, b) == {p \in BlockPlaces : f[p] = b}

Once(x, b) == IF x = b THEN 1 ELSE 0

\* The places of the file are finitely many.
LEMMA PlacesFinite ==
  ASSUME NEW f, NEW b
  PROVE  IsFiniteSet(BlockPlaces) /\ IsFiniteSet(PlacesOf(f, b)) /\ Cardinality(PlacesOf(f, b)) \in Nat
<1>1. 0 \in Int /\ targetSum - 1 \in Int
  BY BlockSortAssumption
<1>2. IsFiniteSet(BlockPlaces)
  BY <1>1, FS_Interval DEF BlockPlaces
<1>3. PlacesOf(f, b) \in SUBSET BlockPlaces
  BY DEF PlacesOf
<1>4. IsFiniteSet(PlacesOf(f, b))
  BY <1>2, <1>3, FS_Subset
<1> QED BY <1>2, <1>4, FS_CardinalityType

\* One block for another: what a block gains another loses.
LEMMA Exchanged ==
  ASSUME bsFile \in [BlockPlaces -> BlockPlaces], NEW place \in BlockPlaces, NEW b,
         SwapBlocks(place)
  PROVE  Cardinality(PlacesOf(bsFile, b)') + Once(bsBuffer', b)
           = Cardinality(PlacesOf(bsFile, b)) + Once(bsBuffer, b)
<1> DEFINE R == PlacesOf(bsFile, b) \ {place}
<1>1. IsFiniteSet(R) /\ Cardinality(R) \in Nat
  <2>1. IsFiniteSet(R)
    BY PlacesFinite, FS_RemoveElement
  <2> HIDE DEF R
  <2> QED BY <2>1, FS_CardinalityType
<1>2. Cardinality(R \cup {place}) = Cardinality(R) + 1
  <2>1. place \notin R
    OBVIOUS
  <2> HIDE DEF R
  <2> QED BY <1>1, <2>1, FS_AddElement
<1>3. PlacesOf(bsFile, b) = IF bsBuffer' = b THEN R \cup {place} ELSE R
  BY DEF PlacesOf, SwapBlocks
<1>4. PlacesOf(bsFile, b)' = IF bsBuffer = b THEN R \cup {place} ELSE R
  BY DEF PlacesOf, SwapBlocks
<1>5. Cardinality(PlacesOf(bsFile, b)) = Cardinality(R) + Once(bsBuffer', b)
  <2> HIDE DEF R
  <2> QED BY <1>1, <1>2, <1>3 DEF Once
<1>6. Cardinality(PlacesOf(bsFile, b)') = Cardinality(R) + Once(bsBuffer, b)
  <2> HIDE DEF R
  <2> QED BY <1>1, <1>2, <1>4 DEF Once
<1>7. Once(bsBuffer, b) \in Nat /\ Once(bsBuffer', b) \in Nat
  BY DEF Once
<1> HIDE DEF R
<1> QED BY <1>1, <1>5, <1>6, <1>7

\* The blocks that are kept, without the local definition.
LEMMA KeptIs ==
  BlocksKept <=>
    (bsBuffer # NoPlace =>
       \A b \in BlockPlaces :
         Cardinality(PlacesOf(bsFile, b)) + (IF bsBuffer = b THEN 1 ELSE 0)
           = IF b = 0 THEN 2 ELSE 1)
BY DEF BlocksKept, PlacesOf

\* A place that is looked up is one of the file.
LEMMA PlaceInFile ==
  ASSUME BsInv, bsStage = "swap", NEW number, NEW place \in LookUp(number)
  PROVE  place \in BlockPlaces
<1>1. \A row \in 1..sortRows :
        /\ bsStart[row] \in Nat /\ bsArray[row] \in Nat
        /\ bsStart[row] + bsArray[row] <= targetSum
        /\ DOMAIN bsIndex[row] = 1..bsArray[row]
  <2> TAKE row \in 1..sortRows
  <2>1. row \in 1..Len(bsArray) /\ row \in 1..Len(bsStart)
    BY DEF BsInv, RowsInv
  <2>2. bsStart[row] \in Nat /\ bsArray[row] \in Nat /\ bsSum <= targetSum /\ bsSum \in Nat
        /\ targetSum \in Nat /\ bsStart[row] + bsArray[row] <= bsSum
    BY <2>1, BlockSortAssumption DEF BsInv, RowsInv
  <2> QED BY <2>2 DEF BsInv, RowsInv
<1>2. FoundPlaces(number) \subseteq BlockPlaces
  <2> SUFFICES ASSUME NEW row \in 1..sortRows, NEW x \in DOMAIN bsIndex[row]
               PROVE  bsStart[row] + x - 1 \in BlockPlaces
    BY DEF FoundPlaces
  <2>1. targetSum \in Nat
    BY BlockSortAssumption
  <2> QED BY <1>1, <2>1 DEF BlockPlaces
<1>3. CASE FoundPlaces(number) # {}
  <2>1. FoundPlaces(number) \in SUBSET Nat
    BY <1>2 DEF BlockPlaces
  <2>2. \E x \in FoundPlaces(number) : \A y \in FoundPlaces(number) : x <= y
    BY <1>3, <2>1, FirstPlace
  <2>3. place \in FoundPlaces(number)
    BY <1>3, <2>2 DEF LookUp
  <2> QED BY <1>2, <2>3
<1>4. CASE FoundPlaces(number) = {}
  BY <1>4 DEF LookUp, BsInv, MovesInv
<1> QED BY <1>3, <1>4

\* The rows are made up and sorted.
LEMMA RowsStep == BsInv /\ BlockSortNext => RowsInv'
<1> SUFFICES ASSUME BsInv, BlockSortNext PROVE RowsInv'
  OBVIOUS
<1> USE DEF BsInv
<1>1. targetSum \in Nat /\ sortRows \in Nat \ {0} /\ bsSum \in Nat /\ bsSum <= targetSum
      /\ Len(bsArray) \in Nat
  BY BlockSortAssumption DEF RowsInv
<1>2. ASSUME NEW size \in Nat, AddRow(size), bsSum + size <= targetSum
      PROVE  /\ bsSum' \in 0..targetSum
             /\ bsArray' \in Seq(Nat) /\ bsStart' \in Seq(Nat)
             /\ Len(bsStart') = Len(bsArray') /\ Len(bsArray') = Len(bsArray) + 1
             /\ \A row \in 1..Len(bsArray') : bsStart'[row] + bsArray'[row] <= bsSum'
             /\ bsStart'[Len(bsArray) + 1] + bsArray'[Len(bsArray) + 1] = bsSum'
  <2>1. /\ bsArray' = Append(bsArray, size) /\ bsStart' = Append(bsStart, bsSum)
        /\ bsSum' = bsSum + size
    BY <1>2 DEF AddRow
  <2>2. /\ bsArray \in Seq(Nat) /\ bsStart \in Seq(Nat) /\ Len(bsStart) = Len(bsArray)
    BY DEF RowsInv
  <2>3. /\ bsSum' \in 0..targetSum
        /\ bsArray' \in Seq(Nat) /\ bsStart' \in Seq(Nat)
        /\ Len(bsStart') = Len(bsArray') /\ Len(bsArray') = Len(bsArray) + 1
    BY <1>1, <1>2, <2>1, <2>2
  <2>4. bsStart'[Len(bsArray) + 1] = bsSum /\ bsArray'[Len(bsArray) + 1] = size
    BY <1>1, <2>1, <2>2
  <2>5. ASSUME NEW row \in 1..Len(bsArray)
        PROVE  bsStart'[row] + bsArray'[row] <= bsSum'
    <3>1. bsStart'[row] = bsStart[row] /\ bsArray'[row] = bsArray[row]
      BY <2>1, <2>2
    <3>2. bsStart[row] + bsArray[row] <= bsSum
      BY DEF RowsInv
    <3>3. bsStart[row] \in Nat /\ bsArray[row] \in Nat
      BY <2>2
    <3> QED BY <1>1, <2>1, <3>1, <3>2, <3>3
  <2>6. \A row \in 1..Len(bsArray') : row \in 1..Len(bsArray) \/ row = Len(bsArray) + 1
    BY <1>1, <2>3
  <2>7. bsStart'[Len(bsArray) + 1] + bsArray'[Len(bsArray) + 1] = bsSum'
    BY <1>1, <2>1, <2>4
  <2>8. \A row \in 1..Len(bsArray') : bsStart'[row] + bsArray'[row] <= bsSum'
    <3> TAKE row \in 1..Len(bsArray')
    <3>1. bsSum' \in Nat
      BY <2>3
    <3>2. CASE row = Len(bsArray) + 1
      BY <2>7, <3>1, <3>2
    <3> QED BY <2>5, <2>6, <3>2
  <2> QED BY <2>3, <2>7, <2>8
<1>3. CASE BlockSortStart
  BY <1>3 DEF BlockSortStart, RowsInv
<1>10. bsCount' \in Nat
  <2>1. bsCount \in Nat
    BY DEF RowsInv
  <2>2. bsCount' \in {0, bsCount, bsCount + 1}
    BY DEF BlockSortNext, BlockSortStart, ChooseRow, ChooseLastRow, ShuffleValue, FillRows,
           ReadFirst, MoveBlock, MoveCrashes, SwappingEnds
  <2> QED BY <2>1, <2>2
<1>4. ASSUME NEW value \in 0..upperBound, ChooseRow(value)
      PROVE  RowsInv'
  <2> DEFINE size == IF bsSum + value <= targetSum THEN value ELSE 0
  <2>1. /\ bsStage = "rows" /\ bsStage' = "rows" /\ Len(bsArray) < sortRows - 1
        /\ AddRow(size) /\ bsValues' = bsValues
    BY <1>4 DEF ChooseRow
  <2>2. size \in Nat /\ bsSum + size <= targetSum
    BY <1>1, BlockSortAssumption
  <2> HIDE DEF size
  <2>3. Len(bsArray) + 1 < sortRows
    BY <1>1, <2>1
  <2> QED BY <1>10, <1>2, <2>1, <2>2, <2>3 DEF RowsInv
<1>5. CASE ChooseLastRow
  <2> DEFINE size == targetSum - bsSum
  <2>1. /\ bsStage = "rows" /\ bsStage' = "shuffle" /\ Len(bsArray) = sortRows - 1
        /\ AddRow(size) /\ bsValues' = bsValues
    BY <1>5 DEF ChooseLastRow
  <2>2. size \in Nat /\ bsSum + size = targetSum /\ bsSum + size <= targetSum
    BY <1>1
  <2> HIDE DEF size
  <2>3. Len(bsArray) + 1 = sortRows
    BY <1>1, <2>1
  <2>4. bsSum' = targetSum
    BY <2>1, <2>2 DEF AddRow
  <2> QED BY <1>10, <1>2, <2>1, <2>2, <2>3, <2>4 DEF RowsInv
<1>6. ASSUME NEW x \in 1..targetSum, ShuffleValue(x)
      PROVE  RowsInv'
  <2>1. /\ UNCHANGED <<bsStage, bsArray, bsSum, bsStart, bsIndex>> /\ bsCount < targetSum
        /\ bsValues' = [bsValues EXCEPT ![bsCount + 1] = bsValues[x],
                                        ![x] = bsValues[bsCount + 1]]
        /\ bsStage = "shuffle"
    BY <1>6 DEF ShuffleValue
  <2>2. bsValues \in [1..targetSum -> Int]
    BY DEF RowsInv
  <2>3. bsValues' \in [1..targetSum -> Int]
    <3>1. bsCount + 1 \in 1..targetSum
      BY <1>1, <2>1 DEF RowsInv
    <3> QED BY <2>1, <2>2, <3>1
  <2> QED BY <1>10, <2>1, <2>3 DEF RowsInv
<1>7. ASSUME NEW garbage \in [1..targetSum -> RowGarbage],
             FillRows(SubSeq(garbage, 1, targetSum - bsStart[sortRows]))
      PROVE  RowsInv'
  <2> DEFINE last == SubSeq(garbage, 1, targetSum - bsStart[sortRows])
             list(row) == IF row = sortRows THEN last
                          ELSE SubSeq(bsValues, bsStart[row] + 1, bsStart[row] + bsArray[row])
  <2>1. /\ bsStage = "shuffle" /\ bsStage' = "swap"
        /\ UNCHANGED <<bsArray, bsSum, bsStart, bsValues>>
        /\ bsIndex' = [row \in 1..sortRows |-> bubbleSort(list(row))]
    BY <1>7 DEF FillRows
  <2>2. \A row \in 1..sortRows : bsStart[row] \in Nat /\ bsArray[row] \in Nat
                                 /\ bsStart[row] + bsArray[row] <= targetSum
    <3> TAKE row \in 1..sortRows
    <3>1. row \in 1..Len(bsArray) /\ row \in 1..Len(bsStart)
      BY <2>1 DEF RowsInv
    <3>2. bsStart[row] \in Nat /\ bsArray[row] \in Nat /\ bsStart[row] + bsArray[row] <= bsSum
      BY <3>1 DEF RowsInv
    <3> QED BY <1>1, <3>2
  <2>3. ASSUME NEW row \in 1..sortRows
        PROVE  DOMAIN list(row) = 1..bsArray[row]
    <3> DEFINE s == bsStart[row]
               n == bsArray[row]
    <3>1. s \in Nat /\ n \in Nat /\ s + n <= targetSum
      BY <2>2
    <3>2. CASE row = sortRows
      <4>1. garbage \in Seq(RowGarbage) /\ Len(garbage) = targetSum
        BY <1>1
      <4>2. targetSum - s = n
        BY <1>1, <2>1, <3>1, <3>2 DEF RowsInv
      <4> HIDE DEF s, n
      <4>3. n <= targetSum
        BY <1>1, <3>1
      <4>4. DOMAIN SubSeq(garbage, 1, n) = 1..n
        BY <1>1, <3>1, <4>1, <4>3
      <4> QED BY <3>2, <4>2, <4>4 DEF s, n
    <3>3. CASE row # sortRows
      <4>1. bsValues \in Seq(Int) /\ Len(bsValues) = targetSum
        BY <1>1 DEF RowsInv
      <4> HIDE DEF s, n
      <4>2. DOMAIN SubSeq(bsValues, s + 1, s + n) = 1..n
        BY <1>1, <3>1, <4>1
      <4> QED BY <3>3, <4>2 DEF s, n
    <3> QED BY <3>2, <3>3
  <2> HIDE DEF list
  <2>4. \A row \in 1..sortRows : DOMAIN bsIndex'[row] = 1..bsArray'[row]
    BY <2>1, <2>3 DEF bubbleSort
  <2> QED BY <1>10, <2>1, <2>4 DEF RowsInv
<1>8. CASE ReadFirst \/ MoveBlock
  <2>1. /\ UNCHANGED <<bsStage, bsArray, bsSum, bsStart, bsValues, bsIndex>>
    BY <1>8 DEF ReadFirst, MoveBlock
  <2> QED BY <1>10, <2>1 DEF RowsInv
<1>9. CASE MoveCrashes \/ SwappingEnds
  <2>1. /\ UNCHANGED <<bsArray, bsSum, bsStart, bsValues>> /\ bsStage' \in {"crashed", "done"}
    BY <1>9 DEF MoveCrashes, SwappingEnds
  <2> QED BY <1>10, <2>1 DEF RowsInv
<1> QED BY <1>3, <1>4, <1>5, <1>6, <1>7, <1>8, <1>9 DEF BlockSortNext

\* A round of the loop exchanges two blocks.
LEMMA MovesStep == BsInv /\ BlockSortNext => MovesInv'
<1> SUFFICES ASSUME BsInv, BlockSortNext PROVE MovesInv'
  OBVIOUS
<1>1. /\ bsFile \in [BlockPlaces -> BlockPlaces] /\ bsBuffer \in BlockPlaces \cup {NoPlace}
      /\ bsPlace \in BlockPlaces \cup {NoPlace} /\ targetSum \in Nat
      /\ \A b \in BlockPlaces : b # NoPlace
  BY BlockSortAssumption DEF BsInv, MovesInv, BlockPlaces, NoPlace
<1>2. CASE ReadFirst
  <2>1. /\ bsBuffer = NoPlace /\ targetSum > 0 /\ bsBuffer' = bsFile[0]
        /\ bsFile' = bsFile /\ bsPlace' = bsPlace
    BY <1>2 DEF ReadFirst
  <2>2. bsFile = [b \in BlockPlaces |-> b]
    BY <2>1 DEF BsInv, MovesInv
  <2>3. 0 \in BlockPlaces
    BY <1>1, <2>1 DEF BlockPlaces
  <2>4. bsBuffer' = 0
    BY <2>1, <2>2, <2>3
  <2>5. ASSUME NEW b \in BlockPlaces
        PROVE  Cardinality(PlacesOf(bsFile, b)) = 1
    <3>1. PlacesOf(bsFile, b) = {b}
      BY <2>2 DEF PlacesOf
    <3> QED BY <3>1, FS_Singleton
  <2>6. \A b \in BlockPlaces : PlacesOf(bsFile, b)' = PlacesOf(bsFile, b)
    BY <2>1 DEF PlacesOf
  <2>7. \A b \in BlockPlaces :
          Cardinality(PlacesOf(bsFile, b)') + (IF bsBuffer' = b THEN 1 ELSE 0)
            = IF b = 0 THEN 2 ELSE 1
    BY <2>4, <2>5, <2>6
  <2>8. BlocksKept'
    BY <2>7 DEF BlocksKept, PlacesOf
  <2> QED BY <1>1, <2>1, <2>3, <2>4, <2>8 DEF MovesInv
<1>3. CASE MoveBlock
  <2>1. PICK place \in LookUp(bsCursor) :
          /\ bsFile' = [bsFile EXCEPT ![place] = bsBuffer]
          /\ bsBuffer' = bsFile[place]
          /\ bsPlace' = place
    BY <1>3 DEF MoveBlock, SwapBlocks
  <2>2. bsStage = "swap" /\ bsBuffer # NoPlace
    BY <1>3 DEF MoveBlock
  <2>3. place \in BlockPlaces
    BY <2>1, <2>2, PlaceInFile
  <2>4. bsBuffer \in BlockPlaces /\ bsFile[place] \in BlockPlaces
    BY <1>1, <2>2, <2>3
  <2>5. bsFile' \in [BlockPlaces -> BlockPlaces] /\ bsBuffer' \in BlockPlaces
    BY <1>1, <2>1, <2>4
  <2>6. ASSUME NEW b \in BlockPlaces
        PROVE  Cardinality(PlacesOf(bsFile, b)') + (IF bsBuffer' = b THEN 1 ELSE 0)
                 = IF b = 0 THEN 2 ELSE 1
    <3>1. Cardinality(PlacesOf(bsFile, b)') + Once(bsBuffer', b)
            = Cardinality(PlacesOf(bsFile, b)) + Once(bsBuffer, b)
      BY <1>1, <2>1, <2>3, Exchanged DEF SwapBlocks
    <3>2. Cardinality(PlacesOf(bsFile, b)) + Once(bsBuffer, b) = IF b = 0 THEN 2 ELSE 1
      BY <2>2, KeptIs DEF BsInv, MovesInv, Once
    <3> QED BY <3>1, <3>2 DEF Once
  <2>7. BlocksKept'
    BY <2>6 DEF BlocksKept, PlacesOf
  <2> QED BY <1>1, <2>1, <2>3, <2>5, <2>7 DEF MovesInv
<1>4. CASE UNCHANGED <<bsFile, bsBuffer, bsPlace>>
  BY <1>4 DEF BsInv, MovesInv, BlocksKept
<1> QED BY <1>2, <1>3, <1>4 DEF BlockSortNext, BlockSortStart, ChooseRow, ChooseLastRow,
           ShuffleValue, FillRows, MoveCrashes, SwappingEnds

\* At the start there are no rows, and every block is at its place.
LEMMA BsInvInit == BlockSortInit => BsInv
<1> SUFFICES ASSUME BlockSortInit PROVE BsInv
  OBVIOUS
<1>1. targetSum \in Nat /\ sortRows \in Nat \ {0}
  BY BlockSortAssumption
<1>2. RowsInv
  BY <1>1 DEF BlockSortInit, RowsInv
<1>3. MovesInv
  BY DEF BlockSortInit, MovesInv, BlocksKept
<1> QED BY <1>2, <1>3 DEF BsInv

\* Although the cursor is set back to another block than the one carried and
\* an index may be used before it is set, every block is still there, in the
\* file or in the buffer, and only the first one twice (BlockSort!BlocksKept).
THEOREM NoBlockLost == ToolsSpec => []BlocksKept
<1>1. ToolsInit => BsInv
  BY BsInvInit DEF ToolsInit
<1>2. BsInv /\ [ToolsNext]_toolsVars => BsInv'
  <2> SUFFICES ASSUME BsInv, [ToolsNext]_toolsVars PROVE BsInv'
    OBVIOUS
  <2>1. CASE BlockSortNext
    BY <2>1, RowsStep, MovesStep DEF BsInv
  <2>2. CASE UNCHANGED bsVars
    BY <2>2 DEF bsVars, BsInv, RowsInv, MovesInv, BlocksKept
  <2> QED BY <2>1, <2>2 DEF ToolsNext, TreeRuns, BlockSortRuns, HashThreadsRun,
                            ProofOfWorkRuns, SortParallelRuns, toolsVars
<1>3. BsInv => BlocksKept
  BY DEF BsInv, MovesInv
<1> QED BY <1>1, <1>2, <1>3, PTL DEF ToolsSpec

-----------------------------------------------------------------------------
(* generate_hash_tree.c and generate_hash_tree_test.c                      *)

TreeStages == {"off", "generate", "generate_test", "offsets", "done"}

TreeTypes ==
  /\ treeStage \in TreeStages
  /\ drawn \in Seq(Leaves)
  /\ treeFile \in Seq(Seq(Nat))
  /\ treeStage = "off" => drawn = <<>> /\ treeFile = <<>>
  /\ treeStage # "off" =>
       tree \in [Leaves -> [hash_block : Seq(Nat), block_index : Seq(Int)]]

\* Every step of the generators keeps their types and what is in the blocks.
TreeInv == TreeTypes /\ BlocksAreFilled

\* The constants of the programs.
LEMMA TreeSizes ==
  /\ MAX_CHILDREN \in Nat /\ MAX_CHILDREN >= 1
  /\ BLOCK_SIZE \in Nat /\ BLOCK_SIZE >= 1
BY HashTreeAssumption

\* An increasing sequence has as many members as places.
LEMMA IncreasingCounts ==
  ASSUME NEW s \in Seq(Nat), Increasing(s)
  PROVE  IsFiniteSet(Range(s)) /\ Cardinality(Range(s)) = Len(s)
<1> DEFINE n == Len(s)
<1>1. n \in Nat /\ s \in [1..n -> Nat] /\ DOMAIN s = 1..n
  OBVIOUS
<1>2. s \in Bijection(1..n, Range(s))
  <2>1. s \in [1..n -> Range(s)]
    BY <1>1 DEF Range
  <2>2. \A x, y \in 1..n : s[x] = s[y] => x = y
    <3> SUFFICES ASSUME NEW x \in 1..n, NEW y \in 1..n, s[x] = s[y], x # y
                 PROVE  FALSE
      OBVIOUS
    <3>1. x < y \/ y < x
      BY <1>1
    <3>2. s[x] < s[y] \/ s[y] < s[x]
      BY <1>1, <3>1 DEF Increasing
    <3>3. s[x] \in Nat /\ s[y] \in Nat
      BY <1>1
    <3> QED BY <3>2, <3>3
  <2>3. \A v \in Range(s) : \E x \in 1..n : s[x] = v
    BY <1>1 DEF Range
  <2> QED BY <2>1, <2>2, <2>3 DEF Bijection, Injection, Surjection, IsInjective
<1>3. ExistsBijection(1..n, Range(s))
  BY <1>2 DEF ExistsBijection
<1>4. IsFiniteSet(1..n)
  BY <1>1, FS_Interval
<1> QED BY <1>1, <1>3, <1>4, FS_Bijection, FS_CountingElements

\* A larger value at the end of an increasing sequence.
LEMMA IncreasingGrows ==
  ASSUME NEW s \in Seq(Nat), Increasing(s), NEW k \in Nat,
         \A v \in Range(s) : v < k
  PROVE  /\ Append(s, k) \in Seq(Nat)
         /\ Increasing(Append(s, k))
         /\ Range(Append(s, k)) = Range(s) \cup {k}
         /\ Len(Append(s, k)) = Len(s) + 1
<1> DEFINE n == Len(s)
           t == Append(s, k)
<1>1. n \in Nat /\ DOMAIN s = 1..n /\ \A x \in 1..n : s[x] \in Nat
  OBVIOUS
<1>2. t \in Seq(Nat) /\ Len(t) = n + 1 /\ DOMAIN t = 1..(n + 1) /\ t[n + 1] = k
  OBVIOUS
<1>3. \A x \in 1..n : t[x] = s[x]
  OBVIOUS
<1> HIDE DEF t
<1>4. Increasing(t)
  <2> SUFFICES ASSUME NEW x \in 1..(n + 1), NEW y \in 1..(n + 1), x < y
               PROVE  t[x] < t[y]
    BY <1>2 DEF Increasing
  <2>1. x \in 1..n
    BY <1>1
  <2>2. CASE y = n + 1
    <3>1. s[x] \in Range(s)
      BY <1>1, <2>1 DEF Range
    <3> QED BY <1>2, <1>3, <2>1, <2>2, <3>1
  <2>3. CASE y # n + 1
    <3>1. y \in 1..n
      BY <1>1, <2>3
    <3>2. s[x] < s[y]
      BY <1>1, <2>1, <3>1 DEF Increasing
    <3> QED BY <1>3, <2>1, <3>1, <3>2
  <2> QED BY <2>2, <2>3
<1>5. Range(t) = Range(s) \cup {k}
  <2>1. ASSUME NEW v \in Range(t) PROVE v \in Range(s) \cup {k}
    <3>1. PICK x \in 1..(n + 1) : v = t[x]
      BY <1>2 DEF Range
    <3>2. CASE x = n + 1
      BY <1>2, <3>1, <3>2
    <3>3. CASE x # n + 1
      <4>1. x \in 1..n
        BY <1>1, <3>3
      <4> QED BY <1>1, <1>3, <3>1, <4>1 DEF Range
    <3> QED BY <3>2, <3>3
  <2>2. ASSUME NEW v \in Range(s) PROVE v \in Range(t)
    <3>1. PICK x \in 1..n : v = s[x]
      BY <1>1 DEF Range
    <3>2. x \in 1..(n + 1)
      BY <1>1
    <3> QED BY <1>2, <1>3, <3>1, <3>2 DEF Range
  <2>3. k \in Range(t)
    <3>1. n + 1 \in 1..(n + 1)
      BY <1>1
    <3> QED BY <1>2, <3>1 DEF Range
  <2> QED BY <2>1, <2>2, <2>3
<1> QED BY <1>2, <1>4, <1>5 DEF t

\* What is known of a block of the file.
LEMMA BlockIs ==
  ASSUME TreeInv, treeStage # "off", NEW b \in 0..(Len(treeFile) - 1)
  PROVE  /\ FileBlock(b) \in Seq(Nat) /\ Len(FileBlock(b)) = BLOCK_SIZE
         /\ Increasing(FileBlock(b))
         /\ FileBlock(b)[1] \in Range(FileBlock(b))
         /\ FileBlock(b)[BLOCK_SIZE] \in Range(FileBlock(b))
         /\ \A k \in Range(FileBlock(b)) :
              /\ k \in 1..Len(drawn) /\ drawn[k] = drawn[FileBlock(b)[1]]
              /\ FileBlock(b)[1] <= k /\ k <= FileBlock(b)[BLOCK_SIZE]
<1> DEFINE s == FileBlock(b)
<1>1. b + 1 \in 1..Len(treeFile)
  BY DEF TreeInv, TreeTypes
<1>2. s \in Seq(Nat)
  BY <1>1 DEF TreeInv, TreeTypes, FileBlock
<1>3. Len(s) = BLOCK_SIZE /\ Increasing(s)
  BY DEF TreeInv, BlocksAreFilled
<1>4. \A k \in Range(s) : k \in 1..Len(drawn) /\ drawn[k] = drawn[s[1]]
  BY DEF TreeInv, BlocksAreFilled
<1> HIDE DEF s
<1>5. 1 \in 1..BLOCK_SIZE /\ BLOCK_SIZE \in 1..BLOCK_SIZE
  BY TreeSizes
<1>6. DOMAIN s = 1..BLOCK_SIZE
  BY <1>2, <1>3
<1>7. s[1] \in Range(s) /\ s[BLOCK_SIZE] \in Range(s)
  BY <1>5, <1>6 DEF Range
<1>8. ASSUME NEW k \in Range(s) PROVE s[1] <= k /\ k <= s[BLOCK_SIZE]
  <2>1. PICK x \in 1..BLOCK_SIZE : k = s[x]
    BY <1>6 DEF Range
  <2>2. (x = 1 \/ s[1] < s[x]) /\ (x = BLOCK_SIZE \/ s[x] < s[BLOCK_SIZE])
    BY <1>3, <1>5, <1>6, TreeSizes DEF Increasing
  <2>3. s[1] \in Nat /\ s[x] \in Nat /\ s[BLOCK_SIZE] \in Nat
    BY <1>2, <1>3, <1>5
  <2> QED BY <2>1, <2>2, <2>3
<1> QED BY <1>2, <1>3, <1>4, <1>7, <1>8 DEF s


\* A hash is stored: it is the last one, and the blocks that were there stay.
LEMMA Stored ==
  ASSUME TreeInv, treeStage # "off", NEW leaf \in Leaves, StoreHash(leaf)
  PROVE  /\ drawn' \in Seq(Leaves) /\ Len(drawn') = Len(drawn) + 1
         /\ drawn'[Len(drawn) + 1] = leaf
         /\ \A k \in 1..Len(drawn) : drawn'[k] = drawn[k]
         /\ \A b \in 0..(Len(treeFile) - 1) :
              /\ b \in 0..(Len(treeFile') - 1) /\ FileBlock(b)' = FileBlock(b)
              /\ drawn'[FileBlock(b)'[1]] = drawn[FileBlock(b)[1]]
<1>1. drawn \in Seq(Leaves) /\ drawn' = Append(drawn, leaf)
  BY DEF TreeInv, TreeTypes, StoreHash
<1>2. treeFile \in Seq(Seq(Nat))
  BY DEF TreeInv, TreeTypes
<1>3. treeFile' = treeFile \/ \E block \in Seq(Nat) : treeFile' = Append(treeFile, block)
  <2>1. tree[leaf].hash_block \in Seq(Nat) /\ Len(drawn) + 1 \in Nat
    BY DEF TreeInv, TreeTypes
  <2>2. Append(tree[leaf].hash_block, Len(drawn) + 1) \in Seq(Nat)
    BY <2>1
  <2> QED BY <2>2 DEF StoreHash
<1>4. ASSUME NEW b \in 0..(Len(treeFile) - 1)
      PROVE  b \in 0..(Len(treeFile') - 1) /\ FileBlock(b)' = FileBlock(b)
  <2>1. b + 1 \in 1..Len(treeFile)
    BY <1>2
  <2>2. Len(treeFile') >= Len(treeFile) /\ treeFile'[b + 1] = treeFile[b + 1]
          /\ Len(treeFile') \in Nat
    <3>1. CASE treeFile' = treeFile
      BY <1>2, <2>1, <3>1
    <3>2. ASSUME NEW block \in Seq(Nat), treeFile' = Append(treeFile, block)
          PROVE  Len(treeFile') >= Len(treeFile) /\ treeFile'[b + 1] = treeFile[b + 1]
                   /\ Len(treeFile') \in Nat
      BY <1>2, <2>1, <3>2
    <3> QED BY <1>3, <3>1, <3>2
  <2> QED BY <1>2, <2>1, <2>2 DEF FileBlock
<1>5. ASSUME NEW b \in 0..(Len(treeFile) - 1)
      PROVE  drawn'[FileBlock(b)'[1]] = drawn[FileBlock(b)[1]]
  <2>1. FileBlock(b)[1] \in 1..Len(drawn)
    BY BlockIs
  <2> QED BY <1>1, <1>4, <2>1
<1>6. /\ drawn' \in Seq(Leaves) /\ Len(drawn') = Len(drawn) + 1
      /\ drawn'[Len(drawn) + 1] = leaf
      /\ \A k \in 1..Len(drawn) : drawn'[k] = drawn[k]
  BY <1>1
<1> QED BY <1>4, <1>5, <1>6

\* While the hashes are generated, those of a leaf that are in no block are
\* in the leaf; a hash that is new is greater.
LEMMA HeldInLeaf ==
  ASSUME TreeInv, treeStage \in {"generate", "generate_test"},
         NEW leaf \in Leaves
  PROVE  LET held == tree[leaf].hash_block
         IN /\ held \in Seq(Nat) /\ Increasing(held)
            /\ Range(held) = Unwritten(leaf)
            /\ \A k \in Range(held) : k < Len(drawn) + 1
            /\ Len(held) < BLOCK_SIZE
<1> DEFINE held == tree[leaf].hash_block
<1>1. held \in Seq(Nat)
  BY DEF TreeInv, TreeTypes
<1>2. Increasing(held) /\ Range(held) = Unwritten(leaf)
  BY DEF TreeInv, BlocksAreFilled
<1>3. Cardinality(Unwritten(leaf)) < BLOCK_SIZE
  BY DEF TreeInv, BlocksAreFilled
<1>4. Cardinality(Range(held)) = Len(held)
  BY <1>1, <1>2, IncreasingCounts
<1>5. \A k \in Unwritten(leaf) : k < Len(drawn) + 1
  BY DEF Unwritten, TreeInv, TreeTypes
<1> QED BY <1>1, <1>2, <1>3, <1>4, <1>5

\* A hash that does not fill a block waits in its leaf.
LEMMA HashWaits ==
  ASSUME TreeInv, treeStage \in {"generate", "generate_test"},
         NEW leaf \in Leaves, StoreHash(leaf),
         ~IsFull(Append(tree[leaf].hash_block, Len(drawn) + 1))
  PROVE  /\ treeFile' = treeFile
         /\ tree' = [tree EXCEPT ![leaf].hash_block = Append(@, Len(drawn) + 1)]
         /\ \A l \in Leaves : BlockIds(l)' = BlockIds(l)
         /\ \A l \in Leaves :
              Unwritten(l)' = Unwritten(l) \cup
                                (IF l = leaf THEN {Len(drawn) + 1} ELSE {})
<1>1. treeFile' = treeFile
  BY DEF StoreHash
<1>2. tree' = [tree EXCEPT ![leaf].hash_block = Append(@, Len(drawn) + 1)]
  BY DEF StoreHash
<1>3. Len(drawn) \in Nat /\ Len(drawn') = Len(drawn) + 1
        /\ drawn'[Len(drawn) + 1] = leaf
        /\ \A k \in 1..Len(drawn) : drawn'[k] = drawn[k]
  BY Stored DEF TreeInv, TreeTypes
<1>4. \A b \in 0..(Len(treeFile) - 1) :
        FileBlock(b)' = FileBlock(b) /\ drawn'[FileBlock(b)[1]] = drawn[FileBlock(b)[1]]
  BY Stored
<1>5. ASSUME NEW l \in Leaves PROVE BlockIds(l)' = BlockIds(l)
  <2>1. BlockIds(l)' = {b \in 0..(Len(treeFile') - 1) : drawn'[FileBlock(b)'[1]] = l}
    BY DEF BlockIds
  <2> QED BY <1>1, <1>4, <2>1 DEF BlockIds
<1>6. ASSUME NEW l \in Leaves
      PROVE  Unwritten(l)' = Unwritten(l) \cup
                               (IF l = leaf THEN {Len(drawn) + 1} ELSE {})
  <2>1. Unwritten(l)' =
          {k \in 1..Len(drawn') :
             drawn'[k] = l /\ \A b \in BlockIds(l) : k \notin Range(FileBlock(b))}
    <3>1. \A b \in BlockIds(l) : FileBlock(b)' = FileBlock(b)
      BY <1>4 DEF BlockIds
    <3> QED BY <1>5, <3>1 DEF Unwritten
  <2>2. \A b \in BlockIds(l) : Len(drawn) + 1 \notin Range(FileBlock(b))
    <3>1. \A b \in BlockIds(l) : \A k \in Range(FileBlock(b)) : k \in 1..Len(drawn)
      BY BlockIs DEF BlockIds
    <3> QED BY <1>3, <3>1
  <2>3. 1..Len(drawn') = 1..Len(drawn) \cup {Len(drawn) + 1}
    BY <1>3
  <2> QED BY <1>3, <2>1, <2>2, <2>3 DEF Unwritten
<1> QED BY <1>1, <1>2, <1>5, <1>6

\* A hash that fills the block of its leaf: all hashes of the leaf are written.
LEMMA HashFills ==
  ASSUME TreeInv, treeStage \in {"generate", "generate_test"},
         NEW leaf \in Leaves, StoreHash(leaf),
         IsFull(Append(tree[leaf].hash_block, Len(drawn) + 1)),
         NEW n \in Nat, n = Len(treeFile)
  PROVE  LET block == Append(tree[leaf].hash_block, Len(drawn) + 1)
         IN /\ block \in Seq(Nat) /\ Len(block) = BLOCK_SIZE /\ Increasing(block)
            /\ Range(block) = Unwritten(leaf) \cup {Len(drawn) + 1}
            /\ treeFile' = Append(treeFile, block) /\ FileBlock(n)' = block
            /\ tree' = [tree EXCEPT ![leaf] =
                          [hash_block |-> <<>>,
                           block_index |-> IndexBlock(tree[leaf].block_index)]]
            /\ \A l \in Leaves :
                 BlockIds(l)' = BlockIds(l) \cup (IF l = leaf THEN {n} ELSE {})
            /\ \A l \in Leaves :
                 Unwritten(l)' = IF l = leaf THEN {} ELSE Unwritten(l)
<1> DEFINE block == Append(tree[leaf].hash_block, Len(drawn) + 1)
<1>1. treeFile' = Append(treeFile, block)
        /\ tree' = [tree EXCEPT ![leaf] =
                      [hash_block |-> <<>>,
                       block_index |-> IndexBlock(tree[leaf].block_index)]]
  BY DEF StoreHash
<1>2. /\ Len(drawn) \in Nat /\ n \in Nat
      /\ Len(drawn') = Len(drawn) + 1 /\ drawn'[Len(drawn) + 1] = leaf
      /\ \A k \in 1..Len(drawn) : drawn'[k] = drawn[k]
  <2>1. Len(drawn) \in Nat /\ n \in Nat
    BY DEF TreeInv, TreeTypes
  <2> QED BY <2>1, Stored
<1>3. /\ block \in Seq(Nat) /\ Increasing(block)
      /\ Range(block) = Unwritten(leaf) \cup {Len(drawn) + 1}
  BY <1>2, HeldInLeaf, IncreasingGrows
<1>4. Len(block) = BLOCK_SIZE
  BY DEF IsFull
<1>5. FileBlock(n)' = block /\ Len(treeFile') = n + 1
  <2>1. treeFile \in Seq(Seq(Nat))
    BY DEF TreeInv, TreeTypes
  <2>2. treeFile'[n + 1] = block /\ Len(treeFile') = n + 1
    <3> HIDE DEF block
    <3> QED BY <1>1, <1>3, <2>1
  <2>3. FileBlock(n)' = treeFile'[n + 1]
    BY <1>1, <1>2, <1>3, <2>1 DEF FileBlock
  <2> QED BY <2>2, <2>3
<1>6. \A b \in 0..(n - 1) :
        FileBlock(b)' = FileBlock(b) /\ drawn'[FileBlock(b)[1]] = drawn[FileBlock(b)[1]]
  BY Stored
<1> HIDE DEF block
<1>7. drawn'[block[1]] = leaf
  <2>1. block[1] \in Range(block)
    <3>1. 1 \in DOMAIN block
      BY <1>3, <1>4, TreeSizes
    <3> QED BY <3>1 DEF Range
  <2>2. \A k \in Unwritten(leaf) : k \in 1..Len(drawn) /\ drawn[k] = leaf
    BY DEF Unwritten
  <2> QED BY <1>2, <1>3, <2>1, <2>2
<1>8. ASSUME NEW l \in Leaves
      PROVE  BlockIds(l)' = BlockIds(l) \cup (IF l = leaf THEN {n} ELSE {})
  <2>1. BlockIds(l)' = {b \in 0..n : drawn'[FileBlock(b)'[1]] = l}
    BY <1>2, <1>5 DEF BlockIds
  <2>2. BlockIds(l) = {b \in 0..(n - 1) : drawn[FileBlock(b)[1]] = l}
    BY DEF BlockIds
  <2>3. 0..n = 0..(n - 1) \cup {n}
    BY <1>2
  <2>4. drawn'[FileBlock(n)'[1]] = l <=> l = leaf
    BY <1>5, <1>7
  <2> QED BY <1>6, <2>1, <2>2, <2>3, <2>4
<1>9. ASSUME NEW l \in Leaves
      PROVE  Unwritten(l)' = IF l = leaf THEN {} ELSE Unwritten(l)
  <2>1. Unwritten(l)' =
          {k \in 1..(Len(drawn) + 1) :
             drawn'[k] = l /\ \A b \in BlockIds(l)' : k \notin Range(FileBlock(b)')}
    BY <1>2 DEF Unwritten, Range
  <2>2. \A b \in BlockIds(l) : FileBlock(b)' = FileBlock(b)
    BY <1>6 DEF BlockIds
  <2>3. CASE l # leaf
    BY <1>2, <1>8, <2>1, <2>2, <2>3 DEF Unwritten
  <2>4. CASE l = leaf
    <3>1. ASSUME NEW k \in 1..(Len(drawn) + 1), drawn'[k] = l,
                 \A b \in BlockIds(l)' : k \notin Range(FileBlock(b)')
          PROVE  FALSE
      <4>1. k \notin Range(block)
        <5>1. n \in BlockIds(l)'
          BY <1>8, <2>4
        <5>2. k \notin Range(FileBlock(n)')
          BY <3>1, <5>1
        <5> QED BY <1>5, <5>2
      <4>2. k # Len(drawn) + 1 /\ k \notin Unwritten(leaf)
        BY <1>3, <4>1
      <4>3. k \in 1..Len(drawn) /\ drawn[k] = leaf
        BY <1>2, <2>4, <3>1, <4>2
      <4>4. \A b \in BlockIds(l) : k \notin Range(FileBlock(b))
        BY <1>8, <2>2, <3>1
      <4> QED BY <2>4, <4>2, <4>3, <4>4 DEF Unwritten
    <3> QED BY <2>1, <2>4, <3>1
  <2> QED BY <2>3, <2>4
<1> QED BY <1>1, <1>3, <1>4, <1>5, <1>8, <1>9 DEF block

\* What BlocksAreFilled says of the blocks, and of the hashes of one leaf.
BlockFilled(b) ==
  /\ Len(FileBlock(b)) = BLOCK_SIZE /\ Increasing(FileBlock(b))
  /\ \A k \in Range(FileBlock(b)) :
       k \in 1..Len(drawn) /\ drawn[k] = drawn[FileBlock(b)[1]]

LeafFilled(leaf) ==
  /\ \A b, c \in BlockIds(leaf) :
       b < c => FileBlock(b)[BLOCK_SIZE] < FileBlock(c)[1]
  /\ \A b \in BlockIds(leaf), k \in Unwritten(leaf) :
       FileBlock(b)[BLOCK_SIZE] < k
  /\ Cardinality(Unwritten(leaf)) < BLOCK_SIZE
  /\ treeStage \in {"generate", "generate_test"} =>
       /\ Increasing(tree[leaf].hash_block)
       /\ Range(tree[leaf].hash_block) = Unwritten(leaf)

\* BlocksAreFilled speaks of each block and of each leaf.
LEMMA FilledParts ==
  BlocksAreFilled <=>
    (treeStage # "off" =>
       /\ \A b \in 0..(Len(treeFile) - 1) : BlockFilled(b)
       /\ \A leaf \in Leaves : LeafFilled(leaf))
BY DEF BlocksAreFilled, BlockFilled, LeafFilled

\* The types after a hash is stored.
LEMMA StoredTypes ==
  ASSUME TreeInv, treeStage \in {"generate", "generate_test"},
         NEW leaf \in Leaves, StoreHash(leaf), treeStage' = treeStage
  PROVE  TreeTypes'
<1> DEFINE block == Append(tree[leaf].hash_block, Len(drawn) + 1)
<1>1. tree \in [Leaves -> [hash_block : Seq(Nat), block_index : Seq(Int)]]
  BY DEF TreeInv, TreeTypes
<1>2. block \in Seq(Nat) /\ block_number \in Nat
  <2>1. tree[leaf].hash_block \in Seq(Nat) /\ Len(drawn) \in Nat
    BY <1>1 DEF TreeInv, TreeTypes
  <2>2. Len(treeFile) \in Nat
    BY DEF TreeInv, TreeTypes
  <2> QED BY <2>1, <2>2 DEF block_number
<1>3. tree[leaf].block_index \in Seq(Int)
  BY <1>1
<1>4. IndexBlock(tree[leaf].block_index) \in Seq(Int)
  <2> DEFINE index == tree[leaf].block_index
  <2>1. CASE treeStage = "generate"
    <3> DEFINE row == [x \in 1..(Len(index) + 1) |->
                         IF x = Len(index) THEN block_number ELSE Unset]
    <3>1. Len(index) + 1 \in Nat
      BY <1>3
    <3>2. row \in [1..(Len(index) + 1) -> Int]
      BY <1>2 DEF Unset
    <3>3. row \in Seq(Int)
      BY <3>1, <3>2
    <3> QED BY <2>1, <3>3 DEF IndexBlock
  <2>2. CASE treeStage # "generate"
    BY <1>2, <1>3, <2>2 DEF IndexBlock
  <2> QED BY <2>1, <2>2
<1>5. tree' \in [Leaves -> [hash_block : Seq(Nat), block_index : Seq(Int)]]
  <2> DEFINE new == IF IsFull(block)
                    THEN [hash_block |-> <<>>,
                          block_index |-> IndexBlock(tree[leaf].block_index)]
                    ELSE [tree[leaf] EXCEPT !.hash_block = block]
  <2>1. tree' = [tree EXCEPT ![leaf] = new]
    BY DEF StoreHash
  <2>2. new \in [hash_block : Seq(Nat), block_index : Seq(Int)]
    <3>1. tree[leaf] \in [hash_block : Seq(Nat), block_index : Seq(Int)]
      BY <1>1
    <3>2. <<>> \in Seq(Nat)
      OBVIOUS
    <3> HIDE DEF block
    <3> QED BY <1>2, <1>4, <3>1, <3>2
  <2> HIDE DEF new
  <2> QED BY <1>1, <2>1, <2>2
<1>6. treeFile' \in Seq(Seq(Nat))
  <2>1. treeFile \in Seq(Seq(Nat)) /\ treeFile' \in {treeFile, Append(treeFile, block)}
    BY DEF TreeInv, TreeTypes, StoreHash
  <2>2. ASSUME NEW S, NEW s \in Seq(S), NEW v \in S PROVE Append(s, v) \in Seq(S)
    OBVIOUS
  <2>3. Append(treeFile, block) \in Seq(Seq(Nat))
    <3> HIDE DEF block
    <3> QED BY <1>2, <2>1, <2>2
  <2> QED BY <2>1, <2>3
<1>7. drawn' \in Seq(Leaves) /\ treeStage' \in TreeStages /\ treeStage' # "off"
  BY Stored DEF TreeInv, TreeTypes
<1> QED BY <1>5, <1>6, <1>7 DEF TreeTypes

\* What is true of a block stays true.
LEMMA BlockStays ==
  ASSUME TreeInv, treeStage # "off", NEW leaf \in Leaves, StoreHash(leaf),
         NEW b \in 0..(Len(treeFile) - 1)
  PROVE  BlockFilled(b)'
<1>1. FileBlock(b)' = FileBlock(b) /\ drawn'[FileBlock(b)[1]] = drawn[FileBlock(b)[1]]
  BY Stored
<1>2. Len(FileBlock(b)) = BLOCK_SIZE /\ Increasing(FileBlock(b))
  BY BlockIs
<1>3. \A k \in Range(FileBlock(b)) :
        k \in 1..Len(drawn') /\ drawn'[k] = drawn'[FileBlock(b)[1]]
  <2>1. \A k \in Range(FileBlock(b)) :
          k \in 1..Len(drawn) /\ drawn[k] = drawn[FileBlock(b)[1]]
    BY BlockIs
  <2>2. /\ Len(drawn) \in Nat /\ Len(drawn') = Len(drawn) + 1
        /\ \A k \in 1..Len(drawn) : drawn'[k] = drawn[k]
    <3>1. Len(drawn) \in Nat
      BY DEF TreeInv, TreeTypes
    <3> QED BY <3>1, Stored
  <2> QED BY <1>1, <2>1, <2>2
<1> QED BY <1>1, <1>2, <1>3 DEF BlockFilled, Increasing

\* A hash that waits in its leaf leaves the blocks as they are.
LEMMA WaitingStep ==
  ASSUME TreeInv, treeStage \in {"generate", "generate_test"},
         NEW leaf \in Leaves, StoreHash(leaf), treeStage' = treeStage,
         ~IsFull(Append(tree[leaf].hash_block, Len(drawn) + 1))
  PROVE  BlocksAreFilled'
<1> DEFINE k0 == Len(drawn) + 1
           block == Append(tree[leaf].hash_block, k0)
<1>1. /\ treeFile' = treeFile
      /\ tree' = [tree EXCEPT ![leaf].hash_block = Append(@, Len(drawn) + 1)]
      /\ \A l \in Leaves : BlockIds(l)' = BlockIds(l)
      /\ \A l \in Leaves :
           Unwritten(l)' = Unwritten(l) \cup (IF l = leaf THEN {Len(drawn) + 1} ELSE {})
  BY HashWaits
<1>2. Len(drawn) \in Nat /\ Len(treeFile) \in Nat
  BY DEF TreeInv, TreeTypes
<1>3. ASSUME NEW b \in 0..(Len(treeFile') - 1) PROVE BlockFilled(b)'
  BY <1>1, <1>3, BlockStays
<1>4. \A b \in 0..(Len(treeFile) - 1) : FileBlock(b)' = FileBlock(b)
  BY Stored
<1>5. /\ block \in Seq(Nat) /\ Increasing(block) /\ Len(block) < BLOCK_SIZE
      /\ Range(block) = Unwritten(leaf) \cup {k0}
  <2>1. LET held == tree[leaf].hash_block
        IN /\ held \in Seq(Nat) /\ Increasing(held) /\ Range(held) = Unwritten(leaf)
           /\ \A k \in Range(held) : k < k0
           /\ Len(held) < BLOCK_SIZE
    BY HeldInLeaf
  <2>2. /\ block \in Seq(Nat) /\ Increasing(block)
        /\ Range(block) = Unwritten(leaf) \cup {k0}
        /\ Len(block) = Len(tree[leaf].hash_block) + 1
    BY <1>2, <2>1, IncreasingGrows
  <2>3. Len(block) # BLOCK_SIZE
    BY DEF IsFull
  <2>4. Len(tree[leaf].hash_block) \in Nat
    BY <2>1
  <2> HIDE DEF block, k0
  <2> QED BY <2>1, <2>2, <2>3, <2>4, TreeSizes
<1>6. ASSUME NEW l \in Leaves PROVE LeafFilled(l)'
  <2>1. LeafFilled(l)
    BY FilledParts DEF TreeInv
  <2>2. BlockIds(l) \subseteq 0..(Len(treeFile) - 1)
    BY DEF BlockIds
  <2>3. \A b, c \in BlockIds(l)' :
          b < c => FileBlock(b)'[BLOCK_SIZE] < FileBlock(c)'[1]
    BY <1>1, <1>4, <2>1, <2>2 DEF LeafFilled
  <2>4. ASSUME NEW b \in BlockIds(l)', NEW k \in Unwritten(l)'
        PROVE  FileBlock(b)'[BLOCK_SIZE] < k
    <3>1. b \in BlockIds(l) /\ b \in 0..(Len(treeFile) - 1) /\ FileBlock(b)' = FileBlock(b)
      BY <1>1, <1>4, <2>2
    <3>2. FileBlock(b)[BLOCK_SIZE] \in 1..Len(drawn)
      BY <3>1, BlockIs
    <3>3. k \in Unwritten(l) \/ k = k0
      BY <1>1
    <3> QED BY <1>2, <2>1, <3>1, <3>2, <3>3 DEF LeafFilled
  <2>5. Cardinality(Unwritten(l)') < BLOCK_SIZE
    <3>1. CASE l = leaf
      <4>1. Unwritten(l)' = Range(block)
        BY <1>1, <1>5, <3>1
      <4> HIDE DEF block
      <4> QED BY <1>5, <4>1, IncreasingCounts
    <3>2. CASE l # leaf
      BY <1>1, <2>1, <3>2 DEF LeafFilled
    <3> QED BY <3>1, <3>2
  <2>6. Increasing(tree'[l].hash_block) /\ Range(tree'[l].hash_block) = Unwritten(l)'
    <3>1. tree \in [Leaves -> [hash_block : Seq(Nat), block_index : Seq(Int)]]
      BY DEF TreeInv, TreeTypes
    <3>2. CASE l = leaf
      <4>1. tree'[l].hash_block = block
        BY <1>1, <3>1, <3>2
      <4>2. Unwritten(l)' = Range(block)
        BY <1>1, <1>5, <3>2
      <4> HIDE DEF block
      <4> QED BY <1>5, <4>1, <4>2
    <3>3. CASE l # leaf
      <4>1. tree'[l] = tree[l]
        BY <1>1, <3>1, <3>3
      <4> QED BY <1>1, <2>1, <3>3, <4>1 DEF LeafFilled
    <3> QED BY <3>2, <3>3
  <2> QED BY <2>3, <2>4, <2>5, <2>6 DEF LeafFilled, Increasing
<1>7. (\A b \in 0..(Len(treeFile) - 1) : BlockFilled(b))'
  BY <1>3
<1>8. (\A l \in Leaves : LeafFilled(l))'
  BY <1>6
<1> QED BY <1>7, <1>8 DEF BlocksAreFilled, BlockFilled, LeafFilled

\* A block that is filled comes after those of its leaf and holds all hashes
\* of the leaf that were in none.
LEMMA FillingStep ==
  ASSUME TreeInv, treeStage \in {"generate", "generate_test"},
         NEW leaf \in Leaves, StoreHash(leaf), treeStage' = treeStage,
         IsFull(Append(tree[leaf].hash_block, Len(drawn) + 1))
  PROVE  BlocksAreFilled'
<1> DEFINE block == Append(tree[leaf].hash_block, Len(drawn) + 1)
<1>1. PICK n \in Nat : n = Len(treeFile)
  BY DEF TreeInv, TreeTypes
<1>2. /\ block \in Seq(Nat) /\ Len(block) = BLOCK_SIZE /\ Increasing(block)
      /\ Range(block) = Unwritten(leaf) \cup {Len(drawn) + 1}
      /\ treeFile' = Append(treeFile, block) /\ FileBlock(n)' = block
      /\ tree' = [tree EXCEPT ![leaf] =
                    [hash_block |-> <<>>,
                     block_index |-> IndexBlock(tree[leaf].block_index)]]
      /\ \A l \in Leaves :
           BlockIds(l)' = BlockIds(l) \cup (IF l = leaf THEN {n} ELSE {})
      /\ \A l \in Leaves :
           Unwritten(l)' = IF l = leaf THEN {} ELSE Unwritten(l)
  BY <1>1, HashFills
<1>3. /\ Len(drawn) \in Nat /\ Len(drawn') = Len(drawn) + 1
      /\ drawn'[Len(drawn) + 1] = leaf
      /\ \A k \in 1..Len(drawn) : drawn'[k] = drawn[k]
  <2>1. Len(drawn) \in Nat
    BY DEF TreeInv, TreeTypes
  <2> QED BY <2>1, Stored
<1>4. \A b \in 0..(n - 1) : FileBlock(b)' = FileBlock(b)
  BY <1>1, Stored
<1>5. Len(treeFile') = n + 1
  <2>1. treeFile \in Seq(Seq(Nat))
    BY DEF TreeInv, TreeTypes
  <2> HIDE DEF block
  <2> QED BY <1>1, <1>2, <2>1
<1>6. block[1] \in Range(block) /\ block[BLOCK_SIZE] \in Range(block)
  <2> HIDE DEF block
  <2>1. 1 \in DOMAIN block /\ BLOCK_SIZE \in DOMAIN block
    BY <1>2, TreeSizes
  <2> QED BY <2>1 DEF Range
<1>7. \A k \in Range(block) : k \in 1..Len(drawn') /\ drawn'[k] = leaf
  BY <1>2, <1>3 DEF Unwritten
<1> HIDE DEF block
<1>8. ASSUME NEW b \in 0..(Len(treeFile') - 1) PROVE BlockFilled(b)'
  <2>1. CASE b = n
    <3>1. FileBlock(b)' = block
      BY <1>2, <2>1
    <3>2. \A k \in Range(block) : k \in 1..Len(drawn') /\ drawn'[k] = drawn'[block[1]]
      BY <1>6, <1>7
    <3> QED BY <1>2, <3>1, <3>2 DEF BlockFilled, Increasing
  <2>2. CASE b # n
    <3>1. b \in 0..(Len(treeFile) - 1)
      BY <1>1, <1>5, <2>2
    <3> QED BY <3>1, BlockStays
  <2> QED BY <2>1, <2>2
<1>9. ASSUME NEW l \in Leaves PROVE LeafFilled(l)'
  <2>1. LeafFilled(l)
    BY FilledParts DEF TreeInv
  <2>2. BlockIds(l) \subseteq 0..(n - 1)
    BY <1>1 DEF BlockIds
  <2>3. ASSUME NEW b \in BlockIds(l)', NEW c \in BlockIds(l)', b < c
        PROVE  FileBlock(b)'[BLOCK_SIZE] < FileBlock(c)'[1]
    <3>1. b \in BlockIds(l) /\ FileBlock(b)' = FileBlock(b)
      <4>1. (b \in BlockIds(l) \/ b = n) /\ (c \in BlockIds(l) \/ c = n)
        BY <1>2
      <4>2. b # n
        BY <2>2, <2>3, <4>1
      <4> QED BY <1>4, <2>2, <4>1, <4>2
    <3>2. CASE c \in BlockIds(l)
      BY <1>4, <2>1, <2>2, <2>3, <3>1, <3>2 DEF LeafFilled
    <3>3. CASE c \notin BlockIds(l)
      <4>1. c = n /\ l = leaf
        BY <1>2, <3>3
      <4>2. block[1] \in Unwritten(leaf) \/ block[1] = Len(drawn) + 1
        BY <1>2, <1>6
      <4>3. FileBlock(b)[BLOCK_SIZE] \in 1..Len(drawn)
        BY <1>1, <2>2, <3>1, BlockIs
      <4>4. FileBlock(c)' = block
        BY <1>2, <4>1
      <4> QED BY <1>3, <2>1, <3>1, <4>1, <4>2, <4>3, <4>4 DEF LeafFilled
    <3> QED BY <3>2, <3>3
  <2>4. ASSUME NEW b \in BlockIds(l)', NEW k \in Unwritten(l)'
        PROVE  FileBlock(b)'[BLOCK_SIZE] < k
    <3>1. l # leaf
      BY <1>2
    <3>2. b \in BlockIds(l) /\ k \in Unwritten(l)
      BY <1>2, <3>1
    <3> QED BY <1>4, <2>1, <2>2, <3>2 DEF LeafFilled
  <2>5. Cardinality(Unwritten(l)') < BLOCK_SIZE
    <3>1. CASE l = leaf
      <4>1. Unwritten(l)' = {}
        BY <1>2, <3>1
      <4>2. Cardinality({}) = 0
        BY FS_EmptySet
      <4> QED BY <4>1, <4>2, TreeSizes
    <3>2. CASE l # leaf
      BY <1>2, <2>1, <3>2 DEF LeafFilled
    <3> QED BY <3>1, <3>2
  <2>6. Increasing(tree'[l].hash_block) /\ Range(tree'[l].hash_block) = Unwritten(l)'
    <3>1. tree \in [Leaves -> [hash_block : Seq(Nat), block_index : Seq(Int)]]
      BY DEF TreeInv, TreeTypes
    <3>2. CASE l = leaf
      <4>1. tree'[l].hash_block = <<>>
        BY <1>2, <3>1, <3>2
      <4>2. Increasing(<<>>) /\ Range(<<>>) = {}
        BY DEF Increasing, Range
      <4> QED BY <1>2, <3>2, <4>1, <4>2
    <3>3. CASE l # leaf
      <4>1. tree'[l] = tree[l]
        BY <1>2, <3>1, <3>3
      <4> QED BY <1>2, <2>1, <3>3, <4>1 DEF LeafFilled
    <3> QED BY <3>2, <3>3
  <2> QED BY <2>3, <2>4, <2>5, <2>6 DEF LeafFilled, Increasing
<1>10. (\A b \in 0..(Len(treeFile) - 1) : BlockFilled(b))'
  BY <1>8
<1>11. (\A l \in Leaves : LeafFilled(l))'
  BY <1>9
<1> QED BY <1>10, <1>11 DEF BlocksAreFilled, BlockFilled, LeafFilled

\* A program starts with empty leaves.
LEMMA TreeCreated ==
  ASSUME TreeInv, NEW index \in Seq(Int), CreateTree(index),
         treeStage' \in {"generate", "generate_test"}
  PROVE  TreeInv'
<1>1. /\ tree' = [leaf \in Leaves |-> [hash_block |-> <<>>, block_index |-> index]]
      /\ drawn = <<>> /\ treeFile = <<>> /\ drawn' = <<>> /\ treeFile' = <<>>
  BY DEF CreateTree, TreeInv, TreeTypes
<1>2. TreeTypes'
  <2>1. tree' \in [Leaves -> [hash_block : Seq(Nat), block_index : Seq(Int)]]
    BY <1>1
  <2> QED BY <1>1, <2>1 DEF TreeTypes, TreeStages
<1>3. Len(treeFile') = 0 /\ Len(drawn') = 0
  BY <1>1
<1>4. ASSUME NEW leaf \in Leaves PROVE LeafFilled(leaf)'
  <2>1. BlockIds(leaf)' = {} /\ Unwritten(leaf)' = {}
    BY <1>3 DEF BlockIds, Unwritten
  <2>2. tree'[leaf].hash_block = <<>>
    BY <1>1
  <2>3. Increasing(<<>>) /\ Range(<<>>) = {}
    BY DEF Increasing, Range
  <2>4. Cardinality({}) = 0
    BY FS_EmptySet
  <2>5. Increasing(tree[leaf].hash_block)' /\ Range(tree'[leaf].hash_block) = Unwritten(leaf)'
    BY <2>1, <2>2, <2>3 DEF Increasing
  <2> QED BY <2>1, <2>4, <2>5, TreeSizes DEF LeafFilled
<1>5. (\A b \in 0..(Len(treeFile) - 1) : BlockFilled(b))'
  BY <1>3
<1>6. (\A leaf \in Leaves : LeafFilled(leaf))'
  BY <1>4
<1> QED BY <1>2, <1>5, <1>6 DEF TreeInv, BlocksAreFilled, BlockFilled, LeafFilled

\* After the last hash the file and the hashes stay.
LEMMA TreeQuiet ==
  ASSUME TreeInv, UNCHANGED <<treeFile, drawn>>,
         treeStage # "off", treeStage' \in {"offsets", "done"},
         tree' \in [Leaves -> [hash_block : Seq(Nat), block_index : Seq(Int)]]
  PROVE  TreeInv'
<1>1. TreeTypes'
  BY DEF TreeInv, TreeTypes, TreeStages
<1>2. treeFile' = treeFile /\ drawn' = drawn
  OBVIOUS
<1>3. (\A b \in 0..(Len(treeFile) - 1) : BlockFilled(b))'
  BY <1>2, FilledParts DEF TreeInv, BlockFilled, FileBlock, Increasing
<1>4. ASSUME NEW leaf \in Leaves PROVE LeafFilled(leaf)'
  <2>1. LeafFilled(leaf)
    BY FilledParts DEF TreeInv
  <2>2. BlockIds(leaf)' = BlockIds(leaf) /\ Unwritten(leaf)' = Unwritten(leaf)
    BY <1>2 DEF BlockIds, Unwritten, FileBlock, Range
  <2>3. \A b : FileBlock(b)' = FileBlock(b)
    BY <1>2 DEF FileBlock
  <2> QED BY <2>1, <2>2, <2>3 DEF LeafFilled
<1>5. (\A leaf \in Leaves : LeafFilled(leaf))'
  BY <1>4
<1> QED BY <1>1, <1>3, <1>5 DEF TreeInv, BlocksAreFilled, BlockFilled, LeafFilled

\* TreeInv holds before a program is started.
LEMMA TreeInvInit == TreeInit => TreeInv
BY DEF TreeInit, TreeInv, TreeTypes, TreeStages, BlocksAreFilled

\* Every step of the two programs keeps TreeInv.
LEMMA TreeStep == TreeInv /\ [TreeNext]_treeVars => TreeInv'
<1> SUFFICES ASSUME TreeInv, [TreeNext]_treeVars PROVE TreeInv'
  OBVIOUS
<1>1. CASE TreeStart
  <2>1. <<Unset>> \in Seq(Int)
    BY DEF Unset
  <2> QED BY <1>1, <2>1, TreeCreated DEF TreeStart
<1>2. CASE TreeTestStart
  <2>1. <<>> \in Seq(Int)
    OBVIOUS
  <2> QED BY <1>2, <2>1, TreeCreated DEF TreeTestStart
<1>3. CASE GenerateHash \/ GenerateHashTest
  <2>1. treeStage \in {"generate", "generate_test"} /\ treeStage' = treeStage
    BY <1>3 DEF GenerateHash, GenerateHashTest
  <2>2. PICK leaf \in Leaves : StoreHash(leaf)
    BY <1>3 DEF GenerateHash, GenerateHashTest
  <2>3. TreeTypes'
    BY <2>1, <2>2, StoredTypes
  <2>4. BlocksAreFilled'
    BY <2>1, <2>2, WaitingStep, FillingStep
  <2> QED BY <2>3, <2>4 DEF TreeInv
<1>4. CASE GenerationEnds
  <2>1. treeStage # "off" /\ treeStage' \in {"offsets", "done"} /\ UNCHANGED <<treeFile, drawn>>
    BY <1>4 DEF GenerationEnds
  <2>2. tree' = [leaf \in Leaves |-> [tree[leaf] EXCEPT !.hash_block = <<>>]]
    BY <1>4 DEF GenerationEnds
  <2>3. \A leaf \in Leaves : tree[leaf] \in [hash_block : Seq(Nat), block_index : Seq(Int)]
    BY <2>1 DEF TreeInv, TreeTypes
  <2>4. tree' \in [Leaves -> [hash_block : Seq(Nat), block_index : Seq(Int)]]
    <3>1. ASSUME NEW leaf \in Leaves
          PROVE  [tree[leaf] EXCEPT !.hash_block = <<>>]
                   \in [hash_block : Seq(Nat), block_index : Seq(Int)]
      <4>1. <<>> \in Seq(Nat)
        OBVIOUS
      <4> QED BY <2>3, <4>1
    <3> QED BY <2>2, <3>1
  <2> QED BY <2>1, <2>4, TreeQuiet
<1>5. CASE IndexRows \/ OffsetRow
  <2>1. /\ treeStage # "off" /\ treeStage' \in {"offsets", "done"}
        /\ UNCHANGED <<treeFile, drawn, tree>>
    BY <1>5 DEF IndexRows, OffsetRow
  <2> QED BY <2>1, TreeQuiet DEF TreeInv, TreeTypes
<1>6. CASE UNCHANGED treeVars
  <2>1. UNCHANGED <<treeStage, tree, treeFile, drawn>>
    BY <1>6 DEF treeVars
  <2>2. TreeTypes'
    BY <2>1 DEF TreeInv, TreeTypes
  <2>3. BlocksAreFilled'
    <3>1. CASE treeStage = "off"
      BY <2>1, <3>1 DEF BlocksAreFilled
    <3>2. CASE treeStage # "off"
      <4>2. \A leaf : BlockIds(leaf)' = BlockIds(leaf) /\ Unwritten(leaf)' = Unwritten(leaf)
        BY <2>1 DEF BlockIds, Unwritten, FileBlock, Range
      <4>3. \A b : FileBlock(b)' = FileBlock(b)
        BY <2>1 DEF FileBlock
      <4>4. (\A b \in 0..(Len(treeFile) - 1) : BlockFilled(b))'
        BY <2>1, <3>2, <4>3, FilledParts DEF TreeInv, BlockFilled, Increasing
      <4>5. (\A leaf \in Leaves : LeafFilled(leaf))'
        <5>1. ASSUME NEW leaf \in Leaves PROVE LeafFilled(leaf)'
          <6>1. LeafFilled(leaf)
            BY <3>2, FilledParts DEF TreeInv
          <6> QED BY <2>1, <4>2, <4>3, <6>1 DEF LeafFilled, Increasing
        <5> QED BY <5>1
      <4> QED BY <4>4, <4>5 DEF BlocksAreFilled, BlockFilled, LeafFilled
    <3> QED BY <3>1, <3>2
  <2> QED BY <2>2, <2>3 DEF TreeInv
<1> QED BY <1>1, <1>2, <1>3, <1>4, <1>5, <1>6 DEF TreeNext

\* Every block of a leaf is in the leaf's hashes of the file, and none of what
\* was generated is lost before the program ends (HashTreeFile!BlocksAreFilled).
THEOREM BlocksHoldHashes == ToolsSpec => []BlocksAreFilled
<1>1. ToolsInit => TreeInv
  BY TreeInvInit DEF ToolsInit
<1>2. TreeInv /\ [ToolsNext]_toolsVars => TreeInv'
  BY TreeStep DEF ToolsNext, TreeRuns, BlockSortRuns, HashThreadsRun,
                  ProofOfWorkRuns, SortParallelRuns, toolsVars
<1>3. TreeInv => BlocksAreFilled
  BY DEF TreeInv
<1> QED BY <1>1, <1>2, <1>3, PTL DEF ToolsSpec

\* The block_index of a leaf: as long as the blocks of the leaf are many, or
\* one longer in the first program; what is set is right, and the last is set.
IndexInv(leaf) ==
  LET n     == Cardinality(BlockIds(leaf))
      index == tree[leaf].block_index
  IN /\ \A x \in 1..n : index[x] # Unset => IsBlock(leaf, x, index[x])
     /\ n > 0 => index[n] # Unset
     /\ treeStage = "generate" => Len(index) = n + 1
     /\ treeStage \in {"generate_test", "offsets"} \/ prefix_index # <<>> =>
          Len(index) = n /\ \A x \in 1..n : index[x] # Unset

IndexRow(leaf) ==
  [x \in 1..Len(tree[leaf].block_index) |->
     IF x <= POINTER THEN tree[leaf].block_index[x] ELSE Unset]

\* What main makes of them after the generation.
RowsOfIndex ==
  /\ offset_start \in Seq(Int) /\ Len(offset_start) <= MAX_CHILDREN
  /\ treeStage = "offsets" => Len(offset_start) < MAX_CHILDREN
  /\ treeStage \notin {"offsets", "done"} => prefix_index = <<>>
  /\ prefix_index = <<>> => offset_start = <<>>
  /\ prefix_index # <<>> => \A leaf \in Leaves : prefix_index[leaf] = IndexRow(leaf)
  /\ \A leaf \in 2..Len(offset_start) :
       offset_start[leaf] = offset_start[leaf - 1] + Len(tree[leaf - 1].block_index)

PlacesInv ==
  /\ RowsOfIndex
  /\ treeStage # "off" => \A leaf \in Leaves : IndexInv(leaf)

\* The blocks of a leaf can be counted.
LEMMA BlocksFinite ==
  ASSUME TreeInv, NEW leaf
  PROVE  /\ IsFiniteSet(BlockIds(leaf)) /\ Cardinality(BlockIds(leaf)) \in Nat
         /\ BlockIds(leaf) \subseteq 0..(Len(treeFile) - 1)
<1>1. Len(treeFile) \in Nat
  BY DEF TreeInv, TreeTypes
<1>2. IsFiniteSet(0..(Len(treeFile) - 1))
  BY <1>1, FS_Interval
<1>3. BlockIds(leaf) \subseteq 0..(Len(treeFile) - 1)
  BY DEF BlockIds
<1>4. IsFiniteSet(BlockIds(leaf))
  BY <1>2, <1>3, FS_Subset
<1> QED BY <1>3, <1>4, FS_CardinalityType

\* What a flush does to the block_index of its leaf.
LEMMA IndexFlushed ==
  ASSUME TreeInv, PlacesInv, treeStage \in {"generate", "generate_test"},
         NEW leaf \in Leaves, NEW n \in Nat, n = Cardinality(BlockIds(leaf)),
         NEW index, index = tree[leaf].block_index
  PROVE  /\ IndexBlock(index)[n + 1] = Len(treeFile)
         /\ treeStage = "generate" =>
              /\ Len(IndexBlock(index)) = n + 2
              /\ \A x \in 1..n : IndexBlock(index)[x] = Unset
         /\ treeStage = "generate_test" =>
              /\ Len(IndexBlock(index)) = n + 1
              /\ \A x \in 1..n : IndexBlock(index)[x] = index[x]
<1>1. index \in Seq(Int) /\ Len(treeFile) \in Nat
  BY DEF TreeInv, TreeTypes
<1>2. treeStage = "generate" => Len(index) = n + 1
  BY DEF PlacesInv, IndexInv
<1>3. treeStage = "generate_test" => Len(index) = n
  BY DEF PlacesInv, IndexInv
<1>4. CASE treeStage = "generate"
  <2> DEFINE row == [x \in 1..(Len(index) + 1) |->
                       IF x = Len(index) THEN block_number ELSE Unset]
  <2>1. IndexBlock(index) = row
    BY <1>4 DEF IndexBlock
  <2>2. Len(row) = n + 2 /\ row[n + 1] = Len(treeFile)
          /\ \A x \in 1..n : row[x] = Unset
    BY <1>2, <1>4 DEF block_number
  <2> QED BY <1>4, <2>1, <2>2
<1>5. CASE treeStage = "generate_test"
  <2>1. IndexBlock(index) = Append(index, Len(treeFile))
    BY <1>5 DEF IndexBlock, block_number
  <2> QED BY <1>1, <1>3, <1>5, <2>1
<1> QED BY <1>4, <1>5

\* A block that is the x-th of its leaf stays it, as later ones come after it.
LEMMA IsBlockStays ==
  ASSUME NEW S, NEW n \in Nat, \A c \in S : c \in 0..(n - 1), NEW b \in S
  PROVE  {c \in S \cup {n} : c <= b} = {c \in S : c <= b}
OBVIOUS

\* A flush keeps IndexInv for its leaf.
LEMMA FlushKeepsIndex ==
  ASSUME TreeInv, PlacesInv, treeStage \in {"generate", "generate_test"},
         NEW leaf \in Leaves, StoreHash(leaf),
         UNCHANGED <<treeStage, prefix_index>>,
         IsFull(Append(tree[leaf].hash_block, Len(drawn) + 1))
  PROVE  IndexInv(leaf)'
<1>1. PICK f \in Nat : f = Len(treeFile)
  BY DEF TreeInv, TreeTypes
<1>2. PICK n \in Nat : n = Cardinality(BlockIds(leaf))
  BY BlocksFinite
<1>3. PICK S : S = BlockIds(leaf)
  OBVIOUS
<1>4. PICK index : index = tree[leaf].block_index
  OBVIOUS
<1>5. PICK new : new = IndexBlock(index)
  OBVIOUS
<1>6. /\ tree' = [tree EXCEPT ![leaf] =
                    [hash_block |-> <<>>,
                     block_index |-> IndexBlock(tree[leaf].block_index)]]
      /\ BlockIds(leaf)' = S \cup {f}
  BY <1>1, <1>3, HashFills
<1>7. tree'[leaf].block_index = new
  BY <1>4, <1>5, <1>6 DEF TreeInv, TreeTypes
<1>8. IsFiniteSet(S) /\ S \subseteq 0..(f - 1) /\ Cardinality(S) = n
  BY <1>1, <1>2, <1>3, BlocksFinite
<1>9. Cardinality(S \cup {f}) = n + 1
  <2>1. f \notin S
    BY <1>8
  <2> QED BY <1>8, <2>1, FS_AddElement
<1>10. /\ new[n + 1] = f
       /\ treeStage = "generate" => Len(new) = n + 2 /\ \A x \in 1..n : new[x] = Unset
       /\ treeStage = "generate_test" => Len(new) = n + 1 /\ \A x \in 1..n : new[x] = index[x]
  BY <1>1, <1>2, <1>4, <1>5, IndexFlushed
<1>11. ASSUME NEW x \in 1..(n + 1), new[x] # Unset
       PROVE  new[x] \in S \cup {f} /\ Cardinality({c \in S \cup {f} : c <= new[x]}) = x
  <2>1. CASE x = n + 1
    <3>1. {c \in S \cup {f} : c <= f} = S \cup {f}
      <4>1. \A c \in S \cup {f} : c <= f
        BY <1>8
      <4> QED BY <4>1
    <3> QED BY <1>9, <1>10, <2>1, <3>1
  <2>2. CASE x # n + 1
    <3>1. x \in 1..n /\ new[x] = index[x] /\ index[x] # Unset
      BY <1>10, <1>11, <2>2
    <3>2. IsBlock(leaf, x, index[x])
      BY <1>2, <1>4, <3>1 DEF PlacesInv, IndexInv
    <3>3. index[x] \in S /\ Cardinality({c \in S : c <= index[x]}) = x
      BY <1>3, <3>2 DEF IsBlock
    <3>4. {c \in S \cup {f} : c <= index[x]} = {c \in S : c <= index[x]}
      <4>1. \A c \in S : c \in 0..(f - 1)
        BY <1>8
      <4> QED BY <3>3, <4>1, IsBlockStays
    <3> QED BY <3>1, <3>3, <3>4
  <2> QED BY <2>1, <2>2
<1>13. f # Unset
  BY DEF Unset
<1>14. Cardinality(BlockIds(leaf)') = n + 1 /\ n + 1 \in 1..(n + 1)
  BY <1>6, <1>9
<1>15. treeStage = "generate_test" => \A x \in 1..(n + 1) : new[x] # Unset
  <2>1. treeStage = "generate_test" => \A x \in 1..n : index[x] # Unset
    BY <1>2, <1>4 DEF PlacesInv, IndexInv
  <2> QED BY <1>10, <1>13, <2>1
<1>16. prefix_index = <<>>
  BY DEF PlacesInv, RowsOfIndex
<1>17. (\A x \in 1..(n + 1) : tree[leaf].block_index[x] # Unset =>
             IsBlock(leaf, x, tree[leaf].block_index[x]))'
  BY <1>6, <1>7, <1>11 DEF IsBlock
<1>18. (n + 1 > 0 => tree[leaf].block_index[n + 1] # Unset)'
  BY <1>7, <1>10, <1>13
<1>19. treeStage' = "generate" => Len(tree'[leaf].block_index) = (n + 1) + 1
  BY <1>7, <1>10
<1>20. treeStage' \in {"generate_test", "offsets"} \/ prefix_index' # <<>> =>
         /\ Len(tree'[leaf].block_index) = n + 1
         /\ \A x \in 1..(n + 1) : tree'[leaf].block_index[x] # Unset
  BY <1>7, <1>10, <1>15, <1>16
<1> HIDE DEF IsBlock
<1> QED BY <1>14, <1>17, <1>18, <1>19, <1>20 DEF IndexInv

\* IndexInv looks at the blocks and the block_index of its leaf only.
LEMMA IndexStays ==
  ASSUME NEW leaf \in Leaves, IndexInv(leaf), BlockIds(leaf)' = BlockIds(leaf),
         tree'[leaf].block_index = tree[leaf].block_index,
         treeStage' = "generate" => treeStage = "generate",
         treeStage' \in {"generate_test", "offsets"} \/ prefix_index' # <<>> =>
           treeStage \in {"generate_test", "offsets"} \/ prefix_index # <<>>
  PROVE  IndexInv(leaf)'
BY DEF IndexInv, IsBlock

\* A hash is stored.
LEMMA StoredPlaces ==
  ASSUME TreeInv, PlacesInv, treeStage \in {"generate", "generate_test"},
         NEW leaf \in Leaves, StoreHash(leaf),
         UNCHANGED <<treeStage, prefix_index, offset_start>>
  PROVE  PlacesInv'
<1>1. prefix_index = <<>> /\ offset_start = <<>>
  BY DEF PlacesInv, RowsOfIndex
<1>2. RowsOfIndex'
  <2>1. <<>> \in Seq(Int) /\ Len(<<>>) = 0
    OBVIOUS
  <2>2. prefix_index' = <<>> /\ offset_start' = <<>>
    BY <1>1
  <2>3. treeStage' # "offsets"
    OBVIOUS
  <2>4. 2..0 = {}
    OBVIOUS
  <2> QED BY <2>1, <2>2, <2>3, <2>4, TreeSizes DEF RowsOfIndex
<1>3. tree \in [Leaves -> [hash_block : Seq(Nat), block_index : Seq(Int)]]
  BY DEF TreeInv, TreeTypes
<1>4. PICK f \in Nat : f = Len(treeFile)
  BY DEF TreeInv, TreeTypes
<1>5. ASSUME NEW l \in Leaves PROVE IndexInv(l)'
  <2>1. IndexInv(l)
    BY DEF PlacesInv
  <2>2. CASE IsFull(Append(tree[leaf].hash_block, Len(drawn) + 1)) /\ l = leaf
    BY <2>2, FlushKeepsIndex
  <2>3. CASE IsFull(Append(tree[leaf].hash_block, Len(drawn) + 1)) /\ l # leaf
    <3>1. BlockIds(l)' = BlockIds(l)
      <4>1. BlockIds(l)' = BlockIds(l) \cup (IF l = leaf THEN {f} ELSE {})
        BY <1>4, <2>3, HashFills
      <4> QED BY <2>3, <4>1
    <3>2. tree'[l] = tree[l]
      BY <1>3, <2>3 DEF StoreHash
    <3> QED BY <2>1, <3>1, <3>2, IndexStays
  <2>4. CASE ~IsFull(Append(tree[leaf].hash_block, Len(drawn) + 1))
    <3>1. BlockIds(l)' = BlockIds(l)
      BY <2>4, HashWaits
    <3>2. tree' = [tree EXCEPT ![leaf].hash_block = Append(@, Len(drawn) + 1)]
      BY <2>4, HashWaits
    <3>3. tree'[l].block_index = tree[l].block_index
      BY <1>3, <3>2
    <3> QED BY <2>1, <3>1, <3>3, IndexStays
  <2> QED BY <2>2, <2>3, <2>4
<1>6. (\A l \in Leaves : IndexInv(l))'
  BY <1>5
<1> QED BY <1>2, <1>6 DEF PlacesInv

\* A program starts: there is no block.
LEMMA PlacesCreated ==
  ASSUME TreeInv, PlacesInv, NEW index, CreateTree(index),
         \/ index = <<Unset>> /\ treeStage' = "generate"
         \/ index = <<>> /\ treeStage' = "generate_test"
  PROVE  PlacesInv'
<1>1. prefix_index = <<>> /\ offset_start = <<>> /\ treeFile = <<>>
        /\ UNCHANGED <<prefix_index, offset_start, treeFile, drawn>>
  BY DEF CreateTree, PlacesInv, RowsOfIndex, TreeInv, TreeTypes
<1>2. RowsOfIndex'
  <2>1. <<>> \in Seq(Int) /\ Len(<<>>) = 0 /\ 2..0 = {}
    OBVIOUS
  <2>2. prefix_index' = <<>> /\ offset_start' = <<>> /\ treeStage' # "offsets"
    BY <1>1
  <2> QED BY <2>1, <2>2, TreeSizes DEF RowsOfIndex
<1>3. ASSUME NEW l \in Leaves PROVE IndexInv(l)'
  <2>1. BlockIds(l)' = {}
    <3>1. Len(treeFile') = 0
      BY <1>1
    <3> QED BY <3>1 DEF BlockIds
  <2>2. Cardinality({}) = 0
    BY FS_EmptySet
  <2>3. tree'[l].block_index = index
    BY DEF CreateTree
  <2>4. Len(<<Unset>>) = 1 /\ Len(<<>>) = 0 /\ 1..0 = {} /\ ~(0 > 0)
    OBVIOUS
  <2>5. prefix_index' = <<>> /\ treeStage' # "offsets"
    BY <1>1
  <2>6. Cardinality(BlockIds(l)') = 0
    BY <2>1, <2>2
  <2>7. treeStage' = "generate" => Len(tree'[l].block_index) = 0 + 1
    BY <2>3, <2>4
  <2>8. treeStage' \in {"generate_test", "offsets"} => Len(tree'[l].block_index) = 0
    BY <2>3, <2>4
  <2> HIDE DEF IsBlock
  <2> QED BY <2>4, <2>5, <2>6, <2>7, <2>8 DEF IndexInv
<1>4. (\A l \in Leaves : IndexInv(l))'
  BY <1>3
<1> QED BY <1>2, <1>4 DEF PlacesInv

\* The rows are copied, and the places of each are added up.
LEMMA PlacesIndexed ==
  ASSUME TreeInv, PlacesInv, IndexRows \/ OffsetRow
  PROVE  PlacesInv'
<1>1. treeStage = "offsets" /\ treeStage' \in {"offsets", "done"}
        /\ UNCHANGED <<tree, treeFile, drawn>>
  BY DEF IndexRows, OffsetRow
<1>2. \A l \in Leaves : BlockIds(l)' = BlockIds(l)
  BY <1>1 DEF BlockIds, FileBlock
<1>3. ASSUME NEW l \in Leaves PROVE IndexInv(l)'
  <2>1. IndexInv(l)
    BY <1>1 DEF PlacesInv
  <2> QED BY <1>1, <1>2, <2>1, IndexStays
<1>4. \A l \in Leaves : IndexRow(l)' = IndexRow(l)
  BY <1>1 DEF IndexRow
<1>5. offset_start \in Seq(Int) /\ Len(offset_start) \in Nat
        /\ Len(offset_start) < MAX_CHILDREN
  BY <1>1 DEF PlacesInv, RowsOfIndex
<1>6. RowsOfIndex'
  <2>1. CASE IndexRows
    <3>1. /\ prefix_index = <<>> /\ UNCHANGED <<treeStage, offset_start>>
          /\ prefix_index' = [leaf \in Leaves |-> IndexRow(leaf)]
      BY <2>1 DEF IndexRows, IndexRow
    <3>2. offset_start = <<>>
      BY <3>1 DEF PlacesInv, RowsOfIndex
    <3>3. \A leaf \in Leaves : prefix_index'[leaf] = IndexRow(leaf)'
      BY <1>4, <3>1
    <3>4. Len(<<>>) = 0 /\ 2..0 = {}
      OBVIOUS
    <3>5. offset_start' \in Seq(Int) /\ Len(offset_start') < MAX_CHILDREN
            /\ Len(offset_start') <= MAX_CHILDREN
      BY <1>5, <3>1, TreeSizes
    <3>6. \A leaf \in 2..Len(offset_start') : offset_start'[leaf] =
            offset_start'[leaf - 1] + Len(tree'[leaf - 1].block_index)
      BY <3>1, <3>2, <3>4
    <3> QED BY <1>1, <3>1, <3>2, <3>3, <3>5, <3>6 DEF RowsOfIndex
  <2>2. CASE OffsetRow
    <3>1. /\ prefix_index # <<>> /\ prefix_index' = prefix_index
          /\ offset_start' = Append(offset_start, SumOfRows)
          /\ treeStage' = IF Len(offset_start') = MAX_CHILDREN THEN "done" ELSE treeStage
      BY <2>2 DEF OffsetRow
    <3>2. SumOfRows \in Int
      <4>1. CASE Len(offset_start) = 0
        BY <4>1 DEF SumOfRows
      <4>2. CASE Len(offset_start) # 0
        <5>1. Len(offset_start) \in Leaves
          BY <1>5, <4>2, TreeSizes DEF Leaves
        <5>2. tree[Len(offset_start)].block_index \in Seq(Int)
          BY <1>1, <5>1 DEF TreeInv, TreeTypes
        <5>3. Len(tree[Len(offset_start)].block_index) \in Nat
          BY <5>2
        <5>4. offset_start[Len(offset_start)] \in Int
          BY <1>5, <4>2
        <5> QED BY <4>2, <5>3, <5>4 DEF SumOfRows
      <4> QED BY <4>1, <4>2
    <3>3. PICK n \in Nat : n = Len(offset_start)
      BY <1>5
    <3>4. /\ offset_start' \in Seq(Int) /\ Len(offset_start') = n + 1
          /\ offset_start'[n + 1] = SumOfRows
          /\ \A x \in 1..n : offset_start'[x] = offset_start[x]
      <4>1. ASSUME NEW v \in Int, offset_start' = Append(offset_start, v)
            PROVE  /\ offset_start' \in Seq(Int) /\ Len(offset_start') = n + 1
                   /\ offset_start'[n + 1] = v
                   /\ \A x \in 1..n : offset_start'[x] = offset_start[x]
        BY <1>5, <3>3, <4>1
      <4> QED BY <3>1, <3>2, <4>1
    <3>5. ASSUME NEW leaf \in 2..(n + 1)
          PROVE  offset_start'[leaf] =
                   offset_start'[leaf - 1] + Len(tree[leaf - 1].block_index)
      <4>1. CASE leaf = n + 1
        <5>1. n # 0 /\ n \in 1..n /\ leaf - 1 = n
          BY <4>1
        <5>2. SumOfRows = offset_start[n] + Len(tree[n].block_index)
          BY <3>3, <5>1 DEF SumOfRows
        <5> QED BY <3>4, <4>1, <5>1, <5>2
      <4>2. CASE leaf # n + 1
        <5>1. leaf \in 2..n /\ leaf \in 1..n /\ leaf - 1 \in 1..n
          BY <4>2
        <5>2. offset_start[leaf] =
                offset_start[leaf - 1] + Len(tree[leaf - 1].block_index)
          BY <3>3, <5>1 DEF PlacesInv, RowsOfIndex
        <5> QED BY <3>4, <5>1, <5>2
      <4> QED BY <4>1, <4>2
    <3>6. \A leaf \in Leaves : prefix_index'[leaf] = IndexRow(leaf)'
      BY <1>4, <3>1 DEF PlacesInv, RowsOfIndex
    <3>7. /\ Len(offset_start') <= MAX_CHILDREN
          /\ treeStage' = "offsets" => Len(offset_start') < MAX_CHILDREN
      BY <1>5, <3>1, <3>3, <3>4, TreeSizes
    <3>8. \A leaf \in 2..Len(offset_start') : offset_start'[leaf] =
            offset_start'[leaf - 1] + Len(tree'[leaf - 1].block_index)
      BY <1>1, <3>4, <3>5
    <3>9. treeStage' \notin {"offsets", "done"} => prefix_index' = <<>>
      BY <1>1
    <3>10. prefix_index' = <<>> => offset_start' = <<>>
      BY <3>1
    <3> QED BY <3>4, <3>6, <3>7, <3>8, <3>9, <3>10 DEF RowsOfIndex
  <2> QED BY <2>1, <2>2
<1>7. (\A l \in Leaves : IndexInv(l))'
  BY <1>3
<1> QED BY <1>6, <1>7 DEF PlacesInv

\* Every step of the two programs keeps PlacesInv.
LEMMA PlacesStep == TreeInv /\ PlacesInv /\ [TreeNext]_treeVars => PlacesInv'
<1> SUFFICES ASSUME TreeInv, PlacesInv, [TreeNext]_treeVars PROVE PlacesInv'
  OBVIOUS
<1>1. CASE TreeStart
  BY <1>1, PlacesCreated DEF TreeStart
<1>2. CASE TreeTestStart
  BY <1>2, PlacesCreated DEF TreeTestStart
<1>3. CASE GenerateHash \/ GenerateHashTest
  BY <1>3, StoredPlaces DEF GenerateHash, GenerateHashTest
<1>4. CASE GenerationEnds
  <2>1. /\ tree' = [leaf \in Leaves |-> [tree[leaf] EXCEPT !.hash_block = <<>>]]
        /\ UNCHANGED <<treeFile, drawn, prefix_index, offset_start>>
        /\ \/ treeStage = "generate" /\ treeStage' = "done"
           \/ treeStage = "generate_test" /\ treeStage' = "offsets"
    BY <1>4 DEF GenerationEnds
  <2>2. prefix_index = <<>> /\ offset_start = <<>>
    BY <2>1 DEF PlacesInv, RowsOfIndex
  <2>3. RowsOfIndex'
    <3>1. <<>> \in Seq(Int) /\ Len(<<>>) = 0 /\ 2..0 = {}
      OBVIOUS
    <3> QED BY <2>1, <2>2, <3>1, TreeSizes DEF RowsOfIndex
  <2>4. ASSUME NEW l \in Leaves PROVE IndexInv(l)'
    <3>1. IndexInv(l)
      BY <2>1 DEF PlacesInv
    <3>2. BlockIds(l)' = BlockIds(l)
      BY <2>1 DEF BlockIds, FileBlock
    <3>3. tree[l] \in [hash_block : Seq(Nat), block_index : Seq(Int)]
      BY <2>1 DEF TreeInv, TreeTypes
    <3>4. tree'[l].block_index = tree[l].block_index
      BY <2>1, <3>3
    <3> QED BY <2>1, <2>2, <3>1, <3>2, <3>4, IndexStays
  <2>5. (\A l \in Leaves : IndexInv(l))'
    BY <2>4
  <2> QED BY <2>3, <2>5 DEF PlacesInv
<1>5. CASE IndexRows \/ OffsetRow
  BY <1>5, PlacesIndexed
<1>6. CASE UNCHANGED treeVars
  <2>1. UNCHANGED <<treeStage, tree, treeFile, drawn, prefix_index, offset_start>>
    BY <1>6 DEF treeVars
  <2>2. \A l \in Leaves : IndexRow(l)' = IndexRow(l) /\ BlockIds(l)' = BlockIds(l)
    BY <2>1 DEF IndexRow, BlockIds, FileBlock
  <2>3. RowsOfIndex'
    BY <2>1, <2>2 DEF PlacesInv, RowsOfIndex
  <2>4. treeStage # "off" => (\A l \in Leaves : IndexInv(l))'
    BY <2>1, <2>2, IndexStays DEF PlacesInv
  <2> QED BY <2>1, <2>3, <2>4 DEF PlacesInv
<1> QED BY <1>1, <1>2, <1>3, <1>4, <1>5, <1>6 DEF TreeNext

\* PlacesInv holds before a program is started.
LEMMA PlacesInvInit == TreeInit => PlacesInv
<1>1. <<>> \in Seq(Int) /\ Len(<<>>) = 0 /\ 2..0 = {}
  OBVIOUS
<1> QED BY <1>1, TreeSizes DEF TreeInit, PlacesInv, RowsOfIndex

\* The numbers a leaf keeps of its blocks are right, for any number of leaves
\* and any size of a block, although the first program keeps only the last
\* and the second copies only two (HashTreeFile!IndexNamesBlocks).
THEOREM IndexIsRight == ToolsSpec => []IndexNamesBlocks
<1>1. ToolsInit => TreeInv /\ PlacesInv
  BY TreeInvInit, PlacesInvInit DEF ToolsInit
<1>2. TreeInv /\ PlacesInv /\ [ToolsNext]_toolsVars => TreeInv' /\ PlacesInv'
  BY TreeStep, PlacesStep
     DEF ToolsNext, TreeRuns, BlockSortRuns, HashThreadsRun,
         ProofOfWorkRuns, SortParallelRuns, toolsVars
<1>3. ASSUME TreeInv, PlacesInv PROVE IndexNamesBlocks
  <2> SUFFICES ASSUME treeStage # "off", NEW leaf \in Leaves
               PROVE  LET blocks == Cardinality(BlockIds(leaf))
                          index  == tree[leaf].block_index
                      IN /\ \A x \in 1..blocks :
                              index[x] # Unset => IsBlock(leaf, x, index[x])
                         /\ blocks > 0 => index[blocks] # Unset
                         /\ prefix_index # <<>> =>
                              /\ Len(index) = blocks
                              /\ \A x \in 1..blocks :
                                   /\ index[x] # Unset
                                   /\ prefix_index[leaf][x] =
                                        IF x <= 2 THEN index[x] ELSE Unset
                         /\ leaf \in 2..Len(offset_start) => offset_start[leaf] =
                              offset_start[leaf - 1]
                                + Cardinality(BlockIds(leaf - 1))
    BY DEF IndexNamesBlocks
  <2>1. IndexInv(leaf) /\ RowsOfIndex
    BY <1>3 DEF PlacesInv
  <2>2. prefix_index # <<>> =>
          \A x \in 1..Len(tree[leaf].block_index) :
            prefix_index[leaf][x] =
              IF x <= 2 THEN tree[leaf].block_index[x] ELSE Unset
    BY <2>1 DEF RowsOfIndex, IndexRow, POINTER
  <2>3. ASSUME leaf \in 2..Len(offset_start)
        PROVE  offset_start[leaf] =
                 offset_start[leaf - 1] + Cardinality(BlockIds(leaf - 1))
    <3>1. leaf - 1 \in Leaves
      BY <2>3, TreeSizes DEF Leaves
    <3>2. prefix_index # <<>>
      <4>1. offset_start # <<>>
        BY <2>3
      <4> QED BY <2>1, <4>1 DEF RowsOfIndex
    <3>3. Len(tree[leaf - 1].block_index) = Cardinality(BlockIds(leaf - 1))
      BY <1>3, <3>1, <3>2 DEF PlacesInv, IndexInv
    <3> QED BY <2>1, <2>3, <3>3 DEF RowsOfIndex
  <2> QED BY <2>1, <2>2, <2>3 DEF IndexInv
<1> QED BY <1>1, <1>2, <1>3, PTL DEF ToolsSpec
=============================================================================
