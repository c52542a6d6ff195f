-------------------------------- MODULE Plot --------------------------------
(***************************************************************************)
(* The plot file of src/dsc_py/hash-search/buckets and the programs run on *)
(* it one after the other: hashgen.c fills it with random hashes, psort.c  *)
(* sorts it with NumThreads threads or sort.c without any,                 *)
(* generate_search.c picks hashes of it, and bsearch.c looks them up by    *)
(* halves, search.c one after the other.                                   *)
(*                                                                         *)
(* A random hash is a prefix, which selects a bucket, and the rest, which  *)
(* is stored (the number NONCE beside it is never read).  Offsets count    *)
(* entries, not bytes.  The file is a sequence, longer than it should be   *)
(* when the last bucket overflows.  Failures of the file system end a      *)
(* program with a message and are left out.                                *)
(*                                                                         *)
(* An operator marked "Slip" is no part of the specification: it is the    *)
(* operator after it with a mistake in it, kept to show which property     *)
(* notices the mistake.                                                    *)
(***************************************************************************)
EXTENDS Integers, FiniteSets, SequencesExt

CONSTANTS
  Hashes,               \* the stored part of hashes; 0 is all zeros
  numBuckets,           \* one for each prefix
  hashesPerBucketRead,  \* the share of a bucket in the file
  hashesPerBucket,      \* the buffer of a bucket in hashgen
  maxHashesToSort,
  NumThreads,
  Leftovers,            \* what malloc may leave in the buffers
  SizeRange,
  IntRange

numberOfHashesInBucket ==
  IF hashesPerBucketRead < maxHashesToSort THEN hashesPerBucketRead
  ELSE maxHashesToSort

numberOfBucketsToSort ==
  (hashesPerBucketRead \div numberOfHashesInBucket) * numBuckets

\* common.c, where all of these are powers of two.
ASSUME PlotAssumption ==
  /\ {numBuckets, hashesPerBucketRead, hashesPerBucket, maxHashesToSort,
      NumThreads} \subseteq Nat \ {0}
  /\ Hashes \subseteq Nat
  /\ Leftovers \subseteq Nat
  /\ hashesPerBucketRead % hashesPerBucket = 0
  /\ hashesPerBucketRead % numberOfHashesInBucket = 0
  /\ numberOfBucketsToSort % NumThreads = 0

\* The widths of size_t and int, as in BinarySearch, and a part read at once
\* has far fewer hashes than an int can count.
ASSUME WidthAssumption ==
  /\ {SizeRange, IntRange} \subseteq Nat \ {0}
  /\ SizeRange % 2 = 0
  /\ IntRange % 2 = 0
  /\ (SizeRange \div 2) % IntRange = 0
  /\ numberOfHashesInBucket < IntRange \div 2

MAX_HASHES == numBuckets * hashesPerBucketRead
BucketIds == 0..(numBuckets - 1)
Threads == 0..(NumThreads - 1)

VARIABLES
  stage,        \* where the programs are
  file,         \* plot.memo
  array2D,      \* the buffer of each prefix
  bucketIndex,  \* how much of the buffer is filled
  bucketFlush,  \* how often it was written
  i,            \* the counter of the main loop of each program
  buckets,      \* what psort has read
  sorting,      \* the threads of psort that did not end yet
  prefix,       \* the bucket searched
  j,            \* the part of the bucket searched
  found,
  generated,    \* history: all that was generated with each prefix
  bucket, inFront, target, left, right, result  \* binarySearch

B == INSTANCE BinarySearch WITH MaxSize <- numberOfHashesInBucket

hashgen == <<array2D, bucketIndex, bucketFlush, generated>>
psort == <<buckets, sorting>>
search == <<prefix, j, found, bucket, inFront, target, left, right, result>>
vars == <<stage, file, i, hashgen, psort, search>>

Zeros(n) == [k \in 1..n |-> 0]

\* fwrite of data at the offset start.
Write(data, start) ==
  LET end == start + Len(data)
  IN  file' = [k \in 1..(IF end > Len(file) THEN end ELSE Len(file)) |->
                 IF k \in (start + 1)..end THEN data[k - start]
                 ELSE IF k <= Len(file) THEN file[k] ELSE 0]

Read(start, n) == SubSeq(file, start + 1, start + n)

Init ==
  /\ stage = "generate"
  /\ file = Zeros(MAX_HASHES)
  /\ \E h \in Leftovers :
       array2D = [p \in BucketIds |-> [k \in 1..hashesPerBucket |-> h]]
  /\ bucketIndex = [p \in BucketIds |-> 0]
  /\ bucketFlush = [p \in BucketIds |-> 0]
  /\ i = 0
  /\ buckets = <<>>
  /\ sorting = {}
  /\ prefix = 0
  /\ j = 0
  /\ found = FALSE
  /\ generated = [p \in BucketIds |-> {}]
  /\ bucket = <<>>
  /\ inFront \in Hashes
  /\ target = 0
  /\ left = 0
  /\ right = 0
  /\ result = -1

-----------------------------------------------------------------------------
(* hashgen.c                                                               *)

\* Slip: the location that is commented out at line 182.
LocationOfLine182(p) == p + bucketFlush[p] * hashesPerBucket

write_location(p) == p * hashesPerBucketRead + bucketFlush[p] * hashesPerBucket

\* bucketIndex[prefix]++, and 0 again when the buffer is full.
NextIndex(n) == IF n + 1 = hashesPerBucket THEN 0 ELSE n + 1

\* One more random hash, and the write of a buffer that is full.
Generate(p, hash) ==
  LET buffer == [array2D[p] EXCEPT ![bucketIndex[p] + 1] = hash]
      full == bucketIndex[p] + 1 = hashesPerBucket
  IN  /\ stage = "generate"
      /\ array2D' = [array2D EXCEPT ![p] = buffer]
      /\ generated' = [generated EXCEPT ![p] = @ \cup {hash}]
      /\ bucketIndex' = [bucketIndex EXCEPT ![p] = NextIndex(@)]
      /\ bucketFlush' = [bucketFlush EXCEPT ![p] = IF full THEN @ + 1 ELSE @]
      /\ IF full THEN Write(buffer, write_location(p)) ELSE UNCHANGED file
      /\ i' = IF i + 1 = MAX_HASHES THEN 0 ELSE i + 1
      /\ stage' = IF i + 1 = MAX_HASHES THEN "flush" ELSE stage
      /\ UNCHANGED <<psort, search>>

share == hashesPerBucketRead \div hashesPerBucket

\* Slip: buckets that were never written are left alone.
FlushStarted ==
  /\ stage = "flush"
  /\ IF bucketFlush[i] < share /\ bucketFlush[i] > 0
       THEN /\ Write(array2D[i], write_location(i))
            /\ bucketFlush' = [bucketFlush EXCEPT ![i] = @ + 1]
            /\ bucketIndex' = [bucketIndex EXCEPT ![i] = 0]
       ELSE UNCHANGED <<file, bucketFlush, bucketIndex>>
  /\ i' = IF i + 1 = numBuckets THEN 0 ELSE i + 1
  /\ stage' = IF i + 1 = numBuckets THEN "read" ELSE stage
  /\ UNCHANGED <<array2D, generated, psort, search>>

\* The last loop: one more buffer, as it is, of each bucket with space left.
FlushRest ==
  /\ stage = "flush"
  /\ IF bucketFlush[i] < share
       THEN /\ Write(array2D[i], write_location(i))
            /\ bucketFlush' = [bucketFlush EXCEPT ![i] = @ + 1]
            /\ bucketIndex' = [bucketIndex EXCEPT ![i] = 0]
       ELSE UNCHANGED <<file, bucketFlush, bucketIndex>>
  /\ i' = IF i + 1 = numBuckets THEN 0 ELSE i + 1
  /\ IF i + 1 = numBuckets THEN stage' \in {"read", "sortAlone"} ELSE UNCHANGED stage
  /\ UNCHANGED <<array2D, generated, psort, search>>

-----------------------------------------------------------------------------
(* psort.c and sort.c                                                      *)

Batch == numberOfHashesInBucket * NumThreads

\* Steps 1 and 2, and the start of the threads.
ReadBuckets ==
  /\ stage = "read"
  /\ buckets' = Read(i * Batch, Batch)
  /\ sorting' = Threads
  /\ stage' = "sort"
  /\ UNCHANGED <<file, i, hashgen, search>>

\* qsort with compareHashObjects: what it is given, in order.
qsort(part) ==
  LET order == CHOOSE f \in Bijection(DOMAIN part, DOMAIN part) :
                 \A x, y \in DOMAIN part : x < y => part[f[x]] <= part[f[y]]
  IN  [k \in DOMAIN part |-> part[order[k]]]

\* The sort of the part of thread t.
Sorted(t) ==
  LET start == t * numberOfHashesInBucket
      end == start + numberOfHashesInBucket
      part == qsort(SubSeq(buckets, start + 1, end))
  IN  [k \in DOMAIN buckets |->
         IF k \in (start + 1)..end THEN part[k - start] ELSE buckets[k]]

\* sort.c, and sort1.c but for its clock: a part is read, sorted and written.
SortBucketAlone ==
  LET start == i * numberOfHashesInBucket
      last == i + 1 = numberOfBucketsToSort
  IN  /\ stage = "sortAlone"
      /\ Write(qsort(Read(start, numberOfHashesInBucket)), start)
      /\ i' = IF last THEN 0 ELSE i + 1
      /\ stage' = IF last THEN "pick" ELSE stage
      /\ UNCHANGED <<hashgen, psort, search>>

\* Slip: the threads get the address of the loop variable, as they do in
\* sort_parallel.c, and read it while it is counted up.
SortSomeBucket(t) ==
  /\ stage = "sort"
  /\ t \in sorting
  /\ \E u \in Threads : u >= t /\ buckets' = Sorted(u)
  /\ sorting' = sorting \ {t}
  /\ UNCHANGED <<stage, file, i, hashgen, search>>

sortBucket(t) ==
  /\ stage = "sort"
  /\ t \in sorting
  /\ buckets' = Sorted(t)
  /\ sorting' = sorting \ {t}
  /\ UNCHANGED <<stage, file, i, hashgen, search>>

\* All threads joined: steps 4 and 5.
WriteBuckets ==
  LET last == i + 1 = numberOfBucketsToSort \div NumThreads
  IN  /\ stage = "sort"
      /\ sorting = {}
      /\ Write(buckets, i * Batch)
      /\ buckets' = <<>>
      /\ i' = IF last THEN 0 ELSE i + 1
      /\ stage' = IF last THEN "pick" ELSE "read"
      /\ UNCHANGED <<sorting, hashgen, search>>

-----------------------------------------------------------------------------
(* generate_search.c, bsearch.c and search.c                               *)

\* A random entry of a random bucket, again if it is all zeros.
PickTarget(random_bucket, random_index) ==
  LET hash == file[random_bucket * hashesPerBucketRead + random_index + 1]
  IN  /\ stage = "pick"
      /\ hash # 0
      /\ prefix' = random_bucket
      /\ target' = hash
      /\ j' = 0
      /\ found' = FALSE
      /\ stage' = "load"
      /\ UNCHANGED <<file, i, hashgen, psort, bucket, inFront, left, right, result>>

PickZero(random_bucket, random_index) ==
  /\ stage = "pick"
  /\ file[random_bucket * hashesPerBucketRead + random_index + 1] = 0
  /\ UNCHANGED vars

numberOfSortedBuckets ==
  IF hashesPerBucketRead < maxHashesToSort THEN 1
  ELSE hashesPerBucketRead \div maxHashesToSort

\* Steps 2 and 3, and the call of binarySearch.
LoadBucket ==
  /\ stage = "load"
  /\ B!Start(Read(prefix * hashesPerBucketRead + j * numberOfHashesInBucket,
                  numberOfHashesInBucket), target)
  /\ stage' = "search"
  /\ UNCHANGED <<file, i, hashgen, psort, prefix, j, found>>

SearchBucket ==
  /\ stage = "search"
  /\ B!Step
  /\ UNCHANGED <<stage, file, i, hashgen, psort, prefix, j, found>>

\* if search_result != -1 ... break
TakeResult ==
  /\ stage = "search"
  /\ result # B!Running
  /\ found' = (result # -1)
  /\ IF result # -1 \/ j + 1 = numberOfSortedBuckets
       THEN stage' = "answered" /\ UNCHANGED j
       ELSE stage' = "load" /\ j' = j + 1
  /\ UNCHANGED <<file, i, hashgen, psort, prefix, bucket, inFront, target,
                 left, right, result>>

\* search.c reads the whole share and looks at one hash after the other
\* until it meets the target; found is set nowhere, and j tells the end.
ScanBucket ==
  LET share_read == Read(prefix * hashesPerBucketRead, hashesPerBucketRead)
      places == {k \in 1..hashesPerBucketRead : share_read[k] = target}
  IN  /\ stage = "load" /\ j = 0
      /\ j' = IF places = {} THEN hashesPerBucketRead ELSE Min(places) - 1
      /\ stage' = "scanned"
      /\ UNCHANGED <<file, i, hashgen, psort, prefix, found, bucket, inFront,
                     target, left, right, result>>

\* The next of the SEARCH_COUNT hashes; what an iteration declares ends.
NextTarget ==
  /\ stage \in {"answered", "scanned"}
  /\ stage' = "pick"
  /\ j' = 0
  /\ found' = FALSE
  /\ left' = 0
  /\ right' = 0
  /\ result' = -1
  /\ UNCHANGED <<file, i, hashgen, psort, prefix, bucket, inFront, target>>

Next ==
  \/ \E p \in BucketIds, h \in Hashes : Generate(p, h)
  \/ FlushRest
  \/ ReadBuckets
  \/ \E t \in Threads : sortBucket(t)
  \/ WriteBuckets
  \/ SortBucketAlone
  \/ \E b \in BucketIds, k \in 0..(hashesPerBucketRead - 1) :
       PickTarget(b, k) \/ PickZero(b, k)
  \/ LoadBucket
  \/ SearchBucket
  \/ TakeResult
  \/ ScanBucket
  \/ NextTarget

Spec == Init /\ [][Next]_vars

-----------------------------------------------------------------------------
\* The share of a bucket in the file.
ShareOf(p) == Read(p * hashesPerBucketRead, hashesPerBucketRead)

\* A bucket before p was written so often that it reached into p's share.
Trespassed(p) == \E q \in 0..(p - 1) : bucketFlush[q] > share * (p - q)

\* A bucket keeps to its share, and the others keep out of it.
Undisturbed(p) == bucketFlush[p] <= share /\ ~Trespassed(p)

\* Unless an earlier bucket overflows into it, the share of a bucket holds
\* only hashes generated with its prefix, beside what was never written or
\* never filled, through the writes of hashgen and of the threads of psort.
InItsShare ==
  \A p \in BucketIds :
    ~Trespassed(p) =>
      Range(ShareOf(p)) \subseteq generated[p] \cup Leftovers \cup {0}

Buffered(p) == {array2D[p][k] : k \in 1..bucketIndex[p]}

\* What hashgen has not written yet and, when it has ended (line 213), what
\* it never writes: the buffer of a bucket whose share is full.
LeftOut(p) ==
  IF stage \in {"generate", "flush"} \/ bucketFlush[p] = share
  THEN Buffered(p) ELSE {}

\* A hash generated is in its bucket's share, through all writes and sorts,
\* unless that bucket overflows or is overwritten; at the end only a full
\* share has left out hashes of the last, unfinished buffer.
NothingLost ==
  \A p \in BucketIds :
    Undisturbed(p) => generated[p] \subseteq Range(ShareOf(p)) \cup LeftOut(p)

\* Both searches find every hash that generate_search took from the file,
\* whatever overflowed and although a bucket is sorted in parts.  The search
\* by halves may not come to an answer: when a part before the hash's own has
\* only larger ones (BinarySearch!ReturnsUnlessBelow).
SearchFinds ==
  /\ stage = "answered" => found
  /\ stage = "scanned" => j < hashesPerBucketRead
=============================================================================
