---------------------------- MODULE BinarySearch ----------------------------
(***************************************************************************)
(* binarySearch of src/dsc_py/hash-search/buckets/bsearch.c, one iteration *)
(* of its loop at a time, with the widths of its integers: left and right  *)
(* are of type size_t, mid is an int, and "mid - 1" is assigned to right.  *)
(*                                                                         *)
(* A hash is a number, ordered as memcmp orders the bytes.  A read outside *)
(* of the array gives what lies in front of it in memory, which does not   *)
(* change during the search.                                               *)
(*                                                                         *)
(* An operator marked "Slip" is no part of the specification: it is the    *)
(* operator after it with a mistake in it, kept to show which property     *)
(* notices the mistake.                                                    *)
(***************************************************************************)
EXTENDS Integers, SequencesExt

CONSTANTS
  Hashes,    \* the hashes without their prefix
  MaxSize,   \* bound: the largest array searched
  SizeRange, \* how many values a size_t has: 2^64
  IntRange   \* how many values an int has: 2^32

Half(range) == range \div 2

\* What the proofs use of the two powers of two.
ASSUME SearchAssumption ==
  /\ Hashes \subseteq Nat
  /\ {MaxSize, SizeRange, IntRange} \subseteq Nat \ {0}
  /\ SizeRange % 2 = 0
  /\ IntRange % 2 = 0
  /\ Half(SizeRange) % IntRange = 0
  /\ MaxSize < Half(IntRange)

VARIABLES
  bucket,   \* the array
  inFront,  \* what is read outside of it
  target,
  left,
  right,
  result    \* what the function returns; Running before it does

svars == <<bucket, inFront, target, left, right, result>>

Running == -2

size_t(n) == n % SizeRange
int(n) == ((n + Half(IntRange)) % IntRange) - Half(IntRange)

mid == int(left + size_t(right - left) \div 2)

\* array[mid].byteArray
Probed == IF mid \in 0..(Len(bucket) - 1) THEN bucket[mid + 1] ELSE inFront

Start(array, hash) ==
  /\ bucket' = array
  /\ target' = hash
  /\ left' = 0
  /\ right' = size_t(Len(array) - 1)
  /\ result' = Running
  /\ UNCHANGED inFront

Looping == result = Running /\ left <= right

\* return mid
Match ==
  /\ Looping
  /\ target = Probed
  /\ result' = mid
  /\ UNCHANGED <<bucket, inFront, target, left, right>>

\* Slip: the bound is one too low.
GoFarLeft ==
  /\ Looping
  /\ target < Probed
  /\ right' = size_t(mid - 2)
  /\ UNCHANGED <<bucket, inFront, target, left, result>>

\* right = mid - 1, converted to size_t
GoLeft ==
  /\ Looping
  /\ target < Probed
  /\ right' = size_t(mid - 1)
  /\ UNCHANGED <<bucket, inFront, target, left, result>>

\* left = mid + 1
GoRight ==
  /\ Looping
  /\ target > Probed
  /\ left' = size_t(mid + 1)
  /\ UNCHANGED <<bucket, inFront, target, right, result>>

\* return -1 after the loop
GiveUp ==
  /\ result = Running
  /\ left > right
  /\ result' = -1
  /\ UNCHANGED <<bucket, inFront, target, left, right>>

Step == Match \/ GoLeft \/ GoRight \/ GiveUp

-----------------------------------------------------------------------------
(* The function on its own, on every sorted array.                         *)

Init ==
  /\ bucket \in UNION {TupleOf(Hashes, n) : n \in 1..MaxSize}
  /\ \A a, b \in DOMAIN bucket : a < b => bucket[a] <= bucket[b]
  /\ inFront \in Hashes
  /\ target \in Hashes
  /\ left = 0
  /\ right = size_t(Len(bucket) - 1)
  /\ result = Running

Return == result # Running /\ UNCHANGED svars

Next == Step \/ Return

Spec == Init /\ [][Next]_svars
FairSpec == Spec /\ WF_svars(Step)

-----------------------------------------------------------------------------
TypeOK ==
  /\ bucket \in Seq(Hashes)
  /\ inFront \in Hashes
  /\ target \in Hashes
  /\ left \in 0..(SizeRange - 1)
  /\ right \in 0..(SizeRange - 1)
  /\ result \in Int

Present == target \in Range(bucket)

\* The search answers -1 exactly when the array does not hold the target,
\* and else a position of it, also when the array has it several times and
\* when right wrapped around.
AnswerIsRight ==
  result # Running =>
    \/ result = -1 /\ ~Present
    \/ result \in 0..(Len(bucket) - 1) /\ bucket[result + 1] = target

\* The target is never outside of what is left to search.
NotCutOff ==
  result = Running /\ Present =>
    \E k \in DOMAIN bucket : bucket[k] = target /\ left < k /\ k - 1 <= right

\* Memory is only read outside of the array when the target is smaller than
\* all that the array holds.
ReadsInside ==
  Looping /\ mid \notin 0..(Len(bucket) - 1) =>
    \A k \in DOMAIN bucket : target < bucket[k]

\* The search returns, whatever it looks for.
Returns == <>(result # Running)

\* The search returns, unless the target is smaller than all hashes there.
ReturnsUnlessBelow ==
  <>(result # Running \/ \A k \in DOMAIN bucket : target < bucket[k])
=============================================================================
