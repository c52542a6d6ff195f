------------------------- MODULE BinarySearchProofs -------------------------
(***************************************************************************)
(* Theorems about BinarySearch, for arrays and integers of any size: the   *)
(* answer of binarySearch is right, although right wraps around.  Whether  *)
(* it answers is checked by TLC.                                           *)
(***************************************************************************)
EXTENDS BinarySearch, TLAPS

\* A sorted array of the size that Init allows.
ArrayInv ==
  /\ bucket \in Seq(Hashes)
  /\ Len(bucket) \in 1..MaxSize
  /\ \A a, b \in 1..Len(bucket) : a < b => bucket[a] <= bucket[b]
  /\ inFront \in Hashes
  /\ target \in Hashes

\* The usual invariant: what lies outside of left..right was excluded.
Narrowing ==
  /\ left \in 0..Len(bucket)
  /\ right \in 0..(Len(bucket) - 1)
  /\ \A k \in 1..Len(bucket) : k - 1 < left => bucket[k] < target
  /\ \A k \in 1..Len(bucket) : k - 1 > right => bucket[k] > target

\* What becomes of it when 0 - 1 was assigned to right.
Wrapped ==
  /\ left = 0
  /\ right \in {SizeRange - 1, SizeRange - 2}
  /\ \A k \in 1..Len(bucket) : target < bucket[k]

SearchInv ==
  /\ ArrayInv
  /\ Narrowing \/ Wrapped
  /\ result \in -2..(Len(bucket) - 1)
  /\ AnswerIsRight

-----------------------------------------------------------------------------
(* Arithmetic of size_t and int.                                           *)

\* The remainder of what is smaller than the divisor.
LEMMA ModSmall ==
  ASSUME NEW m \in Nat \ {0}, NEW x \in 0..(m - 1)
  PROVE  x % m = x
BY Z3

\* The remainder of a negative number.
LEMMA ModNegative ==
  ASSUME NEW m \in Nat \ {0}, NEW x \in 1..m
  PROVE  (-x) % m = m - x
BY Z3

\* A multiple of the divisor does not change the remainder.
LEMMA ModSum ==
  ASSUME NEW m \in Nat \ {0}, NEW x \in Int, x % m = 0, NEW y \in 0..(m - 1)
  PROVE  (x + y) % m = y
BY Z3

\* A positive multiple is not smaller than the divisor.
LEMMA MultipleIsLarge ==
  ASSUME NEW m \in Nat \ {0}, NEW x \in Nat \ {0}, x % m = 0
  PROVE  x >= m
BY Z3

\* Half of an even range.
LEMMA HalfOf ==
  ASSUME NEW m \in Nat \ {0}, m % 2 = 0
  PROVE  /\ Half(m) \in Nat \ {0}
         /\ Half(m) + Half(m) = m
BY DEF Half

\* What the assumption says of the two ranges.
LEMMA Ranges ==
  /\ SizeRange \in Nat \ {0} /\ IntRange \in Nat \ {0} /\ MaxSize \in Nat \ {0}
  /\ Half(SizeRange) \in Nat \ {0}
  /\ Half(IntRange) \in Nat \ {0}
  /\ Half(SizeRange) + Half(SizeRange) = SizeRange
  /\ Half(IntRange) + Half(IntRange) = IntRange
  /\ Half(SizeRange) >= IntRange
  /\ MaxSize < Half(IntRange)
<1>1. /\ SizeRange \in Nat \ {0} /\ SizeRange % 2 = 0
      /\ IntRange \in Nat \ {0} /\ IntRange % 2 = 0
      /\ MaxSize \in Nat \ {0}
      /\ Half(SizeRange) % IntRange = 0
      /\ MaxSize < Half(IntRange)
  BY SearchAssumption
<1>2. /\ Half(SizeRange) \in Nat \ {0}
      /\ Half(SizeRange) + Half(SizeRange) = SizeRange
  BY <1>1, HalfOf
<1>3. /\ Half(IntRange) \in Nat \ {0}
      /\ Half(IntRange) + Half(IntRange) = IntRange
  BY <1>1, HalfOf
<1>4. Half(SizeRange) >= IntRange
  BY <1>1, <1>2, MultipleIsLarge
<1> QED BY <1>1, <1>2, <1>3, <1>4

\* An int holds what is smaller than half of its range ...
LEMMA SmallInt ==
  ASSUME NEW n \in 0..(Half(IntRange) - 1)
  PROVE  int(n) = n
<1>1. n + Half(IntRange) \in 0..(IntRange - 1)
  BY Ranges
<1>2. (n + Half(IntRange)) % IntRange = n + Half(IntRange)
  BY <1>1, ModSmall, Ranges
<1> QED BY <1>2, Ranges DEF int

\* ... and turns the largest half of a size_t into -1.
LEMMA HalfwayInt == int(Half(SizeRange) - 1) = -1
<1> DEFINE y == Half(IntRange) - 1
<1>1. /\ y \in 0..(IntRange - 1)
      /\ Half(SizeRange) - 1 + Half(IntRange) = Half(SizeRange) + y
  BY Ranges
<1>2. (Half(SizeRange) + y) % IntRange = y
  <2>1. Half(SizeRange) % IntRange = 0
    BY SearchAssumption
  <2> HIDE DEF y
  <2> QED BY <1>1, <2>1, ModSum, Ranges, SMTT(30)
<1>3. (Half(SizeRange) - 1 + Half(IntRange)) % IntRange = Half(IntRange) - 1
  BY <1>1, <1>2
<1> QED BY <1>3, Ranges DEF int

\* A size_t holds the numbers of its range.
LEMMA SmallSize ==
  ASSUME NEW n \in 0..(SizeRange - 1)
  PROVE  size_t(n) = n
BY ModSmall, Ranges DEF size_t

\* -1 and -2 as a size_t.
LEMMA NegativeSize ==
  /\ size_t(-1) = SizeRange - 1
  /\ size_t(-2) = SizeRange - 2
<1>1. 1 \in 1..SizeRange /\ 2 \in 1..SizeRange
  BY Ranges
<1> QED BY <1>1, ModNegative, Ranges DEF size_t

\* An array and its elements are natural numbers.
LEMMA ArrayFacts ==
  ASSUME ArrayInv
  PROVE  /\ Len(bucket) \in Nat \ {0}
         /\ Len(bucket) <= MaxSize
         /\ DOMAIN bucket = 1..Len(bucket)
         /\ target \in Nat
         /\ \A k \in 1..Len(bucket) : bucket[k] \in Nat
<1>1. Hashes \subseteq Nat
  BY SearchAssumption
<1>2. /\ Len(bucket) \in Nat \ {0}
      /\ Len(bucket) <= MaxSize
  BY Ranges DEF ArrayInv
<1>3. DOMAIN bucket = 1..Len(bucket)
  BY DEF ArrayInv
<1>4. \A k \in 1..Len(bucket) : bucket[k] \in Hashes
  BY <1>2 DEF ArrayInv
<1> QED BY <1>1, <1>2, <1>3, <1>4 DEF ArrayInv

-----------------------------------------------------------------------------
(* The element compared.                                                   *)

\* While the search narrows it compares an element between left and right.
LEMMA MidInside ==
  ASSUME ArrayInv, Narrowing, left <= right
  PROVE  /\ mid \in left..right
         /\ mid \in 0..(Len(bucket) - 1)
         /\ Probed = bucket[mid + 1]
         /\ Probed \in Nat
<1> DEFINE d == (right - left) \div 2
<1>1. /\ left \in Nat /\ right \in Nat
      /\ Len(bucket) \in Nat
      /\ right < Len(bucket)
      /\ Len(bucket) <= MaxSize
  BY ArrayFacts DEF Narrowing
<1>2. right - left \in 0..(SizeRange - 1)
  BY <1>1, Ranges
<1>3. size_t(right - left) = right - left
  BY <1>2, SmallSize
<1>4. left + d \in left..right
  BY <1>1
<1>5. left + d \in 0..(Half(IntRange) - 1)
  BY <1>1, <1>4, Ranges, SMTT(30)
<1>6. mid = left + d
  BY <1>3, <1>5, SmallInt DEF mid
<1>7. mid \in left..right /\ mid \in 0..(Len(bucket) - 1)
  BY <1>1, <1>4, <1>6
<1>8. Probed = bucket[mid + 1]
  BY <1>7 DEF Probed
<1>9. bucket[mid + 1] \in Hashes
  BY <1>1, <1>7 DEF ArrayInv
<1> QED BY <1>7, <1>8, <1>9, SearchAssumption

\* When it has wrapped around it compares what lies in front of the array.
LEMMA MidInFront ==
  ASSUME ArrayInv, Wrapped
  PROVE  mid = -1 /\ Probed = inFront
<1>1. right - left \in 0..(SizeRange - 1) /\ right - left = right
  BY Ranges DEF Wrapped
<1>2. size_t(right - left) = right
  BY <1>1, SmallSize
<1>3. left + right \div 2 = Half(SizeRange) - 1
  BY Ranges DEF Wrapped
<1>4. mid = -1
  BY <1>2, <1>3, HalfwayInt DEF mid
<1> QED BY <1>4 DEF Probed, ArrayInv

-----------------------------------------------------------------------------
(* SearchInv is an invariant.                                              *)

\* An array is not empty and all of it is to be searched.
LEMMA InitSearch == Init => SearchInv
<1> SUFFICES ASSUME Init PROVE SearchInv
  OBVIOUS
<1>1. PICK n \in 1..MaxSize : bucket \in TupleOf(Hashes, n)
  BY DEF Init
<1>2. n \in Nat
  BY <1>1, Ranges
<1>3. bucket \in [1..n -> Hashes]
  BY <1>1 DEF TupleOf
<1>4. bucket \in Seq(Hashes) /\ Len(bucket) = n /\ DOMAIN bucket = 1..n
  BY <1>2, <1>3
<1>5. ArrayInv
  BY <1>4 DEF Init, ArrayInv
<1>6. Len(bucket) - 1 \in 0..(SizeRange - 1)
  BY <1>1, <1>4, Ranges
<1>7. left = 0 /\ right = Len(bucket) - 1 /\ result = -2
  BY <1>6, SmallSize DEF Init, Running
<1>8. Narrowing
  BY <1>2, <1>1, <1>4, <1>7 DEF Narrowing
<1>9. AnswerIsRight
  BY <1>7 DEF AnswerIsRight, Running
<1> QED BY <1>1, <1>2, <1>4, <1>5, <1>7, <1>8, <1>9 DEF SearchInv

\* As long as the search runs there is no answer to be wrong.
LEMMA MatchSearch == SearchInv /\ Match => SearchInv'
<1> SUFFICES ASSUME SearchInv, Match PROVE SearchInv'
  OBVIOUS
<1>1. /\ UNCHANGED <<bucket, inFront, target, left, right>>
      /\ left <= right /\ target = Probed /\ result' = mid
  BY DEF Match, Looping
<1>2. ArrayInv' /\ (Narrowing \/ Wrapped)'
  BY <1>1 DEF SearchInv, ArrayInv, Narrowing, Wrapped
<1>3. CASE Narrowing
  <2>1. mid \in 0..(Len(bucket) - 1) /\ bucket[mid + 1] = target
    BY <1>1, <1>3, MidInside DEF SearchInv
  <2>2. AnswerIsRight'
    BY <1>1, <2>1 DEF AnswerIsRight
  <2>3. result' \in -2..(Len(bucket') - 1)
    BY <1>1, <2>1 DEF SearchInv, ArrayInv
  <2> QED BY <1>2, <2>2, <2>3 DEF SearchInv
<1>4. CASE Wrapped
  <2>1. mid = -1
    BY <1>4, MidInFront DEF SearchInv
  <2>2. /\ DOMAIN bucket = 1..Len(bucket) /\ target \in Nat
        /\ \A k \in 1..Len(bucket) : bucket[k] \in Nat
    BY ArrayFacts DEF SearchInv
  <2>3. ~Present
    BY <1>4, <2>2 DEF Wrapped, Present, Range
  <2>4. AnswerIsRight'
    BY <1>1, <2>1, <2>3 DEF AnswerIsRight, Present
  <2>5. result' \in -2..(Len(bucket') - 1)
    BY <1>1, <2>1 DEF SearchInv, ArrayInv
  <2> QED BY <1>2, <2>4, <2>5 DEF SearchInv
<1> QED BY <1>3, <1>4 DEF SearchInv

\* right = mid - 1 excludes what is not smaller than the element compared,
\* or wraps around when that was the first one.
LEMMA LeftSearch == SearchInv /\ GoLeft => SearchInv'
<1> SUFFICES ASSUME SearchInv, GoLeft PROVE SearchInv'
  OBVIOUS
<1>1. /\ UNCHANGED <<bucket, inFront, target, left, result>>
      /\ left <= right /\ target < Probed /\ right' = size_t(mid - 1)
      /\ result = Running
  BY DEF GoLeft, Looping
<1>2. ArrayInv'
  BY <1>1 DEF SearchInv, ArrayInv
<1>3. AnswerIsRight' /\ result' \in -2..(Len(bucket') - 1)
  BY <1>1 DEF SearchInv, AnswerIsRight, Present
<1>4. /\ Len(bucket) \in Nat /\ target \in Nat
      /\ \A k \in 1..Len(bucket) : bucket[k] \in Nat
      /\ Len(bucket) <= MaxSize
  BY ArrayFacts DEF SearchInv
<1>5. CASE Narrowing
  <2>1. /\ mid \in left..right /\ mid \in 0..(Len(bucket) - 1)
        /\ Probed = bucket[mid + 1]
    BY <1>1, <1>5, MidInside DEF SearchInv
  <2>2. \A k \in 1..Len(bucket) : k > mid => target < bucket[k]
    <3>1. \A a, b \in 1..Len(bucket) : a < b => bucket[a] <= bucket[b]
      BY DEF SearchInv, ArrayInv
    <3>2. mid + 1 \in 1..Len(bucket)
      BY <1>4, <2>1
    <3> QED BY <1>1, <1>4, <2>1, <3>1, <3>2
  <2>3. CASE mid = 0
    <3>1. left = 0
      BY <1>5, <2>1, <2>3 DEF Narrowing
    <3>2. right' = SizeRange - 1
      BY <1>1, <2>3, NegativeSize
    <3>3. Wrapped'
      BY <1>1, <1>4, <2>2, <2>3, <3>1, <3>2 DEF Wrapped
    <3> QED BY <1>2, <1>3, <3>3 DEF SearchInv
  <2>4. CASE mid # 0
    <3>1. mid - 1 \in 0..(SizeRange - 1)
      BY <1>4, <2>1, <2>4, Ranges
    <3>2. right' = mid - 1
      BY <1>1, <3>1, SmallSize
    <3>3. Narrowing'
      BY <1>1, <1>4, <1>5, <2>1, <2>2, <2>4, <3>2 DEF Narrowing
    <3> QED BY <1>2, <1>3, <3>3 DEF SearchInv
  <2> QED BY <2>3, <2>4
<1>6. CASE Wrapped
  <2>1. mid = -1
    BY <1>6, MidInFront DEF SearchInv
  <2>2. right' = SizeRange - 2
    BY <1>1, <2>1, NegativeSize
  <2>3. Wrapped'
    BY <1>1, <1>6, <2>2 DEF Wrapped
  <2> QED BY <1>2, <1>3, <2>3 DEF SearchInv
<1> QED BY <1>5, <1>6 DEF SearchInv

\* left = mid + 1 excludes what is not larger than the element compared.
LEMMA RightSearch == SearchInv /\ GoRight => SearchInv'
<1> SUFFICES ASSUME SearchInv, GoRight PROVE SearchInv'
  OBVIOUS
<1>1. /\ UNCHANGED <<bucket, inFront, target, right, result>>
      /\ left <= right /\ target > Probed /\ left' = size_t(mid + 1)
      /\ result = Running
  BY DEF GoRight, Looping
<1>2. ArrayInv'
  BY <1>1 DEF SearchInv, ArrayInv
<1>3. AnswerIsRight' /\ result' \in -2..(Len(bucket') - 1)
  BY <1>1 DEF SearchInv, AnswerIsRight, Present
<1>4. /\ Len(bucket) \in Nat /\ target \in Nat
      /\ \A k \in 1..Len(bucket) : bucket[k] \in Nat
      /\ Len(bucket) <= MaxSize
  BY ArrayFacts DEF SearchInv
<1>5. CASE Narrowing
  <2>1. /\ mid \in left..right /\ mid \in 0..(Len(bucket) - 1)
        /\ Probed = bucket[mid + 1]
    BY <1>1, <1>5, MidInside DEF SearchInv
  <2>2. \A k \in 1..Len(bucket) : k - 1 <= mid => bucket[k] < target
    <3>1. \A a, b \in 1..Len(bucket) : a < b => bucket[a] <= bucket[b]
      BY DEF SearchInv, ArrayInv
    <3>2. mid + 1 \in 1..Len(bucket)
      BY <1>4, <2>1
    <3> QED BY <1>1, <1>4, <2>1, <3>1, <3>2
  <2>3. mid + 1 \in 0..(SizeRange - 1)
    BY <1>4, <2>1, Ranges
  <2>4. left' = mid + 1
    BY <1>1, <2>3, SmallSize
  <2>5. Narrowing'
    BY <1>1, <1>4, <1>5, <2>1, <2>2, <2>4 DEF Narrowing
  <2> QED BY <1>2, <1>3, <2>5 DEF SearchInv
<1>6. CASE Wrapped
  <2>1. mid + 1 = 0
    BY <1>6, MidInFront DEF SearchInv
  <2>2. left' = 0
    BY <1>1, <2>1, SmallSize, Ranges
  <2>3. Wrapped'
    BY <1>1, <1>6, <2>2 DEF Wrapped
  <2> QED BY <1>2, <1>3, <2>3 DEF SearchInv
<1> QED BY <1>5, <1>6 DEF SearchInv

\* Nothing is left between left and right, so all of the array was excluded.
LEMMA GiveUpSearch == SearchInv /\ GiveUp => SearchInv'
<1> SUFFICES ASSUME SearchInv, GiveUp PROVE SearchInv'
  OBVIOUS
<1>1. /\ UNCHANGED <<bucket, inFront, target, left, right>>
      /\ left > right /\ result' = -1
  BY DEF GiveUp
<1>2. ArrayInv' /\ (Narrowing \/ Wrapped)'
  BY <1>1 DEF SearchInv, ArrayInv, Narrowing, Wrapped
<1>3. /\ Len(bucket) \in Nat \ {0} /\ target \in Nat
      /\ DOMAIN bucket = 1..Len(bucket)
      /\ \A k \in 1..Len(bucket) : bucket[k] \in Nat
  BY ArrayFacts DEF SearchInv
<1>4. Narrowing
  BY <1>1, Ranges DEF SearchInv, Wrapped
<1>5. \A k \in 1..Len(bucket) : bucket[k] # target
  BY <1>1, <1>3, <1>4 DEF Narrowing
<1>6. ~Present
  BY <1>3, <1>5 DEF Present, Range
<1>7. AnswerIsRight'
  BY <1>1, <1>6 DEF AnswerIsRight, Present
<1>8. result' \in -2..(Len(bucket') - 1)
  BY <1>1, <1>3
<1> QED BY <1>2, <1>7, <1>8 DEF SearchInv

\* Every step keeps SearchInv.
LEMMA NextSearch == SearchInv /\ [Next]_svars => SearchInv'
<1>1. ASSUME SearchInv, UNCHANGED svars PROVE SearchInv'
  BY <1>1 DEF svars, SearchInv, ArrayInv, Narrowing, Wrapped, AnswerIsRight, Present
<1>2. Return => UNCHANGED svars
  BY DEF Return
<1> QED
  BY <1>1, <1>2, MatchSearch, LeftSearch, RightSearch, GiveUpSearch DEF Next, Step

\* SearchInv holds always.
LEMMA AlwaysSearch == Spec => []SearchInv
BY InitSearch, NextSearch, PTL DEF Spec

\* On every sorted array, whatever the width of size_t and int and whatever
\* lies in front of the array, binarySearch answers -1 exactly when the target
\* is not there, and else one of its positions.
THEOREM SearchAnswersRight == Spec => []AnswerIsRight
<1>1. SearchInv => AnswerIsRight
  BY DEF SearchInv
<1> QED BY <1>1, AlwaysSearch, PTL

\* binarySearch reads outside of the array only for a target that is smaller
\* than all of the array: nowhere else does mid leave it.
THEOREM SearchReadsInside == Spec => []ReadsInside
<1>1. SearchInv => ReadsInside
  <2> SUFFICES ASSUME SearchInv, Looping, mid \notin 0..(Len(bucket) - 1),
                      NEW k \in DOMAIN bucket
               PROVE  target < bucket[k]
    BY DEF ReadsInside
  <2>1. k \in 1..Len(bucket)
    BY DEF SearchInv, ArrayInv
  <2>2. CASE Narrowing
    BY <2>2, MidInside DEF SearchInv, Looping
  <2>3. CASE Wrapped
    BY <2>1, <2>3 DEF Wrapped
  <2> QED BY <2>2, <2>3 DEF SearchInv
<1> QED BY <1>1, AlwaysSearch, PTL

\* The part of the array that is still to be searched has the target if the
\* array has it.
THEOREM SearchKeepsTarget == Spec => []NotCutOff
<1>1. SearchInv => NotCutOff
  <2> SUFFICES ASSUME SearchInv, Present
               PROVE  \E k \in DOMAIN bucket :
                        bucket[k] = target /\ left < k /\ k - 1 <= right
    BY DEF NotCutOff
  <2>1. PICK k \in DOMAIN bucket : bucket[k] = target
    BY DEF Present, Range
  <2>2. /\ k \in 1..Len(bucket) /\ k \in Nat
        /\ target \in Nat
    BY ArrayFacts DEF SearchInv
  <2>3. CASE Narrowing
    <3>1. left \in Nat /\ right \in Nat
      BY <2>3, ArrayFacts DEF Narrowing, SearchInv
    <3> QED BY <2>1, <2>2, <2>3, <3>1 DEF Narrowing
  <2>4. CASE Wrapped
    BY <2>1, <2>2, <2>4 DEF Wrapped
  <2> QED BY <2>3, <2>4 DEF SearchInv
<1> QED BY <1>1, AlwaysSearch, PTL
=============================================================================
