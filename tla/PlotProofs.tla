----------------------------- MODULE PlotProofs -----------------------------
(***************************************************************************)
(* Theorems about Plot, for any number of buckets and any sizes: a bucket  *)
(* stays in its share of the file and keeps what was generated for it,     *)
(* through the writes of hashgen and both sorts, and the searches find     *)
(* what is there.                                                          *)
(***************************************************************************)
EXTENDS Plot, FunctionTheorems, WellFoundedInduction, TLAPS

-----------------------------------------------------------------------------
(* What qsort gives back.                                                  *)

\* A set of natural numbers has a smallest one.
LEMMA Smallest ==
  ASSUME NEW T \in SUBSET Nat, T # {}
  PROVE  \E x \in T : \A y \in T : x <= y
<1>1. PICK x \in T : \A y \in T : ~(<<y, x>> \in OpToRel(<, Nat))
  BY NatLessThanWellFounded, WFMin
<1>2. \A y \in T : y < x => <<y, x>> \in OpToRel(<, Nat)
  BY DEF OpToRel
<1>3. \A y \in T : x <= y
  <2> TAKE y \in T
  <2>1. ~(y < x)
    BY <1>1, <1>2
  <2> QED BY <2>1
<1> QED BY <1>3

\* Whether f puts the numbers s of the places D in order.
Orders(f, s, D) ==
  /\ f \in Bijection(D, D)
  /\ \A x, y \in D : x < y => s[f[x]] <= s[f[y]]

\* One number more than can be ordered can be ordered: the smallest first.
LEMMA OrdersOneMore ==
  ASSUME NEW n \in Nat,
         \A s \in [1..n -> Nat] : \E f : Orders(f, s, 1..n),
         NEW s \in [1..(n + 1) -> Nat]
  PROVE  \E f : Orders(f, s, 1..(n + 1))
<1> DEFINE D == 1..(n + 1)
<1>1. PICK m \in D : \A k \in D : s[m] <= s[k]
  <2> DEFINE T == {s[k] : k \in D}
  <2>1. T \in SUBSET Nat /\ T # {}
    <3>1. 1 \in D
      OBVIOUS
    <3> QED BY <3>1
  <2>2. PICK v \in T : \A w \in T : v <= w
    BY <2>1, Smallest
  <2> QED BY <2>2
<1> DEFINE skip(k) == IF k < m THEN k ELSE k + 1
           rest == [k \in 1..n |-> s[skip(k)]]
<1>2. \A k \in 1..n : skip(k) \in D /\ skip(k) # m
  OBVIOUS
<1>3. rest \in [1..n -> Nat]
  BY <1>2
<1>4. PICK g : Orders(g, rest, 1..n)
  BY <1>3
<1>5. /\ g \in [1..n -> 1..n]
      /\ \A x, y \in 1..n : g[x] = g[y] => x = y
      /\ \A z \in 1..n : \E x \in 1..n : g[x] = z
      /\ \A x, y \in 1..n : x < y => rest[g[x]] <= rest[g[y]]
  BY <1>4 DEF Orders, Bijection, Injection, Surjection, IsInjective
<1> DEFINE f == [k \in D |-> IF k = 1 THEN m ELSE skip(g[k - 1])]
<1>6. /\ 1 \in D /\ f[1] = m
      /\ \A k \in D : k # 1 => /\ k - 1 \in 1..n
                               /\ f[k] = skip(g[k - 1])
                               /\ f[k] \in D /\ f[k] # m
                               /\ s[f[k]] = rest[g[k - 1]]
  <2> SUFFICES ASSUME NEW k \in D, k # 1
               PROVE  /\ k - 1 \in 1..n
                      /\ f[k] = skip(g[k - 1])
                      /\ f[k] \in D /\ f[k] # m
                      /\ s[f[k]] = rest[g[k - 1]]
    OBVIOUS
  <2>1. k - 1 \in 1..n
    OBVIOUS
  <2>2. g[k - 1] \in 1..n
    BY <1>5, <2>1
  <2>3. f[k] = skip(g[k - 1])
    OBVIOUS
  <2>4. rest[g[k - 1]] = s[skip(g[k - 1])]
    BY <2>2
  <2>5. skip(g[k - 1]) \in D /\ skip(g[k - 1]) # m
    BY <1>2, <2>2
  <2> HIDE DEF skip, f, rest
  <2> QED BY <2>1, <2>3, <2>4, <2>5
<1>7. f \in [D -> D]
  BY <1>6
<1>8. \A x, y \in D : f[x] = f[y] => x = y
  <2> SUFFICES ASSUME NEW x \in D, NEW y \in D, f[x] = f[y] PROVE x = y
    OBVIOUS
  <2> HIDE DEF f
  <2>1. CASE x = 1 \/ y = 1
    BY <1>6, <2>1
  <2>2. CASE x # 1 /\ y # 1
    <3>0. x - 1 \in 1..n /\ y - 1 \in 1..n
      BY <2>2
    <3> HIDE DEF skip, rest
    <3>1. x - 1 \in 1..n /\ y - 1 \in 1..n /\ skip(g[x - 1]) = skip(g[y - 1])
      BY <1>6, <2>2, <3>0
    <3> USE DEF skip
    <3>2. \A a, b \in 1..n : skip(a) = skip(b) => a = b
      OBVIOUS
    <3>3. g[x - 1] \in 1..n /\ g[y - 1] \in 1..n
      BY <1>5, <3>1
    <3> HIDE DEF skip
    <3>4. g[x - 1] = g[y - 1]
      BY <3>1, <3>2, <3>3
    <3>5. x - 1 = y - 1
      BY <1>5, <3>1, <3>4
    <3> QED BY <3>5
  <2> QED BY <2>1, <2>2
<1>9. \A z \in D : \E x \in D : f[x] = z
  <2> SUFFICES ASSUME NEW z \in D PROVE \E x \in D : f[x] = z
    OBVIOUS
  <2>1. CASE z = m
    BY <1>6, <2>1
  <2>2. CASE z # m
    <3>1. PICK w \in 1..n : skip(w) = z
      <4>1. CASE z < m
        <5>1. z \in 1..n /\ skip(z) = z
          BY <4>1
        <5> QED BY <5>1
      <4>2. CASE z > m
        <5>1. z - 1 \in 1..n /\ skip(z - 1) = z
          BY <4>2
        <5> QED BY <5>1
      <4>3. z < m \/ z > m
        BY <2>2
      <4> QED BY <4>1, <4>2, <4>3
    <3>2. PICK v \in 1..n : g[v] = w
      BY <1>5
    <3>3. v + 1 \in D /\ v + 1 # 1 /\ (v + 1) - 1 = v
      OBVIOUS
    <3>4. f[v + 1] = z
      BY <1>6, <3>1, <3>2, <3>3
    <3> QED BY <3>3, <3>4
  <2> QED BY <2>1, <2>2
<1>10. \A x, y \in D : x < y => s[f[x]] <= s[f[y]]
  <2> SUFFICES ASSUME NEW x \in D, NEW y \in D, x < y PROVE s[f[x]] <= s[f[y]]
    OBVIOUS
  <2>0. y # 1
    OBVIOUS
  <2> HIDE DEF f, rest, skip
  <2>1. y # 1 /\ f[y] \in D
    BY <1>6, <2>0
  <2>2. CASE x = 1
    BY <1>1, <1>6, <2>1, <2>2
  <2>3. CASE x # 1
    <3>1. x - 1 < y - 1 /\ x - 1 \in 1..n /\ y - 1 \in 1..n
      BY <1>6, <2>1, <2>3
    <3>2. rest[g[x - 1]] <= rest[g[y - 1]]
      BY <1>5, <3>1
    <3> QED BY <1>6, <2>1, <2>3, <3>2
  <2> QED BY <2>2, <2>3
<1>11. Orders(f, s, D)
  BY <1>7, <1>8, <1>9, <1>10 DEF Orders, Bijection, Injection, Surjection, IsInjective
<1> QED BY <1>11

\* Any numbers can be put in order: a smallest size that cannot does not exist.
LEMMA OrdersAll ==
  ASSUME NEW n \in Nat, NEW s \in [1..n -> Nat]
  PROVE  \E f : Orders(f, s, 1..n)
<1> DEFINE Can(k) == \A r \in [1..k -> Nat] : \E f : Orders(f, r, 1..k)
           T == {k \in Nat : ~Can(k)}
<1>1. T = {}
  <2> SUFFICES ASSUME T # {} PROVE FALSE
    OBVIOUS
  <2>1. PICK k \in T : \A l \in T : k <= l
    BY Smallest
  <2>2. k # 0
    <3>1. Can(0)
      <4> SUFFICES ASSUME NEW r \in [1..0 -> Nat] PROVE Orders(r, r, 1..0)
        OBVIOUS
      <4>1. 1..0 = {}
        OBVIOUS
      <4>2. r \in [1..0 -> 1..0]
        BY <4>1
      <4> QED BY <4>1, <4>2
            DEF Orders, Bijection, Injection, Surjection, IsInjective
    <3> QED BY <3>1
  <2>3. k - 1 \in Nat /\ Can(k - 1)
    <3>1. k - 1 \in Nat /\ ~(k <= k - 1)
      BY <2>2
    <3>2. k - 1 \notin T
      BY <2>1, <3>1
    <3> QED BY <3>1, <3>2
  <2>4. Can((k - 1) + 1)
    <3> DEFINE l == k - 1
    <3>1. l \in Nat /\ Can(l)
      BY <2>3
    <3> HIDE DEF l
    <3>2. Can(l + 1)
      BY <3>1, OrdersOneMore
    <3> QED BY <3>2 DEF l
  <2>5. (k - 1) + 1 = k
    OBVIOUS
  <2> QED BY <2>1, <2>4, <2>5
<1> QED BY <1>1

\* qsort gives as many numbers, the same ones, in order.
LEMMA QsortSorts ==
  ASSUME NEW part \in Seq(Nat)
  PROVE  /\ qsort(part) \in Seq(Nat)
         /\ Len(qsort(part)) = Len(part)
         /\ Range(qsort(part)) = Range(part)
         /\ \A x, y \in 1..Len(part) : x < y => qsort(part)[x] <= qsort(part)[y]
<1> DEFINE n == Len(part)
           order == CHOOSE f \in Bijection(DOMAIN part, DOMAIN part) :
                      \A x, y \in DOMAIN part : x < y => part[f[x]] <= part[f[y]]
<1>1. n \in Nat /\ DOMAIN part = 1..n /\ part \in [1..n -> Nat]
  OBVIOUS
<1>2. \E f \in Bijection(DOMAIN part, DOMAIN part) :
        \A x, y \in DOMAIN part : x < y => part[f[x]] <= part[f[y]]
  BY <1>1, OrdersAll DEF Orders
<1>3. /\ order \in Bijection(DOMAIN part, DOMAIN part)
      /\ \A x, y \in DOMAIN part : x < y => part[order[x]] <= part[order[y]]
  BY <1>2
<1>4. qsort(part) = [k \in DOMAIN part |-> part[order[k]]]
  BY DEF qsort
<1> HIDE DEF order
<1>5. /\ order \in [1..n -> 1..n]
      /\ \A z \in 1..n : \E x \in 1..n : order[x] = z
  BY <1>1, <1>3 DEF Bijection, Injection, Surjection
<1>6. qsort(part) \in [1..n -> Nat]
  BY <1>1, <1>4, <1>5
<1>7. qsort(part) \in Seq(Nat) /\ Len(qsort(part)) = n
  BY <1>1, <1>6
<1>8. Range(qsort(part)) = Range(part)
  <2>1. \A k \in 1..n : qsort(part)[k] = part[order[k]]
    BY <1>1, <1>4
  <2>2. Range(qsort(part)) = {qsort(part)[k] : k \in 1..n} /\ Range(part) = {part[k] : k \in 1..n}
    BY <1>1, <1>6 DEF Range
  <2>3. \A k \in 1..n : order[k] \in 1..n
    BY <1>5
  <2> HIDE DEF n
  <2>4. Range(qsort(part)) \subseteq Range(part)
    BY <2>1, <2>2, <2>3
  <2>5. \A z \in 1..n : \E x \in 1..n : qsort(part)[x] = part[z]
    <3> TAKE z \in 1..n
    <3>1. PICK x \in 1..n : order[x] = z
      BY <1>5
    <3> QED BY <2>1, <3>1
  <2>6. Range(part) \subseteq Range(qsort(part))
    BY <2>2, <2>5
  <2> QED BY <2>4, <2>6
<1>9. \A x, y \in 1..n : x < y => qsort(part)[x] <= qsort(part)[y]
  <2>1. \A k \in 1..n : qsort(part)[k] = part[order[k]]
    BY <1>1, <1>4
  <2> QED BY <1>1, <1>3, <2>1
<1> QED BY <1>7, <1>8, <1>9

-----------------------------------------------------------------------------
(* Places of the file: its shares, and the parts that are sorted.          *)

\* A product is ordered as its first factor.
LEMMA Products ==
  ASSUME NEW s \in Nat, NEW x \in Nat, NEW y \in Nat
  PROVE  /\ x * s \in Nat /\ (x + 1) * s = x * s + s
         /\ (x + y) * s = x * s + y * s
         /\ x <= y => x * s <= y * s
<1>1. x * s \in Nat /\ (x + 1) * s = x * s + s
  BY Z3
<1>2. x <= y => x * s <= y * s
  BY Z3
<1>3. (x + y) * s = x * s + y * s
  BY Z3
<1> QED BY <1>1, <1>2, <1>3

\* Products of three in another order.
LEMMA Associative ==
  ASSUME NEW x \in Nat, NEW y \in Nat, NEW z \in Nat
  PROVE  x * y \in Nat /\ x * y = y * x /\ (x * y) * z = x * (y * z)
<1>1. x * y \in Nat /\ x * y = y * x
  BY Z3
<1>2. (x * y) * z = x * (y * z)
  BY Z3
<1> QED BY <1>1, <1>2

\* The quotient and the rest of a division give the number back.
LEMMA Quotient ==
  ASSUME NEW k \in Nat \ {0}, NEW a \in Nat
  PROVE  /\ a \div k \in Nat /\ a % k \in 0..(k - 1)
         /\ a = (a \div k) * k + (a % k)
<1>1. a \div k \in Nat
  BY Z3
<1>2. a % k \in 0..(k - 1)
  BY Z3
<1>3. a = (a \div k) * k + (a % k)
  BY Z3
<1> QED BY <1>1, <1>2, <1>3

\* A divisor of a positive number divides it without a rest.
LEMMA Divides ==
  ASSUME NEW k \in Nat \ {0}, NEW a \in Nat \ {0}, a % k = 0
  PROVE  a \div k \in Nat \ {0} /\ (a \div k) * k = a
<1> DEFINE q == a \div k
<1>1. q \in Nat /\ a = q * k + (a % k)
  BY Quotient
<1> HIDE DEF q
<1>2. q * k \in Nat
  BY <1>1, Products
<1>3. q * k = a
  BY <1>1, <1>2
<1>4. q # 0
  BY <1>3
<1> QED BY <1>1, <1>3, <1>4 DEF q

Parts == hashesPerBucketRead \div numberOfHashesInBucket

\* The sizes of common.c are positive, and whole parts make up a share.
LEMMA Sizes ==
  /\ {numBuckets, hashesPerBucketRead, hashesPerBucket, NumThreads,
      numberOfHashesInBucket, share, Parts} \subseteq Nat \ {0}
  /\ share * hashesPerBucket = hashesPerBucketRead
  /\ Parts * numberOfHashesInBucket = hashesPerBucketRead
<1>1. /\ numBuckets \in Nat \ {0} /\ hashesPerBucketRead \in Nat \ {0}
      /\ hashesPerBucket \in Nat \ {0} /\ NumThreads \in Nat \ {0}
      /\ maxHashesToSort \in Nat \ {0}
  BY PlotAssumption
<1>2. numberOfHashesInBucket \in Nat \ {0}
  BY <1>1 DEF numberOfHashesInBucket
<1>3. share \in Nat \ {0} /\ share * hashesPerBucket = hashesPerBucketRead
  BY <1>1, PlotAssumption, Divides DEF share
<1>4. Parts \in Nat \ {0} /\ Parts * numberOfHashesInBucket = hashesPerBucketRead
  BY <1>1, <1>2, PlotAssumption, Divides DEF Parts
<1> QED BY <1>1, <1>2, <1>3, <1>4

ShareStart(p) == p * hashesPerBucketRead

\* Shares lie one behind the other in the file.
LEMMA SharePlaces ==
  ASSUME NEW p \in BucketIds
  PROVE  /\ p \in Nat /\ ShareStart(p) \in Nat
         /\ ShareStart(p) + hashesPerBucketRead <= MAX_HASHES
         /\ \A q \in BucketIds : q < p =>
              ShareStart(q) + hashesPerBucketRead <= ShareStart(p)
<1>1. numBuckets \in Nat \ {0} /\ hashesPerBucketRead \in Nat \ {0}
  BY Sizes
<1>2. p \in Nat /\ p + 1 <= numBuckets
  BY <1>1 DEF BucketIds
<1>3. /\ ShareStart(p) \in Nat
      /\ ShareStart(p) + hashesPerBucketRead = (p + 1) * hashesPerBucketRead
  BY <1>1, <1>2, Products DEF ShareStart
<1>4. (p + 1) * hashesPerBucketRead <= MAX_HASHES
  BY <1>1, <1>2, Products DEF MAX_HASHES
<1>5. ASSUME NEW q \in BucketIds, q < p
      PROVE  ShareStart(q) + hashesPerBucketRead <= ShareStart(p)
  <2>1. q \in Nat /\ q + 1 <= p
    BY <1>2, <1>5 DEF BucketIds
  <2>2. (q + 1) * hashesPerBucketRead = q * hashesPerBucketRead + hashesPerBucketRead
        /\ (q + 1) * hashesPerBucketRead <= p * hashesPerBucketRead
    BY <1>1, <1>2, <2>1, Products
  <2> QED BY <2>2 DEF ShareStart
<1> QED BY <1>2, <1>3, <1>4, <1>5

\* Where hashgen writes the n-th buffer of bucket q: in its own share, or
\* behind it, but before the share of p unless p is trespassed.
LEMMA WritePlaces ==
  ASSUME NEW q \in BucketIds, NEW n \in Nat
  PROVE  /\ n * hashesPerBucket \in Nat
         /\ (n + 1) * hashesPerBucket = n * hashesPerBucket + hashesPerBucket
         /\ n < share => n * hashesPerBucket + hashesPerBucket <= hashesPerBucketRead
         /\ \A p \in BucketIds : q < p /\ ~(n + 1 > share * (p - q)) =>
              ShareStart(q) + n * hashesPerBucket + hashesPerBucket <= ShareStart(p)
<1>1. /\ hashesPerBucketRead \in Nat \ {0} /\ hashesPerBucket \in Nat \ {0} /\ share \in Nat
      /\ share * hashesPerBucket = hashesPerBucketRead
  BY Sizes
<1>2. /\ n * hashesPerBucket \in Nat
      /\ (n + 1) * hashesPerBucket = n * hashesPerBucket + hashesPerBucket
  BY <1>1, Products
<1>3. n < share => n * hashesPerBucket + hashesPerBucket <= hashesPerBucketRead
  <2> SUFFICES ASSUME n < share
               PROVE  n * hashesPerBucket + hashesPerBucket <= hashesPerBucketRead
    OBVIOUS
  <2>1. n + 1 <= share /\ n + 1 \in Nat
    BY <1>1
  <2>2. (n + 1) * hashesPerBucket <= share * hashesPerBucket
    BY <1>1, <2>1, Products
  <2> QED BY <1>1, <1>2, <2>2
<1>4. ASSUME NEW p \in BucketIds, q < p, ~(n + 1 > share * (p - q))
      PROVE  ShareStart(q) + n * hashesPerBucket + hashesPerBucket <= ShareStart(p)
  <2> DEFINE d == p - q
  <2>1. d \in Nat /\ q \in Nat /\ p = q + d
    BY <1>4, SharePlaces
  <2>2. ~(n + 1 > share * d)
    BY <1>4
  <2> HIDE DEF d
  <2>3. share * d \in Nat /\ share * d = d * share
        /\ (d * share) * hashesPerBucket = d * (share * hashesPerBucket)
    BY <1>1, <2>1, Associative
  <2>4. (n + 1) * hashesPerBucket <= (share * d) * hashesPerBucket
    <3>1. n + 1 \in Nat /\ n + 1 <= share * d
      BY <2>2, <2>3
    <3> QED BY <1>1, <2>3, <3>1, Products
  <2>5. (share * d) * hashesPerBucket = d * hashesPerBucketRead
    BY <1>1, <2>3
  <2>6. ShareStart(p) = ShareStart(q) + d * hashesPerBucketRead
        /\ ShareStart(q) \in Nat /\ d * hashesPerBucketRead \in Nat
    BY <1>1, <2>1, Products DEF ShareStart
  <2> QED BY <1>1, <1>2, <2>4, <2>5, <2>6
<1> QED BY <1>2, <1>3, <1>4

-----------------------------------------------------------------------------
(* What is read from the file and written to it.                           *)

\* The entries after the first a, up to the b-th.
Contents(f, a, b) == {f[k] : k \in (a + 1)..b}

\* A sequence that agrees with a stretch has the same entries.
LEMMA SameContents ==
  ASSUME NEW f, NEW start \in Nat, NEW s \in Seq(Nat),
         \A k \in 1..Len(s) : s[k] = f[start + k]
  PROVE  Range(s) = Contents(f, start, start + Len(s))
<1> DEFINE n == Len(s)
<1>1. n \in Nat /\ Range(s) = {s[k] : k \in 1..n}
  BY DEF Range
<1>2. \A k \in 1..n : s[k] = f[start + k] /\ start + k \in (start + 1)..(start + n)
  OBVIOUS
<1> HIDE DEF n
<1>3. \A l \in (start + 1)..(start + n) : l - start \in 1..n /\ f[l] = s[l - start]
  <2> TAKE l \in (start + 1)..(start + n)
  <2>1. l - start \in 1..n /\ start + (l - start) = l
    BY <1>1
  <2>2. s[l - start] = f[start + (l - start)]
    BY <1>2, <2>1
  <2> QED BY <2>1, <2>2
<1>4. Range(s) \subseteq Contents(f, start, start + n)
  BY <1>1, <1>2 DEF Contents
<1>5. Contents(f, start, start + n) \subseteq Range(s)
  BY <1>1, <1>3 DEF Contents
<1> QED BY <1>4, <1>5 DEF n

\* What fread gives: the entries of the file from start on.
LEMMA ReadGives ==
  ASSUME file \in Seq(Nat), NEW start \in Nat, NEW n \in Nat, start + n <= Len(file)
  PROVE  /\ Read(start, n) \in Seq(Nat) /\ Len(Read(start, n)) = n
         /\ \A k \in 1..n : Read(start, n)[k] = file[start + k]
         /\ Range(Read(start, n)) = Contents(file, start, start + n)
<1>1. /\ Read(start, n) \in Seq(Nat) /\ Len(Read(start, n)) = n
      /\ \A k \in 1..n : Read(start, n)[k] = file[start + k]
  BY DEF Read
<1> QED BY <1>1, SameContents

\* What fwrite does to the file: the entries from start on are those of the
\* data, and the rest stays.
LEMMA WriteGives ==
  ASSUME file \in Seq(Nat), NEW data \in Seq(Nat), NEW start \in Nat, Write(data, start)
  PROVE  /\ file' \in Seq(Nat) /\ Len(file') >= Len(file)
         /\ start + Len(data) <= Len(file')
         /\ \A k \in 1..Len(data) : file'[start + k] = data[k]
         /\ Contents(file', start, start + Len(data)) = Range(data)
         /\ \A k \in 1..Len(file) :
              k <= start \/ k > start + Len(data) => file'[k] = file[k]
<1> DEFINE n == Len(data)
           end == start + n
           size == IF end > Len(file) THEN end ELSE Len(file)
<1>1. file' = [k \in 1..size |-> IF k \in (start + 1)..end THEN data[k - start]
                                 ELSE IF k <= Len(file) THEN file[k] ELSE 0]
  BY DEF Write
<1>2. n \in Nat /\ size \in Nat /\ size >= Len(file) /\ end <= size
  OBVIOUS
<1>3. \A k \in (start + 1)..end : k - start \in 1..n /\ data[k - start] \in Nat
  OBVIOUS
<1>4. \A k \in 1..size : k <= Len(file) => file[k] \in Nat
  OBVIOUS
<1> HIDE DEF size
<1>5. file' \in [1..size -> Nat]
  BY <1>1, <1>2, <1>3, <1>4
<1>6. file' \in Seq(Nat) /\ Len(file') = size
  BY <1>2, <1>5
<1>7. \A k \in 1..n : file'[start + k] = data[k]
  <2> TAKE k \in 1..n
  <2>1. start + k \in (start + 1)..end /\ start + k \in 1..size /\ (start + k) - start = k
    BY <1>2
  <2> QED BY <1>1, <2>1
<1>8. Contents(file', start, end) = Range(data)
  BY <1>7, SameContents
<1>9. \A k \in 1..Len(file) : k <= start \/ k > end => file'[k] = file[k]
  <2> TAKE k \in 1..Len(file)
  <2>1. k \in 1..size /\ k <= Len(file)
    BY <1>2
  <2>2. k <= start \/ k > end => k \notin (start + 1)..end
    OBVIOUS
  <2> QED BY <1>1, <2>1, <2>2
<1> QED BY <1>2, <1>6, <1>7, <1>8, <1>9

-----------------------------------------------------------------------------
(* hashgen.c                                                               *)

ShareContents(p) == Contents(file, ShareStart(p), ShareStart(p) + hashesPerBucketRead)

\* What bucket p has written.
Mine(p) ==
  Contents(file, ShareStart(p), ShareStart(p) + bucketFlush[p] * hashesPerBucket)

Stages == {"generate", "flush", "read", "sortAlone", "sort", "pick", "load",
           "search", "answered", "scanned"}

FileTypes ==
  /\ file \in Seq(Nat)
  /\ Len(file) >= MAX_HASHES
  /\ stage \in Stages
  /\ i \in Nat

BufferTypes ==
  /\ array2D \in [BucketIds -> [1..hashesPerBucket -> Nat]]
  /\ bucketIndex \in [BucketIds -> 0..(hashesPerBucket - 1)]
  /\ bucketFlush \in [BucketIds -> Nat]
  /\ generated \in [BucketIds -> SUBSET Hashes]
  /\ \A p \in BucketIds : \A k \in 1..hashesPerBucket :
       array2D[p][k] \in generated[p] \cup Leftovers

\* What a share can hold.
SharesHold ==
  \A p \in BucketIds :
    ~Trespassed(p) => ShareContents(p) \subseteq generated[p] \cup Leftovers \cup {0}

\* While hashgen writes, what was generated is written or in the buffer; in
\* the last loop the buffers behind i are empty or their shares full.  When it
\* has ended, only a full share has left something out.
SharesKeep ==
  /\ stage \in {"generate", "flush"} =>
       \A p \in BucketIds :
         Undisturbed(p) => generated[p] \subseteq Mine(p) \cup Buffered(p)
  /\ stage = "flush" =>
       /\ i < numBuckets
       /\ \A p \in BucketIds : p < i => bucketFlush[p] >= share \/ bucketIndex[p] = 0
  /\ stage \notin {"generate", "flush"} =>
       \A p \in BucketIds :
         Undisturbed(p) =>
           generated[p] \subseteq
             ShareContents(p) \cup (IF bucketFlush[p] = share THEN Buffered(p) ELSE {})

HashgenInv == FileTypes /\ BufferTypes /\ SharesHold /\ SharesKeep

\* An undisturbed bucket has written into its share only.
LEMMA MineInShare ==
  ASSUME FileTypes, BufferTypes, NEW p \in BucketIds, bucketFlush[p] <= share
  PROVE  Mine(p) \subseteq ShareContents(p)
<1>1. /\ bucketFlush[p] \in Nat /\ share \in Nat /\ hashesPerBucket \in Nat
      /\ share * hashesPerBucket = hashesPerBucketRead
  BY Sizes DEF BufferTypes
<1>2. /\ bucketFlush[p] * hashesPerBucket \in Nat
      /\ bucketFlush[p] * hashesPerBucket <= hashesPerBucketRead
  BY <1>1, Products
<1>3. ShareStart(p) \in Nat /\ hashesPerBucketRead \in Nat
  BY Sizes, SharePlaces
<1> QED BY <1>2, <1>3 DEF Mine, ShareContents, Contents

\* The write of the buffer of bucket q: it leaves alone every share that is
\* not trespassed after it, and adds the buffer to what q has written.
LEMMA BufferWritten ==
  ASSUME FileTypes, BufferTypes, NEW q \in BucketIds,
         NEW buffer \in [1..hashesPerBucket -> Nat],
         Write(buffer, write_location(q)),
         bucketFlush' = [bucketFlush EXCEPT ![q] = bucketFlush[q] + 1]
  PROVE  /\ file' \in Seq(Nat) /\ Len(file') >= MAX_HASHES
         /\ bucketFlush' \in [BucketIds -> Nat]
         /\ \A p \in BucketIds :
              ~Trespassed(p)' =>
                /\ ~Trespassed(p)
                /\ p # q => ShareContents(p)' = ShareContents(p)
                /\ p # q /\ bucketFlush[p] <= share => Mine(p)' = Mine(p)
         /\ ShareContents(q)' \subseteq ShareContents(q) \cup Range(buffer)
         /\ bucketFlush[q] < share => Mine(q)' = Mine(q) \cup Range(buffer)
<1> DEFINE n == bucketFlush[q]
           size == n * hashesPerBucket
           at == ShareStart(q) + size
<1>1. /\ n \in Nat /\ hashesPerBucket \in Nat \ {0} /\ hashesPerBucketRead \in Nat \ {0}
      /\ MAX_HASHES \in Nat
  <2>1. hashesPerBucket \in Nat \ {0} /\ hashesPerBucketRead \in Nat \ {0}
        /\ numBuckets \in Nat
    BY Sizes
  <2> QED BY <2>1, Products DEF BufferTypes, MAX_HASHES
<1>2. /\ size \in Nat /\ ShareStart(q) \in Nat
      /\ (n + 1) * hashesPerBucket = size + hashesPerBucket
  BY <1>1, WritePlaces, SharePlaces
<1>3. write_location(q) = at
  BY DEF write_location, ShareStart
<1>4. buffer \in Seq(Nat) /\ Len(buffer) = hashesPerBucket
  BY <1>1
<1> HIDE DEF size
<1>5. /\ file' \in Seq(Nat) /\ Len(file') >= Len(file)
      /\ Contents(file', at, at + hashesPerBucket) = Range(buffer)
      /\ \A k \in 1..Len(file) :
           k <= at \/ k > at + hashesPerBucket => file'[k] = file[k]
  <2>1. at \in Nat /\ Write(buffer, at) /\ file \in Seq(Nat)
    BY <1>2, <1>3 DEF FileTypes
  <2> HIDE DEF at
  <2>2. /\ file' \in Seq(Nat) /\ Len(file') >= Len(file)
        /\ Contents(file', at, at + Len(buffer)) = Range(buffer)
        /\ \A k \in 1..Len(file) :
             k <= at \/ k > at + Len(buffer) => file'[k] = file[k]
    BY <1>4, <2>1, WriteGives
  <2> QED BY <1>4, <2>2
<1>6. \A p \in BucketIds : bucketFlush'[p] = IF p = q THEN n + 1 ELSE bucketFlush[p]
  BY DEF BufferTypes
<1>7. bucketFlush' \in [BucketIds -> Nat]
  BY <1>1 DEF BufferTypes
<1>8. ASSUME NEW p \in BucketIds, ~Trespassed(p)'
      PROVE  /\ ~Trespassed(p)
             /\ p # q => \/ at + hashesPerBucket <= ShareStart(p)
                         \/ ShareStart(p) + hashesPerBucketRead <= at
  <2>1. \A r \in 0..(p - 1) : r \in BucketIds /\ bucketFlush'[r] <= share * (p - r)
                              /\ share * (p - r) \in Nat
    <3> TAKE r \in 0..(p - 1)
    <3>1. r \in BucketIds /\ p - r \in Nat /\ share \in Nat
      BY SharePlaces, Sizes DEF BucketIds
    <3>2. share * (p - r) \in Nat
      BY <3>1, Products
    <3>3. ~(bucketFlush'[r] > share * (p - r))
      BY <1>8 DEF Trespassed
    <3> QED BY <1>7, <3>1, <3>2, <3>3
  <2>2. ~Trespassed(p)
    <3> SUFFICES ASSUME NEW r \in 0..(p - 1), bucketFlush[r] > share * (p - r) PROVE FALSE
      BY DEF Trespassed
    <3>0. r \in BucketIds /\ bucketFlush[r] \in Nat
      BY <2>1 DEF BufferTypes
    <3>1. bucketFlush'[r] >= bucketFlush[r] /\ bucketFlush[r] \in Nat /\ bucketFlush'[r] \in Nat
      BY <1>1, <1>6, <3>0
    <3>2. share * (p - r) \in Nat /\ bucketFlush'[r] <= share * (p - r)
      BY <2>1
    <3> QED BY <3>1, <3>2
  <2>3. CASE q < p
    <3>1. q \in 0..(p - 1)
      BY <2>3, SharePlaces
    <3>2. ~(n + 1 > share * (p - q))
      BY <1>1, <1>6, <2>1, <3>1
    <3>3. ShareStart(q) + n * hashesPerBucket + hashesPerBucket <= ShareStart(p)
      BY <1>1, <2>3, <3>2, WritePlaces
    <3> QED BY <2>2, <3>3 DEF size
  <2>4. CASE p < q
    BY <1>1, <1>2, <2>2, <2>4, SharePlaces
  <2>5. p \in Nat /\ q \in Nat
    BY SharePlaces
  <2> QED BY <2>2, <2>3, <2>4, <2>5
<1>9. ASSUME NEW p \in BucketIds, ~Trespassed(p)', p # q
      PROVE  /\ ShareContents(p)' = ShareContents(p)
             /\ bucketFlush[p] <= share => Mine(p)' = Mine(p)
  <2>1. /\ ShareStart(p) \in Nat
        /\ ShareStart(p) + hashesPerBucketRead <= Len(file)
    BY <1>1, SharePlaces DEF FileTypes
  <2>2. \A k \in (ShareStart(p) + 1)..(ShareStart(p) + hashesPerBucketRead) :
          file'[k] = file[k]
    <3> TAKE k \in (ShareStart(p) + 1)..(ShareStart(p) + hashesPerBucketRead)
    <3>1. k \in 1..Len(file)
      BY <1>1, <2>1 DEF FileTypes
    <3>2. at + hashesPerBucket <= ShareStart(p) \/ ShareStart(p) + hashesPerBucketRead <= at
      BY <1>8, <1>9
    <3>3. at \in Nat
      BY <1>2
    <3> HIDE DEF at
    <3>4. k <= at \/ k > at + hashesPerBucket
      BY <1>1, <2>1, <3>2, <3>3
    <3> QED BY <1>5, <3>1, <3>4 DEF at
  <2>3. ShareContents(p)' = ShareContents(p)
    BY <2>2 DEF ShareContents, Contents
  <2>4. ASSUME bucketFlush[p] <= share PROVE Mine(p)' = Mine(p)
    <3>1. /\ bucketFlush[p] \in Nat /\ share \in Nat
          /\ share * hashesPerBucket = hashesPerBucketRead
      BY Sizes DEF BufferTypes
    <3>2. /\ bucketFlush[p] * hashesPerBucket \in Nat
          /\ bucketFlush[p] * hashesPerBucket <= hashesPerBucketRead
      BY <1>1, <2>4, <3>1, Products
    <3> DEFINE m == bucketFlush[p] * hashesPerBucket
    <3>3. \A k \in (ShareStart(p) + 1)..(ShareStart(p) + m) : file'[k] = file[k]
      <4>1. m \in Nat /\ m <= hashesPerBucketRead
        BY <3>2
      <4> HIDE DEF m
      <4> TAKE k \in (ShareStart(p) + 1)..(ShareStart(p) + m)
      <4>2. k \in (ShareStart(p) + 1)..(ShareStart(p) + hashesPerBucketRead)
        BY <1>1, <2>1, <4>1
      <4> QED BY <2>2, <4>2
    <3>4. Mine(p) = Contents(file, ShareStart(p), ShareStart(p) + m)
      BY DEF Mine
    <3>5. Mine(p)' = Contents(file', ShareStart(p), ShareStart(p) + m)
      BY <1>6, <1>9 DEF Mine, Contents
    <3> HIDE DEF m
    <3> QED BY <3>3, <3>4, <3>5 DEF Contents
  <2> QED BY <2>3, <2>4
<1>10. ShareContents(q)' \subseteq ShareContents(q) \cup Range(buffer)
  <2>1. /\ ShareStart(q) \in Nat
        /\ ShareStart(q) + hashesPerBucketRead <= Len(file)
    BY <1>1, SharePlaces DEF FileTypes
  <2>2. \A k \in (ShareStart(q) + 1)..(ShareStart(q) + hashesPerBucketRead) :
          file'[k] = file[k] \/ file'[k] \in Range(buffer)
    <3> TAKE k \in (ShareStart(q) + 1)..(ShareStart(q) + hashesPerBucketRead)
    <3>1. k \in 1..Len(file)
      BY <1>1, <2>1 DEF FileTypes
    <3>2. k <= at \/ k > at + hashesPerBucket \/ k \in (at + 1)..(at + hashesPerBucket)
      BY <1>1, <1>2, <2>1, SMTT(30)
    <3>3. k \in (at + 1)..(at + hashesPerBucket) => file'[k] \in Range(buffer)
      BY <1>5 DEF Contents
    <3> QED BY <1>5, <3>1, <3>2, <3>3
  <2>3. ShareContents(q)' =
          Contents(file', ShareStart(q), ShareStart(q) + hashesPerBucketRead)
    BY DEF ShareContents, Contents
  <2> QED BY <2>2, <2>3 DEF ShareContents, Contents
<1>11. ASSUME n < share PROVE Mine(q)' = Mine(q) \cup Range(buffer)
  <2>1. at \in Nat /\ at + hashesPerBucket <= Len(file) /\ ShareStart(q) <= at
    <3>1. size + hashesPerBucket <= hashesPerBucketRead
      BY <1>1, <1>11, WritePlaces DEF size
    <3>2. ShareStart(q) + hashesPerBucketRead <= MAX_HASHES
      BY SharePlaces
    <3>3. Len(file) \in Nat /\ Len(file) >= MAX_HASHES
      BY DEF FileTypes
    <3> QED BY <1>1, <1>2, <3>1, <3>2, <3>3, SMTT(30)
  <2>2. Mine(q)' = Contents(file', ShareStart(q), at + hashesPerBucket)
    <3>1. bucketFlush'[q] * hashesPerBucket = size + hashesPerBucket
      BY <1>2, <1>6
    <3>2. ShareStart(q) + (size + hashesPerBucket) = at + hashesPerBucket
      BY <1>1, <1>2
    <3> QED BY <3>1, <3>2 DEF Mine, Contents
  <2>3. Mine(q) = Contents(file, ShareStart(q), at)
    BY DEF Mine, size
  <2> HIDE DEF at
  <2>4. Contents(file', ShareStart(q), at + hashesPerBucket) =
          Contents(file', ShareStart(q), at) \cup Contents(file', at, at + hashesPerBucket)
    <3>1. at + hashesPerBucket \in Nat /\ at <= at + hashesPerBucket
      BY <1>1, <2>1
    <3> QED BY <1>2, <2>1, <3>1 DEF Contents
  <2>5. Contents(file', ShareStart(q), at) = Contents(file, ShareStart(q), at)
    <3>1. \A k \in (ShareStart(q) + 1)..at : file'[k] = file[k]
      <4> TAKE k \in (ShareStart(q) + 1)..at
      <4>1. k \in 1..Len(file) /\ k <= at
        BY <1>1, <1>2, <2>1 DEF FileTypes
      <4> QED BY <1>5, <4>1 DEF at
    <3> QED BY <3>1 DEF Contents
  <2>6. Contents(file', at, at + hashesPerBucket) = Range(buffer)
    BY <1>5 DEF at
  <2> QED BY <2>2, <2>3, <2>4, <2>5, <2>6
<1> QED BY <1>1, <1>5, <1>7, <1>8, <1>9, <1>10, <1>11 DEF FileTypes

\* In another step of the file the shares are as they were.
LEMMA MineInShares ==
  FileTypes /\ BufferTypes =>
    \A p \in BucketIds : bucketFlush[p] <= share => Mine(p) \subseteq ShareContents(p)
BY MineInShare

\* A new hash, and the write of its buffer when that is full.
LEMMA GenerateKeeps ==
  ASSUME HashgenInv, NEW q \in BucketIds, NEW hash \in Hashes, Generate(q, hash)
  PROVE  HashgenInv'
<1> DEFINE buffer == [array2D[q] EXCEPT ![bucketIndex[q] + 1] = hash]
           full == bucketIndex[q] + 1 = hashesPerBucket
<1>1. /\ stage = "generate"
      /\ array2D' = [array2D EXCEPT ![q] = buffer]
      /\ generated' = [generated EXCEPT ![q] = generated[q] \cup {hash}]
      /\ bucketIndex' = [bucketIndex EXCEPT ![q] = NextIndex(bucketIndex[q])]
      /\ full => /\ bucketFlush' = [bucketFlush EXCEPT ![q] = bucketFlush[q] + 1]
                 /\ Write(buffer, write_location(q))
      /\ ~full => bucketFlush' = [bucketFlush EXCEPT ![q] = bucketFlush[q]] /\ file' = file
      /\ i' = IF i + 1 = MAX_HASHES THEN 0 ELSE i + 1
      /\ stage' \in {"generate", "flush"}
      /\ stage' = "flush" => i' = 0
  BY DEF Generate
<1>2. FileTypes /\ BufferTypes /\ SharesHold /\ SharesKeep
  BY DEF HashgenInv
<1>3. /\ hashesPerBucket \in Nat \ {0} /\ numBuckets \in Nat \ {0} /\ hash \in Nat
  BY Sizes, PlotAssumption
<1>4. /\ bucketIndex[q] \in 0..(hashesPerBucket - 1)
      /\ array2D[q] \in [1..hashesPerBucket -> Nat]
      /\ bucketIndex[q] + 1 \in 1..hashesPerBucket
  BY <1>2, <1>3 DEF BufferTypes
<1>5. /\ buffer \in [1..hashesPerBucket -> Nat]
      /\ \A k \in 1..hashesPerBucket :
           buffer[k] = IF k = bucketIndex[q] + 1 THEN hash ELSE array2D[q][k]
  BY <1>3, <1>4
<1> HIDE DEF buffer
<1>6. \A p \in BucketIds :
        /\ array2D'[p] = IF p = q THEN buffer ELSE array2D[p]
        /\ generated'[p] = IF p = q THEN generated[q] \cup {hash} ELSE generated[p]
        /\ bucketIndex'[p] = IF p = q THEN NextIndex(bucketIndex[q]) ELSE bucketIndex[p]
  BY <1>1, <1>2 DEF BufferTypes
<1>7. NextIndex(bucketIndex[q]) \in 0..(hashesPerBucket - 1)
  BY <1>3, <1>4 DEF NextIndex
<1>8. \A k \in 1..hashesPerBucket : buffer[k] \in generated[q] \cup {hash} \cup Leftovers
  BY <1>2, <1>5 DEF BufferTypes
<1>9. /\ array2D' \in [BucketIds -> [1..hashesPerBucket -> Nat]]
      /\ bucketIndex' \in [BucketIds -> 0..(hashesPerBucket - 1)]
      /\ generated' \in [BucketIds -> SUBSET Hashes]
  BY <1>1, <1>2, <1>5, <1>7 DEF BufferTypes
<1>10. \A p \in BucketIds : \A k \in 1..hashesPerBucket :
         array2D'[p][k] \in generated'[p] \cup Leftovers
  <2> TAKE p \in BucketIds
  <2> TAKE k \in 1..hashesPerBucket
  <2>1. CASE p = q
    BY <1>6, <1>8, <2>1
  <2>2. CASE p # q
    BY <1>2, <1>6, <2>2 DEF BufferTypes
  <2> QED BY <2>1, <2>2
<1>11. i' \in Nat /\ stage' \in Stages /\ (stage' = "flush" => i' < numBuckets)
  BY <1>1, <1>2, <1>3 DEF FileTypes, Stages
<1>12. \A p \in BucketIds : Undisturbed(p) => generated[p] \subseteq Mine(p) \cup Buffered(p)
  BY <1>1, <1>2 DEF SharesKeep
<1>13. \A p \in BucketIds : p # q => Buffered(p)' = Buffered(p)
  BY <1>6 DEF Buffered
<1>14. stage' = "flush" => \A p \in BucketIds : ~(p < i')
  BY <1>1, SharePlaces
<1>15. CASE full
  <2>1. /\ file' \in Seq(Nat) /\ Len(file') >= MAX_HASHES
        /\ bucketFlush' \in [BucketIds -> Nat]
        /\ \A p \in BucketIds :
             ~Trespassed(p)' =>
               /\ ~Trespassed(p)
               /\ p # q => ShareContents(p)' = ShareContents(p)
               /\ p # q /\ bucketFlush[p] <= share => Mine(p)' = Mine(p)
        /\ ShareContents(q)' \subseteq ShareContents(q) \cup Range(buffer)
        /\ bucketFlush[q] < share => Mine(q)' = Mine(q) \cup Range(buffer)
    BY <1>1, <1>2, <1>5, <1>15, BufferWritten
  <2>2. Range(buffer) = {buffer[k] : k \in 1..hashesPerBucket}
    BY <1>5 DEF Range
  <2>3. \A p \in BucketIds : bucketFlush'[p] = IF p = q THEN bucketFlush[q] + 1 ELSE bucketFlush[p]
    BY <1>1, <1>2, <1>15 DEF BufferTypes
  <2>4. FileTypes' /\ BufferTypes'
    BY <1>9, <1>10, <1>11, <2>1 DEF FileTypes, BufferTypes
  <2>5. SharesHold'
    <3> SUFFICES ASSUME NEW p \in BucketIds, ~Trespassed(p)'
                 PROVE  ShareContents(p)' \subseteq generated'[p] \cup Leftovers \cup {0}
      BY DEF SharesHold
    <3>1. ShareContents(p) \subseteq generated[p] \cup Leftovers \cup {0}
      BY <1>2, <2>1 DEF SharesHold
    <3>2. CASE p = q
      BY <1>6, <1>8, <2>1, <2>2, <3>1, <3>2
    <3>3. CASE p # q
      BY <1>6, <2>1, <3>1, <3>3
    <3> QED BY <3>2, <3>3
  <2>6. ASSUME NEW p \in BucketIds, Undisturbed(p)'
        PROVE  generated'[p] \subseteq Mine(p)' \cup Buffered(p)'
    <3>1. bucketFlush'[p] <= share /\ ~Trespassed(p)' /\ share \in Nat
      BY <2>6, Sizes DEF Undisturbed
    <3>2. bucketFlush[p] \in Nat /\ bucketFlush[p] <= share /\ ~Trespassed(p)
      <4>1. bucketFlush[p] \in Nat /\ bucketFlush[q] \in Nat
        BY <1>2 DEF BufferTypes
      <4> QED BY <2>1, <2>3, <3>1, <4>1
    <3>3. generated[p] \subseteq Mine(p) \cup Buffered(p)
      BY <1>12, <3>2 DEF Undisturbed
    <3>4. CASE p # q
      BY <1>6, <1>13, <2>1, <3>1, <3>2, <3>3, <3>4
    <3>5. CASE p = q
      <4>1. bucketFlush[q] < share
        BY <2>3, <3>1, <3>2, <3>5
      <4>2. Buffered(q) \cup {hash} \subseteq Range(buffer)
        <5>0. \A k \in 1..bucketIndex[q] : k \in 1..hashesPerBucket /\ k # bucketIndex[q] + 1
          BY <1>3, <1>4
        <5>1. \A k \in 1..bucketIndex[q] : k \in 1..hashesPerBucket /\ buffer[k] = array2D[q][k]
          BY <1>5, <5>0
        <5>2. hashesPerBucket \in 1..hashesPerBucket /\ buffer[hashesPerBucket] = hash
          BY <1>3, <1>4, <1>5, <1>15
        <5> QED BY <2>2, <5>1, <5>2 DEF Buffered
      <4> QED BY <1>6, <2>1, <3>3, <3>5, <4>1, <4>2
    <3> QED BY <3>4, <3>5
  <2>7. SharesKeep'
    BY <1>1, <1>11, <1>14, <2>6 DEF SharesKeep
  <2> QED BY <2>4, <2>5, <2>7 DEF HashgenInv
<1>16. CASE ~full
  <2>1. bucketFlush' = bucketFlush /\ file' = file
    BY <1>1, <1>2, <1>16 DEF BufferTypes
  <2>2. FileTypes' /\ BufferTypes'
    BY <1>2, <1>9, <1>10, <1>11, <2>1 DEF FileTypes, BufferTypes
  <2>3. \A p \in BucketIds : /\ Mine(p)' = Mine(p) /\ ShareContents(p)' = ShareContents(p)
                             /\ Trespassed(p)' = Trespassed(p)
                             /\ Undisturbed(p)' = Undisturbed(p)
    BY <2>1 DEF Mine, ShareContents, Contents, Trespassed, Undisturbed
  <2>4. SharesHold'
    BY <1>2, <1>6, <2>3 DEF SharesHold
  <2>5. Buffered(q) \cup {hash} \subseteq Buffered(q)'
    <3>1. bucketIndex'[q] = bucketIndex[q] + 1
      BY <1>6, <1>16 DEF NextIndex
    <3>2. Buffered(q)' = {buffer[k] : k \in 1..(bucketIndex[q] + 1)}
      BY <1>6, <3>1 DEF Buffered
    <3>3. \A k \in 1..bucketIndex[q] :
            /\ k \in 1..(bucketIndex[q] + 1)
            /\ buffer[k] = array2D[q][k]
      <4>1. \A k \in 1..bucketIndex[q] :
              /\ k \in 1..(bucketIndex[q] + 1) /\ k \in 1..hashesPerBucket
              /\ k # bucketIndex[q] + 1
        BY <1>3, <1>4
      <4> QED BY <1>5, <4>1
    <3>4. /\ bucketIndex[q] + 1 \in 1..(bucketIndex[q] + 1)
          /\ buffer[bucketIndex[q] + 1] = hash
      BY <1>4, <1>5
    <3>5. Buffered(q) = {array2D[q][k] : k \in 1..bucketIndex[q]}
      BY DEF Buffered
    <3> QED BY <3>2, <3>3, <3>4, <3>5
  <2>6. \A p \in BucketIds :
          Undisturbed(p)' => generated'[p] \subseteq Mine(p)' \cup Buffered(p)'
    <3> SUFFICES ASSUME NEW p \in BucketIds, Undisturbed(p)
                 PROVE  generated'[p] \subseteq Mine(p) \cup Buffered(p)'
      BY <2>3
    <3>1. generated[p] \subseteq Mine(p) \cup Buffered(p)
      BY <1>12
    <3>2. CASE p = q
      BY <1>6, <2>5, <3>1, <3>2
    <3>3. CASE p # q
      BY <1>6, <1>13, <3>1, <3>3
    <3> QED BY <3>2, <3>3
  <2>7. SharesKeep'
    BY <1>1, <1>11, <1>14, <2>6 DEF SharesKeep
  <2> QED BY <2>2, <2>4, <2>7 DEF HashgenInv
<1> QED BY <1>15, <1>16

\* The last loop writes one buffer more of bucket i, if its share has space.
LEMMA FlushKeeps ==
  ASSUME HashgenInv, FlushRest
  PROVE  HashgenInv'
<1>1. /\ stage = "flush"
      /\ i' = IF i + 1 = numBuckets THEN 0 ELSE i + 1
      /\ stage' \in {"flush", "read", "sortAlone"}
      /\ stage' = "flush" <=> i + 1 # numBuckets
      /\ array2D' = array2D /\ generated' = generated
      /\ bucketFlush[i] < share =>
           /\ Write(array2D[i], write_location(i))
           /\ bucketFlush' = [bucketFlush EXCEPT ![i] = bucketFlush[i] + 1]
           /\ bucketIndex' = [bucketIndex EXCEPT ![i] = 0]
      /\ ~(bucketFlush[i] < share) =>
           file' = file /\ bucketFlush' = bucketFlush /\ bucketIndex' = bucketIndex
  BY DEF FlushRest, hashgen
<1>2. FileTypes /\ BufferTypes /\ SharesHold /\ SharesKeep
  BY DEF HashgenInv
<1>3. hashesPerBucket \in Nat \ {0} /\ numBuckets \in Nat \ {0} /\ share \in Nat
  BY Sizes
<1>4. i \in BucketIds /\ i \in Nat /\ i < numBuckets
  BY <1>1, <1>2, <1>3 DEF FileTypes, SharesKeep, BucketIds
<1> DEFINE Flushed(q) ==
             /\ bucketFlush[q] < share =>
                  /\ Write(array2D[q], write_location(q))
                  /\ bucketFlush' = [bucketFlush EXCEPT ![q] = bucketFlush[q] + 1]
                  /\ bucketIndex' = [bucketIndex EXCEPT ![q] = 0]
             /\ ~(bucketFlush[q] < share) =>
                  file' = file /\ bucketFlush' = bucketFlush /\ bucketIndex' = bucketIndex
<1>0. PICK q \in BucketIds : q = i /\ Flushed(q)
  BY <1>1, <1>4
<1>5. /\ array2D[q] \in [1..hashesPerBucket -> Nat]
      /\ bucketIndex[q] \in 0..(hashesPerBucket - 1)
      /\ \A k \in 1..hashesPerBucket : array2D[q][k] \in generated[q] \cup Leftovers
  BY <1>2, <1>0 DEF BufferTypes
<1>6. /\ \A p \in BucketIds : Undisturbed(p) => generated[p] \subseteq Mine(p) \cup Buffered(p)
      /\ \A p \in BucketIds : p < q => bucketFlush[p] >= share \/ bucketIndex[p] = 0
  BY <1>1, <1>2, <1>0 DEF SharesKeep
<1>7. /\ FileTypes' /\ BufferTypes' /\ SharesHold'
      /\ \A p \in BucketIds :
           Undisturbed(p)' => generated[p] \subseteq Mine(p)' \cup Buffered(p)'
      /\ \A p \in BucketIds : p <= q => bucketFlush'[p] >= share \/ bucketIndex'[p] = 0
  <2>1. i' \in Nat /\ stage' \in Stages
    BY <1>1, <1>4 DEF Stages
  <2>2. CASE bucketFlush[q] < share
    <3>1. /\ file' \in Seq(Nat) /\ Len(file') >= MAX_HASHES
          /\ bucketFlush' \in [BucketIds -> Nat]
          /\ \A p \in BucketIds :
               ~Trespassed(p)' =>
                 /\ ~Trespassed(p)
                 /\ p # q => ShareContents(p)' = ShareContents(p)
                 /\ p # q /\ bucketFlush[p] <= share => Mine(p)' = Mine(p)
          /\ ShareContents(q)' \subseteq ShareContents(q) \cup Range(array2D[q])
          /\ Mine(q)' = Mine(q) \cup Range(array2D[q])
      BY <1>2, <1>5, <1>0, <2>2, BufferWritten
    <3>2. Range(array2D[q]) = {array2D[q][k] : k \in 1..hashesPerBucket}
      BY <1>5 DEF Range
    <3>3. \A p \in BucketIds :
            /\ bucketFlush'[p] = IF p = q THEN bucketFlush[q] + 1 ELSE bucketFlush[p]
            /\ bucketIndex'[p] = IF p = q THEN 0 ELSE bucketIndex[p]
      BY <1>2, <1>0, <2>2 DEF BufferTypes
    <3>4. FileTypes' /\ BufferTypes'
      <4>1. bucketIndex' \in [BucketIds -> 0..(hashesPerBucket - 1)]
        <5>1. bucketIndex' = [bucketIndex EXCEPT ![q] = 0]
          BY <1>0, <2>2
        <5>2. 0 \in 0..(hashesPerBucket - 1)
          BY <1>3
        <5> QED BY <1>2, <5>1, <5>2 DEF BufferTypes
      <4> QED BY <1>1, <1>2, <2>1, <3>1, <4>1 DEF FileTypes, BufferTypes
    <3>5. SharesHold'
      <4> SUFFICES ASSUME NEW p \in BucketIds, ~Trespassed(p)'
                   PROVE  ShareContents(p)' \subseteq generated[p] \cup Leftovers \cup {0}
        BY <1>1 DEF SharesHold
      <4>1. ShareContents(p) \subseteq generated[p] \cup Leftovers \cup {0}
        BY <1>2, <3>1 DEF SharesHold
      <4>2. CASE p = q
        BY <1>1, <1>5, <3>1, <3>2, <4>1, <4>2
      <4>3. CASE p # q
        BY <3>1, <4>1, <4>3
      <4> QED BY <4>2, <4>3
    <3>6. ASSUME NEW p \in BucketIds, Undisturbed(p)'
          PROVE  generated[p] \subseteq Mine(p)' \cup Buffered(p)'
      <4>1. bucketFlush'[p] <= share /\ ~Trespassed(p)'
        BY <3>6 DEF Undisturbed
      <4>2. bucketFlush[p] \in Nat /\ bucketFlush[p] <= share /\ ~Trespassed(p)
        <5>1. bucketFlush[p] \in Nat /\ bucketFlush[q] \in Nat
          BY <1>2 DEF BufferTypes
        <5> QED BY <1>3, <3>1, <3>3, <4>1, <5>1
      <4>3. generated[p] \subseteq Mine(p) \cup Buffered(p)
        BY <1>6, <4>2 DEF Undisturbed
      <4>4. CASE p # q
        <5>1. Buffered(p)' = Buffered(p)
          BY <1>1, <3>3, <4>4 DEF Buffered
        <5> QED BY <3>1, <4>1, <4>2, <4>3, <4>4, <5>1
      <4>5. CASE p = q
        <5>1. \A k \in 1..bucketIndex[q] : k \in 1..hashesPerBucket
          BY <1>3, <1>5
        <5>2. Buffered(q) \subseteq Range(array2D[q])
          BY <3>2, <5>1 DEF Buffered
        <5> QED BY <3>1, <4>3, <4>5, <5>2
      <4> QED BY <4>4, <4>5
    <3>7. \A p \in BucketIds : p <= q => bucketFlush'[p] >= share \/ bucketIndex'[p] = 0
      <4>1. \A p \in BucketIds : p <= q => p < q \/ p = q
        BY SharePlaces
      <4> QED BY <1>6, <3>3, <4>1
    <3> QED BY <3>4, <3>5, <3>6, <3>7
  <2>3. CASE ~(bucketFlush[q] < share)
    <3>1. file' = file /\ bucketFlush' = bucketFlush /\ bucketIndex' = bucketIndex
      BY <1>0, <2>3
    <3>2. FileTypes' /\ BufferTypes'
      BY <1>1, <1>2, <2>1, <3>1 DEF FileTypes, BufferTypes
    <3>3. \A p \in BucketIds : /\ Mine(p)' = Mine(p) /\ ShareContents(p)' = ShareContents(p)
                               /\ Trespassed(p)' = Trespassed(p)
                               /\ Undisturbed(p)' = Undisturbed(p)
                               /\ Buffered(p)' = Buffered(p)
      BY <1>1, <3>1 DEF Mine, ShareContents, Contents, Trespassed, Undisturbed, Buffered
    <3>4. SharesHold'
      BY <1>1, <1>2, <3>3 DEF SharesHold
    <3>5. \A p \in BucketIds : p <= q => bucketFlush[p] >= share \/ bucketIndex[p] = 0
      <4>1. \A p \in BucketIds : p <= q => p < q \/ p = q
        BY SharePlaces
      <4>2. bucketFlush[q] >= share
        BY <1>2, <1>3, <2>3 DEF BufferTypes
      <4> QED BY <1>6, <4>1, <4>2
    <3> QED BY <1>6, <3>1, <3>2, <3>3, <3>4, <3>5
  <2> QED BY <2>2, <2>3
<1>8. SharesKeep'
  <2>1. CASE stage' = "flush"
    <3>1. i' = i + 1 /\ i' < numBuckets
      BY <1>1, <1>3, <1>4, <2>1
    <3>2. \A p \in BucketIds : p < i' => p <= q
      BY <1>0, <3>1, SharePlaces
    <3> QED BY <1>1, <1>7, <2>1, <3>1, <3>2 DEF SharesKeep
  <2>2. CASE stage' # "flush"
    <3>1. i + 1 = numBuckets
      BY <1>1, <2>2
    <3>2. \A p \in BucketIds : p <= q
      BY <1>4, <1>0, <3>1 DEF BucketIds
    <3>3. (FileTypes /\ BufferTypes =>
            \A p \in BucketIds : bucketFlush[p] <= share => Mine(p) \subseteq ShareContents(p))'
      BY MineInShares, PTL
    <3>4. ASSUME NEW p \in BucketIds, Undisturbed(p)'
          PROVE  generated'[p] \subseteq
                   ShareContents(p)' \cup (IF bucketFlush'[p] = share THEN Buffered(p)' ELSE {})
      <4>1. bucketFlush'[p] <= share /\ bucketFlush'[p] \in Nat
        BY <1>7, <3>4 DEF Undisturbed, BufferTypes
      <4>2. Mine(p)' \subseteq ShareContents(p)'
        BY <1>7, <3>3, <4>1
      <4>3. generated'[p] \subseteq Mine(p)' \cup Buffered(p)'
        BY <1>1, <1>7, <3>4
      <4>4. bucketFlush'[p] = share \/ bucketIndex'[p] = 0
        BY <1>3, <1>7, <3>2, <4>1
      <4>5. bucketIndex'[p] = 0 => Buffered(p)' = {}
        BY DEF Buffered
      <4> QED BY <4>2, <4>3, <4>4, <4>5
    <3> QED BY <1>1, <2>2, <3>4 DEF SharesKeep
  <2> QED BY <2>1, <2>2
<1> QED BY <1>7, <1>8 DEF HashgenInv

-----------------------------------------------------------------------------
(* psort.c and sort.c                                                      *)

PartStart(m) == m * numberOfHashesInBucket

PartContents(f, m) == Contents(f, PartStart(m), PartStart(m) + numberOfHashesInBucket)

InOrder(f, m) ==
  \A x, y \in (PartStart(m) + 1)..(PartStart(m) + numberOfHashesInBucket) :
    x < y => f[x] <= f[y]

AllParts == 0..(numberOfBucketsToSort - 1)

\* How often psort fills its buffer, and the first part it then reads.
Batches == numberOfBucketsToSort \div NumThreads
FirstPart == i * NumThreads

\* Both programs go through the file part by part.  A thread of psort that
\* has not ended yet sorts a part of the buffer that holds what the file does.
SortInv ==
  /\ stage = "read" => /\ i < Batches
                       /\ \A m \in AllParts : m < FirstPart => InOrder(file, m)
  /\ stage = "sort" =>
       /\ i < Batches
       /\ \A m \in AllParts : m < FirstPart => InOrder(file, m)
       /\ buckets \in Seq(Nat) /\ Len(buckets) = Batch
       /\ \A t \in Threads : PartContents(buckets, t) = PartContents(file, FirstPart + t)
       /\ \A t \in Threads : t \notin sorting => InOrder(buckets, t)
  /\ stage = "sortAlone" => /\ i < numberOfBucketsToSort
                            /\ \A m \in AllParts : m < i => InOrder(file, m)
  /\ stage \in {"pick", "load", "search", "answered", "scanned"} =>
       \A m \in AllParts : InOrder(file, m)

\* The parts make up the file, and the batches the parts.
LEMMA PartSizes ==
  /\ numberOfBucketsToSort \in Nat \ {0} /\ Batches \in Nat \ {0}
  /\ numberOfBucketsToSort = numBuckets * Parts
  /\ Batches * NumThreads = numberOfBucketsToSort
  /\ PartStart(numberOfBucketsToSort) = MAX_HASHES
<1>1. /\ numBuckets \in Nat \ {0} /\ Parts \in Nat \ {0} /\ NumThreads \in Nat \ {0}
      /\ numberOfHashesInBucket \in Nat \ {0}
      /\ Parts * numberOfHashesInBucket = hashesPerBucketRead
  BY Sizes
<1>2. numberOfBucketsToSort = Parts * numBuckets
  BY DEF numberOfBucketsToSort, Parts
<1>3. Parts * numBuckets \in Nat \ {0} /\ Parts * numBuckets = numBuckets * Parts
  <2>1. Parts * numBuckets \in Nat /\ Parts * numBuckets = numBuckets * Parts
    BY <1>1, Associative
  <2>2. 1 * Parts <= numBuckets * Parts
    BY <1>1, Products
  <2> QED BY <1>1, <2>1, <2>2
<1>4. Batches \in Nat \ {0} /\ Batches * NumThreads = numberOfBucketsToSort
  BY <1>1, <1>2, <1>3, PlotAssumption, Divides DEF Batches
<1>5. (numBuckets * Parts) * numberOfHashesInBucket =
        numBuckets * (Parts * numberOfHashesInBucket)
  BY <1>1, Associative
<1> QED BY <1>1, <1>2, <1>3, <1>4, <1>5 DEF PartStart, MAX_HASHES

\* Parts lie one behind the other in the file.
LEMMA PartPlaces ==
  ASSUME NEW m \in Nat
  PROVE  /\ PartStart(m) \in Nat
         /\ m \in AllParts => PartStart(m) + numberOfHashesInBucket <= MAX_HASHES
         /\ \A l \in Nat : l < m => PartStart(l) + numberOfHashesInBucket <= PartStart(m)
         /\ \A l \in Nat : PartStart(m + l) = PartStart(m) + PartStart(l)
<1>1. numberOfHashesInBucket \in Nat /\ numberOfBucketsToSort \in Nat
  BY Sizes, PartSizes
<1>2. PartStart(m) \in Nat
      /\ PartStart(m) + numberOfHashesInBucket = (m + 1) * numberOfHashesInBucket
  BY <1>1, Products DEF PartStart
<1>3. m \in AllParts => PartStart(m) + numberOfHashesInBucket <= MAX_HASHES
  <2> SUFFICES ASSUME m \in AllParts
               PROVE  PartStart(m) + numberOfHashesInBucket <= MAX_HASHES
    OBVIOUS
  <2>1. m + 1 <= numberOfBucketsToSort
    BY <1>1 DEF AllParts
  <2>2. (m + 1) * numberOfHashesInBucket <= PartStart(numberOfBucketsToSort)
    BY <1>1, <2>1, Products DEF PartStart
  <2> QED BY <1>2, <2>2, PartSizes
<1>4. ASSUME NEW l \in Nat, l < m
      PROVE  PartStart(l) + numberOfHashesInBucket <= PartStart(m)
  <2>1. (l + 1) * numberOfHashesInBucket = PartStart(l) + numberOfHashesInBucket
    BY <1>1, Products DEF PartStart
  <2>2. (l + 1) * numberOfHashesInBucket <= PartStart(m)
    <3>1. l + 1 \in Nat /\ l + 1 <= m
      BY <1>4
    <3> QED BY <1>1, <3>1, Products DEF PartStart
  <2> QED BY <2>1, <2>2
<1>5. \A l \in Nat : PartStart(m + l) = PartStart(m) + PartStart(l)
  BY <1>1, Products DEF PartStart
<1> QED BY <1>2, <1>3, <1>4, <1>5

\* Every entry of a share is in a part that lies in that share.
LEMMA PartOfShare ==
  ASSUME NEW p \in BucketIds,
         NEW k \in (ShareStart(p) + 1)..(ShareStart(p) + hashesPerBucketRead)
  PROVE  \E l \in Nat :
           /\ l < Parts
           /\ p * Parts + l \in AllParts
           /\ PartStart(p * Parts + l) = ShareStart(p) + PartStart(l)
           /\ k \in (PartStart(p * Parts + l) + 1)..
                    (PartStart(p * Parts + l) + numberOfHashesInBucket)
           /\ ShareStart(p) <= PartStart(p * Parts + l)
           /\ PartStart(p * Parts + l) + numberOfHashesInBucket <=
                ShareStart(p) + hashesPerBucketRead
<1> DEFINE h == numberOfHashesInBucket
           a == k - 1 - ShareStart(p)
           l == a \div h
<1>1. /\ h \in Nat \ {0} /\ Parts \in Nat \ {0} /\ hashesPerBucketRead \in Nat
      /\ Parts * h = hashesPerBucketRead /\ numBuckets \in Nat
  BY Sizes
<1>2. ShareStart(p) \in Nat /\ p \in Nat /\ p + 1 <= numBuckets
  BY <1>1, SharePlaces DEF BucketIds
<1>3. a \in Nat /\ a < Parts * h /\ k = ShareStart(p) + a + 1
  BY <1>1, <1>2
<1> HIDE DEF a, h
<1>4. l \in Nat /\ a % h \in 0..(h - 1) /\ a = l * h + (a % h)
  BY <1>1, <1>3, Quotient
<1> HIDE DEF l
<1>5. l * h \in Nat /\ (l + 1) * h = l * h + h /\ Parts * h \in Nat
  BY <1>1, <1>4, Products
<1>6. l * h <= a /\ a < l * h + h
  BY <1>1, <1>4, <1>5
<1>7. l < Parts
  <2> SUFFICES ASSUME Parts <= l PROVE FALSE
    BY <1>1, <1>4
  <2>1. Parts * h <= l * h
    BY <1>1, <1>4, Products
  <2> QED BY <1>3, <1>5, <1>6, <2>1
<1>8. l * h + h <= hashesPerBucketRead
  <2>1. (l + 1) * h <= Parts * h
    BY <1>1, <1>4, <1>7, Products
  <2> QED BY <1>1, <1>5, <2>1
<1>9. p * Parts \in Nat /\ p * Parts + l \in AllParts
  <2>1. p * Parts \in Nat /\ (p + 1) * Parts = p * Parts + Parts
        /\ (p + 1) * Parts <= numBuckets * Parts
    BY <1>1, <1>2, Products
  <2>2. numberOfBucketsToSort = numBuckets * Parts /\ numberOfBucketsToSort \in Nat
    BY PartSizes
  <2> QED BY <1>1, <1>4, <1>7, <2>1, <2>2 DEF AllParts
<1>10. PartStart(p * Parts + l) = ShareStart(p) + l * h /\ PartStart(l) = l * h
  <2>1. (p * Parts) * h = p * (Parts * h)
    BY <1>1, <1>2, Associative
  <2>2. (p * Parts + l) * h = (p * Parts) * h + l * h
    BY <1>1, <1>4, <1>9, Products
  <2> QED BY <1>1, <2>1, <2>2 DEF PartStart, ShareStart, h
<1>11. k \in (PartStart(p * Parts + l) + 1)..(PartStart(p * Parts + l) + h)
  BY <1>1, <1>2, <1>3, <1>5, <1>6, <1>10
<1>12. /\ ShareStart(p) <= PartStart(p * Parts + l)
       /\ PartStart(p * Parts + l) + h <= ShareStart(p) + hashesPerBucketRead
  BY <1>1, <1>2, <1>5, <1>8, <1>10
<1> QED BY <1>4, <1>7, <1>9, <1>10, <1>11, <1>12 DEF h

\* When every part keeps its hashes every share does.
LEMMA PartsMakeShares ==
  ASSUME \A m \in AllParts : PartContents(file, m)' = PartContents(file, m),
         NEW p \in BucketIds
  PROVE  ShareContents(p)' = ShareContents(p)
<1>1. /\ ShareStart(p) \in Nat /\ hashesPerBucketRead \in Nat
      /\ numberOfHashesInBucket \in Nat
  BY SharePlaces, Sizes
<1>2. ASSUME NEW k \in (ShareStart(p) + 1)..(ShareStart(p) + hashesPerBucketRead)
      PROVE  file[k] \in ShareContents(p)' /\ file'[k] \in ShareContents(p)
  <2>1. PICK l \in Nat :
          /\ p * Parts + l \in AllParts
          /\ k \in (PartStart(p * Parts + l) + 1)..
                   (PartStart(p * Parts + l) + numberOfHashesInBucket)
          /\ ShareStart(p) <= PartStart(p * Parts + l)
          /\ PartStart(p * Parts + l) + numberOfHashesInBucket <=
               ShareStart(p) + hashesPerBucketRead
    BY PartOfShare
  <2> DEFINE m == p * Parts + l
  <2>2. m \in AllParts /\ PartStart(m) \in Nat
    <3>1. m \in Nat
      BY <2>1, PartSizes DEF AllParts
    <3> QED BY <2>1, <3>1, PartPlaces
  <2>3. PartContents(file', m) = PartContents(file, m)
    BY <2>2 DEF PartContents, Contents
  <2> HIDE DEF m
  <2>4. /\ k \in (PartStart(m) + 1)..(PartStart(m) + numberOfHashesInBucket)
        /\ \A x \in (PartStart(m) + 1)..(PartStart(m) + numberOfHashesInBucket) :
             x \in (ShareStart(p) + 1)..(ShareStart(p) + hashesPerBucketRead)
    BY <1>1, <2>1, <2>2 DEF m
  <2>5. PartContents(file, m) \subseteq ShareContents(p)
    BY <2>4 DEF PartContents, ShareContents, Contents
  <2>6. PartContents(file', m) \subseteq ShareContents(p)'
    BY <2>4 DEF PartContents, ShareContents, Contents
  <2>7. file[k] \in PartContents(file, m) /\ file'[k] \in PartContents(file', m)
    BY <2>4 DEF PartContents, Contents
  <2> QED BY <2>3, <2>5, <2>6, <2>7
<1> QED BY <1>2 DEF ShareContents, Contents

\* After hashgen the shares keep what hashgen left there.
LEMMA SharesKept ==
  ASSUME HashgenInv, UNCHANGED hashgen,
         stage \notin {"generate", "flush"}, stage' \in Stages \ {"generate", "flush"},
         i' \in Nat, file' \in Seq(Nat), Len(file') >= Len(file),
         \A p \in BucketIds : ShareContents(p)' = ShareContents(p)
  PROVE  HashgenInv'
<1>1. FileTypes'
  <2>1. Len(file) >= MAX_HASHES /\ Len(file) \in Nat /\ Len(file') \in Nat /\ MAX_HASHES \in Nat
    <3>1. numBuckets \in Nat /\ hashesPerBucketRead \in Nat
      BY Sizes
    <3> QED BY <3>1, Products DEF HashgenInv, FileTypes, MAX_HASHES
  <2> QED BY <2>1 DEF FileTypes
<1>2. BufferTypes'
  BY DEF HashgenInv, BufferTypes, hashgen
<1>3. \A p \in BucketIds : /\ Trespassed(p)' = Trespassed(p)
                           /\ Undisturbed(p)' = Undisturbed(p)
                           /\ Buffered(p)' = Buffered(p)
  BY DEF Trespassed, Undisturbed, Buffered, hashgen
<1>4. SharesHold'
  BY <1>3 DEF HashgenInv, SharesHold, hashgen
<1>5. SharesKeep'
  BY <1>3 DEF HashgenInv, SharesKeep, hashgen
<1> QED BY <1>1, <1>2, <1>4, <1>5 DEF HashgenInv

\* The write of sorted parts that hold what the file does: from part first on,
\* n of them, which data has from its beginning.
LEMMA PartsWritten ==
  ASSUME FileTypes, NEW data \in Seq(Nat), NEW first \in Nat, NEW n \in Nat,
         first + n <= numberOfBucketsToSort,
         Len(data) = n * numberOfHashesInBucket,
         Write(data, PartStart(first)),
         \A t \in 0..(n - 1) : PartContents(data, t) = PartContents(file, first + t)
                               /\ InOrder(data, t)
  PROVE  /\ file' \in Seq(Nat) /\ Len(file') >= Len(file)
         /\ \A m \in AllParts : PartContents(file, m)' = PartContents(file, m)
         /\ \A m \in AllParts : m >= first /\ m < first + n => InOrder(file', m)
         /\ \A m \in AllParts : InOrder(file, m) => InOrder(file', m)
<1> DEFINE h == numberOfHashesInBucket
           at == PartStart(first)
<1>1. h \in Nat \ {0} /\ numberOfBucketsToSort \in Nat /\ MAX_HASHES \in Nat
      /\ Len(file) \in Nat /\ Len(file) >= MAX_HASHES
  <2>1. numBuckets \in Nat /\ hashesPerBucketRead \in Nat
    BY Sizes
  <2> QED BY <2>1, Sizes, PartSizes, Products DEF FileTypes, MAX_HASHES
<1>2. at \in Nat /\ Len(data) = PartStart(n)
  BY PartPlaces DEF PartStart
<1>3. /\ file' \in Seq(Nat) /\ Len(file') >= Len(file)
      /\ \A k \in 1..Len(data) : file'[at + k] = data[k]
      /\ \A k \in 1..Len(file) : k <= at \/ k > at + Len(data) => file'[k] = file[k]
  BY <1>2, WriteGives DEF FileTypes
<1>4. ASSUME NEW m \in AllParts, m >= first, m < first + n
      PROVE  PartContents(file', m) = PartContents(file, m) /\ InOrder(file', m)
  <2> DEFINE t == m - first
  <2>1. t \in 0..(n - 1) /\ t \in Nat /\ m = first + t /\ m \in Nat
    BY <1>1, <1>4 DEF AllParts
  <2> HIDE DEF t
  <2>2. /\ PartStart(t) \in Nat /\ PartStart(m) = at + PartStart(t)
        /\ PartStart(t) + h <= Len(data)
    <3>1. PartStart(t) \in Nat /\ n \in Nat /\ t < n
      <4>1. t < n
        BY <2>1
      <4> QED BY <2>1, <4>1, PartPlaces
    <3>2. PartStart(t) + h <= PartStart(n)
      BY <2>1, <3>1, PartPlaces
    <3>3. PartStart(first + t) = at + PartStart(t)
      BY <2>1, PartPlaces
    <3> QED BY <1>2, <2>1, <3>1, <3>2, <3>3
  <2> HIDE DEF at, h
  <2> DEFINE b == PartStart(t)
             c == PartStart(m)
             len == Len(data)
  <2>7. b \in Nat /\ c = at + b /\ b + h <= len /\ len \in Nat /\ h \in Nat /\ at \in Nat
    BY <1>1, <1>2, <2>2
  <2>3. \A k \in (PartStart(m) + 1)..(PartStart(m) + h) :
          /\ k - at \in (PartStart(t) + 1)..(PartStart(t) + h)
          /\ file'[k] = data[k - at]
    <3> TAKE k \in (PartStart(m) + 1)..(PartStart(m) + h)
    <3>1. k - at \in (PartStart(t) + 1)..(PartStart(t) + h) /\ k - at \in 1..Len(data)
          /\ at + (k - at) = k
      <4> HIDE DEF b, c, len
      <4>1. k \in (c + 1)..(c + h)
        BY DEF c
      <4>2. k - at \in (b + 1)..(b + h) /\ k - at \in 1..len /\ at + (k - at) = k
        BY <2>7, <4>1
      <4> QED BY <4>2 DEF b, len
    <3> QED BY <1>3, <3>1
  <2>4. \A k \in (PartStart(t) + 1)..(PartStart(t) + h) :
          /\ at + k \in (PartStart(m) + 1)..(PartStart(m) + h)
          /\ file'[at + k] = data[k]
    <3> TAKE k \in (PartStart(t) + 1)..(PartStart(t) + h)
    <3>1. k \in 1..Len(data) /\ at + k \in (PartStart(m) + 1)..(PartStart(m) + h)
      <4> HIDE DEF b, c, len
      <4>1. k \in (b + 1)..(b + h)
        BY DEF b
      <4>2. k \in 1..len /\ at + k \in (c + 1)..(c + h)
        BY <2>7, <4>1
      <4> QED BY <4>2 DEF c, len
    <3> QED BY <1>3, <3>1
  <2>5. PartContents(file', m) = PartContents(data, t)
    <3>1. PartContents(file', m) \subseteq PartContents(data, t)
      BY <2>3 DEF PartContents, Contents, h
    <3>2. PartContents(data, t) \subseteq PartContents(file', m)
      BY <2>4 DEF PartContents, Contents, h
    <3> QED BY <3>1, <3>2
  <2>6. InOrder(file', m)
    <3> SUFFICES ASSUME NEW x \in (PartStart(m) + 1)..(PartStart(m) + h),
                        NEW y \in (PartStart(m) + 1)..(PartStart(m) + h), x < y
                 PROVE  file'[x] <= file'[y]
      BY DEF InOrder, h
    <3>1. /\ x - at \in (PartStart(t) + 1)..(PartStart(t) + h) /\ file'[x] = data[x - at]
          /\ y - at \in (PartStart(t) + 1)..(PartStart(t) + h) /\ file'[y] = data[y - at]
          /\ x - at < y - at
      <4>1. x - at < y - at
        <5> HIDE DEF c
        <5>1. x \in (c + 1)..(c + h) /\ y \in (c + 1)..(c + h)
          BY DEF c
        <5> QED BY <2>7, <5>1
      <4> QED BY <2>3, <4>1
    <3>2. InOrder(data, t)
      BY <2>1
    <3> QED BY <3>1, <3>2 DEF InOrder, h
  <2> QED BY <2>1, <2>5, <2>6
<1>5. ASSUME NEW m \in AllParts, ~(m >= first /\ m < first + n)
      PROVE  /\ PartContents(file', m) = PartContents(file, m)
             /\ InOrder(file, m) => InOrder(file', m)
  <2>1. m \in Nat /\ PartStart(m) \in Nat /\ PartStart(m) + h <= MAX_HASHES
    <3>1. m \in Nat
      BY <1>1, <1>5 DEF AllParts
    <3> QED BY <1>5, <3>1, PartPlaces
  <2>2. PartStart(m) + h <= at \/ PartStart(m) >= at + Len(data)
    <3>1. CASE m < first
      BY <2>1, <3>1, PartPlaces
    <3>2. CASE m >= first + n
      <4>1. PartStart(first + n) = at + Len(data) /\ first + n \in Nat
        BY <1>2, PartPlaces
      <4>2. first + n < m => PartStart(first + n) + h <= PartStart(m)
        BY <2>1, <4>1, PartPlaces
      <4>3. first + n < m \/ first + n = m
        BY <2>1, <3>2
      <4> QED BY <1>1, <1>2, <2>1, <4>1, <4>2, <4>3, SMTT(30)
    <3> QED BY <1>5, <2>1, <3>1, <3>2
  <2>3. \A k \in (PartStart(m) + 1)..(PartStart(m) + h) : file'[k] = file[k]
    <3> TAKE k \in (PartStart(m) + 1)..(PartStart(m) + h)
    <3>1. k \in 1..Len(file)
      BY <1>1, <2>1
    <3>2. k <= at \/ k > at + Len(data)
      BY <1>1, <1>2, <2>1, <2>2, SMTT(30)
    <3> QED BY <1>3, <3>1, <3>2
  <2>4. PartContents(file', m) = PartContents(file, m)
    BY <2>3 DEF PartContents, Contents
  <2>5. InOrder(file, m) => InOrder(file', m)
    BY <2>3 DEF InOrder
  <2> QED BY <2>4, <2>5
<1>6. \A m \in AllParts : PartContents(file, m)' = PartContents(file', m)
  BY DEF PartContents, Contents
<1> QED BY <1>3, <1>4, <1>5, <1>6

\* A thread puts its part of the buffer in order and leaves the rest.
LEMMA SortedPart ==
  ASSUME buckets \in Seq(Nat), Len(buckets) = Batch, NEW t \in Threads
  PROVE  /\ Sorted(t) \in Seq(Nat) /\ Len(Sorted(t)) = Batch
         /\ InOrder(Sorted(t), t)
         /\ \A u \in Threads : PartContents(Sorted(t), u) = PartContents(buckets, u)
         /\ \A u \in Threads : u # t /\ InOrder(buckets, u) => InOrder(Sorted(t), u)
<1> DEFINE h == numberOfHashesInBucket
           start == t * h
           part == qsort(SubSeq(buckets, start + 1, start + h))
<1>1. h \in Nat \ {0} /\ NumThreads \in Nat \ {0} /\ t \in Nat /\ t + 1 <= NumThreads
  BY Sizes DEF Threads
<1>2. start \in Nat /\ start + h <= Batch /\ Batch \in Nat /\ PartStart(t) = start
  <2>1. start \in Nat /\ (t + 1) * h = start + h /\ (t + 1) * h <= NumThreads * h
    BY <1>1, Products
  <2>2. NumThreads * h = h * NumThreads /\ h * NumThreads \in Nat
    BY <1>1, Associative
  <2> QED BY <1>1, <2>1, <2>2 DEF Batch, PartStart
<1> HIDE DEF h, start
<1>3. /\ SubSeq(buckets, start + 1, start + h) \in Seq(Nat)
      /\ Len(SubSeq(buckets, start + 1, start + h)) = h
      /\ \A k \in 1..h : SubSeq(buckets, start + 1, start + h)[k] = buckets[start + k]
  <2>1. start + h <= Len(buckets) /\ Len(buckets) \in Nat
    BY <1>2
  <2> QED BY <1>1, <1>2, <2>1
<1>4. /\ part \in Seq(Nat) /\ Len(part) = h
      /\ Range(part) = Range(SubSeq(buckets, start + 1, start + h))
      /\ \A x, y \in 1..h : x < y => part[x] <= part[y]
  BY <1>3, QsortSorts
<1>5. Range(part) = Contents(buckets, start, start + h)
  <2> DEFINE sub == SubSeq(buckets, start + 1, start + h)
  <2>1. sub \in Seq(Nat) /\ Len(sub) = h /\ \A k \in 1..Len(sub) : sub[k] = buckets[start + k]
    BY <1>3
  <2> HIDE DEF sub
  <2>2. Range(sub) = Contents(buckets, start, start + Len(sub))
    BY <1>2, <2>1, SameContents
  <2> QED BY <1>4, <2>1, <2>2 DEF sub
<1>6. Sorted(t) = [k \in DOMAIN buckets |->
                     IF k \in (start + 1)..(start + h) THEN part[k - start] ELSE buckets[k]]
  BY DEF Sorted, start, h
<1> HIDE DEF part
<1>7. /\ DOMAIN buckets = 1..Batch
      /\ \A k \in 1..Batch : buckets[k] \in Nat
      /\ \A k \in (start + 1)..(start + h) :
           k \in 1..Batch /\ k - start \in 1..h /\ part[k - start] \in Nat
  <2>1. DOMAIN buckets = 1..Batch /\ \A k \in 1..Batch : buckets[k] \in Nat
    OBVIOUS
  <2>2. ASSUME NEW k \in (start + 1)..(start + h)
        PROVE  k \in 1..Batch /\ k - start \in 1..h
    BY <1>1, <1>2
  <2>3. \A k \in 1..h : part[k] \in Nat
    BY <1>4
  <2> QED BY <2>1, <2>2, <2>3
<1>8. /\ Sorted(t) \in [1..Batch -> Nat]
      /\ \A k \in (start + 1)..(start + h) : Sorted(t)[k] = part[k - start]
      /\ \A k \in 1..Batch : k \notin (start + 1)..(start + h) => Sorted(t)[k] = buckets[k]
  BY <1>6, <1>7
<1>9. Sorted(t) \in Seq(Nat) /\ Len(Sorted(t)) = Batch
  BY <1>2, <1>8
<1>10. InOrder(Sorted(t), t)
  <2> SUFFICES ASSUME NEW x \in (start + 1)..(start + h), NEW y \in (start + 1)..(start + h),
                      x < y
               PROVE  Sorted(t)[x] <= Sorted(t)[y]
    BY <1>2 DEF InOrder, h
  <2>1. x - start < y - start
    BY <1>2
  <2> QED BY <1>4, <1>7, <1>8, <2>1
<1>11. PartContents(Sorted(t), t) = PartContents(buckets, t)
  <2>1. \A k \in 1..h : part[k] = Sorted(t)[start + k]
    <3> TAKE k \in 1..h
    <3>1. start + k \in (start + 1)..(start + h) /\ (start + k) - start = k
      BY <1>1, <1>2
    <3> QED BY <1>8, <3>1
  <2>2. Range(part) = Contents(Sorted(t), start, start + h)
    <3>1. \A k \in 1..Len(part) : part[k] = Sorted(t)[start + k]
      BY <1>4, <2>1
    <3>2. Range(part) = Contents(Sorted(t), start, start + Len(part))
      BY <1>2, <1>4, <3>1, SameContents
    <3> QED BY <1>4, <3>2
  <2> QED BY <1>2, <1>5, <2>2 DEF PartContents, h
<1>12. ASSUME NEW u \in Threads, u # t
       PROVE  \A k \in (PartStart(u) + 1)..(PartStart(u) + h) : Sorted(t)[k] = buckets[k]
  <2>1. u \in Nat /\ u + 1 <= NumThreads
    BY <1>1 DEF Threads
  <2>2. /\ PartStart(u) \in Nat
        /\ u < t => PartStart(u) + h <= start
        /\ t < u => start + h <= PartStart(u)
    BY <1>1, <1>2, <2>1, PartPlaces DEF h
  <2>3. PartStart(u) + h <= Batch
    <3>1. (u + 1) * h = PartStart(u) + h /\ (u + 1) * h <= NumThreads * h
      BY <1>1, <2>1, Products DEF PartStart, h
    <3>2. NumThreads * h = Batch
      BY <1>1, Associative DEF Batch, h
    <3> QED BY <3>1, <3>2
  <2> TAKE k \in (PartStart(u) + 1)..(PartStart(u) + h)
  <2>4. k \in 1..Batch /\ k \notin (start + 1)..(start + h)
    BY <1>1, <1>2, <1>12, <2>1, <2>2, <2>3, SMTT(30)
  <2> QED BY <1>8, <2>4
<1>13. \A u \in Threads : u # t => PartContents(Sorted(t), u) = PartContents(buckets, u)
  BY <1>12 DEF PartContents, Contents, h
<1>14. \A u \in Threads : u # t /\ InOrder(buckets, u) => InOrder(Sorted(t), u)
  BY <1>12 DEF InOrder, h
<1> QED BY <1>9, <1>10, <1>11, <1>13, <1>14

\* What was written is sorted and as before: the invariant of hashgen holds.
LEMMA SortersKeepShares ==
  ASSUME HashgenInv, UNCHANGED hashgen,
         stage \notin {"generate", "flush"}, stage' \in Stages \ {"generate", "flush"},
         i' \in Nat, file' \in Seq(Nat), Len(file') >= Len(file),
         \A m \in AllParts : PartContents(file, m)' = PartContents(file, m)
  PROVE  HashgenInv'
<1>1. \A p \in BucketIds : ShareContents(p)' = ShareContents(p)
  BY PartsMakeShares
<1> QED BY <1>1, SharesKept

\* sort.c sorts one part more.
LEMMA SortAloneKeeps ==
  ASSUME HashgenInv, SortInv, SortBucketAlone
  PROVE  HashgenInv' /\ SortInv'
<1> DEFINE h == numberOfHashesInBucket
<1>1. /\ stage = "sortAlone" /\ i \in Nat /\ i < numberOfBucketsToSort
      /\ \A m \in AllParts : m < i => InOrder(file, m)
      /\ file \in Seq(Nat) /\ Len(file) >= MAX_HASHES /\ FileTypes
  BY DEF SortBucketAlone, SortInv, HashgenInv, FileTypes
<1>2. PICK q \in Nat : q = i
  BY <1>1
<1>3. h \in Nat \ {0} /\ numberOfBucketsToSort \in Nat \ {0} /\ q \in AllParts
      /\ MAX_HASHES \in Nat
  <2>1. numBuckets \in Nat /\ hashesPerBucketRead \in Nat /\ h \in Nat \ {0}
    BY Sizes
  <2>2. MAX_HASHES \in Nat
    BY <2>1, Products DEF MAX_HASHES
  <2> QED BY <1>1, <1>2, <2>1, <2>2, PartSizes DEF AllParts
<1> DEFINE start == PartStart(q)
           read == Read(start, h)
           data == qsort(read)
<1>4. start \in Nat /\ start + h <= Len(file)
  <2>1. start \in Nat /\ start + h <= MAX_HASHES
    BY <1>3, PartPlaces
  <2> QED BY <1>1, <1>3, <2>1
<1>5. read \in Seq(Nat) /\ Len(read) = h /\ Range(read) = Contents(file, start, start + h)
  BY <1>1, <1>3, <1>4, ReadGives
<1>6. /\ data \in Seq(Nat) /\ Len(data) = h /\ Range(data) = Range(read)
      /\ \A x, y \in 1..h : x < y => data[x] <= data[y]
  <2> HIDE DEF read
  <2> QED BY <1>5, QsortSorts
<1>7. /\ Write(data, start)
      /\ i' = IF q + 1 = numberOfBucketsToSort THEN 0 ELSE q + 1
      /\ stage' = IF q + 1 = numberOfBucketsToSort THEN "pick" ELSE stage
      /\ UNCHANGED hashgen
  BY <1>2 DEF SortBucketAlone, PartStart
<1> HIDE DEF data, read
<1>8. PartStart(0) = 0
  BY <1>3, Z3 DEF PartStart
<1>9. PartContents(data, 0) = PartContents(file, q)
  <2>1. \A k \in 1..Len(data) : data[k] = data[0 + k]
    BY <1>6
  <2>2. Range(data) = Contents(data, 0, 0 + Len(data))
    BY <1>6, <2>1, SameContents
  <2> QED BY <1>5, <1>6, <1>8, <2>2 DEF PartContents
<1>10. InOrder(data, 0)
  BY <1>3, <1>6, <1>8 DEF InOrder
<1>11. \A t \in 0..(1 - 1) : PartContents(data, t) = PartContents(file, q + t)
                             /\ InOrder(data, t)
  <2>1. \A t \in 0..(1 - 1) : t = 0 /\ q + t = q
    OBVIOUS
  <2> QED BY <1>9, <1>10, <2>1
<1>12. q + 1 <= numberOfBucketsToSort /\ Len(data) = 1 * h
  <2>1. 1 * h = h
    BY <1>3, Z3
  <2> QED BY <1>1, <1>2, <1>3, <1>6, <2>1
<1>13. /\ file' \in Seq(Nat) /\ Len(file') >= Len(file)
       /\ \A m \in AllParts : PartContents(file, m)' = PartContents(file, m)
       /\ \A m \in AllParts : m >= q /\ m < q + 1 => InOrder(file', m)
       /\ \A m \in AllParts : InOrder(file, m) => InOrder(file', m)
  BY <1>1, <1>6, <1>7, <1>11, <1>12, PartsWritten
<1>14. HashgenInv'
  <2>1. stage' \in Stages \ {"generate", "flush"} /\ stage \notin {"generate", "flush"}
    BY <1>1, <1>7 DEF Stages
  <2>2. i' \in Nat
    BY <1>7
  <2> QED BY <1>7, <1>13, <2>1, <2>2, SortersKeepShares
<1>15. \A m \in AllParts : m < q + 1 => InOrder(file, m)'
  <2> TAKE m \in AllParts
  <2>1. m \in Nat
    BY <1>3 DEF AllParts
  <2>2. InOrder(file, m)' <=> InOrder(file', m)
    BY DEF InOrder
  <2>3. m < q + 1 => m < q \/ (m >= q /\ m < q + 1)
    BY <2>1
  <2> QED BY <1>1, <1>2, <1>13, <2>2, <2>3
<1>16. CASE q + 1 = numberOfBucketsToSort
  <2>1. stage' = "pick"
    BY <1>7, <1>16
  <2>2. \A m \in AllParts : m < q + 1
    BY <1>3, <1>16 DEF AllParts
  <2> QED BY <1>14, <1>15, <2>1, <2>2 DEF SortInv
<1>17. CASE q + 1 # numberOfBucketsToSort
  <2>1. stage' = "sortAlone" /\ i' = q + 1 /\ q + 1 < numberOfBucketsToSort
    BY <1>1, <1>2, <1>3, <1>7, <1>17
  <2> QED BY <1>14, <1>15, <2>1 DEF SortInv
<1> QED BY <1>16, <1>17

\* The places of the batch that psort works on.
LEMMA BatchPlaces ==
  ASSUME NEW q \in Nat, q < Batches
  PROVE  /\ q * NumThreads \in Nat
         /\ q * NumThreads + NumThreads = (q + 1) * NumThreads
         /\ q * NumThreads + NumThreads <= numberOfBucketsToSort
         /\ PartStart(q * NumThreads) = q * Batch
         /\ Batch \in Nat /\ Batch = PartStart(NumThreads)
         /\ PartStart(q * NumThreads) + Batch <= MAX_HASHES
<1>1. /\ NumThreads \in Nat \ {0} /\ numberOfHashesInBucket \in Nat \ {0}
      /\ Batches \in Nat \ {0} /\ Batches * NumThreads = numberOfBucketsToSort
      /\ numberOfBucketsToSort \in Nat \ {0}
      /\ PartStart(numberOfBucketsToSort) = MAX_HASHES
  BY Sizes, PartSizes
<1> DEFINE first == q * NumThreads
<1>2. first \in Nat /\ first + NumThreads = (q + 1) * NumThreads
  BY <1>1, Products
<1>3. (q + 1) * NumThreads <= Batches * NumThreads
  <2>1. q + 1 \in Nat /\ q + 1 <= Batches
    BY <1>1
  <2> QED BY <1>1, <2>1, Products
<1>4. Batch \in Nat /\ Batch = PartStart(NumThreads)
  BY <1>1, Associative DEF Batch, PartStart
<1>5. PartStart(first) = q * Batch
  <2>1. (q * NumThreads) * numberOfHashesInBucket = q * (NumThreads * numberOfHashesInBucket)
    BY <1>1, Associative
  <2> QED BY <1>4, <2>1 DEF PartStart
<1>6. PartStart(first) + Batch <= MAX_HASHES
  <2>1. PartStart(first + NumThreads) = PartStart(first) + Batch
    BY <1>1, <1>2, <1>4, PartPlaces
  <2>2. first + NumThreads <= numberOfBucketsToSort
    BY <1>1, <1>2, <1>3
  <2>3. PartStart(first + NumThreads) <= PartStart(numberOfBucketsToSort)
    <3>1. first + NumThreads \in Nat
      BY <1>1, <1>2
    <3> HIDE DEF first
    <3> QED BY <1>1, <2>2, <3>1, Products DEF PartStart
  <2> QED BY <1>1, <2>1, <2>3
<1> QED BY <1>1, <1>2, <1>3, <1>4, <1>5, <1>6

\* psort reads a batch: its parts are those of the file.
LEMMA ReadKeeps ==
  ASSUME HashgenInv, SortInv, ReadBuckets
  PROVE  HashgenInv' /\ SortInv'
<1> DEFINE h == numberOfHashesInBucket
<1>1. /\ stage = "read" /\ i \in Nat /\ i < Batches
      /\ \A m \in AllParts : m < FirstPart => InOrder(file, m)
      /\ file \in Seq(Nat) /\ Len(file) >= MAX_HASHES
  BY DEF ReadBuckets, SortInv, HashgenInv, FileTypes
<1>2. PICK q \in Nat : q = i
  BY <1>1
<1> DEFINE first == q * NumThreads
           start == PartStart(first)
           read == Read(start, Batch)
<1>3. /\ first \in Nat /\ start = q * Batch /\ Batch \in Nat /\ Batch = PartStart(NumThreads)
      /\ start + Batch <= MAX_HASHES
  BY <1>1, <1>2, BatchPlaces
<1>4. h \in Nat \ {0} /\ NumThreads \in Nat \ {0} /\ MAX_HASHES \in Nat
  <2>1. numBuckets \in Nat /\ hashesPerBucketRead \in Nat
    BY Sizes
  <2>2. MAX_HASHES \in Nat
    BY <2>1, Products DEF MAX_HASHES
  <2> QED BY <2>2, Sizes
<1>5. start \in Nat /\ start + Batch <= Len(file)
  <2>1. start \in Nat
    BY <1>3, PartPlaces
  <2> QED BY <1>1, <1>3, <1>4, <2>1
<1>6. /\ read \in Seq(Nat) /\ Len(read) = Batch
      /\ \A k \in 1..Batch : read[k] = file[start + k]
  BY <1>1, <1>3, <1>5, ReadGives
<1>7. /\ buckets' = read /\ sorting' = Threads /\ stage' = "sort"
      /\ UNCHANGED <<file, i, hashgen>>
  BY <1>2, <1>3 DEF ReadBuckets
<1> HIDE DEF read
<1>8. HashgenInv'
  <2>1. stage' \in Stages \ {"generate", "flush"} /\ stage \notin {"generate", "flush"}
    BY <1>1, <1>7 DEF Stages
  <2>2. i' \in Nat /\ file' \in Seq(Nat) /\ Len(file') >= Len(file)
    <3>1. Len(file) \in Nat
      BY <1>1
    <3> QED BY <1>1, <1>7, <3>1
  <2>3. \A m \in AllParts : PartContents(file, m)' = PartContents(file, m)
    BY <1>7 DEF PartContents, Contents
  <2> QED BY <1>7, <2>1, <2>2, <2>3, SortersKeepShares
<1>9. ASSUME NEW t \in Threads
      PROVE  PartContents(read, t) = PartContents(file, first + t)
  <2> DEFINE b == PartStart(t)
             c == PartStart(first + t)
  <2>1. t \in Nat /\ t + 1 <= NumThreads
    BY <1>4 DEF Threads
  <2>2. b \in Nat /\ c = start + b /\ b + h <= Batch
    <3>1. b \in Nat /\ c = start + b
      BY <1>3, <2>1, PartPlaces
    <3>2. (t + 1) * h = b + h /\ (t + 1) * h <= NumThreads * h
      BY <1>4, <2>1, Products DEF PartStart
    <3> QED BY <1>3, <3>1, <3>2 DEF PartStart
  <2> HIDE DEF b, c, h, start, first
  <2>7. start \in Nat /\ h \in Nat /\ Batch \in Nat
    BY <1>3, <1>4, <1>5
  <2>3. \A k \in (b + 1)..(b + h) : read[k] = file[start + k] /\ start + k \in (c + 1)..(c + h)
    <3> TAKE k \in (b + 1)..(b + h)
    <3>1. k \in 1..Batch /\ start + k \in (c + 1)..(c + h)
      BY <2>2, <2>7
    <3> QED BY <1>6, <3>1
  <2>4. \A k \in (c + 1)..(c + h) :
          k - start \in (b + 1)..(b + h) /\ file[k] = read[k - start]
    <3> TAKE k \in (c + 1)..(c + h)
    <3>1. k - start \in 1..Batch /\ k - start \in (b + 1)..(b + h) /\ start + (k - start) = k
      BY <2>2, <2>7
    <3> QED BY <1>6, <3>1
  <2>5. Contents(read, b, b + h) \subseteq Contents(file, c, c + h)
    BY <2>3 DEF Contents
  <2>6. Contents(file, c, c + h) \subseteq Contents(read, b, b + h)
    BY <2>4 DEF Contents
  <2> QED BY <2>5, <2>6 DEF PartContents, b, c, h
<1>10. SortInv'
  <2>1. FirstPart' = first /\ FirstPart = first
    BY <1>2, <1>7 DEF FirstPart
  <2>2. \A m \in AllParts : InOrder(file, m)' = InOrder(file, m)
    BY <1>7 DEF InOrder
  <2>3. \A t \in Threads : PartContents(buckets, t)' = PartContents(file, FirstPart + t)'
    <3> TAKE t \in Threads
    <3>1. PartContents(buckets, t)' = PartContents(read, t)
      BY <1>7 DEF PartContents, Contents
    <3>2. PartContents(file, FirstPart + t)' = PartContents(file, first + t)
      BY <1>7, <2>1 DEF PartContents, Contents
    <3> QED BY <1>9, <3>1, <3>2
  <2>4. buckets' \in Seq(Nat) /\ Len(buckets') = Batch
    BY <1>6, <1>7
  <2>5. \A t \in Threads : t \notin sorting' => InOrder(buckets, t)'
    BY <1>7
  <2>6. i' < Batches /\ \A m \in AllParts : m < FirstPart' => InOrder(file, m)'
    BY <1>1, <1>7, <2>1, <2>2
  <2> QED BY <1>7, <2>3, <2>4, <2>5, <2>6 DEF SortInv
<1> QED BY <1>8, <1>10

\* A thread of psort sorts its part of the buffer.
LEMMA SortBucketKeeps ==
  ASSUME HashgenInv, SortInv, NEW t \in Threads, sortBucket(t)
  PROVE  HashgenInv' /\ SortInv'
<1>1. /\ stage = "sort" /\ i < Batches
      /\ \A m \in AllParts : m < FirstPart => InOrder(file, m)
      /\ buckets \in Seq(Nat) /\ Len(buckets) = Batch
      /\ \A u \in Threads : PartContents(buckets, u) = PartContents(file, FirstPart + u)
      /\ \A u \in Threads : u \notin sorting => InOrder(buckets, u)
  BY DEF sortBucket, SortInv
<1>2. /\ buckets' = Sorted(t) /\ sorting' = sorting \ {t}
      /\ UNCHANGED <<stage, file, i, hashgen>>
  BY DEF sortBucket
<1>3. /\ Sorted(t) \in Seq(Nat) /\ Len(Sorted(t)) = Batch
      /\ InOrder(Sorted(t), t)
      /\ \A u \in Threads : PartContents(Sorted(t), u) = PartContents(buckets, u)
      /\ \A u \in Threads : u # t /\ InOrder(buckets, u) => InOrder(Sorted(t), u)
  BY <1>1, SortedPart
<1>4. HashgenInv'
  <2>1. stage' \in Stages \ {"generate", "flush"} /\ stage \notin {"generate", "flush"}
    BY <1>1, <1>2 DEF Stages
  <2>2. i' \in Nat /\ file' \in Seq(Nat) /\ Len(file') >= Len(file)
    <3>1. file \in Seq(Nat) /\ i \in Nat /\ Len(file) \in Nat
      BY DEF HashgenInv, FileTypes
    <3> QED BY <1>2, <3>1
  <2>3. \A m \in AllParts : PartContents(file, m)' = PartContents(file, m)
    BY <1>2 DEF PartContents, Contents
  <2> QED BY <1>2, <2>1, <2>2, <2>3, SortersKeepShares
<1>5. FirstPart' = FirstPart
  BY <1>2 DEF FirstPart
<1>6. \A m \in AllParts : InOrder(file, m)' = InOrder(file, m)
  BY <1>2 DEF InOrder
<1>7. \A u \in Threads : PartContents(buckets, u)' = PartContents(file, FirstPart + u)'
  <2> TAKE u \in Threads
  <2>1. PartContents(buckets, u)' = PartContents(Sorted(t), u)
    BY <1>2 DEF PartContents, Contents
  <2>2. PartContents(file, FirstPart + u)' = PartContents(file, FirstPart + u)
    BY <1>2, <1>5 DEF PartContents, Contents
  <2> QED BY <1>1, <1>3, <2>1, <2>2
<1>8. \A u \in Threads : u \notin sorting' => InOrder(buckets, u)'
  <2> SUFFICES ASSUME NEW u \in Threads, u \notin sorting'
               PROVE  InOrder(buckets, u)'
    OBVIOUS
  <2>1. InOrder(Sorted(t), u)
    BY <1>1, <1>2, <1>3
  <2> QED BY <1>2, <2>1 DEF InOrder
<1>9. SortInv'
  BY <1>1, <1>2, <1>3, <1>5, <1>6, <1>7, <1>8 DEF SortInv
<1> QED BY <1>4, <1>9

\* psort writes a batch whose threads have all ended.
LEMMA WriteKeeps ==
  ASSUME HashgenInv, SortInv, WriteBuckets
  PROVE  HashgenInv' /\ SortInv'
<1>1. /\ stage = "sort" /\ i \in Nat /\ i < Batches
      /\ \A m \in AllParts : m < FirstPart => InOrder(file, m)
      /\ buckets \in Seq(Nat) /\ Len(buckets) = Batch
      /\ \A t \in Threads : PartContents(buckets, t) = PartContents(file, FirstPart + t)
                            /\ InOrder(buckets, t)
      /\ file \in Seq(Nat) /\ FileTypes
  BY DEF WriteBuckets, SortInv, HashgenInv, FileTypes
<1>2. PICK q \in Nat : q = i
  BY <1>1
<1> DEFINE first == q * NumThreads
           last == q + 1 = Batches
<1>3. /\ first \in Nat /\ first + NumThreads = (q + 1) * NumThreads
      /\ first + NumThreads <= numberOfBucketsToSort
      /\ PartStart(first) = q * Batch /\ Batch = PartStart(NumThreads)
  BY <1>1, <1>2, BatchPlaces
<1>4. NumThreads \in Nat \ {0} /\ Batches \in Nat \ {0} /\ numberOfBucketsToSort \in Nat
      /\ Batches * NumThreads = numberOfBucketsToSort
  BY Sizes, PartSizes
<1>5. /\ Write(buckets, PartStart(first)) /\ UNCHANGED hashgen
      /\ i' = IF last THEN 0 ELSE q + 1
      /\ stage' = IF last THEN "pick" ELSE "read"
  BY <1>2, <1>3 DEF WriteBuckets, Batches
<1>6. FirstPart = first
  BY <1>2 DEF FirstPart
<1>7. /\ file' \in Seq(Nat) /\ Len(file') >= Len(file)
      /\ \A m \in AllParts : PartContents(file, m)' = PartContents(file, m)
      /\ \A m \in AllParts : m >= first /\ m < first + NumThreads => InOrder(file', m)
      /\ \A m \in AllParts : InOrder(file, m) => InOrder(file', m)
  <2>1. Len(buckets) = NumThreads * numberOfHashesInBucket
    BY <1>1, <1>3 DEF PartStart
  <2>2. \A t \in 0..(NumThreads - 1) : PartContents(buckets, t) = PartContents(file, first + t)
                                       /\ InOrder(buckets, t)
    BY <1>1, <1>6 DEF Threads
  <2>3. first \in Nat /\ NumThreads \in Nat /\ first + NumThreads <= numberOfBucketsToSort
        /\ Write(buckets, PartStart(first)) /\ buckets \in Seq(Nat) /\ FileTypes
    BY <1>1, <1>3, <1>4, <1>5
  <2> HIDE DEF first
  <2> QED BY <2>1, <2>2, <2>3, PartsWritten
<1>8. HashgenInv'
  <2>1. stage' \in Stages \ {"generate", "flush"} /\ stage \notin {"generate", "flush"}
    BY <1>1, <1>5 DEF Stages
  <2>2. i' \in Nat
    BY <1>5
  <2> QED BY <1>5, <1>7, <2>1, <2>2, SortersKeepShares
<1>9. \A m \in AllParts : m < first + NumThreads => InOrder(file, m)'
  <2> HIDE DEF first
  <2> TAKE m \in AllParts
  <2>1. m \in Nat /\ first \in Nat
    BY <1>3, <1>4 DEF AllParts
  <2>2. InOrder(file, m)' <=> InOrder(file', m)
    BY DEF InOrder
  <2>3. m < first + NumThreads => m < first \/ (m >= first /\ m < first + NumThreads)
    BY <2>1
  <2> QED BY <1>1, <1>6, <1>7, <2>2, <2>3
<1>10. CASE last
  <2>1. stage' = "pick"
    BY <1>5, <1>10
  <2>2. first + NumThreads = numberOfBucketsToSort
    BY <1>3, <1>4, <1>10
  <2>3. \A m \in AllParts : m < numberOfBucketsToSort
    BY <1>4 DEF AllParts
  <2> QED BY <1>8, <1>9, <2>1, <2>2, <2>3 DEF SortInv
<1>11. CASE ~last
  <2>1. stage' = "read" /\ i' = q + 1 /\ q + 1 < Batches
    BY <1>1, <1>2, <1>4, <1>5, <1>11
  <2>2. FirstPart' = first + NumThreads
    BY <1>3, <2>1 DEF FirstPart
  <2> QED BY <1>8, <1>9, <2>1, <2>2 DEF SortInv
<1> QED BY <1>10, <1>11

\* hashgen leaves nothing sorted.
LEMMA HashgenSorts ==
  ASSUME HashgenInv,
         FlushRest \/ \E p \in BucketIds, hash \in Hashes : Generate(p, hash)
  PROVE  SortInv'
<1>1. stage' \in {"generate", "flush"} \/ (stage' \in {"read", "sortAlone"} /\ i' = 0)
  <2>1. CASE FlushRest
    <3>1. stage = "flush"
      BY <2>1 DEF FlushRest
    <3>2. CASE i + 1 = numBuckets
      BY <2>1, <3>2 DEF FlushRest
    <3>3. CASE i + 1 # numBuckets
      BY <2>1, <3>1, <3>3 DEF FlushRest
    <3> QED BY <3>2, <3>3
  <2>2. CASE \E p \in BucketIds, hash \in Hashes : Generate(p, hash)
    BY <2>2 DEF Generate
  <2> QED BY <2>1, <2>2
<1>2. CASE stage' \in {"generate", "flush"}
  BY <1>2 DEF SortInv
<1>3. CASE stage' \in {"read", "sortAlone"} /\ i' = 0
  <2>1. Batches \in Nat \ {0} /\ numberOfBucketsToSort \in Nat \ {0} /\ NumThreads \in Nat \ {0}
    BY Sizes, PartSizes
  <2>2. 0 * NumThreads = 0
    BY <2>1
  <2>3. FirstPart' = 0
    BY <1>3, <2>2 DEF FirstPart
  <2>4. \A m \in AllParts : ~(m < 0)
    BY <2>1 DEF AllParts
  <2>5. i' < Batches /\ i' < numberOfBucketsToSort
    BY <1>3, <2>1
  <2> QED BY <1>3, <2>3, <2>4, <2>5 DEF SortInv
<1> QED BY <1>1, <1>2, <1>3

SearchStages == {"pick", "load", "search", "answered", "scanned"}

\* The searches only read the file.
LEMMA SearchesKeep ==
  ASSUME HashgenInv, SortInv, stage \in SearchStages, stage' \in SearchStages,
         UNCHANGED <<file, i, hashgen>>
  PROVE  HashgenInv' /\ SortInv'
<1>1. HashgenInv'
  <2>1. stage' \in Stages \ {"generate", "flush"} /\ stage \notin {"generate", "flush"}
    BY DEF Stages, SearchStages
  <2>2. i' \in Nat /\ file' \in Seq(Nat) /\ Len(file') >= Len(file)
    <3>1. file \in Seq(Nat) /\ i \in Nat /\ Len(file) \in Nat
      BY DEF HashgenInv, FileTypes
    <3> QED BY <3>1
  <2>3. \A m \in AllParts : PartContents(file, m)' = PartContents(file, m)
    BY DEF PartContents, Contents
  <2> QED BY <2>1, <2>2, <2>3, SortersKeepShares
<1>2. \A m \in AllParts : InOrder(file, m)' = InOrder(file, m)
  BY DEF InOrder
<1>3. SortInv'
  BY <1>2 DEF SortInv, SearchStages
<1> QED BY <1>1, <1>3

PlotInv == HashgenInv /\ SortInv

\* What the invariant says holds of a file full of zeros.
LEMMA PlotInvInit == Init => PlotInv
<1> SUFFICES ASSUME Init PROVE PlotInv
  OBVIOUS
<1>1. /\ numBuckets \in Nat \ {0} /\ hashesPerBucketRead \in Nat \ {0}
      /\ hashesPerBucket \in Nat \ {0} /\ share \in Nat \ {0}
  BY Sizes
<1>2. MAX_HASHES \in Nat
  BY <1>1, Products DEF MAX_HASHES
<1>3. /\ file = [k \in 1..MAX_HASHES |-> 0] /\ file \in Seq(Nat) /\ Len(file) = MAX_HASHES
  BY <1>2 DEF Init, Zeros
<1>4. FileTypes
  BY <1>2, <1>3 DEF Init, FileTypes, Stages
<1>5. PICK hash \in Leftovers :
        array2D = [p \in BucketIds |-> [k \in 1..hashesPerBucket |-> hash]]
  BY DEF Init
<1>6. hash \in Nat
  BY <1>5, PlotAssumption
<1>7. BufferTypes
  <2>1. array2D \in [BucketIds -> [1..hashesPerBucket -> Nat]]
    BY <1>5, <1>6
  <2>2. bucketIndex \in [BucketIds -> 0..(hashesPerBucket - 1)]
    BY <1>1 DEF Init
  <2>3. bucketFlush \in [BucketIds -> Nat] /\ generated \in [BucketIds -> SUBSET Hashes]
    BY DEF Init
  <2>4. \A p \in BucketIds : \A k \in 1..hashesPerBucket : array2D[p][k] \in Leftovers
    BY <1>5
  <2> QED BY <2>1, <2>2, <2>3, <2>4 DEF BufferTypes
<1>8. SharesHold
  <2> SUFFICES ASSUME NEW p \in BucketIds
               PROVE  ShareContents(p) \subseteq {0}
    BY DEF SharesHold
  <2>1. ShareStart(p) \in Nat /\ ShareStart(p) + hashesPerBucketRead <= MAX_HASHES
    BY SharePlaces
  <2> DEFINE a == ShareStart(p)
             b == a + hashesPerBucketRead
  <2>2. \A k \in (a + 1)..b : k \in 1..MAX_HASHES
    BY <1>1, <1>2, <2>1
  <2>3. \A k \in (a + 1)..b : file[k] = 0
    BY <1>3, <2>2
  <2> QED BY <2>3 DEF ShareContents, Contents
<1>9. SharesKeep
  <2>1. stage = "generate" /\ \A p \in BucketIds : generated[p] = {}
    BY DEF Init
  <2> QED BY <2>1 DEF SharesKeep
<1>10. SortInv
  BY DEF Init, SortInv
<1> QED BY <1>4, <1>7, <1>8, <1>9, <1>10 DEF PlotInv, HashgenInv

\* Every step keeps the invariant.
LEMMA PlotStep == PlotInv /\ [Next]_vars => PlotInv'
<1> SUFFICES ASSUME PlotInv, [Next]_vars PROVE PlotInv'
  OBVIOUS
<1>1. HashgenInv /\ SortInv
  BY DEF PlotInv
<1>2. ASSUME NEW p \in BucketIds, NEW hash \in Hashes, Generate(p, hash)
      PROVE  PlotInv'
  BY <1>1, <1>2, GenerateKeeps, HashgenSorts DEF PlotInv
<1>3. CASE FlushRest
  BY <1>1, <1>3, FlushKeeps, HashgenSorts DEF PlotInv
<1>4. CASE ReadBuckets
  BY <1>1, <1>4, ReadKeeps DEF PlotInv
<1>5. ASSUME NEW t \in Threads, sortBucket(t)
      PROVE  PlotInv'
  BY <1>1, <1>5, SortBucketKeeps DEF PlotInv
<1>6. CASE WriteBuckets
  BY <1>1, <1>6, WriteKeeps DEF PlotInv
<1>7. CASE SortBucketAlone
  BY <1>1, <1>7, SortAloneKeeps DEF PlotInv
<1>8. ASSUME NEW b \in BucketIds, NEW k \in 0..(hashesPerBucketRead - 1),
             PickTarget(b, k) \/ PickZero(b, k)
      PROVE  PlotInv'
  <2>1. /\ stage \in SearchStages /\ stage' \in SearchStages
        /\ UNCHANGED <<file, i, hashgen>>
    BY <1>8 DEF PickTarget, PickZero, SearchStages, vars
  <2> QED BY <1>1, <2>1, SearchesKeep DEF PlotInv
<1>9. CASE LoadBucket \/ SearchBucket \/ TakeResult \/ ScanBucket \/ NextTarget
  <2>1. /\ stage \in SearchStages /\ stage' \in SearchStages
        /\ UNCHANGED <<file, i, hashgen>>
    <3>1. CASE LoadBucket
      BY <3>1 DEF LoadBucket, SearchStages
    <3>2. CASE SearchBucket
      BY <3>2 DEF SearchBucket, SearchStages
    <3>3. CASE TakeResult
      BY <3>3 DEF TakeResult, SearchStages
    <3>4. CASE ScanBucket
      BY <3>4 DEF ScanBucket, SearchStages
    <3>5. CASE NextTarget
      BY <3>5 DEF NextTarget, SearchStages
    <3> QED BY <1>9, <3>1, <3>2, <3>3, <3>4, <3>5
  <2> QED BY <1>1, <2>1, SearchesKeep DEF PlotInv
<1>10. CASE UNCHANGED vars
  <2>1. UNCHANGED <<stage, file, i, hashgen, buckets, sorting, array2D, bucketIndex,
                    bucketFlush, generated>>
    BY <1>10 DEF vars, hashgen, psort
  <2>2. \A p \in BucketIds : /\ Trespassed(p)' = Trespassed(p)
                             /\ Undisturbed(p)' = Undisturbed(p)
                             /\ Buffered(p)' = Buffered(p)
                             /\ Mine(p)' = Mine(p)
                             /\ ShareContents(p)' = ShareContents(p)
    BY <2>1 DEF Trespassed, Undisturbed, Buffered, Mine, ShareContents, Contents
  <2>3. FileTypes' /\ BufferTypes'
    BY <1>1, <2>1 DEF HashgenInv, FileTypes, BufferTypes
  <2>4. SharesHold'
    BY <1>1, <2>1, <2>2 DEF HashgenInv, SharesHold
  <2>5. SharesKeep'
    BY <1>1, <2>1, <2>2 DEF HashgenInv, SharesKeep
  <2>6. SortInv'
    <3>1. FirstPart' = FirstPart
      BY <2>1 DEF FirstPart
    <3>2. \A m \in AllParts : InOrder(file, m)' = InOrder(file, m)
      BY <2>1 DEF InOrder
    <3>3. \A t \in Threads :
            /\ InOrder(buckets, t)' = InOrder(buckets, t)
            /\ PartContents(buckets, t)' = PartContents(buckets, t)
      BY <2>1 DEF InOrder, PartContents, Contents
    <3>4. \A t \in Threads :
            PartContents(file, FirstPart + t)' = PartContents(file, FirstPart + t)
      BY <2>1, <3>1 DEF PartContents, Contents
    <3> QED BY <1>1, <2>1, <3>1, <3>2, <3>3, <3>4 DEF SortInv
  <2> QED BY <2>3, <2>4, <2>5, <2>6 DEF PlotInv, HashgenInv
<1> QED BY <1>2, <1>3, <1>4, <1>5, <1>6, <1>7, <1>8, <1>9, <1>10 DEF Next

\* The invariant holds throughout.
LEMMA AlwaysPlotInv == Spec => []PlotInv
BY PlotInvInit, PlotStep, PTL DEF Spec

\* The read of a share is the set of its entries.
LEMMA ReadShare ==
  ASSUME FileTypes, NEW p \in BucketIds
  PROVE  Range(ShareOf(p)) = ShareContents(p)
<1>1. ShareStart(p) \in Nat /\ hashesPerBucketRead \in Nat
      /\ ShareStart(p) + hashesPerBucketRead <= Len(file)
  <2>1. /\ ShareStart(p) \in Nat /\ hashesPerBucketRead \in Nat /\ numBuckets \in Nat
        /\ ShareStart(p) + hashesPerBucketRead <= MAX_HASHES
    BY Sizes, SharePlaces
  <2>2. MAX_HASHES \in Nat
    BY <2>1, Products DEF MAX_HASHES
  <2>3. Len(file) \in Nat /\ MAX_HASHES <= Len(file)
    BY DEF FileTypes
  <2> QED BY <2>1, <2>2, <2>3
<1> QED BY <1>1, ReadGives DEF FileTypes, ShareOf, ShareContents, ShareStart

\* A share that no earlier bucket reaches into holds only what was generated
\* with its prefix, what malloc left in the buffer and zeros, through every
\* write of hashgen.c and of both sorting programs (Plot!InItsShare).
THEOREM SharesStayApart == Spec => []InItsShare
<1>1. PlotInv => InItsShare
  <2> SUFFICES ASSUME PlotInv, NEW p \in BucketIds, ~Trespassed(p)
               PROVE  Range(ShareOf(p)) \subseteq generated[p] \cup Leftovers \cup {0}
    BY DEF InItsShare
  <2>1. Range(ShareOf(p)) = ShareContents(p)
    BY ReadShare DEF PlotInv, HashgenInv
  <2> QED BY <2>1 DEF PlotInv, HashgenInv, SharesHold
<1> QED BY <1>1, AlwaysPlotInv, PTL

\* No hash of an undisturbed bucket is lost by the writes of its buffer, by
\* the last loop of hashgen.c or by a sort (Plot!NothingLost).
THEOREM HashesStay == Spec => []NothingLost
<1>1. PlotInv => NothingLost
  <2> SUFFICES ASSUME PlotInv, NEW p \in BucketIds, Undisturbed(p)
               PROVE  generated[p] \subseteq Range(ShareOf(p)) \cup LeftOut(p)
    BY DEF NothingLost
  <2>1. FileTypes /\ BufferTypes /\ SharesKeep
    BY DEF PlotInv, HashgenInv
  <2>2. Range(ShareOf(p)) = ShareContents(p)
    BY <2>1, ReadShare
  <2>3. CASE stage \in {"generate", "flush"}
    <3>1. Mine(p) \subseteq ShareContents(p)
      BY <2>1, MineInShare DEF Undisturbed
    <3> QED BY <2>1, <2>2, <2>3, <3>1 DEF SharesKeep, LeftOut
  <2>4. CASE stage \notin {"generate", "flush"}
    BY <2>1, <2>2, <2>4 DEF SharesKeep, LeftOut
  <2> QED BY <2>3, <2>4
<1> QED BY <1>1, AlwaysPlotInv, PTL

-----------------------------------------------------------------------------
(* bsearch.c and search.c                                                  *)

BP == INSTANCE BinarySearchProofs WITH MaxSize <- numberOfHashesInBucket, Hashes <- Nat

\* The part of the file that has number l in the share searched.
PartOf(l) == prefix * Parts + l

\* Whether a part from number l on has the target.
Ahead(l) == \E k \in l..(Parts - 1) : target \in PartContents(file, PartOf(k))

\* The target is in the part that is searched or in one behind it, and the
\* search by halves looks at a sorted part.
LookInv ==
  /\ inFront \in Nat
  /\ stage \in {"load", "search"} =>
       /\ prefix \in BucketIds /\ j \in 0..(Parts - 1) /\ target \in Nat
       /\ Ahead(j)
  /\ stage = "search" =>
       /\ BP!SearchInv
       /\ Range(bucket) = PartContents(file, PartOf(j))
  /\ SearchFinds

\* The two assumptions give that of the search by halves.
LEMMA Widths == BP!SearchAssumption
<1>1. numberOfHashesInBucket \in Nat \ {0}
  BY Sizes
<1> QED BY <1>1, WidthAssumption DEF BP!SearchAssumption, BP!Half

\* A share has Parts parts, which is what bsearch counts.
LEMMA SortedBuckets == numberOfSortedBuckets = Parts
<1>1. hashesPerBucketRead \in Nat \ {0} /\ maxHashesToSort \in Nat \ {0}
  BY PlotAssumption
<1>2. CASE hashesPerBucketRead < maxHashesToSort
  <2>1. hashesPerBucketRead \div hashesPerBucketRead = 1
    BY <1>1, Z3
  <2> QED BY <1>2, <2>1 DEF numberOfSortedBuckets, Parts, numberOfHashesInBucket
<1>3. CASE ~(hashesPerBucketRead < maxHashesToSort)
  BY <1>3 DEF numberOfSortedBuckets, Parts, numberOfHashesInBucket
<1> QED BY <1>2, <1>3

\* The parts of a share are parts of the file and lie in the share.
LEMMA PartsOfShare ==
  ASSUME NEW p \in BucketIds, NEW l \in 0..(Parts - 1)
  PROVE  /\ p * Parts + l \in AllParts
         /\ PartStart(p * Parts + l) = ShareStart(p) + l * numberOfHashesInBucket
         /\ PartStart(p * Parts + l) \in Nat
         /\ ShareStart(p) <= PartStart(p * Parts + l)
         /\ PartStart(p * Parts + l) + numberOfHashesInBucket <=
              ShareStart(p) + hashesPerBucketRead
<1> DEFINE h == numberOfHashesInBucket
           m == p * Parts + l
<1>1. /\ h \in Nat \ {0} /\ Parts \in Nat \ {0} /\ numBuckets \in Nat \ {0}
      /\ Parts * h = hashesPerBucketRead /\ numberOfBucketsToSort = numBuckets * Parts
  BY Sizes, PartSizes
<1>2. p \in Nat /\ p + 1 <= numBuckets /\ l \in Nat /\ l + 1 <= Parts
  BY <1>1 DEF BucketIds
<1>3. p * Parts \in Nat /\ (p + 1) * Parts = p * Parts + Parts
      /\ (p + 1) * Parts <= numBuckets * Parts
  BY <1>1, <1>2, Products
<1>4. m \in Nat /\ m < numberOfBucketsToSort
  <2> DEFINE a == p * Parts
             b == numBuckets * Parts
  <2>1. a \in Nat /\ b \in Nat /\ a + Parts <= b
    BY <1>1, <1>3, Products
  <2> HIDE DEF a, b
  <2>2. a + l \in Nat /\ a + l < b
    BY <1>1, <1>2, <2>1
  <2> QED BY <1>1, <2>2 DEF a, b
<1>5. PartStart(m) = PartStart(p * Parts) + l * h
  BY <1>2, <1>3, PartPlaces DEF PartStart
<1>6. PartStart(p * Parts) = ShareStart(p)
  BY <1>1, <1>2, Associative DEF PartStart, ShareStart
<1>7. l * h \in Nat /\ l * h + h = (l + 1) * h /\ (l + 1) * h <= hashesPerBucketRead
  BY <1>1, <1>2, Products
<1>8. ShareStart(p) \in Nat /\ hashesPerBucketRead \in Nat
  BY SharePlaces, Sizes
<1>9. m \in AllParts
  BY <1>1, <1>4 DEF AllParts
<1>10. /\ PartStart(m) = ShareStart(p) + l * h
       /\ PartStart(m) \in Nat
       /\ ShareStart(p) <= PartStart(m)
       /\ PartStart(m) + h <= ShareStart(p) + hashesPerBucketRead
  <2> DEFINE x == l * h
             y == (l + 1) * h
  <2>1. x \in Nat /\ x + h = y /\ y <= hashesPerBucketRead /\ PartStart(m) = ShareStart(p) + x
    BY <1>5, <1>6, <1>7
  <2> HIDE DEF x, y, m, h
  <2>2. h \in Nat
    BY <1>1
  <2>3. /\ PartStart(m) \in Nat /\ ShareStart(p) <= PartStart(m)
        /\ PartStart(m) + h <= ShareStart(p) + hashesPerBucketRead
    BY <1>8, <2>1, <2>2
  <2> QED BY <2>1, <2>3 DEF x
<1> QED BY <1>9, <1>10

\* generate_search.c takes a hash of one of the parts.
LEMMA PickKeeps ==
  ASSUME PlotInv, LookInv, NEW b \in BucketIds, NEW k \in 0..(hashesPerBucketRead - 1),
         PickTarget(b, k)
  PROVE  LookInv'
<1> DEFINE at == ShareStart(b) + k + 1
<1>1. ShareStart(b) \in Nat /\ hashesPerBucketRead \in Nat \ {0}
      /\ ShareStart(b) + hashesPerBucketRead <= MAX_HASHES /\ Parts \in Nat \ {0}
  BY SharePlaces, Sizes
<1>2. at \in (ShareStart(b) + 1)..(ShareStart(b) + hashesPerBucketRead) /\ at \in Nat
  BY <1>1
<1>3. PICK l \in Nat :
        /\ l < Parts
        /\ at \in (PartStart(b * Parts + l) + 1)..
                  (PartStart(b * Parts + l) + numberOfHashesInBucket)
  <2> HIDE DEF at
  <2> QED BY <1>2, PartOfShare
<1>4. /\ prefix' = b /\ target' = file[at] /\ j' = 0 /\ found' = FALSE /\ stage' = "load"
      /\ UNCHANGED <<file, inFront>>
  BY DEF PickTarget, ShareStart
<1>5. file[at] \in Nat
  <2>1. at \in 1..Len(file)
    <3>1. file \in Seq(Nat) /\ Len(file) >= MAX_HASHES /\ Len(file) \in Nat
      BY DEF PlotInv, HashgenInv, FileTypes
    <3>2. numBuckets \in Nat /\ MAX_HASHES \in Nat
      BY <1>1, Sizes, Products DEF MAX_HASHES
    <3> QED BY <1>1, <1>2, <3>1, <3>2, SMTT(30)
  <2> QED BY <2>1 DEF PlotInv, HashgenInv, FileTypes
<1>6. file[at] \in PartContents(file, b * Parts + l)
  BY <1>3 DEF PartContents, Contents
<1>7. PartContents(file, b * Parts + l) = PartContents(file, PartOf(l))'
  BY <1>4 DEF PartContents, Contents, PartOf
<1>8. l \in 0..(Parts - 1)
  BY <1>1, <1>3
<1>9. Ahead(j)'
  BY <1>4, <1>6, <1>7, <1>8 DEF Ahead
<1>10. SearchFinds'
  BY <1>4 DEF SearchFinds
<1>11. b \in BucketIds /\ 0 \in 0..(Parts - 1)
  BY <1>1
<1> QED BY <1>4, <1>5, <1>9, <1>10, <1>11 DEF LookInv

\* The call of binarySearch: all of the part is to be searched.
LEMMA LoadKeeps ==
  ASSUME PlotInv, LookInv, LoadBucket
  PROVE  LookInv'
<1> DEFINE h == numberOfHashesInBucket
           m == PartOf(j)
           start == PartStart(m)
           read == Read(start, h)
<1>1. /\ stage = "load" /\ prefix \in BucketIds /\ j \in 0..(Parts - 1) /\ target \in Nat
      /\ Ahead(j) /\ inFront \in Nat
      /\ file \in Seq(Nat) /\ Len(file) >= MAX_HASHES
      /\ \A l \in AllParts : InOrder(file, l)
  BY DEF LoadBucket, LookInv, PlotInv, HashgenInv, FileTypes, SortInv
<1>2. /\ m \in AllParts /\ start \in Nat
      /\ start = prefix * hashesPerBucketRead + j * h
  BY <1>1, PartsOfShare DEF PartOf, ShareStart
<1>3. h \in Nat \ {0} /\ MAX_HASHES \in Nat /\ start + h <= MAX_HASHES
  <2>1. h \in Nat \ {0} /\ numBuckets \in Nat /\ hashesPerBucketRead \in Nat
    BY Sizes
  <2>2. MAX_HASHES \in Nat
    BY <2>1, Products DEF MAX_HASHES
  <2>3. m \in Nat
    BY <1>2, PartSizes DEF AllParts
  <2>4. start + h <= MAX_HASHES
    BY <1>2, <2>3, PartPlaces
  <2> QED BY <2>1, <2>2, <2>4
<1>4. /\ read \in Seq(Nat) /\ Len(read) = h
      /\ \A k \in 1..h : read[k] = file[start + k]
      /\ Range(read) = Contents(file, start, start + h)
  <2>1. start + h <= Len(file) /\ start \in Nat /\ h \in Nat /\ file \in Seq(Nat)
    BY <1>1, <1>2, <1>3
  <2> HIDE DEF start, h
  <2> QED BY <2>1, ReadGives
<1> HIDE DEF read
<1>5. /\ bucket' = read /\ target' = target /\ left' = 0 /\ right' = BP!size_t(Len(read) - 1)
      /\ result' = -2 /\ inFront' = inFront /\ stage' = "search"
      /\ UNCHANGED <<file, prefix, j, found>>
  BY <1>2 DEF LoadBucket, B!Start, B!size_t, B!Running, BP!size_t, read
<1>6. right' = h - 1
  <2>1. h < BP!Half(IntRange) /\ BP!Half(IntRange) \in Nat
        /\ BP!Half(IntRange) + BP!Half(IntRange) = IntRange
        /\ BP!Half(SizeRange) >= IntRange
        /\ BP!Half(SizeRange) + BP!Half(SizeRange) = SizeRange
        /\ BP!Half(SizeRange) \in Nat /\ SizeRange \in Nat /\ IntRange \in Nat
    BY Widths, BP!Ranges
  <2>2. h - 1 \in 0..(SizeRange - 1)
    BY <1>3, <2>1
  <2>3. BP!size_t(h - 1) = h - 1
    BY <2>2, Widths, BP!SmallSize
  <2> QED BY <1>4, <1>5, <2>3
<1>7. \A x, y \in 1..h : x < y => read[x] <= read[y]
  <2> SUFFICES ASSUME NEW x \in 1..h, NEW y \in 1..h, x < y
               PROVE  read[x] <= read[y]
    OBVIOUS
  <2>1. /\ start + x \in (start + 1)..(start + h) /\ start + y \in (start + 1)..(start + h)
        /\ start + x < start + y
    <3> HIDE DEF start, h
    <3> QED BY <1>2, <1>3
  <2>2. file[start + x] <= file[start + y]
    BY <1>1, <1>2, <2>1 DEF InOrder
  <2> QED BY <1>4, <2>2
<1>8. BP!ArrayInv'
  <2>1. bucket' \in Seq(Nat) /\ Len(bucket') \in 1..h
    BY <1>3, <1>4, <1>5
  <2>2. \A x, y \in 1..Len(bucket') : x < y => bucket'[x] <= bucket'[y]
    BY <1>4, <1>5, <1>7
  <2> QED BY <1>1, <1>5, <2>1, <2>2 DEF BP!ArrayInv
<1>9. BP!Narrowing'
  <2>1. left' = 0 /\ right' = h - 1 /\ Len(bucket') = h /\ h \in Nat \ {0}
    BY <1>3, <1>4, <1>5, <1>6
  <2> HIDE DEF h
  <2>2. left' \in 0..Len(bucket') /\ right' \in 0..(Len(bucket') - 1)
    BY <2>1
  <2>3. \A k \in 1..Len(bucket') : ~(k - 1 < left') /\ ~(k - 1 > right')
    BY <2>1
  <2> QED BY <2>2, <2>3 DEF BP!Narrowing
<1>10. BP!SearchInv'
  <2>1. result' \in -2..(Len(bucket') - 1)
    BY <1>3, <1>4, <1>5
  <2>2. BP!AnswerIsRight'
    BY <1>5 DEF BP!AnswerIsRight, BP!Running
  <2> QED BY <1>8, <1>9, <2>1, <2>2 DEF BP!SearchInv
<1>11. PartContents(file, PartOf(j))' = PartContents(file, PartOf(j))
  BY <1>5 DEF PartContents, Contents, PartOf
<1>12. Range(bucket') = PartContents(file, PartOf(j))'
  BY <1>4, <1>5, <1>11 DEF PartContents
<1>13. Ahead(j)'
  BY <1>1, <1>5 DEF Ahead, PartOf, PartContents, Contents
<1>14. SearchFinds'
  BY <1>5 DEF SearchFinds
<1>15. Range(bucket)' = PartContents(file, PartOf(j))'
  BY <1>12 DEF Range
<1> QED BY <1>1, <1>5, <1>10, <1>13, <1>14, <1>15 DEF LookInv

\* A step of the search by halves.
LEMMA HalvesKeep ==
  ASSUME LookInv, SearchBucket
  PROVE  LookInv'
<1>1. BP!Step
  BY DEF SearchBucket, B!Step, B!Match, B!GoLeft, B!GoRight, B!GiveUp, B!Looping,
         B!Probed, B!mid, B!int, B!size_t, B!Half, B!Running,
         BP!Step, BP!Match, BP!GoLeft, BP!GoRight, BP!GiveUp, BP!Looping,
         BP!Probed, BP!mid, BP!int, BP!size_t, BP!Half, BP!Running
<1>2. /\ stage = "search" /\ UNCHANGED <<stage, file, prefix, j, found>>
      /\ UNCHANGED <<bucket, inFront, target>>
  BY DEF SearchBucket, B!Step, B!Match, B!GoLeft, B!GoRight, B!GiveUp
<1>3. BP!SearchInv'
  BY <1>1, <1>2, Widths, BP!NextSearch DEF BP!Next, LookInv
<1>4. Ahead(j)' /\ PartContents(file, PartOf(j))' = PartContents(file, PartOf(j))
  BY <1>2 DEF LookInv, Ahead, PartOf, PartContents, Contents
<1>5. Range(bucket)' = Range(bucket)
  BY <1>2 DEF Range
<1>6. SearchFinds'
  BY <1>2 DEF SearchFinds
<1> QED BY <1>2, <1>3, <1>4, <1>5, <1>6 DEF LookInv

\* When a part does not have the target, a part behind it does.
LEMMA TakeKeeps ==
  ASSUME LookInv, TakeResult
  PROVE  LookInv'
<1>1. /\ stage = "search" /\ prefix \in BucketIds /\ j \in 0..(Parts - 1) /\ target \in Nat
      /\ Ahead(j) /\ inFront \in Nat /\ BP!SearchInv
      /\ Range(bucket) = PartContents(file, PartOf(j))
  BY DEF LookInv, TakeResult
<1>2. /\ result # -2 /\ found' = (result # -1)
      /\ UNCHANGED <<file, prefix, inFront, target>>
      /\ result # -1 => stage' = "answered" /\ j' = j
      /\ result = -1 => IF j + 1 = Parts THEN stage' = "answered" /\ j' = j
                        ELSE stage' = "load" /\ j' = j + 1
  BY SortedBuckets DEF TakeResult, B!Running
<1>3. CASE result # -1
  <2>1. SearchFinds'
    BY <1>2, <1>3 DEF SearchFinds
  <2> QED BY <1>1, <1>2, <1>3, <2>1 DEF LookInv
<1>4. CASE result = -1
  <2>1. target \notin PartContents(file, PartOf(j))
    <3>1. BP!AnswerIsRight
      BY <1>1 DEF BP!SearchInv
    <3>2. ~BP!Present
      BY <1>4, <3>1 DEF BP!AnswerIsRight, BP!Running
    <3> QED BY <1>1, <3>2 DEF BP!Present, BP!Range, Range
  <2>2. PICK k \in j..(Parts - 1) : target \in PartContents(file, PartOf(k))
    BY <1>1 DEF Ahead
  <2>3. k # j /\ Parts \in Nat
    BY <2>1, <2>2, Sizes
  <2>4. j + 1 \in 0..(Parts - 1) /\ k \in (j + 1)..(Parts - 1) /\ j + 1 # Parts
    BY <1>1, <2>2, <2>3
  <2>5. stage' = "load" /\ j' = j + 1
    BY <1>2, <1>4, <2>4
  <2>6. PartContents(file, PartOf(k))' = PartContents(file, PartOf(k))
    BY <1>2 DEF PartContents, Contents, PartOf
  <2>7. Ahead(j)'
    BY <1>2, <2>2, <2>4, <2>5, <2>6 DEF Ahead
  <2>8. SearchFinds'
    BY <2>5 DEF SearchFinds
  <2> QED BY <1>1, <1>2, <2>4, <2>5, <2>7, <2>8 DEF LookInv
<1> QED BY <1>3, <1>4

\* search.c meets the target in the share.
LEMMA ScanKeeps ==
  ASSUME PlotInv, LookInv, ScanBucket
  PROVE  LookInv'
<1>1. /\ stage = "load" /\ j = 0 /\ prefix \in BucketIds /\ Ahead(0) /\ inFront \in Nat
      /\ file \in Seq(Nat) /\ Len(file) >= MAX_HASHES /\ FileTypes
  BY DEF LookInv, ScanBucket, PlotInv, HashgenInv, FileTypes
<1> DEFINE start == ShareStart(prefix)
           read == Read(start, hashesPerBucketRead)
           places == {k \in 1..hashesPerBucketRead : read[k] = target}
<1>2. /\ j' = IF places = {} THEN hashesPerBucketRead ELSE Min(places) - 1
      /\ stage' = "scanned" /\ UNCHANGED <<file, inFront>>
  BY DEF ScanBucket, ShareStart
<1>3. start \in Nat /\ hashesPerBucketRead \in Nat \ {0} /\ start + hashesPerBucketRead <= Len(file)
  <2>1. /\ start \in Nat /\ hashesPerBucketRead \in Nat \ {0} /\ numBuckets \in Nat
        /\ start + hashesPerBucketRead <= MAX_HASHES
    BY <1>1, Sizes, SharePlaces
  <2>2. MAX_HASHES \in Nat /\ Len(file) \in Nat
    BY <1>1, <2>1, Products DEF MAX_HASHES
  <2> HIDE DEF start
  <2> QED BY <1>1, <2>1, <2>2
<1>4. /\ Len(read) = hashesPerBucketRead
      /\ \A k \in 1..hashesPerBucketRead : read[k] = file[start + k]
  BY <1>1, <1>3, ReadGives
<1>5. PICK l \in 0..(Parts - 1) : target \in PartContents(file, prefix * Parts + l)
  BY <1>1 DEF Ahead, PartOf
<1> DEFINE c == PartStart(prefix * Parts + l)
<1>6. PICK k \in (c + 1)..(c + numberOfHashesInBucket) : target = file[k]
  BY <1>5 DEF PartContents, Contents
<1>7. /\ c \in Nat /\ start <= c /\ numberOfHashesInBucket \in Nat
      /\ c + numberOfHashesInBucket <= start + hashesPerBucketRead
  BY <1>1, <1>5, PartsOfShare, Sizes
<1>8. k - start \in 1..hashesPerBucketRead /\ start + (k - start) = k
  <2> HIDE DEF c, start
  <2> QED BY <1>3, <1>6, <1>7
<1>9. k - start \in places
  BY <1>4, <1>6, <1>8
<1>10. PICK x \in places : \A y \in places : x <= y
  <2>1. places \in SUBSET Nat
    BY <1>3
  <2> HIDE DEF places
  <2> QED BY <1>9, <2>1, Smallest
<1>11. Min(places) \in places
  <2> HIDE DEF places
  <2> QED BY <1>10 DEF Min
<1>12. j' < hashesPerBucketRead
  <2>1. j' = Min(places) - 1
    BY <1>2, <1>9
  <2>2. Min(places) \in 1..hashesPerBucketRead
    BY <1>11
  <2> HIDE DEF places
  <2> QED BY <1>3, <2>1, <2>2
<1> QED BY <1>1, <1>2, <1>12 DEF LookInv, SearchFinds

\* The steps that look for nothing.
LEMMA OthersLook ==
  ASSUME LookInv,
         \/ UNCHANGED vars
         \/ /\ stage' \notin {"load", "search", "answered", "scanned"}
            /\ inFront' = inFront
  PROVE  LookInv'
<1>1. CASE UNCHANGED vars
  <2>1. UNCHANGED <<stage, file, prefix, j, found, bucket, inFront, target, left, right,
                    result>>
    BY <1>1 DEF vars, search
  <2>2. Ahead(j)' = Ahead(j) /\ PartContents(file, PartOf(j))' = PartContents(file, PartOf(j))
    BY <2>1 DEF Ahead, PartOf, PartContents, Contents
  <2>3. Range(bucket)' = Range(bucket)
    BY <2>1 DEF Range
  <2>4. BP!SearchInv' = BP!SearchInv
    BY <2>1 DEF BP!SearchInv, BP!ArrayInv, BP!Narrowing, BP!Wrapped, BP!AnswerIsRight,
                BP!Present, BP!Range
  <2>5. SearchFinds' = SearchFinds
    BY <2>1 DEF SearchFinds
  <2> QED BY <2>1, <2>2, <2>3, <2>4, <2>5 DEF LookInv
<1>2. CASE /\ stage' \notin {"load", "search", "answered", "scanned"}
           /\ inFront' = inFront
  BY <1>2 DEF LookInv, SearchFinds
<1> QED BY <1>1, <1>2

\* Before a search there is nothing to say but of the memory.
LEMMA LookInvInit == Init => LookInv
<1>1. Hashes \subseteq Nat
  BY PlotAssumption
<1> QED BY <1>1 DEF Init, LookInv, SearchFinds

\* Every step keeps what is known of the searches.
LEMMA LookStep == PlotInv /\ LookInv /\ [Next]_vars => LookInv'
<1> SUFFICES ASSUME PlotInv, LookInv, [Next]_vars PROVE LookInv'
  OBVIOUS
<1>1. ASSUME NEW p \in BucketIds, NEW hash \in Hashes, Generate(p, hash)
      PROVE  LookInv'
  <2>1. stage' \in {"generate", "flush"} /\ inFront' = inFront
    BY <1>1 DEF Generate, search
  <2> QED BY <2>1, OthersLook
<1>2. CASE FlushRest
  <2>1. stage' \in {"flush", "read", "sortAlone"} /\ inFront' = inFront
    BY <1>2 DEF FlushRest, search
  <2> QED BY <2>1, OthersLook
<1>3. CASE ReadBuckets
  BY <1>3, OthersLook DEF ReadBuckets, search
<1>4. ASSUME NEW t \in Threads, sortBucket(t)
      PROVE  LookInv'
  <2>1. stage' = "sort" /\ inFront' = inFront
    BY <1>4 DEF sortBucket, search
  <2> QED BY <2>1, OthersLook
<1>5. CASE WriteBuckets
  <2>1. stage' \in {"pick", "read"} /\ inFront' = inFront
    BY <1>5 DEF WriteBuckets, search
  <2> QED BY <2>1, OthersLook
<1>6. CASE SortBucketAlone
  <2>1. stage' \in {"pick", "sortAlone"} /\ inFront' = inFront
    BY <1>6 DEF SortBucketAlone, search
  <2> QED BY <2>1, OthersLook
<1>7. ASSUME NEW b \in BucketIds, NEW k \in 0..(hashesPerBucketRead - 1),
             PickTarget(b, k) \/ PickZero(b, k)
      PROVE  LookInv'
  <2>1. PickZero(b, k) => UNCHANGED vars
    BY DEF PickZero
  <2> QED BY <1>7, <2>1, PickKeeps, OthersLook
<1>8. CASE LoadBucket \/ SearchBucket \/ TakeResult \/ ScanBucket
  BY <1>8, LoadKeeps, HalvesKeep, TakeKeeps, ScanKeeps
<1>9. CASE NextTarget
  <2>1. stage' = "pick" /\ inFront' = inFront
    BY <1>9 DEF NextTarget
  <2> QED BY <2>1, OthersLook
<1>10. CASE UNCHANGED vars
  BY <1>10, OthersLook
<1> QED BY <1>1, <1>2, <1>3, <1>4, <1>5, <1>6, <1>7, <1>8, <1>9, <1>10 DEF Next

\* Both programs find every hash that generate_search.c took from the file:
\* search.c because it reads the whole share, bsearch.c because each part is
\* sorted and it goes on to the next part until one has the hash
\* (Plot!SearchFinds).
THEOREM SearchesFind == Spec => []SearchFinds
<1>1. PlotInv /\ LookInv /\ [Next]_vars => (PlotInv /\ LookInv)'
  BY PlotStep, LookStep
<1>2. Init => PlotInv /\ LookInv
  BY PlotInvInit, LookInvInit
<1>3. LookInv => SearchFinds
  BY DEF LookInv
<1> QED BY <1>1, <1>2, <1>3, PTL DEF Spec
=============================================================================
