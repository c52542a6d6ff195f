---------------------------- MODULE Blake3Proofs ----------------------------
(***************************************************************************)
(* Theorems about Blake3.                                                  *)
(*                                                                         *)
(* RoutinesFitMachine: the features that are looked at are those detected  *)
(* on the machine, or none on a machine that is no x86.  Either they come  *)
(* from the cache, which is only ever filled with them, or they are        *)
(* detected anew.  What is left is a look at each combination of features. *)
(*                                                                         *)
(* HashIsTreeHash, StackKeepsShape and WideSubtreeFits rest on HasherInv:  *)
(* between two calls the hasher is a function of the bytes so far (Good).  *)
(* The chunk state is that of the last chunk (CS) and the stack has one    *)
(* chaining value for each 1-bit of the number of chunks before it         *)
(* (Stack), except that after a subtree of several chunks the last of      *)
(* these may still be its two halves (Loose).                              *)
(*                                                                         *)
(*   - Recursive functions are proved to exist by the module Recursion;    *)
(*     then arithmetic: powers of two, multiples, 1-bits.                  *)
(*   - Trees over lists, and how pairing the values of a list keeps the    *)
(*     tree (PairTree).                                                    *)
(*   - Chunks: the state of a chunk depends on its bytes only, not on the  *)
(*     pieces in which they came (ChunkUpdate), and its output is the node *)
(*     of the tree.                                                        *)
(*   - Wide subtrees: on every degree their values fit in their array and  *)
(*     the tree over them is that of the chunks (WideTree, ParentNode).    *)
(*   - The stack: merging and pushing (MergeH, PushH), how long the next   *)
(*     subtree is, and hasher_update as a whole (UpdateGood).              *)
(*   - Output and hasher_finalize_seek (OutputIs, FinalizeGood).           *)
(*   - The calls of a program (HasherStep) and the theorems.               *)
(***************************************************************************)
EXTENDS Blake3, TLAPS

\* The machine is one of Machines, and the cache is empty or has the features
\* of this machine, which is then an x86.
CacheInv ==
  /\ machine \in Machines
  /\ \/ g_cpu_features = UNDEFINED
     \/ machine.arch = "x86" /\ g_cpu_features = DetectFeatures(machine)

\* What get_cpu_features returns while CacheInv holds.
LEMMA FeaturesAre ==
  ASSUME CacheInv
  PROVE  get_cpu_features =
           IF machine.arch = "x86" THEN DetectFeatures(machine) ELSE {}
BY DEF CacheInv, get_cpu_features

\* A store to the cache keeps CacheInv.
LEMMA CacheKept ==
  ASSUME CacheInv, CacheFeatures, machine' = machine
  PROVE  CacheInv'
<1>1. get_cpu_features =
        IF machine.arch = "x86" THEN DetectFeatures(machine) ELSE {}
  BY FeaturesAre
<1>2. machine' \in Machines
  BY DEF CacheInv
<1>3. CASE machine.arch = "x86"
  <2>1. g_cpu_features' = DetectFeatures(machine)
    BY <1>1, <1>3 DEF CacheFeatures
  <2>2. DetectFeatures(machine)' = DetectFeatures(machine)
    BY DEF DetectFeatures
  <2> QED BY <1>2, <1>3, <2>1, <2>2 DEF CacheInv
<1>4. CASE machine.arch # "x86"
  <2>1. g_cpu_features' = g_cpu_features
    BY <1>4 DEF CacheFeatures
  <2>2. g_cpu_features = UNDEFINED
    BY <1>4 DEF CacheInv
  <2> QED BY <1>2, <2>1, <2>2 DEF CacheInv, UNDEFINED
<1> QED BY <1>3, <1>4

\* A call that looks at no feature keeps CacheInv.
LEMMA CacheUntouched ==
  ASSUME CacheInv, UNCHANGED <<machine, g_cpu_features>>
  PROVE  CacheInv'
<1>1. machine' = machine /\ g_cpu_features' = g_cpu_features
  OBVIOUS
<1>2. DetectFeatures(machine)' = DetectFeatures(machine)
  BY <1>1 DEF DetectFeatures
<1> QED BY <1>1, <1>2 DEF CacheInv, UNDEFINED

\* Every call of the hasher keeps CacheInv.
LEMMA CacheStep == CacheInv /\ [Next]_vars => CacheInv'
<1> SUFFICES ASSUME CacheInv, [Next]_vars PROVE CacheInv'
  OBVIOUS
<1>1. CASE hasher_init
  BY <1>1, CacheUntouched DEF hasher_init
<1>2. CASE hasher_init_keyed
  BY <1>2, CacheUntouched DEF hasher_init_keyed
<1>3. ASSUME NEW len \in ContextLens, hasher_init_derive_key(len)
      PROVE  CacheInv'
  BY <1>3, CacheKept DEF hasher_init_derive_key
<1>4. ASSUME NEW len \in Lens, hasher_update(len)
      PROVE  CacheInv'
  <2>1. machine' = machine
    BY <1>4 DEF hasher_update
  <2>2. CacheFeatures \/ g_cpu_features' = g_cpu_features
    BY <1>4 DEF hasher_update
  <2> QED BY <2>1, <2>2, CacheKept, CacheUntouched
<1>5. CASE hasher_finalize
  BY <1>5, CacheKept DEF hasher_finalize
<1>6. CASE hasher_reset
  BY <1>6, CacheUntouched DEF hasher_reset
<1>7. CASE UNCHANGED vars
  BY <1>7, CacheUntouched DEF vars
<1> QED BY <1>1, <1>2, <1>3, <1>4, <1>5, <1>6, <1>7 DEF Next

\* CacheInv holds in every behaviour of the hasher.
LEMMA AlwaysCache == Spec => []CacheInv
<1>1. Init => CacheInv
  BY DEF Init, CacheInv
<1> QED BY <1>1, CacheStep, PTL DEF Spec

-----------------------------------------------------------------------------
\* A detected feature is one of the processor, and the registers it needs
\* are saved by the operating system.
LEMMA DetectedIsProvided ==
  ASSUME NEW m \in Machines, NEW provided,
         provided = m.leaf1 \cup m.leaf7 \cup m.xcr0
  PROVE  LET detected == DetectFeatures(m)
         IN /\ \A f \in {"SSE2", "SSE41"} : f \in detected => f \in provided
            /\ "AVX2" \in detected => {"AVX2", "ymm"} \subseteq provided
            /\ "AVX512VL" \in detected =>
                 {"AVX512F", "AVX512VL", "zmm"} \subseteq provided
            /\ "AVX512VL" \in detected => "AVX512F" \in detected
BY MachineAssumption DEF DetectFeatures

\* The registers and instructions of the routines that a set of features
\* selects are provided when those of its members are.
LEMMA RoutinesProvided ==
  ASSUME NEW features, NEW provided, NEW arch,
         \A f \in {"SSE2", "SSE41"} : f \in features => f \in provided,
         "AVX2" \in features => {"AVX2", "ymm"} \subseteq provided,
         "AVX512VL" \in features =>
           {"AVX512F", "AVX512VL", "zmm"} \subseteq provided
  PROVE  /\ Needs(CompressRoutine(features)) \subseteq provided
         /\ Needs(HashManyRoutine(arch, features)) \subseteq provided
<1>1. Needs(CompressRoutine(features)) \subseteq provided
  BY DEF Needs, CompressRoutine
<1>2. Needs(HashManyRoutine(arch, features)) \subseteq provided
  BY DEF Needs, HashManyRoutine
<1> QED BY <1>1, <1>2

\* blake3_simd_degree and blake3_hash_many look at the features in the same
\* order: a machine that is no NEON, or has no features, gets the degree of
\* the routine that is called.
LEMMA DegreeIsLanes ==
  ASSUME NEW features, NEW arch
  PROVE  SimdDegree(arch, features) = Lanes(HashManyRoutine(arch, features))
<1>1. CASE {"AVX512F", "AVX512VL"} \subseteq features
  BY <1>1 DEF SimdDegree, Lanes, HashManyRoutine
<1>2. CASE ~({"AVX512F", "AVX512VL"} \subseteq features) /\ "AVX2" \in features
  BY <1>2 DEF SimdDegree, Lanes, HashManyRoutine
<1>3. CASE /\ ~({"AVX512F", "AVX512VL"} \subseteq features)
           /\ "AVX2" \notin features
  BY <1>3 DEF SimdDegree, Lanes, HashManyRoutine
<1> QED BY <1>1, <1>2, <1>3

\* No routine is chosen whose instructions or registers the machine does not
\* provide, the degree is that of the routine that is called, and what is
\* cached is what was detected (blake3_dispatch.c), on every machine.
THEOREM RoutinesFitMachine == Spec => []RoutinesRun
<1>1. ASSUME CacheInv PROVE RoutinesRun
  <2> DEFINE features == get_cpu_features
             provided == machine.leaf1 \cup machine.leaf7 \cup machine.xcr0
  <2>1. features =
          IF machine.arch = "x86" THEN DetectFeatures(machine) ELSE {}
    BY <1>1, FeaturesAre
  <2>2. machine \in Machines
    BY <1>1 DEF CacheInv
  <2>3. /\ \A f \in {"SSE2", "SSE41"} : f \in features => f \in provided
        /\ "AVX2" \in features => {"AVX2", "ymm"} \subseteq provided
        /\ "AVX512VL" \in features =>
             {"AVX512F", "AVX512VL", "zmm"} \subseteq provided
    <3>1. CASE machine.arch = "x86"
      BY <2>1, <2>2, <3>1, DetectedIsProvided
    <3>2. CASE machine.arch # "x86"
      BY <2>1, <3>2
    <3> QED BY <3>1, <3>2
  <2>4. /\ Needs(CompressRoutine(features)) \subseteq provided
        /\ Needs(HashManyRoutine(machine.arch, features)) \subseteq provided
    <3> HIDE DEF features, provided
    <3> QED BY <2>3, RoutinesProvided
  <2>5. simd_degree = Lanes(HashManyRoutine(machine.arch, features))
    BY DegreeIsLanes DEF simd_degree
  <2>6. g_cpu_features # UNDEFINED =>
          machine.arch = "x86" /\ features = DetectFeatures(machine)
    BY <1>1, <2>1 DEF CacheInv
  <2> QED BY <2>4, <2>5, <2>6 DEF RoutinesRun
<1> QED BY <1>1, AlwaysCache, PTL

-----------------------------------------------------------------------------
(* The recursive functions exist: each is defined by its values at smaller *)
(* arguments.                                                              *)

Numbers(p) == Nat
Itself(p, x) == x

\* What follows for n from all smaller numbers holds of all numbers.
Up == INSTANCE Recursion WITH Dom <- Numbers, Size <- Itself, Def <- LAMBDA p, g, x : g

RoundDef(p, g, x) == IF x <= 1 THEN 1 ELSE 2 * g[x \div 2]
Round == INSTANCE Recursion WITH Dom <- Numbers, Size <- Itself, Def <- RoundDef

\* The function that rounds down to a power of two obeys its definition.
LEMMA RoundIs ==
  \A x \in Nat : round_down_to_power_of_2[x]
                   = IF x <= 1 THEN 1 ELSE 2 * round_down_to_power_of_2[x \div 2]
<1>1. Round!WellFormed(0)
  BY DEF Round!WellFormed, Numbers, Itself, RoundDef
<1>2. \E g : g = [x \in Nat |-> IF x <= 1 THEN 1 ELSE 2 * g[x \div 2]]
  BY <1>1, Round!RecursiveFunction DEF Numbers, RoundDef
<1>3. round_down_to_power_of_2
        = [x \in Nat |-> IF x <= 1 THEN 1 ELSE 2 * round_down_to_power_of_2[x \div 2]]
  BY <1>2 DEF round_down_to_power_of_2
<1> QED BY <1>3

LeftDef(p, g, n) == IF n <= 2 THEN 1 ELSE 2 * g[(n + 1) \div 2]
Left == INSTANCE Recursion WITH Dom <- Numbers, Size <- Itself, Def <- LeftDef

\* LeftNodes obeys its definition.
LEMMA LeftIs ==
  \A n \in Nat : LeftNodes[n] = IF n <= 2 THEN 1 ELSE 2 * LeftNodes[(n + 1) \div 2]
<1>1. Left!WellFormed(0)
  BY DEF Left!WellFormed, Numbers, Itself, LeftDef
<1>2. \E g : g = [n \in Nat |-> IF n <= 2 THEN 1 ELSE 2 * g[(n + 1) \div 2]]
  BY <1>1, Left!RecursiveFunction DEF Numbers, LeftDef
<1>3. LeftNodes = [n \in Nat |-> IF n <= 2 THEN 1 ELSE 2 * LeftNodes[(n + 1) \div 2]]
  BY <1>2 DEF LeftNodes
<1> QED BY <1>3

PopDef(p, g, x) == IF x = 0 THEN 0 ELSE (x % 2) + g[x \div 2]
Pop == INSTANCE Recursion WITH Dom <- Numbers, Size <- Itself, Def <- PopDef

\* popcnt obeys its definition.
LEMMA PopIs ==
  \A x \in Nat : popcnt[x] = IF x = 0 THEN 0 ELSE (x % 2) + popcnt[x \div 2]
<1>1. Pop!WellFormed(0)
  BY DEF Pop!WellFormed, Numbers, Itself, PopDef
<1>2. \E g : g = [x \in Nat |-> IF x = 0 THEN 0 ELSE (x % 2) + g[x \div 2]]
  BY <1>1, Pop!RecursiveFunction DEF Numbers, PopDef
<1>3. popcnt = [x \in Nat |-> IF x = 0 THEN 0 ELSE (x % 2) + popcnt[x \div 2]]
  BY <1>2 DEF popcnt
<1> QED BY <1>3

TwoDef(p, g, e) == IF e = 0 THEN 1 ELSE 2 * g[e - 1]
Two == INSTANCE Recursion WITH Dom <- Numbers, Size <- Itself, Def <- TwoDef

\* TwoTo obeys its definition.
LEMMA TwoIs ==
  \A e \in Nat : TwoTo[e] = IF e = 0 THEN 1 ELSE 2 * TwoTo[e - 1]
<1>1. Two!WellFormed(0)
  BY DEF Two!WellFormed, Numbers, Itself, TwoDef
<1>2. \E g : g = [e \in Nat |-> IF e = 0 THEN 1 ELSE 2 * g[e - 1]]
  BY <1>1, Two!RecursiveFunction DEF Numbers, TwoDef
<1>3. TwoTo = [e \in Nat |-> IF e = 0 THEN 1 ELSE 2 * TwoTo[e - 1]]
  BY <1>2 DEF TwoTo
<1> QED BY <1>3

\* What follows for n from all smaller numbers holds of all numbers.
LEMMA Induct ==
  ASSUME NEW S \in SUBSET Nat,
         \A n \in Nat : (\A m \in Nat : m < n => m \in S) => n \in S
  PROVE  S = Nat
BY Up!Below

-----------------------------------------------------------------------------
(* Powers of two.                                                          *)

Power(p) == p \in Nat /\ p > 0 /\ IsPowerOfTwo(p)

\* What a number is rounded down to is positive.
LEMMA RoundType ==
  \A x \in Nat : round_down_to_power_of_2[x] \in Nat \ {0}
<1> DEFINE S == {x \in Nat : round_down_to_power_of_2[x] \in Nat \ {0}}
<1>1. ASSUME NEW n \in Nat, \A m \in Nat : m < n => m \in S
      PROVE  n \in S
  <2>1. CASE n <= 1
    BY <2>1, RoundIs
  <2>2. CASE n > 1
    <3>1. n \div 2 \in Nat /\ n \div 2 < n
      BY <2>2
    <3>2. n \div 2 \in S
      BY <1>1, <3>1
    <3> QED BY <2>2, <3>2, RoundIs
  <2> QED BY <2>1, <2>2
<1> HIDE DEF S
<1>2. S = Nat
  BY <1>1, Induct DEF S
<1> QED BY <1>2 DEF S

\* Rounded down is at most the number, and more than its half.
LEMMA RoundBounds ==
  \A x \in Nat : x > 0 => /\ round_down_to_power_of_2[x] <= x
                          /\ x < 2 * round_down_to_power_of_2[x]
<1> DEFINE S == {x \in Nat : x > 0 => /\ round_down_to_power_of_2[x] <= x
                                      /\ x < 2 * round_down_to_power_of_2[x]}
<1>1. ASSUME NEW n \in Nat, \A m \in Nat : m < n => m \in S
      PROVE  n \in S
  <2>1. CASE n <= 1
    BY <2>1, RoundIs
  <2>2. CASE n > 1
    <3>1. n \div 2 \in Nat /\ n \div 2 < n /\ n \div 2 > 0 /\ n < 2 * (n \div 2) + 2
          /\ 2 * (n \div 2) <= n
      BY <2>2
    <3>2. n \div 2 \in S /\ round_down_to_power_of_2[n \div 2] \in Nat
      BY <1>1, <3>1, RoundType
    <3>3. round_down_to_power_of_2[n] = 2 * round_down_to_power_of_2[n \div 2]
      BY <2>2, RoundIs
    <3> QED BY <2>2, <3>1, <3>2, <3>3
  <2> QED BY <2>1, <2>2
<1> HIDE DEF S
<1>2. S = Nat
  BY <1>1, Induct DEF S
<1> QED BY <1>2 DEF S

\* One, and the double of a power.
LEMMA Doubled ==
  /\ Power(1)
  /\ \A p \in Nat : Power(p) <=> Power(2 * p)
<1>1. Power(1)
  BY RoundIs DEF Power, IsPowerOfTwo
<1>2. ASSUME NEW p \in Nat, p > 0 PROVE Power(p) <=> Power(2 * p)
  <2>1. (2 * p) \div 2 = p /\ 2 * p > 1 /\ 2 * p \in Nat
    BY <1>2
  <2>2. round_down_to_power_of_2[2 * p] = 2 * round_down_to_power_of_2[p]
    BY <2>1, RoundIs
  <2>3. round_down_to_power_of_2[p] \in Nat
    BY RoundType
  <2> QED BY <1>2, <2>1, <2>2, <2>3 DEF Power, IsPowerOfTwo
<1> QED BY <1>1, <1>2 DEF Power

\* A power that is not 1 is twice a power.
LEMMA Halved ==
  ASSUME NEW p, Power(p), p > 1
  PROVE  \E q \in Nat : p = 2 * q /\ Power(q)
<1>1. p \in Nat /\ p = 2 * round_down_to_power_of_2[p \div 2]
  BY RoundIs DEF Power, IsPowerOfTwo
<1>2. round_down_to_power_of_2[p \div 2] \in Nat
  BY <1>1, RoundType
<1> QED BY <1>1, <1>2, Doubled

\* What is rounded down is a power.
LEMMA RoundPower ==
  \A x \in Nat : Power(round_down_to_power_of_2[x])
<1> DEFINE S == {x \in Nat : Power(round_down_to_power_of_2[x])}
<1>1. ASSUME NEW n \in Nat, \A m \in Nat : m < n => m \in S
      PROVE  n \in S
  <2>1. CASE n <= 1
    BY <2>1, RoundIs, Doubled
  <2>2. CASE n > 1
    <3>1. n \div 2 \in Nat /\ n \div 2 < n
      BY <2>2
    <3>2. n \div 2 \in S
      BY <1>1, <3>1
    <3>3. round_down_to_power_of_2[n \div 2] \in Nat
      BY <3>1, RoundType
    <3> QED BY <2>2, <3>2, <3>3, RoundIs, Doubled
  <2> QED BY <2>1, <2>2
<1> HIDE DEF S
<1>2. S = Nat
  BY <1>1, Induct DEF S
<1> QED BY <1>2 DEF S

Divides(d, n) == \E c \in Nat : n = c * d

\* Of two powers the larger is a multiple of the smaller one.
LEMMA PowersDivide ==
  ASSUME NEW p, NEW q, Power(p), Power(q), p <= q
  PROVE  Divides(p, q)
<1> DEFINE S == {x \in Nat : \A y \in Nat : Power(x) /\ Power(y) /\ x <= y => Divides(x, y)}
<1>1. ASSUME NEW n \in Nat, \A m \in Nat : m < n => m \in S
      PROVE  n \in S
  <2> SUFFICES ASSUME NEW y \in Nat, Power(n), Power(y), n <= y PROVE Divides(n, y)
    OBVIOUS
  <2>1. CASE n = 1
    BY <2>1 DEF Divides
  <2>2. CASE n > 1
    <3>1. PICK a \in Nat : n = 2 * a /\ Power(a)
      BY <2>2, Halved
    <3>2. PICK b \in Nat : y = 2 * b /\ Power(b)
      BY <2>2, Halved
    <3>3. a < n /\ a <= b
      BY <2>2, <3>1, <3>2
    <3>4. PICK c \in Nat : b = c * a
      BY <1>1, <3>1, <3>2, <3>3 DEF Divides
    <3>5. y = c * n
      BY <3>1, <3>2, <3>4
    <3> QED BY <3>5 DEF Divides
  <2> QED BY <2>1, <2>2 DEF Power
<1> HIDE DEF S
<1>2. S = Nat
  BY <1>1, Induct DEF S
<1> QED BY <1>2 DEF S, Power

\* Of two powers the larger one is at least twice the smaller.
LEMMA PowersApart ==
  ASSUME NEW p, NEW q, Power(p), Power(q), p < q
  PROVE  2 * p <= q
<1>0. Divides(p, q)
  BY PowersDivide DEF Power
<1>1. PICK c \in Nat : q = c * p
  BY <1>0 DEF Divides
<1>2. p \in Nat /\ p > 0
  BY DEF Power
<1>3. c # 0 /\ c # 1
  BY <1>1, <1>2
<1>4. c >= 2
  BY <1>3
<1> QED BY <1>1, <1>2, <1>4

\* The power between a number and its half.
LEMMA RoundUnique ==
  ASSUME NEW p, Power(p), NEW x \in Nat, p <= x, x < 2 * p
  PROVE  round_down_to_power_of_2[x] = p
<1> DEFINE q == round_down_to_power_of_2[x]
<1>1. Power(q) /\ q \in Nat /\ p \in Nat /\ p > 0 /\ q <= x /\ x < 2 * q
  BY RoundPower, RoundType, RoundBounds DEF Power
<1> HIDE DEF q
<1>2. ~(p < q) /\ ~(q < p)
  BY <1>1, PowersApart
<1> QED BY <1>1, <1>2 DEF q

\* The left of n nodes: the largest power of two below n.
LEMMA LeftBounds ==
  \A n \in Nat : n > 1 => /\ Power(LeftNodes[n])
                          /\ LeftNodes[n] < n /\ n <= 2 * LeftNodes[n]
<1> DEFINE S == {n \in Nat : n > 1 => /\ Power(LeftNodes[n])
                                      /\ LeftNodes[n] < n /\ n <= 2 * LeftNodes[n]}
<1>1. ASSUME NEW n \in Nat, \A m \in Nat : m < n => m \in S
      PROVE  n \in S
  <2>1. CASE n <= 2
    BY <2>1, LeftIs, Doubled
  <2>2. CASE n > 2
    <3> DEFINE h == (n + 1) \div 2
    <3>1. h \in Nat /\ h < n /\ h > 1 /\ 2 * h <= n + 1 /\ n <= 2 * h
      BY <2>2
    <3>2. LeftNodes[n] = 2 * LeftNodes[h]
      BY <2>2, LeftIs
    <3> HIDE DEF h
    <3>3. Power(LeftNodes[h]) /\ LeftNodes[h] < h /\ h <= 2 * LeftNodes[h]
      BY <1>1, <3>1
    <3>4. LeftNodes[h] \in Nat /\ LeftNodes[h] > 0
      BY <3>3 DEF Power
    <3>5. Power(LeftNodes[n])
      BY <3>2, <3>3, <3>4, Doubled
    <3>6. LeftNodes[n] < n /\ n <= 2 * LeftNodes[n]
      BY <3>1, <3>2, <3>3, <3>4
    <3> QED BY <3>5, <3>6
  <2> QED BY <2>1, <2>2
<1> HIDE DEF S
<1>2. S = Nat
  BY <1>1, Induct DEF S
<1> QED BY <1>2 DEF S

\* The left subtree of n nodes has the largest power of two below n.
LEMMA LeftUnique ==
  ASSUME NEW p, Power(p), NEW n \in Nat, p < n, n <= 2 * p
  PROVE  LeftNodes[n] = p
<1> DEFINE q == LeftNodes[n]
<1>1. p \in Nat /\ p > 0
  BY DEF Power
<1>2. Power(q) /\ q < n /\ n <= 2 * q
  BY <1>1, LeftBounds
<1> HIDE DEF q
<1>3. q \in Nat /\ q > 0
  BY <1>2 DEF Power
<1>4. ~(p < q) /\ ~(q < p)
  BY <1>1, <1>2, <1>3, PowersApart
<1> QED BY <1>1, <1>3, <1>4 DEF q

-----------------------------------------------------------------------------
(* Multiples.                                                              *)

\* A sum of multiples is a multiple.
LEMMA DividesSum ==
  ASSUME NEW d \in Nat, NEW a \in Nat, NEW b \in Nat, Divides(d, a), Divides(d, b)
  PROVE  Divides(d, a + b)
<1>1. PICK x \in Nat : a = x * d
  BY DEF Divides
<1>2. PICK y \in Nat : b = y * d
  BY DEF Divides
<1> DEFINE z == x + y
<1>3. z \in Nat /\ a + b = z * d
  BY <1>1, <1>2
<1> HIDE DEF z
<1> QED BY <1>3 DEF Divides

\* Two multiples are at least d apart, and so is their difference a multiple.
LEMMA DividesLess ==
  ASSUME NEW d \in Nat, NEW a \in Nat, NEW b \in Nat, Divides(d, a), Divides(d, b), a < b
  PROVE  a + d <= b /\ Divides(d, b - a)
<1>1. PICK x \in Nat : a = x * d
  BY DEF Divides
<1>2. PICK y \in Nat : b = y * d
  BY DEF Divides
<1>3. x < y
  <2> SUFFICES ASSUME y <= x PROVE FALSE
    OBVIOUS
  <2>1. PICK z \in Nat : x = y + z
    <3>1. x - y \in Nat /\ x = y + (x - y)
      OBVIOUS
    <3> QED BY <3>1
  <2>2. x * d = y * d + z * d /\ z * d >= 0
    BY <2>1
  <2> QED BY <1>1, <1>2, <2>2
<1>4. PICK z \in Nat : y = x + 1 + z
  <2>1. y - x - 1 \in Nat /\ y = x + 1 + (y - x - 1)
    BY <1>3
  <2> QED BY <2>1
<1>5. y * d = x * d + d + z * d /\ z * d >= 0
  BY <1>4
<1> DEFINE w == 1 + z
<1>6. w \in Nat /\ b - a = w * d
  BY <1>1, <1>2, <1>5
<1> HIDE DEF w
<1>7. Divides(d, b - a)
  BY <1>6 DEF Divides
<1>8. a + d <= b
  <2> DEFINE e == x * d
             f == z * d
  <2>1. e \in Nat /\ f \in Nat /\ a = e /\ b = e + d + f
    BY <1>1, <1>2, <1>5
  <2> HIDE DEF e, f
  <2> QED BY <2>1
<1> QED BY <1>7, <1>8

\* Zero is a multiple of every number, and so is the number itself.
LEMMA DividesZero == \A d \in Nat : Divides(d, 0) /\ Divides(d, d)
<1> TAKE d \in Nat
<1>1. 0 = 0 * d /\ d = 1 * d
  OBVIOUS
<1> QED BY <1>1 DEF Divides

\* A multiple of 2 * d is a multiple of d.
LEMMA DividesTwice ==
  ASSUME NEW d \in Nat, NEW a \in Nat, Divides(2 * d, a)
  PROVE  Divides(d, a)
<1>1. PICK x \in Nat : a = x * (2 * d)
  BY DEF Divides
<1> DEFINE z == 2 * x
<1>2. z \in Nat /\ a = z * d
  BY <1>1
<1> HIDE DEF z
<1> QED BY <1>2 DEF Divides

\* A multiple of a multiple is a multiple.
LEMMA DividesTrans ==
  ASSUME NEW d \in Nat, NEW e \in Nat, NEW a \in Nat, Divides(d, e), Divides(e, a)
  PROVE  Divides(d, a)
<1>1. PICK x \in Nat : e = x * d
  BY DEF Divides
<1>2. PICK y \in Nat : a = y * e
  BY DEF Divides
<1> DEFINE z == y * x
<1>3. z \in Nat /\ a = z * d
  BY <1>1, <1>2
<1> HIDE DEF z
<1> QED BY <1>3 DEF Divides

\* A multiple is an even one, or the one after an even one.
LEMMA EvenOrNot ==
  ASSUME NEW d \in Nat, NEW a \in Nat, Divides(d, a)
  PROVE  \/ Divides(2 * d, a)
         \/ \E b \in Nat : a = b + d /\ Divides(2 * d, b)
<1>1. PICK x \in Nat : a = x * d
  BY DEF Divides
<1>2. PICK y \in Nat : x = 2 * y \/ x = 2 * y + 1
  <2>1. x \div 2 \in Nat /\ (x = 2 * (x \div 2) \/ x = 2 * (x \div 2) + 1)
    OBVIOUS
  <2> QED BY <2>1
<1>3. CASE x = 2 * y
  <2>1. a = y * (2 * d)
    BY <1>1, <1>3
  <2> QED BY <2>1 DEF Divides
<1>4. CASE x = 2 * y + 1
  <2>1. a = y * (2 * d) + d /\ y * (2 * d) \in Nat
    BY <1>1, <1>4
  <2> QED BY <2>1 DEF Divides
<1> QED BY <1>2, <1>3, <1>4

\* A remainder of nothing.
LEMMA DividesMod ==
  ASSUME NEW d \in Nat \ {0}, NEW a \in Nat
  PROVE  a % d = 0 <=> Divides(d, a)
<1> DEFINE c == a \div d
           z == c * d
           r == a % d
<1>1. c \in Nat /\ r \in 0..(d - 1) /\ a = c * d + r
  OBVIOUS
<1> HIDE DEF c, r
<1>2. Divides(d, z) /\ z \in Nat /\ a = z + r
  BY <1>1 DEF Divides
<1> HIDE DEF z
<1>3. r = 0 => Divides(d, a)
  BY <1>2
<1>4. ASSUME Divides(d, a) PROVE r = 0
  <2> SUFFICES ASSUME r # 0 PROVE FALSE
    OBVIOUS
  <2>1. z < a /\ a < z + d
    BY <1>1, <1>2
  <2>2. z + d <= a
    BY <1>2, <1>4, <2>1, DividesLess
  <2> QED BY <1>2, <2>1, <2>2
<1> QED BY <1>3, <1>4 DEF r

\* A multiple of a power, rounded down: there is room for the power above it.
LEMMA RoundAligned ==
  ASSUME NEW g, Power(g), NEW m \in Nat, m > 0, Divides(g, m)
  PROVE  LET q == round_down_to_power_of_2[m]
         IN /\ g <= q /\ q <= m /\ m + g <= 2 * q
            /\ Divides(g, q) /\ Divides(g, m - q)
<1> DEFINE q == round_down_to_power_of_2[m]
<1>1. Power(q) /\ q \in Nat /\ q > 0 /\ q <= m /\ m < 2 * q /\ g \in Nat /\ g > 0
  BY RoundPower, RoundType, RoundBounds DEF Power
<1> HIDE DEF q
<1>2. g <= m
  <2>1. 0 + g <= m
    BY <1>1, DividesLess, DividesZero
  <2> QED BY <1>1, <2>1
<1>3. g <= q
  <2> SUFFICES ASSUME q < g PROVE FALSE
    BY <1>1
  <2>1. 2 * q <= g
    BY <1>1, PowersApart
  <2> QED BY <1>1, <1>2, <2>1
<1>4. Divides(g, q)
  BY <1>1, <1>3, PowersDivide
<1>5. Divides(g, 2 * q)
  <2>1. Divides(g, q + q)
    BY <1>1, <1>4, DividesSum
  <2>2. q + q = 2 * q
    BY <1>1
  <2> QED BY <2>1, <2>2
<1>6. m + g <= 2 * q
  BY <1>1, <1>5, DividesLess
<1>7. Divides(g, m - q)
  <2>1. CASE q = m
    BY <1>1, <2>1, DividesZero
  <2>2. CASE q < m
    BY <1>1, <1>4, <2>2, DividesLess
  <2> QED BY <1>1, <2>1, <2>2
<1> QED BY <1>1, <1>3, <1>4, <1>6, <1>7 DEF q

-----------------------------------------------------------------------------
(* The number of 1-bits.                                                   *)

\* popcnt returns a number.
LEMMA PopType == \A x \in Nat : popcnt[x] \in Nat
<1> DEFINE S == {x \in Nat : popcnt[x] \in Nat}
<1>1. ASSUME NEW n \in Nat, \A m \in Nat : m < n => m \in S
      PROVE  n \in S
  <2>1. CASE n = 0
    BY <2>1, PopIs
  <2>2. CASE n > 0
    <3>1. n \div 2 \in Nat /\ n \div 2 < n /\ n % 2 \in Nat
      BY <2>2
    <3>2. n \div 2 \in S
      BY <1>1, <3>1
    <3> QED BY <2>2, <3>1, <3>2, PopIs
  <2> QED BY <2>1, <2>2
<1> HIDE DEF S
<1>2. S = Nat
  BY <1>1, Induct DEF S
<1> QED BY <1>2 DEF S

\* A 0-bit at the end does not count, a 1-bit does.
LEMMA PopHalf ==
  ASSUME NEW x \in Nat
  PROVE  popcnt[2 * x] = popcnt[x] /\ popcnt[2 * x + 1] = popcnt[x] + 1
<1>1. (2 * x) % 2 = 0 /\ (2 * x) \div 2 = x /\ (2 * x + 1) % 2 = 1 /\ (2 * x + 1) \div 2 = x
  OBVIOUS
<1>2. popcnt[x] \in Nat /\ popcnt[0] = 0
  BY PopType, PopIs
<1>3. popcnt[2 * x] = popcnt[x]
  <2>1. CASE x = 0
    BY <1>2, <2>1
  <2>2. CASE x # 0
    BY <1>1, <1>2, <2>2, PopIs
  <2> QED BY <2>1, <2>2
<1>4. popcnt[2 * x + 1] = popcnt[x] + 1
  <2> DEFINE y == 2 * x + 1
  <2>1. y \in Nat /\ y # 0 /\ y % 2 = 1 /\ y \div 2 = x
    BY <1>1
  <2> HIDE DEF y
  <2>2. popcnt[y] = 1 + popcnt[x]
    BY <2>1, PopIs
  <2> QED BY <1>2, <2>2 DEF y
<1> QED BY <1>3, <1>4

\* A power added where all lower bits and its own are 0.
LEMMA PopLow ==
  ASSUME NEW p, Power(p), NEW m \in Nat, Divides(2 * p, m)
  PROVE  popcnt[m + p] = popcnt[m] + 1
<1> DEFINE S == {x \in Nat : \A y \in Nat : Power(x) /\ Divides(2 * x, y)
                                              => popcnt[y + x] = popcnt[y] + 1}
<1>1. ASSUME NEW n \in Nat, \A k \in Nat : k < n => k \in S
      PROVE  n \in S
  <2> SUFFICES ASSUME NEW y \in Nat, Power(n), Divides(2 * n, y)
               PROVE  popcnt[y + n] = popcnt[y] + 1
    OBVIOUS
  <2>0. n > 0
    BY DEF Power
  <2>1. PICK c \in Nat : y = c * (2 * n)
    BY DEF Divides
  <2>2. CASE n = 1
    <3>1. y = 2 * c
      BY <2>1, <2>2
    <3> QED BY <2>2, <3>1, PopHalf
  <2>3. CASE n > 1
    <3>1. PICK a \in Nat : n = 2 * a /\ Power(a)
      BY <2>3, Halved
    <3> DEFINE b == c * (2 * a)
    <3>2. b \in Nat /\ y = 2 * b /\ Divides(2 * a, b)
      BY <2>1, <3>1 DEF Divides
    <3> HIDE DEF b
    <3>3. popcnt[b + a] = popcnt[b] + 1
      BY <1>1, <2>0, <3>1, <3>2
    <3>4. y + n = 2 * (b + a)
      BY <3>1, <3>2
    <3>5. popcnt[y + n] = popcnt[b + a] /\ popcnt[y] = popcnt[b]
      <4>1. b + a \in Nat
        BY <3>1, <3>2
      <4> QED BY <3>2, <3>4, <4>1, PopHalf
    <3> QED BY <3>3, <3>5
  <2> QED BY <2>0, <2>2, <2>3
<1> HIDE DEF S
<1>2. S = Nat
  BY <1>1, Induct DEF S
<1> QED BY <1>2 DEF S, Power

\* A power added to less than it.
LEMMA PopHigh ==
  ASSUME NEW q, Power(q), NEW r \in Nat, r < q
  PROVE  popcnt[q + r] = popcnt[r] + 1
<1> DEFINE S == {x \in Nat : \A y \in Nat : Power(x) /\ y < x => popcnt[x + y] = popcnt[y] + 1}
<1>1. ASSUME NEW n \in Nat, \A k \in Nat : k < n => k \in S
      PROVE  n \in S
  <2> SUFFICES ASSUME NEW y \in Nat, Power(n), y < n
               PROVE  popcnt[n + y] = popcnt[y] + 1
    OBVIOUS
  <2>1. CASE n = 1
    <3>1. y = 0 /\ 1 = 2 * 0 + 1
      BY <2>1
    <3>2. popcnt[1] = popcnt[0] + 1
      BY <3>1, PopHalf
    <3> QED BY <2>1, <3>1, <3>2
  <2>2. CASE n > 1
    <3>1. PICK a \in Nat : n = 2 * a /\ Power(a)
      BY <2>2, Halved
    <3>2. PICK b \in Nat : y = 2 * b \/ y = 2 * b + 1
      <4>1. y \div 2 \in Nat /\ (y = 2 * (y \div 2) \/ y = 2 * (y \div 2) + 1)
        OBVIOUS
      <4> QED BY <4>1
    <3>3. a < n /\ b < a /\ a + b \in Nat /\ popcnt[b] \in Nat
      BY <2>2, <3>1, <3>2, PopType
    <3>4. popcnt[a + b] = popcnt[b] + 1
      BY <1>1, <3>1, <3>3
    <3>5. CASE y = 2 * b
      <4>1. n + y = 2 * (a + b)
        BY <3>1, <3>5
      <4> QED BY <3>3, <3>4, <3>5, <4>1, PopHalf
    <3>6. CASE y = 2 * b + 1
      <4> DEFINE c == a + b
      <4>1. c \in Nat /\ n + y = 2 * c + 1
        BY <3>1, <3>3, <3>6
      <4> HIDE DEF c
      <4>2. popcnt[n + y] = popcnt[c] + 1 /\ popcnt[y] = popcnt[b] + 1
        BY <3>3, <3>6, <4>1, PopHalf
      <4> QED BY <3>3, <3>4, <4>2 DEF c
    <3> QED BY <3>2, <3>5, <3>6
  <2> QED BY <2>1, <2>2 DEF Power
<1> HIDE DEF S
<1>2. S = Nat
  BY <1>1, Induct DEF S
<1> QED BY <1>2 DEF S, Power

\* A power added to a multiple of it adds at most one bit.
LEMMA PopSum ==
  ASSUME NEW p, Power(p), NEW m \in Nat, Divides(p, m)
  PROVE  popcnt[m + p] <= popcnt[m] + 1
<1> DEFINE S == {x \in Nat : \A d \in Nat : Power(d) /\ Divides(d, x)
                                              => popcnt[x + d] <= popcnt[x] + 1}
<1>1. ASSUME NEW n \in Nat, \A k \in Nat : k < n => k \in S
      PROVE  n \in S
  <2> SUFFICES ASSUME NEW d \in Nat, Power(d), Divides(d, n)
               PROVE  popcnt[n + d] <= popcnt[n] + 1
    OBVIOUS
  <2>0. d > 0
    BY DEF Power
  <2>1. CASE Divides(2 * d, n)
    <3>1. popcnt[n + d] = popcnt[n] + 1 /\ popcnt[n] \in Nat
      BY <2>1, PopLow, PopType
    <3> QED BY <3>1
  <2>2. CASE \E b \in Nat : n = b + d /\ Divides(2 * d, b)
    <3>1. PICK b \in Nat : n = b + d /\ Divides(2 * d, b)
      BY <2>2
    <3>2. popcnt[n] = popcnt[b] + 1
      BY <3>1, PopLow
    <3>3. Power(2 * d) /\ b < n /\ n + d = b + 2 * d
      BY <2>0, <3>1, Doubled
    <3>4. popcnt[b + 2 * d] <= popcnt[b] + 1
      BY <1>1, <3>1, <3>3
    <3>5. popcnt[b] \in Nat /\ popcnt[b + 2 * d] \in Nat
      BY PopType
    <3> QED BY <3>2, <3>3, <3>4, <3>5
  <2> QED BY <2>1, <2>2, EvenOrNot
<1> HIDE DEF S
<1>2. S = Nat
  BY <1>1, Induct DEF S
<1> QED BY <1>2 DEF S, Power

\* A power of two is a positive number.
LEMMA TwoType == \A e \in Nat : TwoTo[e] \in Nat \ {0}
<1> DEFINE S == {e \in Nat : TwoTo[e] \in Nat \ {0}}
<1>1. ASSUME NEW n \in Nat, \A m \in Nat : m < n => m \in S
      PROVE  n \in S
  <2>1. CASE n = 0
    BY <2>1, TwoIs
  <2>2. CASE n > 0
    <3>1. n - 1 \in S
      BY <1>1, <2>2
    <3> QED BY <2>2, <3>1, TwoIs
  <2> QED BY <2>1, <2>2
<1> HIDE DEF S
<1>2. S = Nat
  BY <1>1, Induct DEF S
<1> QED BY <1>2 DEF S

\* A number of e bits has at most e that are 1.
LEMMA PopFits ==
  ASSUME NEW e \in Nat, NEW m \in Nat, m < TwoTo[e]
  PROVE  popcnt[m] <= e
<1> DEFINE S == {x \in Nat : \A y \in Nat : y < TwoTo[x] => popcnt[y] <= x}
<1>1. ASSUME NEW n \in Nat, \A k \in Nat : k < n => k \in S
      PROVE  n \in S
  <2> SUFFICES ASSUME NEW y \in Nat, y < TwoTo[n] PROVE popcnt[y] <= n
    OBVIOUS
  <2>1. CASE n = 0
    <3>1. y = 0
      BY <2>1, TwoIs
    <3> QED BY <2>1, <3>1, PopIs
  <2>2. CASE n > 0
    <3>1. TwoTo[n] = 2 * TwoTo[n - 1] /\ n - 1 \in Nat /\ TwoTo[n - 1] \in Nat
      BY <2>2, TwoIs, TwoType
    <3>2. PICK b \in Nat : y = 2 * b \/ y = 2 * b + 1
      <4>1. y \div 2 \in Nat /\ (y = 2 * (y \div 2) \/ y = 2 * (y \div 2) + 1)
        OBVIOUS
      <4> QED BY <4>1
    <3>3. b < TwoTo[n - 1] /\ n - 1 < n
      BY <3>1, <3>2
    <3>4. popcnt[b] <= n - 1 /\ popcnt[b] \in Nat
      BY <1>1, <3>1, <3>3, PopType
    <3>5. popcnt[y] = popcnt[b] \/ popcnt[y] = popcnt[b] + 1
      BY <3>2, PopHalf
    <3> QED BY <2>2, <3>4, <3>5
  <2> QED BY <2>1, <2>2
<1> HIDE DEF S
<1>2. S = Nat
  BY <1>1, Induct DEF S
<1> QED BY <1>2 DEF S

-----------------------------------------------------------------------------
(* The powers of two that a number is the sum of.                          *)

BitsDef(p, g, n) ==
  IF n = 0 THEN <<>> ELSE <<round_down_to_power_of_2[n]>> \o g[n - round_down_to_power_of_2[n]]
BitsR == INSTANCE Recursion WITH Dom <- Numbers, Size <- Itself, Def <- BitsDef

\* Bits obeys its definition.
LEMMA BitsIs ==
  \A n \in Nat : Bits[n] = IF n = 0 THEN <<>>
                           ELSE <<round_down_to_power_of_2[n]>>
                                  \o Bits[n - round_down_to_power_of_2[n]]
<1>1. \A x \in Nat : x # 0 => x - round_down_to_power_of_2[x] \in Nat
                            /\ x - round_down_to_power_of_2[x] < x
  <2> TAKE x \in Nat
  <2> HAVE x # 0
  <2>1. round_down_to_power_of_2[x] \in Nat \ {0} /\ round_down_to_power_of_2[x] <= x
    BY RoundType, RoundBounds
  <2> QED BY <2>1
<1>2. BitsR!WellFormed(0)
  BY <1>1 DEF BitsR!WellFormed, Numbers, Itself, BitsDef
<1>3. \E g : g = [n \in Nat |-> IF n = 0 THEN <<>>
                                ELSE <<round_down_to_power_of_2[n]>>
                                       \o g[n - round_down_to_power_of_2[n]]]
  BY <1>2, BitsR!RecursiveFunction, Zenon DEF Numbers, BitsDef
<1>4. Bits = [n \in Nat |-> IF n = 0 THEN <<>>
                            ELSE <<round_down_to_power_of_2[n]>>
                                   \o Bits[n - round_down_to_power_of_2[n]]]
  BY <1>3, Zenon DEF Bits
<1> QED BY <1>4

StartsDef(sizes, g, x) == IF x <= 1 THEN 0 ELSE g[x - 1] + sizes[x - 1]
StartsR == INSTANCE Recursion WITH Dom <- Numbers, Size <- Itself, Def <- StartsDef

\* Starts obeys its definition.
LEMMA StartsIs ==
  ASSUME NEW sizes
  PROVE  \A x \in Nat : Starts(sizes)[x]
                          = IF x <= 1 THEN 0 ELSE Starts(sizes)[x - 1] + sizes[x - 1]
<1>1. StartsR!WellFormed(sizes)
  BY DEF StartsR!WellFormed, Numbers, Itself, StartsDef
<1>2. \E g : g = [x \in Nat |-> IF x <= 1 THEN 0 ELSE g[x - 1] + sizes[x - 1]]
  BY <1>1, StartsR!RecursiveFunction DEF Numbers, StartsDef
<1>3. Starts(sizes) = [x \in Nat |-> IF x <= 1 THEN 0
                                     ELSE Starts(sizes)[x - 1] + sizes[x - 1]]
  BY <1>2 DEF Starts
<1> QED BY <1>3

\* Each subtree starts where the one before it ends.
LEMMA StartsNext ==
  ASSUME NEW sizes
  PROVE  /\ Starts(sizes)[1] = 0
         /\ \A x \in Nat : x > 0 => Starts(sizes)[x + 1] = Starts(sizes)[x] + sizes[x]
<1>1. Starts(sizes)[1] = 0
  BY StartsIs
<1>2. ASSUME NEW x \in Nat, x > 0
      PROVE  Starts(sizes)[x + 1] = Starts(sizes)[x] + sizes[x]
  <2> DEFINE y == x + 1
  <2>1. y \in Nat /\ y > 1 /\ y - 1 = x
    BY <1>2
  <2> HIDE DEF y
  <2>2. Starts(sizes)[y] = Starts(sizes)[x] + sizes[x]
    BY <2>1, StartsIs
  <2> QED BY <2>2 DEF y
<1> QED BY <1>1, <1>2

\* The rest of a number after its highest bit.
LEMMA RestBelow ==
  ASSUME NEW n \in Nat, n # 0
  PROVE  LET q == round_down_to_power_of_2[n]
         IN q \in Nat /\ q > 0 /\ q <= n /\ n - q \in Nat /\ n - q < q /\ n - q < n
<1> DEFINE q == round_down_to_power_of_2[n]
<1>1. q \in Nat \ {0} /\ q <= n /\ n < 2 * q
  BY RoundType, RoundBounds
<1> HIDE DEF q
<1>2. q \in Nat /\ q > 0 /\ q <= n /\ n - q \in Nat /\ n - q < q /\ n - q < n
  BY <1>1
<1> QED BY <1>2 DEF q

\* Bits returns as many numbers as there are 1-bits.
LEMMA BitsType ==
  \A n \in Nat : Bits[n] \in Seq(Nat) /\ Len(Bits[n]) = popcnt[n]
<1> DEFINE S == {n \in Nat : Bits[n] \in Seq(Nat) /\ Len(Bits[n]) = popcnt[n]}
<1>1. ASSUME NEW n \in Nat, \A m \in Nat : m < n => m \in S
      PROVE  n \in S
  <2>1. CASE n = 0
    <3>1. Bits[0] = <<>> /\ popcnt[0] = 0
      BY BitsIs, PopIs
    <3>2. Bits[n] \in Seq(Nat) /\ Len(Bits[n]) = popcnt[n]
      BY <2>1, <3>1
    <3> QED BY <3>2
  <2>2. CASE n # 0
    <3> DEFINE q == round_down_to_power_of_2[n]
    <3>1. q \in Nat /\ q <= n /\ n - q \in Nat /\ n - q < q /\ n - q < n
      BY <2>2, RestBelow
    <3>2. Bits[n] = <<q>> \o Bits[n - q]
      BY <2>2, BitsIs
    <3>3. Power(q)
      BY RoundPower
    <3> HIDE DEF q
    <3>4. Bits[n - q] \in Seq(Nat) /\ Len(Bits[n - q]) = popcnt[n - q]
      BY <1>1, <3>1
    <3>5. q + (n - q) = n
      BY <3>1
    <3>6. popcnt[n] = popcnt[n - q] + 1
      BY <3>1, <3>3, <3>5, PopHigh
    <3>7. Bits[n] \in Seq(Nat) /\ Len(Bits[n]) = 1 + Len(Bits[n - q])
      BY <3>1, <3>2, <3>4
    <3> QED BY <3>1, <3>4, <3>6, <3>7, PopType
  <2> QED BY <2>1, <2>2
<1> HIDE DEF S
<1>2. S = Nat
  BY <1>1, Induct DEF S
<1> QED BY <1>2 DEF S

\* The number after k.
LEMMA NextNumber == \A k \in Nat : k + 1 \in Nat /\ k + 1 # 0 /\ (k + 1) - 1 = k
OBVIOUS

\* Three sequences one after the other.
LEMMA JoinAssoc ==
  ASSUME NEW V, NEW a \in Seq(V), NEW b \in Seq(V), NEW c \in Seq(V)
  PROVE  a \o (b \o c) = (a \o b) \o c
OBVIOUS

\* Sums of three numbers.
LEMMA Sums ==
  ASSUME NEW a \in Nat, NEW b \in Nat, NEW c \in Nat
  PROVE  (c + a) + b = c + (a + b) /\ a + b \in Nat
OBVIOUS

\* What comes after does not move a start.
LEMMA StartsAppend ==
  ASSUME NEW z \in Seq(Nat), NEW w \in Seq(Nat)
  PROVE  \A x \in 1..(Len(z) + 1) : Starts(z \o w)[x] = Starts(z)[x]
<1> DEFINE S == {x \in Nat : x \in 1..(Len(z) + 1) => Starts(z \o w)[x] = Starts(z)[x]}
<1>1. ASSUME NEW n \in Nat, \A m \in Nat : m < n => m \in S
      PROVE  n \in S
  <2>1. CASE n <= 1
    BY <2>1, StartsIs
  <2>2. CASE n > 1 /\ n <= Len(z) + 1
    <3>1. n - 1 \in S /\ n - 1 \in 1..Len(z)
      BY <1>1, <2>2
    <3>2. (z \o w)[n - 1] = z[n - 1]
      BY <3>1
    <3>3. Starts(z)[n] = Starts(z)[n - 1] + z[n - 1]
      BY <2>2, StartsIs
    <3>4. Starts(z \o w)[n] = Starts(z \o w)[n - 1] + (z \o w)[n - 1]
      <4> DEFINE v == z \o w
      <4> HIDE DEF v
      <4>1. Starts(v)[n] = Starts(v)[n - 1] + v[n - 1]
        BY <2>2, StartsIs
      <4> QED BY <4>1 DEF v
    <3> QED BY <3>1, <3>2, <3>3, <3>4
  <2>3. CASE ~(n <= Len(z) + 1)
    BY <2>3
  <2> QED BY <2>1, <2>2, <2>3
<1> HIDE DEF S
<1>2. S = Nat
  BY <1>1, Induct DEF S
<1>3. \A x \in Nat : x \in 1..(Len(z) + 1) => Starts(z \o w)[x] = Starts(z)[x]
  BY <1>2, Zenon DEF S
<1>4. \A x \in 1..(Len(z) + 1) : x \in Nat
  OBVIOUS
<1> QED BY <1>3, <1>4, Zenon

\* One more size before moves all starts.
LEMMA StartsBefore ==
  ASSUME NEW z \in Seq(Nat), NEW q \in Nat
  PROVE  \A x \in 1..(Len(z) + 1) :
           Starts(z)[x] \in Nat /\ Starts(<<q>> \o z)[x + 1] = q + Starts(z)[x]
<1> DEFINE T == <<q>> \o z
           S == {x \in Nat : x \in 1..(Len(z) + 1) =>
                   Starts(z)[x] \in Nat /\ Starts(T)[x + 1] = q + Starts(z)[x]}
<1>1. ASSUME NEW n \in Nat, \A m \in Nat : m < n => m \in S
      PROVE  n \in S
  <2>0. T[1] = q /\ Starts(T)[1] = 0 /\ Starts(T)[2] = Starts(T)[1] + T[1]
    <3>1. 1 \in Nat /\ 1 > 0 /\ 1 + 1 = 2 /\ T[1] = q
      OBVIOUS
    <3> HIDE DEF T
    <3> QED BY <3>1, StartsNext
  <2>1. CASE n <= 1
    BY <2>0, <2>1, StartsIs
  <2>2. CASE n > 1 /\ n <= Len(z) + 1
    <3>1. n - 1 \in S /\ n - 1 \in 1..Len(z) /\ n + 1 \in Nat /\ (n + 1) - 1 = n
      BY <1>1, <2>2
    <3>2. T[n] = z[n - 1] /\ z[n - 1] \in Nat
      BY <2>2, <3>1
    <3>3. Starts(T)[n + 1] = Starts(T)[n] + T[n]
      <4> HIDE DEF T
      <4> QED BY <2>2, StartsNext
    <3>4. Starts(z)[n] = Starts(z)[n - 1] + z[n - 1]
      BY <2>2, StartsIs
    <3>5. Starts(z)[n - 1] \in Nat /\ Starts(T)[n] = q + Starts(z)[n - 1]
      BY <3>1
    <3>6. (q + Starts(z)[n - 1]) + z[n - 1] = q + (Starts(z)[n - 1] + z[n - 1])
            /\ Starts(z)[n - 1] + z[n - 1] \in Nat
      BY ONLY <3>2, <3>5, q \in Nat, Sums
    <3>7. Starts(z)[n] \in Nat /\ Starts(T)[n + 1] = q + Starts(z)[n]
      <4> HIDE DEF T
      <4> QED BY ONLY <3>2, <3>3, <3>4, <3>5, <3>6
    <3> QED BY <3>7
  <2>3. CASE ~(n <= Len(z) + 1)
    BY <2>3
  <2> QED BY <2>1, <2>2, <2>3
<1> HIDE DEF S
<1>2. S = Nat
  BY <1>1, Induct DEF S
<1>3. \A x \in Nat : x \in 1..(Len(z) + 1) =>
                       Starts(z)[x] \in Nat /\ Starts(T)[x + 1] = q + Starts(z)[x]
  BY <1>2, Zenon DEF S
<1>4. \A x \in 1..(Len(z) + 1) : x \in Nat
  OBVIOUS
<1> QED BY <1>3, <1>4, Zenon

\* Each bit is the highest one of what is left, and all of them are the
\* number.
BitsFill(n) ==
  LET z == Bits[n]
      start == Starts(z)
  IN /\ \A x \in 1..Len(z) :
          /\ start[x] \in Nat /\ start[x] < n
          /\ z[x] = round_down_to_power_of_2[n - start[x]]
          /\ start[x + 1] = start[x] + z[x]
          /\ \A g \in Nat : Power(g) /\ Divides(g, n) => Divides(g, start[x])
     /\ start[Len(z) + 1] = n

\* The powers of two of Bits add up to the number, largest first.
LEMMA BitsFillAll == \A n \in Nat : BitsFill(n)
<1> DEFINE S == {n \in Nat : BitsFill(n)}
<1>1. ASSUME NEW n \in Nat, \A m \in Nat : m < n => m \in S
      PROVE  n \in S
  <2>1. CASE n = 0
    <3>1. Bits[0] = <<>>
      BY BitsIs
    <3> QED BY <2>1, <3>1, StartsIs DEF BitsFill
  <2>2. CASE n # 0
    <3> DEFINE q == round_down_to_power_of_2[n]
               r == n - q
               z == Bits[r]
               w == Bits[n]
    <3>1. q \in Nat /\ q > 0 /\ q <= n /\ r \in Nat /\ r < n /\ Power(q)
      BY <2>2, RestBelow, RoundPower
    <3>2. w = <<q>> \o z
      BY <2>2, BitsIs
    <3>3. z \in Seq(Nat)
      BY <3>1, BitsType
    <3>4. BitsFill(r)
      BY <1>1, <3>1
    <3>5. \A g \in Nat : Power(g) /\ Divides(g, n) => Divides(g, q) /\ Divides(g, r)
      BY <2>2, RoundAligned
    <3>6. n = q + r /\ q = round_down_to_power_of_2[n]
      BY <3>1
    <3> HIDE DEF q, r
    <3>7. /\ \A x \in 1..Len(z) :
               /\ Starts(z)[x] \in Nat /\ Starts(z)[x] < r
               /\ z[x] = round_down_to_power_of_2[r - Starts(z)[x]]
               /\ Starts(z)[x + 1] = Starts(z)[x] + z[x]
               /\ \A g \in Nat : Power(g) /\ Divides(g, r) => Divides(g, Starts(z)[x])
          /\ Starts(z)[Len(z) + 1] = r
      BY <3>4 DEF BitsFill
    <3>8. \A x \in 1..(Len(z) + 1) :
            Starts(z)[x] \in Nat /\ Starts(w)[x + 1] = q + Starts(z)[x]
      BY <3>1, <3>2, <3>3, StartsBefore
    <3>9. Len(w) = Len(z) + 1 /\ Len(z) \in Nat /\ w[1] = q
            /\ \A x \in 1..Len(z) : w[x + 1] = z[x]
      <4> HIDE DEF z, w
      <4> QED BY <3>1, <3>2, <3>3
    <3>10. Starts(w)[1] = 0
      BY StartsIs
    <3> HIDE DEF z, w
    <3>11. Starts(w)[2] = Starts(w)[1] + q
      <4>1. Starts(z)[1] = 0 /\ 1 \in 1..(Len(z) + 1)
        BY <3>9, StartsIs
      <4> QED BY <3>1, <3>8, <3>10, <4>1
    <3>12. ASSUME NEW x \in 1..Len(w)
           PROVE  /\ Starts(w)[x] \in Nat /\ Starts(w)[x] < n
                  /\ w[x] = round_down_to_power_of_2[n - Starts(w)[x]]
                  /\ Starts(w)[x + 1] = Starts(w)[x] + w[x]
                  /\ \A g \in Nat : Power(g) /\ Divides(g, n) => Divides(g, Starts(w)[x])
      <4>1. CASE x = 1
        <5>1. \A g \in Nat : Divides(g, 0)
          BY DividesZero
        <5>2. n - 0 = n
          OBVIOUS
        <5> QED BY <2>2, <3>1, <3>6, <3>9, <3>10, <3>11, <4>1, <5>1, <5>2
      <4>2. CASE x # 1
        <5> DEFINE y == x - 1
        <5>1. y \in 1..Len(z) /\ x = y + 1 /\ y \in 1..(Len(z) + 1)
                /\ y + 1 \in 1..(Len(z) + 1)
          BY <3>9, <4>2
        <5> HIDE DEF y
        <5>2. Starts(w)[x] = q + Starts(z)[y] /\ w[x] = z[y]
          BY <3>8, <3>9, <5>1
        <5>3. Starts(w)[x + 1] = q + Starts(z)[y + 1]
          BY <3>8, <5>1
        <5>a. /\ Starts(z)[y] \in Nat /\ Starts(z)[y] < r
              /\ Starts(z)[y + 1] = Starts(z)[y] + z[y]
          BY <3>7, <5>1, Zenon
        <5>b. q \in Nat /\ r \in Nat /\ n = q + r
          BY <3>1, <3>6
        <5>4. n - Starts(w)[x] = r - Starts(z)[y]
          BY ONLY <5>2, <5>a, <5>b
        <5>5. z[y] \in Nat
          BY <3>3, <5>1 DEF z
        <5>6. Starts(w)[x + 1] = Starts(w)[x] + w[x]
          <6>1. (q + Starts(z)[y]) + z[y] = q + (Starts(z)[y] + z[y])
            BY ONLY <5>5, <5>a, <5>b, Sums
          <6> QED BY ONLY <5>2, <5>3, <5>a, <6>1
        <5>7. Starts(w)[x] \in Nat /\ Starts(w)[x] < n
          BY ONLY <5>2, <5>a, <5>b
        <5>8. \A g \in Nat : Power(g) /\ Divides(g, n) => Divides(g, Starts(w)[x])
          <6> SUFFICES ASSUME NEW g \in Nat, Power(g), Divides(g, n)
                       PROVE  Divides(g, Starts(w)[x])
            OBVIOUS
          <6>1. Divides(g, q) /\ Divides(g, r)
            BY <3>5
          <6>2. Divides(g, Starts(z)[y]) /\ Starts(z)[y] \in Nat
            BY <3>7, <5>1, <6>1
          <6> QED BY <3>1, <5>2, <6>1, <6>2, DividesSum
        <5> QED BY <3>7, <5>1, <5>2, <5>4, <5>6, <5>7, <5>8
      <4> QED BY <4>1, <4>2
    <3>13. Starts(w)[Len(w) + 1] = n
      <4>1. Len(z) + 1 \in 1..(Len(z) + 1)
        BY <3>9
      <4>2. Starts(w)[(Len(z) + 1) + 1] = q + Starts(z)[Len(z) + 1]
        BY <3>8, <4>1
      <4> QED BY <3>6, <3>7, <3>9, <4>2
    <3> QED BY <3>12, <3>13 DEF BitsFill, w
  <2> QED BY <2>1, <2>2
<1> HIDE DEF S
<1>2. S = Nat
  BY <1>1, Induct DEF S
<1> QED BY <1>2 DEF S

\* A lower bit comes last.
LEMMA BitsAppend ==
  ASSUME NEW p, Power(p), NEW m \in Nat, Divides(2 * p, m)
  PROVE  Bits[m + p] = Bits[m] \o <<p>>
<1> DEFINE S == {n \in Nat : Divides(2 * p, n) => Bits[n + p] = Bits[n] \o <<p>>}
<1>0. p \in Nat /\ p > 0 /\ Power(2 * p)
  BY Doubled DEF Power
<1>1. ASSUME NEW n \in Nat, \A k \in Nat : k < n => k \in S
      PROVE  n \in S
  <2> SUFFICES ASSUME Divides(2 * p, n) PROVE Bits[n + p] = Bits[n] \o <<p>>
    OBVIOUS
  <2> DEFINE q == round_down_to_power_of_2[n]
  <2>1. CASE n = 0
    <3>1. round_down_to_power_of_2[p] = p
      BY DEF Power, IsPowerOfTwo
    <3>2. Bits[0] = <<>> /\ Bits[p] = <<p>> \o Bits[p - p]
      <4>1. p # 0
        BY <1>0
      <4> QED BY <1>0, <3>1, <4>1, BitsIs
    <3>3. p - p = 0 /\ n + p = p
      BY <1>0, <2>1
    <3> QED BY <1>0, <2>1, <3>2, <3>3
  <2>2. CASE n # 0
    <3>1. /\ 2 * p <= q /\ q <= n /\ n + 2 * p <= 2 * q /\ Divides(2 * p, n - q)
          /\ q \in Nat /\ q > 0 /\ Power(q)
      <4>1. 2 * p \in Nat
        BY <1>0
      <4> QED BY <1>0, <2>2, <4>1, RoundAligned, RoundType, RoundPower
    <3>2. Bits[n] = <<q>> \o Bits[n - q]
      BY <2>2, BitsIs
    <3> HIDE DEF q
    <3>3. n + p \in Nat /\ n + p # 0 /\ q <= n + p /\ n + p < 2 * q
      BY <1>0, <3>1
    <3>4. round_down_to_power_of_2[n + p] = q
      BY <3>1, <3>3, RoundUnique
    <3>5. Bits[n + p] = <<q>> \o Bits[(n + p) - q]
      BY <3>3, <3>4, BitsIs
    <3>6. (n + p) - q = (n - q) + p /\ n - q \in Nat /\ n - q < n
      BY <1>0, <3>1
    <3>7. Bits[(n - q) + p] = Bits[n - q] \o <<p>>
      BY <1>1, <3>1, <3>6
    <3>8. Bits[n - q] \in Seq(Nat)
      BY <3>6, BitsType
    <3>9. <<q>> \o (Bits[n - q] \o <<p>>) = (<<q>> \o Bits[n - q]) \o <<p>>
      <4> DEFINE z == Bits[n - q]
      <4> HIDE DEF z
      <4>1. z \in Seq(Nat)
        BY <3>8 DEF z
      <4>a. <<q>> \in Seq(Nat) /\ <<p>> \in Seq(Nat)
        BY <1>0, <3>1
      <4>2. <<q>> \o (z \o <<p>>) = (<<q>> \o z) \o <<p>>
        BY ONLY <4>1, <4>a, JoinAssoc
      <4> QED BY <4>2 DEF z
    <3> QED BY <3>2, <3>5, <3>6, <3>7, <3>9
  <2> QED BY <2>1, <2>2
<1> HIDE DEF S
<1>2. S = Nat
  BY <1>1, Induct DEF S
<1> QED BY <1>2 DEF S

-----------------------------------------------------------------------------
(* Trees over leaves.                                                      *)

Parent(l, r, key, flags) == ChainingValue(ParentOutput(l, r, key, flags))

SubtreeDef(p, g, n) ==
  [lo \in Nat |->
     IF n <= 1 THEN p[1][lo]
     ELSE Parent(g[LeftNodes[n]][lo], g[n - LeftNodes[n]][lo + LeftNodes[n]], p[2], p[3])]
SubtreeR == INSTANCE Recursion WITH Dom <- Numbers, Size <- Itself, Def <- SubtreeDef

\* The left and the right part of a tree are smaller.
LEMMA Parts ==
  ASSUME NEW n \in Nat, n > 1
  PROVE  /\ LeftNodes[n] \in Nat /\ LeftNodes[n] > 0 /\ LeftNodes[n] < n
         /\ n - LeftNodes[n] \in Nat /\ n - LeftNodes[n] < n /\ n - LeftNodes[n] > 0
<1>1. LeftNodes[n] \in Nat /\ LeftNodes[n] > 0 /\ LeftNodes[n] < n
  BY LeftBounds DEF Power
<1> QED BY <1>1

\* Subtree obeys its definition.
LEMMA SubtreeIs ==
  ASSUME NEW leaf, NEW key, NEW flags
  PROVE  \A n, lo \in Nat :
           Subtree(leaf, key, flags)[n][lo] =
             IF n <= 1 THEN leaf[lo]
             ELSE Parent(Subtree(leaf, key, flags)[LeftNodes[n]][lo],
                         Subtree(leaf, key, flags)[n - LeftNodes[n]][lo + LeftNodes[n]],
                         key, flags)
<1> DEFINE p == <<leaf, key, flags>>
<1>1. SubtreeR!WellFormed(p)
  <2>1. ASSUME NEW g, NEW h, NEW n \in Nat, \A y \in Nat : y < n => g[y] = h[y]
        PROVE  SubtreeDef(p, g, n) = SubtreeDef(p, h, n)
    <3>1. CASE n <= 1
      BY <3>1 DEF SubtreeDef
    <3>2. CASE ~(n <= 1)
      <4>1. g[LeftNodes[n]] = h[LeftNodes[n]] /\ g[n - LeftNodes[n]] = h[n - LeftNodes[n]]
        BY <2>1, <3>2, Parts
      <4> QED BY <3>2, <4>1 DEF SubtreeDef
    <3> QED BY <3>1, <3>2
  <2> HIDE DEF p
  <2> QED BY <2>1 DEF SubtreeR!WellFormed, Numbers, Itself
<1>2. \E g : g = [n \in Nat |-> SubtreeDef(p, g, n)]
  BY <1>1, SubtreeR!RecursiveFunction DEF Numbers
<1>b. p[1] = leaf /\ p[2] = key /\ p[3] = flags
  OBVIOUS
<1> HIDE DEF p
<1>c. ASSUME NEW g, NEW n
      PROVE  SubtreeDef(p, g, n) =
                 [lo \in Nat |->
                    IF n <= 1 THEN leaf[lo]
                    ELSE LET k == LeftNodes[n]
                         IN ChainingValue(ParentOutput(g[k][lo], g[n - k][lo + k],
                                                       key, flags))]
  BY <1>b, Zenon DEF SubtreeDef, Parent
<1>a. \E g : g = [n \in Nat |->
                 [lo \in Nat |->
                    IF n <= 1 THEN leaf[lo]
                    ELSE LET k == LeftNodes[n]
                         IN ChainingValue(ParentOutput(g[k][lo], g[n - k][lo + k],
                                                       key, flags))]]
  <2>1. PICK g : g = [n \in Nat |-> SubtreeDef(p, g, n)]
    BY <1>2
  <2>2. [n \in Nat |-> SubtreeDef(p, g, n)] =
               [n \in Nat |->
                 [lo \in Nat |->
                    IF n <= 1 THEN leaf[lo]
                    ELSE LET k == LeftNodes[n]
                         IN ChainingValue(ParentOutput(g[k][lo], g[n - k][lo + k],
                                                       key, flags))]]
    BY <1>c
  <2> QED BY <2>1, <2>2, Zenon
<1> DEFINE f == Subtree(leaf, key, flags)
<1>3. f = [n \in Nat |->
                 [lo \in Nat |->
                    IF n <= 1 THEN leaf[lo]
                    ELSE LET k == LeftNodes[n]
                         IN ChainingValue(ParentOutput(f[k][lo], f[n - k][lo + k],
                                                       key, flags))]]
  BY <1>a, Zenon DEF Subtree
<1> HIDE DEF f
<1>4. ASSUME NEW n \in Nat, NEW lo \in Nat
      PROVE  f[n][lo] = IF n <= 1 THEN leaf[lo]
                        ELSE Parent(f[LeftNodes[n]][lo],
                                    f[n - LeftNodes[n]][lo + LeftNodes[n]], key, flags)
  <2>1. f[n] = [x \in Nat |->
                  IF n <= 1 THEN leaf[x]
                  ELSE Parent(f[LeftNodes[n]][x],
                              f[n - LeftNodes[n]][x + LeftNodes[n]], key, flags)]
    BY ONLY <1>3, n \in Nat DEF Parent
  <2> QED BY <2>1
<1> QED BY <1>4 DEF f

Agree(l1, lo1, l2, lo2, n) == \A i \in 0..(n - 1) : l1[lo1 + i] = l2[lo2 + i]

\* A tree is fixed by its leaves.
LEMMA SameLeaves ==
  ASSUME NEW l1, NEW l2, NEW key, NEW flags, NEW n \in Nat, n > 0,
         NEW lo1 \in Nat, NEW lo2 \in Nat,
         Agree(l1, lo1, l2, lo2, n)
  PROVE  Subtree(l1, key, flags)[n][lo1] = Subtree(l2, key, flags)[n][lo2]
<1> DEFINE f1 == Subtree(l1, key, flags)
           f2 == Subtree(l2, key, flags)
           S == {k \in Nat : k > 0 => \A x, y \in Nat :
                   (\A i \in 0..(k - 1) : l1[x + i] = l2[y + i]) => f1[k][x] = f2[k][y]}
<1>0. /\ \A k, lo \in Nat : f1[k][lo] = IF k <= 1 THEN l1[lo]
                ELSE Parent(f1[LeftNodes[k]][lo],
                            f1[k - LeftNodes[k]][lo + LeftNodes[k]], key, flags)
      /\ \A k, lo \in Nat : f2[k][lo] = IF k <= 1 THEN l2[lo]
                ELSE Parent(f2[LeftNodes[k]][lo],
                            f2[k - LeftNodes[k]][lo + LeftNodes[k]], key, flags)
  BY SubtreeIs
<1> HIDE DEF f1, f2
<1>1. ASSUME NEW k \in Nat, \A m \in Nat : m < k => m \in S
      PROVE  k \in S
  <2> SUFFICES ASSUME k > 0, NEW x \in Nat, NEW y \in Nat,
                      \A i \in 0..(k - 1) : l1[x + i] = l2[y + i]
               PROVE  f1[k][x] = f2[k][y]
    OBVIOUS
  <2>1. CASE k = 1
    <3>1. l1[x + 0] = l2[y + 0]
      BY <2>1
    <3> QED BY <1>0, <2>1, <3>1
  <2>2. CASE k > 1
    <3> DEFINE a == LeftNodes[k]
               b == k - a
    <3>1. a \in Nat /\ a > 0 /\ a < k /\ b \in Nat /\ b > 0 /\ b < k /\ a + b = k
      BY <2>2, Parts
    <3> HIDE DEF a, b
    <3>2. f1[a][x] = f2[a][y]
      <4>1. \A i \in 0..(a - 1) : l1[x + i] = l2[y + i]
        BY <3>1
      <4>2. a \in S
        BY <1>1, <3>1
      <4> HIDE DEF S
      <4> QED BY <3>1, <4>1, <4>2 DEF S
    <3>3. f1[b][x + a] = f2[b][y + a]
      <4>1. ASSUME NEW i \in 0..(b - 1) PROVE l1[(x + a) + i] = l2[(y + a) + i]
        <5>1. a + i \in 0..(k - 1)
          BY <3>1
        <5>2. l1[x + (a + i)] = l2[y + (a + i)]
          BY <5>1
        <5>3. x + (a + i) = (x + a) + i /\ y + (a + i) = (y + a) + i
          BY <3>1
        <5> QED BY <5>2, <5>3
      <4> DEFINE u == x + a
                 v == y + a
      <4>a. u \in Nat /\ v \in Nat
        BY <3>1
      <4>2. b \in S
        BY <1>1, <3>1
      <4>3. \A i \in 0..(b - 1) : l1[u + i] = l2[v + i]
        BY <4>1
      <4> HIDE DEF S, u, v
      <4>4. f1[b][u] = f2[b][v]
        BY <3>1, <4>a, <4>2, <4>3 DEF S
      <4> QED BY <4>4 DEF u, v
    <3> QED BY <1>0, <2>2, <3>2, <3>3 DEF a, b
  <2> QED BY <2>1, <2>2
<1> HIDE DEF S
<1>2. S = Nat
  BY <1>1, Induct DEF S
<1>3. f1[n][lo1] = f2[n][lo2]
  <2>1. \A i \in 0..(n - 1) : l1[lo1 + i] = l2[lo2 + i]
    BY DEF Agree
  <2> QED BY <2>1, <1>2 DEF S
<1> QED BY <1>3 DEF f1, f2

-----------------------------------------------------------------------------
(* Lists of chaining values.                                               *)

List(s) == Len(s) \in Nat /\ s = [i \in 1..Len(s) |-> s[i]]

\* The tree over the values of a list.
Over(s, key, flags) == Subtree([c \in Nat |-> s[c + 1]], key, flags)

\* The entries of two lists one after the other.
LEMMA Joined ==
  ASSUME NEW s, NEW t, List(s), List(t)
  PROVE  s \o t = [i \in 1..(Len(s) + Len(t)) |-> IF i <= Len(s) THEN s[i] ELSE t[i - Len(s)]]
<1> DEFINE V == {s[i] : i \in 1..Len(s)} \cup {t[i] : i \in 1..Len(t)}
<1>1. s \in [1..Len(s) -> V] /\ t \in [1..Len(t) -> V]
  BY DEF List
<1> HIDE DEF V
<1>2. s \in Seq(V) /\ t \in Seq(V)
  BY <1>1 DEF List
<1> DEFINE r == [i \in 1..(Len(s) + Len(t)) |-> IF i <= Len(s) THEN s[i] ELSE t[i - Len(s)]]
<1>3. s \o t \in Seq(V) /\ Len(s \o t) = Len(s) + Len(t)
        /\ \A i \in 1..(Len(s) + Len(t)) : (s \o t)[i] = r[i]
  BY <1>2
<1>4. s \o t = [i \in 1..(Len(s) + Len(t)) |-> (s \o t)[i]]
  <2> DEFINE u == s \o t
  <2> HIDE DEF u
  <2>1. u \in Seq(V) /\ Len(u) = Len(s) + Len(t)
    BY <1>3 DEF u
  <2>2. u = [i \in 1..Len(u) |-> u[i]]
    BY <2>1
  <2> QED BY <2>1, <2>2 DEF u
<1> QED BY <1>3, <1>4

\* A function on 1..n is a list of n entries.
LEMMA ListOf ==
  ASSUME NEW n \in Nat, NEW F(_)
  PROVE  List([i \in 1..n |-> F(i)]) /\ Len([i \in 1..n |-> F(i)]) = n
BY DEF List

\* The tree over two lists that the left of which is the left subtree of.
LEMMA TreeOfTwo ==
  ASSUME NEW s, NEW t, NEW key, NEW flags, List(s), List(t), Len(s) > 0, Len(t) > 0,
         LeftNodes[Len(s) + Len(t)] = Len(s)
  PROVE  Over(s \o t, key, flags)[Len(s) + Len(t)][0]
           = Parent(Over(s, key, flags)[Len(s)][0], Over(t, key, flags)[Len(t)][0], key, flags)
<1> DEFINE a == Len(s)
           b == Len(t)
           lst == [c \in Nat |-> (s \o t)[c + 1]]
           ls == [c \in Nat |-> s[c + 1]]
           lt == [c \in Nat |-> t[c + 1]]
<1>1. a \in Nat /\ b \in Nat /\ a > 0 /\ b > 0 /\ a + b \in Nat /\ a + b > 1
  BY DEF List
<1>2. \A i \in 0..(a - 1) : lst[0 + i] = ls[0 + i]
  BY <1>1, Joined
<1>3. \A i \in 0..(b - 1) : lst[a + i] = lt[0 + i]
  <2> TAKE i \in 0..(b - 1)
  <2>1. a + i + 1 \in 1..(a + b) /\ ~(a + i + 1 <= a) /\ (a + i + 1) - a = i + 1
    BY <1>1
  <2>2. (s \o t)[a + i + 1] = t[i + 1]
    BY <2>1, Joined
  <2> QED BY <1>1, <2>2
<1>4. Subtree(lst, key, flags)[a + b][0]
        = Parent(Subtree(lst, key, flags)[a][0], Subtree(lst, key, flags)[b][a], key, flags)
  <2> HIDE DEF lst
  <2>1. (a + b) - a = b /\ 0 + a = a /\ ~(a + b <= 1)
    BY <1>1
  <2> QED BY <1>1, <2>1, SubtreeIs
<1> HIDE DEF lst, ls, lt
<1> HIDE DEF a, b
<1>5. Subtree(lst, key, flags)[a][0] = Subtree(ls, key, flags)[a][0]
  <2>1. Agree(lst, 0, ls, 0, a) /\ 0 \in Nat /\ a \in Nat /\ a > 0
    BY <1>1, <1>2 DEF Agree
  <2> QED BY ONLY <2>1, SameLeaves
<1>6. Subtree(lst, key, flags)[b][a] = Subtree(lt, key, flags)[b][0]
  <2>1. Agree(lst, a, lt, 0, b) /\ 0 \in Nat /\ a \in Nat /\ b \in Nat /\ b > 0
    BY <1>1, <1>3 DEF Agree
  <2> QED BY ONLY <2>1, SameLeaves
<1> QED BY <1>4, <1>5, <1>6 DEF Over, lst, ls, lt, a, b

\* A list is a sequence of something.
LEMMA ListSeq ==
  ASSUME NEW s, List(s)
  PROVE  \E V : s \in Seq(V)
<1> DEFINE V == {s[i] : i \in 1..Len(s)}
<1>1. s \in [1..Len(s) -> V]
  BY DEF List
<1> HIDE DEF V
<1>2. s \in Seq(V)
  BY <1>1 DEF List
<1> QED BY <1>2

\* A sequence is a list.
LEMMA SeqList ==
  ASSUME NEW V, NEW s \in Seq(V)
  PROVE  List(s)
BY DEF List

\* f is the function of the trees over s.
Trees(f, s, key, flags) ==
  /\ \A lo \in Nat : f[1][lo] = s[lo + 1]
  /\ \A n, lo \in Nat : n > 1 =>
       f[n][lo] = Parent(f[LeftNodes[n]][lo], f[n - LeftNodes[n]][lo + LeftNodes[n]],
                         key, flags)

\* The tree over the values of a list obeys the definition of a tree.
LEMMA OverIs ==
  ASSUME NEW s, NEW key, NEW flags
  PROVE  Trees(Over(s, key, flags), s, key, flags)
<1> DEFINE l == [c \in Nat |-> s[c + 1]]
<1> HIDE DEF l
<1>1. \A lo \in Nat : Subtree(l, key, flags)[1][lo] = l[lo]
  BY SubtreeIs
<1>2. \A n, lo \in Nat : n > 1 =>
              Subtree(l, key, flags)[n][lo] =
                Parent(Subtree(l, key, flags)[LeftNodes[n]][lo],
                       Subtree(l, key, flags)[n - LeftNodes[n]][lo + LeftNodes[n]], key, flags)
  BY SubtreeIs
<1> QED BY <1>1, <1>2 DEF Over, l, Trees

-----------------------------------------------------------------------------
(* A whole input that is hashed in one lane.                               *)

HashDef(p, g, b) ==
  IF b = 0 THEN p.key
  ELSE Compress(g[b - 1], p.blocks[b], BLOCK_LEN, p.counter,
                p.flags \cup (IF b = 1 THEN p.start ELSE {})
                        \cup (IF b = Len(p.blocks) THEN p.end ELSE {}))
HashR == INSTANCE Recursion WITH Dom <- Numbers, Size <- Itself, Def <- HashDef

\* cv has the chaining values of the blocks.
HashSteps(cv, blocks, key, counter, flags, start, end) ==
  \A b \in Nat :
    cv[b] = IF b = 0 THEN key
            ELSE Compress(cv[b - 1], blocks[b], BLOCK_LEN, counter,
                          flags \cup (IF b = 1 THEN start ELSE {})
                                \cup (IF b = Len(blocks) THEN end ELSE {}))

\* hash_one compresses the blocks one after the other.
LEMMA HashOneIs ==
  ASSUME NEW blocks, NEW key, NEW counter, NEW flags, NEW start, NEW end
  PROVE  \E cv : /\ HashOne(blocks, key, counter, flags, start, end) = cv[Len(blocks)]
                 /\ HashSteps(cv, blocks, key, counter, flags, start, end)
<1> DEFINE p == [blocks |-> blocks, key |-> key, counter |-> counter, flags |-> flags,
                 start |-> start, end |-> end]
           Step(g, b) == IF b = 0 THEN key
                         ELSE Compress(g[b - 1], blocks[b], BLOCK_LEN, counter,
                                       flags \cup (IF b = 1 THEN start ELSE {})
                                             \cup (IF b = Len(blocks) THEN end ELSE {}))
           cv == CHOOSE g : g = [b \in Nat |-> Step(g, b)]
<1>1. HashR!WellFormed(p)
  BY DEF HashR!WellFormed, Numbers, Itself, HashDef
<1>2. \E g : g = [b \in Nat |-> HashDef(p, g, b)]
  BY <1>1, HashR!RecursiveFunction DEF Numbers
<1>3. HashOne(blocks, key, counter, flags, start, end) = cv[Len(blocks)]
  BY DEF HashOne
<1>4. /\ p.blocks = blocks /\ p.key = key /\ p.counter = counter /\ p.flags = flags
      /\ p.start = start /\ p.end = end
  OBVIOUS
<1> HIDE DEF p
<1>5. ASSUME NEW g, NEW b PROVE HashDef(p, g, b) = Step(g, b)
  BY <1>4, Zenon DEF HashDef
<1> HIDE DEF Step
<1>6. \E g : g = [b \in Nat |-> Step(g, b)]
  BY <1>2, <1>5
<1>7. cv = [b \in Nat |-> Step(cv, b)]
  BY <1>6
<1> HIDE DEF cv
<1>8. HashSteps(cv, blocks, key, counter, flags, start, end)
  BY <1>7 DEF HashSteps, Step
<1> QED BY <1>3, <1>8

\* A pair of chaining values is hashed as one block, without start and end.
LEMMA HashPair ==
  ASSUME NEW l, NEW r, NEW key, NEW flags
  PROVE  HashOne(<< <<l, r>> >>, key, 0, flags \cup {"PARENT"}, {}, {}) = Parent(l, r, key, flags)
<1> DEFINE blocks == << <<l, r>> >>
           f == flags \cup {"PARENT"}
           e == {}
           one == 1
<1>1. Len(blocks) = 1 /\ blocks[1] = <<l, r>>
  OBVIOUS
<1>a. Parent(l, r, key, flags) = Compress(key, <<l, r>>, BLOCK_LEN, 0, f)
  BY DEF Parent, ChainingValue, ParentOutput, MakeOutput
<1>b. f \cup e \cup e = f /\ one - 1 = 0 /\ one \in Nat /\ one # 0
  OBVIOUS
<1> HIDE DEF blocks, f, e
<1>2. PICK cv : /\ HashOne(blocks, key, 0, f, e, e) = cv[Len(blocks)]
                /\ HashSteps(cv, blocks, key, 0, f, e, e)
  BY HashOneIs
<1>3. cv[0] = key
  BY <1>2 DEF HashSteps
<1> HIDE DEF one
<1>4. cv[one] = Compress(cv[one - 1], blocks[one], BLOCK_LEN, 0,
                                      f \cup (IF one = 1 THEN e ELSE {})
                                            \cup (IF one = Len(blocks) THEN e ELSE {}))
  BY <1>2, <1>b DEF HashSteps
<1>5. one = 1
  BY DEF one
<1>6. HashOne(blocks, key, 0, f, e, e) = Compress(key, <<l, r>>, BLOCK_LEN, 0, f)
  BY <1>1, <1>2, <1>3, <1>4, <1>5, <1>b
<1> QED BY <1>6, <1>a DEF blocks, f, e

-----------------------------------------------------------------------------
(* Pairs are compressed.                                                   *)

\* The last entry alone is the first of what is left.
LEMMA OneLeft ==
  ASSUME NEW V, NEW s \in Seq(V), NEW k \in Nat, Len(s) = k + 1
  PROVE  SubSeq(s, k + 1, Len(s))[1] = s[Len(s)]
<1> DEFINE l == k + 1
<1>1. l \in 1..Len(s) /\ Len(s) = l /\ Len(s) \in Nat
  OBVIOUS
<1> HIDE DEF l
<1>2. SubSeq(s, l, l) = [x \in 1..1 |-> s[l + x - 1]]
  BY <1>1
<1>3. l + 1 - 1 = l
  BY <1>1
<1> QED BY <1>1, <1>2, <1>3 DEF l

\* compress_parents_parallel compresses pairs and hands on a value left over.
LEMMA Pairing ==
  ASSUME NEW s, List(s), NEW key, NEW flags
  PROVE  LET t == CompressParentsParallel(s, key, flags)
             h == Len(s) \div 2
         IN /\ List(t) /\ Len(t) = (Len(s) + 1) \div 2
            /\ \A x \in 1..h : t[x] = Parent(s[2 * x - 1], s[2 * x], key, flags)
            /\ Len(s) % 2 = 1 => t[h + 1] = s[Len(s)]
<1> DEFINE n == Len(s) \div 2
           parents == [x \in 1..n |-> << <<s[2 * x - 1], s[2 * x]>> >>]
           many == HashMany(parents, key, 0, FALSE, flags \cup {"PARENT"}, {}, {})
           rest == SubSeq(s, 2 * n + 1, Len(s))
           t == CompressParentsParallel(s, key, flags)
<1>0. Len(s) \in Nat
  BY DEF List
<1>1. n \in Nat /\ (Len(s) = 2 * n \/ Len(s) = 2 * n + 1)
        /\ (Len(s) % 2 = 1 <=> Len(s) = 2 * n + 1)
  BY <1>0
<1>2. t = many \o rest
  BY DEF CompressParentsParallel
<1>3. many = [x \in 1..n |-> Parent(s[2 * x - 1], s[2 * x], key, flags)]
  <2>1. Len(parents) = n
    BY <1>1
  <2>2. many = [x \in 1..n |-> HashOne(parents[x], key, 0, flags \cup {"PARENT"}, {}, {})]
    BY <2>1 DEF HashMany
  <2> HIDE DEF many, n
  <2> QED BY <2>2, HashPair
<1> HIDE DEF many, t
<1>4. List(many) /\ Len(many) = n
  <2> HIDE DEF n
  <2> QED BY <1>0, <1>1, <1>3 DEF List
<1>5. List(rest) /\ Len(rest) = Len(s) - 2 * n /\ (Len(s) = 2 * n + 1 => rest[1] = s[Len(s)])
  <2>1. PICK V : s \in Seq(V)
    BY ListSeq
  <2> HIDE DEF n
  <2> DEFINE k == 2 * n
  <2>a. k \in Nat /\ (Len(s) = k \/ Len(s) = k + 1)
    BY <1>0, <1>1
  <2> HIDE DEF k
  <2>b. SubSeq(s, k + 1, Len(s)) \in Seq(V) /\ Len(SubSeq(s, k + 1, Len(s))) = Len(s) - k
    BY <1>0, <2>1, <2>a
  <2>c. Len(s) = k + 1 => SubSeq(s, k + 1, Len(s))[1] = s[Len(s)]
    BY <2>1, <2>a, OneLeft
  <2>2. rest \in Seq(V) /\ Len(rest) = Len(s) - 2 * n
    BY <2>b DEF k
  <2>3. Len(s) = 2 * n + 1 => rest[1] = s[Len(s)]
    BY <2>c DEF k
  <2> QED BY <2>2, <2>3, SeqList
<1> HIDE DEF rest
<1>6. t = [i \in 1..(Len(many) + Len(rest)) |->
              IF i <= Len(many) THEN many[i] ELSE rest[i - Len(many)]]
  BY <1>2, <1>4, <1>5, Joined
<1> HIDE DEF n
<1>7. List(t) /\ Len(t) = Len(s) - n
  <2> DEFINE k == Len(many) + Len(rest)
             F(i) == IF i <= Len(many) THEN many[i] ELSE rest[i - Len(many)]
  <2>1. k = Len(s) - n /\ k \in Nat
    BY <1>0, <1>1, <1>4, <1>5
  <2>2. t = [i \in 1..k |-> F(i)]
    BY <1>6
  <2> HIDE DEF k, F
  <2>3. List(t) /\ Len(t) = k
    BY <2>1, <2>2 DEF List
  <2> QED BY <2>1, <2>3
<1>8. Len(s) - n = (Len(s) + 1) \div 2
  BY <1>0, <1>1
<1>9. \A x \in 1..n : t[x] = Parent(s[2 * x - 1], s[2 * x], key, flags)
  BY <1>0, <1>1, <1>3, <1>4, <1>5, <1>6
<1>10. Len(s) % 2 = 1 => t[n + 1] = s[Len(s)]
  BY <1>0, <1>1, <1>4, <1>5, <1>6
<1> QED BY <1>7, <1>8, <1>9, <1>10 DEF n, t

\* The tree over the pairs is the tree.
LEMMA PairTree ==
  ASSUME NEW s, List(s), NEW key, NEW flags, NEW m \in Nat, NEW a \in Nat,
         m > 0, 2 * a + m <= Len(s), m % 2 = 0 \/ 2 * a + m = Len(s)
  PROVE  Over(CompressParentsParallel(s, key, flags), key, flags)[(m + 1) \div 2][a]
           = Over(s, key, flags)[m][2 * a]
<1> DEFINE t == CompressParentsParallel(s, key, flags)
           f == Over(t, key, flags)
           g == Over(s, key, flags)
           S == {x \in Nat : \A y \in Nat :
                   x > 0 /\ 2 * y + x <= Len(s) /\ (x % 2 = 0 \/ 2 * y + x = Len(s))
                     => f[(x + 1) \div 2][y] = g[x][2 * y]}
<1>0. Len(s) \in Nat
  BY DEF List
<1>1. /\ \A x \in 1..(Len(s) \div 2) : t[x] = Parent(s[2 * x - 1], s[2 * x], key, flags)
      /\ Len(s) % 2 = 1 => t[(Len(s) \div 2) + 1] = s[Len(s)]
  BY Pairing
<1> HIDE DEF t
<1>a. Trees(f, t, key, flags) /\ Trees(g, s, key, flags)
  BY OverIs
<1> HIDE DEF f, g
<1>2. /\ \A lo \in Nat : f[1][lo] = t[lo + 1]
      /\ \A n, lo \in Nat : n > 1 =>
           f[n][lo] = Parent(f[LeftNodes[n]][lo], f[n - LeftNodes[n]][lo + LeftNodes[n]],
                             key, flags)
  BY <1>a DEF Trees
<1>3. /\ \A lo \in Nat : g[1][lo] = s[lo + 1]
      /\ \A n, lo \in Nat : n > 1 =>
           g[n][lo] = Parent(g[LeftNodes[n]][lo], g[n - LeftNodes[n]][lo + LeftNodes[n]],
                             key, flags)
  BY <1>a DEF Trees
<1>4. ASSUME NEW n \in Nat, \A k \in Nat : k < n => k \in S
      PROVE  n \in S
  <2> SUFFICES ASSUME NEW y \in Nat, n > 0, 2 * y + n <= Len(s),
                      n % 2 = 0 \/ 2 * y + n = Len(s)
               PROVE  f[(n + 1) \div 2][y] = g[n][2 * y]
    OBVIOUS
  <2>1. CASE n = 1
    <3>1. Len(s) = 2 * y + 1 /\ Len(s) % 2 = 1 /\ Len(s) \div 2 = y /\ (n + 1) \div 2 = 1
            /\ 2 * y \in Nat
      BY <2>1
    <3>2. f[1][y] = s[2 * y + 1]
      BY <1>1, <1>2, <3>1
    <3>3. g[1][2 * y] = s[2 * y + 1]
      BY <1>3, <3>1
    <3> QED BY <2>1, <3>1, <3>2, <3>3
  <2>2. CASE n = 2
    <3> DEFINE x == y + 1
               z == 2 * y
    <3>1. x \in 1..(Len(s) \div 2) /\ 2 * x - 1 = z + 1 /\ 2 * x = z + 2 /\ (n + 1) \div 2 = 1
            /\ z \in Nat /\ z + 1 \in Nat /\ (z + 1) + 1 = z + 2
      BY <1>0, <2>2
    <3>2. f[1][y] = t[x]
      BY <1>2
    <3> HIDE DEF x, z
    <3>3. f[1][y] = Parent(s[z + 1], s[z + 2], key, flags)
      BY <1>1, <3>1, <3>2
    <3>4. LeftNodes[2] = 1 /\ 2 - 1 = 1
      BY LeftIs
    <3>5. g[2][z] = Parent(g[1][z], g[1][z + 1], key, flags)
      <4> DEFINE two == 2
      <4>1. two \in Nat /\ two > 1
        OBVIOUS
      <4> HIDE DEF two
      <4>2. g[two][z] = Parent(g[LeftNodes[two]][z],
                               g[two - LeftNodes[two]][z + LeftNodes[two]], key, flags)
        BY <1>3, <3>1, <4>1
      <4> QED BY <3>4, <4>2 DEF two
    <3>6. g[1][z] = s[z + 1] /\ g[1][z + 1] = s[z + 2]
      BY <1>3, <3>1
    <3> QED BY <2>2, <3>1, <3>3, <3>5, <3>6 DEF z
  <2>3. CASE n > 2
    <3> DEFINE h == (n + 1) \div 2
               j == LeftNodes[h]
               k == LeftNodes[n]
    <3>1. h \in Nat /\ h > 1 /\ (n = 2 * h \/ n = 2 * h - 1) /\ (n % 2 = 0 <=> n = 2 * h)
      BY <2>3
    <3>2. k = 2 * j
      BY <2>3, LeftIs
    <3> HIDE DEF h
    <3>3. j \in Nat /\ j > 0 /\ j < h
      BY <3>1, Parts
    <3> HIDE DEF j, k
    <3> DEFINE r == n - k
               z == 2 * y
               v == y + j
    <3>4. /\ k \in Nat /\ k > 0 /\ k < n /\ k % 2 = 0 /\ (k + 1) \div 2 = j
          /\ z + k <= Len(s)
          /\ r \in Nat /\ r > 0 /\ r < n /\ (r + 1) \div 2 = h - j
          /\ (r % 2 = 0 \/ 2 * v + r = Len(s)) /\ 2 * v + r <= Len(s) /\ v \in Nat
          /\ z \in Nat /\ 2 * v = z + k
      <4>1. k \in Nat /\ k > 0 /\ k < n /\ k % 2 = 0 /\ (k + 1) \div 2 = j
        BY <3>1, <3>2, <3>3
      <4>2. z \in Nat /\ v \in Nat /\ 2 * v = z + k /\ z + k <= Len(s)
        BY <1>0, <3>1, <3>2, <3>3
      <4>3. r \in Nat /\ r > 0 /\ r < n /\ 2 * v + r <= Len(s)
        BY <1>0, <4>1, <4>2
      <4>4. (r + 1) \div 2 = h - j
        <5>1. r = 2 * (h - j) \/ r = 2 * (h - j) - 1
          BY <3>1, <3>2, <3>3
        <5>2. h - j \in Nat /\ h - j > 0
          BY <3>1, <3>3
        <5> HIDE DEF r
        <5> QED BY <5>1, <5>2
      <4>5. r % 2 = 0 \/ 2 * v + r = Len(s)
        <5>1. CASE n = 2 * h
          <6>1. r = 2 * (h - j) /\ h - j \in Nat
            BY <3>1, <3>2, <3>3, <5>1
          <6> HIDE DEF r
          <6> QED BY <6>1
        <5>2. CASE n # 2 * h
          <6>1. z + n = Len(s)
            BY <3>1, <5>2
          <6> QED BY <4>1, <4>2, <6>1
        <5> QED BY <5>1, <5>2
      <4> QED BY <4>1, <4>2, <4>3, <4>4, <4>5
    <3> HIDE DEF r, v, z
    <3>5. k \in S /\ r \in S
      <4> HIDE DEF S
      <4> QED BY <1>4, <3>4
    <3>6. f[j][y] = g[k][z]
      <4>1. f[(k + 1) \div 2][y] = g[k][2 * y]
        BY <3>4, <3>5 DEF z
      <4> QED BY <3>4, <4>1 DEF z
    <3>7. f[h - j][v] = g[r][z + k]
      <4>1. f[(r + 1) \div 2][v] = g[r][2 * v]
        BY <3>4, <3>5
      <4> QED BY <3>4, <4>1
    <3>8. f[h][y] = Parent(f[j][y], f[h - j][v], key, flags)
      BY <1>2, <3>1 DEF j, v
    <3>9. g[n][z] = Parent(g[k][z], g[r][z + k], key, flags)
      <4>1. n > 1
        BY <2>3
      <4> QED BY <1>3, <3>4, <4>1 DEF k, r
    <3> QED BY <3>6, <3>7, <3>8, <3>9 DEF h, z
  <2> QED BY <2>1, <2>2, <2>3
<1> HIDE DEF S
<1>5. S = Nat
  BY <1>4, Induct DEF S
<1> QED BY <1>5 DEF S, f, g, t

\* Once: the tree over all of them.
LEMMA PairOver ==
  ASSUME NEW s, List(s), NEW key, NEW flags, Len(s) > 0
  PROVE  LET t == CompressParentsParallel(s, key, flags)
         IN Over(t, key, flags)[Len(t)][0] = Over(s, key, flags)[Len(s)][0]
<1> DEFINE t == CompressParentsParallel(s, key, flags)
<1>1. Len(s) \in Nat /\ 2 * 0 = 0 /\ 0 + Len(s) = Len(s)
  BY DEF List
<1>2. Len(t) = (Len(s) + 1) \div 2
  BY Pairing
<1>3. Over(t, key, flags)[(Len(s) + 1) \div 2][0] = Over(s, key, flags)[Len(s)][2 * 0]
  BY <1>1, PairTree
<1> QED BY <1>1, <1>2, <1>3

-----------------------------------------------------------------------------
(* Pieces of a message.                                                    *)

\* A message of any length under a key.
Stream(msg) == msg.byte \in [Nat -> Int]

Piece(msg, at, n) == [b \in 1..n |-> msg.byte[at + b]]

\* The first len bytes of it.
Prefix(msg, len) ==
  [key |-> msg.key, flags |-> msg.flags, len |-> len, byte |-> Piece(msg, 0, len)]

\* A piece is a sequence of its length.
LEMMA PieceType ==
  ASSUME NEW msg, Stream(msg), NEW at \in Nat, NEW n \in Nat
  PROVE  /\ Piece(msg, at, n) \in Seq(Int) /\ Len(Piece(msg, at, n)) = n
         /\ (Piece(msg, at, n) = <<>> <=> n = 0)
<1> DEFINE s == Piece(msg, at, n)
<1>1. s \in [1..n -> Int]
  BY DEF Stream, Piece
<1> HIDE DEF s
<1>2. s \in Seq(Int) /\ Len(s) = n
  BY <1>1
<1>3. s = <<>> <=> n = 0
  BY <1>2
<1> QED BY <1>2, <1>3 DEF s

Cut(s, i, j) == SubSeq(s, i + 1, j)

\* The entries of a part of a sequence.
LEMMA PartOf ==
  ASSUME NEW V, NEW s \in Seq(V), NEW i \in Nat, NEW j \in Nat, i <= j, j <= Len(s)
  PROVE  \A b \in 1..(j - i) : SubSeq(s, i + 1, j)[b] = s[i + b]
<1> DEFINE l == i + 1
<1>1. l \in Nat /\ l > 0 /\ j - l + 1 = j - i /\ \A b \in 1..(j - i) : l + b - 1 = i + b
  OBVIOUS
<1> HIDE DEF l
<1>2. SubSeq(s, l, j) = [x \in 1..(j - l + 1) |-> s[l + x - 1]]
  BY <1>1
<1>3. SubSeq(s, l, j) = [x \in 1..(j - i) |-> s[l + x - 1]]
  BY ONLY <1>1, <1>2
<1> QED BY <1>1, <1>3 DEF l

\* A part of a piece is a piece.
LEMMA PieceOfPiece ==
  ASSUME NEW msg, Stream(msg), NEW at \in Nat, NEW n \in Nat,
         NEW i \in Nat, NEW j \in Nat, i <= j, j <= n
  PROVE  Cut(Piece(msg, at, n), i, j) = Piece(msg, at + i, j - i)
<1> DEFINE s == Piece(msg, at, n)
           u == SubSeq(s, i + 1, j)
           v == Piece(msg, at + i, j - i)
<1>0. /\ at + i \in Nat /\ j - i \in Nat
      /\ \A b \in 1..n : s[b] = msg.byte[at + b]
      /\ \A b \in 1..(j - i) : v[b] = msg.byte[(at + i) + b]
  BY DEF Piece
<1>1. s \in Seq(Int) /\ Len(s) = n
  BY PieceType
<1>2. v \in Seq(Int) /\ Len(v) = j - i
  BY <1>0, PieceType
<1> HIDE DEF s, v
<1>3. u \in Seq(Int) /\ Len(u) = j - i
  BY <1>1
<1>4. ASSUME NEW b \in 1..(j - i) PROVE u[b] = v[b]
  <2>0. i + b \in 1..n /\ j <= Len(s)
    BY <1>1
  <2>1. u[b] = s[i + b] /\ i + b \in 1..n
    BY <1>1, <2>0, PartOf
  <2>2. at + (i + b) = (at + i) + b
    OBVIOUS
  <2>3. s[i + b] = msg.byte[at + (i + b)]
    BY <1>0, <2>1
  <2>4. v[b] = msg.byte[(at + i) + b]
    BY <1>0
  <2> QED BY <2>1, <2>2, <2>3, <2>4
<1> HIDE DEF u
<1>5. u = v
  BY <1>2, <1>3, <1>4
<1> QED BY <1>5 DEF u, v, s, Cut

-----------------------------------------------------------------------------
(* The chunk.                                                              *)

ChainDef(p, g, b) ==
  IF b = 0 THEN p[1].key
  ELSE Compress(g[b - 1], ChunkBlock(p[1], p[2], b - 1), BLOCK_LEN, p[2],
                BlockFlags(p[1], b - 1))
ChainR == INSTANCE Recursion WITH Dom <- Numbers, Size <- Itself, Def <- ChainDef

\* ChunkChain obeys its definition.
LEMMA ChunkChainIs ==
  ASSUME NEW tree, NEW c
  PROVE  \A b \in Nat : ChunkChain(tree, c)[b] =
           IF b = 0 THEN tree.key
           ELSE Compress(ChunkChain(tree, c)[b - 1], ChunkBlock(tree, c, b - 1), BLOCK_LEN, c,
                         BlockFlags(tree, b - 1))
<1> DEFINE p == <<tree, c>>
           f == ChunkChain(tree, c)
<1>1. ChainR!WellFormed(p)
  BY DEF ChainR!WellFormed, Numbers, Itself, ChainDef
<1>2. \E g : g = [b \in Nat |-> ChainDef(p, g, b)]
  BY <1>1, ChainR!RecursiveFunction DEF Numbers
<1>3. \E g : g = [b \in Nat |-> IF b = 0 THEN tree.key
        ELSE Compress(g[b - 1], ChunkBlock(tree, c, b - 1), BLOCK_LEN, c,
                      BlockFlags(tree, b - 1))]
  BY <1>2 DEF ChainDef
<1>4. f = [b \in Nat |-> IF b = 0 THEN tree.key
        ELSE Compress(f[b - 1], ChunkBlock(tree, c, b - 1), BLOCK_LEN, c,
                      BlockFlags(tree, b - 1))]
  BY <1>3 DEF ChunkChain
<1> HIDE DEF f
<1> QED BY <1>4 DEF f

BlocksDef(p, g, k) ==
  IF k = 0 THEN p[1]
  ELSE CompressBlock(g[k - 1], SubSeq(p[2], (k - 1) * BLOCK_LEN + 1, k * BLOCK_LEN))
BlocksR == INSTANCE Recursion WITH Dom <- Numbers, Size <- Itself, Def <- BlocksDef

\* The loop of chunk_state_update over whole blocks, block by block.
LEMMA CompressBlocksIs ==
  ASSUME NEW s, NEW data
  PROVE  \A k \in Nat : CompressBlocks(s, data)[k] =
           IF k = 0 THEN s
           ELSE CompressBlock(CompressBlocks(s, data)[k - 1],
                              SubSeq(data, (k - 1) * BLOCK_LEN + 1, k * BLOCK_LEN))
<1> DEFINE p == <<s, data>>
           f == CompressBlocks(s, data)
<1>1. BlocksR!WellFormed(p)
  BY DEF BlocksR!WellFormed, Numbers, Itself, BlocksDef
<1>2. \E g : g = [k \in Nat |-> BlocksDef(p, g, k)]
  BY <1>1, BlocksR!RecursiveFunction DEF Numbers
<1>3. \E g : g = [k \in Nat |-> IF k = 0 THEN s
        ELSE CompressBlock(g[k - 1], SubSeq(data, (k - 1) * BLOCK_LEN + 1, k * BLOCK_LEN))]
  BY <1>2 DEF BlocksDef
<1>4. f = [k \in Nat |-> IF k = 0 THEN s
        ELSE CompressBlock(f[k - 1], SubSeq(data, (k - 1) * BLOCK_LEN + 1, k * BLOCK_LEN))]
  BY <1>3 DEF CompressBlocks
<1> HIDE DEF f
<1> QED BY <1>4 DEF f

\* Quotient and remainder.
LEMMA DivMod ==
  ASSUME NEW d \in Nat \ {0}, NEW a \in Nat
  PROVE  a \div d \in Nat /\ a % d \in 0..(d - 1) /\ a = (a \div d) * d + (a % d)
OBVIOUS

\* Quotient and remainder are the only ones.
LEMMA DivUnique ==
  ASSUME NEW d \in Nat \ {0}, NEW q \in Nat, NEW r \in 0..(d - 1), NEW a, a = q * d + r
  PROVE  a \div d = q /\ a % d = r
<1> DEFINE e == a \div d
           x == q * d
           y == e * d
           r2 == a % d
<1>1. a \in Nat /\ x \in Nat
  OBVIOUS
<1>2. e \in Nat /\ r2 \in 0..(d - 1) /\ a = e * d + r2
  BY <1>1, DivMod
<1> HIDE DEF e, r2
<1>3. y \in Nat /\ a = y + r2 /\ a = x + r
  BY <1>2
<1>4. Divides(d, x) /\ Divides(d, y)
  BY <1>2 DEF Divides
<1> HIDE DEF x, y
<1>5. ~(x < y) /\ ~(y < x)
  <2>1. x < y => x + d <= y
    BY <1>1, <1>3, <1>4, DividesLess
  <2>2. y < x => y + d <= x
    BY <1>1, <1>3, <1>4, DividesLess
  <2> QED BY <1>1, <1>2, <1>3, <2>1, <2>2
<1>6. x = y /\ r2 = r
  BY <1>1, <1>2, <1>3, <1>5
<1>7. e = q
  <2> SUFFICES ASSUME e # q PROVE FALSE
    OBVIOUS
  <2>1. e < q \/ q < e
    BY <1>2
  <2>2. CASE e < q
    <3>1. PICK z \in Nat : q = e + 1 + z
      <4>1. q - e - 1 \in Nat /\ q = e + 1 + (q - e - 1)
        BY <1>2, <2>2
      <4> QED BY <4>1
    <3>2. q * d = e * d + d + z * d /\ z * d >= 0
      BY <1>2, <3>1
    <3> QED BY <1>1, <1>3, <1>6, <3>2 DEF x, y
  <2>3. CASE q < e
    <3>1. PICK z \in Nat : e = q + 1 + z
      <4>1. e - q - 1 \in Nat /\ e = q + 1 + (e - q - 1)
        BY <1>2, <2>3
      <4> QED BY <4>1
    <3>2. e * d = q * d + d + z * d /\ z * d >= 0
      BY <1>2, <3>1
    <3> QED BY <1>1, <1>3, <1>6, <3>2 DEF x, y
  <2> QED BY <2>1, <2>2, <2>3
<1> QED BY <1>6, <1>7 DEF e, r2

\* The number of blocks of a chunk.
LEMMA Lengths ==
  /\ BLOCK_LEN \in Nat /\ BLOCK_LEN > 0 /\ CHUNK_LEN \in Nat /\ CHUNK_LEN > 0
  /\ CHUNK_LEN \div BLOCK_LEN \in Nat
  /\ CHUNK_LEN = (CHUNK_LEN \div BLOCK_LEN) * BLOCK_LEN
  /\ CHUNK_LEN \div BLOCK_LEN > 0
<1> DEFINE d == CHUNK_LEN \div BLOCK_LEN
<1>1. BLOCK_LEN \in Nat /\ BLOCK_LEN > 0 /\ CHUNK_LEN \in Nat /\ CHUNK_LEN > 0
        /\ CHUNK_LEN % BLOCK_LEN = 0
  BY LengthsAssumption
<1>2. d \in Nat /\ CHUNK_LEN = d * BLOCK_LEN + (CHUNK_LEN % BLOCK_LEN)
  <2>1. BLOCK_LEN \in Nat \ {0}
    BY <1>1
  <2> QED BY <1>1, <2>1, DivMod
<1> HIDE DEF d
<1>3. CHUNK_LEN = d * BLOCK_LEN
  BY <1>1, <1>2
<1>4. d # 0
  BY <1>1, <1>3
<1> QED BY <1>1, <1>2, <1>3, <1>4 DEF d

\* The chaining values of chunk n while all its blocks are full.
Chain(msg, n) == ChunkChain(Prefix(msg, (n + 1) * CHUNK_LEN), n)

\* The flags of block j.
Flags(msg, j) == msg.flags \cup (IF j = 0 THEN {"CHUNK_START"} ELSE {})

\* Where block j of chunk n starts.
At(n, j) == n * CHUNK_LEN + j * BLOCK_LEN

\* Where the blocks of a chunk start.
LEMMA AtType ==
  ASSUME NEW n \in Nat, NEW j \in Nat
  PROVE  At(n, j) \in Nat /\ At(n, j + 1) = At(n, j) + BLOCK_LEN /\ At(n, 0) = n * CHUNK_LEN
<1> DEFINE a == n * CHUNK_LEN
           b == j * BLOCK_LEN
<1>1. a \in Nat /\ b \in Nat /\ (j + 1) * BLOCK_LEN = b + BLOCK_LEN /\ 0 * BLOCK_LEN = 0
  BY Lengths
<1> HIDE DEF a, b
<1>2. BLOCK_LEN \in Nat
  BY Lengths
<1> QED BY <1>1, <1>2 DEF At, a, b

\* Block b of chunk n of a prefix that has all of it.
LEMMA FullBlock ==
  ASSUME NEW msg, Stream(msg), NEW n \in Nat, NEW j \in Nat, NEW len \in Nat,
         n * CHUNK_LEN <= len,
         (j + 1) * BLOCK_LEN <= ChunkSize(Prefix(msg, len), n)
  PROVE  ChunkBlock(Prefix(msg, len), n, j) = Piece(msg, At(n, j), BLOCK_LEN)
<1> DEFINE a == n * CHUNK_LEN
           b == j * BLOCK_LEN
           size == ChunkSize(Prefix(msg, len), n)
<1>1. /\ a \in Nat /\ b \in Nat /\ (j + 1) * BLOCK_LEN = b + BLOCK_LEN
      /\ BLOCK_LEN \in Nat /\ CHUNK_LEN \in Nat
  BY Lengths
<1>2. At(n, j) = a + b
  BY DEF At
<1>3. size = IF len - a < CHUNK_LEN THEN len - a ELSE CHUNK_LEN
  BY DEF ChunkSize, Prefix
<1>4. ChunkBlock(Prefix(msg, len), n, j) =
        [x \in 1..BLOCK_LEN |-> IF b + x <= size
                                THEN Piece(msg, 0, len)[a + b + x] ELSE 0]
  BY DEF ChunkBlock, Prefix
<1> HIDE DEF a, b, size
<1>5. ASSUME NEW x \in 1..BLOCK_LEN
      PROVE  b + x <= size /\ Piece(msg, 0, len)[a + b + x] = msg.byte[(a + b) + x]
  <2> DEFINE y == a + b + x
  <2>1. b + x <= size /\ y \in 1..len /\ 0 + y = (a + b) + x /\ y = a + b + x
    BY <1>1, <1>3 DEF a, b, size
  <2> HIDE DEF y
  <2>2. Piece(msg, 0, len)[y] = msg.byte[0 + y]
    BY <2>1 DEF Piece
  <2> QED BY <2>1, <2>2
<1> QED BY <1>2, <1>4, <1>5 DEF Piece

\* The chaining values of the full blocks of chunk n.
LEMMA ChainIs ==
  ASSUME NEW msg, Stream(msg), NEW n \in Nat
  PROVE  /\ Chain(msg, n)[0] = msg.key
         /\ \A j \in Nat : (j + 1) * BLOCK_LEN <= CHUNK_LEN =>
              Chain(msg, n)[j + 1] = Compress(Chain(msg, n)[j], Piece(msg, At(n, j), BLOCK_LEN),
                                              BLOCK_LEN, n, Flags(msg, j))
<1> DEFINE len == (n + 1) * CHUNK_LEN
           a == n * CHUNK_LEN
           tree == Prefix(msg, len)
<1>1. len \in Nat /\ a \in Nat /\ len = a + CHUNK_LEN
  BY Lengths
<1>2. ChunkSize(tree, n) = CHUNK_LEN
  <2>1. ChunkSize(tree, n) = IF len - a < CHUNK_LEN THEN len - a ELSE CHUNK_LEN
    BY DEF ChunkSize, Prefix
  <2> HIDE DEF len, a, tree
  <2>2. CHUNK_LEN \in Nat
    BY Lengths
  <2> QED BY <1>1, <2>1, <2>2
<1>3. n * CHUNK_LEN <= len
  <2> HIDE DEF len
  <2>1. CHUNK_LEN \in Nat
    BY Lengths
  <2> QED BY <1>1, <2>1
<1>4. Chain(msg, n) = ChunkChain(tree, n) /\ tree.key = msg.key /\ tree.flags = msg.flags
  BY DEF Chain, Prefix
<1> HIDE DEF len
<1>5. Chain(msg, n)[0] = msg.key
  <2> HIDE DEF tree
  <2> QED BY <1>4, ChunkChainIs
<1>6. ASSUME NEW j \in Nat, (j + 1) * BLOCK_LEN <= CHUNK_LEN
      PROVE  Chain(msg, n)[j + 1] = Compress(Chain(msg, n)[j], Piece(msg, At(n, j), BLOCK_LEN),
                                              BLOCK_LEN, n, Flags(msg, j))
  <2>1. ChunkBlock(tree, n, j) = Piece(msg, At(n, j), BLOCK_LEN)
    BY <1>1, <1>2, <1>3, <1>6, FullBlock
  <2> HIDE DEF tree
  <2> DEFINE k == j + 1
  <2>2. k \in Nat /\ k # 0 /\ k - 1 = j
    OBVIOUS
  <2> HIDE DEF k
  <2>3. ChunkChain(tree, n)[k] = Compress(ChunkChain(tree, n)[j], ChunkBlock(tree, n, j),
                                          BLOCK_LEN, n, BlockFlags(tree, j))
    BY <2>2, ChunkChainIs
  <2>4. BlockFlags(tree, j) = Flags(msg, j)
    BY <1>4 DEF BlockFlags, Flags
  <2> QED BY <1>4, <2>1, <2>3, <2>4 DEF k
<1> QED BY <1>5, <1>6

\* Chunk n when j blocks of it are compressed and l more bytes are there.
State(msg, n, j, l) ==
  [cv |-> Chain(msg, n)[j], chunk_counter |-> n,
   buf |-> [b \in 1..BLOCK_LEN |-> IF b <= l THEN msg.byte[At(n, j) + b] ELSE 0],
   buf_len |-> l, blocks_compressed |-> j, flags |-> msg.flags]

\* fill_buf adds what fits to the bytes that are in the buffer.
LEMMA FillState ==
  ASSUME NEW msg, Stream(msg), NEW n \in Nat, NEW j \in Nat, NEW l \in Nat, l <= BLOCK_LEN,
         NEW t \in Nat
  PROVE  FillBuf(State(msg, n, j, l), Piece(msg, At(n, j) + l, t))
           = State(msg, n, j, l + Least(BLOCK_LEN - l, t))
<1> DEFINE s == State(msg, n, j, l)
           a == At(n, j)
           input == Piece(msg, a + l, t)
           take == Least(BLOCK_LEN - l, t)
<1>1. BLOCK_LEN \in Nat /\ a \in Nat
  BY Lengths, AtType
<1>2. take \in Nat /\ take <= t /\ l + take <= BLOCK_LEN
  BY <1>1 DEF Least
<1>3. Len(input) = t
  BY <1>1, PieceType
<1>4. s.buf_len = l /\ s.buf = [b \in 1..BLOCK_LEN |-> IF b <= l THEN msg.byte[a + b] ELSE 0]
  BY DEF State
<1>5. FillBuf(s, input) =
        [s EXCEPT
        !.buf = [b \in 1..BLOCK_LEN |->
                   IF b > l /\ b <= l + take
                   THEN input[b - l] ELSE s.buf[b]],
        !.buf_len = l + take]
  BY <1>3, <1>4 DEF FillBuf
<1> HIDE DEF take
<1>6. [b \in 1..BLOCK_LEN |-> IF b > l /\ b <= l + take THEN input[b - l] ELSE s.buf[b]]
        = [b \in 1..BLOCK_LEN |-> IF b <= l + take THEN msg.byte[a + b] ELSE 0]
  <2>1. ASSUME NEW b \in 1..BLOCK_LEN
        PROVE  (IF b > l /\ b <= l + take THEN input[b - l] ELSE s.buf[b])
                 = IF b <= l + take THEN msg.byte[a + b] ELSE 0
    <3>1. CASE b > l /\ b <= l + take
      <4> DEFINE c == b - l
      <4>1. c \in 1..t /\ (a + l) + c = a + b
        BY <1>1, <1>2, <3>1
      <4> HIDE DEF c
      <4>2. input[c] = msg.byte[(a + l) + c]
        BY <4>1 DEF Piece
      <4> QED BY <3>1, <4>1, <4>2 DEF c
    <3>2. CASE b <= l
      <4> HIDE DEF s, input
      <4> QED BY <1>1, <1>2, <1>4, <3>2
    <3>3. CASE b > l + take
      <4> HIDE DEF s, input
      <4> QED BY <1>1, <1>2, <1>4, <3>3
    <3> QED BY <1>1, <1>2, <3>1, <3>2, <3>3
  <2> HIDE DEF s, input
  <2> QED BY <2>1
<1>7. FillBuf(s, input) =
        [s EXCEPT
        !.buf = [b \in 1..BLOCK_LEN |-> IF b <= l + take THEN msg.byte[a + b] ELSE 0],
        !.buf_len = l + take]
  BY <1>5, <1>6
<1> HIDE DEF input
<1>8. FillBuf(s, input) = State(msg, n, j, l + take)
  BY <1>7 DEF State
<1> QED BY <1>8 DEF take, input

\* The next block from the input.
LEMMA NextBlock ==
  ASSUME NEW msg, Stream(msg), NEW n \in Nat, NEW j \in Nat, (j + 1) * BLOCK_LEN <= CHUNK_LEN
  PROVE  CompressBlock(State(msg, n, j, 0), Piece(msg, At(n, j), BLOCK_LEN))
           = State(msg, n, j + 1, 0)
<1> DEFINE s == State(msg, n, j, 0)
           block == Piece(msg, At(n, j), BLOCK_LEN)
<1>1. Chain(msg, n)[j + 1] = Compress(Chain(msg, n)[j], block, BLOCK_LEN, n, Flags(msg, j))
  BY ChainIs
<1> HIDE DEF block
<1>2. CompressBlock(s, block) = [s EXCEPT !.cv = Chain(msg, n)[j + 1], !.blocks_compressed = j + 1]
  BY <1>1 DEF CompressBlock, State, StartFlag, Flags
<1>3. \A i \in Nat : [b \in 1..BLOCK_LEN |-> IF b <= 0 THEN msg.byte[At(n, i) + b] ELSE 0]
                       = [b \in 1..BLOCK_LEN |-> 0]
  BY Lengths
<1>4. CompressBlock(s, block) = State(msg, n, j + 1, 0)
  <2> DEFINE cv == Chain(msg, n)[j + 1]
             z == [b \in 1..BLOCK_LEN |-> 0]
             k == j + 1
  <2>1. k \in Nat
    OBVIOUS
  <2> HIDE DEF cv, z, k
  <2>2. s = [cv |-> Chain(msg, n)[j], chunk_counter |-> n, buf |-> z,
             buf_len |-> 0, blocks_compressed |-> j, flags |-> msg.flags]
    BY <1>3 DEF State, z
  <2>3. State(msg, n, k, 0) = [cv |-> Chain(msg, n)[k], chunk_counter |-> n, buf |-> z,
             buf_len |-> 0, blocks_compressed |-> k, flags |-> msg.flags]
    BY <1>3, <2>1 DEF State, z
  <2>4. CompressBlock(s, block) = [s EXCEPT !.cv = cv, !.blocks_compressed = k]
    BY <1>2 DEF cv, k
  <2>5. cv = Chain(msg, n)[k]
    BY DEF cv, k
  <2> HIDE DEF s
  <2>6. CompressBlock(s, block) = State(msg, n, k, 0)
    BY <2>2, <2>3, <2>4, <2>5
  <2> QED BY <2>6 DEF k
<1> QED BY <1>4 DEF block

\* The buffer, when it is full.
LEMMA FullBuffer ==
  ASSUME NEW msg, Stream(msg), NEW n \in Nat, NEW j \in Nat, (j + 1) * BLOCK_LEN <= CHUNK_LEN
  PROVE  LET s == State(msg, n, j, BLOCK_LEN)
         IN [CompressBlock(s, s.buf) EXCEPT !.buf_len = 0, !.buf = Zeros]
              = State(msg, n, j + 1, 0)
<1> DEFINE s == State(msg, n, j, BLOCK_LEN)
           block == Piece(msg, At(n, j), BLOCK_LEN)
<1>0. BLOCK_LEN \in Nat
  BY Lengths
<1>1. Chain(msg, n)[j + 1] = Compress(Chain(msg, n)[j], block, BLOCK_LEN, n, Flags(msg, j))
  BY ChainIs
<1>2. s.buf = block
  BY <1>0 DEF State, Piece
<1> HIDE DEF block
<1>3. CompressBlock(s, block) = [s EXCEPT !.cv = Chain(msg, n)[j + 1], !.blocks_compressed = j + 1]
  BY <1>1 DEF CompressBlock, State, StartFlag, Flags
<1>4. [b \in 1..BLOCK_LEN |-> IF b <= 0 THEN msg.byte[At(n, j + 1) + b] ELSE 0] = Zeros
  BY Lengths DEF Zeros
<1>5. State(msg, n, j + 1, 0) =
        [cv |-> Chain(msg, n)[j + 1], chunk_counter |-> n, buf |-> Zeros,
         buf_len |-> 0, blocks_compressed |-> j + 1, flags |-> msg.flags]
  BY <1>4 DEF State
<1>6. s = [cv |-> Chain(msg, n)[j], chunk_counter |-> n, buf |-> s.buf,
             buf_len |-> BLOCK_LEN, blocks_compressed |-> j, flags |-> msg.flags]
  BY DEF State
<1> HIDE DEF s
<1>7. [CompressBlock(s, block) EXCEPT !.buf_len = 0, !.buf = Zeros]
        = [cv |-> Chain(msg, n)[j + 1], chunk_counter |-> n, buf |-> Zeros,
           buf_len |-> 0, blocks_compressed |-> j + 1, flags |-> msg.flags]
  <2> DEFINE cv == Chain(msg, n)[j + 1]
             k == j + 1
             z == Zeros
             cv0 == Chain(msg, n)[j]
             bf == s.buf
  <2>1. CompressBlock(s, block) = [s EXCEPT !.cv = cv, !.blocks_compressed = k]
    BY <1>3
  <2>2. s = [cv |-> cv0, chunk_counter |-> n, buf |-> bf,
             buf_len |-> BLOCK_LEN, blocks_compressed |-> j, flags |-> msg.flags]
    BY <1>6
  <2> HIDE DEF cv, k, z, cv0, bf
  <2>3. [CompressBlock(s, block) EXCEPT !.buf_len = 0, !.buf = z]
        = [cv |-> cv, chunk_counter |-> n, buf |-> z,
           buf_len |-> 0, blocks_compressed |-> k, flags |-> msg.flags]
    <3> DEFINE u == CompressBlock(s, block)
    <3>1. u = [s EXCEPT !.cv = cv, !.blocks_compressed = k]
      BY <2>1
    <3> HIDE DEF u
    <3>2. u = [cv |-> cv, chunk_counter |-> n, buf |-> bf,
               buf_len |-> BLOCK_LEN, blocks_compressed |-> k, flags |-> msg.flags]
      BY <2>2, <3>1
    <3>3. [u EXCEPT !.buf_len = 0, !.buf = z]
        = [cv |-> cv, chunk_counter |-> n, buf |-> z,
           buf_len |-> 0, blocks_compressed |-> k, flags |-> msg.flags]
      <4> DEFINE v == [u EXCEPT !.buf_len = 0]
      <4>1. [u EXCEPT !.buf_len = 0, !.buf = z] = [v EXCEPT !.buf = z]
        OBVIOUS
      <4>2. v = [cv |-> cv, chunk_counter |-> n, buf |-> bf,
                 buf_len |-> 0, blocks_compressed |-> k, flags |-> msg.flags]
        BY <3>2
      <4> HIDE DEF v
      <4>3. [v EXCEPT !.buf = z] = [cv |-> cv, chunk_counter |-> n, buf |-> z,
                 buf_len |-> 0, blocks_compressed |-> k, flags |-> msg.flags]
        BY <4>2
      <4> QED BY <4>1, <4>3
    <3> QED BY <3>3 DEF u
  <2> QED BY <2>3 DEF cv, k, z
<1> QED BY <1>2, <1>5, <1>7 DEF s

\* How many blocks of a chunk of k bytes are compressed: all but the last one.
Last(k) == IF k = 0 THEN 0 ELSE (k - 1) \div BLOCK_LEN

\* Chunk n with k bytes.
CS(msg, n, k) == State(msg, n, Last(k), k - Last(k) * BLOCK_LEN)

\* The bytes in the buffer of a chunk that is begun are 1 to BLOCK_LEN.
LEMMA LastBounds ==
  ASSUME NEW k \in Nat, k > 0
  PROVE  /\ Last(k) \in Nat /\ Last(k) * BLOCK_LEN \in Nat
         /\ Last(k) * BLOCK_LEN < k /\ k <= Last(k) * BLOCK_LEN + BLOCK_LEN
         /\ (Last(k) + 1) * BLOCK_LEN = Last(k) * BLOCK_LEN + BLOCK_LEN
<1> DEFINE q == Last(k)
           r == (k - 1) % BLOCK_LEN
           x == q * BLOCK_LEN
<1>1. BLOCK_LEN \in Nat \ {0} /\ k - 1 \in Nat
  BY Lengths
<1>2. q \in Nat /\ r \in 0..(BLOCK_LEN - 1) /\ k - 1 = x + r
  <2>1. q = (k - 1) \div BLOCK_LEN
    BY DEF Last
  <2> HIDE DEF q
  <2> QED BY <1>1, <2>1, DivMod
<1> HIDE DEF q, r
<1>3. x \in Nat /\ (q + 1) * BLOCK_LEN = x + BLOCK_LEN
  BY <1>1, <1>2
<1> HIDE DEF x
<1>4. x < k /\ k <= x + BLOCK_LEN
  BY <1>1, <1>2, <1>3
<1> QED BY <1>2, <1>3, <1>4 DEF q, x

\* The state of a chunk is given by the number of its bytes.
LEMMA StateIsCS ==
  ASSUME NEW msg, NEW n, NEW j \in Nat, NEW l \in Nat, l > 0, l <= BLOCK_LEN
  PROVE  State(msg, n, j, l) = CS(msg, n, j * BLOCK_LEN + l)
<1> DEFINE x == j * BLOCK_LEN
           k == x + l
<1>1. BLOCK_LEN \in Nat \ {0} /\ x \in Nat
  BY Lengths
<1>2. k \in Nat /\ k # 0 /\ k - 1 = x + (l - 1) /\ l - 1 \in 0..(BLOCK_LEN - 1) /\ k - x = l
  <2> HIDE DEF x
  <2> QED BY <1>1
<1> HIDE DEF k
<1>3. (k - 1) \div BLOCK_LEN = j
  BY <1>1, <1>2, DivUnique
<1> QED BY <1>2, <1>3 DEF CS, Last, k

\* A chunk of no bytes has no blocks.
LEMMA NoBytes ==
  ASSUME NEW msg, NEW n
  PROVE  CS(msg, n, 0) = State(msg, n, 0, 0)
<1>1. Last(0) = 0 /\ 0 - 0 * BLOCK_LEN = 0
  BY Lengths DEF Last
<1> QED BY <1>1 DEF CS

\* Blocks of the input are compressed one after another.
LEMMA BlocksCompressed ==
  ASSUME NEW msg, Stream(msg), NEW n \in Nat, NEW j \in Nat, NEW t \in Nat,
         j * BLOCK_LEN + t <= CHUNK_LEN, NEW w \in Nat, w * BLOCK_LEN <= t
  PROVE  CompressBlocks(State(msg, n, j, 0), Piece(msg, At(n, j), t))[w]
           = State(msg, n, j + w, 0)
<1> DEFINE data == Piece(msg, At(n, j), t)
           f == CompressBlocks(State(msg, n, j, 0), data)
           S == {k \in Nat : k * BLOCK_LEN <= t => f[k] = State(msg, n, j + k, 0)}
<1>0. BLOCK_LEN \in Nat \ {0} /\ CHUNK_LEN \in Nat /\ At(n, j) \in Nat
  BY Lengths, AtType
<1>1. \A k \in Nat : f[k] =
        IF k = 0 THEN State(msg, n, j, 0)
        ELSE CompressBlock(f[k - 1], SubSeq(data, (k - 1) * BLOCK_LEN + 1, k * BLOCK_LEN))
  BY CompressBlocksIs
<1> HIDE DEF f, data
<1>2. ASSUME NEW k \in Nat, \A m \in Nat : m < k => m \in S
      PROVE  k \in S
  <2> SUFFICES ASSUME k * BLOCK_LEN <= t PROVE f[k] = State(msg, n, j + k, 0)
    OBVIOUS
  <2>1. CASE k = 0
    <3>1. j + 0 = j
      OBVIOUS
    <3> QED BY <1>1, <2>1, <3>1
  <2>2. CASE k # 0
    <3> DEFINE i == k - 1
               x == i * BLOCK_LEN
               y == j * BLOCK_LEN
               v == j + i
    <3>1. /\ i \in Nat /\ i < k /\ i + 1 = k /\ v \in Nat /\ v + 1 = j + k
      BY <2>2
    <3>2. x \in Nat /\ y \in Nat /\ k * BLOCK_LEN = x + BLOCK_LEN
            /\ v * BLOCK_LEN = y + x /\ (v + 1) * BLOCK_LEN = y + x + BLOCK_LEN
      BY <1>0, <2>2
    <3>3. y + t <= CHUNK_LEN /\ x + BLOCK_LEN <= t
      BY <3>2
    <3>4. At(n, v) = At(n, j) + x
      <4> DEFINE a == n * CHUNK_LEN
      <4>1. a \in Nat
        BY <1>0
      <4> HIDE DEF v, x, y, a
      <4>2. At(n, v) = a + (y + x) /\ At(n, j) = a + y
        BY <3>2 DEF At, a, y
      <4> QED BY <3>2, <4>1, <4>2
    <3>a. f[k] = CompressBlock(f[i], SubSeq(data, x + 1, k * BLOCK_LEN))
      BY <1>1, <2>2
    <3>b. k * BLOCK_LEN = x + BLOCK_LEN
      BY <3>2
    <3> HIDE DEF x, y, i, v
    <3>5. f[i] = State(msg, n, v, 0)
      <4>1. i \in S
        BY <1>2, <3>1
      <4>2. i * BLOCK_LEN <= t
        <5>1. i * BLOCK_LEN = x
          BY DEF x
        <5> QED BY <1>0, <3>2, <3>3, <5>1
      <4> QED BY <4>1, <4>2 DEF v
    <3>6. SubSeq(data, x + 1, x + BLOCK_LEN) = Piece(msg, At(n, v), BLOCK_LEN)
      <4> DEFINE z == x + BLOCK_LEN
      <4>1. z \in Nat /\ x <= z /\ z <= t /\ z - x = BLOCK_LEN
        BY <1>0, <3>2, <3>3
      <4> HIDE DEF z
      <4>2. Cut(Piece(msg, At(n, j), t), x, z) = Piece(msg, At(n, j) + x, z - x)
        BY <1>0, <3>2, <4>1, PieceOfPiece
      <4> QED BY <3>4, <4>1, <4>2 DEF z, data, Cut
    <3>7. (v + 1) * BLOCK_LEN <= CHUNK_LEN
      BY <1>0, <3>2, <3>3
    <3>8. CompressBlock(f[i], SubSeq(data, x + 1, x + BLOCK_LEN)) = State(msg, n, v + 1, 0)
      <4>1. CompressBlock(State(msg, n, v, 0), Piece(msg, At(n, v), BLOCK_LEN))
              = State(msg, n, v + 1, 0)
        BY <3>1, <3>7, NextBlock
      <4> QED BY <3>5, <3>6, <4>1
    <3> QED BY <3>1, <3>8, <3>a, <3>b
  <2> QED BY <2>1, <2>2
<1> HIDE DEF S
<1>3. S = Nat
  BY <1>2, Induct DEF S
<1> QED BY <1>3 DEF S, f, data

\* All but the last one.
LEMMA RestOfInput ==
  ASSUME NEW msg, Stream(msg), NEW n \in Nat, NEW j \in Nat, NEW t \in Nat, t > 0,
         j * BLOCK_LEN + t <= CHUNK_LEN
  PROVE  LET data == Piece(msg, At(n, j), t)
         IN FillBuf(CompressBlocks(State(msg, n, j, 0), data)[Last(t)],
                    SubSeq(data, Last(t) * BLOCK_LEN + 1, t))
              = CS(msg, n, j * BLOCK_LEN + t)
<1> DEFINE data == Piece(msg, At(n, j), t)
           w == Last(t)
           x == w * BLOCK_LEN
           y == j * BLOCK_LEN
           v == j + w
           l == t - x
<1>0. BLOCK_LEN \in Nat \ {0} /\ CHUNK_LEN \in Nat /\ At(n, j) \in Nat
  BY Lengths, AtType
<1>1. w \in Nat /\ x \in Nat /\ x < t /\ t <= x + BLOCK_LEN
  BY LastBounds
<1> HIDE DEF w
<1>2. y \in Nat /\ v \in Nat /\ v * BLOCK_LEN = y + x
  BY <1>0, <1>1
<1>3. CompressBlocks(State(msg, n, j, 0), data)[w] = State(msg, n, v, 0)
  <2>1. w * BLOCK_LEN <= t
    <3> HIDE DEF x
    <3>1. w * BLOCK_LEN = x
      BY DEF x
    <3> QED BY <1>1, <3>1
  <2> QED BY <1>1, <2>1, BlocksCompressed
<1>4. At(n, v) = At(n, j) + x
  <2> DEFINE a == n * CHUNK_LEN
  <2>1. a \in Nat
    BY <1>0
  <2> HIDE DEF v, x, y, a
  <2>2. At(n, v) = a + (y + x) /\ At(n, j) = a + y
    BY <1>2 DEF At, a, y
  <2> QED BY <1>1, <1>2, <2>1, <2>2
<1> HIDE DEF x, y, v
<1>5. l \in Nat /\ l > 0 /\ l <= BLOCK_LEN
  BY <1>0, <1>1
<1>6. SubSeq(data, x + 1, t) = Piece(msg, At(n, v) + 0, l)
  <2>0. t <= t /\ x <= t
    BY <1>0, <1>1
  <2>1. Cut(data, x, t) = Piece(msg, At(n, j) + x, l)
    BY <1>0, <1>1, <2>0, PieceOfPiece
  <2>2. At(n, v) + 0 = At(n, j) + x
    BY <1>0, <1>1, <1>4
  <2> QED BY <2>1, <2>2 DEF Cut
<1> HIDE DEF l
<1>7. FillBuf(State(msg, n, v, 0), Piece(msg, At(n, v) + 0, l)) = State(msg, n, v, l)
  <2>1. Least(BLOCK_LEN - 0, l) = l
    BY <1>0, <1>5 DEF Least
  <2>2. 0 + l = l /\ 0 <= BLOCK_LEN
    BY <1>0, <1>5
  <2> QED BY <1>2, <1>5, <2>1, <2>2, FillState
<1>8. State(msg, n, v, l) = CS(msg, n, v * BLOCK_LEN + l)
  BY <1>2, <1>5, StateIsCS
<1>9. v * BLOCK_LEN + l = y + t
  BY <1>1, <1>2 DEF l
<1> QED BY <1>3, <1>6, <1>7, <1>8, <1>9 DEF w, x, y

\* What is added to a chunk.
LEMMA ChunkUpdate ==
  ASSUME NEW msg, Stream(msg), NEW n \in Nat, NEW k \in Nat, NEW t \in Nat, k + t <= CHUNK_LEN
  PROVE  ChunkStateUpdate(CS(msg, n, k), Piece(msg, n * CHUNK_LEN + k, t)) = CS(msg, n, k + t)
<1> DEFINE j == Last(k)
           l == k - j * BLOCK_LEN
           s == State(msg, n, j, l)
           a == n * CHUNK_LEN
           input == Piece(msg, a + k, t)
           take == Least(BLOCK_LEN - l, t)
           filled == FillBuf(s, input)
           rest == SubSeq(input, take + 1, t)
<1>0. BLOCK_LEN \in Nat \ {0} /\ CHUNK_LEN \in Nat /\ a \in Nat
  BY Lengths
<1>1. j \in Nat /\ j * BLOCK_LEN \in Nat /\ l \in Nat /\ l <= BLOCK_LEN
        /\ k = j * BLOCK_LEN + l /\ (k > 0 => l > 0)
        /\ (j + 1) * BLOCK_LEN = j * BLOCK_LEN + BLOCK_LEN
  <2>1. CASE k = 0
    <3>1. j = 0
      BY <2>1 DEF Last
    <3> QED BY <1>0, <2>1, <3>1
  <2>2. CASE k > 0
    <3>1. j \in Nat /\ j * BLOCK_LEN \in Nat /\ j * BLOCK_LEN < k
            /\ k <= j * BLOCK_LEN + BLOCK_LEN
            /\ (j + 1) * BLOCK_LEN = j * BLOCK_LEN + BLOCK_LEN
      BY <2>2, LastBounds
    <3> DEFINE x == j * BLOCK_LEN
    <3> HIDE DEF j
    <3>2. l = k - x
      OBVIOUS
    <3> HIDE DEF x
    <3> QED BY <1>0, <3>1, <3>2 DEF x
  <2> QED BY <2>1, <2>2
<1>2. CS(msg, n, k) = s
  BY DEF CS
<1> HIDE DEF j, l
<1>3. a + k = At(n, j) + l /\ At(n, j) \in Nat
  <2> DEFINE x == j * BLOCK_LEN
  <2>1. At(n, j) = a + x
    BY DEF At
  <2>2. x \in Nat /\ k = x + l
    BY <1>1
  <2> HIDE DEF x, a
  <2> QED BY <1>0, <1>1, <2>1, <2>2
<1>4. Len(input) = t /\ (input = <<>> <=> t = 0)
  <2>1. a + k \in Nat
    BY <1>0
  <2> QED BY <2>1, PieceType
<1>5. take \in Nat /\ take <= t /\ l + take <= BLOCK_LEN /\ (take = t \/ l + take = BLOCK_LEN)
  BY <1>0, <1>1 DEF Least
<1>6. filled = State(msg, n, j, l + take)
  BY <1>1, <1>3, FillState
<1> HIDE DEF take
<1>7. filled.buf_len - s.buf_len = take
  <2>1. filled.buf_len = l + take /\ s.buf_len = l
    BY <1>6 DEF State
  <2> QED BY <1>1, <1>5, <2>1
<1>8. rest = Piece(msg, a + k + take, t - take)
  <2>1. a + k \in Nat /\ t <= t
    BY <1>0
  <2> DEFINE z == a + k
  <2> HIDE DEF z
  <2>2. Cut(Piece(msg, z, t), take, t) = Piece(msg, z + take, t - take)
    BY <1>5, <2>1, PieceOfPiece DEF z
  <2> QED BY <2>2 DEF z, Cut
<1>9. rest = <<>> <=> t - take = 0
  <2> DEFINE z == a + k + take
             u == t - take
  <2>1. z \in Nat /\ u \in Nat /\ rest = Piece(msg, z, u)
    BY <1>0, <1>5, <1>8
  <2> HIDE DEF z, u, rest
  <2>2. rest = <<>> <=> u = 0
    BY <2>1, PieceType
  <2> QED BY <2>2 DEF u
<1> DEFINE pending == l > 0
           data    == IF pending THEN rest ELSE input
           start   == IF ~pending THEN s
                      ELSE IF rest = <<>> THEN filled
                      ELSE [CompressBlock(filled, filled.buf) EXCEPT
                              !.buf_len = 0, !.buf = Zeros]
           whole   == IF data = <<>> THEN 0 ELSE (Len(data) - 1) \div BLOCK_LEN
<1>10. ChunkStateUpdate(s, input) =
         FillBuf(CompressBlocks(start, data)[whole],
                 SubSeq(data, whole * BLOCK_LEN + 1, Len(data)))
  <2>1. s.buf_len = l
    BY DEF State
  <2>2. SubSeq(input, filled.buf_len - s.buf_len + 1, Len(input)) = rest
    BY <1>4, <1>7
  <2> HIDE DEF s, input, rest, filled
  <2> QED BY <2>1, <2>2 DEF ChunkStateUpdate, filled
<1>11. ASSUME data = Piece(msg, At(n, j) + l + take, 0), start = State(msg, n, j, l + take)
       PROVE  ChunkStateUpdate(s, input) = State(msg, n, j, l + take)
  <2> DEFINE b == At(n, j) + l + take
             m == l + take
  <2>1. b \in Nat /\ m \in Nat /\ m <= BLOCK_LEN /\ At(n, j) + m = b
    BY <1>1, <1>3, <1>5
  <2>2. data = Piece(msg, b, 0) /\ start = State(msg, n, j, m)
    BY <1>11
  <2> HIDE DEF b, m, data, start
  <2>3. data = <<>> /\ Len(data) = 0
    BY <2>1, <2>2, PieceType
  <2>4. whole = 0 /\ 0 * BLOCK_LEN = 0
    BY <1>0, <2>3
  <2>5. CompressBlocks(start, data)[0] = start
    BY CompressBlocksIs
  <2>6. SubSeq(data, 0 + 1, 0) = Piece(msg, b, 0)
    <3>1. Cut(Piece(msg, b, 0), 0, 0) = Piece(msg, b + 0, 0 - 0)
      BY <2>1, PieceOfPiece
    <3>2. b + 0 = b /\ 0 - 0 = 0
      BY <2>1
    <3> QED BY <2>2, <3>1, <3>2 DEF Cut
  <2>7. FillBuf(State(msg, n, j, m), Piece(msg, At(n, j) + m, 0)) = State(msg, n, j, m)
    <3>1. Least(BLOCK_LEN - m, 0) = 0 /\ m + 0 = m
      BY <1>0, <2>1 DEF Least
    <3> QED BY <1>1, <2>1, <3>1, FillState
  <2>8. ChunkStateUpdate(s, input) = FillBuf(start, SubSeq(data, 0 + 1, 0))
    <3> HIDE DEF whole, s, input
    <3> QED BY <1>10, <2>3, <2>4, <2>5
  <2> QED BY <2>1, <2>2, <2>6, <2>7, <2>8 DEF m
<1>12. CASE k = 0 /\ t = 0
  <2>1. l = 0 /\ take = 0
    BY <1>1, <1>5, <1>12
  <2>2. data = Piece(msg, At(n, j) + l + take, 0)
    <3>1. At(n, j) + l + take = a + k
      BY <1>3, <1>5, <2>1
    <3> QED BY <1>12, <2>1, <3>1
  <2>3. start = State(msg, n, j, l + take)
    BY <2>1
  <2>4. l + take = 0 /\ k + t = 0 /\ j = 0
    BY <1>1, <1>12, <2>1 DEF j, Last
  <2>5. ChunkStateUpdate(s, input) = State(msg, n, j, l + take)
    BY <1>11, <2>2, <2>3
  <2> QED BY <1>2, <2>4, <2>5, NoBytes
<1>13. CASE k = 0 /\ t > 0
  <2>1. l = 0 /\ j = 0
    BY <1>1, <1>13 DEF j, Last
  <2>2. data = Piece(msg, At(n, 0), t) /\ start = State(msg, n, 0, 0)
    <3>1. a + k = At(n, 0)
      BY <1>3, <2>1
    <3> QED BY <2>1, <3>1
  <2>3. Len(data) = t /\ data # <<>>
    BY <1>4, <1>13, <2>1
  <2>4. whole = Last(t)
    <3> HIDE DEF data
    <3>1. whole = (t - 1) \div BLOCK_LEN
      BY <2>3
    <3> QED BY <1>13, <3>1 DEF Last
  <2>5. 0 * BLOCK_LEN + t <= CHUNK_LEN /\ 0 * BLOCK_LEN + t = k + t
    BY <1>0, <1>13
  <2> HIDE DEF whole, data, start, s, input
  <2>6. ChunkStateUpdate(s, input) = CS(msg, n, k + t)
    <3>1. FillBuf(CompressBlocks(State(msg, n, 0, 0), Piece(msg, At(n, 0), t))[Last(t)],
                  SubSeq(Piece(msg, At(n, 0), t), Last(t) * BLOCK_LEN + 1, t))
            = CS(msg, n, 0 * BLOCK_LEN + t)
      BY <1>13, <2>5, RestOfInput
    <3> QED BY <1>10, <2>2, <2>3, <2>4, <2>5, <3>1
  <2> QED BY <1>2, <2>6 DEF s, input
<1>14. CASE k > 0 /\ take = t
  <2>1. rest = <<>> /\ l > 0
    BY <1>1, <1>9, <1>14
  <2>2. data = Piece(msg, At(n, j) + l + take, 0)
    <3>1. At(n, j) + l + take = a + k + take /\ t - take = 0
      BY <1>3, <1>14
    <3> HIDE DEF rest
    <3> QED BY <1>8, <2>1, <3>1
  <2>3. start = State(msg, n, j, l + take)
    <3> HIDE DEF rest, filled
    <3> QED BY <1>6, <2>1
  <2>4. l + take > 0 /\ j * BLOCK_LEN + (l + take) = k + t /\ l + take \in Nat
    <3> DEFINE x == j * BLOCK_LEN
    <3>1. x \in Nat /\ k = x + l
      BY <1>1
    <3> HIDE DEF x
    <3>2. x + (l + take) = k + t
      BY <1>1, <1>5, <1>14, <3>1
    <3> QED BY <1>1, <1>5, <2>1, <3>2 DEF x
  <2>5. State(msg, n, j, l + take) = CS(msg, n, j * BLOCK_LEN + (l + take))
    BY <1>1, <1>5, <2>4, StateIsCS
  <2>6. ChunkStateUpdate(s, input) = State(msg, n, j, l + take)
    BY <1>11, <2>2, <2>3
  <2> QED BY <1>2, <2>4, <2>5, <2>6
<1>15. CASE k > 0 /\ take # t
  <2> DEFINE r == t - take
             x == j * BLOCK_LEN
             i == j + 1
  <2>1. rest # <<>> /\ l > 0 /\ l + take = BLOCK_LEN /\ r \in Nat /\ r > 0
    <3>1. take # t /\ k > 0
      BY <1>15
    <3> HIDE DEF take, l, j, rest
    <3> QED BY <1>1, <1>5, <1>9, <3>1
  <2>2. x \in Nat /\ i \in Nat /\ i * BLOCK_LEN = x + BLOCK_LEN /\ k = x + l
    BY <1>1
  <2>3. At(n, i) = At(n, j) + BLOCK_LEN
    BY <1>1, AtType
  <2> HIDE DEF r, x, i
  <2>4. i * BLOCK_LEN + r = k + t /\ i * BLOCK_LEN <= CHUNK_LEN
    <3>1. x + BLOCK_LEN + r = k + t
      BY <1>0, <1>1, <1>5, <2>1, <2>2 DEF r
    <3> QED BY <1>0, <1>1, <2>1, <2>2, <3>1
  <2>5. data = Piece(msg, At(n, i), r)
    <3>1. a + k + take = At(n, i)
      BY <1>0, <1>1, <1>3, <1>5, <2>1, <2>3
    <3> HIDE DEF rest
    <3> QED BY <1>8, <2>1, <3>1 DEF r
  <2>6. start = State(msg, n, i, 0)
    <3> HIDE DEF rest
    <3>1. filled = State(msg, n, j, BLOCK_LEN)
      BY <1>6, <2>1
    <3>2. start = [CompressBlock(filled, filled.buf) EXCEPT !.buf_len = 0, !.buf = Zeros]
      BY <2>1
    <3> HIDE DEF filled, start
    <3>3. (j + 1) * BLOCK_LEN <= CHUNK_LEN
      BY <2>4 DEF i
    <3> QED BY <1>1, <3>1, <3>2, <3>3, FullBuffer DEF i
  <2> HIDE DEF data, start
  <2>7. Len(data) = r /\ data # <<>>
    <3>1. At(n, i) \in Nat
      BY <2>2, AtType
    <3> QED BY <2>1, <2>5, <3>1, PieceType
  <2>8. whole = Last(r)
    BY <2>1, <2>7 DEF Last
  <2> HIDE DEF whole, s, input
  <2>9. FillBuf(CompressBlocks(State(msg, n, i, 0), Piece(msg, At(n, i), r))[Last(r)],
                SubSeq(Piece(msg, At(n, i), r), Last(r) * BLOCK_LEN + 1, r))
          = CS(msg, n, i * BLOCK_LEN + r)
    <3>1. i * BLOCK_LEN + r <= CHUNK_LEN
      BY <2>4
    <3> QED BY <2>1, <2>2, <3>1, RestOfInput
  <2>10. ChunkStateUpdate(s, input) = CS(msg, n, k + t)
    BY <1>10, <2>4, <2>5, <2>6, <2>7, <2>8, <2>9
  <2> QED BY <1>2, <2>10 DEF s, input
<1> QED BY <1>12, <1>13, <1>14, <1>15

-----------------------------------------------------------------------------
(* A chunk of the tree is what the chunk state makes of it.                *)

\* How many bytes of a prefix are in chunk n.
LEMMA SizeIs ==
  ASSUME NEW msg, NEW n \in Nat, NEW len \in Nat, n * CHUNK_LEN <= len
  PROVE  LET size == ChunkSize(Prefix(msg, len), n)
         IN /\ size \in Nat /\ size <= CHUNK_LEN /\ n * CHUNK_LEN + size <= len
            /\ n * CHUNK_LEN + CHUNK_LEN <= len => size = CHUNK_LEN
            /\ len <= n * CHUNK_LEN + CHUNK_LEN => size = len - n * CHUNK_LEN
<1> DEFINE a == n * CHUNK_LEN
           size == ChunkSize(Prefix(msg, len), n)
<1>1. a \in Nat /\ CHUNK_LEN \in Nat /\ a <= len
  BY Lengths
<1>2. size = IF len - a < CHUNK_LEN THEN len - a ELSE CHUNK_LEN
  BY DEF ChunkSize, Prefix
<1> HIDE DEF a, size
<1> QED BY <1>1, <1>2 DEF a, size

\* The node of a chunk in the tree is the output of the chunk state.
LEMMA NodeIsOutput ==
  ASSUME NEW msg, Stream(msg), NEW n \in Nat, NEW len \in Nat, n * CHUNK_LEN <= len
  PROVE  ChunkNode(Prefix(msg, len), n)
           = ChunkStateOutput(CS(msg, n, ChunkSize(Prefix(msg, len), n)))
<1> DEFINE tree == Prefix(msg, len)
           size == ChunkSize(tree, n)
           a == n * CHUNK_LEN
           last == Last(size)
           x == last * BLOCK_LEN
           f == ChunkChain(tree, n)
           S == {b \in Nat : b * BLOCK_LEN <= x => f[b] = Chain(msg, n)[b]}
<1>0. BLOCK_LEN \in Nat \ {0} /\ CHUNK_LEN \in Nat /\ a \in Nat /\ a <= len
  BY Lengths
<1>1. size \in Nat /\ size <= CHUNK_LEN /\ a + size <= len
  BY SizeIs
<1>2. last \in Nat /\ x \in Nat /\ x <= size /\ size <= x + BLOCK_LEN /\ (size > 0 => x < size)
  <2> HIDE DEF size
  <2>1. CASE size = 0
    <3>1. last = 0
      BY <2>1 DEF Last
    <3> HIDE DEF last
    <3> QED BY <1>0, <2>1, <3>1
  <2>2. CASE size > 0
    <3> HIDE DEF last, x
    <3>1. Last(size) \in Nat /\ Last(size) * BLOCK_LEN \in Nat /\ Last(size) * BLOCK_LEN < size
            /\ size <= Last(size) * BLOCK_LEN + BLOCK_LEN
      BY <1>1, <2>2, LastBounds
    <3>2. x = Last(size) * BLOCK_LEN /\ last = Last(size)
      BY DEF x, last
    <3> QED BY <1>0, <1>1, <2>2, <3>1, <3>2
  <2> QED BY <1>1, <2>1, <2>2
<1>3. tree.key = msg.key /\ tree.flags = msg.flags
  BY DEF Prefix
<1>4. LastBlock(tree, n) = last
  BY DEF LastBlock, Last
<1>5. \A b \in Nat : f[b] = IF b = 0 THEN tree.key
           ELSE Compress(f[b - 1], ChunkBlock(tree, n, b - 1), BLOCK_LEN, n,
                         BlockFlags(tree, b - 1))
  <2> HIDE DEF tree
  <2> QED BY ChunkChainIs
<1>6. \A b \in Nat : BlockFlags(tree, b) = Flags(msg, b)
  BY <1>3 DEF BlockFlags, Flags
<1> HIDE DEF f, size, tree
<1>7. ASSUME NEW b \in Nat, \A m \in Nat : m < b => m \in S
      PROVE  b \in S
  <2> SUFFICES ASSUME b * BLOCK_LEN <= x PROVE f[b] = Chain(msg, n)[b]
    OBVIOUS
  <2>1. CASE b = 0
    BY <1>3, <1>5, <2>1, ChainIs
  <2>2. CASE b # 0
    <3> DEFINE i == b - 1
               y == i * BLOCK_LEN
    <3>1. i \in Nat /\ i < b /\ i + 1 = b
      BY <2>2
    <3>2. y \in Nat /\ (i + 1) * BLOCK_LEN = y + BLOCK_LEN /\ y + BLOCK_LEN = b * BLOCK_LEN
      BY <1>0, <2>2
    <3> HIDE DEF i, y, x
    <3>3. (i + 1) * BLOCK_LEN <= size /\ (i + 1) * BLOCK_LEN <= CHUNK_LEN
      BY <1>0, <1>1, <1>2, <3>2
    <3>4. ChunkBlock(tree, n, i) = Piece(msg, At(n, i), BLOCK_LEN)
      BY <1>0, <3>1, <3>3, FullBlock DEF tree, size, a
    <3>5. f[i] = Chain(msg, n)[i]
      <4>1. i * BLOCK_LEN <= x
        BY <1>0, <1>2, <3>2 DEF y
      <4>2. i \in S
        BY <1>7, <3>1
      <4> QED BY <4>1, <4>2
    <3>6. f[b] = Compress(f[i], ChunkBlock(tree, n, i), BLOCK_LEN, n, BlockFlags(tree, i))
      BY <1>5, <2>2 DEF i
    <3>7. Chain(msg, n)[i + 1] = Compress(Chain(msg, n)[i], Piece(msg, At(n, i), BLOCK_LEN),
                                          BLOCK_LEN, n, Flags(msg, i))
      BY <3>1, <3>3, ChainIs
    <3> QED BY <1>6, <3>1, <3>4, <3>5, <3>6, <3>7
  <2> QED BY <2>1, <2>2
<1> HIDE DEF S
<1>8. S = Nat
  BY <1>7, Induct DEF S
<1>9. f[last] = Chain(msg, n)[last]
  <2>1. last * BLOCK_LEN = x /\ x <= x
    BY <1>2
  <2> QED BY <1>2, <1>8, <2>1 DEF S
<1> DEFINE l == size - x
           st == State(msg, n, last, l)
           block == [b \in 1..BLOCK_LEN |-> IF b <= l THEN msg.byte[At(n, last) + b] ELSE 0]
<1>10. ChunkBlock(tree, n, last) = block
  <2>1. ChunkBlock(tree, n, last) =
          [b \in 1..BLOCK_LEN |-> IF x + b <= size THEN tree.byte[a + x + b] ELSE 0]
    BY DEF ChunkBlock, size
  <2>2. At(n, last) = a + x
    BY DEF At
  <2>3. tree.byte = Piece(msg, 0, len)
    BY DEF Prefix, tree
  <2> HIDE DEF x, last, a
  <2>4. ASSUME NEW b \in 1..BLOCK_LEN
        PROVE  (IF x + b <= size THEN tree.byte[a + x + b] ELSE 0)
                 = IF b <= l THEN msg.byte[At(n, last) + b] ELSE 0
    <3>1. CASE x + b <= size
      <4> DEFINE c == a + x + b
      <4>1. c \in 1..len /\ 0 + c = c /\ c = (a + x) + b
        BY <1>0, <1>1, <1>2, <3>1
      <4> HIDE DEF c
      <4>2. Piece(msg, 0, len)[c] = msg.byte[0 + c]
        BY <4>1 DEF Piece
      <4>3. b <= l
        BY <1>0, <1>1, <1>2, <3>1
      <4> HIDE DEF l
      <4> QED BY <2>2, <2>3, <3>1, <4>1, <4>2, <4>3 DEF c
    <3>2. CASE ~(x + b <= size)
      <4>1. ~(b <= l)
        BY <1>0, <1>1, <1>2, <3>2
      <4> QED BY <3>2, <4>1
    <3> QED BY <3>1, <3>2
  <2> HIDE DEF l
  <2> QED BY <2>1, <2>4
<1>11. ChunkNode(tree, n) = MakeOutput(f[last], ChunkBlock(tree, n, last), l, n,
                                       BlockFlags(tree, last) \cup {"CHUNK_END"})
  BY <1>4 DEF ChunkNode, f, size
<1>12. ChunkStateOutput(st) = MakeOutput(Chain(msg, n)[last], block, l, n,
                                         Flags(msg, last) \cup {"CHUNK_END"})
  <2> HIDE DEF last, l
  <2> QED BY DEF ChunkStateOutput, State, StartFlag, Flags
<1>13. CS(msg, n, size) = st
  BY DEF CS
<1> HIDE DEF last, st, block, l
<1>14. BlockFlags(tree, last) = Flags(msg, last)
  BY <1>2, <1>6
<1>15. ChunkNode(tree, n) = ChunkStateOutput(CS(msg, n, size))
  BY <1>9, <1>10, <1>11, <1>12, <1>13, <1>14
<1> QED BY <1>15 DEF tree, size

\* A whole chunk, in one lane.
LEMMA HashedChunk ==
  ASSUME NEW msg, Stream(msg), NEW n \in Nat
  PROVE  HashOne(Blocks(Piece(msg, n * CHUNK_LEN, CHUNK_LEN)), msg.key, n, msg.flags,
                 {"CHUNK_START"}, {"CHUNK_END"})
           = ChainingValue(ChunkStateOutput(CS(msg, n, CHUNK_LEN)))
<1> DEFINE d == CHUNK_LEN \div BLOCK_LEN
           a == n * CHUNK_LEN
           blocks == Blocks(Piece(msg, a, CHUNK_LEN))
           start == {"CHUNK_START"}
           end == {"CHUNK_END"}
<1>0. /\ BLOCK_LEN \in Nat \ {0} /\ CHUNK_LEN \in Nat /\ CHUNK_LEN > 0 /\ a \in Nat
      /\ d \in Nat /\ d > 0 /\ CHUNK_LEN = d * BLOCK_LEN
  BY Lengths
<1>1. blocks = [b \in 1..d |-> SubSeq(Piece(msg, a, CHUNK_LEN),
                                      (b - 1) * BLOCK_LEN + 1, b * BLOCK_LEN)]
  BY DEF Blocks
<1> HIDE DEF blocks, d
<1>2. Len(blocks) = d
  BY <1>0, <1>1
<1>3. \A j \in Nat : j + 1 <= d => /\ blocks[j + 1] = Piece(msg, At(n, j), BLOCK_LEN)
                                   /\ (j + 1) * BLOCK_LEN <= CHUNK_LEN
  <2> SUFFICES ASSUME NEW j \in Nat, j + 1 <= d
               PROVE  /\ blocks[j + 1] = Piece(msg, At(n, j), BLOCK_LEN)
                      /\ (j + 1) * BLOCK_LEN <= CHUNK_LEN
    OBVIOUS
  <2> DEFINE b == j + 1
             x == j * BLOCK_LEN
             y == b * BLOCK_LEN
  <2>1. b \in 1..d /\ b - 1 = j /\ x \in Nat /\ y \in Nat /\ y = x + BLOCK_LEN
    BY <1>0
  <2>2. y <= CHUNK_LEN
    <3>1. PICK z \in Nat : d = b + z
      <4>1. d - b \in Nat /\ d = b + (d - b)
        BY <1>0, <2>1
      <4> QED BY <4>1
    <3>2. d * BLOCK_LEN = b * BLOCK_LEN + z * BLOCK_LEN /\ z * BLOCK_LEN >= 0
      BY <1>0, <2>1, <3>1
    <3> DEFINE u == z * BLOCK_LEN
    <3> HIDE DEF u, y
    <3>3. CHUNK_LEN = y + u /\ u \in Nat
      BY <1>0, <3>2 DEF u, y
    <3> QED BY <1>0, <2>1, <3>3
  <2>3. At(n, j) = a + x
    BY DEF At
  <2>4. blocks[b] = SubSeq(Piece(msg, a, CHUNK_LEN), x + 1, y)
    <3> HIDE DEF b
    <3>1. (b - 1) * BLOCK_LEN = x /\ b * BLOCK_LEN = y
      BY <2>1
    <3> HIDE DEF x, y
    <3> QED BY <1>1, <2>1, <3>1
  <2> HIDE DEF x, y
  <2>5. Cut(Piece(msg, a, CHUNK_LEN), x, y) = Piece(msg, a + x, y - x)
    <3>1. x <= y
      BY <1>0, <2>1
    <3> HIDE DEF a
    <3> QED BY <1>0, <2>1, <2>2, <3>1, PieceOfPiece
  <2>6. y - x = BLOCK_LEN
    BY <1>0, <2>1
  <2>7. blocks[b] = Piece(msg, At(n, j), BLOCK_LEN)
    BY <2>3, <2>4, <2>5, <2>6 DEF Cut
  <2> QED BY <2>2, <2>7 DEF y
<1> HIDE DEF start, end, a
<1>4. PICK cv : /\ HashOne(blocks, msg.key, n, msg.flags, start, end) = cv[Len(blocks)]
                /\ HashSteps(cv, blocks, msg.key, n, msg.flags, start, end)
  BY HashOneIs
<1> DEFINE S == {j \in Nat : j < d => cv[j] = Chain(msg, n)[j]}
<1>5. ASSUME NEW j \in Nat
      PROVE  cv[j + 1] = Compress(cv[j], blocks[j + 1], BLOCK_LEN, n,
                                  msg.flags \cup (IF j = 0 THEN start ELSE {})
                                    \cup (IF j + 1 = d THEN end ELSE {}))
  <2> DEFINE b == j + 1
  <2>1. b \in Nat /\ b # 0 /\ b - 1 = j /\ (b = 1 <=> j = 0)
    OBVIOUS
  <2> HIDE DEF b
  <2>2. cv[b] = Compress(cv[b - 1], blocks[b], BLOCK_LEN, n,
                         msg.flags \cup (IF b = 1 THEN start ELSE {})
                           \cup (IF b = Len(blocks) THEN end ELSE {}))
    BY <1>4, <2>1 DEF HashSteps
  <2>3. (IF b = 1 THEN start ELSE {}) = IF j = 0 THEN start ELSE {}
    BY <2>1
  <2> QED BY <1>2, <2>1, <2>2, <2>3 DEF b
<1>6. ASSUME NEW j \in Nat, \A m \in Nat : m < j => m \in S
      PROVE  j \in S
  <2> SUFFICES ASSUME j < d PROVE cv[j] = Chain(msg, n)[j]
    OBVIOUS
  <2>1. CASE j = 0
    <3>1. cv[0] = msg.key
      BY <1>4 DEF HashSteps
    <3> QED BY <2>1, <3>1, ChainIs
  <2>2. CASE j # 0
    <3> DEFINE i == j - 1
    <3>1. i \in Nat /\ i < j /\ i + 1 = j /\ i + 1 <= d /\ i + 1 # d /\ i < d
      BY <1>0, <2>2
    <3> HIDE DEF i
    <3>2. cv[i] = Chain(msg, n)[i]
      BY <1>6, <3>1
    <3>3. cv[i + 1] = Compress(cv[i], blocks[i + 1], BLOCK_LEN, n,
                               msg.flags \cup (IF i = 0 THEN start ELSE {}) \cup {})
      BY <1>5, <3>1
    <3>4. msg.flags \cup (IF i = 0 THEN start ELSE {}) \cup {} = Flags(msg, i)
      BY DEF Flags, start
    <3>5. Chain(msg, n)[i + 1] = Compress(Chain(msg, n)[i], Piece(msg, At(n, i), BLOCK_LEN),
                                          BLOCK_LEN, n, Flags(msg, i))
      BY <1>3, <3>1, ChainIs
    <3>6. blocks[i + 1] = Piece(msg, At(n, i), BLOCK_LEN)
      BY <1>3, <3>1
    <3> QED BY <3>1, <3>2, <3>3, <3>4, <3>5, <3>6
  <2> QED BY <2>1, <2>2
<1> HIDE DEF S
<1>7. S = Nat
  BY <1>6, Induct DEF S
<1> DEFINE i == d - 1
<1>8. i \in Nat /\ i < d /\ i + 1 = d /\ i + 1 <= d
  BY <1>0
<1> HIDE DEF i
<1>9. cv[i] = Chain(msg, n)[i]
  BY <1>7, <1>8 DEF S
<1>10. cv[d] = Compress(cv[i], blocks[d], BLOCK_LEN, n,
                        msg.flags \cup (IF i = 0 THEN start ELSE {}) \cup end)
  <2>1. cv[i + 1] = Compress(cv[i], blocks[i + 1], BLOCK_LEN, n,
                             msg.flags \cup (IF i = 0 THEN start ELSE {})
                               \cup (IF i + 1 = d THEN end ELSE {}))
    BY <1>5, <1>8
  <2> QED BY <1>8, <2>1
<1>11. blocks[d] = Piece(msg, At(n, i), BLOCK_LEN)
  <2>1. blocks[i + 1] = Piece(msg, At(n, i), BLOCK_LEN)
    BY <1>3, <1>8
  <2> QED BY <1>8, <2>1
<1>12. msg.flags \cup (IF i = 0 THEN start ELSE {}) \cup end = Flags(msg, i) \cup {"CHUNK_END"}
  BY DEF Flags, start, end
<1>13. CS(msg, n, CHUNK_LEN) = State(msg, n, i, BLOCK_LEN)
  <2>1. State(msg, n, i, BLOCK_LEN) = CS(msg, n, i * BLOCK_LEN + BLOCK_LEN)
    BY <1>0, <1>8, StateIsCS
  <2>2. i * BLOCK_LEN + BLOCK_LEN = (i + 1) * BLOCK_LEN
    BY <1>0, <1>8
  <2> QED BY <1>0, <1>8, <2>1, <2>2
<1>14. ChainingValue(ChunkStateOutput(State(msg, n, i, BLOCK_LEN)))
         = Compress(Chain(msg, n)[i], Piece(msg, At(n, i), BLOCK_LEN), BLOCK_LEN, n,
                    Flags(msg, i) \cup {"CHUNK_END"})
  <2> DEFINE st == State(msg, n, i, BLOCK_LEN)
  <2>1. st.buf = Piece(msg, At(n, i), BLOCK_LEN)
    BY <1>0 DEF State, Piece
  <2>2. st.cv = Chain(msg, n)[i] /\ st.buf_len = BLOCK_LEN /\ st.chunk_counter = n
          /\ st.flags \cup StartFlag(st) = Flags(msg, i)
    BY DEF State, StartFlag, Flags
  <2> HIDE DEF st
  <2>3. ChainingValue(ChunkStateOutput(st))
          = Compress(st.cv, st.buf, st.buf_len, st.chunk_counter,
                     st.flags \cup StartFlag(st) \cup {"CHUNK_END"})
    BY DEF ChainingValue, ChunkStateOutput, MakeOutput
  <2> QED BY <2>1, <2>2, <2>3 DEF st
<1>15. HashOne(blocks, msg.key, n, msg.flags, start, end)
         = ChainingValue(ChunkStateOutput(CS(msg, n, CHUNK_LEN)))
  BY <1>2, <1>4, <1>9, <1>10, <1>11, <1>12, <1>13, <1>14
<1> QED BY <1>15 DEF blocks, start, end, a

\* A chunk state that was just initialized has no bytes.
LEMMA NewChunk ==
  ASSUME NEW msg, Stream(msg), NEW n \in Nat
  PROVE  ChunkState(msg.key, n, msg.flags) = CS(msg, n, 0)
<1>1. Chain(msg, n)[0] = msg.key
  BY ChainIs
<1>2. [b \in 1..BLOCK_LEN |-> IF b <= 0 THEN msg.byte[At(n, 0) + b] ELSE 0] = Zeros
  BY Lengths DEF Zeros
<1>3. State(msg, n, 0, 0) = ChunkState(msg.key, n, msg.flags)
  BY <1>1, <1>2 DEF State, ChunkState
<1> QED BY <1>3, NoBytes

\* The number of chunks of a length.
LEMMA ChunksIs ==
  ASSUME NEW len \in Nat, len > 0
  PROVE  LET q == len \div CHUNK_LEN
             r == len % CHUNK_LEN
         IN /\ q \in Nat /\ r \in 0..(CHUNK_LEN - 1) /\ len = q * CHUNK_LEN + r
            /\ Chunks(len) = IF r = 0 THEN q ELSE q + 1
            /\ Chunks(len) \in Nat /\ Chunks(len) > 0
<1> DEFINE q == len \div CHUNK_LEN
           r == len % CHUNK_LEN
<1>1. CHUNK_LEN \in Nat \ {0}
  BY Lengths
<1>2. q \in Nat /\ r \in 0..(CHUNK_LEN - 1) /\ len = q * CHUNK_LEN + r
  BY <1>1, DivMod
<1> HIDE DEF q, r
<1>3. Chunks(len) = ((len - 1) \div CHUNK_LEN) + 1
  BY DEF Chunks
<1>4. CASE r > 0
  <2> DEFINE x == q * CHUNK_LEN
  <2>1. x \in Nat /\ len = x + r
    BY <1>1, <1>2
  <2> HIDE DEF x
  <2>2. len - 1 = x + (r - 1) /\ r - 1 \in 0..(CHUNK_LEN - 1)
    BY <1>1, <1>2, <1>4, <2>1
  <2>3. (len - 1) \div CHUNK_LEN = q
    BY <1>1, <1>2, <2>2, DivUnique DEF x
  <2> QED BY <1>2, <1>3, <1>4, <2>3 DEF q, r
<1>5. CASE r = 0
  <2> DEFINE p == q - 1
             x == p * CHUNK_LEN
  <2>1. len = q * CHUNK_LEN /\ q # 0
    BY <1>1, <1>2, <1>5
  <2>2. p \in Nat /\ q = p + 1
    BY <1>2, <2>1
  <2> HIDE DEF p
  <2>3. x \in Nat /\ len = x + CHUNK_LEN
    BY <1>1, <2>1, <2>2
  <2> HIDE DEF x
  <2>4. len - 1 = x + (CHUNK_LEN - 1) /\ CHUNK_LEN - 1 \in 0..(CHUNK_LEN - 1)
    BY <1>1, <2>3
  <2>5. (len - 1) \div CHUNK_LEN = p
    BY <1>1, <2>2, <2>4, DivUnique DEF x
  <2> QED BY <1>2, <1>3, <1>5, <2>2, <2>5 DEF q, r
<1> QED BY <1>2, <1>4, <1>5

\* The chaining values of k chunks from n on.
Leaves(tree, n, k) == [x \in 1..k |-> ChainingValue(ChunkNode(tree, n + x - 1))]

\* A chunk that is all there.
LEMMA FullNode ==
  ASSUME NEW msg, Stream(msg), NEW n \in Nat, NEW len \in Nat, n * CHUNK_LEN + CHUNK_LEN <= len
  PROVE  ChunkNode(Prefix(msg, len), n) = ChunkStateOutput(CS(msg, n, CHUNK_LEN))
<1>1. n * CHUNK_LEN \in Nat /\ CHUNK_LEN \in Nat
  BY Lengths
<1>2. n * CHUNK_LEN <= len
  <2> DEFINE a == n * CHUNK_LEN
  <2> HIDE DEF a
  <2>1. a + CHUNK_LEN <= len /\ a \in Nat
    BY <1>1 DEF a
  <2> QED BY <1>1, <2>1 DEF a
<1>3. ChunkSize(Prefix(msg, len), n) = CHUNK_LEN
  BY <1>2, SizeIs
<1> QED BY <1>2, <1>3, NodeIsOutput

\* The chunks of an input, as many as there are lanes at once.
LEMMA ChunksAre ==
  ASSUME NEW msg, Stream(msg), NEW n \in Nat, NEW len \in Nat, len > 0
  PROVE  CompressChunksParallel(Piece(msg, n * CHUNK_LEN, len), msg.key, n, msg.flags)
           = Leaves(Prefix(msg, n * CHUNK_LEN + len), n, Chunks(len))
<1> DEFINE a == n * CHUNK_LEN
           input == Piece(msg, a, len)
           q == len \div CHUNK_LEN
           r == len % CHUNK_LEN
           y == q * CHUNK_LEN
           tree == Prefix(msg, a + len)
           part == SubSeq(input, y + 1, len)
           full == [x \in 1..q |->
                 Blocks(SubSeq(input, (x - 1) * CHUNK_LEN + 1, x * CHUNK_LEN))]
           many == HashMany(full, msg.key, n, TRUE, msg.flags, {"CHUNK_START"}, {"CHUNK_END"})
           last == IF part = <<>> THEN <<>> ELSE <<ChunkCV(part, msg.key, n + q, msg.flags)>>
           k == Chunks(len)
           v == ChainingValue(ChunkNode(tree, n + q))
<1>0. CHUNK_LEN \in Nat \ {0} /\ a \in Nat /\ Len(input) = len
  <2>1. CHUNK_LEN \in Nat \ {0} /\ a \in Nat
    BY Lengths
  <2> QED BY <2>1, PieceType
<1>1. /\ q \in Nat /\ r \in 0..(CHUNK_LEN - 1) /\ len = y + r
      /\ k = IF r = 0 THEN q ELSE q + 1
  BY ChunksIs
<1>2. CompressChunksParallel(input, msg.key, n, msg.flags) = many \o last
  <2> HIDE DEF input
  <2> QED BY <1>0 DEF CompressChunksParallel
<1> HIDE DEF q, r, k
<1>3. y \in Nat /\ y <= len /\ len - y = r
  <2>1. y \in Nat
    BY <1>0, <1>1
  <2> HIDE DEF y
  <2> QED BY <1>0, <1>1, <2>1
<1>4. \A x \in 1..q : ChainingValue(ChunkNode(tree, n + x - 1))
        = HashOne(full[x], msg.key, n + x - 1, msg.flags, {"CHUNK_START"}, {"CHUNK_END"})
  <2> TAKE x \in 1..q
  <2> DEFINE i == n + x - 1
             j == x - 1
             b == j * CHUNK_LEN
             c == x * CHUNK_LEN
  <2>1. i \in Nat /\ j \in Nat /\ x = j + 1 /\ i = n + j
    BY <1>1
  <2>2. b \in Nat /\ c \in Nat /\ c = b + CHUNK_LEN /\ i * CHUNK_LEN = a + b /\ c <= y
    <3>1. b \in Nat /\ c = b + CHUNK_LEN /\ c \in Nat
      BY <1>0, <2>1
    <3>2. i * CHUNK_LEN = a + b
      <4>1. (n + j) * CHUNK_LEN = n * CHUNK_LEN + j * CHUNK_LEN
        BY <1>0, <2>1
      <4> QED BY <2>1, <4>1
    <3>3. c <= y
      <4>1. PICK z \in Nat : q = x + z
        <5>1. q - x \in Nat /\ q = x + (q - x)
          BY <1>1
        <5> QED BY <5>1
      <4>2. q * CHUNK_LEN = x * CHUNK_LEN + z * CHUNK_LEN /\ z * CHUNK_LEN \in Nat
        BY <1>0, <2>1, <4>1
      <4> DEFINE u == z * CHUNK_LEN
      <4>3. y = c + u /\ u \in Nat
        BY <4>2
      <4> HIDE DEF u, c, y
      <4> QED BY <1>3, <3>1, <4>3
    <3> QED BY <3>1, <3>2, <3>3
  <2>3. full[x] = Blocks(Cut(input, b, c))
    BY DEF Cut
  <2> HIDE DEF b, c, y
  <2>4. Cut(input, b, c) = Piece(msg, i * CHUNK_LEN, CHUNK_LEN)
    <3>1. c - b = CHUNK_LEN /\ b <= c /\ c <= len
      BY <1>0, <1>3, <2>2
    <3> HIDE DEF a
    <3>2. Cut(input, b, c) = Piece(msg, a + b, c - b)
      BY <1>0, <2>2, <3>1, PieceOfPiece
    <3> QED BY <2>2, <3>1, <3>2
  <2>5. ChunkNode(tree, i) = ChunkStateOutput(CS(msg, i, CHUNK_LEN))
    <3>1. i * CHUNK_LEN + CHUNK_LEN <= a + len /\ a + len \in Nat
      <4> HIDE DEF a, i
      <4> QED BY <1>0, <1>3, <2>2
    <3> HIDE DEF a, i
    <3> QED BY <2>1, <3>1, FullNode
  <2> HIDE DEF tree, full, i
  <2> QED BY <2>1, <2>3, <2>4, <2>5, HashedChunk DEF i
<1>5. many = [x \in 1..q |-> ChainingValue(ChunkNode(tree, n + x - 1))]
  <2>1. Len(full) = q
    <3> HIDE DEF input
    <3> QED BY <1>1
  <2> HIDE DEF full, tree
  <2>2. many = [x \in 1..q |-> HashOne(full[x], msg.key, n + x - 1, msg.flags,
                                      {"CHUNK_START"}, {"CHUNK_END"})]
    BY <2>1 DEF HashMany
  <2> QED BY <1>4, <2>2
<1>6. part = Piece(msg, a + y, r)
  <2> HIDE DEF a, y
  <2>1. Cut(input, y, len) = Piece(msg, a + y, len - y)
    <3>1. len <= len
      OBVIOUS
    <3> QED BY <1>0, <1>3, <3>1, PieceOfPiece
  <2> QED BY <1>3, <2>1 DEF Cut
<1>7. part = <<>> <=> r = 0
  <2>1. a + y \in Nat /\ r \in Nat
    BY <1>0, <1>1, <1>3
  <2> HIDE DEF part
  <2> QED BY <1>6, <2>1, PieceType
<1>8. r # 0 => ChunkCV(part, msg.key, n + q, msg.flags) = v
  <2> SUFFICES ASSUME r # 0 PROVE ChunkCV(part, msg.key, n + q, msg.flags) = v
    OBVIOUS
  <2> DEFINE i == n + q
  <2>1. i \in Nat /\ i * CHUNK_LEN = a + y
    <3>1. (n + q) * CHUNK_LEN = n * CHUNK_LEN + q * CHUNK_LEN
      BY <1>0, <1>1
    <3> QED BY <1>1, <3>1
  <2> HIDE DEF i
  <2>2. ChunkStateUpdate(CS(msg, i, 0), part) = CS(msg, i, r)
    <3>1. 0 + r <= CHUNK_LEN /\ 0 + r = r /\ r \in Nat /\ i * CHUNK_LEN + 0 = a + y
      BY <1>0, <1>1, <1>3, <2>1
    <3>2. ChunkStateUpdate(CS(msg, i, 0), Piece(msg, i * CHUNK_LEN + 0, r)) = CS(msg, i, 0 + r)
      BY <2>1, <3>1, ChunkUpdate
    <3> HIDE DEF part
    <3> QED BY <1>6, <3>1, <3>2
  <2>3. ChunkCV(part, msg.key, i, msg.flags) = ChainingValue(ChunkStateOutput(CS(msg, i, r)))
    <3> HIDE DEF part
    <3> QED BY <2>1, <2>2, NewChunk DEF ChunkCV
  <2>4. ChunkNode(tree, i) = ChunkStateOutput(CS(msg, i, r))
    <3> DEFINE len2 == a + len
    <3>1. len2 \in Nat /\ i * CHUNK_LEN <= len2 /\ len2 <= i * CHUNK_LEN + CHUNK_LEN
            /\ len2 - i * CHUNK_LEN = r
      <4> HIDE DEF a, y
      <4> QED BY <1>0, <1>1, <1>3, <2>1
    <3> HIDE DEF len2
    <3>2. ChunkSize(Prefix(msg, len2), i) = r
      BY <2>1, <3>1, SizeIs
    <3>3. ChunkNode(Prefix(msg, len2), i) = ChunkStateOutput(CS(msg, i, r))
      BY <2>1, <3>1, <3>2, NodeIsOutput
    <3> QED BY <3>3 DEF len2
  <2> QED BY <2>3, <2>4 DEF i
<1> HIDE DEF many, part, v, tree, input, a, y
<1>9. List(many) /\ Len(many) = q
  BY <1>1, <1>5 DEF List
<1>10. List(last) /\ Len(last) = (IF r = 0 THEN 0 ELSE 1) /\ (r # 0 => last[1] = v)
  <2>1. CASE r = 0
    <3>1. last = <<>>
      BY <1>7, <2>1
    <3> HIDE DEF last
    <3>2. <<>> = [i \in 1..0 |-> <<>>[i]]
      OBVIOUS
    <3> QED BY <2>1, <3>1, <3>2 DEF List
  <2>2. CASE r # 0
    <3>1. last = <<v>>
      BY <1>7, <1>8, <2>2
    <3> HIDE DEF last
    <3>2. Len(last) = 1 /\ last[1] = v /\ last = [i \in 1..1 |-> last[i]]
      BY <3>1
    <3> QED BY <2>2, <3>2 DEF List
  <2> QED BY <2>1, <2>2
<1> HIDE DEF last
<1>11. many \o last = [x \in 1..(Len(many) + Len(last)) |->
                         IF x <= Len(many) THEN many[x] ELSE last[x - Len(many)]]
  BY <1>9, <1>10, Joined
<1>12. Len(many) + Len(last) = k
  BY <1>1, <1>9, <1>10
<1>13. ASSUME NEW x \in 1..k
       PROVE  (IF x <= q THEN many[x] ELSE last[x - q])
                = ChainingValue(ChunkNode(tree, n + x - 1))
  <2>1. CASE x <= q
    <3>1. x \in 1..q
      BY <1>1, <2>1
    <3> QED BY <1>5, <2>1, <3>1
  <2>2. CASE ~(x <= q)
    <3>1. x - q = 1 /\ r # 0 /\ n + x - 1 = n + q
      BY <1>1, <2>2
    <3> QED BY <1>10, <2>2, <3>1 DEF v
  <2> QED BY <2>1, <2>2
<1>14. many \o last = [x \in 1..k |-> ChainingValue(ChunkNode(tree, n + x - 1))]
  BY <1>9, <1>11, <1>12, <1>13
<1> QED BY <1>2, <1>14 DEF Leaves, k, tree, input, a

-----------------------------------------------------------------------------
(* Trees of chunks.                                                        *)

\* The tree over the values of k chunks is the subtree of these chunks.
LEMMA OverLeaves ==
  ASSUME NEW tree, NEW n \in Nat, NEW k \in Nat, k > 0
  PROVE  Over(Leaves(tree, n, k), tree.key, tree.flags)[k][0] = TreeCV(tree)[k][n]
<1> DEFINE la == [c \in Nat |-> Leaves(tree, n, k)[c + 1]]
           lb == [c \in Nat |-> ChainingValue(ChunkNode(tree, c))]
<1>1. \A i \in 0..(k - 1) : la[0 + i] = lb[n + i]
  <2> TAKE i \in 0..(k - 1)
  <2> DEFINE x == i + 1
  <2>1. x \in 1..k /\ n + x - 1 = n + i /\ n + i \in Nat /\ 0 + i = i /\ i \in Nat
    OBVIOUS
  <2> HIDE DEF x
  <2>2. Leaves(tree, n, k)[x] = ChainingValue(ChunkNode(tree, n + x - 1))
    BY <2>1 DEF Leaves
  <2>3. la[i] = Leaves(tree, n, k)[x]
    BY <2>1 DEF x
  <2>4. lb[n + i] = ChainingValue(ChunkNode(tree, n + i))
    BY <2>1
  <2> QED BY <2>1, <2>2, <2>3, <2>4
<1> DEFINE key == tree.key
           flags == tree.flags
<1> HIDE DEF la, lb, key, flags
<1>2. Subtree(la, key, flags)[k][0] = Subtree(lb, key, flags)[k][n]
  <2> DEFINE first == 0
  <2>1. Agree(la, first, lb, n, k) /\ first \in Nat /\ n \in Nat /\ k \in Nat /\ k > 0
    BY <1>1 DEF Agree
  <2> HIDE DEF first
  <2>2. Subtree(la, key, flags)[k][first] = Subtree(lb, key, flags)[k][n]
    BY ONLY <2>1, SameLeaves
  <2> QED BY <2>2 DEF first
<1> QED BY <1>2 DEF Over, TreeCV, la, lb, key, flags

\* The value of a subtree is that of its two halves.
LEMMA TreeCVIs ==
  ASSUME NEW tree, NEW n \in Nat, NEW lo \in Nat, n > 1
  PROVE  TreeCV(tree)[n][lo] = Parent(TreeCV(tree)[LeftNodes[n]][lo],
                                      TreeCV(tree)[n - LeftNodes[n]][lo + LeftNodes[n]],
                                      tree.key, tree.flags)
<1> DEFINE l == [c \in Nat |-> ChainingValue(ChunkNode(tree, c))]
<1> HIDE DEF l
<1>1. Subtree(l, tree.key, tree.flags)[n][lo]
        = Parent(Subtree(l, tree.key, tree.flags)[LeftNodes[n]][lo],
                 Subtree(l, tree.key, tree.flags)[n - LeftNodes[n]][lo + LeftNodes[n]],
                 tree.key, tree.flags)
  <2>1. ~(n <= 1)
    OBVIOUS
  <2> QED BY <2>1, SubtreeIs
<1> QED BY <1>1 DEF TreeCV, l

\* A subtree whose chunks are all there does not depend on what follows.
LEMMA SamePrefix ==
  ASSUME NEW msg, Stream(msg), NEW n \in Nat, NEW k \in Nat, k > 0, NEW b \in Nat, NEW c \in Nat,
         n * CHUNK_LEN + k * CHUNK_LEN <= b, n * CHUNK_LEN + k * CHUNK_LEN <= c
  PROVE  TreeCV(Prefix(msg, b))[k][n] = TreeCV(Prefix(msg, c))[k][n]
<1> DEFINE la == [i \in Nat |-> ChainingValue(ChunkNode(Prefix(msg, b), i))]
           lb == [i \in Nat |-> ChainingValue(ChunkNode(Prefix(msg, c), i))]
<1>1. \A i \in 0..(k - 1) : la[n + i] = lb[n + i]
  <2> TAKE i \in 0..(k - 1)
  <2> DEFINE m == n + i
  <2>1. m \in Nat
    OBVIOUS
  <2>2. m * CHUNK_LEN + CHUNK_LEN <= n * CHUNK_LEN + k * CHUNK_LEN
    <3>0. CHUNK_LEN \in Nat
      BY Lengths
    <3>1. PICK z \in Nat : k = i + 1 + z
      <4>1. k - (i + 1) \in Nat /\ k = i + 1 + (k - (i + 1))
        OBVIOUS
      <4> QED BY <4>1
    <3>2. n * CHUNK_LEN + k * CHUNK_LEN = (n + i) * CHUNK_LEN + CHUNK_LEN + z * CHUNK_LEN
            /\ z * CHUNK_LEN \in Nat
      BY <3>0, <3>1
    <3> DEFINE u == z * CHUNK_LEN
               w == m * CHUNK_LEN
    <3>3. n * CHUNK_LEN + k * CHUNK_LEN = w + CHUNK_LEN + u /\ u \in Nat /\ w \in Nat
      BY <2>1, <3>0, <3>2
    <3> HIDE DEF u, w
    <3>4. w + CHUNK_LEN <= n * CHUNK_LEN + k * CHUNK_LEN
      BY <3>0, <3>3
    <3> QED BY <3>4 DEF w
  <2>3. m * CHUNK_LEN + CHUNK_LEN <= b /\ m * CHUNK_LEN + CHUNK_LEN <= c
    <3> DEFINE u == m * CHUNK_LEN + CHUNK_LEN
               w == n * CHUNK_LEN + k * CHUNK_LEN
    <3>1. u \in Nat /\ w \in Nat /\ u <= w /\ w <= b /\ w <= c
      BY <2>1, <2>2, Lengths
    <3> HIDE DEF u, w
    <3>2. u <= b /\ u <= c
      BY <3>1
    <3> QED BY <3>2 DEF u
  <2> HIDE DEF m
  <2>4. ChunkNode(Prefix(msg, b), m) = ChunkNode(Prefix(msg, c), m)
    BY <2>1, <2>3, FullNode
  <2>5. la[m] = lb[m]
    BY <2>1, <2>4
  <2> QED BY <2>5 DEF m
<1> DEFINE key == msg.key
           flags == msg.flags
<1> HIDE DEF la, lb, key, flags
<1>2. Subtree(la, key, flags)[k][n] = Subtree(lb, key, flags)[k][n]
  <2>1. Agree(la, n, lb, n, k)
    BY <1>1 DEF Agree
  <2> QED BY ONLY <2>1, k \in Nat, k > 0, n \in Nat, SameLeaves
<1>3. /\ Prefix(msg, b).key = msg.key /\ Prefix(msg, b).flags = msg.flags
      /\ Prefix(msg, c).key = msg.key /\ Prefix(msg, c).flags = msg.flags
  BY DEF Prefix
<1> QED BY <1>2, <1>3 DEF TreeCV, la, lb, key, flags

-----------------------------------------------------------------------------
(* Where a wide input is split.                                            *)

\* left_len is the length of the left subtree of the tree hash.
LEMMA LeftLen ==
  ASSUME NEW len \in Nat, len > CHUNK_LEN
  PROVE  LET q == LeftNodes[Chunks(len)]
             l == left_len(len)
         IN /\ Power(q) /\ q \in Nat /\ q > 0
            /\ l = q * CHUNK_LEN /\ l \in Nat /\ l > 0 /\ l < len
            /\ Chunks(len) \in Nat /\ Chunks(len) > 1 /\ q < Chunks(len) /\ Chunks(len) <= 2 * q
            /\ Chunks(len - l) = Chunks(len) - q
            /\ q = round_down_to_power_of_2[(len - 1) \div CHUNK_LEN]
<1> DEFINE c == (len - 1) \div CHUNK_LEN
           r == (len - 1) % CHUNK_LEN
           p == round_down_to_power_of_2[c]
           l == left_len(len)
<1>0. CHUNK_LEN \in Nat \ {0} /\ len - 1 \in Nat
  BY Lengths
<1>1. c \in Nat /\ r \in 0..(CHUNK_LEN - 1) /\ len - 1 = c * CHUNK_LEN + r
  BY <1>0, DivMod
<1>2. Chunks(len) = c + 1 /\ l = p * CHUNK_LEN
  BY <1>0 DEF Chunks, left_len
<1> HIDE DEF c, r
<1>3. c # 0
  <2> SUFFICES ASSUME c = 0 PROVE FALSE
    OBVIOUS
  <2>1. len - 1 = r
    BY <1>0, <1>1
  <2> QED BY <1>0, <1>1, <2>1
<1>4. Power(p) /\ p \in Nat /\ p > 0 /\ p <= c /\ c < 2 * p
  BY <1>1, <1>3, RoundPower, RoundType, RoundBounds DEF Power
<1> HIDE DEF p
<1>5. LeftNodes[Chunks(len)] = p
  <2>1. c + 1 \in Nat /\ p < c + 1 /\ c + 1 <= 2 * p
    BY <1>1, <1>4
  <2> QED BY <1>2, <1>4, <2>1, LeftUnique
<1> DEFINE d == c - p
           y == d * CHUNK_LEN
           x == p * CHUNK_LEN
<1>6. d \in Nat /\ c = p + d
  BY <1>1, <1>4
<1>7. y \in Nat /\ x \in Nat /\ x > 0 /\ len - 1 = x + y + r
  <2>1. (p + d) * CHUNK_LEN = p * CHUNK_LEN + d * CHUNK_LEN
    BY <1>0, <1>4, <1>6
  <2>2. x > 0
    <3>1. x # 0
      BY <1>0, <1>4
    <3> QED BY <1>0, <1>4, <3>1
  <2> QED BY <1>0, <1>1, <1>4, <1>6, <2>1, <2>2
<1>8. l = x
  BY <1>2
<1> HIDE DEF x, y, l, d
<1>9. l \in Nat /\ l > 0 /\ l < len /\ (len - l) - 1 = y + r /\ len - l \in Nat /\ len - l > 0
  BY <1>0, <1>1, <1>7, <1>8
<1>10. Chunks(len - l) = d + 1
  <2>1. ((len - l) - 1) \div CHUNK_LEN = d
    BY <1>0, <1>1, <1>6, <1>9, DivUnique DEF y
  <2> QED BY <1>9, <2>1 DEF Chunks
<1>11. Chunks(len) \in Nat /\ Chunks(len) > 1 /\ p < Chunks(len) /\ Chunks(len) <= 2 * p
         /\ Chunks(len - l) = Chunks(len) - p
  BY <1>1, <1>2, <1>3, <1>4, <1>6, <1>10
<1> QED BY <1>4, <1>5, <1>8, <1>9, <1>11 DEF c, p, x, l

WideDef(p, g, input) ==
  [counter \in Nat |->
     IF Len(input) <= p.simd * CHUNK_LEN
     THEN CompressChunksParallel(input, p.key, counter, p.flags)
     ELSE LET l == left_len(Len(input))
          IN JoinHalves(g[SubSeq(input, 1, l)][counter],
                        g[SubSeq(input, l + 1, Len(input))][counter + l \div CHUNK_LEN],
                        LeftDegree(l, p.simd), p.key, p.flags)]
Inputs(p) == Seq(Int)
Length(p, x) == Len(x)
WideR == INSTANCE Recursion WITH Dom <- Inputs, Size <- Length, Def <- WideDef

\* The two parts of an input are shorter.
LEMMA Split ==
  ASSUME NEW input \in Seq(Int), Len(input) > CHUNK_LEN
  PROVE  LET l == left_len(Len(input))
         IN /\ SubSeq(input, 1, l) \in Seq(Int) /\ Len(SubSeq(input, 1, l)) < Len(input)
            /\ SubSeq(input, l + 1, Len(input)) \in Seq(Int)
            /\ Len(SubSeq(input, l + 1, Len(input))) < Len(input)
<1> DEFINE l == left_len(Len(input))
<1>1. Len(input) \in Nat
  OBVIOUS
<1>2. l \in Nat /\ l > 0 /\ l < Len(input)
  BY <1>1, LeftLen
<1> HIDE DEF l
<1>3. /\ SubSeq(input, 1, l) \in Seq(Int) /\ Len(SubSeq(input, 1, l)) = l
      /\ SubSeq(input, l + 1, Len(input)) \in Seq(Int)
      /\ Len(SubSeq(input, l + 1, Len(input))) = Len(input) - l
  BY ONLY <1>1, <1>2, input \in Seq(Int)
<1> QED BY <1>1, <1>2, <1>3 DEF l

\* compress_subtree_wide obeys its definition.
LEMMA WideIs ==
  ASSUME NEW key, NEW flags, NEW simd \in Nat \ {0}, NEW input \in Seq(Int), NEW counter \in Nat
  PROVE  CompressSubtreeWide(input, key, counter, flags, simd) =
           IF Len(input) <= simd * CHUNK_LEN
           THEN CompressChunksParallel(input, key, counter, flags)
           ELSE LET l == left_len(Len(input))
                IN JoinHalves(
                     CompressSubtreeWide(SubSeq(input, 1, l), key, counter, flags, simd),
                     CompressSubtreeWide(SubSeq(input, l + 1, Len(input)), key,
                                         counter + l \div CHUNK_LEN, flags, simd),
                     LeftDegree(l, simd), key, flags)
<1> DEFINE p == [key |-> key, flags |-> flags, simd |-> simd]
<1>1. WideR!WellFormed(p)
  <2>1. ASSUME NEW g, NEW h, NEW x \in Seq(Int),
               \A y \in Seq(Int) : Len(y) < Len(x) => g[y] = h[y]
        PROVE  WideDef(p, g, x) = WideDef(p, h, x)
    <3>1. CASE Len(x) <= simd * CHUNK_LEN
      BY <3>1 DEF WideDef
    <3>2. CASE ~(Len(x) <= simd * CHUNK_LEN)
      <4> DEFINE l == left_len(Len(x))
      <4>1. Len(x) > CHUNK_LEN
        <5>1. PICK z \in Nat : simd = z + 1
          <6>1. simd - 1 \in Nat /\ simd = (simd - 1) + 1
            OBVIOUS
          <6> QED BY <6>1
        <5> DEFINE u == z * CHUNK_LEN
        <5>2. CHUNK_LEN \in Nat /\ u \in Nat /\ simd * CHUNK_LEN = u + CHUNK_LEN
          BY <5>1, Lengths
        <5> HIDE DEF u
        <5> QED BY <3>2, <5>2
      <4>2. g[SubSeq(x, 1, l)] = h[SubSeq(x, 1, l)]
              /\ g[SubSeq(x, l + 1, Len(x))] = h[SubSeq(x, l + 1, Len(x))]
        BY <2>1, <4>1, Split
      <4> QED BY <4>2 DEF WideDef
    <3> QED BY <3>1, <3>2
  <2>2. \A x \in Seq(Int) : Len(x) \in Nat
    OBVIOUS
  <2> HIDE DEF p
  <2> QED BY <2>1, <2>2 DEF WideR!WellFormed, Inputs, Length
<1>2. \E g : g = [x \in Seq(Int) |-> WideDef(p, g, x)]
  BY <1>1, WideR!RecursiveFunction DEF Inputs
<1> DEFINE wide == CHOOSE g : g = [x \in Seq(Int) |->
        [c \in Nat |->
           IF Len(x) <= simd * CHUNK_LEN
           THEN CompressChunksParallel(x, key, c, flags)
           ELSE LET l == left_len(Len(x))
                IN JoinHalves(g[SubSeq(x, 1, l)][c],
                              g[SubSeq(x, l + 1, Len(x))][c + l \div CHUNK_LEN],
                              LeftDegree(l, simd), key, flags)]]
<1>3. wide = [x \in Seq(Int) |->
        [c \in Nat |->
           IF Len(x) <= simd * CHUNK_LEN
           THEN CompressChunksParallel(x, key, c, flags)
           ELSE LET l == left_len(Len(x))
                IN JoinHalves(wide[SubSeq(x, 1, l)][c],
                              wide[SubSeq(x, l + 1, Len(x))][c + l \div CHUNK_LEN],
                              LeftDegree(l, simd), key, flags)]]
  <2>1. \E g : g = [x \in Seq(Int) |->
        [c \in Nat |->
           IF Len(x) <= simd * CHUNK_LEN
           THEN CompressChunksParallel(x, key, c, flags)
           ELSE LET l == left_len(Len(x))
                IN JoinHalves(g[SubSeq(x, 1, l)][c],
                              g[SubSeq(x, l + 1, Len(x))][c + l \div CHUNK_LEN],
                              LeftDegree(l, simd), key, flags)]]
    <3>1. p.simd = simd /\ p.key = key /\ p.flags = flags
      OBVIOUS
    <3> HIDE DEF p
    <3>2. ASSUME NEW g, NEW x \in Seq(Int)
          PROVE  WideDef(p, g, x) =
            [c \in Nat |->
               IF Len(x) <= simd * CHUNK_LEN
               THEN CompressChunksParallel(x, key, c, flags)
               ELSE LET l == left_len(Len(x))
                    IN JoinHalves(g[SubSeq(x, 1, l)][c],
                                  g[SubSeq(x, l + 1, Len(x))][c + l \div CHUNK_LEN],
                                  LeftDegree(l, simd), key, flags)]
      BY <3>1 DEF WideDef
    <3> QED BY <1>2, <3>2
  <2> QED BY <2>1, Zenon
<1>4. \A x, c : CompressSubtreeWide(x, key, c, flags, simd) = wide[x][c]
  BY DEF CompressSubtreeWide
<1> HIDE DEF wide
<1>5. wide[input][counter] =
           IF Len(input) <= simd * CHUNK_LEN
           THEN CompressChunksParallel(input, key, counter, flags)
           ELSE LET l == left_len(Len(input))
                IN JoinHalves(wide[SubSeq(input, 1, l)][counter],
                              wide[SubSeq(input, l + 1, Len(input))]
                                  [counter + l \div CHUNK_LEN],
                              LeftDegree(l, simd), key, flags)
  <2>1. wide[input] =
        [c \in Nat |->
           IF Len(input) <= simd * CHUNK_LEN
           THEN CompressChunksParallel(input, key, c, flags)
           ELSE LET l == left_len(Len(input))
                IN JoinHalves(wide[SubSeq(input, 1, l)][c],
                              wide[SubSeq(input, l + 1, Len(input))][c + l \div CHUNK_LEN],
                              LeftDegree(l, simd), key, flags)]
    BY ONLY <1>3, input \in Seq(Int)
  <2> QED BY <2>1
<1> QED BY <1>4, <1>5

-----------------------------------------------------------------------------
(* The halves of a wide subtree.                                           *)

\* What compress_subtree_wide makes of the values of its two halves.
LEMMA Halves ==
  ASSUME NEW left, NEW right, List(left), List(right), Len(left) > 0, Len(right) > 0,
         NEW key, NEW flags
  PROVE  JoinHalves(left, right, Len(left), key, flags)
           = IF Len(left) = 1 THEN <<left[1], right[1]>>
             ELSE CompressParentsParallel(left \o right, key, flags)
<1> DEFINE a == Len(left)
           b == Len(right)
           cvs == CvArray(left, right, a)
<1>1. a \in Nat /\ b \in Nat /\ a > 0 /\ b > 0
  BY DEF List
<1>2. cvs = [x \in 1..(a + b) |-> IF x > a THEN right[x - a]
                                  ELSE IF x <= a THEN left[x] ELSE <<"junk">>]
  BY DEF CvArray
<1>3. left \o right = [x \in 1..(a + b) |-> IF x <= a THEN left[x] ELSE right[x - a]]
  BY Joined
<1> HIDE DEF a, b, cvs
<1>4. cvs = left \o right
  <2>1. ASSUME NEW x \in 1..(a + b)
        PROVE  (IF x > a THEN right[x - a] ELSE IF x <= a THEN left[x] ELSE <<"junk">>)
                 = (IF x <= a THEN left[x] ELSE right[x - a])
    BY <1>1
  <2> QED BY <1>2, <1>3, <2>1
<1>5. List(cvs) /\ Len(cvs) = a + b
  <2>1. a + b \in Nat
    BY <1>1
  <2> QED BY <1>2, <2>1, ListOf DEF List
<1>6. SubSeq(cvs, 1, a + b) = cvs
  <2>1. PICK V : cvs \in Seq(V)
    BY <1>5, ListSeq
  <2> QED BY <1>5, <2>1
<1>7. a = 1 => cvs[1] = left[1] /\ cvs[2] = right[1]
  <2>1. SUFFICES ASSUME a = 1 PROVE cvs[1] = left[1] /\ cvs[2] = right[1]
    OBVIOUS
  <2>2. 1 \in 1..(a + b) /\ 2 \in 1..(a + b) /\ ~(1 > a) /\ 1 <= a /\ 2 > a /\ 2 - a = 1
    BY <1>1, <2>1
  <2> QED BY <1>2, <2>2
<1> QED BY <1>4, <1>6, <1>7 DEF JoinHalves, a, b, cvs

\* How many chaining values are left of more chunks than there are lanes.
Width(simd) == IF simd = 1 THEN 2 ELSE simd

\* The sizes of the halves of c chunks.
LEMMA HalfSizes ==
  ASSUME NEW simd, Power(simd), NEW c \in Nat, c > simd
  PROVE  LET q == LeftNodes[c]
         IN /\ Power(q) /\ q >= simd /\ q < c /\ c <= 2 * q
            /\ c - q \in Nat /\ c - q > 0 /\ c - q <= q
            /\ Power(c) => c = 2 * q
<1> DEFINE q == LeftNodes[c]
<1>0. simd \in Nat /\ simd > 0 /\ c > 1
  BY DEF Power
<1>1. Power(q) /\ q < c /\ c <= 2 * q
  BY <1>0, LeftBounds
<1> HIDE DEF q
<1>2. q \in Nat /\ q > 0
  BY <1>1 DEF Power
<1>3. q >= simd
  <2> SUFFICES ASSUME q < simd PROVE FALSE
    BY <1>0, <1>2
  <2>1. 2 * q <= simd
    BY <1>1, PowersApart
  <2> QED BY <1>0, <1>1, <1>2, <2>1
<1>4. Power(c) => c = 2 * q
  <2> SUFFICES ASSUME Power(c) PROVE c = 2 * q
    OBVIOUS
  <2>1. 2 * q <= c
    BY <1>1, PowersApart
  <2> QED BY <1>1, <1>2, <2>1
<1> QED BY <1>1, <1>2, <1>3, <1>4 DEF q

Wide(msg, n, len, simd) ==
  CompressSubtreeWide(Piece(msg, n * CHUNK_LEN, len), msg.key, n, msg.flags, simd)

\* As many values as there are chunks, when they fit into the lanes.
Fits(v, c, simd) ==
  /\ List(v) /\ Len(v) > 0
  /\ c <= simd => Len(v) = c
  /\ c > simd => Len(v) >= 2 /\ Len(v) <= Width(simd)
  /\ c > simd /\ Power(c) => Len(v) = Width(simd)

\* The tree over the values v is that of k chunks from n on.
Spans(v, tree, n, k) == Over(v, tree.key, tree.flags)[Len(v)][0] = TreeCV(tree)[k][n]

\* The halves fit.
LEMMA FitHalves ==
  ASSUME NEW simd, Power(simd), NEW c \in Nat, c > simd, NEW left, NEW right,
         NEW q \in Nat, q = LeftNodes[c],
         Fits(left, q, simd), Fits(right, c - q, simd)
  PROVE  /\ Len(left) = IF q > 1 /\ simd = 1 THEN 2 ELSE simd
         /\ Power(Len(left)) /\ Len(right) <= Len(left)
         /\ Power(c) => Len(right) = Len(left)
         /\ Len(left) <= Width(simd)
         /\ Len(left) > 1 => Len(left) = Width(simd)
<1>0. simd \in Nat /\ simd > 0
  BY DEF Power
<1>1. /\ Power(q) /\ q >= simd /\ c - q \in Nat /\ c - q > 0 /\ c - q <= q
      /\ Power(c) => c = 2 * q
  BY HalfSizes
<1>2. Len(left) \in Nat /\ Len(right) \in Nat
  BY DEF Fits, List
<1>3. Len(left) = IF q > 1 /\ simd = 1 THEN 2 ELSE simd
  <2>1. CASE q = simd
    BY <1>0, <2>1 DEF Fits
  <2>2. CASE q > simd
    BY <1>0, <1>1, <2>2 DEF Fits, Width
  <2> QED BY <1>0, <1>1, <2>1, <2>2
<1>4. Power(Len(left))
  <2>1. Power(1) /\ Power(2 * 1)
    BY Doubled
  <2>2. Power(2)
    BY <2>1
  <2> QED BY <1>3, <2>2
<1>5. Len(right) <= Len(left)
  <2>1. CASE c - q <= simd
    <3>1. Len(right) = c - q /\ c - q <= simd
      BY <2>1 DEF Fits
    <3> QED BY <1>0, <1>1, <1>3, <3>1
  <2>2. CASE ~(c - q <= simd)
    <3>1. q > simd /\ c - q > simd
      BY <1>0, <1>1, <2>2
    <3>2. Len(right) <= Width(simd)
      BY <3>1 DEF Fits
    <3> QED BY <1>0, <1>1, <1>2, <1>3, <3>1, <3>2 DEF Width
  <2> QED BY <2>1, <2>2
<1>6. Power(c) => Len(right) = Len(left)
  <2> SUFFICES ASSUME Power(c) PROVE Len(right) = Len(left)
    OBVIOUS
  <2>1. c - q = q
    BY <1>1
  <2>2. CASE q = simd
    BY <2>1, <2>2 DEF Fits
  <2>3. CASE q > simd
    BY <1>1, <2>1, <2>3 DEF Fits
  <2> QED BY <1>0, <1>1, <2>2, <2>3
<1>7. Len(left) <= Width(simd) /\ (Len(left) > 1 => Len(left) = Width(simd))
  BY <1>0, <1>3 DEF Width
<1> QED BY <1>3, <1>4, <1>5, <1>6, <1>7

\* What is made of the halves fits.
LEMMA FitJoined ==
  ASSUME NEW simd, Power(simd), NEW c \in Nat, c > simd, NEW left, NEW right,
         NEW q \in Nat, q = LeftNodes[c],
         Fits(left, q, simd), Fits(right, c - q, simd), NEW key, NEW flags
  PROVE  LET v == JoinHalves(left, right, Len(left), key, flags)
         IN /\ Fits(v, c, simd)
            /\ Over(v, key, flags)[Len(v)][0]
                 = Parent(Over(left, key, flags)[Len(left)][0],
                          Over(right, key, flags)[Len(right)][0], key, flags)
<1> DEFINE v == JoinHalves(left, right, Len(left), key, flags)
           a == Len(left)
           b == Len(right)
           j == left \o right
<1>0. simd \in Nat /\ simd > 0
  BY DEF Power
<1>1. a \in Nat /\ b \in Nat /\ a > 0 /\ b > 0 /\ List(left) /\ List(right)
  BY DEF Fits, List
<1>2. Power(a) /\ b <= a /\ (Power(c) => b = a) /\ a <= Width(simd) /\ (a > 1 => a = Width(simd))
  BY FitHalves
<1>3. j = [i \in 1..(a + b) |-> IF i <= a THEN left[i] ELSE right[i - a]]
  BY <1>1, Joined
<1>4. v = IF a = 1 THEN <<left[1], right[1]>> ELSE CompressParentsParallel(j, key, flags)
  BY <1>1, Halves
<1> HIDE DEF v, j
<1>5. LeftNodes[a + b] = a
  <2>1. a + b \in Nat /\ a < a + b /\ a + b <= 2 * a
    BY <1>1, <1>2
  <2> QED BY <1>2, <2>1, LeftUnique
<1>6. List(j) /\ Len(j) = a + b
  <2>1. a + b \in Nat
    BY <1>1
  <2> QED BY <1>3, <2>1, ListOf DEF List
<1>7. Over(j, key, flags)[a + b][0]
        = Parent(Over(left, key, flags)[a][0], Over(right, key, flags)[b][0], key, flags)
  <2>1. LeftNodes[Len(left) + Len(right)] = Len(left) /\ Len(left) > 0 /\ Len(right) > 0
    BY <1>1, <1>5
  <2> HIDE DEF a, b
  <2>2. Over(left \o right, key, flags)[Len(left) + Len(right)][0]
           = Parent(Over(left, key, flags)[Len(left)][0], Over(right, key, flags)[Len(right)][0],
                    key, flags)
    BY <1>1, <2>1, TreeOfTwo
  <2> QED BY <2>2 DEF a, b, j
<1> HIDE DEF a, b
<1>8. ~(c <= simd)
  BY <1>0
<1>9. CASE a = 1
  <2>1. b = 1
    BY <1>1, <1>2, <1>9
  <2>2. v = j
    <3>1. v = <<left[1], right[1]>>
      BY <1>4, <1>9
    <3>2. /\ 1 <= a /\ ~(2 <= a) /\ 2 - a = 1 /\ a + b = 2
      BY <1>9, <2>1
    <3>3. j = [i \in 1..2 |-> IF i <= a THEN left[i] ELSE right[i - a]]
      BY <1>3, <3>2
    <3>4. j = <<left[1], right[1]>>
      BY <3>2, <3>3
    <3> QED BY <3>1, <3>4
  <2>3. Len(v) = 2 /\ List(v) /\ a + b = 2
    BY <1>6, <1>9, <2>1, <2>2
  <2>4. 2 <= Width(simd) /\ (Power(c) => Width(simd) = 2)
    <3>1. Len(left) = IF q > 1 /\ simd = 1 THEN 2 ELSE simd
      BY FitHalves
    <3>2. simd = 1
      BY <1>9, <3>1 DEF a
    <3> QED BY <3>2 DEF Width
  <2>5. Fits(v, c, simd)
    BY <1>8, <2>3, <2>4 DEF Fits
  <2>6. Over(v, key, flags)[Len(v)][0] = Over(j, key, flags)[a + b][0]
    BY <2>2, <2>3
  <2> QED BY <1>7, <2>5, <2>6 DEF v, a, b
<1>10. CASE a # 1
  <2>1. v = CompressParentsParallel(j, key, flags)
    BY <1>4, <1>10
  <2>2. List(v) /\ Len(v) = (a + b + 1) \div 2
    BY <1>6, <2>1, Pairing
  <2>3. Over(v, key, flags)[Len(v)][0] = Over(j, key, flags)[a + b][0]
    <3>1. Len(j) > 0
      BY <1>1, <1>6
    <3> QED BY <1>6, <2>1, <3>1, PairOver
  <2>4. a >= 2 /\ a = Width(simd)
    BY <1>1, <1>2, <1>10
  <2>5. (a + b + 1) \div 2 \in Nat /\ (a + b + 1) \div 2 >= 2 /\ (a + b + 1) \div 2 <= a
         /\ (b = a => (a + b + 1) \div 2 = a)
    BY <1>1, <1>2, <2>4
  <2>6. Fits(v, c, simd)
    BY <1>2, <1>8, <2>2, <2>4, <2>5 DEF Fits
  <2> QED BY <1>7, <2>3, <2>6 DEF v, a, b
<1> QED BY <1>9, <1>10

\* Products in order.
LEMMA Times ==
  ASSUME NEW d \in Nat, NEW a \in Nat, NEW b \in Nat
  PROVE  /\ a * d \in Nat /\ (a + b) * d = a * d + b * d
         /\ a <= b => a * d <= b * d
         /\ a < b => a * d + d <= b * d
<1>1. a * d \in Nat /\ (a + b) * d = a * d + b * d
  OBVIOUS
<1>2. ASSUME a <= b PROVE a * d <= b * d
  <2>1. b - a \in Nat /\ b = a + (b - a)
    BY <1>2
  <2> DEFINE c == b - a
             x == a * d
             y == c * d
  <2>2. b * d = x + y /\ x \in Nat /\ y \in Nat
    <3> HIDE DEF c
    <3>1. (a + c) * d = a * d + c * d /\ c \in Nat /\ b = a + c
      BY <2>1 DEF c
    <3> QED BY <3>1
  <2> HIDE DEF x, y
  <2>3. x <= b * d
    BY <2>2
  <2> QED BY <2>3 DEF x
<1>3. ASSUME a < b PROVE a * d + d <= b * d
  <2>1. b - (a + 1) \in Nat /\ b = a + 1 + (b - (a + 1))
    BY <1>3
  <2> DEFINE c == b - (a + 1)
             x == a * d
             y == c * d
  <2>2. b * d = x + d + y /\ x \in Nat /\ y \in Nat
    <3> HIDE DEF c
    <3>1. (a + 1 + c) * d = a * d + d + c * d /\ c \in Nat /\ b = a + 1 + c
      BY <2>1 DEF c
    <3> QED BY <3>1
  <2> HIDE DEF x, y
  <2>3. x + d <= b * d
    BY <2>2
  <2> QED BY <2>3 DEF x
<1> QED BY <1>1, <1>2, <1>3

\* What fits into so many chunks.
LEMMA FewChunks ==
  ASSUME NEW len \in Nat, len > 0, NEW k \in Nat
  PROVE  len <= k * CHUNK_LEN <=> Chunks(len) <= k
<1> DEFINE q == len \div CHUNK_LEN
           r == len % CHUNK_LEN
           x == q * CHUNK_LEN
           y == k * CHUNK_LEN
<1>1. /\ q \in Nat /\ r \in 0..(CHUNK_LEN - 1) /\ len = x + r
      /\ Chunks(len) = IF r = 0 THEN q ELSE q + 1
  BY ChunksIs
<1> HIDE DEF q, r
<1>2. CHUNK_LEN \in Nat /\ CHUNK_LEN > 0
  BY Lengths
<1>3. x \in Nat /\ y \in Nat
  BY <1>1, <1>2, Times
<1>4. (q <= k => x <= y) /\ (q < k => x + CHUNK_LEN <= y) /\ (k < q => y + CHUNK_LEN <= x)
  BY <1>1, <1>2, Times
<1> HIDE DEF x, y
<1>5. len <= y <=> Chunks(len) <= k
  <2>1. CASE q < k
    BY <1>1, <1>2, <1>3, <1>4, <2>1
  <2>2. CASE q = k
    <3>1. x = y
      BY <2>2 DEF x, y
    <3> QED BY <1>1, <1>2, <1>3, <2>2, <3>1
  <2>3. CASE q > k
    BY <1>1, <1>2, <1>3, <1>4, <2>3
  <2> QED BY <1>1, <2>1, <2>2, <2>3
<1> QED BY <1>5 DEF y

\* How many chunks a number of whole chunks is.
LEMMA DivTimes ==
  ASSUME NEW q \in Nat, NEW l, l = q * CHUNK_LEN
  PROVE  l \div CHUNK_LEN = q /\ l % CHUNK_LEN = 0
<1>1. CHUNK_LEN \in Nat \ {0} /\ 0 \in 0..(CHUNK_LEN - 1)
  BY Lengths
<1>2. l = q * CHUNK_LEN + 0
  BY <1>1
<1> QED BY ONLY <1>1, <1>2, q \in Nat, DivUnique

\* A wide subtree: its values fit, and their tree is that of its chunks.
WideOK(msg, n, len, simd) ==
  /\ Fits(Wide(msg, n, len, simd), Chunks(len), simd)
  /\ Spans(Wide(msg, n, len, simd), Prefix(msg, n * CHUNK_LEN + len), n, Chunks(len))

\* As many chunks as there are lanes.
LEMMA WideLeaves ==
  ASSUME NEW msg, Stream(msg), NEW simd, Power(simd), NEW len \in Nat, len > 0,
         len <= simd * CHUNK_LEN, NEW n \in Nat
  PROVE  WideOK(msg, n, len, simd)
<1> DEFINE input == Piece(msg, n * CHUNK_LEN, len)
           tree == Prefix(msg, n * CHUNK_LEN + len)
           c == Chunks(len)
           v == Wide(msg, n, len, simd)
<1>0. simd \in Nat /\ simd \in Nat \ {0} /\ n * CHUNK_LEN \in Nat
  BY Lengths, Times DEF Power
<1>1. c \in Nat /\ c > 0 /\ c <= simd /\ ~(c > simd)
  BY <1>0, ChunksIs, FewChunks
<1>2. input \in Seq(Int) /\ Len(input) = len
  BY <1>0, PieceType
<1>3. CompressChunksParallel(input, msg.key, n, msg.flags) = Leaves(tree, n, c)
  BY ChunksAre
<1> HIDE DEF c, tree
<1>4. v = Leaves(tree, n, c)
  <2> HIDE DEF input
  <2>1. CompressSubtreeWide(input, msg.key, n, msg.flags, simd)
          = CompressChunksParallel(input, msg.key, n, msg.flags)
    BY <1>0, <1>2, WideIs
  <2> QED BY <1>3, <2>1 DEF Wide, input
<1>5. List(v) /\ Len(v) = c
  BY <1>1, <1>4, ListOf DEF Leaves, List
<1>6. Over(v, tree.key, tree.flags)[c][0] = TreeCV(tree)[c][n]
  BY <1>1, <1>4, OverLeaves
<1>7. Fits(v, c, simd)
  BY <1>1, <1>5 DEF Fits
<1>8. Spans(v, tree, n, c)
  BY <1>5, <1>6 DEF Spans
<1> QED BY <1>7, <1>8 DEF WideOK, v, tree, c

\* More: two halves.
LEMMA WideHalves ==
  ASSUME NEW msg, Stream(msg), NEW simd, Power(simd), NEW len \in Nat,
         len > simd * CHUNK_LEN, NEW n \in Nat,
         \A m \in Nat : m > 0 /\ m < len => \A k \in Nat : WideOK(msg, k, m, simd)
  PROVE  WideOK(msg, n, len, simd)
<1> DEFINE input == Piece(msg, n * CHUNK_LEN, len)
           base == n * CHUNK_LEN
           tree == Prefix(msg, n * CHUNK_LEN + len)
           c == Chunks(len)
           q == LeftNodes[c]
           l == left_len(len)
           v == Wide(msg, n, len, simd)
           left == Wide(msg, n, l, simd)
           right == Wide(msg, n + q, len - l, simd)
<1>0. /\ simd \in Nat /\ simd \in Nat \ {0} /\ base \in Nat
      /\ CHUNK_LEN \in Nat /\ CHUNK_LEN > 0 /\ CHUNK_LEN \in Nat \ {0}
  BY Lengths, Times DEF Power
<1>1. len > CHUNK_LEN /\ len > 0
  <2> DEFINE x == simd * CHUNK_LEN
  <2>1. 0 * CHUNK_LEN + CHUNK_LEN <= x /\ x \in Nat
    BY <1>0, Times
  <2> HIDE DEF x
  <2>2. x < len
    BY DEF x
  <2> QED BY <1>0, <2>1, <2>2
<1>2. /\ Power(q) /\ q \in Nat /\ q > 0
      /\ l = q * CHUNK_LEN /\ l \in Nat /\ l > 0 /\ l < len
      /\ c \in Nat /\ c > 1 /\ q < c
      /\ Chunks(len - l) = c - q
  BY <1>1, LeftLen
<1>3. c > simd
  <2>1. ~(c <= simd)
    BY <1>0, <1>1, FewChunks
  <2> QED BY <1>0, <1>2, <2>1
<1>4. Chunks(l) = q
  <2>1. l \div CHUNK_LEN = q /\ l % CHUNK_LEN = 0
    BY <1>2, DivTimes
  <2> QED BY <1>2, <2>1, ChunksIs
<1>5. l \div CHUNK_LEN = q
  BY <1>2, DivTimes
<1>6. len - l \in Nat /\ len - l > 0 /\ len - l < len /\ n + q \in Nat
  BY <1>2
<1>7. (n + q) * CHUNK_LEN = base + l
  BY <1>0, <1>2, Times
<1>8. input \in Seq(Int) /\ Len(input) = len
  BY <1>0, PieceType
<1>9. /\ SubSeq(input, 1, l) = Piece(msg, n * CHUNK_LEN, l)
      /\ SubSeq(input, l + 1, len) = Piece(msg, (n + q) * CHUNK_LEN, len - l)
  <2>1. /\ 0 \in Nat /\ 0 <= l /\ l <= len /\ len <= len
        /\ base \in Nat /\ l \in Nat /\ len \in Nat /\ Stream(msg)
    BY <1>0, <1>2
  <2> HIDE DEF base, l
  <2>2. Cut(Piece(msg, base, len), 0, l) = Piece(msg, base + 0, l - 0)
    BY ONLY <2>1, PieceOfPiece
  <2>3. Cut(Piece(msg, base, len), l, len) = Piece(msg, base + l, len - l)
    BY ONLY <2>1, PieceOfPiece
  <2>4. 0 + 1 = 1 /\ base + 0 = base /\ l - 0 = l
    BY <1>0, <1>2
  <2>5. SubSeq(Piece(msg, base, len), 1, l) = Piece(msg, base, l)
    BY <2>2, <2>4 DEF Cut
  <2>6. SubSeq(Piece(msg, base, len), l + 1, len) = Piece(msg, base + l, len - l)
    BY <2>3 DEF Cut
  <2> QED BY <1>7, <2>5, <2>6 DEF base
<1>10. WideOK(msg, n, l, simd) /\ WideOK(msg, n + q, len - l, simd)
  BY <1>2, <1>6
<1>11. Fits(left, q, simd) /\ Fits(right, c - q, simd)
  BY <1>2, <1>4, <1>10 DEF WideOK
<1>12. Spans(left, Prefix(msg, base + l), n, q)
         /\ Spans(right, Prefix(msg, (n + q) * CHUNK_LEN + (len - l)), n + q, c - q)
  BY <1>2, <1>4, <1>10 DEF WideOK
<1>13. LeftDegree(l, simd) = Len(left)
  <2>1. l > CHUNK_LEN <=> q > 1
    <3>1. (q = 1 => l = CHUNK_LEN)
      BY <1>0, <1>2
    <3>2. 1 < q => 1 * CHUNK_LEN + CHUNK_LEN <= q * CHUNK_LEN
      BY <1>0, <1>2, Times
    <3>3. 1 * CHUNK_LEN = CHUNK_LEN
      BY <1>0
    <3>4. 1 < q => CHUNK_LEN + CHUNK_LEN <= l
      BY <1>2, <3>2, <3>3
    <3> QED BY <1>0, <1>2, <3>1, <3>4
  <2>2. Len(left) = IF q > 1 /\ simd = 1 THEN 2 ELSE simd
    <3> HIDE DEF left, right, q, c
    <3>1. q = LeftNodes[c]
      BY DEF q
    <3> QED BY <1>2, <1>3, <1>11, <3>1, FitHalves
  <2> QED BY <2>1, <2>2 DEF LeftDegree
<1>14. v = JoinHalves(left, right, Len(left), msg.key, msg.flags)
  <2> DEFINE key == msg.key
             flags == msg.flags
  <2>1. left = CompressSubtreeWide(SubSeq(input, 1, l), key, n, flags, simd)
    BY <1>9 DEF Wide
  <2>2. right = CompressSubtreeWide(SubSeq(input, l + 1, len), key, n + l \div CHUNK_LEN, flags,
                                    simd)
    BY <1>5, <1>9 DEF Wide
  <2>3. v = CompressSubtreeWide(input, key, n, flags, simd)
    BY DEF Wide
  <2> HIDE DEF input, left, right, v, l, key, flags
  <2>4. ~(Len(input) <= simd * CHUNK_LEN)
    BY <1>0, <1>8
  <2>5. CompressSubtreeWide(input, key, n, flags, simd) =
           JoinHalves(
             CompressSubtreeWide(SubSeq(input, 1, left_len(Len(input))), key, n, flags, simd),
             CompressSubtreeWide(SubSeq(input, left_len(Len(input)) + 1, Len(input)), key,
                                 n + left_len(Len(input)) \div CHUNK_LEN, flags, simd),
             LeftDegree(left_len(Len(input)), simd), key, flags)
    BY <1>0, <1>8, <2>4, WideIs
  <2>6. left_len(Len(input)) = l
    BY <1>8 DEF l
  <2>7. CompressSubtreeWide(input, key, n, flags, simd) =
           JoinHalves(left, right, LeftDegree(l, simd), key, flags)
    BY <1>8, <2>1, <2>2, <2>5, <2>6
  <2> QED BY <1>13, <2>3, <2>7 DEF key, flags
<1>15. tree.key = msg.key /\ tree.flags = msg.flags
  BY DEF Prefix
<1> HIDE DEF left, right, v
<1>16. /\ Fits(v, c, simd)
       /\ Over(v, msg.key, msg.flags)[Len(v)][0]
            = Parent(Over(left, msg.key, msg.flags)[Len(left)][0],
                     Over(right, msg.key, msg.flags)[Len(right)][0], msg.key, msg.flags)
  BY <1>2, <1>3, <1>11, <1>14, FitJoined
<1>17. Over(left, msg.key, msg.flags)[Len(left)][0] = TreeCV(tree)[q][n]
  <2>1. Over(left, msg.key, msg.flags)[Len(left)][0] = TreeCV(Prefix(msg, base + l))[q][n]
    <3>1. Prefix(msg, base + l).key = msg.key /\ Prefix(msg, base + l).flags = msg.flags
      BY DEF Prefix
    <3> QED BY <1>12, <3>1 DEF Spans
  <2>2. TreeCV(Prefix(msg, base + l))[q][n] = TreeCV(Prefix(msg, base + len))[q][n]
    <3>1. base + l \in Nat /\ base + len \in Nat /\ base + l <= base + l /\ base + l <= base + len
      BY <1>0, <1>2
    <3>2. /\ n * CHUNK_LEN + q * CHUNK_LEN <= base + l
          /\ n * CHUNK_LEN + q * CHUNK_LEN <= base + len
      BY <1>2, <3>1
    <3> HIDE DEF base, q
    <3> QED BY <1>2, <3>1, <3>2, SamePrefix
  <2> QED BY <2>1, <2>2
<1>18. Over(right, msg.key, msg.flags)[Len(right)][0] = TreeCV(tree)[c - q][n + q]
  <2>1. (n + q) * CHUNK_LEN + (len - l) = base + len
    BY <1>0, <1>2, <1>7
  <2>2. Spans(right, tree, n + q, c - q)
    BY <1>12, <2>1
  <2> QED BY <1>15, <2>2 DEF Spans
<1>19. TreeCV(tree)[c][n] = Parent(TreeCV(tree)[q][n], TreeCV(tree)[c - q][n + q],
                                   msg.key, msg.flags)
  <2> HIDE DEF tree, c
  <2> QED BY <1>2, <1>15, TreeCVIs
<1>20. Spans(v, tree, n, c)
  BY <1>15, <1>16, <1>17, <1>18, <1>19 DEF Spans
<1> QED BY <1>16, <1>20 DEF WideOK, v, tree, c

\* compress_subtree_wide is right about subtrees of every length.
LEMMA WideTree ==
  ASSUME NEW msg, Stream(msg), NEW simd, Power(simd)
  PROVE  \A len \in Nat : len > 0 => \A n \in Nat : WideOK(msg, n, len, simd)
<1> DEFINE S == {len \in Nat : len > 0 => \A n \in Nat : WideOK(msg, n, len, simd)}
<1>1. ASSUME NEW len \in Nat, \A m \in Nat : m < len => m \in S
      PROVE  len \in S
  <2> SUFFICES ASSUME len > 0, NEW n \in Nat PROVE WideOK(msg, n, len, simd)
    OBVIOUS
  <2>0. simd * CHUNK_LEN \in Nat
    BY Lengths, Times DEF Power
  <2>1. CASE len <= simd * CHUNK_LEN
    BY <2>1, WideLeaves
  <2>2. CASE len > simd * CHUNK_LEN
    <3>1. \A m \in Nat : m > 0 /\ m < len => \A k \in Nat : WideOK(msg, k, m, simd)
      BY <1>1
    <3> HIDE DEF S
    <3> QED BY <2>2, <3>1, WideHalves
  <2> HIDE DEF S
  <2> QED BY <2>0, <2>1, <2>2
<1> HIDE DEF S
<1>2. S = Nat
  BY <1>1, Induct DEF S
<1> QED BY <1>2 DEF S

-----------------------------------------------------------------------------
(* The children of the root of a subtree.                                  *)

CondenseDef(p, g, k) ==
  IF k = 0 THEN p.first
  ELSE IF Len(g[k - 1]) > 2 THEN CompressParentsParallel(g[k - 1], p.key, p.flags)
       ELSE g[k - 1]
CondenseR == INSTANCE Recursion WITH Dom <- Numbers, Size <- Itself, Def <- CondenseDef

\* f has the arrays while they are halved.
Condensed(f, first, key, flags) ==
  \A k \in Nat :
    f[k] = IF k = 0 THEN first
           ELSE IF Len(f[k - 1]) > 2 THEN CompressParentsParallel(f[k - 1], key, flags)
                ELSE f[k - 1]

\* The loop of compress_subtree_to_parent_node, round by round.
LEMMA CondenseIs ==
  ASSUME NEW input, NEW key, NEW counter, NEW flags, NEW simd
  PROVE  \E f : /\ Condensed(f, CompressSubtreeWide(input, key, counter, flags, simd), key, flags)
                /\ SubtreeToParentNode(input, key, counter, flags, simd) = SubSeq(f[4], 1, 2)
<1> DEFINE first == CompressSubtreeWide(input, key, counter, flags, simd)
           p == [first |-> first, key |-> key, flags |-> flags]
           f == CHOOSE g : g = [k \in Nat |->
                  IF k = 0 THEN first
                  ELSE LET cvs == g[k - 1]
                       IN IF Len(cvs) > 2 THEN CompressParentsParallel(cvs, key, flags) ELSE cvs]
<1>1. p.first = first /\ p.key = key /\ p.flags = flags
  OBVIOUS
<1>2. SubtreeToParentNode(input, key, counter, flags, simd) = SubSeq(f[4], 1, 2)
  BY DEF SubtreeToParentNode
<1> HIDE DEF p, first
<1>3. CondenseR!WellFormed(p)
  <2>1. ASSUME NEW g, NEW h, NEW k \in Nat, \A y \in Nat : y < k => g[y] = h[y]
        PROVE  CondenseDef(p, g, k) = CondenseDef(p, h, k)
    <3>1. CASE k = 0
      BY <3>1 DEF CondenseDef
    <3>2. CASE k # 0
      <4>1. g[k - 1] = h[k - 1]
        BY <2>1, <3>2
      <4> QED BY <4>1 DEF CondenseDef
    <3> QED BY <3>1, <3>2
  <2> QED BY <2>1 DEF CondenseR!WellFormed, Numbers, Itself
<1>4. \E g : g = [k \in Nat |-> CondenseDef(p, g, k)]
  BY <1>3, CondenseR!RecursiveFunction DEF Numbers
<1>5. ASSUME NEW g, NEW k
      PROVE  CondenseDef(p, g, k) =
               IF k = 0 THEN first
                  ELSE LET cvs == g[k - 1]
                       IN IF Len(cvs) > 2 THEN CompressParentsParallel(cvs, key, flags) ELSE cvs
  BY <1>1 DEF CondenseDef
<1>6. \E g : g = [k \in Nat |->
                  IF k = 0 THEN first
                  ELSE LET cvs == g[k - 1]
                       IN IF Len(cvs) > 2 THEN CompressParentsParallel(cvs, key, flags) ELSE cvs]
  BY <1>4, <1>5
<1>7. f = [k \in Nat |->
                  IF k = 0 THEN first
                  ELSE LET cvs == f[k - 1]
                       IN IF Len(cvs) > 2 THEN CompressParentsParallel(cvs, key, flags) ELSE cvs]
  BY <1>6
<1> HIDE DEF f
<1>8. Condensed(f, first, key, flags)
  <2> SUFFICES ASSUME NEW k \in Nat
               PROVE f[k] = IF k = 0 THEN first
                  ELSE IF Len(f[k - 1]) > 2 THEN CompressParentsParallel(f[k - 1], key, flags)
                       ELSE f[k - 1]
    BY DEF Condensed
  <2> QED BY ONLY <1>7, k \in Nat
<1> QED BY <1>2, <1>8 DEF first

\* At least two and no more is two.
LEMMA ExactlyTwo == \A i \in Nat : i >= 2 /\ ~(i > 2) => i = 2
OBVIOUS

\* One more halving keeps the tree.
LEMMA CondenseStep ==
  ASSUME NEW f, NEW first, NEW key, NEW flags, Condensed(f, first, key, flags),
         NEW k \in Nat, NEW top, List(f[k]), Len(f[k]) >= 2, 
         Over(f[k], key, flags)[Len(f[k])][0] = top
  PROVE  /\ List(f[k + 1]) /\ Len(f[k + 1]) >= 2
         /\ Over(f[k + 1], key, flags)[Len(f[k + 1])][0] = top
         /\ Len(f[k + 1]) <= 2 \/ 2 * Len(f[k + 1]) <= Len(f[k]) + 1
<1>1. k + 1 \in Nat /\ k + 1 # 0 /\ (k + 1) - 1 = k
  OBVIOUS
<1> DEFINE m == k + 1
<1> HIDE DEF m
<1>2. f[m] = IF Len(f[m - 1]) > 2 THEN CompressParentsParallel(f[m - 1], key, flags)
             ELSE f[m - 1]
  BY <1>1 DEF Condensed, m
<1>3. f[k + 1] = IF Len(f[k]) > 2 THEN CompressParentsParallel(f[k], key, flags) ELSE f[k]
  BY <1>1, <1>2 DEF m
<1> DEFINE s == f[k]
           t == f[k + 1]
<1>4. Len(s) \in Nat /\ List(s) /\ Len(s) >= 2 /\ Len(s) > 0
  BY DEF List
<1>5. Over(s, key, flags)[Len(s)][0] = top
  OBVIOUS
<1>6. t = IF Len(s) > 2 THEN CompressParentsParallel(s, key, flags) ELSE s
  BY <1>3
<1> HIDE DEF s, t
<1>7. CASE Len(s) > 2
  <2>1. t = CompressParentsParallel(s, key, flags)
    BY <1>6, <1>7
  <2>2. List(t) /\ Len(t) = (Len(s) + 1) \div 2
    BY <1>4, <2>1, Pairing
  <2>3. Over(t, key, flags)[Len(t)][0] = top
    BY <1>4, <1>5, <2>1, PairOver
  <2>4. Len(t) >= 2 /\ 2 * Len(t) <= Len(s) + 1
    BY <1>4, <1>7, <2>2
  <2> QED BY <2>2, <2>3, <2>4 DEF s, t
<1>8. CASE ~(Len(s) > 2)
  <2>0. Len(s) = 2
    BY <1>4, <1>8, ExactlyTwo
  <2>1. t = s /\ Len(s) = 2
    BY <1>6, <1>8, <2>0
  <2> QED BY <1>4, <1>5, <2>1 DEF s, t
<1> QED BY <1>7, <1>8

\* The terms of parents differ when a child does.
LEMMA ParentApart ==
  ASSUME NEW a, NEW b, NEW c, NEW d, NEW key, NEW flags,
         Parent(a, b, key, flags) = Parent(c, d, key, flags)
  PROVE  a = c /\ b = d
BY DEF Parent, ParentOutput, MakeOutput, ChainingValue, Compress

\* The tree over two values.
LEMMA TwoOver ==
  ASSUME NEW s, NEW key, NEW flags
  PROVE  Over(s, key, flags)[2][0] = Parent(s[1], s[2], key, flags)
<1> DEFINE f == Over(s, key, flags)
<1>1. Trees(f, s, key, flags)
  BY OverIs
<1> HIDE DEF f
<1>2. LeftNodes[2] = 1
  <2>1. Power(1) /\ 2 \in Nat /\ 1 < 2 /\ 2 <= 2 * 1
    BY Doubled
  <2> QED BY <2>1, LeftUnique
<1>3. \A n, lo \in Nat : n > 1 =>
       f[n][lo] = Parent(f[LeftNodes[n]][lo], f[n - LeftNodes[n]][lo + LeftNodes[n]], key, flags)
  BY <1>1 DEF Trees
<1>4. f[2][0] = Parent(f[LeftNodes[2]][0], f[2 - LeftNodes[2]][0 + LeftNodes[2]], key, flags)
  BY <1>3
<1>5. f[2][0] = Parent(f[1][0], f[1][1], key, flags)
  BY <1>2, <1>4
<1>6. f[1][0] = s[0 + 1] /\ f[1][1] = s[1 + 1]
  BY <1>1 DEF Trees
<1> QED BY <1>5, <1>6 DEF f

\* The two chaining values below the root of a subtree of more than a chunk.
LEMMA ParentNode ==
  ASSUME NEW msg, Stream(msg), NEW simd, Power(simd), simd <= 16,
         NEW len \in Nat, len > CHUNK_LEN, NEW n \in Nat
  PROVE  LET tree == Prefix(msg, n * CHUNK_LEN + len)
             c == Chunks(len)
             q == LeftNodes[c]
             pair == SubtreeToParentNode(Piece(msg, n * CHUNK_LEN, len), msg.key, n, msg.flags,
                                         simd)
         IN pair[1] = TreeCV(tree)[q][n] /\ pair[2] = TreeCV(tree)[c - q][n + q]
<1> DEFINE tree == Prefix(msg, n * CHUNK_LEN + len)
           c == Chunks(len)
           q == LeftNodes[c]
           v == Wide(msg, n, len, simd)
           top == TreeCV(tree)[c][n]
           pair == SubtreeToParentNode(Piece(msg, n * CHUNK_LEN, len), msg.key, n, msg.flags, simd)
           key == msg.key
           flags == msg.flags
<1>0. CHUNK_LEN \in Nat /\ CHUNK_LEN > 0 /\ len > 0 /\ simd \in Nat /\ simd > 0
  BY Lengths DEF Power
<1>1. c \in Nat /\ c > 1
  <2>1. ~(len <= 1 * CHUNK_LEN)
    BY <1>0
  <2>2. 1 \in Nat
    OBVIOUS
  <2>3. ~(c <= 1)
    BY ONLY <1>0, <2>1, <2>2, len \in Nat, FewChunks
  <2> QED BY <1>0, <2>3, ChunksIs
<1>2. WideOK(msg, n, len, simd)
  BY <1>0, WideTree
<1>3. tree.key = key /\ tree.flags = flags
  BY DEF Prefix
<1>4. PICK f : Condensed(f, v, key, flags) /\ pair = SubSeq(f[4], 1, 2)
  BY CondenseIs DEF Wide
<1>5. Fits(v, c, simd) /\ Spans(v, tree, n, c)
  BY <1>2 DEF WideOK
<1>6. top = Parent(TreeCV(tree)[q][n], TreeCV(tree)[c - q][n + q], key, flags)
  <2> HIDE DEF tree, c
  <2> QED BY <1>1, <1>3, TreeCVIs
<1> HIDE DEF tree, c, v, pair, key, flags, top
<1>7. List(v) /\ Len(v) >= 2 /\ Len(v) <= 16 /\ Len(v) \in Nat
  <2>1. Width(simd) <= 16
    BY <1>0 DEF Width
  <2>2. Len(v) \in Nat
    BY <1>5 DEF Fits, List
  <2>3. CASE c <= simd
    BY <1>0, <1>1, <1>5, <2>2, <2>3 DEF Fits
  <2>4. CASE c > simd
    BY <1>5, <2>1, <2>2, <2>4, <1>0 DEF Fits, Width
  <2> QED BY <1>0, <1>1, <2>3, <2>4
<1>8. Over(v, key, flags)[Len(v)][0] = top
  BY <1>3, <1>5 DEF Spans, top
<1>9. f[0] = v
  BY <1>4 DEF Condensed
<1> DEFINE Top(s) == List(s) /\ Len(s) >= 2 /\ Over(s, key, flags)[Len(s)][0] = top
<1>10. ASSUME NEW k \in Nat, Top(f[k])
       PROVE  Top(f[k + 1]) /\ (Len(f[k + 1]) <= 2 \/ 2 * Len(f[k + 1]) <= Len(f[k]) + 1)
  BY <1>4, <1>10, CondenseStep
<1>11. \A s : Top(s) => Len(s) \in Nat
  BY DEF List
<1>12. Top(f[0])
  BY <1>7, <1>8, <1>9
<1> HIDE DEF Top
<1>13. /\ Top(f[0 + 1]) /\ (Len(f[0 + 1]) <= 2 \/ 2 * Len(f[0 + 1]) <= Len(f[0]) + 1)
  BY <1>10, <1>12
<1>14. Top(f[1]) /\ Len(f[1]) <= 8
  BY <1>7, <1>9, <1>11, <1>13
<1>15. Top(f[1 + 1]) /\ (Len(f[1 + 1]) <= 2 \/ 2 * Len(f[1 + 1]) <= Len(f[1]) + 1)
  BY <1>10, <1>14
<1>16. Top(f[2]) /\ Len(f[2]) <= 4
  BY <1>11, <1>14, <1>15
<1>17. Top(f[2 + 1]) /\ (Len(f[2 + 1]) <= 2 \/ 2 * Len(f[2 + 1]) <= Len(f[2]) + 1)
  BY <1>10, <1>16
<1>18. Top(f[3]) /\ Len(f[3]) <= 2
  BY <1>11, <1>16, <1>17
<1>19. Top(f[3 + 1]) /\ (Len(f[3 + 1]) <= 2 \/ 2 * Len(f[3 + 1]) <= Len(f[3]) + 1)
  BY <1>10, <1>18
<1>20. Top(f[4]) /\ Len(f[4]) <= 2
  BY <1>11, <1>18, <1>19
<1> DEFINE s == f[4]
<1> HIDE DEF s
<1>21. List(s) /\ Len(s) = 2 /\ Over(s, key, flags)[2][0] = top
  <2>1. List(s) /\ Len(s) >= 2 /\ Len(s) \in Nat /\ ~(Len(s) > 2)
    BY <1>11, <1>20 DEF Top, s
  <2>2. Len(s) = 2
    BY <2>1, ExactlyTwo
  <2>3. Over(s, key, flags)[Len(s)][0] = top
    BY <1>20 DEF Top, s
  <2> QED BY <2>1, <2>2, <2>3
<1>22. pair = s
  <2>1. PICK V : s \in Seq(V)
    BY <1>21, ListSeq
  <2> QED BY <1>4, <1>21, <2>1 DEF s
<1>23. Parent(s[1], s[2], key, flags)
         = Parent(TreeCV(tree)[q][n], TreeCV(tree)[c - q][n + q], key, flags)
  BY <1>6, <1>21, TwoOver
<1>24. s[1] = TreeCV(tree)[q][n] /\ s[2] = TreeCV(tree)[c - q][n + q]
  BY <1>23, ParentApart
<1> QED BY <1>22, <1>24 DEF pair, tree, c

-----------------------------------------------------------------------------
(* The subtrees of full chunks.                                            *)

\* The chaining value of the k chunks from lo on, whatever follows them.
Full(msg, k, lo) == TreeCV(Prefix(msg, (lo + k) * CHUNK_LEN))[k][lo]

\* The value of full chunks does not depend on what follows them.
LEMMA FullIs ==
  ASSUME NEW msg, Stream(msg), NEW lo \in Nat, NEW k \in Nat, k > 0, NEW len \in Nat,
         (lo + k) * CHUNK_LEN <= len
  PROVE  TreeCV(Prefix(msg, len))[k][lo] = Full(msg, k, lo)
<1> DEFINE b == (lo + k) * CHUNK_LEN
<1>1. CHUNK_LEN \in Nat /\ lo + k \in Nat
  BY Lengths
<1>2. b \in Nat /\ b = lo * CHUNK_LEN + k * CHUNK_LEN
  BY <1>1, Times
<1>3. b <= len
  OBVIOUS
<1> HIDE DEF b
<1>4. b <= b /\ lo * CHUNK_LEN + k * CHUNK_LEN <= b /\ lo * CHUNK_LEN + k * CHUNK_LEN <= len
  BY <1>2, <1>3
<1>5. TreeCV(Prefix(msg, len))[k][lo] = TreeCV(Prefix(msg, b))[k][lo]
  BY ONLY <1>2, <1>4, Stream(msg), lo \in Nat, k \in Nat, k > 0, len \in Nat, SamePrefix
<1> QED BY <1>5 DEF Full, b

\* Two subtrees of the same power make one.
LEMMA FullTwo ==
  ASSUME NEW msg, Stream(msg), NEW p, Power(p), NEW lo \in Nat
  PROVE  Full(msg, 2 * p, lo)
           = Parent(Full(msg, p, lo), Full(msg, p, lo + p), msg.key, msg.flags)
<1> DEFINE m == 2 * p
           len == (lo + m) * CHUNK_LEN
           tree == Prefix(msg, len)
<1>1. p \in Nat /\ p > 0 /\ m \in Nat /\ m > 1 /\ m - p = p /\ lo + p \in Nat /\ CHUNK_LEN \in Nat
  BY Lengths DEF Power
<1>2. LeftNodes[m] = p
  BY <1>1, LeftUnique
<1>3. len \in Nat /\ (lo + p) * CHUNK_LEN <= len /\ ((lo + p) + p) * CHUNK_LEN <= len
  <2>1. lo + p <= lo + m /\ (lo + p) + p = lo + m /\ lo + m \in Nat /\ lo + m <= lo + m
    BY <1>1
  <2> QED BY <1>1, <2>1, Times
<1>4. tree.key = msg.key /\ tree.flags = msg.flags
  BY DEF Prefix
<1>5. TreeCV(tree)[m][lo] = Parent(TreeCV(tree)[p][lo], TreeCV(tree)[p][lo + p],
                                   msg.key, msg.flags)
  <2> HIDE DEF tree, m
  <2>1. TreeCV(tree)[m][lo] = Parent(TreeCV(tree)[LeftNodes[m]][lo],
                                     TreeCV(tree)[m - LeftNodes[m]][lo + LeftNodes[m]],
                                     tree.key, tree.flags)
    BY ONLY <1>1, lo \in Nat, TreeCVIs
  <2> QED BY <1>1, <1>2, <1>4, <2>1
<1>6. TreeCV(tree)[p][lo] = Full(msg, p, lo) /\ TreeCV(tree)[p][lo + p] = Full(msg, p, lo + p)
  <2> HIDE DEF len, m
  <2> QED BY <1>1, <1>3, FullIs
<1> QED BY <1>5, <1>6 DEF Full

\* A single chunk.
LEMMA FullOne ==
  ASSUME NEW msg, Stream(msg), NEW n \in Nat
  PROVE  Full(msg, 1, n) = ChainingValue(ChunkStateOutput(CS(msg, n, CHUNK_LEN)))
<1> DEFINE len == (n + 1) * CHUNK_LEN
           leaf == [c \in Nat |-> ChainingValue(ChunkNode(Prefix(msg, len), c))]
<1>1. len \in Nat /\ n * CHUNK_LEN + CHUNK_LEN <= len
  BY Lengths, Times
<1>2. ChunkNode(Prefix(msg, len), n) = ChunkStateOutput(CS(msg, n, CHUNK_LEN))
  <2> HIDE DEF len
  <2> QED BY <1>1, FullNode
<1>3. leaf[n] = ChainingValue(ChunkNode(Prefix(msg, len), n))
  OBVIOUS
<1>4. Full(msg, 1, n) = Subtree(leaf, Prefix(msg, len).key, Prefix(msg, len).flags)[1][n]
  BY DEF Full, TreeCV
<1> HIDE DEF leaf, len
<1>5. Full(msg, 1, n) = leaf[n]
  BY <1>4, SubtreeIs
<1> QED BY <1>2, <1>3, <1>5

-----------------------------------------------------------------------------
(* The stack.                                                              *)

\* The chaining values of subtrees of so many chunks that follow one another.
Sub(msg, sizes) == [x \in 1..Len(sizes) |-> Full(msg, sizes[x], Starts(sizes)[x])]

\* One subtree for each 1-bit of n.
Stack(msg, n) == Sub(msg, Bits[n])

\* The stack has one entry for each 1-bit of the number of chunks.
LEMMA StackType ==
  ASSUME NEW msg, NEW n \in Nat
  PROVE  List(Stack(msg, n)) /\ Len(Stack(msg, n)) = popcnt[n] /\ popcnt[n] \in Nat
<1> DEFINE sizes == Bits[n]
<1>1. Len(sizes) = popcnt[n] /\ popcnt[n] \in Nat
  BY BitsType, PopType
<1> HIDE DEF sizes
<1>2. List(Sub(msg, sizes)) /\ Len(Sub(msg, sizes)) = Len(sizes)
  BY <1>1, ListOf DEF Sub, List
<1> QED BY <1>1, <1>2 DEF Stack, sizes

\* One more subtree.
LEMMA SubAppend ==
  ASSUME NEW msg, NEW n \in Nat, NEW p \in Nat
  PROVE  Sub(msg, Bits[n] \o <<p>>) = Append(Stack(msg, n), Full(msg, p, n))
<1> DEFINE zs == Bits[n]
           ws == zs \o <<p>>
           k == Len(zs)
<1>1. zs \in Seq(Nat) /\ Starts(zs)[k + 1] = n /\ k \in Nat
  BY BitsType, BitsFillAll, PopType DEF BitsFill
<1>2. List(Stack(msg, n)) /\ Len(Stack(msg, n)) = k
  BY BitsType, StackType
<1>3. Stack(msg, n) = [x \in 1..k |-> Full(msg, zs[x], Starts(zs)[x])]
  BY DEF Stack, Sub
<1> HIDE DEF zs
<1>4. Len(ws) = k + 1 /\ ws[k + 1] = p /\ \A x \in 1..k : ws[x] = zs[x]
  BY <1>1
<1>5. \A x \in 1..(k + 1) : Starts(ws)[x] = Starts(zs)[x]
  <2> DEFINE one == <<p>>
  <2>1. one \in Seq(Nat)
    OBVIOUS
  <2> HIDE DEF one
  <2>2. \A x \in 1..(Len(zs) + 1) : Starts(zs \o one)[x] = Starts(zs)[x]
    BY <1>1, <2>1, StartsAppend
  <2> QED BY <2>2 DEF one
<1> HIDE DEF ws, k
<1>6. Sub(msg, ws) = [x \in 1..(k + 1) |-> Full(msg, ws[x], Starts(ws)[x])]
  BY <1>4 DEF Sub
<1> DEFINE s == Stack(msg, n)
           e == Full(msg, p, n)
<1>7. \A x \in 1..k : s[x] = Full(msg, zs[x], Starts(zs)[x])
  BY <1>3
<1> HIDE DEF s, e
<1>8. Append(s, e) = [x \in 1..(k + 1) |-> IF x <= k THEN s[x] ELSE e]
  <2>1. PICK V : s \in Seq(V)
    BY <1>2, ListSeq DEF s
  <2>2. Append(s, e) \in Seq(V \cup {e}) /\ Len(Append(s, e)) = k + 1
    <3>1. s \in Seq(V \cup {e}) /\ e \in V \cup {e} /\ Len(s) = k
      BY <1>2, <2>1 DEF s
    <3> QED BY <3>1
  <2>3. \A x \in 1..(k + 1) : Append(s, e)[x] = IF x <= k THEN s[x] ELSE e
    BY <1>1, <1>2, <2>1 DEF s
  <2> DEFINE t == Append(s, e)
  <2>4. t = [x \in 1..(k + 1) |-> t[x]]
    <3>1. List(t)
      BY <2>2, SeqList
    <3> QED BY <2>2, <3>1 DEF List
  <2> HIDE DEF t
  <2>5. \A x \in 1..(k + 1) : t[x] = IF x <= k THEN s[x] ELSE e
    BY <2>3 DEF t
  <2>6. t = [x \in 1..(k + 1) |-> IF x <= k THEN s[x] ELSE e]
    BY <2>4, <2>5
  <2> QED BY <2>6 DEF t
<1>9. ASSUME NEW x \in 1..(k + 1)
      PROVE  Full(msg, ws[x], Starts(ws)[x]) = IF x <= k THEN s[x] ELSE e
  <2>1. CASE x <= k
    <3>1. x \in 1..k
      BY <1>1, <2>1
    <3> QED BY <1>4, <1>5, <1>7, <2>1, <3>1
  <2>2. CASE ~(x <= k)
    <3>1. x = k + 1
      BY <1>1, <2>2
    <3> QED BY <1>1, <1>4, <1>5, <2>2, <3>1 DEF e
  <2> QED BY <2>1, <2>2
<1> QED BY <1>6, <1>8, <1>9 DEF s, e, ws, zs

\* The next lower bit of a number.
LEMMA StackNext ==
  ASSUME NEW msg, NEW p, Power(p), NEW m \in Nat, Divides(2 * p, m)
  PROVE  Stack(msg, m + p) = Append(Stack(msg, m), Full(msg, p, m))
<1>1. Bits[m + p] = Bits[m] \o <<p>> /\ p \in Nat
  BY BitsAppend DEF Power
<1> QED BY <1>1, SubAppend DEF Stack

\* The entries at the top of a stack.
LEMMA TopTwo ==
  ASSUME NEW s, List(s), NEW x, NEW y
  PROVE  LET st == Append(Append(s, x), y)
         IN /\ List(st) /\ Len(st) = Len(s) + 2 /\ Len(st) \in Nat
            /\ SubSeq(st, 1, Len(st) - 2) = s
            /\ st[Len(st) - 1] = x /\ st[Len(st)] = y
<1> DEFINE st == Append(Append(s, x), y)
<1>1. PICK V : s \in Seq(V)
  BY ListSeq
<1> DEFINE W == V \cup {x, y}
<1>2. s \in Seq(W) /\ x \in W /\ y \in W
  BY <1>1
<1> HIDE DEF W
<1>3. st \in Seq(W) /\ Len(st) = Len(s) + 2 /\ Len(s) \in Nat
  BY <1>2
<1>4. st[Len(s) + 1] = x /\ st[Len(s) + 2] = y /\ \A i \in 1..Len(s) : st[i] = s[i]
  BY <1>2
<1> HIDE DEF st
<1>5. SubSeq(st, 1, Len(s)) = s
  <2> DEFINE u == SubSeq(st, 1, Len(s))
  <2>1. u \in Seq(W) /\ Len(u) = Len(s) /\ \A i \in 1..Len(s) : u[i] = s[i]
    BY <1>3, <1>4
  <2> HIDE DEF u
  <2>2. u = s
    BY <1>2, <2>1
  <2> QED BY <2>2 DEF u
<1>6. Len(st) - 2 = Len(s) /\ Len(st) - 1 = Len(s) + 1
  BY <1>3
<1>7. List(st)
  BY <1>3, SeqList
<1> QED BY <1>3, <1>4, <1>5, <1>6, <1>7 DEF st

\* One more entry.
LEMMA TopOne ==
  ASSUME NEW s, List(s), NEW x
  PROVE  List(Append(s, x)) /\ Len(Append(s, x)) = Len(s) + 1 /\ Len(s) \in Nat
<1>1. PICK V : s \in Seq(V)
  BY ListSeq
<1> DEFINE W == V \cup {x}
<1>2. s \in Seq(W) /\ x \in W
  BY <1>1
<1> HIDE DEF W
<1>3. Append(s, x) \in Seq(W) /\ Len(Append(s, x)) = Len(s) + 1 /\ Len(s) \in Nat
  BY <1>2
<1> QED BY <1>3, SeqList

-----------------------------------------------------------------------------
(* Merging.                                                                *)

MergedDef(p, g, k) ==
  IF k = 0 THEN p.st
  ELSE Append(SubSeq(g[k - 1], 1, Len(g[k - 1]) - 2),
              Parent(g[k - 1][Len(g[k - 1]) - 1], g[k - 1][Len(g[k - 1])], p.key, p.flags))
MergedR == INSTANCE Recursion WITH Dom <- Numbers, Size <- Itself, Def <- MergedDef

\* f has the stacks while their two last entries are merged.
Merged(f, st, key, flags) ==
  /\ f[0] = st
  /\ \A k \in Nat :
       f[k + 1] = Append(SubSeq(f[k], 1, Len(f[k]) - 2),
                         Parent(f[k][Len(f[k]) - 1], f[k][Len(f[k])], key, flags))

\* The loop of hasher_merge_cv_stack, merge by merge.
LEMMA MergeIs ==
  ASSUME NEW h, NEW n
  PROVE  \E f : /\ Merged(f, h.cv_stack, h.key, h.chunk.flags)
                /\ MergeCvStack(h, n)
                     = [h EXCEPT !.cv_stack =
                          f[IF Len(h.cv_stack) > popcnt[n] THEN Len(h.cv_stack) - popcnt[n] ELSE 0]]
<1> DEFINE st0 == h.cv_stack
           key == h.key
           flags == h.chunk.flags
           p == [st |-> st0, key |-> key, flags |-> flags]
           Step(g, k) == IF k = 0 THEN st0
                         ELSE LET st == g[k - 1]
                                  nn == Len(st)
                              IN Append(SubSeq(st, 1, nn - 2),
                                        ChainingValue(ParentOutput(st[nn - 1], st[nn], key, flags)))
           f == CHOOSE g : g = [k \in Nat |-> Step(g, k)]
<1>1. p.st = st0 /\ p.key = key /\ p.flags = flags
  OBVIOUS
<1>2. MergeCvStack(h, n)
        = [h EXCEPT !.cv_stack =
             f[IF Len(h.cv_stack) > popcnt[n] THEN Len(h.cv_stack) - popcnt[n] ELSE 0]]
  BY DEF MergeCvStack
<1> HIDE DEF p, st0, key, flags
<1>3. MergedR!WellFormed(p)
  <2>1. ASSUME NEW g1, NEW g2, NEW k \in Nat, \A y \in Nat : y < k => g1[y] = g2[y]
        PROVE  MergedDef(p, g1, k) = MergedDef(p, g2, k)
    <3>1. CASE k = 0
      BY <3>1 DEF MergedDef
    <3>2. CASE k # 0
      <4>1. g1[k - 1] = g2[k - 1]
        BY <2>1, <3>2
      <4> QED BY <4>1 DEF MergedDef
    <3> QED BY <3>1, <3>2
  <2> QED BY <2>1 DEF MergedR!WellFormed, Numbers, Itself
<1>4. \E g : g = [k \in Nat |-> MergedDef(p, g, k)]
  BY <1>3, MergedR!RecursiveFunction DEF Numbers
<1>5. ASSUME NEW g, NEW k PROVE MergedDef(p, g, k) = Step(g, k)
  BY <1>1, Zenon DEF MergedDef, Parent
<1> HIDE DEF Step
<1>6. \E g : g = [k \in Nat |-> Step(g, k)]
  BY <1>4, <1>5
<1>7. f = [k \in Nat |-> Step(f, k)]
  BY <1>6
<1> HIDE DEF f
<1>8. f[0] = st0
  BY <1>7 DEF Step
<1>9. ASSUME NEW k \in Nat
      PROVE  f[k + 1] = Append(SubSeq(f[k], 1, Len(f[k]) - 2),
                               Parent(f[k][Len(f[k]) - 1], f[k][Len(f[k])], key, flags))
  <2> DEFINE m == k + 1
  <2>1. m \in Nat /\ m # 0 /\ m - 1 = k
    BY ONLY k \in Nat, NextNumber, Zenon
  <2> HIDE DEF m
  <2>2. f[m] = Step(f, m)
    BY ONLY <1>7, <2>1
  <2>3. f[m] = Append(SubSeq(f[k], 1, Len(f[k]) - 2),
                      Parent(f[k][Len(f[k]) - 1], f[k][Len(f[k])], key, flags))
    BY ONLY <2>1, <2>2, Zenon DEF Step, Parent
  <2> QED BY <2>3 DEF m
<1>10. Merged(f, st0, key, flags)
  BY <1>8, <1>9 DEF Merged
<1> QED BY <1>2, <1>10 DEF st0, key, flags

\* A stack of the subtrees of m chunks and the one of p after them.
Tip(msg, m, p) == Append(Stack(msg, m), Full(msg, p, m))

TipDone(msg, m, p) ==
  /\ Divides(2 * p, m) /\ Tip(msg, m, p) = Stack(msg, m + p)
  /\ popcnt[m + p] = popcnt[m] + 1

TipTwin(msg, m, p, b) ==
  /\ b \in Nat /\ m = b + p /\ Divides(2 * p, b) /\ popcnt[m] = popcnt[b] + 1
  /\ popcnt[m + p] <= popcnt[b] + 1 /\ popcnt[b] \in Nat
  /\ Tip(msg, m, p) = Append(Append(Stack(msg, b), Full(msg, p, b)), Full(msg, p, b + p))

\* It is what its number of chunks calls for, or two subtrees of the same
\* size end it.
LEMMA TipCases ==
  ASSUME NEW msg, Stream(msg), NEW m \in Nat, NEW p, Power(p), Divides(p, m)
  PROVE  /\ List(Tip(msg, m, p)) /\ Len(Tip(msg, m, p)) = popcnt[m] + 1
         /\ popcnt[m + p] <= popcnt[m] + 1 /\ popcnt[m] \in Nat /\ popcnt[m + p] \in Nat
         /\ TipDone(msg, m, p) \/ \E b : TipTwin(msg, m, p, b)
<1>0. p \in Nat /\ p > 0 /\ m + p \in Nat
  BY DEF Power
<1>1. List(Tip(msg, m, p)) /\ Len(Tip(msg, m, p)) = popcnt[m] + 1
  BY StackType, TopOne DEF Tip
<1>2. popcnt[m + p] <= popcnt[m] + 1 /\ popcnt[m] \in Nat /\ popcnt[m + p] \in Nat
  BY <1>0, PopSum, PopType
<1>3. CASE Divides(2 * p, m)
  BY <1>1, <1>2, <1>3, StackNext, PopLow DEF Tip, TipDone
<1>4. CASE \E b \in Nat : m = b + p /\ Divides(2 * p, b)
  <2>1. PICK b \in Nat : m = b + p /\ Divides(2 * p, b)
    BY <1>4
  <2>2. Stack(msg, b + p) = Append(Stack(msg, b), Full(msg, p, b))
    BY <2>1, StackNext
  <2>3. popcnt[b + p] = popcnt[b] + 1 /\ popcnt[b] \in Nat
    BY <2>1, PopLow, PopType
  <2>4. popcnt[m + p] <= popcnt[b] + 1
    <3> DEFINE d == 2 * p
    <3>1. d \in Nat /\ Power(d)
      BY <1>0, Doubled
    <3>2. m + p = b + d
      BY <1>0, <2>1
    <3> HIDE DEF d
    <3>3. Divides(d, b)
      BY <2>1 DEF d
    <3>4. popcnt[b + d] <= popcnt[b] + 1
      BY <3>1, <3>3, PopSum
    <3> QED BY <3>2, <3>4
  <2>5. Tip(msg, m, p) = Append(Append(Stack(msg, b), Full(msg, p, b)), Full(msg, p, b + p))
    BY <2>1, <2>2 DEF Tip
  <2> QED BY <1>1, <1>2, <2>1, <2>3, <2>4, <2>5 DEF TipTwin
<1> QED BY <1>0, <1>3, <1>4, EvenOrNot

\* Merging stops at one subtree for each 1-bit.
LEMMA MergeTip ==
  ASSUME NEW msg, Stream(msg), NEW m \in Nat, NEW p, Power(p), Divides(p, m), NEW h,
         h.key = msg.key, h.chunk.flags = msg.flags, h.cv_stack = Tip(msg, m, p)
  PROVE  MergeCvStack(h, m + p) = [h EXCEPT !.cv_stack = Stack(msg, m + p)]
<1> DEFINE n == m + p
           post == popcnt[n]
           len == Len(Tip(msg, m, p))
           d == len - post
           key == msg.key
           flags == msg.flags
<1>0. p \in Nat /\ n \in Nat
  BY DEF Power
<1>1. /\ len = popcnt[m] + 1 /\ post <= len /\ len \in Nat /\ post \in Nat /\ d \in Nat
      /\ d = IF len > post THEN len - post ELSE 0
  <2>1. len = popcnt[m] + 1 /\ post <= popcnt[m] + 1 /\ popcnt[m] \in Nat /\ post \in Nat
    BY TipCases
  <2> HIDE DEF len, post
  <2> QED BY <2>1
<1>2. PICK f : /\ Merged(f, Tip(msg, m, p), key, flags)
               /\ MergeCvStack(h, n) = [h EXCEPT !.cv_stack = f[d]]
  <2> HIDE DEF n, d
  <2>1. PICK f : /\ Merged(f, h.cv_stack, h.key, h.chunk.flags)
                 /\ MergeCvStack(h, n)
                     = [h EXCEPT !.cv_stack =
                          f[IF Len(h.cv_stack) > popcnt[n] THEN Len(h.cv_stack) - popcnt[n] ELSE 0]]
    BY MergeIs
  <2>2. (IF Len(h.cv_stack) > popcnt[n] THEN Len(h.cv_stack) - popcnt[n] ELSE 0) = d
    BY <1>1
  <2> QED BY <2>1, <2>2
<1> DEFINE At2(k) == \E b, q \in Nat : /\ b + q = n /\ Power(q) /\ Divides(q, b)
                                       /\ f[k] = Tip(msg, b, q) /\ popcnt[b] + 1 = len - k
           S == {k \in Nat : k <= d => At2(k)}
<1>3. ASSUME NEW k \in Nat, \A j \in Nat : j < k => j \in S
      PROVE  k \in S
  <2> SUFFICES ASSUME k <= d PROVE At2(k)
    OBVIOUS
  <2>1. CASE k = 0
    <3>1. f[k] = Tip(msg, m, p) /\ popcnt[m] + 1 = len - k
      BY <1>1, <1>2, <2>1 DEF Merged
    <3> QED BY <1>0, <3>1
  <2>2. CASE k # 0
    <3> DEFINE j == k - 1
    <3>1. j \in Nat /\ j < k /\ j < d /\ j <= d /\ k = j + 1
      BY <1>1, <2>2
    <3> HIDE DEF j
    <3>2. At2(j)
      BY <1>3, <3>1
    <3>3. PICK b, q \in Nat : /\ b + q = n /\ Power(q) /\ Divides(q, b)
                              /\ f[j] = Tip(msg, b, q) /\ popcnt[b] + 1 = len - j
      BY <3>2
    <3>4. popcnt[b] + 1 > post
      BY <1>1, <3>1, <3>3
    <3>5. ~(popcnt[b + q] = popcnt[b] + 1)
      <4> HIDE DEF n
      <4>1. popcnt[b + q] = post /\ popcnt[b] \in Nat
        BY <3>3, PopType
      <4> QED BY <1>1, <3>4, <4>1
    <3>a. PICK c : TipTwin(msg, b, q, c)
      <4>1. TipDone(msg, b, q) \/ \E c : TipTwin(msg, b, q, c)
        BY <3>3, TipCases
      <4> QED BY <3>5, <4>1 DEF TipDone
    <3>6. /\ c \in Nat /\ b = c + q /\ Divides(2 * q, c) /\ popcnt[b] = popcnt[c] + 1
          /\ popcnt[c] \in Nat
          /\ Tip(msg, b, q) = Append(Append(Stack(msg, c), Full(msg, q, c)),
                                     Full(msg, q, c + q))
      BY <3>a DEF TipTwin
    <3> DEFINE st == f[j]
               u == Stack(msg, c)
               x == Full(msg, q, c)
               y == Full(msg, q, c + q)
    <3>7. st = Append(Append(u, x), y)
      BY <3>3, <3>6
    <3>8. List(u)
      BY <3>6, StackType
    <3>9. f[j + 1] = Append(SubSeq(st, 1, Len(st) - 2),
                            Parent(st[Len(st) - 1], st[Len(st)], key, flags))
      BY <1>2, <3>1 DEF Merged
    <3>10. SubSeq(st, 1, Len(st) - 2) = u /\ st[Len(st) - 1] = x /\ st[Len(st)] = y
      <4> HIDE DEF st, u, x, y
      <4> QED BY <3>7, <3>8, TopTwo
    <3>11. Parent(x, y, key, flags) = Full(msg, 2 * q, c)
      BY <3>3, <3>6, FullTwo
    <3>12. f[k] = Tip(msg, c, 2 * q)
      BY <3>1, <3>9, <3>10, <3>11 DEF Tip
    <3> HIDE DEF st, u, x, y
    <3>13. Power(2 * q) /\ 2 * q \in Nat /\ c + 2 * q = n
      BY <3>3, <3>6, Doubled
    <3>14. popcnt[c] + 1 = len - k
      <4>1. (popcnt[c] + 1) + 1 = len - j
        BY <3>3, <3>6
      <4>2. len \in Nat
        BY <1>1
      <4>3. j \in Nat /\ k = j + 1 /\ popcnt[c] \in Nat
        BY <3>1, <3>6
      <4> HIDE DEF len
      <4> QED BY ONLY <4>1, <4>2, <4>3
    <3> QED BY <3>6, <3>12, <3>13, <3>14
  <2> QED BY <2>1, <2>2
<1> HIDE DEF S
<1>4. S = Nat
  BY <1>3, Induct DEF S
<1>5. At2(d)
  <2>1. d \in S /\ d <= d
    BY <1>1, <1>4
  <2> HIDE DEF d, At2
  <2> QED BY <2>1 DEF S
<1>6. PICK b, q \in Nat : /\ b + q = n /\ Power(q) /\ Divides(q, b)
                          /\ f[d] = Tip(msg, b, q) /\ popcnt[b] + 1 = len - d
  BY <1>5
<1>7. popcnt[b] + 1 = post
  BY <1>1, <1>6
<1>8. Tip(msg, b, q) = Stack(msg, n)
  <2> HIDE DEF n
  <2>1. popcnt[b + q] = popcnt[b] + 1
    BY <1>6, <1>7
  <2>2. ASSUME NEW c, TipTwin(msg, b, q, c) PROVE FALSE
    <3>1. popcnt[b] = popcnt[c] + 1 /\ popcnt[b + q] <= popcnt[c] + 1 /\ popcnt[c] \in Nat
      BY <2>2 DEF TipTwin
    <3> QED BY <2>1, <3>1
  <2>3. TipDone(msg, b, q) \/ \E c : TipTwin(msg, b, q, c)
    BY <1>6, TipCases
  <2>4. TipDone(msg, b, q)
    BY <2>2, <2>3
  <2> QED BY <1>6, <2>4 DEF TipDone
<1> QED BY <1>2, <1>6, <1>8

\* Nothing is merged when there is one subtree for each 1-bit.
LEMMA MergeNone ==
  ASSUME NEW msg, NEW n \in Nat, NEW h, h.key = msg.key, h.chunk.flags = msg.flags,
         h.cv_stack = Stack(msg, n)
  PROVE  MergeCvStack(h, n) = [h EXCEPT !.cv_stack = Stack(msg, n)]
<1> DEFINE over == IF Len(h.cv_stack) > popcnt[n] THEN Len(h.cv_stack) - popcnt[n] ELSE 0
<1>1. PICK f : /\ Merged(f, h.cv_stack, h.key, h.chunk.flags)
               /\ MergeCvStack(h, n) = [h EXCEPT !.cv_stack = f[over]]
  <2>1. \E f : /\ Merged(f, h.cv_stack, h.key, h.chunk.flags)
               /\ MergeCvStack(h, n) = [h EXCEPT !.cv_stack = f[over]]
    BY ONLY MergeIs
  <2> HIDE DEF over
  <2> QED BY <2>1
<1>2. ~(Len(h.cv_stack) > popcnt[n])
  BY StackType
<1>3. f[0] = Stack(msg, n)
  BY <1>1 DEF Merged
<1> QED BY <1>1, <1>2, <1>3

-----------------------------------------------------------------------------
(* What the hasher may be before a chunk.                                  *)

\* A hasher with k bytes of chunk n.
H(msg, n, k, st) == [key |-> msg.key, chunk |-> CS(msg, n, k), cv_stack |-> st]

\* The stack is that of n chunks, or not merged yet.
Stacked(msg, n, st) ==
  \/ st = Stack(msg, n)
  \/ \E m, p \in Nat : n = m + p /\ Power(p) /\ Divides(p, m) /\ st = Tip(msg, m, p)

\* The last subtree is still in two halves.
Loose(msg, n, st) ==
  \E m, p \in Nat : n = m + p /\ Power(p) /\ Divides(p, m) /\ Divides(2 * p, n)
                    /\ st = Tip(msg, m, p)

\* hasher_merge_cv_stack leaves one subtree for each 1-bit.
LEMMA MergeH ==
  ASSUME NEW msg, Stream(msg), NEW n \in Nat, NEW st, Stacked(msg, n, st), NEW i, NEW k
  PROVE  MergeCvStack(H(msg, i, k, st), n) = H(msg, i, k, Stack(msg, n))
<1> DEFINE h == H(msg, i, k, st)
<1>1. h.key = msg.key /\ h.chunk.flags = msg.flags /\ h.cv_stack = st
  BY DEF H, CS, State
<1>2. [h EXCEPT !.cv_stack = Stack(msg, n)] = H(msg, i, k, Stack(msg, n))
  BY DEF H
<1> HIDE DEF h
<1>3. MergeCvStack(h, n) = [h EXCEPT !.cv_stack = Stack(msg, n)]
  <2>1. CASE st = Stack(msg, n)
    BY <1>1, <2>1, MergeNone
  <2>2. CASE \E m, p \in Nat : n = m + p /\ Power(p) /\ Divides(p, m) /\ st = Tip(msg, m, p)
    <3>1. PICK m, p \in Nat : n = m + p /\ Power(p) /\ Divides(p, m) /\ st = Tip(msg, m, p)
      BY <2>2
    <3>2. h.cv_stack = Tip(msg, m, p)
      BY <1>1, <3>1
    <3>3. MergeCvStack(h, m + p) = [h EXCEPT !.cv_stack = Stack(msg, m + p)]
      BY ONLY <1>1, <3>1, <3>2, Stream(msg), MergeTip
    <3> QED BY <3>1, <3>3
  <2> QED BY <2>1, <2>2 DEF Stacked
<1> QED BY <1>2, <1>3 DEF h

\* hasher_push_cv merges first and puts the new value on top.
LEMMA PushH ==
  ASSUME NEW msg, Stream(msg), NEW n \in Nat, NEW st, Stacked(msg, n, st), NEW i, NEW k, NEW cv
  PROVE  PushCv(H(msg, i, k, st), cv, n) = H(msg, i, k, Append(Stack(msg, n), cv))
<1> DEFINE h == H(msg, i, k, Stack(msg, n))
<1>1. MergeCvStack(H(msg, i, k, st), n) = h
  BY MergeH
<1>2. [h EXCEPT !.cv_stack = Append(@, cv)] = H(msg, i, k, Append(Stack(msg, n), cv))
  <2> DEFINE key == msg.key
             chunk == CS(msg, i, k)
             st1 == Stack(msg, n)
             st2 == Append(st1, cv)
  <2>1. h = [key |-> key, chunk |-> chunk, cv_stack |-> st1]
    BY DEF H
  <2>2. [h EXCEPT !.cv_stack = Append(@, cv)] = [h EXCEPT !.cv_stack = st2]
    BY <2>1
  <2> HIDE DEF h, key, chunk, st1, st2
  <2>3. [h EXCEPT !.cv_stack = st2] = [key |-> key, chunk |-> chunk, cv_stack |-> st2]
    BY ONLY <2>1
  <2> QED BY <2>2, <2>3 DEF H, key, chunk, st1, st2
<1> QED BY <1>1, <1>2 DEF PushCv

\* A subtree of a power of chunks that divides the number before it.
LEMMA TipStacked ==
  ASSUME NEW msg, NEW m \in Nat, NEW p, Power(p), Divides(p, m)
  PROVE  Stacked(msg, m + p, Tip(msg, m, p))
BY DEF Stacked, Power

\* A chunk that is full is put on the stack, and the next one begins.
LEMMA FinishH ==
  ASSUME NEW msg, Stream(msg), NEW n \in Nat
  PROVE  FinishChunk(H(msg, n, CHUNK_LEN, Stack(msg, n))) = H(msg, n + 1, 0, Tip(msg, n, 1))
<1> DEFINE st == Stack(msg, n)
           h == H(msg, n, CHUNK_LEN, st)
           cv == ChainingValue(ChunkStateOutput(CS(msg, n, CHUNK_LEN)))
           pushed == H(msg, n, CHUNK_LEN, Append(st, cv))
<1>1. Stacked(msg, n, st)
  BY DEF Stacked
<1>2. h.chunk.chunk_counter = n /\ h.chunk = CS(msg, n, CHUNK_LEN) /\ h.key = msg.key
  BY DEF H, CS, State
<1>3. PushCv(h, cv, n) = pushed
  BY <1>1, PushH
<1>4. cv = Full(msg, 1, n)
  BY FullOne
<1>5. pushed.chunk.flags = msg.flags
  BY DEF H, CS, State
<1>6. ChunkState(msg.key, n + 1, msg.flags) = CS(msg, n + 1, 0)
  BY NewChunk
<1> DEFINE c == CS(msg, n + 1, 0)
<1>7. [pushed EXCEPT !.chunk = c] = H(msg, n + 1, 0, Append(st, cv))
  <2> DEFINE key == msg.key
             old == CS(msg, n, CHUNK_LEN)
             top == Append(st, cv)
  <2>1. pushed = [key |-> key, chunk |-> old, cv_stack |-> top]
    BY DEF H
  <2> HIDE DEF pushed, key, old, top, c
  <2>2. [pushed EXCEPT !.chunk = c] = [key |-> key, chunk |-> c, cv_stack |-> top]
    BY ONLY <2>1
  <2> QED BY <2>2 DEF H, key, c, top
<1> HIDE DEF h, cv, pushed, c
<1>8. FinishChunk(h) = [pushed EXCEPT !.chunk = ChunkState(msg.key, n + 1, @.flags)]
  BY <1>2, <1>3 DEF FinishChunk, cv
<1>9. FinishChunk(h) = [pushed EXCEPT !.chunk = c]
  BY <1>5, <1>6, <1>8 DEF c
<1> QED BY <1>4, <1>7, <1>9 DEF Tip, h

-----------------------------------------------------------------------------
(* A subtree.                                                              *)

\* The chunk that starts after a subtree.
LEMMA SkipChunks ==
  ASSUME NEW msg, Stream(msg), NEW n \in Nat, NEW p \in Nat, NEW st
  PROVE  [H(msg, n, 0, st) EXCEPT !.chunk.chunk_counter = @ + p] = H(msg, n + p, 0, st)
<1>1. CS(msg, n, 0) = ChunkState(msg.key, n, msg.flags)
        /\ CS(msg, n + p, 0) = ChunkState(msg.key, n + p, msg.flags)
  BY NewChunk
<1> DEFINE c == ChunkState(msg.key, n, msg.flags)
           d == ChunkState(msg.key, n + p, msg.flags)
<1>2. [c EXCEPT !.chunk_counter = @ + p] = d /\ c.chunk_counter = n
  BY DEF ChunkState
<1> DEFINE h == H(msg, n, 0, st)
<1>3. h.chunk = c /\ [h EXCEPT !.chunk = d] = H(msg, n + p, 0, st)
  BY <1>1 DEF H
<1> HIDE DEF c, d, h
<1>4. [h EXCEPT !.chunk.chunk_counter = @ + p] = [h EXCEPT !.chunk = d]
  BY <1>2, <1>3
<1> QED BY <1>3, <1>4 DEF h

\* A single chunk of hasher_update has the value of that chunk in the tree.
LEMMA OneChunk ==
  ASSUME NEW msg, Stream(msg), NEW n \in Nat
  PROVE  ChunkCV(Piece(msg, n * CHUNK_LEN, CHUNK_LEN), msg.key, n, msg.flags) = Full(msg, 1, n)
<1> DEFINE x == n * CHUNK_LEN
<1>1. x \in Nat /\ CHUNK_LEN \in Nat /\ x + 0 = x /\ 0 + CHUNK_LEN = CHUNK_LEN /\ 0 \in Nat
        /\ 0 + CHUNK_LEN <= CHUNK_LEN
  BY Lengths, Times
<1>2. ChunkStateUpdate(CS(msg, n, 0), Piece(msg, n * CHUNK_LEN + 0, CHUNK_LEN))
        = CS(msg, n, 0 + CHUNK_LEN)
  <2> HIDE DEF x
  <2> QED BY ONLY <1>1, n \in Nat, Stream(msg), ChunkUpdate
<1>3. ChunkStateUpdate(ChunkState(msg.key, n, msg.flags), Piece(msg, n * CHUNK_LEN, CHUNK_LEN))
        = CS(msg, n, CHUNK_LEN)
  BY <1>1, <1>2, NewChunk
<1> QED BY <1>3, FullOne DEF ChunkCV

\* The halves of a subtree of p chunks.
LEMMA TwoHalves ==
  ASSUME NEW msg, Stream(msg), NEW simd, Power(simd), simd <= 16,
         NEW n \in Nat, NEW p, Power(p), p > 1
  PROVE  \E q \in Nat :
           LET pair == SubtreeToParentNode(Piece(msg, n * CHUNK_LEN, p * CHUNK_LEN), msg.key, n,
                                           msg.flags, simd)
           IN /\ Power(q) /\ p = 2 * q /\ p \div 2 = q
              /\ pair[1] = Full(msg, q, n) /\ pair[2] = Full(msg, q, n + q)
<1> DEFINE len == p * CHUNK_LEN
           tree == Prefix(msg, n * CHUNK_LEN + len)
           q == LeftNodes[p]
           total0 == n * CHUNK_LEN + len
<1>0. p \in Nat /\ CHUNK_LEN \in Nat /\ CHUNK_LEN > 0
  BY Lengths DEF Power
<1>1. /\ Power(q) /\ p = 2 * q /\ q \in Nat /\ q > 0
  <2>1. Power(1) /\ p > 1
    BY Doubled
  <2> HIDE DEF q
  <2>2. Power(LeftNodes[p]) /\ p = 2 * LeftNodes[p]
    BY <1>0, <2>1, HalfSizes
  <2> QED BY <2>2 DEF Power, q
<1> HIDE DEF q
<1>2. len \in Nat /\ len > 0 /\ len > CHUNK_LEN
  <2>1. 1 * CHUNK_LEN + CHUNK_LEN <= p * CHUNK_LEN /\ p * CHUNK_LEN \in Nat
    BY <1>0, Times
  <2>2. 1 * CHUNK_LEN = CHUNK_LEN
    BY <1>0
  <2> HIDE DEF len
  <2>3. CHUNK_LEN + CHUNK_LEN <= len /\ len \in Nat
    BY <2>1, <2>2 DEF len
  <2> QED BY <1>0, <2>3
<1>3. Chunks(len) = p
  <2>1. len \div CHUNK_LEN = p /\ len % CHUNK_LEN = 0
    BY <1>0, DivTimes
  <2> HIDE DEF len
  <2> QED BY <1>2, <2>1, ChunksIs
<1> DEFINE pair == SubtreeToParentNode(Piece(msg, n * CHUNK_LEN, len), msg.key, n, msg.flags, simd)
<1>4. pair[1] = TreeCV(tree)[LeftNodes[p]][n]
        /\ pair[2] = TreeCV(tree)[p - LeftNodes[p]][n + LeftNodes[p]]
  <2> HIDE DEF len
  <2>1. pair[1] = TreeCV(tree)[LeftNodes[Chunks(len)]][n]
        /\ pair[2] = TreeCV(tree)[Chunks(len) - LeftNodes[Chunks(len)]][n + LeftNodes[Chunks(len)]]
    BY <1>2, ParentNode
  <2> QED BY <1>3, <2>1
<1>5. pair[1] = TreeCV(tree)[q][n] /\ pair[2] = TreeCV(tree)[q][n + q]
  <2>1. p - q = q
    BY <1>0, <1>1
  <2> QED BY <1>4, <2>1 DEF q
<1>6. /\ total0 \in Nat /\ (n + q) * CHUNK_LEN <= total0 /\ ((n + q) + q) * CHUNK_LEN <= total0
      /\ n + q \in Nat
  <2>1. /\ n + q \in Nat /\ n + p \in Nat /\ n + q <= n + p /\ (n + q) + q = n + p
        /\ n + p <= n + p
    BY <1>0, <1>1
  <2>2. (n + p) * CHUNK_LEN = total0 /\ (n + p) * CHUNK_LEN \in Nat
    BY <1>0, Times
  <2>3. (n + q) * CHUNK_LEN <= (n + p) * CHUNK_LEN
    BY <1>0, <2>1, Times
  <2> DEFINE u == (n + p) * CHUNK_LEN
             w == (n + q) * CHUNK_LEN
  <2>4. u \in Nat /\ u = total0 /\ w <= u /\ ((n + q) + q) * CHUNK_LEN = u
    BY <2>1, <2>2, <2>3
  <2> HIDE DEF u, total0
  <2>5. w <= total0 /\ ((n + q) + q) * CHUNK_LEN <= total0 /\ total0 \in Nat
    <3> HIDE DEF w
    <3>1. u <= u
      BY <2>4
    <3> QED BY <2>4, <3>1
  <2> QED BY <2>1, <2>5
<1>7. TreeCV(tree)[q][n] = Full(msg, q, n) /\ TreeCV(tree)[q][n + q] = Full(msg, q, n + q)
  <2> HIDE DEF total0
  <2>1. TreeCV(Prefix(msg, total0))[q][n] = Full(msg, q, n)
    BY ONLY <1>1, <1>6, n \in Nat, Stream(msg), FullIs
  <2>2. TreeCV(Prefix(msg, total0))[q][n + q] = Full(msg, q, n + q)
    <3> DEFINE lo == n + q
    <3>1. lo \in Nat /\ (lo + q) * CHUNK_LEN <= total0 /\ total0 \in Nat
      BY <1>6
    <3> HIDE DEF lo
    <3>2. TreeCV(Prefix(msg, total0))[q][lo] = Full(msg, q, lo)
      BY ONLY <1>1, <3>1, Stream(msg), FullIs
    <3> QED BY <3>2 DEF lo
  <2> QED BY <2>1, <2>2 DEF total0
<1>8. p \div 2 = q
  BY <1>1
<1> HIDE DEF pair
<1>9. Power(q) /\ p = 2 * q /\ p \div 2 = q
              /\ pair[1] = Full(msg, q, n) /\ pair[2] = Full(msg, q, n + q)
  BY <1>1, <1>5, <1>7, <1>8
<1> QED BY <1>1, <1>9 DEF pair

\* One subtree of hasher_update brings the hasher p chunks further.
LEMMA SubtreeH ==
  ASSUME NEW msg, Stream(msg), NEW simd, Power(simd), simd <= 16,
         NEW n \in Nat, NEW p, Power(p), Divides(p, n), NEW st, Stacked(msg, n, st)
  PROVE  \E st2 : /\ HashSubtree(H(msg, n, 0, st), Piece(msg, n * CHUNK_LEN, p * CHUNK_LEN), simd)
                       = H(msg, n + p, 0, st2)
                  /\ Stacked(msg, n + p, st2)
                  /\ p > 1 => Loose(msg, n + p, st2)
<1> DEFINE len == p * CHUNK_LEN
           input == Piece(msg, n * CHUNK_LEN, len)
           h == H(msg, n, 0, st)
           pair == SubtreeToParentNode(input, msg.key, n, msg.flags, simd)
<1>0. p \in Nat /\ p > 0 /\ CHUNK_LEN \in Nat /\ CHUNK_LEN > 0
  BY Lengths DEF Power
<1>1. h.chunk.chunk_counter = n /\ h.key = msg.key /\ h.chunk.flags = msg.flags
  BY DEF H, CS, State
<1>2. Len(input) = len /\ len \in Nat
  BY <1>0, Times, PieceType
<1>3. len \div CHUNK_LEN = p
  BY <1>0, DivTimes, Zenon
<1> DEFINE pushed == IF len <= CHUNK_LEN
                     THEN PushCv(h, ChunkCV(input, msg.key, n, msg.flags), n)
                     ELSE PushCv(PushCv(h, pair[1], n), pair[2], n + p \div 2)
<1>4. HashSubtree(h, input, simd) = [pushed EXCEPT !.chunk.chunk_counter = @ + p]
  <2> HIDE DEF h, input, len, pair
  <2> QED BY <1>1, <1>2, <1>3 DEF HashSubtree, pair
<1>5. CASE p = 1
  <2>1. len = CHUNK_LEN
    BY <1>0, <1>5
  <2>2. ChunkCV(input, msg.key, n, msg.flags) = Full(msg, p, n)
    BY <1>5, <2>1, OneChunk
  <2>3. pushed = PushCv(h, Full(msg, p, n), n)
    <3>1. len <= CHUNK_LEN
      BY <1>0, <2>1
    <3> HIDE DEF len, input, h, pair
    <3> QED BY <2>2, <3>1
  <2>4. pushed = H(msg, n, 0, Tip(msg, n, p))
    BY <2>3, PushH DEF Tip
  <2> HIDE DEF pushed, h, input
  <2>5. HashSubtree(h, input, simd) = H(msg, n + p, 0, Tip(msg, n, p))
    BY <1>0, <1>4, <2>4, SkipChunks
  <2>6. Stacked(msg, n + p, Tip(msg, n, p)) /\ ~(p > 1)
    BY <1>5, TipStacked
  <2> QED BY <2>5, <2>6 DEF h, input
<1>6. CASE p > 1
  <2>1. PICK q \in Nat : /\ Power(q) /\ p = 2 * q /\ p \div 2 = q
                         /\ pair[1] = Full(msg, q, n) /\ pair[2] = Full(msg, q, n + q)
    BY <1>6, TwoHalves
  <2>2. ~(len <= CHUNK_LEN)
    <3>1. 1 * CHUNK_LEN + CHUNK_LEN <= p * CHUNK_LEN
      BY <1>0, <1>6, Times
    <3>2. 1 * CHUNK_LEN = CHUNK_LEN
      BY <1>0
    <3>3. CHUNK_LEN + CHUNK_LEN <= len
      BY <3>1, <3>2
    <3> HIDE DEF len
    <3> QED BY <1>0, <1>2, <3>3
  <2>3. pushed = PushCv(PushCv(h, Full(msg, q, n), n), Full(msg, q, n + q), n + q)
    <3> HIDE DEF len, input, h, pair
    <3> QED BY <2>1, <2>2
  <2>4. PushCv(h, Full(msg, q, n), n) = H(msg, n, 0, Tip(msg, n, q))
    BY PushH DEF Tip
  <2>5. Divides(q, n) /\ Divides(2 * q, n)
    BY <2>1, DividesTwice
  <2>6. n + q \in Nat /\ Stacked(msg, n + q, Tip(msg, n, q))
    BY <2>1, <2>5, TipStacked
  <2>7. pushed = H(msg, n, 0, Tip(msg, n + q, q))
    <3> DEFINE m == n + q
               cv == Full(msg, q, m)
    <3>1. m \in Nat /\ Stacked(msg, m, Tip(msg, n, q))
      BY <2>6
    <3>2. pushed = PushCv(H(msg, n, 0, Tip(msg, n, q)), cv, m)
      BY <2>3, <2>4
    <3> HIDE DEF m, pushed, cv
    <3>3. pushed = H(msg, n, 0, Append(Stack(msg, m), cv))
      BY <3>1, <3>2, PushH
    <3> QED BY <3>3 DEF Tip, m, cv
  <2>8. Divides(q, n + q)
    BY <2>1, <2>5, DividesSum, DividesZero
  <2>9. Loose(msg, n + p, Tip(msg, n + q, q)) /\ Stacked(msg, n + p, Tip(msg, n + q, q))
    <3>1. n + p = (n + q) + q
      BY <2>1
    <3>2. Divides(2 * q, n + p)
      BY <1>0, <2>1, <2>5, DividesSum, DividesZero
    <3> QED BY <2>1, <2>6, <2>8, <3>1, <3>2 DEF Loose, Stacked
  <2> HIDE DEF pushed, h, input
  <2>10. HashSubtree(h, input, simd) = H(msg, n + p, 0, Tip(msg, n + q, q))
    BY <1>0, <1>4, <2>7, SkipChunks
  <2> QED BY <2>9, <2>10 DEF h, input
<1> QED BY <1>0, <1>5, <1>6

-----------------------------------------------------------------------------
(* How much is hashed at once.                                             *)

\* CHUNK_LEN is a power of two.
LEMMA ChunkPower == Power(CHUNK_LEN)
BY Lengths, Blake3Assumption DEF Power

\* A positive factor cancels.
LEMMA Cancel ==
  ASSUME NEW d \in Nat, d > 0, NEW a \in Nat, NEW b \in Nat, a * d = b * d
  PROVE  a = b
<1> DEFINE x == a * d
           y == b * d
<1>1. (a < b => x + d <= y) /\ (b < a => y + d <= x) /\ x \in Nat /\ y \in Nat /\ x = y
  BY Times
<1> HIDE DEF x, y
<1>2. ~(a < b) /\ ~(b < a)
  BY <1>1
<1> QED BY <1>2

\* A power of two that is no less than CHUNK_LEN is so many whole chunks.
LEMMA PowerQuotient ==
  \A x \in Nat : Power(x) /\ x >= CHUNK_LEN =>
    \E p \in Nat : Power(p) /\ x = p * CHUNK_LEN
<1> DEFINE S == {x \in Nat : Power(x) /\ x >= CHUNK_LEN =>
                   \E p \in Nat : Power(p) /\ x = p * CHUNK_LEN}
<1>0. CHUNK_LEN \in Nat /\ CHUNK_LEN > 0
  BY Lengths
<1>1. ASSUME NEW x \in Nat, \A y \in Nat : y < x => y \in S
      PROVE  x \in S
  <2> SUFFICES ASSUME Power(x), x >= CHUNK_LEN
               PROVE  \E p \in Nat : Power(p) /\ x = p * CHUNK_LEN
    OBVIOUS
  <2>1. CASE x = CHUNK_LEN
    <3>1. Power(1) /\ x = 1 * CHUNK_LEN /\ 1 \in Nat
      BY <1>0, <2>1, Doubled
    <3> QED BY <3>1
  <2>2. CASE x > CHUNK_LEN
    <3>1. PICK y \in Nat : x = 2 * y /\ Power(y)
      BY <1>0, <2>2, Halved
    <3>2. 2 * CHUNK_LEN <= x
      BY <2>2, ChunkPower, PowersApart
    <3>3. y < x /\ y >= CHUNK_LEN
      BY <1>0, <3>1, <3>2
    <3>4. PICK p \in Nat : Power(p) /\ y = p * CHUNK_LEN
      BY <1>1, <3>1, <3>3
    <3>5. x = (2 * p) * CHUNK_LEN /\ 2 * p \in Nat
      BY <1>0, <3>1, <3>4
    <3>6. Power(2 * p)
      BY <3>4, Doubled
    <3> QED BY <3>5, <3>6
  <2> QED BY <1>0, <2>1, <2>2
<1> HIDE DEF S
<1>2. S = Nat
  BY <1>1, Induct DEF S
<1> QED BY <1>2 DEF S

Positive(p) == Nat \ {0}
ShrinkDef(count, g, len) == IF count % len # 0 THEN g[len \div 2] ELSE len
ShrinkR == INSTANCE Recursion WITH Dom <- Positive, Size <- Itself, Def <- ShrinkDef

\* f has what each length shrinks to.
Shrinks(f, count) ==
  \A len \in Nat : len > 0 => f[len] = IF count % len # 0 THEN f[len \div 2] ELSE len

\* The inner loop of hasher_update, halving by halving.
LEMMA ShrinkIs ==
  ASSUME NEW left, NEW count \in Nat
  PROVE  \E f : Shrinks(f, count)
                /\ SubtreeLen(left, count) = f[round_down_to_power_of_2[left]]
<1> DEFINE f == CHOOSE g : g = [len \in Nat \ {0} |->
                  IF count % len # 0 THEN g[len \div 2] ELSE len]
<1>1. SubtreeLen(left, count) = f[round_down_to_power_of_2[left]]
  BY DEF SubtreeLen
<1>2. ShrinkR!WellFormed(count)
  <2>1. ASSUME NEW g, NEW h, NEW x \in Nat \ {0}, \A y \in Nat \ {0} : y < x => g[y] = h[y]
        PROVE  ShrinkDef(count, g, x) = ShrinkDef(count, h, x)
    <3>1. CASE count % x = 0
      BY <3>1 DEF ShrinkDef
    <3>2. CASE count % x # 0
      <4>1. x # 1
        <5>1. count % 1 = 0
          OBVIOUS
        <5> QED BY <3>2, <5>1
      <4>2. x \div 2 \in Nat \ {0} /\ x \div 2 < x
        BY <4>1
      <4>3. g[x \div 2] = h[x \div 2]
        BY <2>1, <4>2
      <4> QED BY <4>3 DEF ShrinkDef
    <3> QED BY <3>1, <3>2
  <2>2. \A x \in Nat \ {0} : x \in Nat
    OBVIOUS
  <2> QED BY <2>1, <2>2 DEF ShrinkR!WellFormed, Positive, Itself
<1>3. \E g : g = [x \in Nat \ {0} |-> ShrinkDef(count, g, x)]
  BY <1>2, ShrinkR!RecursiveFunction DEF Positive
<1>4. f = [len \in Nat \ {0} |-> IF count % len # 0 THEN f[len \div 2] ELSE len]
  BY <1>3 DEF ShrinkDef
<1> HIDE DEF f
<1>5. Shrinks(f, count)
  <2> SUFFICES ASSUME NEW len \in Nat, len > 0
               PROVE  f[len] = IF count % len # 0 THEN f[len \div 2] ELSE len
    BY DEF Shrinks
  <2>1. len \in Nat \ {0}
    OBVIOUS
  <2> QED BY ONLY <1>4, <2>1
<1> QED BY <1>1, <1>5

\* What divides multiples.
LEMMA DividesQuotient ==
  ASSUME NEW d \in Nat, d > 0, NEW p \in Nat, NEW n \in Nat, Divides(p * d, n * d)
  PROVE  Divides(p, n)
<1>1. PICK c \in Nat : n * d = c * (p * d)
  BY DEF Divides
<1>2. c * (p * d) = (c * p) * d /\ c * p \in Nat
  OBVIOUS
<1> DEFINE x == c * p
<1>3. x \in Nat /\ n * d = x * d
  BY <1>1, <1>2
<1> HIDE DEF x
<1>4. n = x
  BY <1>3, Cancel
<1> QED BY <1>4 DEF x, Divides

\* A whole power of chunks that divides the number of chunks so far.
LEMMA SubtreeLenIs ==
  ASSUME NEW left \in Nat, left > CHUNK_LEN, NEW n \in Nat
  PROVE  \E p \in Nat : /\ Power(p) /\ Divides(p, n) /\ p * CHUNK_LEN <= left
                        /\ SubtreeLen(left, n * CHUNK_LEN) = p * CHUNK_LEN
<1> DEFINE count == n * CHUNK_LEN
           top == round_down_to_power_of_2[left]
<1>0. CHUNK_LEN \in Nat /\ CHUNK_LEN > 0 /\ count \in Nat
  BY Lengths, Times
<1>1. PICK f : Shrinks(f, count) /\ SubtreeLen(left, count) = f[top]
  BY <1>0, ShrinkIs
<1>2. top \in Nat /\ Power(top) /\ top <= left /\ top >= CHUNK_LEN
  <2>1. top \in Nat /\ Power(top) /\ top <= left /\ left < 2 * top
    BY <1>0, RoundType, RoundPower, RoundBounds
  <2> HIDE DEF top
  <2>2. SUFFICES ASSUME top < CHUNK_LEN PROVE FALSE
    BY <1>0, <2>1
  <2>3. 2 * top <= CHUNK_LEN
    BY <2>1, <2>2, ChunkPower, PowersApart
  <2> QED BY <1>0, <2>1, <2>3
<1> DEFINE Ok(len) == \E p \in Nat : /\ Power(p) /\ Divides(p, n) /\ f[len] = p * CHUNK_LEN
                                     /\ p * CHUNK_LEN <= len
           S == {len \in Nat : Power(len) /\ len >= CHUNK_LEN => Ok(len)}
<1>3. ASSUME NEW len \in Nat, \A y \in Nat : y < len => y \in S
      PROVE  len \in S
  <2> SUFFICES ASSUME Power(len), len >= CHUNK_LEN PROVE Ok(len)
    OBVIOUS
  <2>1. len > 0 /\ len \in Nat \ {0}
    BY <1>0
  <2>2. f[len] = IF count % len # 0 THEN f[len \div 2] ELSE len
    BY <1>1, <2>1 DEF Shrinks
  <2>3. CASE count % len = 0
    <3>1. Divides(len, count)
      BY <1>0, <2>1, <2>3, DividesMod
    <3>2. PICK p \in Nat : Power(p) /\ len = p * CHUNK_LEN
      BY PowerQuotient
    <3>3. Divides(p, n)
      BY <1>0, <3>1, <3>2, DividesQuotient
    <3>4. f[len] = p * CHUNK_LEN /\ p * CHUNK_LEN <= len
      <4>1. f[len] = len /\ len <= len
        BY <2>2, <2>3
      <4> QED BY <3>2, <4>1
    <3> QED BY <3>2, <3>3, <3>4
  <2>4. CASE count % len # 0
    <3>1. len # CHUNK_LEN
      <4>1. Divides(CHUNK_LEN, count)
        BY <1>0 DEF Divides
      <4>2. CHUNK_LEN \in Nat \ {0}
        BY <1>0
      <4>3. count % CHUNK_LEN = 0
        BY <1>0, <4>1, <4>2, DividesMod
      <4> QED BY <2>4, <4>3
    <3>2. CHUNK_LEN < len
      BY <1>0, <3>1
    <3>3. PICK y \in Nat : len = 2 * y /\ Power(y)
      <4>1. len > 1
        BY <1>0, <3>2
      <4> QED BY <4>1, Halved
    <3>4. 2 * CHUNK_LEN <= len
      BY <3>2, ChunkPower, PowersApart
    <3>5. y < len /\ y >= CHUNK_LEN /\ len \div 2 = y
      BY <1>0, <3>3, <3>4
    <3>6. Ok(y)
      BY <1>3, <3>3, <3>5
    <3>7. f[len] = f[y]
      BY <2>2, <2>4, <3>5
    <3>8. PICK p \in Nat : /\ Power(p) /\ Divides(p, n) /\ f[y] = p * CHUNK_LEN
                           /\ p * CHUNK_LEN <= y
      BY <3>6
    <3>9. p * CHUNK_LEN <= len
      <4> DEFINE z == p * CHUNK_LEN
      <4>1. z \in Nat /\ z <= y
        BY <1>0, <3>8, Times
      <4> HIDE DEF z
      <4>2. z <= len
        BY <3>5, <4>1
      <4> QED BY <4>2 DEF z
    <3> QED BY <3>7, <3>8, <3>9
  <2> QED BY <2>3, <2>4
<1> HIDE DEF S
<1>4. S = Nat
  BY <1>3, Induct DEF S
<1>5. Ok(top)
  <2> HIDE DEF top, Ok
  <2> QED BY <1>2, <1>4 DEF S
<1>6. PICK p \in Nat : /\ Power(p) /\ Divides(p, n) /\ f[top] = p * CHUNK_LEN
                       /\ p * CHUNK_LEN <= top
  BY <1>5
<1>7. p * CHUNK_LEN <= left
  <2> DEFINE z == p * CHUNK_LEN
  <2>1. z \in Nat /\ z <= top
    BY <1>0, <1>6, Times
  <2> HIDE DEF z, top
  <2>2. z <= left
    BY <1>2, <2>1
  <2> QED BY <2>2 DEF z
<1> QED BY <1>1, <1>6, <1>7

-----------------------------------------------------------------------------
(* The loop of hasher_update.                                              *)

LoopDef(p, g, k) ==
  IF k = 0 THEN [hasher |-> p.h, done |-> 0]
  ELSE LET s    == g[k - 1]
           left == Len(p.input) - s.done
           len  == SubtreeLen(left, s.hasher.chunk.chunk_counter * CHUNK_LEN)
       IN IF left <= CHUNK_LEN THEN s
          ELSE [hasher |-> HashSubtree(s.hasher, SubSeq(p.input, s.done + 1, s.done + len), p.simd),
                done |-> s.done + len]
LoopR == INSTANCE Recursion WITH Dom <- Numbers, Size <- Itself, Def <- LoopDef

\* One round of it.
Round1(s, input, simd) ==
  LET left == Len(input) - s.done
      len  == SubtreeLen(left, s.hasher.chunk.chunk_counter * CHUNK_LEN)
  IN IF left <= CHUNK_LEN THEN s
     ELSE [hasher |-> HashSubtree(s.hasher, SubSeq(input, s.done + 1, s.done + len), simd),
           done |-> s.done + len]

Loops(f, h, input, simd) ==
  /\ f[0] = [hasher |-> h, done |-> 0]
  /\ \A k \in Nat : f[k + 1] = Round1(f[k], input, simd)

\* The outer loop of hasher_update, round by round.
LEMMA LoopIs ==
  ASSUME NEW h, NEW input, NEW simd
  PROVE  \E f : /\ Loops(f, h, input, simd)
                /\ HashSubtrees(h, input, simd) = f[Len(input) \div CHUNK_LEN]
<1> DEFINE p == [h |-> h, input |-> input, simd |-> simd]
           f == CHOOSE g : g = [k \in Nat |->
                  IF k = 0 THEN [hasher |-> h, done |-> 0]
                  ELSE LET s    == g[k - 1]
                           left == Len(input) - s.done
                           len  == SubtreeLen(left, s.hasher.chunk.chunk_counter * CHUNK_LEN)
                       IN IF left <= CHUNK_LEN THEN s
                          ELSE [hasher |-> HashSubtree(s.hasher,
                                   SubSeq(input, s.done + 1, s.done + len), simd),
                                done |-> s.done + len]]
<1>1. p.h = h /\ p.input = input /\ p.simd = simd
  OBVIOUS
<1>2. HashSubtrees(h, input, simd) = f[Len(input) \div CHUNK_LEN]
  BY DEF HashSubtrees
<1> HIDE DEF p
<1>3. LoopR!WellFormed(p)
  <2>1. ASSUME NEW g1, NEW g2, NEW k \in Nat, \A y \in Nat : y < k => g1[y] = g2[y]
        PROVE  LoopDef(p, g1, k) = LoopDef(p, g2, k)
    <3>1. CASE k = 0
      BY <3>1 DEF LoopDef
    <3>2. CASE k # 0
      <4>1. g1[k - 1] = g2[k - 1]
        BY <2>1, <3>2
      <4> QED BY <4>1 DEF LoopDef
    <3> QED BY <3>1, <3>2
  <2> QED BY <2>1 DEF LoopR!WellFormed, Numbers, Itself
<1>4. \E g : g = [k \in Nat |-> LoopDef(p, g, k)]
  BY <1>3, LoopR!RecursiveFunction DEF Numbers
<1>5. ASSUME NEW g, NEW k
      PROVE  LoopDef(p, g, k) =
                  IF k = 0 THEN [hasher |-> h, done |-> 0]
                  ELSE LET s    == g[k - 1]
                           left == Len(input) - s.done
                           len  == SubtreeLen(left, s.hasher.chunk.chunk_counter * CHUNK_LEN)
                       IN IF left <= CHUNK_LEN THEN s
                          ELSE [hasher |-> HashSubtree(s.hasher,
                                   SubSeq(input, s.done + 1, s.done + len), simd),
                                done |-> s.done + len]
  BY <1>1, Zenon DEF LoopDef
<1>6. f = [k \in Nat |->
                  IF k = 0 THEN [hasher |-> h, done |-> 0]
                  ELSE LET s    == f[k - 1]
                           left == Len(input) - s.done
                           len  == SubtreeLen(left, s.hasher.chunk.chunk_counter * CHUNK_LEN)
                       IN IF left <= CHUNK_LEN THEN s
                          ELSE [hasher |-> HashSubtree(s.hasher,
                                   SubSeq(input, s.done + 1, s.done + len), simd),
                                done |-> s.done + len]]
  <2>1. \E g : g = [k \in Nat |->
                  IF k = 0 THEN [hasher |-> h, done |-> 0]
                  ELSE LET s    == g[k - 1]
                           left == Len(input) - s.done
                           len  == SubtreeLen(left, s.hasher.chunk.chunk_counter * CHUNK_LEN)
                       IN IF left <= CHUNK_LEN THEN s
                          ELSE [hasher |-> HashSubtree(s.hasher,
                                   SubSeq(input, s.done + 1, s.done + len), simd),
                                done |-> s.done + len]]
    BY <1>4, <1>5
  <2> QED BY <2>1, Zenon
<1> HIDE DEF f
<1>7. f[0] = [hasher |-> h, done |-> 0]
  BY <1>6
<1>8. ASSUME NEW k \in Nat PROVE f[k + 1] = Round1(f[k], input, simd)
  <2> DEFINE m == k + 1
  <2>1. m \in Nat /\ m # 0 /\ m - 1 = k
    OBVIOUS
  <2> HIDE DEF m
  <2>2. f[m] = IF m = 0 THEN [hasher |-> h, done |-> 0]
               ELSE Round1(f[m - 1], input, simd)
    BY ONLY <1>6, <2>1, Zenon DEF Round1
  <2> QED BY <2>1, <2>2, Zenon DEF m
<1>9. Loops(f, h, input, simd)
  BY <1>7, <1>8 DEF Loops
<1> QED BY <1>2, <1>9

\* A round begins with the stack of n chunks and so much of the input done.
InLoop(msg, first, len, n, s) ==
  /\ n \in Nat /\ s.done \in Nat /\ s.done <= len
  /\ first * CHUNK_LEN + s.done = n * CHUNK_LEN
  /\ \E st : /\ s.hasher = H(msg, n, 0, st) /\ Stacked(msg, n, st)
             /\ s.done = len => Loose(msg, n, st)

\* A round of hasher_update keeps what a round begins with and hashes a chunk
\* or more.
LEMMA RoundStep ==
  ASSUME NEW msg, Stream(msg), NEW simd, Power(simd), simd <= 16,
         NEW first \in Nat, NEW len \in Nat, len > 0, NEW n, NEW s, InLoop(msg, first, len, n, s),
         len - s.done > CHUNK_LEN
  PROVE  LET t == Round1(s, Piece(msg, first * CHUNK_LEN, len), simd)
         IN /\ \E m : InLoop(msg, first, len, m, t)
            /\ t.done \in Nat /\ t.done >= s.done + CHUNK_LEN
<1> DEFINE base == first * CHUNK_LEN
           input == Piece(msg, base, len)
           left == len - s.done
           done == s.done
           t == Round1(s, input, simd)
<1>0. /\ CHUNK_LEN \in Nat /\ CHUNK_LEN > 0 /\ base \in Nat /\ n \in Nat /\ done \in Nat
      /\ left \in Nat /\ left > CHUNK_LEN
  BY Lengths, Times DEF InLoop
<1>1. base + done = n * CHUNK_LEN
  BY DEF InLoop
<1>2. PICK st : s.hasher = H(msg, n, 0, st) /\ Stacked(msg, n, st)
  BY DEF InLoop
<1>3. s.hasher.chunk.chunk_counter = n
  BY <1>2 DEF H, CS, State
<1>4. PICK p \in Nat : /\ Power(p) /\ Divides(p, n) /\ p * CHUNK_LEN <= left
                       /\ SubtreeLen(left, n * CHUNK_LEN) = p * CHUNK_LEN
  BY <1>0, SubtreeLenIs
<1> DEFINE l == p * CHUNK_LEN
           end == done + l
<1>5. l \in Nat /\ l <= left /\ l >= CHUNK_LEN /\ (l > CHUNK_LEN => p > 1)
  <2>1. l \in Nat /\ l <= left
    BY <1>0, <1>4, Times
  <2>2. p > 0
    BY <1>4 DEF Power
  <2>3. 0 * CHUNK_LEN + CHUNK_LEN <= l
    BY <1>0, <2>2, Times
  <2>4. p = 1 => l = CHUNK_LEN
    BY <1>0
  <2>5. 0 * CHUNK_LEN = 0
    BY <1>0
  <2> HIDE DEF l
  <2> QED BY <1>0, <2>1, <2>2, <2>3, <2>4, <2>5
<1>6. Len(input) = len
  BY <1>0, PieceType
<1>7. SubSeq(input, done + 1, end) = Piece(msg, n * CHUNK_LEN, l)
  <2>1. done \in Nat /\ end \in Nat /\ done <= end /\ end <= len /\ base \in Nat /\ end - done = l
    <3> HIDE DEF l
    <3> QED BY <1>0, <1>5
  <2> HIDE DEF base, end, done
  <2>2. Cut(Piece(msg, base, len), done, end) = Piece(msg, base + done, end - done)
    BY ONLY <2>1, len \in Nat, Stream(msg), PieceOfPiece
  <2> QED BY <1>1, <2>1, <2>2 DEF Cut
<1>8. t = [hasher |-> HashSubtree(H(msg, n, 0, st), Piece(msg, n * CHUNK_LEN, l), simd),
           done |-> end]
  <2>1. ~(Len(input) - s.done <= CHUNK_LEN)
    BY <1>0, <1>6
  <2>2. SubtreeLen(Len(input) - s.done, s.hasher.chunk.chunk_counter * CHUNK_LEN) = l
    BY <1>3, <1>4, <1>6
  <2> HIDE DEF input, l
  <2>3. t = [hasher |-> HashSubtree(s.hasher, SubSeq(input, s.done + 1, s.done + l), simd),
             done |-> s.done + l]
    BY <2>1, <2>2 DEF Round1
  <2> QED BY <1>2, <1>7, <2>3
<1>9. PICK st2 : /\ HashSubtree(H(msg, n, 0, st), Piece(msg, n * CHUNK_LEN, l), simd)
                       = H(msg, n + p, 0, st2)
                 /\ Stacked(msg, n + p, st2)
                 /\ p > 1 => Loose(msg, n + p, st2)
  BY <1>0, <1>2, <1>4, SubtreeH
<1>10. t.hasher = H(msg, n + p, 0, st2) /\ t.done = end
  BY <1>8, <1>9
<1>11. end \in Nat /\ end <= len /\ end >= done + CHUNK_LEN /\ (end = len => l > CHUNK_LEN)
  <2> HIDE DEF l
  <2> QED BY <1>0, <1>5
<1>12. n + p \in Nat /\ base + end = (n + p) * CHUNK_LEN
  <2>1. (n + p) * CHUNK_LEN = n * CHUNK_LEN + l
    BY <1>0, <1>4, Times
  <2> DEFINE x == n * CHUNK_LEN
  <2>2. x = base + done /\ (n + p) * CHUNK_LEN = x + l
    BY <1>1, <2>1
  <2> HIDE DEF x, l, base
  <2> QED BY <1>0, <1>4, <1>5, <2>2
<1> HIDE DEF t
<1>13. InLoop(msg, first, len, n + p, t)
  <2>1. end = len => Loose(msg, n + p, st2)
    BY <1>5, <1>9, <1>11
  <2> HIDE DEF end
  <2> QED BY <1>9, <1>10, <1>11, <1>12, <2>1 DEF InLoop
<1> QED BY <1>10, <1>11, <1>13 DEF t

\* In the end a chunk or less is left.
LEMMA SubtreesH ==
  ASSUME NEW msg, Stream(msg), NEW simd, Power(simd), simd <= 16,
         NEW first \in Nat, NEW len \in Nat, len > 0, NEW st, Stacked(msg, first, st)
  PROVE  LET t == HashSubtrees(H(msg, first, 0, st), Piece(msg, first * CHUNK_LEN, len), simd)
         IN (\E n : InLoop(msg, first, len, n, t)) /\ len - t.done <= CHUNK_LEN
<1> DEFINE input == Piece(msg, first * CHUNK_LEN, len)
           h == H(msg, first, 0, st)
           last == len \div CHUNK_LEN
<1>0. /\ CHUNK_LEN \in Nat /\ CHUNK_LEN > 0 /\ first * CHUNK_LEN \in Nat
      /\ CHUNK_LEN \in Nat \ {0}
  BY Lengths, Times
<1>1. Len(input) = len
  BY <1>0, PieceType
<1>2. PICK f : Loops(f, h, input, simd) /\ HashSubtrees(h, input, simd) = f[last]
  BY <1>1, LoopIs
<1> DEFINE Ok(k) == /\ \E n : InLoop(msg, first, len, n, f[k])
                    /\ len - f[k].done <= CHUNK_LEN \/ f[k].done >= k * CHUNK_LEN
           S == {k \in Nat : Ok(k)}
<1>3. Ok(0)
  <2>1. f[0] = [hasher |-> h, done |-> 0]
    BY <1>2 DEF Loops
  <2>2. f[0].hasher = h /\ f[0].done = 0
    BY <2>1
  <2>3. InLoop(msg, first, len, first, f[0])
    BY <1>0, <2>2 DEF InLoop
  <2> QED BY <1>0, <2>2, <2>3
<1>4. ASSUME NEW k \in Nat, Ok(k) PROVE Ok(k + 1)
  <2> DEFINE s == f[k]
             t == f[k + 1]
  <2>1. PICK n : InLoop(msg, first, len, n, s)
    BY <1>4
  <2>2. t = Round1(s, input, simd)
    BY <1>2 DEF Loops
  <2>3. s.done \in Nat /\ s.done <= len
    BY <2>1 DEF InLoop
  <2>4. len - s.done <= CHUNK_LEN \/ s.done >= k * CHUNK_LEN
    BY <1>4
  <2> HIDE DEF s, t
  <2>5. CASE len - s.done <= CHUNK_LEN
    <3>1. t = s
      BY <1>1, <2>2, <2>5 DEF Round1
    <3> QED BY <2>1, <2>5, <3>1 DEF s, t
  <2>6. CASE ~(len - s.done <= CHUNK_LEN)
    <3>1. len - s.done > CHUNK_LEN
      BY <1>0, <2>3, <2>6
    <3>2. (\E m : InLoop(msg, first, len, m, t)) /\ t.done \in Nat /\ t.done >= s.done + CHUNK_LEN
      BY <2>1, <2>2, <3>1, RoundStep
    <3>3. t.done >= (k + 1) * CHUNK_LEN
      <4> DEFINE x == k * CHUNK_LEN
      <4>1. x \in Nat /\ (k + 1) * CHUNK_LEN = x + CHUNK_LEN
        BY <1>0
      <4>2. s.done >= x
        BY <2>4, <2>6
      <4> HIDE DEF x
      <4>3. t.done >= x + CHUNK_LEN
        BY <1>0, <2>3, <3>2, <4>1, <4>2
      <4> QED BY <4>1, <4>3
    <3> QED BY <3>2, <3>3 DEF t
  <2> QED BY <2>5, <2>6
<1>5. ASSUME NEW k \in Nat, \A j \in Nat : j < k => j \in S PROVE k \in S
  <2>1. CASE k = 0
    BY <1>3, <2>1
  <2>2. CASE k # 0
    <3> DEFINE j == k - 1
    <3>1. j \in Nat /\ j < k /\ k = j + 1
      BY <2>2
    <3> HIDE DEF j
    <3>2. Ok(j)
      BY <1>5, <3>1
    <3> HIDE DEF Ok
    <3>3. Ok(j + 1)
      BY <1>4, <3>1, <3>2
    <3> QED BY <3>1, <3>3
  <2> QED BY <2>1, <2>2
<1> HIDE DEF S
<1>6. S = Nat
  BY <1>5, Induct DEF S
<1>7. last \in Nat /\ Ok(last)
  <2>1. last \in Nat
    BY <1>0, DivMod
  <2> HIDE DEF last, Ok
  <2> QED BY <1>6, <2>1 DEF S
<1> DEFINE t == f[last]
<1>8. PICK n : InLoop(msg, first, len, n, t)
  BY <1>7
<1>9. len - t.done <= CHUNK_LEN
  <2> DEFINE x == last * CHUNK_LEN
             r == len % CHUNK_LEN
  <2>1. x \in Nat /\ r \in 0..(CHUNK_LEN - 1) /\ len = x + r
    <3>1. last * CHUNK_LEN \in Nat /\ r \in 0..(CHUNK_LEN - 1) /\ len = last * CHUNK_LEN + r
      BY <1>0, <1>7, DivMod, Times
    <3> QED BY <3>1
  <2>2. t.done \in Nat /\ t.done <= len
    BY <1>8 DEF InLoop
  <2>3. len - t.done <= CHUNK_LEN \/ t.done >= x
    BY <1>7
  <2> HIDE DEF x, r, t
  <2> QED BY <1>0, <2>1, <2>2, <2>3
<1> QED BY <1>2, <1>8, <1>9

-----------------------------------------------------------------------------
(* hasher_update.                                                          *)

\* The hasher when total bytes of the message are in it.
Good(msg, total_len, h) ==
  \E n, k \in Nat : \E st :
    /\ total_len = n * CHUNK_LEN + k /\ k <= CHUNK_LEN
    /\ h = H(msg, n, k, st)
    /\ IF k > 0 \/ total_len = 0 THEN st = Stack(msg, n) ELSE Loose(msg, n, st)

\* chunk_state_len returns the number of bytes of the chunk.
LEMMA ChunkLenIs ==
  ASSUME NEW msg, NEW n \in Nat, NEW k \in Nat
  PROVE  ChunkLen(CS(msg, n, k)) = k
<1> DEFINE x == Last(k) * BLOCK_LEN
<1>1. BLOCK_LEN \in Nat /\ Last(k) \in Nat /\ x \in Nat
  <2>1. CASE k = 0
    BY <2>1, Lengths DEF Last
  <2>2. CASE k > 0
    BY <2>2, Lengths, LastBounds
  <2> QED BY <2>1, <2>2
<1>2. BLOCK_LEN * Last(k) = x
  BY <1>1
<1>3. ChunkLen(CS(msg, n, k)) = BLOCK_LEN * Last(k) + (k - x)
  BY DEF ChunkLen, CS, State
<1> HIDE DEF x
<1> QED BY <1>1, <1>2, <1>3

\* A hasher with nothing in it.
LEMMA EmptyGood ==
  ASSUME NEW msg, Stream(msg)
  PROVE  Good(msg, 0, Hasher(msg.key, msg.flags))
<1>1. Stack(msg, 0) = <<>>
  <2>1. Bits[0] = <<>>
    BY BitsIs
  <2>2. Len(Bits[0]) = 0
    BY <2>1
  <2> QED BY <2>2 DEF Stack, Sub
<1>2. ChunkState(msg.key, 0, msg.flags) = CS(msg, 0, 0)
  BY NewChunk
<1>3. Hasher(msg.key, msg.flags) = H(msg, 0, 0, Stack(msg, 0))
  BY <1>1, <1>2 DEF Hasher, H
<1>4. 0 = 0 * CHUNK_LEN + 0 /\ 0 <= CHUNK_LEN /\ 0 \in Nat
  BY Lengths
<1> QED BY <1>3, <1>4 DEF Good

\* The subtrees of the input, and then its rest.
LEMMA TailH ==
  ASSUME NEW msg, Stream(msg), NEW simd, Power(simd), simd <= 16,
         NEW first \in Nat, NEW len \in Nat, len > 0, NEW st, Stacked(msg, first, st)
  PROVE  LET rest == Piece(msg, first * CHUNK_LEN, len)
             t == HashSubtrees(H(msg, first, 0, st), rest, simd)
         IN Good(msg, first * CHUNK_LEN + len,
                 FinishUpdate(t.hasher, SubSeq(rest, t.done + 1, Len(rest))))
<1> DEFINE base == first * CHUNK_LEN
           rest == Piece(msg, base, len)
           t == HashSubtrees(H(msg, first, 0, st), rest, simd)
           left == len - t.done
           tail == SubSeq(rest, t.done + 1, Len(rest))
<1>0. CHUNK_LEN \in Nat /\ CHUNK_LEN > 0 /\ base \in Nat /\ Len(rest) = len
  <2>1. CHUNK_LEN \in Nat /\ CHUNK_LEN > 0 /\ base \in Nat
    BY Lengths, Times
  <2> QED BY <2>1, PieceType
<1>1. left <= CHUNK_LEN /\ \E n : InLoop(msg, first, len, n, t)
  BY SubtreesH
<1> HIDE DEF t
<1>2. PICK n : InLoop(msg, first, len, n, t)
  BY <1>1
<1>3. n \in Nat /\ t.done \in Nat /\ t.done <= len /\ base + t.done = n * CHUNK_LEN
  BY <1>2 DEF InLoop
<1>4. PICK u : t.hasher = H(msg, n, 0, u) /\ Stacked(msg, n, u) /\ (t.done = len => Loose(msg, n, u))
  BY <1>2 DEF InLoop
<1>5. left \in Nat /\ base + len = n * CHUNK_LEN + left /\ base + len > 0
  <2> DEFINE x == n * CHUNK_LEN
  <2>1. base + t.done = x
    BY <1>3
  <2> HIDE DEF x, base
  <2>2. left \in Nat /\ base + len = x + left /\ base + len > 0
    BY <1>0, <1>3, <2>1
  <2> QED BY <2>2 DEF x
<1>6. tail = Piece(msg, n * CHUNK_LEN, left)
  <2> DEFINE i == t.done
  <2>1. i \in Nat /\ i <= len /\ len <= len /\ base \in Nat /\ len - i = left
    BY <1>0, <1>3
  <2> HIDE DEF base, i
  <2>2. Cut(Piece(msg, base, len), i, len) = Piece(msg, base + i, len - i)
    BY ONLY <2>1, len \in Nat, Stream(msg), PieceOfPiece
  <2>3. SubSeq(rest, i + 1, len) = Piece(msg, base + i, len - i)
    BY <2>2 DEF Cut
  <2> QED BY <1>0, <1>3, <2>1, <2>3 DEF i
<1> DEFINE r == FinishUpdate(t.hasher, tail)
<1>7. n * CHUNK_LEN \in Nat /\ (tail = <<>> <=> left = 0)
  <2>1. n * CHUNK_LEN \in Nat
    BY <1>0, <1>3, Times
  <2> HIDE DEF tail, left
  <2> QED BY <1>5, <1>6, <2>1, PieceType
<1> HIDE DEF tail, left, base
<1>8. ASSUME left = 0 PROVE Good(msg, base + len, r)
  <2>1. r = H(msg, n, 0, u)
    BY <1>4, <1>7, <1>8 DEF FinishUpdate
  <2>2. Loose(msg, n, u)
    BY <1>3, <1>4, <1>8 DEF left
  <2>3. base + len = n * CHUNK_LEN + 0 /\ 0 <= CHUNK_LEN /\ 0 \in Nat /\ ~(0 > 0 \/ base + len = 0)
    BY <1>0, <1>5, <1>7, <1>8
  <2> HIDE DEF r
  <2> QED BY <1>3, <2>1, <2>2, <2>3 DEF Good
<1>9. ASSUME left # 0 PROVE Good(msg, base + len, r)
  <2>1. ChunkStateUpdate(CS(msg, n, 0), tail) = CS(msg, n, left)
    <3>1. 0 \in Nat /\ 0 + left <= CHUNK_LEN
      BY <1>1, <1>5
    <3>2. ChunkStateUpdate(CS(msg, n, 0), Piece(msg, n * CHUNK_LEN + 0, left)) = CS(msg, n, 0 + left)
      BY ONLY <1>3, <1>5, <3>1, Stream(msg), ChunkUpdate
    <3>3. n * CHUNK_LEN + 0 = n * CHUNK_LEN /\ 0 + left = left
      BY <1>5, <1>7
    <3> QED BY <1>6, <3>2, <3>3
  <2> DEFINE h == H(msg, n, 0, u)
             c == CS(msg, n, left)
  <2>2. h.chunk = CS(msg, n, 0) /\ [h EXCEPT !.chunk = c] = H(msg, n, left, u)
    BY DEF H
  <2>3. h.chunk.chunk_counter = n
    BY <2>2 DEF CS, State
  <2> HIDE DEF h, c
  <2>4. r = MergeCvStack([h EXCEPT !.chunk = ChunkStateUpdate(@, tail)], n)
    BY <1>4, <1>7, <1>9, <2>3 DEF FinishUpdate, h
  <2>5. [h EXCEPT !.chunk = ChunkStateUpdate(@, tail)] = [h EXCEPT !.chunk = c]
    BY <2>1, <2>2 DEF c
  <2>6. r = H(msg, n, left, Stack(msg, n))
    BY <1>3, <1>4, <2>2, <2>4, <2>5, MergeH
  <2>7. left > 0
    BY <1>5, <1>9
  <2> HIDE DEF r
  <2> QED BY <1>1, <1>3, <1>5, <2>6, <2>7 DEF Good
<1> HIDE DEF r
<1>10. Good(msg, base + len, r)
  BY <1>8, <1>9
<1> QED BY <1>10 DEF r, tail, base, t

\* hasher_update takes the hasher from one length of the message to a later
\* one.
LEMMA UpdateGood ==
  ASSUME NEW msg, Stream(msg), NEW simd, Power(simd), simd <= 16,
         NEW sum \in Nat, NEW len \in Nat, NEW h, Good(msg, sum, h)
  PROVE  Good(msg, sum + len, HasherUpdate(h, Piece(msg, sum, len), simd))
<1> DEFINE input == Piece(msg, sum, len)
<1>0. CHUNK_LEN \in Nat /\ CHUNK_LEN > 0
  BY Lengths
<1>1. Len(input) = len /\ (input = <<>> <=> len = 0)
  BY PieceType
<1>2. PICK n, k \in Nat : \E st :
        /\ sum = n * CHUNK_LEN + k /\ k <= CHUNK_LEN
        /\ h = H(msg, n, k, st)
        /\ IF k > 0 \/ sum = 0 THEN st = Stack(msg, n) ELSE Loose(msg, n, st)
  BY DEF Good
<1>3. PICK st : /\ sum = n * CHUNK_LEN + k /\ k <= CHUNK_LEN
                /\ h = H(msg, n, k, st)
                /\ IF k > 0 \/ sum = 0 THEN st = Stack(msg, n) ELSE Loose(msg, n, st)
  BY <1>2
<1> HIDE DEF input
<1>4. h.chunk = CS(msg, n, k) /\ ChunkLen(h.chunk) = k
  <2>1. h.chunk = CS(msg, n, k)
    BY <1>3 DEF H
  <2> QED BY <2>1, ChunkLenIs
<1> DEFINE take   == IF k = 0 THEN 0 ELSE Least(CHUNK_LEN - k, len)
           rest   == SubSeq(input, take + 1, len)
           filled == [h EXCEPT !.chunk = ChunkStateUpdate(@, SubSeq(input, 1, take))]
           start  == IF k = 0 THEN h ELSE FinishChunk(filled)
           hashed == HashSubtrees(start, rest, simd)
           new    == HasherUpdate(h, input, simd)
<1>5. new = IF input = <<>> THEN h
            ELSE IF k > 0 /\ rest = <<>> THEN filled
            ELSE FinishUpdate(hashed.hasher, SubSeq(rest, hashed.done + 1, Len(rest)))
  BY <1>1, <1>4 DEF HasherUpdate
<1> HIDE DEF new
<1>6. ASSUME NEW i \in Nat, i <= len
      PROVE  SubSeq(input, i + 1, len) = Piece(msg, sum + i, len - i)
               /\ SubSeq(input, 1, i) = Piece(msg, sum, i)
  <2>1. len <= len /\ 0 \in Nat /\ 0 <= i
    OBVIOUS
  <2>2. Cut(Piece(msg, sum, len), i, len) = Piece(msg, sum + i, len - i)
    BY ONLY <1>6, <2>1, sum \in Nat, len \in Nat, Stream(msg), PieceOfPiece
  <2>3. Cut(Piece(msg, sum, len), 0, i) = Piece(msg, sum + 0, i - 0)
    BY ONLY <1>6, <2>1, sum \in Nat, len \in Nat, Stream(msg), PieceOfPiece
  <2>4. sum + 0 = sum /\ i - 0 = i /\ 0 + 1 = 1
    OBVIOUS
  <2> QED BY <2>2, <2>3, <2>4 DEF Cut, input
<1>7. CASE len = 0
  <2>1. new = h /\ sum + len = sum
    BY <1>1, <1>5, <1>7
  <2> QED BY <2>1 DEF new, input
<1>8. CASE len > 0 /\ k = 0
  <2>1. take = 0 /\ start = h
    BY <1>8
  <2>2. sum = n * CHUNK_LEN
    <3> DEFINE x == n * CHUNK_LEN
    <3>1. x \in Nat /\ sum = x + k
      BY <1>0, <1>3, Times
    <3> HIDE DEF x
    <3>2. sum = x
      BY <1>8, <3>1
    <3> QED BY <3>2 DEF x
  <2>3. rest = Piece(msg, n * CHUNK_LEN, len)
    <3>1. 0 \in Nat /\ 0 <= len /\ sum + 0 = sum /\ len - 0 = len
      OBVIOUS
    <3>2. SubSeq(input, 0 + 1, len) = Piece(msg, sum + 0, len - 0)
      BY <1>6, <3>1
    <3> QED BY <2>1, <2>2, <3>1, <3>2
  <2>4. Stacked(msg, n, st)
    BY <1>3 DEF Loose, Stacked
  <2>5. new = FinishUpdate(hashed.hasher, SubSeq(rest, hashed.done + 1, Len(rest)))
    <3>1. input # <<>> /\ ~(k > 0)
      BY <1>1, <1>8
    <3> HIDE DEF hashed, rest, filled
    <3> QED BY <1>5, <3>1
  <2>6. hashed = HashSubtrees(H(msg, n, 0, st), rest, simd)
    BY <1>3, <1>8, <2>1
  <2> HIDE DEF hashed, rest
  <2>7. Good(msg, n * CHUNK_LEN + len, new)
    BY <1>8, <2>3, <2>4, <2>5, <2>6, TailH
  <2> QED BY <2>2, <2>7 DEF new, input
<1>9. CASE k > 0 /\ len > 0
  <2>0. st = Stack(msg, n)
    BY <1>3, <1>9
  <2>1. take \in Nat /\ take <= len /\ take = Least(CHUNK_LEN - k, len) /\ k + take <= CHUNK_LEN
        /\ (take < len => k + take = CHUNK_LEN)
    BY <1>0, <1>3, <1>9 DEF Least
  <2> HIDE DEF take
  <2>2. rest = Piece(msg, sum + take, len - take) /\ SubSeq(input, 1, take) = Piece(msg, sum, take)
    BY <1>6, <2>1
  <2>3. ChunkStateUpdate(CS(msg, n, k), SubSeq(input, 1, take)) = CS(msg, n, k + take)
    <3>1. ChunkStateUpdate(CS(msg, n, k), Piece(msg, n * CHUNK_LEN + k, take)) = CS(msg, n, k + take)
      BY ONLY <2>1, n \in Nat, k \in Nat, Stream(msg), ChunkUpdate
    <3> QED BY <1>3, <2>2, <3>1
  <2>4. filled = H(msg, n, k + take, Stack(msg, n))
    <3> DEFINE c == CS(msg, n, k + take)
    <3>1. [h EXCEPT !.chunk = c] = H(msg, n, k + take, st)
      BY <1>3 DEF H
    <3> HIDE DEF c
    <3>2. filled = [h EXCEPT !.chunk = c]
      BY <1>4, <2>3 DEF c
    <3> QED BY <2>0, <3>1, <3>2
  <2>5. len - take \in Nat /\ sum + take \in Nat /\ (rest = <<>> <=> len - take = 0)
    <3>1. len - take \in Nat /\ sum + take \in Nat
      BY <2>1
    <3> HIDE DEF rest
    <3> QED BY <2>2, <3>1, PieceType
  <2>6. CASE take = len
    <3>1. rest = <<>>
      BY <2>5, <2>6
    <3>2. new = filled
      <4>1. input # <<>>
        BY <1>1, <1>9
      <4> HIDE DEF filled, hashed, rest
      <4> QED BY <1>5, <1>9, <3>1, <4>1
    <3>3. sum + len = n * CHUNK_LEN + (k + len) /\ k + len \in Nat /\ k + len <= CHUNK_LEN
          /\ k + len > 0
      <4> DEFINE x == n * CHUNK_LEN
      <4>1. x \in Nat /\ sum = x + k
        BY <1>0, <1>3, Times
      <4> HIDE DEF x
      <4>2. sum + len = x + (k + len) /\ k + len \in Nat /\ k + len <= CHUNK_LEN /\ k + len > 0
        BY <1>9, <2>1, <2>6, <4>1
      <4> QED BY <4>2 DEF x
    <3>4. new = H(msg, n, k + len, Stack(msg, n))
      BY <2>4, <2>6, <3>2
    <3>5. Good(msg, sum + len, new)
      BY <3>3, <3>4 DEF Good
    <3> QED BY <3>5 DEF new, input
  <2>7. CASE take # len
    <3>1. take < len /\ k + take = CHUNK_LEN /\ len - take > 0
      BY <2>1, <2>7
    <3>2. sum + take = (n + 1) * CHUNK_LEN
      <4> DEFINE x == n * CHUNK_LEN
      <4>1. x \in Nat /\ sum = x + k /\ (n + 1) * CHUNK_LEN = x + CHUNK_LEN
        BY <1>0, <1>3, Times
      <4> HIDE DEF x
      <4> QED BY <2>1, <3>1, <4>1
    <3>3. filled = H(msg, n, CHUNK_LEN, Stack(msg, n))
      BY <2>4, <3>1
    <3>4. start = H(msg, n + 1, 0, Tip(msg, n, 1))
      <4>1. ~(k = 0)
        BY <1>9
      <4> HIDE DEF filled
      <4> QED BY <3>3, <4>1, FinishH
    <3>5. Stacked(msg, n + 1, Tip(msg, n, 1))
      <4>1. Power(1) /\ Divides(1, n)
        BY Doubled DEF Divides
      <4> QED BY <4>1, TipStacked
    <3>6. new = FinishUpdate(hashed.hasher, SubSeq(rest, hashed.done + 1, Len(rest)))
      <4>1. input # <<>> /\ rest # <<>>
        BY <1>1, <1>9, <2>5, <3>1
      <4> HIDE DEF filled, hashed, rest
      <4> QED BY <1>5, <4>1
    <3>7. rest = Piece(msg, (n + 1) * CHUNK_LEN, len - take)
      BY <2>2, <3>2
    <3> DEFINE first == n + 1
               l == len - take
    <3>8. first \in Nat /\ l \in Nat /\ l > 0 /\ sum + len = first * CHUNK_LEN + l
      <4>1. sum + len = (sum + take) + (len - take)
        BY <2>1
      <4> QED BY <2>5, <3>1, <3>2, <4>1
    <3>9. hashed = HashSubtrees(H(msg, first, 0, Tip(msg, n, 1)), rest, simd)
      <4> HIDE DEF start, rest
      <4> QED BY <3>4
    <3> HIDE DEF hashed, rest, first, l
    <3>10. Good(msg, first * CHUNK_LEN + l, new)
      <4>1. Stacked(msg, first, Tip(msg, n, 1)) /\ rest = Piece(msg, first * CHUNK_LEN, l)
        BY <3>5, <3>7 DEF first, l
      <4> QED BY <3>6, <3>8, <3>9, <4>1, TailH
    <3> QED BY <3>8, <3>10 DEF new, input
  <2> QED BY <2>6, <2>7
<1> QED BY <1>7, <1>8, <1>9

-----------------------------------------------------------------------------
(* The bytes of output.                                                    *)

OutDef(o, g, n) ==
  [at \in Nat |->
     IF n = 0 THEN <<>>
     ELSE LET wide   == CompressXof(o.input_cv, o.block, o.block_len,
                                    at \div BLOCK_LEN, o.flags \cup {"ROOT"})
              offset == at % BLOCK_LEN
              len    == Least(n, BLOCK_LEN - offset)
          IN SubSeq(wide, offset + 1, offset + len) \o g[n - len][at + len]]
OutR == INSTANCE Recursion WITH Dom <- Numbers, Size <- Itself, Def <- OutDef

\* The rest of a block of output.
BlockTail(o, n, i) ==
  SubSeq(CompressXof(o.input_cv, o.block, o.block_len, i \div BLOCK_LEN, o.flags \cup {"ROOT"}),
         (i % BLOCK_LEN) + 1, (i % BLOCK_LEN) + Least(n, BLOCK_LEN - (i % BLOCK_LEN)))

TailLen(n, i) == Least(n, BLOCK_LEN - (i % BLOCK_LEN))

Outs(f, o) ==
  \A n, i \in Nat :
    f[n][i] = IF n = 0 THEN <<>>
              ELSE BlockTail(o, n, i) \o f[n - TailLen(n, i)][i + TailLen(n, i)]

\* What is copied of a block is not empty and lies inside the block.
LEMMA TailLenIs ==
  ASSUME NEW n \in Nat, n > 0, NEW i \in Nat
  PROVE  /\ TailLen(n, i) \in Nat /\ TailLen(n, i) > 0 /\ TailLen(n, i) <= n
         /\ (i % BLOCK_LEN) + TailLen(n, i) <= BLOCK_LEN
         /\ i % BLOCK_LEN \in 0..(BLOCK_LEN - 1)
<1> DEFINE r == i % BLOCK_LEN
<1>1. BLOCK_LEN \in Nat \ {0}
  BY Lengths
<1>2. r \in 0..(BLOCK_LEN - 1)
  BY <1>1
<1> HIDE DEF r
<1>3. LET l == Least(n, BLOCK_LEN - r)
      IN l \in Nat /\ l > 0 /\ l <= n /\ r + l <= BLOCK_LEN
  BY <1>1, <1>2 DEF Least
<1> QED BY <1>2, <1>3 DEF TailLen, r

\* The loop of output_root_bytes, block by block.
LEMMA OutIs ==
  ASSUME NEW o
  PROVE  \E f : Outs(f, o) /\ \A n, i : OutputRootBytes(o, i, n) = f[n][i]
<1> DEFINE f == CHOOSE g : g = [n \in Nat |->
        [at \in Nat |->
           IF n = 0 THEN <<>>
           ELSE LET wide   == CompressXof(o.input_cv, o.block, o.block_len,
                                          at \div BLOCK_LEN, o.flags \cup {"ROOT"})
                    offset == at % BLOCK_LEN
                    len    == Least(n, BLOCK_LEN - offset)
                IN SubSeq(wide, offset + 1, offset + len) \o g[n - len][at + len]]]
<1>1. \A n, i : OutputRootBytes(o, i, n) = f[n][i]
  BY DEF OutputRootBytes
<1>2. OutR!WellFormed(o)
  <2>1. ASSUME NEW g, NEW h, NEW n \in Nat, \A m \in Nat : m < n => g[m] = h[m]
        PROVE  OutDef(o, g, n) = OutDef(o, h, n)
    <3>1. CASE n = 0
      BY <3>1 DEF OutDef
    <3>2. CASE n # 0
      <4>1. ASSUME NEW i \in Nat
            PROVE  g[n - Least(n, BLOCK_LEN - (i % BLOCK_LEN))]
                     = h[n - Least(n, BLOCK_LEN - (i % BLOCK_LEN))]
        <5> DEFINE l == TailLen(n, i)
        <5>1. l \in Nat /\ l > 0 /\ l <= n
          BY <3>2, TailLenIs
        <5> HIDE DEF l
        <5>2. n - l \in Nat /\ n - l < n
          BY <5>1
        <5>3. g[n - l] = h[n - l]
          BY <2>1, <5>2
        <5> QED BY <5>3 DEF l, TailLen
      <4> QED BY <4>1 DEF OutDef
    <3> QED BY <3>1, <3>2
  <2> QED BY <2>1 DEF OutR!WellFormed, Numbers, Itself
<1>3. \E g : g = [n \in Nat |-> OutDef(o, g, n)]
  BY <1>2, OutR!RecursiveFunction, Zenon DEF Numbers
<1>4. f = [n \in Nat |->
        [at \in Nat |->
           IF n = 0 THEN <<>>
           ELSE LET wide   == CompressXof(o.input_cv, o.block, o.block_len,
                                          at \div BLOCK_LEN, o.flags \cup {"ROOT"})
                    offset == at % BLOCK_LEN
                    len    == Least(n, BLOCK_LEN - offset)
                IN SubSeq(wide, offset + 1, offset + len) \o f[n - len][at + len]]]
  BY <1>3, Zenon DEF OutDef
<1> HIDE DEF f
<1>5. ASSUME NEW n \in Nat, NEW i \in Nat
      PROVE  f[n][i] = IF n = 0 THEN <<>>
                       ELSE BlockTail(o, n, i) \o f[n - TailLen(n, i)][i + TailLen(n, i)]
  <2>1. f[n] =
        [at \in Nat |->
           IF n = 0 THEN <<>>
           ELSE LET wide   == CompressXof(o.input_cv, o.block, o.block_len,
                                          at \div BLOCK_LEN, o.flags \cup {"ROOT"})
                    offset == at % BLOCK_LEN
                    len    == Least(n, BLOCK_LEN - offset)
                IN SubSeq(wide, offset + 1, offset + len) \o f[n - len][at + len]]
    BY ONLY <1>4, n \in Nat
  <2> QED BY ONLY <2>1, i \in Nat DEF BlockTail, TailLen
<1>6. Outs(f, o)
  BY <1>5 DEF Outs
<1> QED BY <1>1, <1>6

\* The byte at place i of the output of a root.
ByteAt(o, i) ==
  <<Compress(o.input_cv, o.block, o.block_len, i \div BLOCK_LEN, o.flags \cup {"ROOT"}),
    (i % BLOCK_LEN) + 1>>

Bytes(o, i, n) == [x \in 1..n |-> ByteAt(o, i + x - 1)]

\* What is copied of a block are the next bytes of the output.
LEMMA BlockTailIs ==
  ASSUME NEW o, NEW n \in Nat, n > 0, NEW i \in Nat
  PROVE  BlockTail(o, n, i) = Bytes(o, i, TailLen(n, i))
<1> DEFINE l == TailLen(n, i)
           r == i % BLOCK_LEN
           q == i \div BLOCK_LEN
           Term(c) == Compress(o.input_cv, o.block, o.block_len, c, o.flags \cup {"ROOT"})
           wide == [b \in 1..BLOCK_LEN |-> <<Term(q), b>>]
           u == BlockTail(o, n, i)
           v == Bytes(o, i, l)
<1>1. l \in Nat /\ l > 0 /\ r + l <= BLOCK_LEN /\ r \in 0..(BLOCK_LEN - 1)
  BY TailLenIs
<1>2. BLOCK_LEN \in Nat \ {0} /\ q \in Nat /\ i = q * BLOCK_LEN + r
  BY Lengths, DivMod
<1>3. u = SubSeq(wide, r + 1, r + l)
  BY DEF BlockTail, CompressXof, TailLen
<1>4. /\ Len(v) = l /\ v = [x \in 1..l |-> ByteAt(o, i + x - 1)]
      /\ List(v)
  <2>1. l \in Nat
    BY <1>1
  <2> HIDE DEF l
  <2> QED BY <2>1, ListOf DEF Bytes, List
<1> HIDE DEF u, v, l, r, q
<1>5. ASSUME NEW x \in 1..l PROVE ByteAt(o, i + x - 1) = <<Term(q), r + x>>
  <2> DEFINE a == i + x - 1
             s == r + x - 1
  <2>1. s \in 0..(BLOCK_LEN - 1)
    BY <1>1, <1>2
  <2>2. a = q * BLOCK_LEN + s
    <3> DEFINE y == q * BLOCK_LEN
    <3>1. i = y + r /\ y \in Nat
      BY <1>2, Times
    <3> HIDE DEF y
    <3>2. a = y + s
      BY <1>1, <3>1
    <3> QED BY <3>2 DEF y
  <2>3. s + 1 = r + x
    BY <1>1
  <2> HIDE DEF a, s
  <2>4. a \div BLOCK_LEN = q /\ a % BLOCK_LEN = s
    BY ONLY <1>2, <2>1, <2>2, DivUnique
  <2>5. ByteAt(o, a) = <<Term(q), s + 1>>
    BY <2>4 DEF ByteAt
  <2> QED BY <2>3, <2>5 DEF a
<1>6. wide \in Seq({<<Term(q), b>> : b \in 1..BLOCK_LEN}) /\ Len(wide) = BLOCK_LEN
        /\ \A b \in 1..BLOCK_LEN : wide[b] = <<Term(q), b>>
  <2> HIDE DEF Term
  <2> QED BY <1>2
<1> HIDE DEF wide, Term
<1>7. u \in Seq({<<Term(q), b>> : b \in 1..BLOCK_LEN}) /\ Len(u) = l
        /\ \A x \in 1..l : u[x] = wide[r + x]
  <2>1. r \in Nat /\ l \in Nat /\ r + l <= BLOCK_LEN /\ BLOCK_LEN \in Nat /\ (r + l) - r = l
    BY <1>1, <1>2
  <2>2. u = SubSeq(wide, r + 1, r + l)
    BY <1>3
  <2>3. u \in Seq({<<Term(q), b>> : b \in 1..BLOCK_LEN}) /\ Len(u) = l
    BY ONLY <1>6, <2>1, <2>2
  <2>4. \A x \in 1..((r + l) - r) : SubSeq(wide, r + 1, r + l)[x] = wide[r + x]
    BY ONLY <1>6, <2>1, r + l \in Nat, PartOf
  <2> QED BY <2>1, <2>2, <2>3, <2>4
<1>8. \A x \in 1..l : u[x] = ByteAt(o, i + x - 1)
  <2> TAKE x \in 1..l
  <2>1. r + x \in 1..BLOCK_LEN
    BY <1>1, <1>2
  <2>2. u[x] = wide[r + x] /\ wide[r + x] = <<Term(q), r + x>>
    BY <1>6, <1>7, <2>1
  <2> QED BY <1>5, <2>2
<1>9. u = [x \in 1..l |-> u[x]]
  <2>1. List(u)
    BY <1>7, SeqList
  <2> QED BY <1>7, <2>1 DEF List
<1>10. u = v
  BY <1>4, <1>8, <1>9
<1> QED BY <1>10 DEF u, v, l

\* a bytes from place i on, and b more up to d, which start at c.
Follows(i, a, c, b, d) ==
  i \in Nat /\ a \in Nat /\ b \in Nat /\ c = i + a /\ d = a + b

\* Two parts of the output that follow one another.
LEMMA BytesJoined ==
  ASSUME NEW o, NEW i, NEW a, NEW b, NEW c, NEW d, Follows(i, a, c, b, d)
  PROVE  Bytes(o, i, a) \o Bytes(o, c, b) = Bytes(o, i, d)
<1>0. i \in Nat /\ a \in Nat /\ b \in Nat /\ c = i + a /\ d = a + b
  BY DEF Follows
<1> DEFINE u == Bytes(o, i, a)
           v == Bytes(o, i + a, b)
<1>1. List(u) /\ Len(u) = a /\ List(v) /\ Len(v) = b
  BY <1>0, ListOf DEF Bytes, List
<1>2. (\A x \in 1..a : u[x] = ByteAt(o, i + x - 1))
        /\ \A x \in 1..b : v[x] = ByteAt(o, (i + a) + x - 1)
  BY <1>0 DEF Bytes
<1> HIDE DEF u, v
<1>3. u \o v = [x \in 1..(a + b) |-> IF x <= a THEN u[x] ELSE v[x - a]]
  <2>1. u \o v = [x \in 1..(Len(u) + Len(v)) |-> IF x <= Len(u) THEN u[x] ELSE v[x - Len(u)]]
    BY ONLY <1>1, Joined
  <2> QED BY <1>1, <2>1
<1>4. ASSUME NEW x \in 1..(a + b)
      PROVE  (IF x <= a THEN u[x] ELSE v[x - a]) = ByteAt(o, i + x - 1)
  <2>1. CASE x <= a
    BY <1>2, <2>1
  <2>2. CASE ~(x <= a)
    <3>1. x - a \in 1..b /\ (i + a) + (x - a) - 1 = i + x - 1
      BY <1>0, <2>2
    <3>2. v[x - a] = ByteAt(o, (i + a) + (x - a) - 1)
      BY <1>2, <3>1
    <3> QED BY <2>2, <3>1, <3>2
  <2> QED BY <2>1, <2>2
<1>5. u \o v = [x \in 1..(a + b) |-> ByteAt(o, i + x - 1)]
  BY <1>3, <1>4
<1> QED BY <1>0, <1>5 DEF Bytes, u, v

\* output_root_bytes returns the bytes of the output from where it was told
\* to begin.
LEMMA OutputIs ==
  ASSUME NEW o, NEW n \in Nat, NEW i \in Nat
  PROVE  OutputRootBytes(o, i, n) = Bytes(o, i, n)
<1>1. PICK f : Outs(f, o) /\ \A m, j : OutputRootBytes(o, j, m) = f[m][j]
  BY OutIs
<1> DEFINE S == {m \in Nat : \A j \in Nat : f[m][j] = Bytes(o, j, m)}
<1>2. ASSUME NEW m \in Nat, \A y \in Nat : y < m => y \in S
      PROVE  m \in S
  <2> SUFFICES ASSUME NEW j \in Nat PROVE f[m][j] = Bytes(o, j, m)
    OBVIOUS
  <2>1. f[m][j] = IF m = 0 THEN <<>>
                  ELSE BlockTail(o, m, j) \o f[m - TailLen(m, j)][j + TailLen(m, j)]
    BY <1>1 DEF Outs
  <2>2. CASE m = 0
    <3>1. Bytes(o, j, m) = <<>>
      BY <2>2 DEF Bytes
    <3> QED BY <2>1, <2>2, <3>1
  <2>3. CASE m # 0
    <3> DEFINE l == TailLen(m, j)
               y == m - l
               e == j + l
    <3>1. l \in Nat /\ l > 0 /\ l <= m
      BY <2>3, TailLenIs
    <3>2. BlockTail(o, m, j) = Bytes(o, j, l)
      BY <2>3, BlockTailIs
    <3>3. f[m][j] = Bytes(o, j, l) \o f[y][e]
      BY <2>1, <2>3, <3>2
    <3> HIDE DEF l
    <3>4. y \in Nat /\ y < m /\ e \in Nat /\ l + y = m
      BY <3>1
    <3> HIDE DEF y
    <3>5. f[y][e] = Bytes(o, e, y)
      BY <1>2, <3>4
    <3>6. Bytes(o, j, l) \o Bytes(o, e, y) = Bytes(o, j, m)
      <4>1. l \in Nat /\ y \in Nat /\ j \in Nat /\ e = j + l /\ m = l + y
        BY <3>1, <3>4
      <4>2. Follows(j, l, e, y, m)
        BY <4>1 DEF Follows
      <4> QED BY ONLY <4>2, BytesJoined
    <3> HIDE DEF e
    <3> QED BY <3>3, <3>5, <3>6
  <2> QED BY <2>2, <2>3
<1> HIDE DEF S
<1>3. S = Nat
  BY <1>2, Induct DEF S
<1>4. f[n][i] = Bytes(o, i, n)
  BY <1>3 DEF S
<1> QED BY <1>1, <1>4

-----------------------------------------------------------------------------
(* hasher_finalize_seek.                                                   *)

RolledDef(p, g, k) ==
  IF k > 0 THEN ParentOutput(p.st[p.n - k + 1], ChainingValue(g[k - 1]), p.key, p.flags)
  ELSE p.first
RolledR == INSTANCE Recursion WITH Dom <- Numbers, Size <- Itself, Def <- RolledDef

\* The nodes while the entries from n down are put to the left of them.
Rolled(f, first, st, n, key, flags) ==
  /\ f[0] = first
  /\ \A k \in Nat : f[k + 1] = ParentOutput(st[n - k], ChainingValue(f[k]), key, flags)

\* How many entries are put to the left, and of what.
Begun(h) == h.cv_stack = <<>> \/ ChunkLen(h.chunk) > 0
LeftEntries(h) == IF Begun(h) THEN Len(h.cv_stack) ELSE Len(h.cv_stack) - 2
LastNode(h) ==
  IF Begun(h) THEN ChunkStateOutput(h.chunk)
  ELSE ParentOutput(h.cv_stack[LeftEntries(h) + 1], h.cv_stack[LeftEntries(h) + 2],
                    h.key, h.chunk.flags)

\* The loop of hasher_finalize_seek, entry by entry.
LEMMA FinalizeIs ==
  ASSUME NEW h, NEW seek, NEW out_len, LeftEntries(h) \in Nat
  PROVE  \E f : /\ Rolled(f, LastNode(h), h.cv_stack, LeftEntries(h), h.key, h.chunk.flags)
                /\ FinalizeSeek(h, seek, out_len)
                     = OutputRootBytes(f[LeftEntries(h)], seek, out_len)
<1> DEFINE st == h.cv_stack
           key == h.key
           flags == h.chunk.flags
           begun == st = <<>> \/ ChunkLen(h.chunk) > 0
           n == IF begun THEN Len(st) ELSE Len(st) - 2
           node == ChunkStateOutput(h.chunk)
           first == IF begun THEN node ELSE ParentOutput(st[n + 1], st[n + 2], key, flags)
           p == [st |-> st, n |-> n, first |-> first, key |-> key, flags |-> flags]
           f == CHOOSE g : g = [k \in Nat |->
                  IF k > 0 THEN ParentOutput(st[n - k + 1], ChainingValue(g[k - 1]), key, flags)
                  ELSE IF begun THEN node
                  ELSE ParentOutput(st[n + 1], st[n + 2], key, flags)]
<1>1. p.st = st /\ p.n = n /\ p.first = first /\ p.key = key /\ p.flags = flags
  OBVIOUS
<1>2. FinalizeSeek(h, seek, out_len) = OutputRootBytes(f[n], seek, out_len)
  BY DEF FinalizeSeek
<1>3. n = LeftEntries(h) /\ first = LastNode(h)
  BY DEF LeftEntries, LastNode, Begun
<1> HIDE DEF p
<1>4. RolledR!WellFormed(p)
  <2>1. ASSUME NEW g1, NEW g2, NEW k \in Nat, \A y \in Nat : y < k => g1[y] = g2[y]
        PROVE  RolledDef(p, g1, k) = RolledDef(p, g2, k)
    <3>1. CASE k = 0
      BY <3>1 DEF RolledDef
    <3>2. CASE k # 0
      <4>1. g1[k - 1] = g2[k - 1]
        BY <2>1, <3>2
      <4> QED BY <4>1 DEF RolledDef
    <3> QED BY <3>1, <3>2
  <2> QED BY <2>1 DEF RolledR!WellFormed, Numbers, Itself
<1>5. \E g : g = [k \in Nat |-> RolledDef(p, g, k)]
  BY <1>4, RolledR!RecursiveFunction DEF Numbers
<1> HIDE DEF st, key, flags, begun, n, node
<1>6. ASSUME NEW g, NEW k
      PROVE  RolledDef(p, g, k) =
                  IF k > 0 THEN ParentOutput(st[n - k + 1], ChainingValue(g[k - 1]), key, flags)
                  ELSE IF begun THEN node
                  ELSE ParentOutput(st[n + 1], st[n + 2], key, flags)
  BY <1>1 DEF RolledDef
<1>7. f = [k \in Nat |->
                  IF k > 0 THEN ParentOutput(st[n - k + 1], ChainingValue(f[k - 1]), key, flags)
                  ELSE IF begun THEN node
                  ELSE ParentOutput(st[n + 1], st[n + 2], key, flags)]
  <2>1. \E g : g = [k \in Nat |->
                  IF k > 0 THEN ParentOutput(st[n - k + 1], ChainingValue(g[k - 1]), key, flags)
                  ELSE IF begun THEN node
                  ELSE ParentOutput(st[n + 1], st[n + 2], key, flags)]
    BY <1>5, <1>6
  <2> QED BY <2>1
<1> HIDE DEF f
<1>8. f[0] = first
  <2>1. 0 \in Nat /\ ~(0 > 0)
    OBVIOUS
  <2>2. f[0] = IF begun THEN node ELSE ParentOutput(st[n + 1], st[n + 2], key, flags)
    BY ONLY <1>7, <2>1
  <2> QED BY <2>2
<1>9. ASSUME NEW k \in Nat
      PROVE  f[k + 1] = ParentOutput(st[n - k], ChainingValue(f[k]), key, flags)
  <2> DEFINE m == k + 1
  <2>1. m \in Nat /\ m > 0 /\ m - 1 = k
    OBVIOUS
  <2>2. n - m + 1 = n - k
    <3>1. n \in Nat
      BY <1>3
    <3> QED BY <3>1
  <2> HIDE DEF m
  <2>3. f[m] = ParentOutput(st[n - m + 1], ChainingValue(f[m - 1]), key, flags)
    BY ONLY <1>7, <2>1
  <2> QED BY <2>1, <2>2, <2>3 DEF m
<1>10. Rolled(f, first, st, n, key, flags)
  BY <1>8, <1>9 DEF Rolled
<1> HIDE DEF first
<1> QED BY <1>2, <1>3, <1>10 DEF st, key, flags

\* The chaining value of a node of the tree.
LEMMA NodeCV ==
  ASSUME NEW tree, NEW n \in Nat, n > 0, NEW lo \in Nat
  PROVE  ChainingValue(TreeNode(tree, n, lo)) = TreeCV(tree)[n][lo]
<1>1. CASE n = 1
  <2> DEFINE leaf == [c \in Nat |-> ChainingValue(ChunkNode(tree, c))]
  <2>1. leaf[lo] = ChainingValue(ChunkNode(tree, lo))
    OBVIOUS
  <2>2. TreeCV(tree)[n][lo] = Subtree(leaf, tree.key, tree.flags)[n][lo]
    BY DEF TreeCV
  <2> HIDE DEF leaf
  <2>3. Subtree(leaf, tree.key, tree.flags)[n][lo] = leaf[lo]
    BY <1>1, SubtreeIs
  <2>4. TreeNode(tree, n, lo) = ChunkNode(tree, lo)
    BY <1>1 DEF TreeNode
  <2> QED BY <2>1, <2>2, <2>3, <2>4
<1>2. CASE n > 1
  <2>1. TreeCV(tree)[n][lo] = Parent(TreeCV(tree)[LeftNodes[n]][lo],
                                     TreeCV(tree)[n - LeftNodes[n]][lo + LeftNodes[n]],
                                     tree.key, tree.flags)
    BY <1>2, TreeCVIs
  <2>2. ~(n <= 1)
    BY <1>2
  <2> QED BY <2>1, <2>2 DEF TreeNode, Parent
<1> QED BY <1>1, <1>2

\* The node of the first b chunks and g more.
Over0(tree, b, g) == TreeNode(tree, b + g, 0)

\* The entries of st are the subtrees of b chunks, one for each 1-bit.
Entries(tree, b, st) ==
  \A x \in 1..popcnt[b] : st[x] = TreeCV(tree)[Bits[b][x]][Starts(Bits[b])[x]]

\* From the last nodes on the entries of b chunks are put to the left, one
\* for each 1-bit.
LEMMA RolledUp ==
  ASSUME NEW tree, NEW b \in Nat, NEW g, Power(g), Divides(g, b), NEW st, NEW f,
         Rolled(f, TreeNode(tree, g, b), st, popcnt[b], tree.key, tree.flags),
         Entries(tree, b, st)
  PROVE  f[popcnt[b]] = Over0(tree, b, g)
<1> DEFINE z == Bits[b]
           start == Starts(z)
           n == popcnt[b]
<1>0. n \in Nat /\ Len(z) = n /\ g \in Nat /\ g > 0
  BY BitsType, PopType DEF Power
<1>1. /\ \A x \in 1..n :
           /\ start[x] \in Nat /\ start[x] < b
           /\ z[x] = round_down_to_power_of_2[b - start[x]]
           /\ start[x + 1] = start[x] + z[x]
           /\ Divides(g, start[x])
      /\ start[n + 1] = b
  <2>1. BitsFill(b)
    BY BitsFillAll
  <2> QED BY <1>0, <2>1 DEF BitsFill
<1>2. start[1] = 0
  BY StartsNext
<1>3. \A x \in 1..n : st[x] = TreeCV(tree)[z[x]][start[x]]
  BY DEF Entries
<1> HIDE DEF z, start, n
<1> DEFINE At2(k) == /\ start[n - k + 1] \in Nat /\ start[n - k + 1] <= b
                     /\ f[k] = TreeNode(tree, (b - start[n - k + 1]) + g, start[n - k + 1])
           S == {k \in Nat : k <= n => At2(k)}
<1>4. ASSUME NEW k \in Nat, \A j \in Nat : j < k => j \in S PROVE k \in S
  <2> SUFFICES ASSUME k <= n PROVE At2(k)
    OBVIOUS
  <2>1. CASE k = 0
    <3>1. n - k + 1 = n + 1 /\ (b - b) + g = g /\ b <= b
      BY <1>0, <2>1
    <3>2. f[k] = TreeNode(tree, g, b)
      BY <2>1 DEF Rolled, n
    <3> QED BY <1>1, <3>1, <3>2
  <2>2. CASE k # 0
    <3> DEFINE j == k - 1
               x == n - j
               s == start[x]
               e == start[x + 1]
               m == b - s
               q == z[x]
               t == (b - e) + g
    <3>1. j \in Nat /\ j < k /\ k = j + 1 /\ j <= n /\ x \in 1..n /\ n - k + 1 = x /\ n - j + 1 = x + 1
      BY <1>0, <2>2
    <3>2. At2(j)
      <4> HIDE DEF At2, j
      <4> QED BY <1>4, <3>1
    <3>3. f[j] = TreeNode(tree, t, e) /\ e \in Nat /\ e <= b
      BY <3>1, <3>2
    <3>4. s \in Nat /\ s < b /\ q = round_down_to_power_of_2[m] /\ e = s + q /\ Divides(g, s)
      BY <1>1, <3>1
    <3>5. st[x] = TreeCV(tree)[q][s]
      BY <1>3, <3>1
    <3>6. f[k] = ParentOutput(st[x], ChainingValue(f[j]), tree.key, tree.flags)
      <4> HIDE DEF j
      <4>1. f[j + 1] = ParentOutput(st[n - j], ChainingValue(f[j]), tree.key, tree.flags)
        BY <3>1 DEF Rolled, n
      <4> QED BY <3>1, <4>1
    <3> HIDE DEF j, x, s, e, q, t
    <3>7. m \in Nat /\ m > 0 /\ Divides(g, m)
      <4>1. m \in Nat /\ m > 0
        BY <3>4
      <4>2. Divides(g, m)
        BY <1>0, <3>4, DividesLess
      <4> QED BY <4>1, <4>2
    <3> HIDE DEF m
    <3>8. q \in Nat /\ g <= q /\ q <= m /\ m + g <= 2 * q /\ Power(q)
      BY <3>4, <3>7, RoundAligned, RoundType, RoundPower
    <3>9. t \in Nat /\ t > 0 /\ m + g \in Nat /\ m + g > 1 /\ (m + g) - q = t /\ s + q = e /\ q < m + g
      <4>1. b \in Nat /\ g \in Nat /\ g > 0 /\ s \in Nat /\ e \in Nat /\ q \in Nat /\ m \in Nat
        BY <1>0, <3>3, <3>4, <3>7, <3>8
      <4>2. e <= b /\ e = s + q /\ g <= q /\ q <= m
        BY <3>3, <3>4, <3>8
      <4>3. m = b - s /\ t = (b - e) + g
        BY DEF m, t
      <4>4. t \in Nat /\ t > 0
        BY ONLY <4>1, <4>2, <4>3
      <4>5. m + g \in Nat /\ m + g > 1 /\ q < m + g
        BY ONLY <4>1, <4>2
      <4>6. (m + g) - q = t
        BY ONLY <4>1, <4>2, <4>3
      <4> QED BY <4>2, <4>4, <4>5, <4>6
    <3>10. LeftNodes[m + g] = q
      BY <3>8, <3>9, LeftUnique
    <3>11. ChainingValue(f[j]) = TreeCV(tree)[t][e]
      BY <3>3, <3>9, NodeCV
    <3>12. TreeNode(tree, m + g, s) = ParentOutput(TreeCV(tree)[q][s], TreeCV(tree)[t][e],
                                                   tree.key, tree.flags)
      <4>1. ~(m + g <= 1)
        BY <3>9
      <4> QED BY <3>9, <3>10, <4>1 DEF TreeNode
    <3>13. f[k] = TreeNode(tree, m + g, s)
      BY <3>5, <3>6, <3>11, <3>12
    <3>14. start[n - k + 1] = s
      BY <3>1, Zenon DEF s
    <3> QED BY <3>4, <3>13, <3>14 DEF m
  <2> HIDE DEF At2
  <2> QED BY <2>1, <2>2
<1> HIDE DEF S
<1>5. S = Nat
  BY <1>4, Induct DEF S
<1>6. At2(n)
  <2>1. n \in S /\ n <= n
    BY <1>0, <1>5
  <2> HIDE DEF At2
  <2> QED BY <2>1 DEF S
<1>7. n - n + 1 = 1 /\ b - 0 = b
  BY <1>0
<1>8. f[n] = TreeNode(tree, b + g, 0)
  BY <1>2, <1>6, <1>7
<1> QED BY <1>8 DEF n, Over0

\* The entries of a stack are subtrees of every longer prefix.
LEMMA StackEntries ==
  ASSUME NEW msg, Stream(msg), NEW b \in Nat, NEW len \in Nat, b * CHUNK_LEN <= len
  PROVE  \A x \in 1..popcnt[b] :
           Stack(msg, b)[x] = TreeCV(Prefix(msg, len))[Bits[b][x]][Starts(Bits[b])[x]]
<1> DEFINE zs == Bits[b]
           start == Starts(zs)
           N == popcnt[b]
<1>1. N \in Nat /\ Len(zs) = N
  BY BitsType, PopType
<1>2. ASSUME NEW x \in 1..N
      PROVE  /\ start[x] \in Nat /\ start[x] < b
             /\ zs[x] = round_down_to_power_of_2[b - start[x]]
  <2>1. BitsFill(b)
    BY BitsFillAll
  <2> QED BY <1>1, <2>1 DEF BitsFill
<1>3. Stack(msg, b) = [x \in 1..N |-> Full(msg, zs[x], start[x])]
  BY <1>1 DEF Stack, Sub
<1> HIDE DEF zs, start, N
<1>4. ASSUME NEW x \in 1..N
      PROVE  Full(msg, zs[x], start[x]) = TreeCV(Prefix(msg, len))[zs[x]][start[x]]
  <2> DEFINE first == start[x]
             k == zs[x]
             rest == b - first
  <2>1. first \in Nat /\ rest \in Nat /\ rest > 0 /\ k = round_down_to_power_of_2[rest]
        /\ first + rest = b
    BY <1>2
  <2> HIDE DEF first, k, rest
  <2>2. k \in Nat /\ k > 0 /\ k <= rest
    BY <2>1, RoundType, RoundBounds
  <2>3. first + k \in Nat /\ first + k <= b
    BY <2>1, <2>2
  <2>4. (first + k) * CHUNK_LEN <= len
    <3> DEFINE c == first + k
               y == c * CHUNK_LEN
               z == b * CHUNK_LEN
    <3>1. c \in Nat /\ c <= b /\ CHUNK_LEN \in Nat
      BY <2>3, Lengths
    <3> HIDE DEF c
    <3>2. y <= z /\ y \in Nat /\ z \in Nat
      BY <3>1, Times
    <3>3. z <= len
      OBVIOUS
    <3> HIDE DEF y, z
    <3>4. y <= len
      BY <3>2, <3>3
    <3> QED BY <3>4 DEF y, c
  <2>5. TreeCV(Prefix(msg, len))[k][first] = Full(msg, k, first)
    BY <2>1, <2>2, <2>4, FullIs
  <2> QED BY <2>5 DEF first, k
<1>5. \A x \in 1..N : Stack(msg, b)[x] = TreeCV(Prefix(msg, len))[zs[x]][start[x]]
  BY <1>3, <1>4
<1> QED BY <1>5 DEF zs, start, N

\* Of len bytes the last g chunks follow b chunks.
Ends(len, b, g) == Chunks(len) = b + g /\ b * CHUNK_LEN <= len

\* The first entries of a stack are those of b chunks.
Begins(stack, msg, b) == \A x \in 1..popcnt[b] : stack[x] = Stack(msg, b)[x]

\* A stack of b chunks and the node of the g chunks after them.
LEMMA FinalizeRoot ==
  ASSUME NEW msg, Stream(msg), NEW len \in Nat, NEW h, NEW b \in Nat,
         NEW g, Power(g), Divides(g, b), Ends(len, b, g),
         h.key = msg.key, h.chunk.flags = msg.flags,
         LeftEntries(h) = popcnt[b], LastNode(h) = TreeNode(Prefix(msg, len), g, b),
         Begins(h.cv_stack, msg, b),
         NEW seek \in Nat, NEW out_len \in Nat
  PROVE  FinalizeSeek(h, seek, out_len) = RootBytes(Prefix(msg, len), seek, out_len)
<1> DEFINE whole == Prefix(msg, len)
           stack == h.cv_stack
<1>1. LeftEntries(h) \in Nat
  BY PopType
<1>2. PICK f : /\ Rolled(f, LastNode(h), stack, LeftEntries(h), h.key, h.chunk.flags)
               /\ FinalizeSeek(h, seek, out_len) = OutputRootBytes(f[LeftEntries(h)], seek, out_len)
  BY <1>1, FinalizeIs
<1>3. whole.key = msg.key /\ whole.flags = msg.flags /\ whole.len = len
  BY DEF Prefix
<1>4. Entries(whole, b, stack)
  BY StackEntries DEF Entries, Begins, Ends
<1> HIDE DEF whole, stack
<1>5. Rolled(f, TreeNode(whole, g, b), stack, popcnt[b], whole.key, whole.flags)
  BY <1>2, <1>3 DEF whole
<1>6. f[popcnt[b]] = Over0(whole, b, g)
  BY ONLY <1>4, <1>5, Power(g), Divides(g, b), b \in Nat, RolledUp
<1>7. RootNode(whole) = Over0(whole, b, g)
  BY <1>3 DEF RootNode, Over0, Ends
<1>8. FinalizeSeek(h, seek, out_len) = OutputRootBytes(RootNode(whole), seek, out_len)
  BY <1>2, <1>6, <1>7
<1>9. OutputRootBytes(RootNode(whole), seek, out_len) = Bytes(RootNode(whole), seek, out_len)
  BY OutputIs
<1>10. Bytes(RootNode(whole), seek, out_len) = RootBytes(whole, seek, out_len)
  BY DEF Bytes, ByteAt, RootBytes
<1> QED BY <1>8, <1>9, <1>10 DEF whole

\* n chunks and k bytes.
SizeOf(len, n, k) == len = n * CHUNK_LEN + k

\* A chunk is begun, or there is no message at all: the node of the chunk is
\* the last one.
LEMMA FinalizeBegun ==
  ASSUME NEW msg, Stream(msg), NEW n \in Nat, NEW k \in Nat, k <= CHUNK_LEN, NEW len,
         SizeOf(len, n, k), k > 0 \/ len = 0,
         NEW seek \in Nat, NEW out_len \in Nat
  PROVE  FinalizeSeek(H(msg, n, k, Stack(msg, n)), seek, out_len)
           = RootBytes(Prefix(msg, len), seek, out_len)
<1> DEFINE h == H(msg, n, k, Stack(msg, n))
           tree == Prefix(msg, len)
           base == n * CHUNK_LEN
<1>1. CHUNK_LEN \in Nat /\ CHUNK_LEN > 0 /\ base \in Nat /\ len = base + k
  BY Lengths, Times DEF SizeOf
<1>2. h.key = msg.key /\ h.chunk = CS(msg, n, k) /\ h.cv_stack = Stack(msg, n)
      /\ h.chunk.flags = msg.flags
  BY DEF H, CS, State
<1>3. len = 0 => n = 0 /\ k = 0
  <2>1. ASSUME len = 0, n # 0 PROVE FALSE
    <3>1. 0 \in Nat /\ 0 < n /\ 0 * CHUNK_LEN = 0
      BY <2>1, <1>1, SMTT(30)
    <3>2. 0 * CHUNK_LEN + CHUNK_LEN <= n * CHUNK_LEN
      BY <1>1, <3>1, Times
    <3> QED BY <1>1, <2>1, <3>1, <3>2
  <2>2. len = 0 => k = 0
    <3> HIDE DEF base
    <3> QED BY <1>1
  <2> QED BY <2>1, <2>2
<1> HIDE DEF h
<1>4. Begun(h)
  <2>1. CASE k > 0
    BY <1>2, <2>1, ChunkLenIs DEF Begun
  <2>2. CASE len = 0
    <3>1. Stack(msg, 0) = <<>>
      <4>1. Bits[0] = <<>>
        BY BitsIs
      <4>2. Len(Bits[0]) = 0
        BY <4>1
      <4> QED BY <4>2 DEF Stack, Sub
    <3> QED BY <1>2, <1>3, <2>2, <3>1 DEF Begun
  <2> QED BY <2>1, <2>2
<1>5. LeftEntries(h) = popcnt[n] /\ LastNode(h) = ChunkStateOutput(CS(msg, n, k))
  <2>1. Len(h.cv_stack) = popcnt[n]
    BY <1>2, StackType
  <2> QED BY <1>2, <1>4, <2>1 DEF LeftEntries, LastNode
<1>6. ChunkSize(tree, n) = k
  <2> HIDE DEF base
  <2>1. base <= len /\ len <= base + CHUNK_LEN /\ len - base = k /\ len \in Nat
    BY <1>1
  <2> QED BY <2>1, SizeIs DEF base
<1>7. TreeNode(tree, 1, n) = ChunkStateOutput(CS(msg, n, k))
  <2>1. len \in Nat /\ n * CHUNK_LEN <= len
    <3> HIDE DEF base
    <3>1. len \in Nat /\ base <= len
      BY <1>1
    <3> QED BY <3>1 DEF base
  <2>2. ChunkNode(tree, n) = ChunkStateOutput(CS(msg, n, ChunkSize(tree, n)))
    BY <2>1, NodeIsOutput
  <2> HIDE DEF tree
  <2> QED BY <1>6, <2>2 DEF TreeNode
<1>8. Chunks(len) = n + 1
  <2>1. CASE len = 0
    BY <1>3, <2>1 DEF Chunks
  <2>2. CASE len # 0
    <3>1. k > 0 /\ k - 1 \in 0..(CHUNK_LEN - 1)
      BY <1>1, <2>2
    <3> DEFINE r == k - 1
               last == len - 1
    <3>2. r \in 0..(CHUNK_LEN - 1) /\ last = n * CHUNK_LEN + r
      <4>1. last = base + r
        <5> HIDE DEF base
        <5> QED BY <1>1
      <4> QED BY <3>1, <4>1
    <3> HIDE DEF r, last
    <3>3. last \div CHUNK_LEN = n
      BY ONLY <1>1, <3>2, n \in Nat, DivUnique
    <3> QED BY <2>2, <3>3 DEF Chunks, last
  <2> QED BY <2>1, <2>2
<1>9. Power(1) /\ Divides(1, n)
  BY Doubled DEF Divides
<1>10. len \in Nat /\ n * CHUNK_LEN <= len
  <2> HIDE DEF base
  <2>1. len \in Nat /\ base <= len
    BY <1>1
  <2> QED BY <2>1 DEF base
<1>11. LastNode(h) = TreeNode(Prefix(msg, len), 1, n)
  BY <1>5, <1>7
<1>12. Begins(h.cv_stack, msg, n) /\ Ends(len, n, 1)
  BY <1>2, <1>8, <1>10 DEF Begins, Ends
<1>13. FinalizeSeek(h, seek, out_len) = RootBytes(Prefix(msg, len), seek, out_len)
  BY ONLY <1>2, <1>5, <1>8, <1>9, <1>10, <1>11, <1>12, Stream(msg), n \in Nat, seek \in Nat,
     out_len \in Nat, FinalizeRoot
<1> QED BY <1>13 DEF h

\* No chunk is begun: the last node is the parent of the two last entries.
LEMMA FinalizeLoose ==
  ASSUME NEW msg, Stream(msg), NEW n \in Nat, NEW st, Loose(msg, n, st),
         NEW seek \in Nat, NEW out_len \in Nat
  PROVE  FinalizeSeek(H(msg, n, 0, st), seek, out_len)
           = RootBytes(Prefix(msg, n * CHUNK_LEN), seek, out_len)
<1> DEFINE hash == H(msg, n, 0, st)
           size == n * CHUNK_LEN
           tree == Prefix(msg, size)
<1>1. PICK m, p \in Nat : n = m + p /\ Power(p) /\ Divides(p, m) /\ Divides(2 * p, n)
                          /\ st = Tip(msg, m, p)
  BY DEF Loose
<1>2. p > 0 /\ CHUNK_LEN \in Nat /\ CHUNK_LEN > 0 /\ size \in Nat
  BY <1>1, Lengths, Times DEF Power
<1>3. PICK b : TipTwin(msg, m, p, b)
  <2>1. ~Divides(2 * p, m)
    <3> SUFFICES ASSUME Divides(2 * p, m) PROVE FALSE
      OBVIOUS
    <3> DEFINE d == 2 * p
    <3>1. d \in Nat /\ m < n
      BY <1>1, <1>2
    <3> HIDE DEF d
    <3>2. m + d <= n
      BY <1>1, <3>1, DividesLess DEF d
    <3> QED BY <1>1, <1>2, <3>2 DEF d
  <2> QED BY <1>1, <2>1, TipCases DEF TipDone
<1> DEFINE s == Stack(msg, b)
           x1 == Full(msg, p, b)
           x2 == Full(msg, p, b + p)
           N == popcnt[b]
           two == 2 * p
<1>4. b \in Nat /\ n = b + two /\ Divides(two, b) /\ N \in Nat /\ st = Append(Append(s, x1), x2)
      /\ two \in Nat /\ b + p \in Nat
  BY <1>1, <1>3 DEF TipTwin
<1>5. List(s) /\ Len(s) = N
  BY <1>4, StackType
<1>6. hash.key = msg.key /\ hash.chunk = CS(msg, n, 0) /\ hash.cv_stack = st /\ hash.chunk.flags = msg.flags
  BY DEF H, CS, State
<1> HIDE DEF s, x1, x2, N, hash
<1>7. Len(st) = N + 2 /\ st[Len(st) - 1] = x1 /\ st[Len(st)] = x2
  BY <1>4, <1>5, TopTwo
<1>8. \A x \in 1..N : st[x] = s[x]
  <2>1. PICK V : s \in Seq(V)
    BY <1>5, ListSeq
  <2> DEFINE W == V \cup {x1, x2}
  <2>2. s \in Seq(W) /\ x1 \in W /\ x2 \in W
    BY <2>1
  <2> HIDE DEF W
  <2>3. \A x \in 1..Len(s) : Append(Append(s, x1), x2)[x] = s[x]
    BY <2>2
  <2> QED BY <1>4, <1>5, <2>3
<1>9. ~Begun(hash)
  <2>1. ChunkLen(hash.chunk) = 0
    BY <1>6, ChunkLenIs
  <2>2. st # <<>>
    <3>1. ASSUME st = <<>> PROVE FALSE
      <4>1. Len(st) = 0
        BY <3>1
      <4> QED BY <1>4, <1>7, <4>1
    <3> QED BY <3>1
  <2> QED BY <1>6, <2>1, <2>2 DEF Begun
<1>10. N + 2 - 2 = N /\ N + 2 - 1 = N + 1
  BY <1>4
<1>11. LeftEntries(hash) = N
  <2>1. LeftEntries(hash) = Len(st) - 2
    BY <1>6, <1>9 DEF LeftEntries
  <2> QED BY <1>4, <1>7, <2>1
<1>12. LastNode(hash) = ParentOutput(x1, x2, msg.key, msg.flags)
  <2>1. Len(st) - 1 = N + 1 /\ Len(st) = N + 2
    BY <1>4, <1>7
  <2>2. st[N + 1] = x1 /\ st[N + 2] = x2
    BY <1>7, <2>1
  <2>3. LastNode(hash) = ParentOutput(st[N + 1], st[N + 2], msg.key, msg.flags)
    BY ONLY <1>6, <1>9, <1>11 DEF LastNode
  <2> QED BY <2>2, <2>3
<1>13. Power(two) /\ LeftNodes[two] = p /\ ~(two <= 1) /\ two - p = p
  <2>1. Power(two)
    BY <1>1, Doubled
  <2>2. p < two /\ two <= 2 * p /\ ~(two <= 1) /\ two - p = p
    BY <1>1, <1>2
  <2>3. LeftNodes[two] = p
    <3>1. Power(p)
      BY <1>1
    <3> HIDE DEF two
    <3>2. two \in Nat
      BY <1>4
    <3> QED BY <2>2, <3>1, <3>2, LeftUnique
  <2> QED BY <2>1, <2>2, <2>3
<1>14. TreeCV(tree)[p][b] = x1 /\ TreeCV(tree)[p][b + p] = x2
  <2> DEFINE c == b + p
  <2>1. c \in Nat /\ c <= n /\ c + p = n
    BY <1>1, <1>2, <1>4
  <2>2. c * CHUNK_LEN <= size
    <3> HIDE DEF c
    <3> QED BY <1>2, <2>1, Times
  <2>3. (c + p) * CHUNK_LEN <= size
    <3>1. size <= size
      BY <1>2
    <3> QED BY <2>1, <3>1
  <2> HIDE DEF size
  <2>4. TreeCV(Prefix(msg, size))[p][b] = Full(msg, p, b)
    BY <1>1, <1>2, <1>4, <2>2, FullIs
  <2> HIDE DEF c
  <2>5. TreeCV(Prefix(msg, size))[p][c] = Full(msg, p, c)
    BY <1>1, <1>2, <2>1, <2>3, FullIs
  <2> QED BY <2>4, <2>5 DEF x1, x2, c
<1>15. tree.key = msg.key /\ tree.flags = msg.flags
  BY DEF Prefix
<1> HIDE DEF two, tree
<1>16. LastNode(hash) = TreeNode(tree, two, b)
  BY <1>12, <1>13, <1>14, <1>15 DEF TreeNode
<1>17. Chunks(size) = b + two
  <2>1. size \div CHUNK_LEN = n /\ size % CHUNK_LEN = 0
    BY DivTimes
  <2>2. size > 0
    <3> HIDE DEF size
    <3>1. n > 0 /\ 0 \in Nat /\ 0 < n /\ 0 * CHUNK_LEN = 0
      BY <1>1, <1>2
    <3>2. 0 * CHUNK_LEN + CHUNK_LEN <= n * CHUNK_LEN
      BY <1>2, <3>1, Times
    <3> QED BY <1>2, <3>1, <3>2 DEF size
  <2> HIDE DEF size
  <2>3. Chunks(size) = n
    BY <1>2, <2>1, <2>2, ChunksIs
  <2> QED BY <1>4, <2>3
<1>18. b * CHUNK_LEN <= size
  <2>1. b <= n
    BY <1>4
  <2> QED BY <1>2, <1>4, <2>1, Times
<1>19. LastNode(hash) = TreeNode(Prefix(msg, size), two, b)
  BY <1>16 DEF tree
<1>20. Begins(hash.cv_stack, msg, b) /\ Ends(size, b, two)
  BY <1>6, <1>8, <1>17, <1>18 DEF s, N, Begins, Ends
<1>21. LeftEntries(hash) = popcnt[b]
  BY <1>11 DEF N
<1> HIDE DEF size
<1>22. FinalizeSeek(hash, seek, out_len) = RootBytes(Prefix(msg, size), seek, out_len)
  <2>1. size \in Nat /\ b \in Nat /\ Power(two) /\ Divides(two, b)
    BY <1>2, <1>4, <1>13
  <2>2. hash.key = msg.key /\ hash.chunk.flags = msg.flags
    BY <1>6
  <2> QED BY ONLY <1>19, <1>20, <1>21, <2>1, <2>2, Stream(msg), seek \in Nat, out_len \in Nat,
             FinalizeRoot
<1> QED BY <1>22 DEF hash, size

\* Whatever the updates were, the output is that of the tree.
LEMMA FinalizeGood ==
  ASSUME NEW msg, Stream(msg), NEW len \in Nat, NEW h, Good(msg, len, h),
         NEW seek \in Nat, NEW out_len \in Nat
  PROVE  FinalizeSeek(h, seek, out_len) = RootBytes(Prefix(msg, len), seek, out_len)
<1>1. PICK n, k \in Nat : \E st :
        /\ len = n * CHUNK_LEN + k /\ k <= CHUNK_LEN
        /\ h = H(msg, n, k, st)
        /\ IF k > 0 \/ len = 0 THEN st = Stack(msg, n) ELSE Loose(msg, n, st)
  BY DEF Good
<1>2. PICK st : /\ len = n * CHUNK_LEN + k /\ k <= CHUNK_LEN
                /\ h = H(msg, n, k, st)
                /\ IF k > 0 \/ len = 0 THEN st = Stack(msg, n) ELSE Loose(msg, n, st)
  BY <1>1
<1>3. CASE k > 0 \/ len = 0
  <2>1. SizeOf(len, n, k) /\ k <= CHUNK_LEN /\ h = H(msg, n, k, Stack(msg, n))
    BY <1>2, <1>3 DEF SizeOf
  <2>2. FinalizeSeek(H(msg, n, k, Stack(msg, n)), seek, out_len)
          = RootBytes(Prefix(msg, len), seek, out_len)
    BY ONLY <1>3, <2>1, Stream(msg), n \in Nat, k \in Nat, seek \in Nat, out_len \in Nat,
       FinalizeBegun
  <2> QED BY <2>1, <2>2
<1>4. CASE ~(k > 0 \/ len = 0)
  <2>1. k = 0
    BY <1>4
  <2>2. len = n * CHUNK_LEN
    <3> DEFINE x == n * CHUNK_LEN
    <3>1. x \in Nat /\ len = x + k
      BY <1>2, Lengths, Times
    <3> HIDE DEF x
    <3>2. len = x
      BY <2>1, <3>1
    <3> QED BY <3>2 DEF x
  <2>3. h = H(msg, n, 0, st) /\ Loose(msg, n, st)
    BY <1>2, <1>4, <2>1
  <2>4. FinalizeSeek(H(msg, n, 0, st), seek, out_len)
          = RootBytes(Prefix(msg, n * CHUNK_LEN), seek, out_len)
    BY <2>3, FinalizeLoose
  <2> QED BY <2>2, <2>3, <2>4
<1> QED BY <1>3, <1>4

-----------------------------------------------------------------------------
(* The calls of a program.                                                 *)

\* The bytes of all messages under a key: a message is a prefix of them.
Endless(key, flags, sign) ==
  [key |-> key, flags |-> flags, byte |-> [b \in Nat |-> sign * b]]

\* A message of a program is a prefix, and an update adds the next piece.
LEMMA EndlessIs ==
  ASSUME NEW key, NEW flags, NEW sign \in Int
  PROVE  LET msg == Endless(key, flags, sign)
         IN /\ Stream(msg) /\ msg.key = key /\ msg.flags = flags
            /\ \A a, n \in Nat : Piece(msg, a, n) = [b \in 1..n |-> sign * (a + b)]
            /\ \A len \in Nat : Prefix(msg, len) = Tree(key, flags, len, sign)
<1> DEFINE msg == Endless(key, flags, sign)
<1>1. msg.key = key /\ msg.flags = flags /\ msg.byte = [b \in Nat |-> sign * b]
  BY DEF Endless
<1> HIDE DEF msg
<1>2. \A b \in Nat : sign * b \in Int
  OBVIOUS
<1>3. Stream(msg)
  BY <1>1, <1>2 DEF Stream
<1>4. ASSUME NEW a \in Nat, NEW n \in Nat
      PROVE  Piece(msg, a, n) = [b \in 1..n |-> sign * (a + b)]
  <2>1. ASSUME NEW b \in 1..n PROVE msg.byte[a + b] = sign * (a + b)
    <3>1. a + b \in Nat
      OBVIOUS
    <3> QED BY <1>1, <3>1
  <2> QED BY <2>1 DEF Piece
<1>5. ASSUME NEW len \in Nat
      PROVE  Prefix(msg, len) = Tree(key, flags, len, sign)
  <2>1. Piece(msg, 0, len) = [b \in 1..len |-> sign * (0 + b)]
    BY <1>4
  <2>2. \A b \in 1..len : 0 + b = b
    OBVIOUS
  <2>3. [b \in 1..len |-> sign * (0 + b)] = [b \in 1..len |-> sign * b]
    BY <2>2
  <2>4. Piece(msg, 0, len) = [b \in 1..len |-> sign * b]
    BY <2>1, <2>3
  <2> QED BY <1>1, <2>4 DEF Prefix, Tree
<1> QED BY <1>1, <1>3, <1>4, <1>5 DEF msg

\* The degree is 1, 4, 8 or 16.
LEMMA Degrees ==
  ASSUME NEW arch, NEW features
  PROVE  LET simd == SimdDegree(arch, features)
         IN Power(simd) /\ simd <= 16 /\ simd >= 1 /\ simd \in Nat
<1>1. Power(1) /\ Power(2) /\ Power(4) /\ Power(8) /\ Power(16)
  <2>1. Power(1) /\ Power(2 * 1)
    BY Doubled
  <2>2. 2 * 1 = 2 /\ 2 * 2 = 4 /\ 2 * 4 = 8 /\ 2 * 8 = 16 /\ 2 \in Nat /\ 4 \in Nat /\ 8 \in Nat
    OBVIOUS
  <2>3. Power(2)
    BY <2>1, <2>2
  <2>4. Power(2 * 2)
    BY <2>2, <2>3, Doubled
  <2>5. Power(2 * 4)
    BY <2>2, <2>4, Doubled
  <2>6. Power(2 * 8)
    BY <2>2, <2>5, Doubled
  <2> QED BY <2>1, <2>2, <2>3, <2>4, <2>5, <2>6
<1>2. SimdDegree(arch, features) \in {1, 4, 8, 16}
  BY DEF SimdDegree
<1> QED BY <1>1, <1>2

\* The key derived from a context is the hash of it.
LEMMA ContextKeyIs ==
  ASSUME NEW len \in Nat
  PROVE  ContextKey(len)
           = RootBytes(Tree(IV, {"DERIVE_KEY_CONTEXT"}, len, -1), 0, BLOCK_LEN \div 2)
<1> DEFINE context == {"DERIVE_KEY_CONTEXT"}
           bytes == Endless(IV, context, -1)
           first == Hasher(IV, context)
           simd == simd_degree
           h == HasherUpdate(first, Piece(bytes, 0, len), simd)
           half == BLOCK_LEN \div 2
<1>1. /\ Stream(bytes) /\ bytes.key = IV /\ bytes.flags = context
      /\ Piece(bytes, 0, len) = [b \in 1..len |-> -1 * (0 + b)]
      /\ Prefix(bytes, len) = Tree(IV, context, len, -1)
  <2> DEFINE minus == -1
  <2>1. minus \in Int /\ 0 \in Nat
    OBVIOUS
  <2>2. bytes = Endless(IV, context, minus)
    OBVIOUS
  <2> HIDE DEF minus, bytes, context
  <2>3. /\ Stream(bytes) /\ bytes.key = IV /\ bytes.flags = context
        /\ \A a, n \in Nat : Piece(bytes, a, n) = [b \in 1..n |-> minus * (a + b)]
        /\ \A n \in Nat : Prefix(bytes, n) = Tree(IV, context, n, minus)
    <3>1. LET e == Endless(IV, context, minus)
          IN /\ Stream(e) /\ e.key = IV /\ e.flags = context
             /\ \A a, n \in Nat : Piece(e, a, n) = [b \in 1..n |-> minus * (a + b)]
             /\ \A n \in Nat : Prefix(e, n) = Tree(IV, context, n, minus)
      BY ONLY <2>1, EndlessIs
    <3> QED BY <2>2, <3>1
  <2>4. /\ Piece(bytes, 0, len) = [b \in 1..len |-> minus * (0 + b)]
        /\ Prefix(bytes, len) = Tree(IV, context, len, minus)
    BY <2>1, <2>3
  <2> QED BY <2>3, <2>4 DEF minus
<1>2. Piece(bytes, 0, len) = [b \in 1..len |-> -b]
  <2>1. \A b \in 1..len : -1 * (0 + b) = -b
    OBVIOUS
  <2> QED BY <1>1, <2>1
<1>3. half \in Nat
  BY Lengths
<1>4. Power(simd) /\ simd <= 16
  BY Degrees DEF simd_degree
<1> HIDE DEF bytes, simd, context, half
<1>5. Good(bytes, 0, first)
  BY <1>1, EmptyGood
<1> HIDE DEF first
<1>6. Good(bytes, len, h)
  <2>1. Good(bytes, 0 + len, h)
    BY <1>1, <1>4, <1>5, UpdateGood
  <2>2. 0 + len = len
    OBVIOUS
  <2> QED BY <2>1, <2>2
<1> HIDE DEF h
<1>7. FinalizeSeek(h, 0, half) = RootBytes(Prefix(bytes, len), 0, half)
  BY <1>1, <1>3, <1>6, FinalizeGood
<1>8. ContextKey(len) = FinalizeSeek(h, 0, half)
  <2>1. h = HasherUpdate(Hasher(<<>>, {"DERIVE_KEY_CONTEXT"}), [b \in 1..len |-> -b], simd_degree)
    BY <1>2 DEF h, first, context, simd, IV
  <2> QED BY <2>1 DEF ContextKey, half
<1> QED BY <1>1, <1>7, <1>8 DEF half, context

\* The key and the flags of the last call of an init function.
ModeKey ==
  CASE mode.kind = "hash" -> IV
    [] mode.kind = "keyed" -> <<"key">>
    [] mode.kind = "derive" ->
         RootBytes(Tree(IV, {"DERIVE_KEY_CONTEXT"}, mode.context, -1), 0, BLOCK_LEN \div 2)

ModeFlags ==
  CASE mode.kind = "hash" -> {}
    [] mode.kind = "keyed" -> {"KEYED_HASH"}
    [] mode.kind = "derive" -> {"DERIVE_KEY_MATERIAL"}

Whole == Endless(ModeKey, ModeFlags, 1)

\* Between two calls the hasher is what the message so far makes of it.
HasherInv ==
  /\ mode.kind \in {"hash", "keyed", "derive"}
  /\ total \in Nat /\ total <= MaxLen
  /\ Good(Whole, total, self)

\* The message so far is a prefix of the bytes under its key.
LEMMA MessageIs ==
  ASSUME HasherInv
  PROVE  /\ Message = Prefix(Whole, total)
         /\ Stream(Whole) /\ self.key = Whole.key /\ self.chunk.flags = Whole.flags
         /\ \A a, n \in Nat : Piece(Whole, a, n) = [b \in 1..n |-> 1 * (a + b)]
         /\ total \in Nat
<1> DEFINE key == ModeKey
           flags == ModeFlags
<1>1. Whole = Endless(key, flags, 1)
  BY DEF Whole
<1>2. Message = Tree(key, flags, total, 1)
  BY DEF HasherInv, Message, ModeKey, ModeFlags
<1>3. total \in Nat
  BY DEF HasherInv
<1> HIDE DEF key, flags
<1>4. /\ Stream(Whole)
      /\ \A a, n \in Nat : Piece(Whole, a, n) = [b \in 1..n |-> 1 * (a + b)]
      /\ Prefix(Whole, total) = Tree(key, flags, total, 1)
  BY <1>1, <1>3, EndlessIs
<1>5. self.key = Whole.key /\ self.chunk.flags = Whole.flags
  <2>1. PICK n, k \in Nat : \E st : self = H(Whole, n, k, st)
    BY DEF HasherInv, Good
  <2> QED BY <2>1 DEF H, CS, State
<1> QED BY <1>2, <1>3, <1>4, <1>5

\* A hasher that was just initialized.
LEMMA FreshGood ==
  ASSUME NEW key, NEW flags
  PROVE  Good(Endless(key, flags, 1), 0, Hasher(key, flags))
<1> DEFINE msg == Endless(key, flags, 1)
<1>1. Stream(msg) /\ msg.key = key /\ msg.flags = flags
  BY EndlessIs
<1> HIDE DEF msg
<1>2. Good(msg, 0, Hasher(msg.key, msg.flags))
  BY <1>1, EmptyGood
<1> QED BY <1>1, <1>2 DEF msg

\* The empty message is none too long.
LEMMA MaxLenType == MaxLen \in Nat
BY Blake3Assumption, TwoType, Lengths, Times DEF MaxLen

\* A hasher that was just initialized, at first with the IV as its key.
LEMMA InitHasher == Init => HasherInv
<1> SUFFICES ASSUME Init PROVE HasherInv
  OBVIOUS
<1>1. ModeKey = IV /\ ModeFlags = {}
  BY DEF Init, ModeKey, ModeFlags
<1>2. Good(Whole, total, self)
  BY <1>1, FreshGood DEF Init, Whole
<1>3. mode.kind = "hash" /\ total = 0
  BY DEF Init
<1> QED BY <1>2, <1>3, MaxLenType DEF HasherInv

\* A call of an init function.
LEMMA Restart ==
  ASSUME NEW key, NEW flags, self' = Hasher(key, flags), total' = 0,
         ModeKey' = key, ModeFlags' = flags, mode'.kind \in {"hash", "keyed", "derive"}
  PROVE  HasherInv'
<1>1. Whole' = Endless(key, flags, 1)
  BY DEF Whole
<1>2. Good(Whole', total', self')
  BY <1>1, FreshGood
<1>3. total' \in Nat /\ total' <= MaxLen
  BY MaxLenType
<1>4. MaxLen' = MaxLen
  BY DEF MaxLen
<1> QED BY <1>2, <1>3, <1>4 DEF HasherInv

\* Every call keeps the invariant.
LEMMA HasherStep == HasherInv /\ [Next]_vars => HasherInv'
<1> SUFFICES ASSUME HasherInv, [Next]_vars PROVE HasherInv'
  OBVIOUS
<1>0. HasherInv
  OBVIOUS
<1>1. CASE hasher_init
  <2>1. ModeKey' = IV /\ ModeFlags' = {} /\ mode'.kind = "hash"
    BY <1>1 DEF hasher_init, ModeKey, ModeFlags
  <2> QED BY <1>1, <2>1, Restart DEF hasher_init
<1>2. CASE hasher_init_keyed
  <2>1. ModeKey' = <<"key">> /\ ModeFlags' = {"KEYED_HASH"} /\ mode'.kind = "keyed"
    BY <1>2 DEF hasher_init_keyed, ModeKey, ModeFlags
  <2> QED BY <1>2, <2>1, Restart DEF hasher_init_keyed
<1>3. ASSUME NEW len \in ContextLens, hasher_init_derive_key(len)
      PROVE  HasherInv'
  <2>1. /\ mode' = [kind |-> "derive", context |-> len] /\ total' = 0
        /\ self' = Hasher(ContextKey(len), {"DERIVE_KEY_MATERIAL"})
    BY <1>3 DEF hasher_init_derive_key
  <2>2. mode'.kind = "derive" /\ mode'.context = len
    BY <2>1
  <2>3. ModeFlags' = {"DERIVE_KEY_MATERIAL"}
    BY <2>2 DEF ModeFlags
  <2>4. ModeKey'
          = RootBytes(Tree(IV, {"DERIVE_KEY_CONTEXT"}, len, -1), 0, BLOCK_LEN \div 2)
    BY <2>2 DEF ModeKey
  <2>5. ModeKey' = ContextKey(len)
    BY <2>4, Blake3Assumption, ContextKeyIs
  <2> QED BY <2>1, <2>2, <2>3, <2>5, Restart
<1>4. ASSUME NEW len \in Lens, hasher_update(len)
      PROVE  HasherInv'
  <2>1. /\ total + len <= MaxLen /\ total' = total + len /\ mode' = mode
        /\ self' = HasherUpdate(self, [b \in 1..len |-> total + b], simd_degree)
    BY <1>4 DEF hasher_update
  <2>2. len \in Nat /\ total \in Nat
    BY Blake3Assumption DEF HasherInv
  <2>3. Whole' = Whole
    BY <2>1 DEF Whole, ModeKey, ModeFlags
  <2> DEFINE simd == simd_degree
             msg == Whole
             input == [b \in 1..len |-> total + b]
  <2>4. Power(simd) /\ simd <= 16
    BY Degrees DEF simd_degree
  <2>5. Stream(msg) /\ Piece(msg, total, len) = [b \in 1..len |-> 1 * (total + b)]
    BY <2>2, MessageIs
  <2>6. input = Piece(msg, total, len)
    <3>1. \A b \in 1..len : 1 * (total + b) = total + b
      BY <2>2
    <3> HIDE DEF msg
    <3> QED BY <2>5, <3>1
  <2>7. Good(msg, total, self)
    BY DEF HasherInv
  <2>8. self' = HasherUpdate(self, input, simd)
    BY <2>1
  <2> HIDE DEF simd, msg, input
  <2>9. Good(msg, total + len, HasherUpdate(self, Piece(msg, total, len), simd))
    BY ONLY <2>2, <2>4, <2>5, <2>7, UpdateGood
  <2>10. Good(Whole', total', self')
    BY <2>1, <2>3, <2>6, <2>8, <2>9 DEF msg
  <2>11. total' \in Nat /\ total' <= MaxLen /\ MaxLen' = MaxLen
         /\ mode'.kind \in {"hash", "keyed", "derive"}
    BY <2>1, <2>2 DEF MaxLen, HasherInv
  <2> QED BY <2>10, <2>11 DEF HasherInv
<1>5. CASE UNCHANGED <<self, mode, total>>
  <2>1. Whole' = Whole
    BY <1>5 DEF Whole, ModeKey, ModeFlags
  <2>2. MaxLen' = MaxLen
    BY DEF MaxLen
  <2> QED BY <1>0, <1>5, <2>1, <2>2 DEF HasherInv
<1>6. CASE hasher_reset
  <2>1. self' = [self EXCEPT !.chunk = ChunkState(self.key, 0, @.flags), !.cv_stack = <<>>]
        /\ total' = 0 /\ mode' = mode
    BY <1>6 DEF hasher_reset
  <2>2. self.key = Whole.key /\ self.chunk.flags = Whole.flags
    BY MessageIs
  <2>3. Whole.key = ModeKey /\ Whole.flags = ModeFlags
    BY DEF Whole, Endless
  <2>4. PICK n, k \in Nat : \E st : self = H(Whole, n, k, st)
    BY DEF HasherInv, Good
  <2>5. self' = Hasher(ModeKey, ModeFlags)
    <3>1. PICK st : self = H(Whole, n, k, st)
      BY <2>4
    <3> DEFINE c == ChunkState(self.key, 0, self.chunk.flags)
               key == Whole.key
               chunk == CS(Whole, n, k)
    <3>2. self = [key |-> key, chunk |-> chunk, cv_stack |-> st]
      BY <3>1 DEF H
    <3>3. self' = [self EXCEPT !.chunk = c, !.cv_stack = <<>>]
      BY <2>1
    <3>4. c = ChunkState(ModeKey, 0, ModeFlags) /\ key = ModeKey
      BY <2>2, <2>3
    <3> HIDE DEF c, key, chunk
    <3>5. self' = [key |-> key, chunk |-> c, cv_stack |-> <<>>]
      BY <3>2, <3>3
    <3> QED BY <3>4, <3>5 DEF Hasher
  <2>6. ModeKey' = ModeKey /\ ModeFlags' = ModeFlags /\ mode'.kind \in {"hash", "keyed", "derive"}
    BY <2>1 DEF ModeKey, ModeFlags, HasherInv
  <2> QED BY <2>1, <2>5, <2>6, Restart
<1>7. CASE hasher_finalize
  BY <1>5, <1>7 DEF hasher_finalize
<1>8. CASE UNCHANGED vars
  BY <1>5, <1>8 DEF vars
<1> QED BY <1>1, <1>2, <1>3, <1>4, <1>6, <1>7, <1>8 DEF Next

\* HasherInv holds in every behaviour of the hasher.
LEMMA AlwaysHasher == Spec => []HasherInv
BY InitHasher, HasherStep, PTL DEF Spec

\* However the message was cut into pieces, on whatever machine and under
\* whatever key: every part of the output is that of the tree hash of it.
THEOREM HashIsTreeHash == Spec => []FinalizeIsTreeHash
<1>1. ASSUME HasherInv PROVE FinalizeIsTreeHash
  <2>1. Message = Prefix(Whole, total) /\ Stream(Whole) /\ total \in Nat
    BY <1>1, MessageIs
  <2>2. Good(Whole, total, self)
    BY <1>1 DEF HasherInv
  <2>3. ASSUME NEW w \in Windows
        PROVE  FinalizeSeek(self, w.seek, w.len) = RootBytes(Message, w.seek, w.len)
    <3>1. w.seek \in Nat /\ w.len \in Nat
      BY Blake3Assumption
    <3> QED BY <2>1, <2>2, <3>1, FinalizeGood
  <2> QED BY <2>3 DEF FinalizeIsTreeHash
<1> QED BY <1>1, AlwaysHasher, PTL

-----------------------------------------------------------------------------
(* The shape of the stack.                                                 *)

\* The chaining values of subtrees that all lie before len, which do not
\* depend on what follows them.
LEMMA SubIs ==
  ASSUME NEW msg, Stream(msg), NEW len \in Nat, NEW sizes, NEW b \in Nat, b * CHUNK_LEN <= len,
         \A x \in 1..Len(sizes) : /\ sizes[x] \in Nat /\ sizes[x] > 0
                                  /\ Starts(sizes)[x] \in Nat
                                  /\ Starts(sizes)[x] + sizes[x] <= b
  PROVE  Sub(msg, sizes) = SubtreeCVs(Prefix(msg, len), sizes)
<1> DEFINE start == Starts(sizes)
           N == Len(sizes)
<1>1. \A x \in 1..N : /\ sizes[x] \in Nat /\ sizes[x] > 0 /\ start[x] \in Nat
                      /\ start[x] + sizes[x] <= b
  OBVIOUS
<1> HIDE DEF start, N
<1>2. ASSUME NEW x \in 1..N
      PROVE  TreeCV(Prefix(msg, len))[sizes[x]][start[x]] = Full(msg, sizes[x], start[x])
  <2> DEFINE first == start[x]
             k == sizes[x]
             c == first + k
             y == c * CHUNK_LEN
             z == b * CHUNK_LEN
  <2>1. first \in Nat /\ k \in Nat /\ k > 0 /\ c <= b /\ c \in Nat
    BY <1>1
  <2>2. y <= z /\ y \in Nat /\ z \in Nat /\ z <= len
    <3> HIDE DEF c
    <3> QED BY <2>1, Lengths, Times
  <2>3. (first + k) * CHUNK_LEN <= len
    <3>1. y <= len
      <4> HIDE DEF y, z
      <4> QED BY <2>2
    <3> QED BY <3>1
  <2> HIDE DEF first, k, c, y, z
  <2>4. TreeCV(Prefix(msg, len))[k][first] = Full(msg, k, first)
    BY <2>1, <2>3, FullIs
  <2> QED BY <2>4 DEF first, k
<1>3. Sub(msg, sizes) = [x \in 1..N |-> Full(msg, sizes[x], start[x])]
  BY DEF Sub, start, N
<1>4. SubtreeCVs(Prefix(msg, len), sizes)
        = [x \in 1..N |-> TreeCV(Prefix(msg, len))[sizes[x]][start[x]]]
  BY DEF SubtreeCVs, start, N
<1> QED BY <1>2, <1>3, <1>4

\* The subtrees of b chunks, one for each 1-bit, lie before b.
LEMMA BitsBefore ==
  ASSUME NEW b \in Nat
  PROVE  \A x \in 1..Len(Bits[b]) : /\ Bits[b][x] \in Nat /\ Bits[b][x] > 0
                                    /\ Starts(Bits[b])[x] \in Nat
                                    /\ Starts(Bits[b])[x] + Bits[b][x] <= b
<1> DEFINE zs == Bits[b]
           start == Starts(zs)
<1>1. \A x \in 1..Len(zs) : /\ start[x] \in Nat /\ start[x] < b
                            /\ zs[x] = round_down_to_power_of_2[b - start[x]]
  <2>1. BitsFill(b)
    BY BitsFillAll
  <2> QED BY <2>1 DEF BitsFill
<1> HIDE DEF zs, start
<1>2. ASSUME NEW x \in 1..Len(zs)
      PROVE  zs[x] \in Nat /\ zs[x] > 0 /\ start[x] \in Nat /\ start[x] + zs[x] <= b
  <2> DEFINE first == start[x]
             k == zs[x]
             rest == b - first
  <2>1. first \in Nat /\ rest \in Nat /\ rest > 0 /\ k = round_down_to_power_of_2[rest]
    BY <1>1
  <2> HIDE DEF k, rest
  <2>2. k \in Nat /\ k > 0 /\ k <= rest
    BY <2>1, RoundType, RoundBounds
  <2>3. first + k <= b
    BY <2>1, <2>2 DEF rest
  <2> QED BY <2>1, <2>2, <2>3 DEF k
<1> QED BY <1>2 DEF zs, start

\* The stack of n chunks.
LEMMA ShapeBegun ==
  ASSUME NEW msg, Stream(msg), NEW len \in Nat, NEW n \in Nat, n * CHUNK_LEN <= len
  PROVE  Stack(msg, n) = SubtreeCVs(Prefix(msg, len), Bits[n])
BY BitsBefore, SubIs DEF Stack

\* The stack whose last subtree is still in two halves.
LEMMA ShapeLoose ==
  ASSUME NEW msg, Stream(msg), NEW len \in Nat, NEW m \in Nat, NEW p \in Nat, p > 0,
         (m + p) * CHUNK_LEN <= len
  PROVE  Tip(msg, m, p) = SubtreeCVs(Prefix(msg, len), Bits[m] \o <<p>>)
<1> DEFINE zs == Bits[m]
           one == <<p>>
           ws == zs \o one
           k == Len(zs)
           n == m + p
<1>1. zs \in Seq(Nat) /\ k \in Nat /\ Starts(zs)[k + 1] = m
  BY BitsType, BitsFillAll, PopType DEF BitsFill
<1>2. \A x \in 1..k : /\ zs[x] \in Nat /\ zs[x] > 0 /\ Starts(zs)[x] \in Nat
                      /\ Starts(zs)[x] + zs[x] <= m
  BY BitsBefore
<1>3. Tip(msg, m, p) = Sub(msg, ws)
  BY SubAppend DEF Tip
<1>4. one \in Seq(Nat)
  OBVIOUS
<1> HIDE DEF zs
<1>5. Len(ws) = k + 1 /\ ws[k + 1] = p /\ \A x \in 1..k : ws[x] = zs[x]
  BY <1>1
<1>6. \A x \in 1..(k + 1) : Starts(ws)[x] = Starts(zs)[x]
  <2> HIDE DEF one
  <2> QED BY <1>1, <1>4, StartsAppend
<1> HIDE DEF ws, k, n
<1>7. n \in Nat /\ n = m + p /\ m <= n
  BY DEF n
<1>8. ASSUME NEW x \in 1..Len(ws)
      PROVE  ws[x] \in Nat /\ ws[x] > 0 /\ Starts(ws)[x] \in Nat /\ Starts(ws)[x] + ws[x] <= n
  <2>1. CASE x \in 1..k
    <3>1. x \in 1..(k + 1)
      BY <1>1, <2>1
    <3>2. ws[x] = zs[x] /\ Starts(ws)[x] = Starts(zs)[x]
      BY <1>5, <1>6, <2>1, <3>1
    <3>3. Starts(zs)[x] + zs[x] <= n
      BY <1>2, <1>7, <2>1
    <3> QED BY <1>2, <2>1, <3>2, <3>3
  <2>2. CASE x \notin 1..k
    <3>1. x = k + 1 /\ k + 1 \in 1..(k + 1)
      BY <1>1, <1>5, <2>2
    <3>2. ws[x] = p /\ Starts(ws)[x] = m
      BY <1>1, <1>5, <1>6, <3>1
    <3> QED BY <1>7, <3>2
  <2> QED BY <2>1, <2>2
<1>9. n * CHUNK_LEN <= len
  BY DEF n
<1>10. Sub(msg, ws) = SubtreeCVs(Prefix(msg, len), ws)
  BY <1>7, <1>8, <1>9, SubIs
<1> QED BY <1>3, <1>10 DEF ws, zs

\* Fewer chunks than the longest message has.
LEMMA ChunksBelow ==
  ASSUME NEW n \in Nat, NEW len \in Nat, len <= MaxLen
  PROVE  /\ n * CHUNK_LEN <= len => n <= TwoTo[MAX_DEPTH]
         /\ n * CHUNK_LEN < len => n < TwoTo[MAX_DEPTH]
<1> DEFINE top == TwoTo[MAX_DEPTH]
           x == n * CHUNK_LEN
           y == top * CHUNK_LEN
<1>1. top \in Nat /\ CHUNK_LEN \in Nat /\ CHUNK_LEN > 0
  BY Blake3Assumption, TwoType, Lengths
<1>2. len <= y
  BY DEF MaxLen
<1> HIDE DEF top
<1>3. x \in Nat /\ y \in Nat /\ (top < n => y + CHUNK_LEN <= x) /\ (top <= n => y <= x)
  BY <1>1, Times
<1> HIDE DEF x, y
<1>4. x <= len => n <= top
  BY <1>1, <1>2, <1>3
<1>5. x < len => n < top
  BY <1>1, <1>2, <1>3
<1> QED BY <1>4, <1>5 DEF x, top

\* The shape of a stack of n chunks and k bytes.
Shape(msg, len, n, k, st) ==
  /\ Len(st) <= MAX_DEPTH + 1
  /\ IF k > 0 \/ len = 0 THEN st = SubtreeCVs(Prefix(msg, len), Bits[n])
     ELSE \E p \in 1..n : /\ IsPowerOfTwo(p) /\ n % (2 * p) = 0
                          /\ st = SubtreeCVs(Prefix(msg, len), Bits[n - p] \o <<p>>)

\* The stack of the hasher has this shape and fits into its array.
LEMMA ShapeIs ==
  ASSUME NEW msg, Stream(msg), NEW len \in Nat, len <= MaxLen, NEW n \in Nat, NEW k \in Nat,
         SizeOf(len, n, k), NEW st,
         IF k > 0 \/ len = 0 THEN st = Stack(msg, n) ELSE Loose(msg, n, st)
  PROVE  Shape(msg, len, n, k, st)
<1> DEFINE base == n * CHUNK_LEN
<1>1. base \in Nat /\ len = base + k /\ CHUNK_LEN \in Nat /\ CHUNK_LEN > 0
  BY Lengths, Times DEF SizeOf
<1>2. base <= len /\ (k > 0 => base < len)
  <2> HIDE DEF base
  <2> QED BY <1>1
<1>3. MAX_DEPTH \in Nat
  BY Blake3Assumption
<1>4. CASE k > 0 \/ len = 0
  <2>1. st = Stack(msg, n)
    BY <1>4
  <2>2. st = SubtreeCVs(Prefix(msg, len), Bits[n])
    BY <1>2, <2>1, ShapeBegun
  <2>3. Len(st) = popcnt[n] /\ popcnt[n] \in Nat
    BY <2>1, StackType
  <2>4. popcnt[n] <= MAX_DEPTH
    <3>1. CASE k > 0
      <4>1. n < TwoTo[MAX_DEPTH]
        BY <1>2, <3>1, ChunksBelow
      <4> QED BY <1>3, <4>1, PopFits
    <3>2. CASE len = 0
      <4>1. n = 0
        <5>1. ASSUME n # 0 PROVE FALSE
          <6>1. 0 \in Nat /\ 0 < n /\ 0 * CHUNK_LEN = 0
            BY <1>1, <5>1
          <6>2. 0 * CHUNK_LEN + CHUNK_LEN <= n * CHUNK_LEN
            BY <1>1, <6>1, Times
          <6> QED BY <1>1, <1>2, <3>2, <6>1, <6>2
        <5> QED BY <5>1
      <4>2. popcnt[0] = 0
        BY PopIs
      <4> QED BY <1>3, <4>1, <4>2
    <3> QED BY <1>4, <3>1, <3>2
  <2>5. Len(st) <= MAX_DEPTH + 1
    BY <1>3, <2>3, <2>4
  <2> QED BY <1>4, <2>2, <2>5 DEF Shape
<1>5. CASE ~(k > 0 \/ len = 0)
  <2>1. Loose(msg, n, st)
    BY <1>5
  <2>2. PICK m, p \in Nat : n = m + p /\ Power(p) /\ Divides(p, m) /\ Divides(2 * p, n)
                            /\ st = Tip(msg, m, p)
    BY <2>1 DEF Loose
  <2>3. p > 0 /\ p \in 1..n /\ n - p = m /\ m < n
    BY <2>2 DEF Power
  <2>4. st = SubtreeCVs(Prefix(msg, len), Bits[m] \o <<p>>)
    <3>1. (m + p) * CHUNK_LEN <= len
      BY <1>2, <2>2
    <3> QED BY <2>2, <2>3, <3>1, ShapeLoose
  <2>5. Len(st) = popcnt[m] + 1 /\ popcnt[m] \in Nat
    BY <2>2, TipCases
  <2>6. popcnt[m] <= MAX_DEPTH
    <3>1. n <= TwoTo[MAX_DEPTH] /\ TwoTo[MAX_DEPTH] \in Nat
      BY <1>2, <1>3, ChunksBelow, TwoType
    <3>2. m < TwoTo[MAX_DEPTH]
      BY <2>3, <3>1
    <3> QED BY <1>3, <3>2, PopFits
  <2>7. Len(st) <= MAX_DEPTH + 1
    BY <1>3, <2>5, <2>6
  <2>8. n % (2 * p) = 0
    <3> DEFINE d == 2 * p
    <3>1. d \in Nat \ {0} /\ Divides(d, n)
      BY <2>2, <2>3
    <3> HIDE DEF d
    <3>2. n % d = 0
      BY <3>1, DividesMod
    <3> QED BY <3>2 DEF d
  <2>9. IsPowerOfTwo(p) /\ st = SubtreeCVs(Prefix(msg, len), Bits[n - p] \o <<p>>)
    BY <2>2, <2>3, <2>4 DEF Power
  <2> QED BY <1>5, <2>3, <2>7, <2>8, <2>9 DEF Shape
<1> QED BY <1>4, <1>5

\* The stack always is what merging and finalizing rely on, and it never
\* outgrows its array (hasher_merge_cv_stack, hasher_push_cv).
THEOREM StackKeepsShape == Spec => []StackShape
<1>1. ASSUME HasherInv PROVE StackShape
  <2>1. Message = Prefix(Whole, total) /\ Stream(Whole) /\ total \in Nat
    BY <1>1, MessageIs
  <2>2. total <= MaxLen
    BY <1>1 DEF HasherInv
  <2>3. PICK n, k \in Nat : \E st :
          /\ total = n * CHUNK_LEN + k /\ k <= CHUNK_LEN
          /\ self = H(Whole, n, k, st)
          /\ IF k > 0 \/ total = 0 THEN st = Stack(Whole, n) ELSE Loose(Whole, n, st)
    BY <1>1 DEF HasherInv, Good
  <2>4. PICK st : /\ total = n * CHUNK_LEN + k /\ k <= CHUNK_LEN
                  /\ self = H(Whole, n, k, st)
                  /\ IF k > 0 \/ total = 0 THEN st = Stack(Whole, n) ELSE Loose(Whole, n, st)
    BY <2>3
  <2>5. self.cv_stack = st /\ self.chunk = CS(Whole, n, k) /\ self.chunk.chunk_counter = n
    BY <2>4 DEF H, CS, State
  <2>6. ChunkLen(self.chunk) = k
    BY <2>5, ChunkLenIs
  <2> DEFINE len == total
             msg == Whole
  <2>7. /\ Stream(msg) /\ len \in Nat /\ len <= MaxLen /\ SizeOf(len, n, k)
        /\ IF k > 0 \/ len = 0 THEN st = Stack(msg, n) ELSE Loose(msg, n, st)
    BY <2>1, <2>2, <2>4 DEF SizeOf
  <2> HIDE DEF len, msg
  <2>8. Shape(msg, len, n, k, st)
    BY <2>7, ShapeIs
  <2>9. Message = Prefix(msg, len)
    BY <2>1 DEF len, msg
  <2>10. /\ Len(st) <= MAX_DEPTH + 1
         /\ IF k > 0 \/ total = 0 THEN st = SubtreeCVs(Message, Bits[n])
            ELSE \E p \in 1..n : /\ IsPowerOfTwo(p) /\ n % (2 * p) = 0
                                 /\ st = SubtreeCVs(Message, Bits[n - p] \o <<p>>)
    BY <2>8, <2>9 DEF Shape, len
  <2> QED BY <2>4, <2>5, <2>6, <2>10 DEF StackShape
<1> QED BY <1>1, AlwaysHasher, PTL

\* The width of the degree is that of the arrays of the machine.
LEMMA WidthFits ==
  ASSUME CacheInv
  PROVE  /\ Power(simd_degree) /\ simd_degree \in Nat /\ simd_degree >= 1
         /\ simd_degree <= Width(simd_degree)
         /\ Width(simd_degree) <= MAX_SIMD_DEGREE_OR_2
         /\ Width(simd_degree) \in Nat /\ MAX_SIMD_DEGREE_OR_2 \in Nat
<1> DEFINE arch == machine.arch
           features == get_cpu_features
           simd == SimdDegree(arch, features)
<1>1. Power(simd) /\ simd \in Nat /\ simd >= 1 /\ simd <= 16
  BY Degrees
<1>2. arch # "x86" => features = {}
  BY FeaturesAre
<1>3. CASE arch = "x86"
  <2>1. MAX_SIMD_DEGREE_OR_2 = 16
    BY <1>3 DEF MAX_SIMD_DEGREE_OR_2
  <2> HIDE DEF simd
  <2> QED BY <1>1, <2>1 DEF Width, simd_degree, simd
<1>4. CASE arch = "neon"
  <2>1. MAX_SIMD_DEGREE_OR_2 = 4
    BY <1>4 DEF MAX_SIMD_DEGREE_OR_2
  <2>2. simd = 4
    BY <1>2, <1>4 DEF SimdDegree
  <2> HIDE DEF simd
  <2> QED BY <1>1, <2>1, <2>2 DEF Width, simd_degree, simd
<1>5. CASE arch # "x86" /\ arch # "neon"
  <2>1. MAX_SIMD_DEGREE_OR_2 = 2
    BY <1>5 DEF MAX_SIMD_DEGREE_OR_2
  <2>2. simd = 1
    BY <1>2, <1>5 DEF SimdDegree
  <2> HIDE DEF simd
  <2> QED BY <1>1, <2>1, <2>2 DEF Width, simd_degree, simd
<1> QED BY <1>3, <1>4, <1>5

\* More than a chunk, hashed as one subtree.
LEMMA WideCount ==
  ASSUME NEW msg, Stream(msg), NEW simd \in Nat, Power(simd), simd >= 1, simd <= Width(simd),
         Width(simd) \in Nat, NEW len \in Nat, len > CHUNK_LEN
  PROVE  Len(Wide(msg, 0, len, simd)) \in 2..Width(simd)
<1> DEFINE v == Wide(msg, 0, len, simd)
           c == Chunks(len)
<1>1. CHUNK_LEN \in Nat /\ CHUNK_LEN > 0 /\ len > 0
  BY Lengths
<1>2. c \in Nat /\ c > 1
  <2>1. c \in Nat
    BY <1>1, ChunksIs
  <2>2. ~(len <= 1 * CHUNK_LEN)
    BY <1>1
  <2>3. 1 \in Nat
    OBVIOUS
  <2>4. ~(c <= 1)
    BY <1>1, <2>2, <2>3, FewChunks
  <2> HIDE DEF c
  <2> QED BY <2>1, <2>4
<1>3. Fits(v, c, simd)
  <2>1. WideOK(msg, 0, len, simd)
    BY <1>1, WideTree
  <2> QED BY <2>1 DEF WideOK
<1> HIDE DEF v, c
<1>4. Len(v) \in Nat /\ (c <= simd => Len(v) = c)
      /\ (c > simd => Len(v) >= 2 /\ Len(v) <= Width(simd))
  BY <1>3 DEF Fits, List
<1> DEFINE w == Width(simd)
<1>5. w \in Nat /\ simd <= w
  OBVIOUS
<1> HIDE DEF w
<1>6. Len(v) \in 2..w
  <2>1. CASE c <= simd
    BY <1>2, <1>4, <1>5, <2>1
  <2>2. CASE c > simd
    BY <1>4, <1>5, <2>2 DEF w
  <2> QED BY <1>2, <2>1, <2>2
<1> QED BY <1>6 DEF v, w

\* More than a chunk gives at least two chaining values, and no more than the
\* array of the caller has places (the assertion of blake3.c, line 343), on
\* every machine and for every length of message.
THEOREM WideSubtreeFits == Spec => []WideFits
<1>1. ASSUME HasherInv, CacheInv PROVE WideFits
  <2> SUFFICES ASSUME total > CHUNK_LEN
               PROVE  Len(CompressSubtreeWide([b \in 1..total |-> b], self.key, 0,
                                              self.chunk.flags, simd_degree))
                        \in 2..MAX_SIMD_DEGREE_OR_2
    BY DEF WideFits
  <2> DEFINE msg == Whole
             simd == simd_degree
             len == total
  <2>1. /\ Stream(msg) /\ self.key = msg.key /\ self.chunk.flags = msg.flags
        /\ \A a, n \in Nat : Piece(msg, a, n) = [b \in 1..n |-> 1 * (a + b)]
        /\ len \in Nat
    BY <1>1, MessageIs
  <2>2. Piece(msg, 0, len) = [b \in 1..len |-> b]
    <3>1. Piece(msg, 0, len) = [b \in 1..len |-> 1 * (0 + b)]
      <4> HIDE DEF msg, len
      <4> QED BY <2>1
    <3>2. \A b \in 1..len : 1 * (0 + b) = b
      BY <2>1
    <3> HIDE DEF msg, len
    <3> QED BY <3>1, <3>2
  <2>3. CompressSubtreeWide([b \in 1..total |-> b], self.key, 0, self.chunk.flags, simd_degree)
          = Wide(msg, 0, len, simd)
    <3>1. 0 * CHUNK_LEN = 0
      BY Lengths
    <3> HIDE DEF msg
    <3> QED BY <2>1, <2>2, <3>1 DEF Wide
  <2>4. /\ Power(simd) /\ simd \in Nat /\ simd >= 1 /\ simd <= Width(simd)
        /\ Width(simd) <= MAX_SIMD_DEGREE_OR_2
        /\ Width(simd) \in Nat /\ MAX_SIMD_DEGREE_OR_2 \in Nat
    BY <1>1, WidthFits
  <2>5. len > CHUNK_LEN
    OBVIOUS
  <2> HIDE DEF msg, simd, len
  <2>6. Len(Wide(msg, 0, len, simd)) \in 2..Width(simd)
    BY <2>1, <2>4, <2>5, WideCount
  <2>7. 2..Width(simd) \subseteq 2..MAX_SIMD_DEGREE_OR_2
    BY <2>4
  <2> QED BY <2>3, <2>6, <2>7
<1> QED BY <1>1, AlwaysHasher, AlwaysCache, PTL
=============================================================================
