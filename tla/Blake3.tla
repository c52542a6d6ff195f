------------------------------- MODULE Blake3 -------------------------------
(***************************************************************************)
(* The hasher of src/dsc_py/hash-search/blake3 (blake3.c, blake3_impl.h,   *)
(* blake3_dispatch.c, blake3_portable.c): a program feeds it a message in  *)
(* pieces of any length and may read the hash after any of them.           *)
(*                                                                         *)
(* The hasher keeps a partial chunk and a stack of the chaining values of  *)
(* the subtrees before it, and hashes long pieces as wide subtrees, as     *)
(* many chunks at a time as the machine has lanes.  HashTree has the       *)
(* compression function and what the result should be.                     *)
(*                                                                         *)
(* An operator marked "Slip" is no part of the specification: it is the    *)
(* operator after it with a mistake in it, kept to show which property     *)
(* notices the mistake.                                                    *)
(***************************************************************************)
EXTENDS HashTree

CONSTANTS
  MAX_DEPTH,    \* the stack has MAX_DEPTH + 1 entries
  Machines,     \* [arch, leaf1, leaf7, max_id, xcr0]: the answers of cpuid
  Lens,         \* lengths of the pieces
  ContextLens,  \* lengths of contexts of which a key is derived
  Windows       \* [seek, len]: parts of the output that are looked at

\* compress_in_place and compress_xof look at AVX512VL alone: they rely on no
\* processor having it without AVX512F.
ASSUME MachineAssumption ==
  \A m \in Machines : "AVX512VL" \in m.leaf7 => "AVX512F" \in m.leaf7

VARIABLES
  machine,         \* what the program runs on, fixed
  g_cpu_features,  \* the features once detected; shared by all hashers
  self,            \* the hasher
  mode,            \* [kind, context] of the last call of an init function
  total            \* the length of the message so far

vars == <<machine, g_cpu_features, self, mode, total>>

-----------------------------------------------------------------------------
\* blake3_dispatch.c: features, lanes and the routines that are called.

UNDEFINED == {"UNDEFINED"}

\* xgetbv: the register states the operating system saves.
DetectIgnoringMask(m) ==  \* Slip
  {f \in {"SSE2", "SSSE3", "SSE41"} : f \in m.leaf1}
    \cup IF "OSXSAVE" \in m.leaf1 /\ {"xmm", "ymm"} \subseteq m.xcr0
         THEN {f \in {"AVX"} : f \in m.leaf1}
           \cup (IF m.max_id >= 7 THEN m.leaf7 ELSE {})
         ELSE {}

DetectFeatures(m) ==
  {f \in {"SSE2", "SSSE3", "SSE41"} : f \in m.leaf1}
    \cup IF "OSXSAVE" \in m.leaf1 /\ {"xmm", "ymm"} \subseteq m.xcr0
         THEN {f \in {"AVX"} : f \in m.leaf1}
           \cup (IF m.max_id < 7 THEN {}
                 ELSE {f \in {"AVX2"} : f \in m.leaf7}
                   \cup {f \in {"AVX512F", "AVX512VL"} :
                           f \in m.leaf7 /\ "zmm" \in m.xcr0})
         ELSE {}

get_cpu_features ==
  IF g_cpu_features # UNDEFINED THEN g_cpu_features
  ELSE IF machine.arch = "x86" THEN DetectFeatures(machine)
  ELSE {}

\* The store that comes with the first detection.
CacheFeatures ==
  g_cpu_features' = IF machine.arch = "x86" THEN get_cpu_features
                    ELSE g_cpu_features

\* The routine of compress_in_place and of compress_xof.
CompressRoutine(features) ==
  IF "AVX512VL" \in features THEN "avx512"
  ELSE IF "SSE41" \in features THEN "sse41"
  ELSE IF "SSE2" \in features THEN "sse2"
  ELSE "portable"

HashManyRoutine(arch, features) ==
  IF {"AVX512F", "AVX512VL"} \subseteq features THEN "avx512"
  ELSE IF "AVX2" \in features THEN "avx2"
  ELSE IF "SSE41" \in features THEN "sse41"
  ELSE IF "SSE2" \in features THEN "sse2"
  ELSE IF arch = "neon" THEN "neon"
  ELSE "portable"

SimdDegreeOfX86(arch, features) ==  \* Slip
  IF {"AVX512F", "AVX512VL"} \subseteq features THEN 16
  ELSE IF features \cap {"AVX2", "SSE41", "SSE2"} # {} THEN 8
  ELSE 4

SimdDegree(arch, features) ==
  IF {"AVX512F", "AVX512VL"} \subseteq features THEN 16
  ELSE IF "AVX2" \in features THEN 8
  ELSE IF features \cap {"SSE41", "SSE2"} # {} \/ arch = "neon" THEN 4
  ELSE 1

simd_degree == SimdDegree(machine.arch, get_cpu_features)

MAX_SIMD_DEGREE_OR_2 ==
  CASE machine.arch = "x86" -> 16 [] machine.arch = "neon" -> 4 [] OTHER -> 2

-----------------------------------------------------------------------------
\* blake3_impl.h: numbers.

round_down_to_power_of_2[x \in Nat] ==
  IF x <= 1 THEN 1 ELSE 2 * round_down_to_power_of_2[x \div 2]

IsPowerOfTwo(x) == x = round_down_to_power_of_2[x]

popcnt[x \in Nat] == IF x = 0 THEN 0 ELSE (x % 2) + popcnt[x \div 2]

Least(a, b) == IF a < b THEN a ELSE b

\* The longest message has TwoTo[MAX_DEPTH] chunks.
TwoTo[e \in Nat] == IF e = 0 THEN 1 ELSE 2 * TwoTo[e - 1]

MaxLen == TwoTo[MAX_DEPTH] * CHUNK_LEN

ASSUME Blake3Assumption ==
  /\ MAX_DEPTH \in Nat
  /\ Lens \subseteq Nat /\ ContextLens \subseteq Nat
  /\ \A w \in Windows : w.seek \in Nat /\ w.len \in Nat
  /\ IsPowerOfTwo(CHUNK_LEN)

-----------------------------------------------------------------------------
\* blake3.c: the chunk.

Zeros == [b \in 1..BLOCK_LEN |-> 0]

ChunkState(key, counter, flags) ==
  [cv |-> key, chunk_counter |-> counter, buf |-> Zeros, buf_len |-> 0,
   blocks_compressed |-> 0, flags |-> flags]

ChunkLen(s) == BLOCK_LEN * s.blocks_compressed + s.buf_len

\* What fits into the rest of the buffer.
FillBuf(s, input) ==
  LET take == Least(BLOCK_LEN - s.buf_len, Len(input))
  IN [s EXCEPT
        !.buf = [b \in 1..BLOCK_LEN |->
                   IF b > s.buf_len /\ b <= s.buf_len + take
                   THEN input[b - s.buf_len] ELSE @[b]],
        !.buf_len = @ + take]

StartFlag(s) == IF s.blocks_compressed = 0 THEN {"CHUNK_START"} ELSE {}

CompressBlock(s, block) ==
  [s EXCEPT !.cv = Compress(@, block, BLOCK_LEN, s.chunk_counter,
                            s.flags \cup StartFlag(s)),
            !.blocks_compressed = @ + 1]

\* The chunk after the first k blocks of data.
CompressBlocks(s, data) ==
  LET after[k \in Nat] ==
        IF k = 0 THEN s
        ELSE CompressBlock(after[k - 1],
                           SubSeq(data, (k - 1) * BLOCK_LEN + 1, k * BLOCK_LEN))
  IN after

\* The buffer is compressed only when more input follows it, and so is each
\* block of the input: the last one stays in the buffer.
ChunkStateUpdate(s, input) ==
  LET filled  == FillBuf(s, input)
      rest    == SubSeq(input, filled.buf_len - s.buf_len + 1, Len(input))
      pending == s.buf_len > 0
      data    == IF pending THEN rest ELSE input
      start   == IF ~pending THEN s
                 ELSE IF rest = <<>> THEN filled
                 ELSE [CompressBlock(filled, filled.buf) EXCEPT
                         !.buf_len = 0, !.buf = Zeros]
      whole   == IF data = <<>> THEN 0 ELSE (Len(data) - 1) \div BLOCK_LEN
  IN FillBuf(CompressBlocks(start, data)[whole],
             SubSeq(data, whole * BLOCK_LEN + 1, Len(data)))

ChunkStateOutput(s) ==
  MakeOutput(s.cv, s.buf, s.buf_len, s.chunk_counter,
             s.flags \cup StartFlag(s) \cup {"CHUNK_END"})

\* A chunk that is hashed at once, with a chunk state of its own.
ChunkCV(input, key, counter, flags) ==
  ChainingValue(ChunkStateOutput(
    ChunkStateUpdate(ChunkState(key, counter, flags), input)))

-----------------------------------------------------------------------------
\* Wide subtrees.

\* blake3_hash_many on whole inputs: one chaining value for each.
HashOne(blocks, key, counter, flags, flags_start, flags_end) ==
  LET n == Len(blocks)
      cv[b \in Nat] ==
        IF b = 0 THEN key
        ELSE Compress(cv[b - 1], blocks[b], BLOCK_LEN, counter,
                      flags \cup (IF b = 1 THEN flags_start ELSE {})
                            \cup (IF b = n THEN flags_end ELSE {}))
  IN cv[n]

HashMany(inputs, key, counter, increment_counter, flags, flags_start, flags_end) ==
  [x \in 1..Len(inputs) |->
     HashOne(inputs[x], key,
             IF increment_counter THEN counter + x - 1 ELSE counter,
             flags, flags_start, flags_end)]

Blocks(chunk) ==
  [b \in 1..CHUNK_LEN \div BLOCK_LEN |->
     SubSeq(chunk, (b - 1) * BLOCK_LEN + 1, b * BLOCK_LEN)]

CompressChunksParallel(input, key, counter, flags) ==
  LET n    == Len(input) \div CHUNK_LEN
      part == SubSeq(input, n * CHUNK_LEN + 1, Len(input))
      full == [x \in 1..n |->
                 Blocks(SubSeq(input, (x - 1) * CHUNK_LEN + 1, x * CHUNK_LEN))]
  IN HashMany(full, key, counter, TRUE, flags, {"CHUNK_START"}, {"CHUNK_END"})
       \o (IF part = <<>> THEN <<>>
           ELSE <<ChunkCV(part, key, counter + n, flags)>>)

\* A child that is left over becomes an output.
CompressParentsParallel(cvs, key, flags) ==
  LET n       == Len(cvs) \div 2
      parents == [x \in 1..n |-> << <<cvs[2 * x - 1], cvs[2 * x]>> >>]
  IN HashMany(parents, key, 0, FALSE, flags \cup {"PARENT"}, {}, {})
       \o SubSeq(cvs, 2 * n + 1, Len(cvs))

left_len(content_len) ==
  round_down_to_power_of_2[(content_len - 1) \div CHUNK_LEN] * CHUNK_LEN

\* The chaining values of the right half are written degree places after
\* those of the left one; what is between is not initialized.
CvArray(left, right, degree) ==
  [x \in 1..(degree + Len(right)) |->
     IF x > degree THEN right[x - degree]
     ELSE IF x <= Len(left) THEN left[x] ELSE <<"junk">>]

\* With one lane the left half of more than a chunk still has two.
LeftDegree(l, simd) == IF l > CHUNK_LEN /\ simd = 1 THEN 2 ELSE simd

\* Two chaining values are left to the caller, who compresses the root.
JoinHalves(left, right, degree, key, flags) ==
  LET cvs == CvArray(left, right, degree)
  IN IF Len(left) = 1 THEN <<cvs[1], cvs[2]>>
     ELSE CompressParentsParallel(
            SubSeq(cvs, 1, Len(left) + Len(right)), key, flags)

CompressSubtreeWide(all, key, counter0, flags, simd) ==
  LET wide[input \in Seq(Int)] ==
        [counter \in Nat |->
           IF Len(input) <= simd * CHUNK_LEN
           THEN CompressChunksParallel(input, key, counter, flags)
           ELSE LET l == left_len(Len(input))
                IN JoinHalves(wide[SubSeq(input, 1, l)][counter],
                              wide[SubSeq(input, l + 1, Len(input))]
                                  [counter + l \div CHUNK_LEN],
                              LeftDegree(l, simd), key, flags)]
  IN wide[all][counter0]

\* Halved until two are left; the assertion before it is WideFits.
SubtreeToParentNode(input, key, counter, flags, simd) ==
  LET condense[k \in Nat] ==
        IF k = 0 THEN CompressSubtreeWide(input, key, counter, flags, simd)
        ELSE LET cvs == condense[k - 1]
             IN IF Len(cvs) > 2 THEN CompressParentsParallel(cvs, key, flags)
                ELSE cvs
  IN SubSeq(condense[4], 1, 2)

-----------------------------------------------------------------------------
\* The hasher.

Hasher(key, flags) ==
  [key |-> key, chunk |-> ChunkState(key, 0, flags), cv_stack |-> <<>>]

\* One entry stays for each 1-bit of the number of chunks so far.
MergeCvStack(h, total_chunks) ==
  LET post == popcnt[total_chunks]
      merged[k \in Nat] ==
        IF k = 0 THEN h.cv_stack
        ELSE LET st == merged[k - 1]
                 n  == Len(st)
             IN Append(SubSeq(st, 1, n - 2),
                       ChainingValue(ParentOutput(st[n - 1], st[n],
                                                  h.key, h.chunk.flags)))
      len  == Len(h.cv_stack)
  IN [h EXCEPT !.cv_stack = merged[IF len > post THEN len - post ELSE 0]]

PushThenMerge(h, cv, counter) ==  \* Slip
  MergeCvStack([h EXCEPT !.cv_stack = Append(@, cv)], counter + 1)

\* Entries are merged when the next one comes, so that the root never is.
PushCv(h, cv, counter) ==
  [MergeCvStack(h, counter) EXCEPT !.cv_stack = Append(@, cv)]

\* The end of a chunk that more input follows.
FinishChunk(h) ==
  LET n == h.chunk.chunk_counter
  IN [PushCv(h, ChainingValue(ChunkStateOutput(h.chunk)), n) EXCEPT
        !.chunk = ChunkState(h.key, n + 1, @.flags)]

\* The largest power of two that divides what was hashed so far.
SubtreeLen(input_len, count_so_far) ==
  LET shrink[len \in Nat \ {0}] ==
        IF count_so_far % len # 0 THEN shrink[len \div 2] ELSE len
  IN shrink[round_down_to_power_of_2[input_len]]

HashSubtree(h, input, simd) ==
  LET n      == h.chunk.chunk_counter
      chunks == Len(input) \div CHUNK_LEN
      flags  == h.chunk.flags
      pair   == SubtreeToParentNode(input, h.key, n, flags, simd)
      pushed == IF Len(input) <= CHUNK_LEN
                THEN PushCv(h, ChunkCV(input, h.key, n, flags), n)
                ELSE PushCv(PushCv(h, pair[1], n), pair[2], n + chunks \div 2)
  IN [pushed EXCEPT !.chunk.chunk_counter = @ + chunks]

\* Slip
FinishUpdateUnmerged(h, rest) ==
  IF rest = <<>> THEN h
  ELSE [h EXCEPT !.chunk = ChunkStateUpdate(@, rest)]

FinishUpdate(h, rest) ==
  IF rest = <<>> THEN h
  ELSE MergeCvStack([h EXCEPT !.chunk = ChunkStateUpdate(@, rest)],
                    h.chunk.chunk_counter)

\* The subtrees of input that are hashed while more than a chunk is left, and
\* how much of it they are.
HashSubtrees(h, input, simd) ==
  LET loop[k \in Nat] ==
        IF k = 0 THEN [hasher |-> h, done |-> 0]
        ELSE LET s    == loop[k - 1]
                 left == Len(input) - s.done
                 len  == SubtreeLen(left, s.hasher.chunk.chunk_counter * CHUNK_LEN)
             IN IF left <= CHUNK_LEN THEN s
                ELSE [hasher |-> HashSubtree(s.hasher,
                                   SubSeq(input, s.done + 1, s.done + len), simd),
                      done |-> s.done + len]
  IN loop[Len(input) \div CHUNK_LEN]

\* blake3_hasher_update: the chunk that was begun, then subtrees, then the
\* rest.
HasherUpdate(h, input, simd) ==
  LET begun  == ChunkLen(h.chunk)
      take   == IF begun = 0 THEN 0 ELSE Least(CHUNK_LEN - begun, Len(input))
      rest   == SubSeq(input, take + 1, Len(input))
      filled == [h EXCEPT !.chunk = ChunkStateUpdate(@, SubSeq(input, 1, take))]
      start  == IF begun = 0 THEN h ELSE FinishChunk(filled)
      hashed == HashSubtrees(start, rest, simd)
  IN IF input = <<>> THEN h
     ELSE IF begun > 0 /\ rest = <<>> THEN filled
     ELSE FinishUpdate(hashed.hasher, SubSeq(rest, hashed.done + 1, Len(rest)))

\* The n bytes of output from place at on.
OutputRootBytes(o, seek, out_len) ==
  LET out[n \in Nat] ==
        [at \in Nat |->
           IF n = 0 THEN <<>>
           ELSE LET wide   == CompressXof(o.input_cv, o.block, o.block_len,
                                          at \div BLOCK_LEN, o.flags \cup {"ROOT"})
                    offset == at % BLOCK_LEN
                    len    == Least(n, BLOCK_LEN - offset)
                IN SubSeq(wide, offset + 1, offset + len) \o out[n - len][at + len]]
  IN out[out_len][seek]

FinalizeSeek(h, seek, out_len) ==
  LET st     == h.cv_stack
      parent(l, r) == ParentOutput(l, r, h.key, h.chunk.flags)
      begun  == st = <<>> \/ ChunkLen(h.chunk) > 0
      n      == IF begun THEN Len(st) ELSE Len(st) - 2
      rolled[k \in Nat] ==
        IF k > 0 THEN parent(st[n - k + 1], ChainingValue(rolled[k - 1]))
        ELSE IF begun THEN ChunkStateOutput(h.chunk)
        ELSE parent(st[n + 1], st[n + 2])
  IN OutputRootBytes(rolled[n], seek, out_len)

\* The key derived from a context, by a hasher of its own: the half of a
\* block of output.  The bytes of a context are negative.
ContextKey(len) ==
  FinalizeSeek(HasherUpdate(Hasher(<<>>, {"DERIVE_KEY_CONTEXT"}),
                            [b \in 1..len |-> -b], simd_degree),
               0, BLOCK_LEN \div 2)

-----------------------------------------------------------------------------
\* The calls of a program.

IV == <<>>

Init ==
  /\ machine \in Machines
  /\ g_cpu_features = UNDEFINED
  /\ self = Hasher(IV, {})
  /\ mode = [kind |-> "hash", context |-> 0]
  /\ total = 0

hasher_init ==
  /\ self' = Hasher(IV, {})
  /\ mode' = [kind |-> "hash", context |-> 0]
  /\ total' = 0
  /\ UNCHANGED <<machine, g_cpu_features>>

hasher_init_keyed ==
  /\ self' = Hasher(<<"key">>, {"KEYED_HASH"})
  /\ mode' = [kind |-> "keyed", context |-> 0]
  /\ total' = 0
  /\ UNCHANGED <<machine, g_cpu_features>>

hasher_init_derive_key(len) ==
  /\ self' = Hasher(ContextKey(len), {"DERIVE_KEY_MATERIAL"})
  /\ mode' = [kind |-> "derive", context |-> len]
  /\ total' = 0
  /\ CacheFeatures
  /\ UNCHANGED machine

\* The features are looked at by the first compression.
hasher_update(len) ==
  /\ total + len <= MaxLen
  /\ self' = HasherUpdate(self, [b \in 1..len |-> total + b], simd_degree)
  /\ total' = total + len
  /\ IF self'.chunk.cv # self.chunk.cv \/ self'.cv_stack # self.cv_stack
     THEN CacheFeatures ELSE UNCHANGED g_cpu_features
  /\ UNCHANGED <<machine, mode>>

\* The hasher is not changed; FinalizeIsTreeHash looks at the result.
hasher_finalize ==
  /\ CacheFeatures
  /\ UNCHANGED <<machine, self, mode, total>>

hasher_reset ==
  /\ self' = [self EXCEPT !.chunk = ChunkState(self.key, 0, @.flags),
                          !.cv_stack = <<>>]
  /\ total' = 0
  /\ UNCHANGED <<machine, g_cpu_features, mode>>

Next ==
  \/ hasher_init
  \/ hasher_init_keyed
  \/ \E len \in ContextLens : hasher_init_derive_key(len)
  \/ \E len \in Lens : hasher_update(len)
  \/ hasher_finalize
  \/ hasher_reset

Spec == Init /\ [][Next]_vars

-----------------------------------------------------------------------------
\* Properties.

Tree(key, flags, len, sign) ==
  [key |-> key, flags |-> flags, len |-> len,
   byte |-> [b \in 1..len |-> sign * b]]

\* The message so far under the key of the last call of an init function.
Message ==
  CASE mode.kind = "hash" -> Tree(IV, {}, total, 1)
    [] mode.kind = "keyed" -> Tree(<<"key">>, {"KEYED_HASH"}, total, 1)
    [] mode.kind = "derive" ->
         Tree(RootBytes(Tree(IV, {"DERIVE_KEY_CONTEXT"}, mode.context, -1),
                        0, BLOCK_LEN \div 2),
              {"DERIVE_KEY_MATERIAL"}, total, 1)

\* However a message was cut into pieces, on whatever machine, every part of
\* the output is that of the tree hash of the whole message: the root is
\* compressed as the root and nothing else is (blake3_hasher_update and
\* blake3_hasher_finalize_seek).
FinalizeIsTreeHash ==
  LET tree == Message
  IN \A w \in Windows :
       FinalizeSeek(self, w.seek, w.len) = RootBytes(tree, w.seek, w.len)

\* The powers of two that n is the sum of, from the largest on.
Bits[n \in Nat] ==
  IF n = 0 THEN <<>>
  ELSE LET p == round_down_to_power_of_2[n] IN <<p>> \o Bits[n - p]

\* Where subtrees of so many chunks start that follow one another.
Starts(sizes) ==
  LET start[x \in Nat] == IF x <= 1 THEN 0 ELSE start[x - 1] + sizes[x - 1]
  IN start

SubtreeCVs(tree, sizes) ==
  [x \in 1..Len(sizes) |->
     TreeCV(tree)[sizes[x]][Starts(sizes)[x]]]

\* The stack is what hasher_merge_cv_stack and hasher_finalize rely on: while
\* a chunk is begun it has one subtree for each 1-bit of the number of chunks
\* before it; else the last subtree is still in two halves, so that there
\* are at least two entries (line 598); and it never outgrows its array,
\* however long the message.
StackShape ==
  LET n == self.chunk.chunk_counter
      st == self.cv_stack
  IN /\ Len(st) <= MAX_DEPTH + 1
     /\ total = n * CHUNK_LEN + ChunkLen(self.chunk)
     /\ IF ChunkLen(self.chunk) > 0 \/ total = 0
        THEN st = SubtreeCVs(Message, Bits[n])
        ELSE \E p \in 1..n :
               /\ IsPowerOfTwo(p) /\ n % (2 * p) = 0
               /\ st = SubtreeCVs(Message, Bits[n - p] \o <<p>>)

\* Hashed as one subtree, more than a chunk of input gives at least two
\* chaining values, so that the root is left to finalize, and no more than
\* the array of its caller has places (the assertion of line 343).
WideFits ==
  total > CHUNK_LEN =>
    LET cvs == CompressSubtreeWide([b \in 1..total |-> b], self.key, 0,
                                   self.chunk.flags, simd_degree)
    IN Len(cvs) \in 2..MAX_SIMD_DEGREE_OR_2

Needs(routine) ==
  CASE routine = "avx512" -> {"AVX512F", "AVX512VL", "zmm"}
    [] routine = "avx2" -> {"AVX2", "ymm"}
    [] routine = "sse41" -> {"SSE41"}
    [] routine = "sse2" -> {"SSE2"}
    [] OTHER -> {}

Lanes(routine) ==
  CASE routine = "avx512" -> 16
    [] routine = "avx2" -> 8
    [] routine \in {"sse41", "sse2", "neon"} -> 4
    [] OTHER -> 1

\* No routine is chosen whose instructions the processor does not have or
\* whose registers the operating system does not save; and the degree that
\* lays out the arrays is that of the routine that fills them, whether the
\* features come from the cache or not (get_cpu_features).
RoutinesRun ==
  LET features == get_cpu_features
      many     == HashManyRoutine(machine.arch, features)
      provided == machine.leaf1 \cup machine.leaf7 \cup machine.xcr0
  IN /\ Needs(CompressRoutine(features)) \cup Needs(many) \subseteq provided
     /\ simd_degree = Lanes(many)
     /\ g_cpu_features # UNDEFINED =>
          machine.arch = "x86" /\ features = DetectFeatures(machine)
=============================================================================
