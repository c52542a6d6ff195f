------------------------------ MODULE HashTree ------------------------------
(***************************************************************************)
(* What the hash of hash-search/blake3 is, whatever the order in which it  *)
(* is computed: chunks are chained block by block, pairs of subtrees are   *)
(* compressed to parents, and the last node alone is compressed as the     *)
(* root, once for each block of output.                                    *)
(*                                                                         *)
(* The compression function is a constructor of terms: two results are     *)
(* equal only if all inputs are.  The bytes of a message are numbered from *)
(* 1; 0 is the zero that pads a block.  Flags are a set of names.          *)
(***************************************************************************)
EXTENDS Integers, Sequences

CONSTANTS BLOCK_LEN, CHUNK_LEN

ASSUME LengthsAssumption ==
  /\ BLOCK_LEN \in Nat \ {0}
  /\ CHUNK_LEN \in Nat \ {0}
  /\ CHUNK_LEN % BLOCK_LEN = 0

\* The flags come first and the counter second, so that a block of bytes is
\* never compared with a block of chaining values.
Compress(cv, block, block_len, counter, flags) ==
  <<flags, counter, block_len, block, cv>>

\* A block of output: its bytes are told apart by their place.
CompressXof(cv, block, block_len, counter, flags) ==
  [b \in 1..BLOCK_LEN |-> <<Compress(cv, block, block_len, counter, flags), b>>]

\* A node whose compression waits until it is known whether it is the root.
MakeOutput(cv, block, block_len, counter, flags) ==
  [input_cv |-> cv, block |-> block, block_len |-> block_len,
   counter |-> counter, flags |-> flags]

ChainingValue(o) ==
  Compress(o.input_cv, o.block, o.block_len, o.counter, o.flags)

ParentOutput(left, right, key, flags) ==
  MakeOutput(key, <<left, right>>, BLOCK_LEN, 0, flags \cup {"PARENT"})

-----------------------------------------------------------------------------
\* The reference.  A tree is [key, flags, len, byte], byte being a function
\* from positions; its chunks are counted from 0.

Chunks(len) == IF len = 0 THEN 1 ELSE ((len - 1) \div CHUNK_LEN) + 1

ChunkSize(tree, c) ==
  LET left == tree.len - c * CHUNK_LEN
  IN IF left < CHUNK_LEN THEN left ELSE CHUNK_LEN

ChunkBlock(tree, c, b) ==
  [x \in 1..BLOCK_LEN |->
     IF b * BLOCK_LEN + x <= ChunkSize(tree, c)
     THEN tree.byte[c * CHUNK_LEN + b * BLOCK_LEN + x] ELSE 0]

BlockFlags(tree, b) == tree.flags \cup (IF b = 0 THEN {"CHUNK_START"} ELSE {})

\* The chaining values of the first b blocks of chunk c.
ChunkChain(tree, c) ==
  LET chain[b \in Nat] ==
        IF b = 0 THEN tree.key
        ELSE Compress(chain[b - 1], ChunkBlock(tree, c, b - 1), BLOCK_LEN, c,
                      BlockFlags(tree, b - 1))
  IN chain

LastBlock(tree, c) ==
  IF ChunkSize(tree, c) = 0 THEN 0 ELSE (ChunkSize(tree, c) - 1) \div BLOCK_LEN

\* Chunk c: all blocks but the last are chained, the last is the node.
ChunkNode(tree, c) ==
  LET last == LastBlock(tree, c)
  IN MakeOutput(ChunkChain(tree, c)[last], ChunkBlock(tree, c, last),
                ChunkSize(tree, c) - last * BLOCK_LEN, c,
                BlockFlags(tree, last) \cup {"CHUNK_END"})

\* The left subtree of n nodes has the largest power of two of them that
\* leaves at least one to the right.
LeftNodes[n \in Nat] ==
  IF n <= 2 THEN 1 ELSE 2 * LeftNodes[(n + 1) \div 2]

\* The chaining value of the n nodes from lo on, leaf[c] being that of node c.
Subtree(leaf, key, flags) ==
  LET cv[n \in Nat] ==
        [lo \in Nat |->
           IF n <= 1 THEN leaf[lo]
           ELSE LET k == LeftNodes[n]
                IN ChainingValue(ParentOutput(cv[k][lo], cv[n - k][lo + k],
                                              key, flags))]
  IN cv

TreeCV(tree) ==
  Subtree([c \in Nat |-> ChainingValue(ChunkNode(tree, c))], tree.key, tree.flags)

\* The node above the n chunks from lo on.
TreeNode(tree, n, lo) ==
  LET k == LeftNodes[n]
  IN IF n <= 1 THEN ChunkNode(tree, lo)
     ELSE ParentOutput(TreeCV(tree)[k][lo], TreeCV(tree)[n - k][lo + k],
                       tree.key, tree.flags)

RootNode(tree) == TreeNode(tree, Chunks(tree.len), 0)

\* The n bytes of output from seek on.
RootBytes(tree, seek, n) ==
  LET root == RootNode(tree)
  IN [x \in 1..n |->
        LET at == seek + x - 1
        IN <<Compress(root.input_cv, root.block, root.block_len,
                      at \div BLOCK_LEN, root.flags \cup {"ROOT"}),
             (at % BLOCK_LEN) + 1>>]
=============================================================================
