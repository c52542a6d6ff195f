---------------------------- MODULE HashTreeFile ----------------------------
(***************************************************************************)
(* generate_hash_tree.c and generate_hash_tree_test.c of hash-search/      *)
(* blake3: random hashes are collected in the leaf of their first two      *)
(* bytes, and a leaf that has BLOCK_SIZE of them is written as the next    *)
(* block of the file.  Each leaf keeps the numbers of its blocks in        *)
(* block_index; the second program turns these into the rows of            *)
(* prefix_index and the place offset_start of each row.                    *)
(*                                                                         *)
(* A hash is its number: the first hash generated is 1.  Failures of       *)
(* malloc and of the file system end a program and are left out.           *)
(*                                                                         *)
(* An operator marked "Slip" is no part of the specification: it is the    *)
(* operator after it with a mistake in it, kept to show which property     *)
(* notices the mistake.                                                    *)
(***************************************************************************)
EXTENDS Integers, FiniteSets, SequencesExt

CONSTANTS
  MAX_CHILDREN,    \* leaves, in the order of their bytes
  BLOCK_SIZE,
  TREE_COUNT,      \* COUNT of generate_hash_tree
  Num_of_writes    \* blocks of generate_hash_tree_test

ASSUME HashTreeAssumption ==
  /\ {MAX_CHILDREN, BLOCK_SIZE} \subseteq Nat \ {0}
  /\ {TREE_COUNT, Num_of_writes} \subseteq Nat

Leaves == 1..MAX_CHILDREN

\* sizeof(int*) in ints: what the second program copies of each block_index.
POINTER == 2

\* A number that was never written to its place.
Unset == -1

VARIABLES
  treeStage,     \* "off", "generate", "generate_test", "offsets" or "done"
  tree,          \* [leaf -> [hash_block, block_index]]
  treeFile,      \* the blocks written so far
  drawn,         \* the leaf of each hash so far
  prefix_index,  \* the rows of the second program
  offset_start

treeVars == <<treeStage, tree, treeFile, drawn, prefix_index, offset_start>>

TreeInit ==
  /\ treeStage = "off"
  /\ tree = <<>>
  /\ treeFile = <<>>
  /\ drawn = <<>>
  /\ prefix_index = <<>>
  /\ offset_start = <<>>

\* Every leaf gets a block to fill; its block_index has one entry that is not
\* set in the first program, and none in the second.
CreateTree(index) ==
  /\ treeStage = "off"
  /\ tree' = [leaf \in Leaves |-> [hash_block |-> <<>>, block_index |-> index]]
  /\ UNCHANGED <<treeFile, drawn, prefix_index, offset_start>>

TreeStart == CreateTree(<<Unset>>) /\ treeStage' = "generate"

TreeTestStart == CreateTree(<<>>) /\ treeStage' = "generate_test"

\* Blocks are numbered from 0.
block_number == Len(treeFile)

IndexNextBlock(index) ==  \* Slip
  IF treeStage = "generate"
  THEN [x \in 1..(Len(index) + 1) |->
          IF x = Len(index) THEN block_number ELSE Unset]
  ELSE Append(index, block_number + 1)

\* The first program allocates block_index anew and copies nothing; the
\* second copies all entries.
IndexBlock(index) ==
  IF treeStage = "generate"
  THEN [x \in 1..(Len(index) + 1) |->
          IF x = Len(index) THEN block_number ELSE Unset]
  ELSE Append(index, block_number)

IsFullLate(block) == Len(block) > BLOCK_SIZE  \* Slip

IsFull(block) == Len(block) = BLOCK_SIZE

\* A hash of the given leaf; a full block is written and its leaf emptied.
StoreHash(leaf) ==
  LET l     == tree[leaf]
      block == Append(l.hash_block, Len(drawn) + 1)
      full  == IsFull(block)
  IN /\ tree' = [tree EXCEPT ![leaf] =
                   IF full THEN [hash_block |-> <<>>,
                                 block_index |-> IndexBlock(l.block_index)]
                   ELSE [l EXCEPT !.hash_block = block]]
     /\ treeFile' = IF full THEN Append(treeFile, block) ELSE treeFile
     /\ drawn' = Append(drawn, leaf)

GenerateHash ==
  /\ treeStage = "generate" /\ Len(drawn) < TREE_COUNT
  /\ \E leaf \in Leaves : StoreHash(leaf)
  /\ UNCHANGED <<treeStage, prefix_index, offset_start>>

GenerateHashTest ==
  /\ treeStage = "generate_test" /\ block_number < Num_of_writes
  /\ \E leaf \in Leaves : StoreHash(leaf)
  /\ UNCHANGED <<treeStage, prefix_index, offset_start>>

\* The hashes that do not fill a block are not written.
GenerationEnds ==
  /\ \/ treeStage = "generate" /\ Len(drawn) = TREE_COUNT /\ treeStage' = "done"
     \/ /\ treeStage = "generate_test" /\ block_number = Num_of_writes
        /\ treeStage' = "offsets"
  /\ tree' = [leaf \in Leaves |-> [tree[leaf] EXCEPT !.hash_block = <<>>]]
  /\ UNCHANGED <<treeFile, drawn, prefix_index, offset_start>>

\* array, and prefix_index, of which as much as a pointer is copied.
IndexRows ==
  /\ treeStage = "offsets" /\ prefix_index = <<>>
  /\ prefix_index' =
       [leaf \in Leaves |->
          [x \in 1..Len(tree[leaf].block_index) |->
             IF x <= POINTER THEN tree[leaf].block_index[x] ELSE Unset]]
  /\ UNCHANGED <<treeStage, tree, treeFile, drawn, offset_start>>

\* The sum of the sizes of the rows before the next one.
SumOfRows ==
  LET n == Len(offset_start)
  IN IF n = 0 THEN 0 ELSE offset_start[n] + Len(tree[n].block_index)

OffsetRow ==
  /\ treeStage = "offsets" /\ prefix_index # <<>>
  /\ offset_start' = Append(offset_start, SumOfRows)
  /\ treeStage' = IF Len(offset_start') = MAX_CHILDREN THEN "done" ELSE treeStage
  /\ UNCHANGED <<tree, treeFile, drawn, prefix_index>>

TreeNext ==
  \/ TreeStart
  \/ TreeTestStart
  \/ GenerateHash
  \/ GenerateHashTest
  \/ GenerationEnds
  \/ IndexRows
  \/ OffsetRow

-----------------------------------------------------------------------------
\* Properties.

\* The block of a number.
FileBlock(b) == treeFile[b + 1]

\* The numbers of the blocks of a leaf, and its hashes that are in none.
BlockIds(leaf) ==
  {b \in 0..(Len(treeFile) - 1) : drawn[FileBlock(b)[1]] = leaf}

Unwritten(leaf) ==
  {k \in 1..Len(drawn) :
     drawn[k] = leaf /\ \A b \in BlockIds(leaf) : k \notin Range(FileBlock(b))}

Increasing(s) == \A x, y \in DOMAIN s : x < y => s[x] < s[y]

\* Every block is full, and the blocks of a leaf hold its hashes in the order
\* they came, each once and none of another leaf; what they do not hold came
\* after all of that, is less than a block, and is in the leaf until the
\* program ends (lines 166-190).
BlocksAreFilled ==
  treeStage # "off" =>
    /\ \A b \in 0..(Len(treeFile) - 1) :
         /\ Len(FileBlock(b)) = BLOCK_SIZE /\ Increasing(FileBlock(b))
         /\ \A k \in Range(FileBlock(b)) :
              k \in 1..Len(drawn) /\ drawn[k] = drawn[FileBlock(b)[1]]
    /\ \A leaf \in Leaves :
         /\ \A b, c \in BlockIds(leaf) :
              b < c => FileBlock(b)[BLOCK_SIZE] < FileBlock(c)[1]
         /\ \A b \in BlockIds(leaf), k \in Unwritten(leaf) :
              FileBlock(b)[BLOCK_SIZE] < k
         /\ Cardinality(Unwritten(leaf)) < BLOCK_SIZE
         /\ treeStage \in {"generate", "generate_test"} =>
              /\ Increasing(tree[leaf].hash_block)
              /\ Range(tree[leaf].hash_block) = Unwritten(leaf)

\* b is the number of the x-th block of a leaf.
IsBlock(leaf, x, b) ==
  b \in BlockIds(leaf) /\ Cardinality({c \in BlockIds(leaf) : c <= b}) = x

\* Numbers that are set name the blocks of the leaf, in order.  The first
\* program keeps only the last one (line 186); the second keeps all, copies
\* the first two, and gives each row the places after those of the rows
\* before it.
IndexNamesBlocks ==
  treeStage # "off" =>
    \A leaf \in Leaves :
      LET blocks == Cardinality(BlockIds(leaf))
          index  == tree[leaf].block_index
      IN /\ \A x \in 1..blocks : index[x] # Unset => IsBlock(leaf, x, index[x])
         /\ blocks > 0 => index[blocks] # Unset
         /\ prefix_index # <<>> =>
              /\ Len(index) = blocks
              /\ \A x \in 1..blocks :
                   /\ index[x] # Unset
                   /\ prefix_index[leaf][x] = IF x <= 2 THEN index[x] ELSE Unset
         /\ leaf \in 2..Len(offset_start) => offset_start[leaf] =
              offset_start[leaf - 1] + Cardinality(BlockIds(leaf - 1))
=============================================================================
