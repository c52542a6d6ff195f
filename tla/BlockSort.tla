----------------------------- MODULE BlockSort -----------------------------
(***************************************************************************)
(* block_sort.c of hash-search/blake3: a trial that is to move the blocks  *)
(* of a file to the places of their rows.  It makes up the rows: array has *)
(* the number of blocks of each, prefix_index their numbers, taken from a  *)
(* shuffled list, and offset_start the place where each row begins.  The   *)
(* last row gets what is left, and its numbers are never set.              *)
(*                                                                         *)
(* The loop carries one block in a buffer: it looks up where the block at  *)
(* the cursor belongs, reads the block that is there, and writes the one   *)
(* it carries.  The cursor is then behind the block it wrote, so that the  *)
(* next place is looked up for another block than the one it carries       *)
(* (line 262).                                                             *)
(*                                                                         *)
(* A block is its first place in the file.  An index that is used before   *)
(* it is set is any index, or the end of the program (which stands for     *)
(* places outside of the file, too); one that was set in an earlier round  *)
(* of the loop still has its value.                                        *)
(*                                                                         *)
(* An operator marked "Slip" is no part of the specification: it is the    *)
(* operator after it with a mistake in it, kept to show which property     *)
(* notices the mistake.                                                    *)
(***************************************************************************)
EXTENDS Integers, SequencesExt

CONSTANTS
  sortRows,     \* arraySize
  targetSum,    \* blocks in the file
  upperBound,   \* of the size of a row but the last
  RowGarbage    \* what malloc may leave in the last row

ASSUME BlockSortAssumption ==
  /\ sortRows \in Nat \ {0}
  /\ {targetSum, upperBound} \subseteq Nat
  /\ RowGarbage \subseteq Int

VARIABLES
  bsStage,    \* "off", "rows", "shuffle", "index", "swap", "done", "crashed"
  bsArray,    \* the sizes of the rows so far
  bsSum,      \* currentSum
  bsStart,    \* offset_start
  bsValues,   \* index_values
  bsIndex,    \* prefix_index
  bsFile,
  bsBuffer,
  bsCursor,   \* the block at which the cursor is
  bsPlace,    \* offset_to_be_moved_to of the last round, or unset
  bsCount     \* the counter of the loop

bsVars == <<bsStage, bsArray, bsSum, bsStart, bsValues, bsIndex, bsFile, bsBuffer,
            bsCursor, bsPlace, bsCount>>

NoPlace == -1

BlockPlaces == 0..(targetSum - 1)

BlockSortInit ==
  /\ bsStage = "off"
  /\ bsArray = <<>>
  /\ bsSum = 0
  /\ bsStart = <<>>
  /\ bsValues = [b \in 1..targetSum |-> b - 1]
  /\ bsIndex = <<>>
  /\ bsFile = [b \in BlockPlaces |-> b]
  /\ bsBuffer = NoPlace
  /\ bsCursor = 0
  /\ bsPlace = NoPlace
  /\ bsCount = 0

BlockSortStart ==
  /\ bsStage = "off" /\ bsStage' = "rows"
  /\ UNCHANGED <<bsArray, bsSum, bsStart, bsValues, bsIndex, bsFile, bsBuffer,
                 bsCursor, bsPlace, bsCount>>

\* One more row, which starts where those before it end (offset_start is
\* added up from the same sizes later).
AddRow(size) ==
  /\ bsArray' = Append(bsArray, size)
  /\ bsStart' = Append(bsStart, bsSum)
  /\ bsSum' = bsSum + size

\* A random size, or 0 when the blocks would not suffice.
ChooseRow(value) ==
  /\ bsStage = "rows" /\ Len(bsArray) < sortRows - 1
  /\ AddRow(IF bsSum + value <= targetSum THEN value ELSE 0)
  /\ UNCHANGED <<bsStage, bsValues, bsIndex, bsFile, bsBuffer, bsCursor,
                 bsPlace, bsCount>>

ChooseLastRow ==
  /\ bsStage = "rows" /\ Len(bsArray) = sortRows - 1
  /\ AddRow(targetSum - bsSum)
  /\ bsStage' = "shuffle"
  /\ UNCHANGED <<bsValues, bsIndex, bsFile, bsBuffer, bsCursor, bsPlace,
                 bsCount>>

\* shuffle_array: each value in turn is swapped with a random one.
ShuffleValue(j) ==
  /\ bsStage = "shuffle"
  /\ bsCount < targetSum
  /\ bsValues' = [bsValues EXCEPT ![bsCount + 1] = bsValues[j],
                                  ![j] = bsValues[bsCount + 1]]
  /\ bsCount' = bsCount + 1
  /\ UNCHANGED <<bsStage, bsArray, bsSum, bsStart, bsIndex, bsFile, bsBuffer, bsCursor,
                 bsPlace>>

\* What the list has, in order.
bubbleSort(list) ==
  LET order == CHOOSE f \in Bijection(DOMAIN list, DOMAIN list) :
                 \A x, y \in DOMAIN list : x < y => list[f[x]] <= list[f[y]]
  IN  [x \in DOMAIN list |-> list[order[x]]]

\* Every row but the last gets the next values; all rows are sorted.
FillRows(garbage) ==
  /\ bsStage = "shuffle" /\ bsCount = targetSum
  /\ bsIndex' =
       [row \in 1..sortRows |->
          bubbleSort(IF row = sortRows THEN garbage
                     ELSE SubSeq(bsValues, bsStart[row] + 1,
                                 bsStart[row] + bsArray[row]))]
  /\ bsStage' = "swap"
  /\ bsCount' = 0
  /\ UNCHANGED <<bsArray, bsSum, bsStart, bsValues, bsFile, bsBuffer, bsCursor, bsPlace>>

\* The first block is read and the cursor set back.
ReadFirst ==
  /\ bsStage = "swap" /\ bsBuffer = NoPlace /\ targetSum > 0
  /\ bsBuffer' = bsFile[0]
  /\ UNCHANGED <<bsStage, bsArray, bsSum, bsStart, bsValues, bsIndex, bsFile,
                 bsCursor, bsPlace, bsCount>>

\* Where the rows have the number: the first place of it.
FoundPlaces(number) ==
  UNION {{bsStart[row] + x - 1 :
            x \in {y \in DOMAIN bsIndex[row] : bsIndex[row][y] = number}} :
         row \in 1..sortRows}

LookUp(number) ==
  IF FoundPlaces(number) # {}
  THEN {CHOOSE p \in FoundPlaces(number) : \A q \in FoundPlaces(number) : p <= q}
  ELSE IF bsPlace # NoPlace THEN {bsPlace}
  ELSE BlockPlaces

WriteBeforeRead(place) ==  \* Slip
  /\ bsFile' = [bsFile EXCEPT ![place] = bsBuffer]
  /\ bsBuffer' = bsBuffer

\* The block at the place is read, the one in the buffer written to it.
SwapBlocks(place) ==
  /\ bsFile' = [bsFile EXCEPT ![place] = bsBuffer]
  /\ bsBuffer' = bsFile[place]

MoveBlock ==
  /\ bsStage = "swap" /\ bsBuffer # NoPlace /\ bsCount < targetSum
  /\ \E place \in LookUp(bsCursor) :
       /\ SwapBlocks(place)
       /\ bsPlace' = place
       /\ bsCursor' = place + 1
  /\ bsCount' = bsCount + 1
  /\ UNCHANGED <<bsStage, bsArray, bsSum, bsStart, bsValues, bsIndex>>

\* offset_start is read outside of the array.
MoveCrashes ==
  /\ bsStage = "swap" /\ bsBuffer # NoPlace /\ bsCount < targetSum
  /\ FoundPlaces(bsCursor) = {} /\ bsPlace = NoPlace
  /\ bsStage' = "crashed"
  /\ UNCHANGED <<bsArray, bsSum, bsStart, bsValues, bsIndex, bsFile, bsBuffer,
                 bsCursor, bsPlace, bsCount>>

\* The block in the buffer is not written.
SwappingEnds ==
  /\ bsStage = "swap" /\ bsCount = targetSum
  /\ bsStage' = "done"
  /\ UNCHANGED <<bsArray, bsSum, bsStart, bsValues, bsIndex, bsFile, bsBuffer,
                 bsCursor, bsPlace, bsCount>>

BlockSortNext ==
  \/ BlockSortStart
  \/ \E value \in 0..upperBound : ChooseRow(value)
  \/ ChooseLastRow
  \/ \E j \in 1..targetSum : ShuffleValue(j)
  \/ \E garbage \in [1..targetSum -> RowGarbage] :
       FillRows(SubSeq(garbage, 1, targetSum - bsStart[sortRows]))
  \/ ReadFirst
  \/ MoveBlock
  \/ MoveCrashes
  \/ SwappingEnds

-----------------------------------------------------------------------------
\* Properties.

\* Wherever the wrong cursor sends them, no block gets lost but the one that
\* is in the buffer, and none is there twice but the first, which is read
\* before the loop (lines 249-301).
BlocksKept ==
  LET copies(b) == Cardinality({p \in BlockPlaces : bsFile[p] = b})
                     + (IF bsBuffer = b THEN 1 ELSE 0)
  IN bsBuffer # NoPlace =>
       \A b \in BlockPlaces : copies(b) = IF b = 0 THEN 2 ELSE 1
=============================================================================
