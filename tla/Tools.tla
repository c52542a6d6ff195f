------------------------------- MODULE Tools -------------------------------
(***************************************************************************)
(* The single programs of hash-search beside those of Plot.  They share    *)
(* nothing but the disk, on which each has a file of its own, and one of   *)
(* them is run at a time.                                                  *)
(***************************************************************************)
EXTENDS HashTreeFile, BlockSort, HashThreads, ProofOfWork, SortParallel

ToolsInit ==
  /\ TreeInit
  /\ BlockSortInit
  /\ HashThreadsInit
  /\ ProofOfWorkInit
  /\ SortParallelInit

\* The program whose stage is given runs, or may start.
RunsAlone(stage) ==
  LET stages == <<treeStage, bsStage, generator, powStage, spStage>>
  IN \A x \in 1..5 : stages[x] # "off" => x = stage

TreeRuns ==
  /\ RunsAlone(1) /\ TreeNext
  /\ UNCHANGED <<bsVars, genVars, powVars, spVars>>

BlockSortRuns ==
  /\ RunsAlone(2) /\ BlockSortNext
  /\ UNCHANGED <<treeVars, genVars, powVars, spVars>>

HashThreadsRun ==
  /\ RunsAlone(3) /\ HashThreadsNext
  /\ UNCHANGED <<treeVars, bsVars, powVars, spVars>>

ProofOfWorkRuns ==
  /\ RunsAlone(4) /\ ProofOfWorkNext
  /\ UNCHANGED <<treeVars, bsVars, genVars, spVars>>

SortParallelRuns ==
  /\ RunsAlone(5) /\ SortParallelNext
  /\ UNCHANGED <<treeVars, bsVars, genVars, powVars>>

ToolsNext ==
  TreeRuns \/ BlockSortRuns \/ HashThreadsRun \/ ProofOfWorkRuns \/ SortParallelRuns

toolsVars == <<treeVars, bsVars, genVars, powVars, spVars>>

ToolsSpec == ToolsInit /\ [][ToolsNext]_toolsVars
=============================================================================
