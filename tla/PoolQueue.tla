----------------------------- MODULE PoolQueue -----------------------------
(***************************************************************************)
(* What the transaction pool (src/dsc_py/pool.py) promises its clients,    *)
(* with threads, workers and replies left out: a transaction enters once,  *)
(* is handed to a validator in the order of submission, and leaves when a  *)
(* validator reports it.  Between these it is never lost nor duplicated.   *)
(***************************************************************************)
EXTENDS Sequences, Functions

CONSTANT TransactionIds

VARIABLES waiting,  \* submitted and not handed out yet, oldest first
          taken,    \* handed to a validator, not reported yet
          done      \* reported by a validator

vars == <<waiting, taken, done>>

Known == Range(waiting) \cup taken \cup done

Init ==
  /\ waiting = <<>>
  /\ taken = {}
  /\ done = {}

Submit(t) ==
  /\ t \notin Known
  /\ waiting' = Append(waiting, t)
  /\ UNCHANGED <<taken, done>>

\* A transaction is handed out only from the head of the queue.
Take ==
  /\ waiting # <<>>
  /\ taken' = taken \cup {Head(waiting)}
  /\ waiting' = Tail(waiting)
  /\ UNCHANGED done

Report(t) ==
  /\ t \in taken
  /\ taken' = taken \ {t}
  /\ done' = done \cup {t}
  /\ UNCHANGED waiting

Next ==
  \/ \E t \in TransactionIds : Submit(t)
  \/ Take
  \/ \E t \in TransactionIds : Report(t)

Spec == Init /\ [][Next]_vars
=============================================================================
