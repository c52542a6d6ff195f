---------------------------- MODULE ProofOfWork ----------------------------
(***************************************************************************)
(* Proof_of_work.c of hash-search/blake3: threads_count threads look for a *)
(* nonce whose hash matches, each on its own numbers, and main prints what *)
(* the last of them to find one left in the global nonce.                  *)
(*                                                                         *)
(* The loop of a thread goes on while it has time OR somebody has found a  *)
(* nonce (line 73): a thread that sees the nonce of another looks on until *)
(* it has one of its own, however long that takes.  The numbers end at     *)
(* MaxPowNonce in the model; a thread that gets there looks for ever.      *)
(*                                                                         *)
(* matchBits is the set of nonces that match, which is empty for a         *)
(* difficulty of zero or less (line 34 returns -1, not 1).                 *)
(*                                                                         *)
(* An operator marked "Slip" is no part of the specification: it is the    *)
(* operator after it with a mistake in it, kept to show which property     *)
(* notices the mistake.                                                    *)
(***************************************************************************)
EXTENDS Integers

CONSTANTS threads_count, MaxPowNonce, Difficulties

ASSUME ProofOfWorkAssumption ==
  /\ threads_count \in Nat \ {0}
  /\ MaxPowNonce \in Nat
  /\ Difficulties \subseteq Int

PowThreads == 0..(threads_count - 1)

VARIABLES
  powStage,          \* "off", "create", "join" or "printed"
  powI,              \* the counter of main's loop
  powMatches,        \* the nonces that match
  powPc,             \* "none", "check", "hash", "report", "ended"
  powInput,          \* hash_inputs->nonce of each thread
  powTimeUp,         \* the threads that have seen their time end
  powFound,          \* the threads that found a nonce: history
  nonce,
  hashes_generated,
  powPrinted

powVars == <<powStage, powI, powMatches, powPc, powInput, powTimeUp, powFound,
             nonce, hashes_generated, powPrinted>>

ProofOfWorkInit ==
  /\ powStage = "off"
  /\ powI = 0
  /\ powMatches = {}
  /\ powPc = [t \in PowThreads |-> "none"]
  /\ powInput = [t \in PowThreads |-> t]
  /\ powTimeUp = {}
  /\ powFound = {}
  /\ nonce = -1
  /\ hashes_generated = 0
  /\ powPrinted = <<>>

MatchingNonces(difficulty) ==
  IF difficulty <= 0 THEN {{}} ELSE SUBSET (0..MaxPowNonce)

PowStart ==
  /\ powStage = "off" /\ powStage' = "create"
  /\ \E d \in Difficulties : powMatches' \in MatchingNonces(d)
  /\ UNCHANGED <<powI, powPc, powInput, powTimeUp, powFound, nonce,
                 hashes_generated, powPrinted>>

PowCreate ==
  /\ powStage = "create"
  /\ powPc' = [powPc EXCEPT ![powI] = "check"]
  /\ IF powI = threads_count - 1
     THEN powStage' = "join" /\ powI' = 0
     ELSE powI' = powI + 1 /\ UNCHANGED powStage
  /\ UNCHANGED <<powMatches, powInput, powTimeUp, powFound, nonce,
                 hashes_generated, powPrinted>>

PowGoesOnUntilFound(t) == t \notin powTimeUp /\ nonce = -1  \* Slip

\* The condition of the loop, which reads the global nonce.
PowGoesOn(t) == t \notin powTimeUp \/ nonce # -1

PowCheck(t) ==
  /\ powPc[t] = "check"
  /\ powPc' = [powPc EXCEPT ![t] = IF PowGoesOn(t) THEN "hash" ELSE "report"]
  /\ UNCHANGED <<powStage, powI, powMatches, powInput, powTimeUp, powFound,
                 nonce, hashes_generated, powPrinted>>

\* A match: the global nonce is set, whoever set it before.
PowMatch(t) ==
  /\ powPc[t] = "hash" /\ powInput[t] \in powMatches
  /\ nonce' = powInput[t]
  /\ powFound' = powFound \cup {t}
  /\ powPc' = [powPc EXCEPT ![t] = "report"]
  /\ UNCHANGED <<powStage, powI, powMatches, powInput, powTimeUp,
                 hashes_generated, powPrinted>>

\* The next number of the thread, and the time, which may be up.
PowNoMatch(t) ==
  /\ powPc[t] = "hash" /\ powInput[t] \notin powMatches
  /\ powInput[t] + threads_count <= MaxPowNonce
  /\ powInput' = [powInput EXCEPT ![t] = @ + threads_count]
  /\ powTimeUp' \in {powTimeUp, powTimeUp \cup {t}}
  /\ powPc' = [powPc EXCEPT ![t] = "check"]
  /\ UNCHANGED <<powStage, powI, powMatches, powFound, nonce,
                 hashes_generated, powPrinted>>

\* The last thread tells how far it got.
PowReport(t) ==
  /\ powPc[t] = "report"
  /\ hashes_generated' = IF t = threads_count - 1 THEN powInput[t]
                         ELSE hashes_generated
  /\ powPc' = [powPc EXCEPT ![t] = "ended"]
  /\ UNCHANGED <<powStage, powI, powMatches, powInput, powTimeUp, powFound,
                 nonce, powPrinted>>

PowJoin ==
  /\ powStage = "join" /\ powI < threads_count /\ powPc[powI] = "ended"
  /\ powI' = powI + 1
  /\ UNCHANGED <<powStage, powMatches, powPc, powInput, powTimeUp, powFound,
                 nonce, hashes_generated, powPrinted>>

PowPrint ==
  /\ powStage = "join" /\ powI = threads_count
  /\ powStage' = "printed"
  /\ powPrinted' = <<hashes_generated, nonce>>
  /\ UNCHANGED <<powI, powMatches, powPc, powInput, powTimeUp, powFound, nonce,
                 hashes_generated>>

ProofOfWorkNext ==
  \/ PowStart
  \/ PowCreate
  \/ \E t \in PowThreads :
       PowCheck(t) \/ PowMatch(t) \/ PowNoMatch(t) \/ PowReport(t)
  \/ PowJoin
  \/ PowPrint

-----------------------------------------------------------------------------
\* Properties.

\* What is printed is the nonce of one of the threads that found one, or -1
\* when none did, and it matches.  Because of the loop's condition a thread
\* that never found one was out of time before: as soon as it is printed,
\* every other thread has a nonce of its own (lines 73-95).
PrintedIsFound ==
  powStage = "printed" =>
    /\ powPrinted[2] = -1 <=> powFound = {}
    /\ powFound # {} => /\ powPrinted[2] \in powMatches
                        /\ \E t \in powFound : powInput[t] = powPrinted[2]
    /\ \A t \in PowThreads : t \in powFound \/ t \in powTimeUp
    /\ powPrinted[1] = powInput[threads_count - 1]
=============================================================================
