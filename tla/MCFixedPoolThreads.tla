------------------------ MODULE MCFixedPoolThreads ------------------------
(* FixedPoolThreads with the programs of one and of two threads.           *)
EXTENDS FixedPoolThreads

CONSTANTS t1, t2

Program(first, second) == [t \in Threads |-> IF t = t1 THEN first ELSE second]

\* t1 does everything, or allocates what t2 returns.
Safe == {Program(Operations, {}), Program({"allocate"}, {"deallocate"})}

\* The theorems of FixedPoolThreadsProofs are about programs and sizes as here.
ASSUME TheoremsApply == Regular /\ Orderly
=============================================================================
