----------------------------- MODULE MCKernelIpc ----------------------------
(* Three threads of different priorities, two mutexes, a semaphore.         *)
EXTENDS KernelIpc
CONSTANTS high, middle, low
MCPriority == [t \in Thread |-> IF t = high THEN 1 ELSE IF t = middle THEN 2 ELSE 3]
MCMutex == {1, 2}
=============================================================================
