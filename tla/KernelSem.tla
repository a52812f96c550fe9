------------------------------ MODULE KernelSem -----------------------------
(***************************************************************************)
(* rt_sem (ipc.c) with a first-in first-out list, as the receive threads   *)
(* of the IMU driver use it. A token is handed to the first waiter, which  *)
(* learns of it from its error field only.                                 *)
(***************************************************************************)
EXTENDS ThreadSched

CONSTANT RT_SEM_VALUE_MAX
ASSUME SemAssumption == RT_SEM_VALUE_MAX \in Nat \ {0}

VARIABLES
  value,     \* sem->value
  sleepers,  \* sem->parent.suspend_thread
  given      \* history: threads that were handed a token and do not know yet

semVars == <<value, sleepers, given>>

SemTypeOK ==
  /\ value \in 0 .. RT_SEM_VALUE_MAX
  /\ sleepers \in Seq(Thread)
  /\ given \subseteq Thread

SemInit == value = 0 /\ sleepers = <<>> /\ given = {}

\* rt_sem_take by t, which runs, up to the point where it returns or sleeps.
SemAvailable(t) ==
  /\ Runs(t) /\ value > 0
  /\ value' = value - 1
  /\ UNCHANGED <<schedVars, sleepers, given>>

SemSleep(t, timed) ==
  /\ Runs(t) /\ value = 0
  /\ error' = [error EXCEPT ![t] = "RT_EINTR"]
  /\ Suspend(t, timed)
  /\ sleepers' = Append(sleepers, t)
  /\ UNCHANGED <<prio, value, given>>

\* rt_sem_release, by an interrupt or by the thread that runs; on a full
\* semaphore it does nothing and returns -RT_EFULL.
SemRelease ==
  \/ /\ sleepers # <<>>
     /\ Ready(Head(sleepers))
     /\ error' = [error EXCEPT ![Head(sleepers)] = "RT_EOK"]
     /\ given' = given \cup {Head(sleepers)}
     /\ sleepers' = Tail(sleepers)
     /\ UNCHANGED <<prio, value>>
  \/ /\ sleepers = <<>> /\ value < RT_SEM_VALUE_MAX
     /\ value' = value + 1
     /\ UNCHANGED <<schedVars, sleepers, given>>
=============================================================================
