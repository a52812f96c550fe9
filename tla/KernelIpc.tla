------------------------------ MODULE KernelIpc -----------------------------
(***************************************************************************)
(* Threads of different priorities that share mutexes and a semaphore: the *)
(* services the SPI bus and the receive threads of this firmware rest on,  *)
(* and the places where a thread waits holding what others wait for.       *)
(* Threads nest mutexes in one order and, while they hold one, wait for    *)
(* the semaphore only with a timeout. Calls that return at once without    *)
(* what they wanted (no timeout, hold count or semaphore full) change      *)
(* nothing and are left out.                                               *)
(***************************************************************************)
EXTENDS KernelMutex, KernelSem

CONSTANT Semaphore    \* a value for call[t]
ASSUME SemaphoreAssumption == Semaphore \notin Mutex \cup {NoCall}

vars == <<schedVars, mutexVars, call, semVars>>

TypeOK ==
  /\ SchedTypeOK /\ MutexTypeOK /\ SemTypeOK
  /\ call \in [Thread -> Mutex \cup {Semaphore, NoCall}]

Init == SchedInit /\ MutexInit /\ SemInit /\ call = [t \in Thread |-> NoCall]

SemTake(t) ==
  /\ call[t] = NoCall
  /\ SemAvailable(t)
  /\ UNCHANGED <<mutexVars, call>>

SemWait(t, timed) ==
  /\ call[t] = NoCall
  /\ Taken(t) # {} => timed
  /\ SemSleep(t, timed)
  /\ call' = [call EXCEPT ![t] = Semaphore]
  /\ UNCHANGED mutexVars

\* The rest of rt_sem_take: it returns what the error field says.
SemReturn(t) ==
  /\ Runs(t) /\ call[t] = Semaphore
  /\ Return(t)
  /\ given' = given \ {t}
  /\ UNCHANGED <<stat, prio, timer, mutexVars, value, sleepers>>

Release == SemRelease /\ UNCHANGED <<mutexVars, call>>

TimeoutNoError(t) ==    \* mutation of Timeout: the error field is not set
  /\ timer[t] = "armed" /\ stat[t] = "suspended"
  /\ Ready(t)
  /\ waiters' = [m \in Mutex |-> IF call[t] = m THEN RemoveFirst(waiters[m], t) ELSE waiters[m]]
  /\ sleepers' = IF call[t] = Semaphore THEN RemoveFirst(sleepers, t) ELSE sleepers
  /\ UNCHANGED <<prio, error, owner, hold, mprio, call, value, given>>

(***************************************************************************)
(* _thread_timeout, called by the tick interrupt: takes the thread off     *)
(* whatever list it is on.                                                 *)
(***************************************************************************)
Timeout(t) ==
  /\ timer[t] = "armed" /\ stat[t] = "suspended"
  /\ Ready(t)
  /\ error' = [error EXCEPT ![t] = "RT_ETIMEOUT"]
  /\ waiters' = [m \in Mutex |-> IF call[t] = m THEN RemoveFirst(waiters[m], t) ELSE waiters[m]]
  /\ sleepers' = IF call[t] = Semaphore THEN RemoveFirst(sleepers, t) ELSE sleepers
  /\ UNCHANGED <<prio, owner, hold, mprio, call, value, given>>

MutexStep(t, m) ==
  \/ TakeAgain(t, m) \/ TakeFree(t, m)
  \/ \E timed \in BOOLEAN : TakeWait(t, m, timed)
  \/ ReleaseInner(t, m) \/ ReleaseTo(t, m) \/ ReleaseFree(t, m)

Next ==
  \/ Release
  \/ \E t \in Thread :
       \/ \E m \in Mutex : MutexStep(t, m) /\ UNCHANGED semVars
       \/ (TakeGranted(t) \/ TakeExpired(t)) /\ UNCHANGED semVars
       \/ SemTake(t) \/ SemReturn(t)
       \/ \E timed \in BOOLEAN : SemWait(t, timed)
       \/ Timeout(t)

(***************************************************************************)
(* Timers expire, a call that has its answer returns once its thread runs, *)
(* and a mutex that its owner could give back again and again is given     *)
(* back; nothing makes threads begin calls or interrupts come.             *)
(***************************************************************************)
Fairness ==
  /\ \A t \in Thread :
       WF_vars(\/ (TakeGranted(t) \/ TakeExpired(t)) /\ UNCHANGED semVars
               \/ SemReturn(t) \/ Timeout(t))
  /\ \A m \in Mutex :
       /\ SF_vars(\E t \in Thread : ReleaseInner(t, m) /\ UNCHANGED semVars)
       /\ SF_vars(\E t \in Thread : /\ ReleaseTo(t, m) \/ ReleaseFree(t, m)
                                   /\ UNCHANGED semVars)

Spec == Init /\ [][Next]_vars /\ Fairness

-----------------------------------------------------------------------------
(***************************************************************************)
(* No priority inversion: the owner of a mutex is never less urgent than a *)
(* thread that waits for it, along chains of owners that wait themselves   *)
(* and whatever timeouts, hand-overs and boosts came before.               *)
(***************************************************************************)
OwnerServesWaiters ==
  \A m \in Mutex : \A t \in ToSet(waiters[m]) : prio[owner[m]] <= prio[t]

(***************************************************************************)
(* What _thread_timeout asserts ("resume of the thread and stop of the     *)
(* thread timer should be an atomic operation"): a timer that may still    *)
(* expire belongs to a thread that is still suspended, on whichever object *)
(* and by whomever it is resumed.                                          *)
(***************************************************************************)
TimerMeansSuspended ==
  \A t \in Thread : timer[t] = "armed" => stat[t] = "suspended"

(***************************************************************************)
(* A waiter comes back from rt_sem_take with RT_EOK exactly if a release   *)
(* handed it a token: no token is lost to a timeout that comes later, and  *)
(* none is made up. A thread that comes back owning the mutex finds no     *)
(* error, as rt_mutex_take asserts.                                        *)
(***************************************************************************)
ErrorTellsOutcome ==
  \A t \in Thread : stat[t] = "ready" =>
    /\ call[t] = Semaphore => (error[t] = "RT_EOK" <=> t \in given)
    /\ call[t] \in Mutex => (error[t] = "RT_EOK" <=> owner[call[t]] = t)

(***************************************************************************)
(* The mutexes are locks that are handed over to the most urgent waiter,   *)
(* although the list is sorted only when a thread is put on it and         *)
(* priorities change afterwards.                                           *)
(***************************************************************************)
Locks == INSTANCE PriorityLock WITH
           Lock <- Mutex, holder <- owner, urgency <- prio,
           waiting <- [m \in Mutex |-> ToSet(waiters[m])]
ImplementsPriorityLock == Locks!Spec

(***************************************************************************)
(* The most urgent thread gets through rt_mutex_take, also when another    *)
(* thread, less urgent than it but more than the owner, never sleeps.      *)
(***************************************************************************)
MostUrgent(t) == \A u \in Thread \ {t} : InitPriority[t] < InitPriority[u]
UrgentIsServed ==
  \A t \in Thread : MostUrgent(t) => (call[t] \in Mutex ~> call[t] = NoCall)

(***************************************************************************)
(* What a thread inherits goes back with the last mutex: one that has      *)
(* taken none runs at its own priority ("get highest priority inside its   *)
(* taken object and its init priority", as the code says).                 *)
(***************************************************************************)
NoMutexOwnPriority ==
  \A t \in Thread : Taken(t) = {} => prio[t] = InitPriority[t]
=============================================================================
