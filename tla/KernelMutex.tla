----------------------------- MODULE KernelMutex ----------------------------
(***************************************************************************)
(* rt_mutex (ipc.c): recursive, handed over on release, with priority      *)
(* inheritance along chains of owners that wait themselves. The priority   *)
(* ceiling is left at its default, as everywhere in this repository.       *)
(***************************************************************************)
EXTENDS ThreadSched

CONSTANTS
  Mutex,            \* numbered in the order in which threads nest them
  NoThread,
  NoCall,
  NoPriority,       \* 0xff, lower than every priority
  RT_MUTEX_HOLD_MAX

ASSUME MutexAssumption ==
  /\ Mutex \subseteq Nat /\ IsFiniteSet(Mutex)
  /\ NoThread \notin Thread /\ NoCall \notin Mutex
  /\ RT_MUTEX_HOLD_MAX \in Nat \ {0}
  /\ NoPriority \in Nat /\ \A t \in Thread : InitPriority[t] < NoPriority

VARIABLES
  owner,     \* owner[m]; the taken list of a thread is what it owns
  hold,      \* hold[m]
  mprio,     \* mprio[m]: mutex->priority
  waiters,   \* waiters[m]: its suspended threads
  call       \* call[t]: what t takes at the moment; while it is suspended on
             \* a mutex this is pending_object

mutexVars == <<owner, hold, mprio, waiters>>

MutexTypeOK ==
  /\ owner \in [Mutex -> Thread \cup {NoThread}]
  /\ hold \in [Mutex -> 0 .. RT_MUTEX_HOLD_MAX]
  /\ mprio \in [Mutex -> Nat]
  /\ waiters \in [Mutex -> Seq(Thread)]

MutexInit ==
  /\ owner = [m \in Mutex |-> NoThread]
  /\ hold = [m \in Mutex |-> 0]
  /\ mprio = [m \in Mutex |-> NoPriority]
  /\ waiters = [m \in Mutex |-> <<>>]

\* t's call returns; nobody looks at the error field until the next one.
Return(t) ==
  /\ call' = [call EXCEPT ![t] = NoCall]
  /\ error' = [error EXCEPT ![t] = "RT_EOK"]

Taken(t) == {m \in Mutex : owner[m] = t}

\* The priority of the first waiter, as _mutex_update_priority reads it.
HeadPriority(list, pr) == IF list = <<>> THEN NoPriority ELSE pr[Head(list)]

\* _thread_get_mutex_priority: of a thread that has taken the set of mutexes.
MutexPriority(t, taken, mp) == Min({InitPriority[t]} \cup {mp[m] : m \in taken})

(***************************************************************************)
(* _thread_update_priority: gives t the priority p, and follows the owners *)
(* of the mutexes that t and they wait for, re-sorting each list, as long  *)
(* as that changes a priority. w and mp are the lists and priorities of    *)
(* the mutexes when it is called.                                          *)
(***************************************************************************)
UpdateOwner(s) ==
  LET m == call[s.thread]
      list == EnqueuePrio(RemoveFirst(s.waiters[m], s.thread), s.thread, s.prio)
      mp == [s.mprio EXCEPT ![m] = HeadPriority(list, s.prio)]
      p == MutexPriority(owner[m], Taken(owner[m]), mp)
  IN  [thread |-> IF p = s.prio[owner[m]] THEN NoThread ELSE owner[m],
       prio |-> [s.prio EXCEPT ![owner[m]] = p],
       waiters |-> [s.waiters EXCEPT ![m] = list],
       mprio |-> mp]

UpdateOnlyOwner(t, p, w, mp) ==    \* mutation of UpdatePriority: no chain
  [thread |-> t, prio |-> [prio EXCEPT ![t] = p], waiters |-> w, mprio |-> mp]

UpdateTurn(s) ==
  IF s.thread # NoThread /\ stat[s.thread] = "suspended" /\ call[s.thread] \in Mutex
  THEN UpdateOwner(s) ELSE s

UpdatePriority(t, p, w, mp) ==
  LET start == [thread |-> t, prio |-> [prio EXCEPT ![t] = p], waiters |-> w, mprio |-> mp]
      after[n \in 0 .. Cardinality(Mutex)] ==
        IF n = 0 THEN start ELSE UpdateTurn(after[n - 1])
  IN  after[Cardinality(Mutex)]

Adopt(s) == prio' = s.prio /\ waiters' = s.waiters /\ mprio' = s.mprio

-----------------------------------------------------------------------------
(***************************************************************************)
(* rt_mutex_take, by the thread that runs. Threads nest mutexes in their   *)
(* order.                                                                  *)
(***************************************************************************)
CallsMutex(t, m) ==
  /\ Runs(t) /\ call[t] = NoCall
  /\ \A k \in Taken(t) : k <= m

TakeAgainAlways(t, m) ==    \* mutation of TakeAgain: the count is not limited
  /\ CallsMutex(t, m) /\ owner[m] = t
  /\ hold' = [hold EXCEPT ![m] = @ + 1]
  /\ error' = [error EXCEPT ![t] = "RT_EOK"]
  /\ UNCHANGED <<stat, prio, timer, owner, mprio, waiters, call>>

TakeAgain(t, m) ==
  /\ CallsMutex(t, m) /\ owner[m] = t /\ hold[m] < RT_MUTEX_HOLD_MAX
  /\ hold' = [hold EXCEPT ![m] = @ + 1]
  /\ error' = [error EXCEPT ![t] = "RT_EOK"]
  /\ UNCHANGED <<stat, prio, timer, owner, mprio, waiters, call>>

TakeFree(t, m) ==
  /\ CallsMutex(t, m) /\ owner[m] = NoThread
  /\ owner' = [owner EXCEPT ![m] = t]
  /\ mprio' = [mprio EXCEPT ![m] = NoPriority]
  /\ hold' = [hold EXCEPT ![m] = 1]
  /\ error' = [error EXCEPT ![t] = "RT_EOK"]
  /\ UNCHANGED <<stat, prio, timer, waiters, call>>

TakeWithoutInheritance(t, m, timed) ==    \* mutation of TakeWait
  /\ CallsMutex(t, m) /\ owner[m] \notin {t, NoThread}
  /\ Suspend(t, timed)
  /\ call' = [call EXCEPT ![t] = m]
  /\ error' = [error EXCEPT ![t] = "RT_EOK"]
  /\ waiters' = [waiters EXCEPT ![m] = EnqueuePrio(@, t, prio)]
  /\ mprio' = [mprio EXCEPT ![m] = Min({@, prio[t]})]
  /\ UNCHANGED <<prio, owner, hold>>

TakeWait(t, m, timed) ==
  /\ CallsMutex(t, m) /\ owner[m] \notin {t, NoThread}
  /\ Suspend(t, timed)
  /\ call' = [call EXCEPT ![t] = m]
  /\ error' = [error EXCEPT ![t] = "RT_EOK"]
  /\ LET w == [waiters EXCEPT ![m] = EnqueuePrio(@, t, prio)]
         mp == [mprio EXCEPT ![m] = Min({@, prio[t]})]
     IN  IF prio[t] < mprio[m] /\ prio[t] < prio[owner[m]]
         THEN Adopt(UpdatePriority(owner[m], prio[t], w, mp))
         ELSE waiters' = w /\ mprio' = mp /\ UNCHANGED prio
  /\ UNCHANGED <<owner, hold>>

\* The rest of rt_mutex_take once the thread runs again, with the mutex.
TakeGranted(t) ==
  /\ Runs(t) /\ call[t] \in Mutex /\ owner[call[t]] = t
  /\ Return(t)
  /\ UNCHANGED <<stat, prio, timer, mutexVars>>

\* The same without it: its timer has expired. What the owner inherited from
\* this thread is taken back, if its priority is still that of this thread.
TakeExpired(t) ==
  /\ Runs(t) /\ call[t] \in Mutex /\ owner[call[t]] # t
  /\ LET m == call[t]
         o == owner[m]
         mp == [mprio EXCEPT ![m] = HeadPriority(waiters[m], prio)]
         p == MutexPriority(o, Taken(o), mp)
     IN  IF o # NoThread /\ prio[o] = prio[t] /\ p # prio[o]
         THEN Adopt(UpdatePriority(o, p, waiters, mp))
         ELSE mprio' = mp /\ UNCHANGED <<prio, waiters>>
  /\ Return(t)
  /\ UNCHANGED <<stat, timer, owner, hold>>

-----------------------------------------------------------------------------
(***************************************************************************)
(* rt_mutex_release by the owner.                                          *)
(***************************************************************************)
ReleaseInner(t, m) ==
  /\ Runs(t) /\ call[t] = NoCall /\ owner[m] = t /\ hold[m] > 1
  /\ hold' = [hold EXCEPT ![m] = @ - 1]
  /\ UNCHANGED <<schedVars, owner, mprio, waiters, call>>

\* _check_and_update_prio: the boost ends if it was this mutex that gave it.
RestoredPriority(t, m) ==
  IF prio[t] = mprio[m] THEN MutexPriority(t, Taken(t) \ {m}, mprio) ELSE prio[t]

ReleaseToLast(t, m) ==    \* mutation of ReleaseTo: the last waiter is resumed
  /\ Runs(t) /\ call[t] = NoCall /\ owner[m] = t /\ hold[m] = 1
  /\ waiters[m] # <<>>
  /\ prio' = [prio EXCEPT ![t] = RestoredPriority(t, m)]
  /\ Ready(Last(waiters[m]))
  /\ owner' = [owner EXCEPT ![m] = Last(waiters[m])]
  /\ waiters' = [waiters EXCEPT ![m] = Front(@)]
  /\ mprio' = [mprio EXCEPT ![m] = HeadPriority(Front(waiters[m]), prio)]
  /\ UNCHANGED <<error, hold, call>>

ReleaseTo(t, m) ==
  /\ Runs(t) /\ call[t] = NoCall /\ owner[m] = t /\ hold[m] = 1
  /\ waiters[m] # <<>>
  /\ prio' = [prio EXCEPT ![t] = RestoredPriority(t, m)]
  /\ Ready(Head(waiters[m]))
  /\ owner' = [owner EXCEPT ![m] = Head(waiters[m])]
  /\ waiters' = [waiters EXCEPT ![m] = Tail(@)]
  /\ mprio' = [mprio EXCEPT ![m] = HeadPriority(Tail(waiters[m]), prio)]
  /\ UNCHANGED <<error, hold, call>>

ReleaseFree(t, m) ==
  /\ Runs(t) /\ call[t] = NoCall /\ owner[m] = t /\ hold[m] = 1
  /\ waiters[m] = <<>>
  /\ prio' = [prio EXCEPT ![t] = RestoredPriority(t, m)]
  /\ owner' = [owner EXCEPT ![m] = NoThread]
  /\ hold' = [hold EXCEPT ![m] = 0]
  /\ mprio' = [mprio EXCEPT ![m] = NoPriority]
  /\ UNCHANGED <<stat, timer, error, waiters, call>>
=============================================================================
