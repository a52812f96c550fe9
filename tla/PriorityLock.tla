---------------------------- MODULE PriorityLock ----------------------------
(***************************************************************************)
(* What a lock of the kernel promises, without lists, timers or priority   *)
(* inheritance: a lock that is released goes at once to the most urgent of *)
(* the threads that wait for it, and nobody can slip in between.           *)
(***************************************************************************)
EXTENDS Naturals

CONSTANTS Thread, Lock, NoThread

VARIABLES
  holder,    \* holder[l]
  waiting,   \* waiting[l]: the threads that wait for l
  urgency    \* urgency[t], small numbers first; it may change at any time

vars == <<holder, waiting, urgency>>

Init ==
  /\ holder = [l \in Lock |-> NoThread]
  /\ waiting = [l \in Lock |-> {}]

Acquire(t, l) ==
  /\ holder[l] = NoThread
  /\ holder' = [holder EXCEPT ![l] = t]
  /\ UNCHANGED waiting

Wait(t, l) ==
  /\ holder[l] \notin {t, NoThread}
  /\ waiting' = [waiting EXCEPT ![l] = @ \cup {t}]
  /\ UNCHANGED holder

GiveUp(t, l) ==
  /\ t \in waiting[l]
  /\ waiting' = [waiting EXCEPT ![l] = @ \ {t}]
  /\ UNCHANGED holder

Free(l) ==
  /\ holder[l] # NoThread /\ waiting[l] = {}
  /\ holder' = [holder EXCEPT ![l] = NoThread]
  /\ UNCHANGED waiting

HandOver(t, l) ==
  /\ t \in waiting[l]
  /\ \A u \in waiting[l] : urgency[t] <= urgency[u]
  /\ holder' = [holder EXCEPT ![l] = t]
  /\ waiting' = [waiting EXCEPT ![l] = @ \ {t}]

Next ==
  \E l \in Lock :
    \/ Free(l)
    \/ \E t \in Thread : Acquire(t, l) \/ Wait(t, l) \/ GiveUp(t, l) \/ HandOver(t, l)

Spec == Init /\ [][Next]_<<holder, waiting>>
=============================================================================
