----------------------------- MODULE ThreadSched ----------------------------
(***************************************************************************)
(* The threads of the kernel on its one processor (scheduler_up.c,         *)
(* scheduler_comm.c, thread.c): who is ready, at which priority, and the   *)
(* timer that ends a timed wait. A small number is a high priority.        *)
(*                                                                         *)
(* rt_sched_lock disables interrupts and rt_spin_lock keeps the scheduler  *)
(* from switching, so what the code does between them is one step here.    *)
(* The tick interrupt has the highest priority on this board               *)
(* (drv_common.c sets it to 0), so nothing runs between taking an expired  *)
(* timer off its list and calling _thread_timeout.                         *)
(***************************************************************************)
EXTENDS Naturals, SequencesExt

CONSTANTS
  Thread,
  InitPriority      \* InitPriority[t]: the priority t was created with

ASSUME PriorityAssumption == InitPriority \in [Thread -> Nat]

VARIABLES
  stat,      \* stat[t]: "ready" (also while it runs) or "suspended"
  prio,      \* prio[t]: current_priority
  timer,     \* timer[t]: "armed" when thread_timer is active, else "off"
  error      \* error[t]: thread->error, during a call

schedVars == <<stat, prio, timer, error>>

SchedTypeOK ==
  /\ stat \in [Thread -> {"ready", "suspended"}]
  /\ prio \in [Thread -> Nat]
  /\ timer \in [Thread -> {"off", "armed"}]
  /\ error \in [Thread -> {"RT_EOK", "RT_EINTR", "RT_ETIMEOUT"}]

SchedInit ==
  /\ stat = [t \in Thread |-> "ready"]
  /\ prio = InitPriority
  /\ timer = [t \in Thread |-> "off"]
  /\ error = [t \in Thread |-> "RT_EOK"]

(***************************************************************************)
(* rt_schedule: a ready thread of the highest priority runs; between equal *)
(* ones the time slices decide.                                            *)
(***************************************************************************)
Runs(t) ==
  /\ stat[t] = "ready"
  /\ \A u \in Thread : stat[u] = "ready" => prio[t] <= prio[u]

\* rt_susp_list_enqueue with RT_IPC_FLAG_PRIO, under the priorities pr.
EnqueuePrio(list, t, pr) ==
  LET i == SelectInSeq(list, LAMBDA u : pr[t] < pr[u])
  IN  IF i = 0 THEN Append(list, t) ELSE InsertAt(list, i, t)

\* rt_thread_suspend_to_list, and rt_timer_start for a wait that is timed.
Suspend(t, timed) ==
  /\ stat' = [stat EXCEPT ![t] = "suspended"]
  /\ timer' = [timer EXCEPT ![t] = IF timed THEN "armed" ELSE "off"]

ReadyTimerLeft(t) ==    \* mutation of Ready: rt_timer_stop is missing
  /\ stat' = [stat EXCEPT ![t] = "ready"]
  /\ UNCHANGED timer

\* rt_sched_thread_ready of a suspended thread.
Ready(t) ==
  /\ stat' = [stat EXCEPT ![t] = "ready"]
  /\ timer' = [timer EXCEPT ![t] = "off"]
=============================================================================
