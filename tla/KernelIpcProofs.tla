--------------------------- MODULE KernelIpcProofs --------------------------
(***************************************************************************)
(* Mutexes, semaphore and timed waits: proofs for any threads, priorities, *)
(* limits and finitely many mutexes that are nested in one order.          *)
(*                                                                         *)
(* Which thread a timer belongs to needs no knowledge of the lists:        *)
(* WaitInv. Everything else rests on LockInv. Its first half says who is   *)
(* on which list (Listed, Single), that waiting goes up the order of the   *)
(* mutexes (Nested) and what the error field means (Reasons). Its second   *)
(* half says that lists stay sorted (InOrder) and that urgency grows from  *)
(* a waiter to the mutex (HeadBound) and on to its owner (OwnerBound). The *)
(* steps that change priorities run the loop of _thread_update_priority;   *)
(* Walk is its invariant, and it ends because each turn goes up the order. *)
(* The last part, Exact, says when nobody is more urgent than it must be.  *)
(***************************************************************************)
EXTENDS KernelIpc, FiniteSetTheorems, SequenceTheorems, WellFoundedInduction, TLAPS

Waits == stat \in [Thread -> {"ready", "suspended"}] /\ timer \in [Thread -> {"off", "armed"}]

WaitInv == Waits /\ TimerMeansSuspended

LEMMA ReadyKeeps ==
  ASSUME WaitInv, NEW t, Ready(t)
  PROVE  WaitInv'
BY DEF WaitInv, Waits, TimerMeansSuspended, Ready

LEMMA SuspendKeeps ==
  ASSUME WaitInv, NEW t \in Thread, NEW timed \in BOOLEAN, Suspend(t, timed)
  PROVE  WaitInv'
<1>1. Waits'
  BY DEF WaitInv, Waits, Suspend
<1>2. ASSUME NEW u \in Thread, timer'[u] = "armed"
      PROVE  stat'[u] = "suspended"
  BY <1>2 DEF WaitInv, Waits, TimerMeansSuspended, Suspend
<1>3. QED
  BY <1>1, <1>2 DEF WaitInv, TimerMeansSuspended

LEMMA NoneKeeps ==
  ASSUME WaitInv, UNCHANGED <<stat, timer>>
  PROVE  WaitInv'
BY DEF WaitInv, Waits, TimerMeansSuspended

\* The steps of rt_mutex_take and rt_mutex_release.
LEMMA MutexKeeps ==
  ASSUME WaitInv, NEW t \in Thread, NEW m \in Mutex, MutexStep(t, m)
  PROVE  WaitInv'
<1>1. CASE \E timed \in BOOLEAN : TakeWait(t, m, timed)
  BY <1>1, SuspendKeeps DEF TakeWait
<1>2. CASE ReleaseTo(t, m)
  BY <1>2, ReadyKeeps DEF ReleaseTo
<1>3. CASE TakeAgain(t, m) \/ TakeFree(t, m) \/ ReleaseInner(t, m) \/ ReleaseFree(t, m)
  BY <1>3, NoneKeeps DEF TakeAgain, TakeFree, ReleaseInner, ReleaseFree, schedVars
<1>4. QED
  BY <1>1, <1>2, <1>3 DEF MutexStep

LEMMA WaitNext == WaitInv /\ [Next]_vars => WaitInv'
<1> SUFFICES ASSUME WaitInv, [Next]_vars PROVE WaitInv'
  OBVIOUS
<1>1. CASE Release
  BY <1>1, ReadyKeeps, NoneKeeps DEF Release, SemRelease, schedVars
<1>2. ASSUME NEW t \in Thread, \E m \in Mutex : MutexStep(t, m) PROVE WaitInv'
  BY <1>2, MutexKeeps
<1>3. ASSUME NEW t \in Thread, TakeGranted(t) \/ TakeExpired(t) PROVE WaitInv'
  BY <1>3, NoneKeeps DEF TakeGranted, TakeExpired
<1>4. ASSUME NEW t \in Thread, SemTake(t) \/ SemReturn(t) PROVE WaitInv'
  BY <1>4, NoneKeeps DEF SemTake, SemAvailable, SemReturn, schedVars
<1>5. ASSUME NEW t \in Thread, \E timed \in BOOLEAN : SemWait(t, timed) PROVE WaitInv'
  BY <1>5, SuspendKeeps DEF SemWait, SemSleep
<1>6. ASSUME NEW t \in Thread, Timeout(t) PROVE WaitInv'
  BY <1>6, ReadyKeeps DEF Timeout
<1>7. CASE UNCHANGED vars
  BY <1>7, NoneKeeps DEF vars, schedVars
<1>8. QED
  BY <1>1, <1>2, <1>3, <1>4, <1>5, <1>6, <1>7 DEF Next

(***************************************************************************)
(* What _thread_timeout asserts holds in every reachable state, for any    *)
(* threads, mutexes and limits: a timer that may expire belongs to a       *)
(* suspended thread, whichever release or expiry resumed whom before.      *)
(***************************************************************************)
THEOREM TimersOfSuspended == Spec => []TimerMeansSuspended
<1>1. Init => WaitInv
  BY DEF Init, SchedInit, WaitInv, Waits, TimerMeansSuspended
<1>2. WaitInv => TimerMeansSuspended
  BY DEF WaitInv
<1>3. QED
  BY <1>1, <1>2, WaitNext, PTL DEF Spec

-----------------------------------------------------------------------------
\* Lists in order of priority.

\* The order of the natural numbers, as a relation.
Below == {p \in Nat \X Nat : p[1] < p[2]}

\* A set of natural numbers that is not empty has a least element, which is
\* what Min picks.
LEMMA Minimum ==
  ASSUME NEW S \in SUBSET Nat, S # {}
  PROVE  Min(S) \in S /\ \A k \in S : Min(S) <= k
<1>1. IsWellFoundedOn(Below, Nat)
  BY NatLessThanWellFounded DEF OpToRel, Below
<1>2. \E k \in S : \A j \in S : ~ (<<j, k>> \in Below)
  BY <1>1, WFMin
<1>3. \E k \in S : \A j \in S : k <= j
  <2>1. \A j, k \in S : ~ (<<j, k>> \in Below) => k <= j
    BY DEF Below
  <2>2. QED
    BY <1>2, <2>1
<1>4. QED
  BY <1>3 DEF Min

\* Induction over the natural numbers, with a set in the place of a
\* predicate.
LEMMA Induction ==
  ASSUME NEW S, 0 \in S, \A n \in Nat : n \in S => n + 1 \in S
  PROVE  Nat \subseteq S
<1> SUFFICES ASSUME Nat \ S # {} PROVE FALSE
  OBVIOUS
<1>1. PICK n \in Nat \ S : \A k \in Nat \ S : n <= k
  BY Minimum
<1>2. n # 0 /\ n - 1 \in Nat /\ n - 1 \in S
  BY <1>1
<1>3. (n - 1) + 1 \in S
  BY <1>2
<1>4. QED
  BY <1>1, <1>2, <1>3

-----------------------------------------------------------------------------
\* A piece of a sequence.
LEMMA Cut ==
  ASSUME NEW S, NEW a \in Seq(S), NEW n \in 0 .. Len(a), NEW m \in 1 .. n + 1
  PROVE  /\ SubSeq(a, m, n) \in Seq(S)
         /\ Len(SubSeq(a, m, n)) = n - m + 1
         /\ \A k \in 1 .. n - m + 1 : SubSeq(a, m, n)[k] = a[k + m - 1]
<1>1. \A k \in m .. n : a[k] \in S
  OBVIOUS
<1>2. QED BY <1>1, SubSeqProperties

\* What RemoveAt leaves: everything else, in the same order.
LEMMA RemoveAtProperties ==
  ASSUME NEW S, NEW list \in Seq(S), NEW i \in 1 .. Len(list)
  PROVE  /\ RemoveAt(list, i) \in Seq(S)
         /\ Len(RemoveAt(list, i)) = Len(list) - 1
         /\ \A k \in 1 .. Len(list) - 1 :
              RemoveAt(list, i)[k] = IF k < i THEN list[k] ELSE list[k + 1]
<1>1. PICK a, b : a = SubSeq(list, 1, i - 1) /\ b = SubSeq(list, i + 1, Len(list))
  OBVIOUS
<1>2. RemoveAt(list, i) = a \o b
  BY <1>1 DEF RemoveAt
<1>3. a \in Seq(S) /\ Len(a) = i - 1 /\ \A k \in 1 .. i - 1 : a[k] = list[k]
  BY <1>1, Cut
<1>4. b \in Seq(S) /\ Len(b) = Len(list) - i /\ \A k \in 1 .. Len(list) - i : b[k] = list[k + i]
  BY <1>1, Cut
<1>5. a \o b \in Seq(S) /\ Len(a \o b) = Len(a) + Len(b)
  BY <1>3, <1>4, ConcatProperties
<1>6. ASSUME NEW k \in 1 .. Len(list) - 1, k < i
      PROVE  (a \o b)[k] = list[k]
  <2>1. (a \o b)[k] = a[k]
    BY <1>3, <1>4, <1>6
  <2>2. QED
    BY <1>3, <1>6, <2>1
<1>7. ASSUME NEW k \in 1 .. Len(list) - 1, i <= k
      PROVE  (a \o b)[k] = list[k + 1]
  <2>1. (a \o b)[k] = b[k - (i - 1)]
    BY <1>3, <1>4, <1>7
  <2>2. k - (i - 1) \in 1 .. Len(list) - i /\ (k - (i - 1)) + i = k + 1
    BY <1>7
  <2>3. QED
    BY <1>4, <2>1, <2>2
<1>8. Len(a \o b) = Len(list) - 1
  BY <1>3, <1>4, <1>5
<1>9. QED
  BY <1>2, <1>5, <1>6, <1>7, <1>8

\* What InsertAt gives: the element in its place, the rest around it.
LEMMA InsertAtProperties ==
  ASSUME NEW S, NEW list \in Seq(S), NEW t \in S, NEW i \in 1 .. Len(list) + 1
  PROVE  /\ InsertAt(list, i, t) \in Seq(S)
         /\ Len(InsertAt(list, i, t)) = Len(list) + 1
         /\ InsertAt(list, i, t)[i] = t
         /\ \A k \in 1 .. Len(list) : k < i => InsertAt(list, i, t)[k] = list[k]
         /\ \A k \in 1 .. Len(list) : i <= k => InsertAt(list, i, t)[k + 1] = list[k]
<1>1. PICK a, b : a = SubSeq(list, 1, i - 1) \o <<t>> /\ b = SubSeq(list, i, Len(list))
  OBVIOUS
<1>2. InsertAt(list, i, t) = a \o b
  BY <1>1 DEF InsertAt
<1>3. PICK c : c = SubSeq(list, 1, i - 1)
  OBVIOUS
<1>4. c \in Seq(S) /\ Len(c) = i - 1 /\ \A k \in 1 .. i - 1 : c[k] = list[k]
  BY <1>3, Cut
<1>5. a \in Seq(S) /\ Len(a) = i /\ a[i] = t /\ \A k \in 1 .. i - 1 : a[k] = list[k]
  BY <1>1, <1>3, <1>4
<1>6. /\ b \in Seq(S) /\ Len(b) = Len(list) - i + 1
      /\ \A k \in 1 .. Len(list) - i + 1 : b[k] = list[k + i - 1]
  BY <1>1, Cut
<1>7. a \o b \in Seq(S) /\ Len(a \o b) = Len(a) + Len(b)
  BY <1>5, <1>6, ConcatProperties
<1>8. ASSUME NEW k \in 1 .. Len(list) + 1, k <= i
      PROVE  (a \o b)[k] = a[k]
  BY <1>5, <1>6, <1>8
<1>9. ASSUME NEW k \in 1 .. Len(list), i <= k
      PROVE  (a \o b)[k + 1] = list[k]
  <2>1. (a \o b)[k + 1] = b[(k + 1) - i]
    BY <1>5, <1>6, <1>9
  <2>2. (k + 1) - i \in 1 .. Len(list) - i + 1 /\ ((k + 1) - i) + i - 1 = k
    BY <1>9
  <2>3. QED
    BY <1>6, <2>1, <2>2
<1>10. Len(a \o b) = Len(list) + 1
  BY <1>5, <1>6, <1>7
<1>11. QED
  BY <1>2, <1>5, <1>7, <1>8, <1>9, <1>10

\* rt_susp_list_enqueue keeps a list in this order.
Sorted(list, pr) ==
  \A i, j \in 1 .. Len(list) : i < j => pr[list[i]] <= pr[list[j]]

\* The same among the threads other than t.
SortedBut(list, pr, t) ==
  \A i, j \in 1 .. Len(list) :
    i < j /\ list[i] # t /\ list[j] # t => pr[list[i]] <= pr[list[j]]

\* The same for one element of the list.
LEMMA InsertAtElement ==
  ASSUME NEW S, NEW list \in Seq(S), NEW t \in S, NEW i \in 1 .. Len(list) + 1,
         NEW k \in 1 .. Len(list)
  PROVE  /\ k < i => InsertAt(list, i, t)[k] = list[k]
         /\ i <= k => InsertAt(list, i, t)[k + 1] = list[k]
BY InsertAtProperties

(***************************************************************************)
(* Where rt_susp_list_enqueue puts a thread under RT_IPC_FLAG_PRIO: behind *)
(* every thread that comes before the place and is at least as urgent, in  *)
(* front of one that is less urgent.                                       *)
(***************************************************************************)
LEMMA Place ==
  ASSUME NEW list \in Seq(Thread), NEW t \in Thread, NEW pr \in [Thread -> Nat]
  PROVE  \E i \in 1 .. Len(list) + 1 :
           /\ EnqueuePrio(list, t, pr) = InsertAt(list, i, t)
           /\ \A k \in 1 .. Len(list) : k < i => pr[list[k]] <= pr[t]
           /\ i <= Len(list) => pr[t] < pr[list[i]]
<1> DEFINE I == {i \in 1 .. Len(list) : pr[t] < pr[list[i]]}
<1>1. CASE I = {}
  <2>1. EnqueuePrio(list, t, pr) = Append(list, t)
    BY <1>1 DEF EnqueuePrio, SelectInSeq
  <2>2. \A k \in 1 .. Len(list) : pr[list[k]] <= pr[t]
    BY <1>1
  <2>3. InsertAt(list, Len(list) + 1, t) = Append(list, t)
    <3>1. SubSeq(list, 1, (Len(list) + 1) - 1) = list
      BY SubSeqFull
    <3>2. SubSeq(list, Len(list) + 1, Len(list)) = <<>>
      BY SubSeqEmpty
    <3>3. InsertAt(list, Len(list) + 1, t) = (list \o <<t>>) \o <<>>
      BY <3>1, <3>2 DEF InsertAt
    <3>4. Append(list, t) = list \o <<t>> /\ list \o <<t>> \in Seq(Thread)
      BY AppendIsConcat, AppendProperties
    <3>5. QED
      BY <3>3, <3>4, ConcatEmptySeq
  <2>4. QED
    BY <2>1, <2>2, <2>3
<1>2. CASE I # {}
  <2>1. I \in SUBSET Nat
    OBVIOUS
  <2>2. Min(I) \in I /\ \A k \in I : Min(I) <= k
    BY <1>2, <2>1, Minimum
  <2>3. PICK i \in 1 .. Len(list) : i = Min(I) /\ pr[t] < pr[list[i]]
    BY <2>2
  <2>4. EnqueuePrio(list, t, pr) = InsertAt(list, i, t)
    <3>1. EnqueuePrio(list, t, pr)
          = IF Min(I) = 0 THEN Append(list, t) ELSE InsertAt(list, Min(I), t)
      BY <1>2, Zenon DEF EnqueuePrio, SelectInSeq
    <3> HIDE DEF I
    <3>2. QED
      BY <2>3, <3>1
  <2>5. \A k \in 1 .. Len(list) : k < i => pr[list[k]] <= pr[t]
    BY <2>2, <2>3
  <2>6. i \in 1 .. Len(list) + 1
    BY <2>3
  <2>7. QED
    BY <2>3, <2>4, <2>5, <2>6, Zenon
<1>3. QED
  BY <1>1, <1>2

(***************************************************************************)
(* The list a thread was put on has that thread and the others on it, once *)
(* each, and is still sorted.                                              *)
(***************************************************************************)
LEMMA EnqueueProperties ==
  ASSUME NEW list \in Seq(Thread), NEW t \in Thread, NEW pr \in [Thread -> Nat]
  PROVE  /\ EnqueuePrio(list, t, pr) \in Seq(Thread)
         /\ ToSet(EnqueuePrio(list, t, pr)) = ToSet(list) \cup {t}
         /\ t \notin ToSet(list) /\ IsInjective(list) => IsInjective(EnqueuePrio(list, t, pr))
         /\ Sorted(list, pr) => Sorted(EnqueuePrio(list, t, pr), pr)
<1>1. PICK i \in 1 .. Len(list) + 1 :
           /\ EnqueuePrio(list, t, pr) = InsertAt(list, i, t)
           /\ \A k \in 1 .. Len(list) : k < i => pr[list[k]] <= pr[t]
           /\ i <= Len(list) => pr[t] < pr[list[i]]
  BY Place
<1> DEFINE new == InsertAt(list, i, t)
<1>2. EnqueuePrio(list, t, pr) = new
  BY <1>1
<1>3. new \in Seq(Thread) /\ Len(new) = Len(list) + 1
  BY InsertAtProperties
<1>4. /\ new[i] = t
      /\ \A k \in 1 .. Len(list) : k < i => new[k] = list[k]
      /\ \A k \in 1 .. Len(list) : i <= k => new[k + 1] = list[k]
  <2>1. new[i] = t
    BY InsertAtProperties
  <2>2. ASSUME NEW k \in 1 .. Len(list)
        PROVE  /\ k < i => new[k] = list[k]
               /\ i <= k => new[k + 1] = list[k]
    BY InsertAtElement
  <2>3. QED
    BY <2>1, <2>2
<1> HIDE DEF new
<1>5. ASSUME NEW k \in 1 .. Len(list) + 1, k # i
      PROVE  \E j \in 1 .. Len(list) : list[j] = new[k] /\ j = IF k < i THEN k ELSE k - 1
  <2>1. CASE k < i
    BY <1>4, <2>1
  <2>2. CASE ~ (k < i)
    <3>1. k - 1 \in 1 .. Len(list) /\ i <= k - 1 /\ (k - 1) + 1 = k
      BY <1>5, <2>2
    <3>2. QED
      BY <1>4, <2>2, <3>1
  <2>3. QED
    BY <2>1, <2>2
<1>6. ToSet(new) = ToSet(list) \cup {t}
  <2>1. ASSUME NEW k \in 1 .. Len(list)
        PROVE  \E j \in 1 .. Len(list) + 1 : new[j] = list[k]
    <3>1. CASE k < i
      BY <1>4, <3>1
    <3>2. CASE i <= k
      BY <1>4, <3>2
    <3>3. QED
      BY <3>1, <3>2
  <2>2. DOMAIN new = 1 .. Len(list) + 1 /\ DOMAIN list = 1 .. Len(list)
    BY <1>3
  <2>3. ToSet(list) \subseteq ToSet(new)
    BY <2>1, <2>2 DEF ToSet
  <2>4. t \in ToSet(new)
    BY <1>4, <2>2 DEF ToSet
  <2>5. ToSet(new) \subseteq ToSet(list) \cup {t}
    <3>1. \A k \in 1 .. Len(list) + 1 : new[k] = t \/ \E j \in 1 .. Len(list) : list[j] = new[k]
      BY <1>4, <1>5
    <3>2. QED
      BY <2>2, <3>1 DEF ToSet
  <2>6. QED
    BY <2>3, <2>4, <2>5
<1>7. ASSUME t \notin ToSet(list), IsInjective(list)
      PROVE  IsInjective(new)
  <2>1. \A k \in 1 .. Len(list) : list[k] # t
    BY <1>7 DEF ToSet
  <2>2. \A a, b \in 1 .. Len(list) : list[a] = list[b] => a = b
    BY <1>7 DEF IsInjective
  <2>3. ASSUME NEW a \in 1 .. Len(list) + 1, NEW b \in 1 .. Len(list) + 1, new[a] = new[b]
        PROVE  a = b
    <3>1. CASE a = i \/ b = i
      BY <1>4, <1>5, <2>1, <2>3, <3>1
    <3>2. CASE a # i /\ b # i
      <4>1. PICK j \in 1 .. Len(list) : list[j] = new[a] /\ j = IF a < i THEN a ELSE a - 1
        BY <1>5, <3>2
      <4>2. PICK k \in 1 .. Len(list) : list[k] = new[b] /\ k = IF b < i THEN b ELSE b - 1
        BY <1>5, <3>2
      <4>3. j = k
        BY <2>2, <2>3, <4>1, <4>2
      <4>4. QED
        BY <3>2, <4>1, <4>2, <4>3
    <3>3. QED
      BY <3>1, <3>2
  <2>4. QED
    BY <1>3, <2>3 DEF IsInjective
<1>8. ASSUME Sorted(list, pr)
      PROVE  Sorted(new, pr)
  <2>1. \A k \in 1 .. Len(list) : i <= k => pr[t] <= pr[list[k]]
    BY <1>1, <1>8 DEF Sorted
  <2>2. ASSUME NEW a \in 1 .. Len(list) + 1, NEW b \in 1 .. Len(list) + 1, a < b
        PROVE  pr[new[a]] <= pr[new[b]]
    <3>1. CASE a = i
      <4>1. PICK k \in 1 .. Len(list) : list[k] = new[b] /\ k = IF b < i THEN b ELSE b - 1
        BY <1>5, <2>2, <3>1
      <4>2. QED
        BY <1>4, <2>1, <2>2, <3>1, <4>1
    <3>2. CASE b = i
      <4>1. PICK j \in 1 .. Len(list) : list[j] = new[a] /\ j = IF a < i THEN a ELSE a - 1
        BY <1>5, <2>2, <3>2
      <4>2. QED
        BY <1>1, <1>4, <2>2, <3>2, <4>1
    <3>3. CASE a # i /\ b # i
      <4>1. PICK j \in 1 .. Len(list) : list[j] = new[a] /\ j = IF a < i THEN a ELSE a - 1
        BY <1>5, <3>3
      <4>2. PICK k \in 1 .. Len(list) : list[k] = new[b] /\ k = IF b < i THEN b ELSE b - 1
        BY <1>5, <3>3
      <4>3. j < k
        BY <2>2, <3>3, <4>1, <4>2
      <4>4. QED
        BY <1>8, <4>1, <4>2, <4>3 DEF Sorted
    <3>4. QED
      BY <3>1, <3>2, <3>3
  <2>3. QED
    BY <1>3, <2>2 DEF Sorted
<1>9. QED
  BY <1>1, <1>2, <1>3, <1>6, <1>7, <1>8

(***************************************************************************)
(* A thread that is taken off its list is not on it any more; and if the   *)
(* others were in order, the list without it is.                           *)
(***************************************************************************)
LEMMA RemoveProperties ==
  ASSUME NEW list \in Seq(Thread), NEW t \in ToSet(list), IsInjective(list)
  PROVE  /\ RemoveFirst(list, t) \in Seq(Thread)
         /\ ToSet(RemoveFirst(list, t)) = ToSet(list) \ {t}
         /\ IsInjective(RemoveFirst(list, t))
         /\ \A pr : SortedBut(list, pr, t) => Sorted(RemoveFirst(list, t), pr)
<1> DEFINE I == {i \in 1 .. Len(list) : list[i] = t}
<1>1. I # {} /\ I \in SUBSET Nat
  BY DEF ToSet
<1>2. Min(I) \in I
  BY <1>1, Minimum
<1>3. PICK i \in 1 .. Len(list) : i = Min(I) /\ list[i] = t
  BY <1>2
<1>4. PICK new : new = RemoveAt(list, i)
  OBVIOUS
<1>5. RemoveFirst(list, t) = new
  <2>1. RemoveFirst(list, t) = RemoveAt(list, Min(I))
    BY <1>1, Zenon DEF RemoveFirst, SelectInSeq
  <2> HIDE DEF I
  <2>2. QED
    BY <1>3, <1>4, <2>1
<1> HIDE DEF I
<1>6. new \in Seq(Thread) /\ Len(new) = Len(list) - 1
  BY <1>4, RemoveAtProperties
<1>7. \A k \in 1 .. Len(list) - 1 : new[k] = IF k < i THEN list[k] ELSE list[k + 1]
  BY <1>4, RemoveAtProperties
<1>8. \A a, b \in 1 .. Len(list) : list[a] = list[b] => a = b
  BY DEF IsInjective
<1>9. ToSet(new) = ToSet(list) \ {t}
  <2>1. ASSUME NEW k \in 1 .. Len(list), list[k] # t
        PROVE  list[k] \in ToSet(new)
    <3>1. CASE k < i
      BY <1>6, <1>7, <3>1 DEF ToSet
    <3>2. CASE i <= k
      <4>1. k # i
        BY <1>3, <2>1
      <4>2. k - 1 \in 1 .. Len(list) - 1 /\ ~ (k - 1 < i) /\ (k - 1) + 1 = k
        BY <3>2, <4>1
      <4>3. new[k - 1] = list[k]
        BY <1>7, <4>2
      <4>4. QED
        BY <1>6, <4>2, <4>3 DEF ToSet
    <3>3. QED
      BY <3>1, <3>2
  <2>2. ASSUME NEW k \in 1 .. Len(list) - 1
        PROVE  new[k] \in ToSet(list) \ {t}
    BY <1>3, <1>7, <1>8 DEF ToSet
  <2>3. QED
    BY <1>6, <2>1, <2>2 DEF ToSet
<1>10. IsInjective(new)
  <2>1. ASSUME NEW a \in 1 .. Len(list) - 1, NEW b \in 1 .. Len(list) - 1, new[a] = new[b]
        PROVE  a = b
    BY <1>7, <1>8, <2>1
  <2>2. QED
    BY <1>6, <2>1 DEF IsInjective
<1>11. ASSUME NEW pr, SortedBut(list, pr, t)
       PROVE  Sorted(new, pr)
  <2>1. ASSUME NEW a \in 1 .. Len(list) - 1, NEW b \in 1 .. Len(list) - 1, a < b
        PROVE  pr[new[a]] <= pr[new[b]]
    BY <1>3, <1>7, <1>8, <1>11, <2>1 DEF SortedBut
  <2>2. QED
    BY <1>6, <2>1 DEF Sorted
<1>12. QED
  BY <1>5, <1>6, <1>9, <1>10, <1>11

\* The first thread of a list and the list without it.
LEMMA FirstAndRest ==
  ASSUME NEW list \in Seq(Thread), list # <<>>, IsInjective(list)
  PROVE  /\ Head(list) \in Thread /\ Head(list) \in ToSet(list)
         /\ Tail(list) \in Seq(Thread)
         /\ ToSet(Tail(list)) = ToSet(list) \ {Head(list)}
         /\ IsInjective(Tail(list))
<1>1. /\ Tail(list) \in Seq(Thread) /\ Len(Tail(list)) = Len(list) - 1
      /\ \A i \in 1 .. Len(list) - 1 : Tail(list)[i] = list[i + 1]
  BY HeadTailProperties
<1>2. Head(list) = list[1] /\ Len(list) \in Nat \ {0} /\ list[1] \in Thread
  OBVIOUS
<1>3. \A a, b \in 1 .. Len(list) : list[a] = list[b] => a = b
  BY DEF IsInjective
<1>4. DOMAIN list = 1 .. Len(list) /\ DOMAIN Tail(list) = 1 .. Len(list) - 1
  BY <1>1
<1>5. ToSet(Tail(list)) = ToSet(list) \ {Head(list)}
  <2>1. ASSUME NEW i \in 1 .. Len(list) - 1
        PROVE  Tail(list)[i] \in ToSet(list) \ {Head(list)}
    BY <1>1, <1>2, <1>3, <1>4 DEF ToSet
  <2>2. ASSUME NEW i \in 1 .. Len(list), list[i] # list[1]
        PROVE  \E j \in 1 .. Len(list) - 1 : Tail(list)[j] = list[i]
    <3>1. i - 1 \in 1 .. Len(list) - 1 /\ (i - 1) + 1 = i
      BY <2>2
    <3>2. Tail(list)[i - 1] = list[i]
      BY <1>1, <3>1
    <3>3. QED
      BY <3>1, <3>2
  <2>3. ToSet(Tail(list)) \subseteq ToSet(list) \ {Head(list)}
    BY <1>4, <2>1 DEF ToSet
  <2>4. ASSUME NEW t \in ToSet(list), t # Head(list)
        PROVE  t \in ToSet(Tail(list))
    <3>1. PICK i \in 1 .. Len(list) : t = list[i]
      BY <1>4 DEF ToSet
    <3>2. PICK j \in 1 .. Len(list) - 1 : Tail(list)[j] = list[i]
      BY <1>2, <2>2, <2>4, <3>1
    <3>3. QED
      BY <1>4, <3>1, <3>2 DEF ToSet
  <2>5. QED
    BY <2>3, <2>4
<1>6. IsInjective(Tail(list))
  BY <1>1, <1>3, <1>4 DEF IsInjective
<1>7. QED
  BY <1>1, <1>2, <1>4, <1>5, <1>6 DEF ToSet

\* The first thread of a sorted list is the most urgent, and the rest is
\* sorted.
LEMMA SortedRest ==
  ASSUME NEW list \in Seq(Thread), list # <<>>, NEW pr, Sorted(list, pr),
         pr \in [Thread -> Nat]
  PROVE  /\ Sorted(Tail(list), pr)
         /\ \A t \in ToSet(list) : pr[Head(list)] <= pr[t]
<1>1. /\ Tail(list) \in Seq(Thread) /\ Len(Tail(list)) = Len(list) - 1
      /\ \A i \in 1 .. Len(list) - 1 : Tail(list)[i] = list[i + 1]
  BY HeadTailProperties
<1>2. Head(list) = list[1] /\ Len(list) \in Nat \ {0} /\ list[1] \in Thread
  OBVIOUS
<1>3. Sorted(Tail(list), pr)
  <2>1. ASSUME NEW i \in 1 .. Len(list) - 1, NEW j \in 1 .. Len(list) - 1, i < j
        PROVE  pr[Tail(list)[i]] <= pr[Tail(list)[j]]
    BY <1>1, <2>1 DEF Sorted
  <2>2. QED
    BY <1>1, <2>1 DEF Sorted
<1>4. ASSUME NEW i \in 1 .. Len(list)
      PROVE  pr[list[1]] <= pr[list[i]]
  <2>1. CASE i = 1
    BY <1>2, <2>1
  <2>2. CASE i > 1
    BY <1>2, <2>2 DEF Sorted
  <2>3. QED
    BY <2>1, <2>2
<1>5. QED
  BY <1>2, <1>3, <1>4 DEF ToSet

\* What _mutex_update_priority reads bounds the priorities of all waiters.
LEMMA FirstIsMostUrgent ==
  ASSUME NEW list \in Seq(Thread), NEW pr \in [Thread -> Nat], Sorted(list, pr)
  PROVE  /\ HeadPriority(list, pr) \in Nat
         /\ \A t \in ToSet(list) : HeadPriority(list, pr) <= pr[t]
<1>1. CASE list = <<>>
  BY <1>1, MutexAssumption DEF HeadPriority, ToSet
<1>2. CASE list # <<>>
  <2>1. Head(list) \in Thread
    BY <1>2
  <2>2. QED
    BY <1>2, <2>1, SortedRest DEF HeadPriority
<1>3. QED
  BY <1>1, <1>2

\* A list is sorted if only a thread that is not on it may be out of order.
LEMMA UnsortedElsewhere ==
  ASSUME NEW list \in Seq(Thread), NEW t, t \notin ToSet(list), NEW pr, SortedBut(list, pr, t)
  PROVE  Sorted(list, pr)
BY DEF Sorted, SortedBut, ToSet

\* _thread_get_mutex_priority: at least as urgent as the thread itself and as
\* every mutex it has taken.
LEMMA MutexPriorityBounds ==
  ASSUME NEW t \in Thread, NEW taken \in SUBSET Mutex, NEW mp \in [Mutex -> Nat]
  PROVE  /\ MutexPriority(t, taken, mp) \in Nat
         /\ MutexPriority(t, taken, mp) <= InitPriority[t]
         /\ \A m \in taken : MutexPriority(t, taken, mp) <= mp[m]
<1> DEFINE P == {InitPriority[t]} \cup {mp[m] : m \in taken}
<1>1. P \in SUBSET Nat /\ P # {}
  BY PriorityAssumption
<1>2. Min(P) \in P /\ \A k \in P : Min(P) <= k
  BY <1>1, Minimum
<1>3. MutexPriority(t, taken, mp) = Min(P)
  BY Zenon DEF MutexPriority
<1>4. InitPriority[t] \in P /\ \A m \in taken : mp[m] \in P
  OBVIOUS
<1> HIDE DEF P
<1>5. QED
  BY <1>1, <1>2, <1>3, <1>4

\* A list a thread is put at the end of, as the semaphore does.
LEMMA Appended ==
  ASSUME NEW list \in Seq(Thread), NEW t \in Thread
  PROVE  /\ Append(list, t) \in Seq(Thread)
         /\ ToSet(Append(list, t)) = ToSet(list) \cup {t}
         /\ t \notin ToSet(list) /\ IsInjective(list) => IsInjective(Append(list, t))
BY DEF ToSet, IsInjective

-----------------------------------------------------------------------------
\* The loop of _thread_update_priority.

\* f lists N turns of the function step, from start on.
Iterates(f, S, step, start, N) ==
  /\ f \in [0 .. N -> S]
  /\ f = [n \in 0 .. N |-> IF n = 0 THEN start ELSE step[f[n - 1]]]

(***************************************************************************)
(* A loop has a list of its turns. This is what lets a proof speak of the  *)
(* recursive function in UpdatePriority.                                   *)
(***************************************************************************)
LEMMA Iterated ==
  ASSUME NEW S, NEW step \in [S -> S], NEW start \in S, NEW N \in Nat
  PROVE  \E f : Iterates(f, S, step, start, N)
<1> DEFINE Upto(n) == {f \in [0 .. n -> S] :
                         f[0] = start /\ \A k \in 1 .. n : f[k] = step[f[k - 1]]}
           Long == {n \in Nat : Upto(n) # {}}
<1>1. 0 \in Long
  <2>1. [k \in 0 .. 0 |-> start] \in Upto(0)
    OBVIOUS
  <2>2. QED
    BY <2>1
<1>2. ASSUME NEW n \in Nat, n \in Long
      PROVE  n + 1 \in Long
  <2>1. PICK f \in [0 .. n -> S] :
          f[0] = start /\ \A k \in 1 .. n : f[k] = step[f[k - 1]]
    BY <1>2
  <2>2. PICK g : g = [k \in 0 .. n + 1 |-> IF k <= n THEN f[k] ELSE step[f[n]]]
    OBVIOUS
  <2>3. g \in [0 .. n + 1 -> S]
    BY <2>2
  <2>4. g[0] = start
    BY <2>1, <2>2
  <2>5. ASSUME NEW k \in 1 .. n + 1
        PROVE  g[k] = step[g[k - 1]]
    <3>1. CASE k <= n
      BY <2>1, <2>2, <3>1
    <3>2. CASE k = n + 1
      BY <2>2, <3>2
    <3>3. QED
      BY <3>1, <3>2
  <2>6. g \in Upto(n + 1)
    BY <2>3, <2>4, <2>5
  <2>7. QED
    BY <2>6
<1>3. N \in Long
  <2> HIDE DEF Long
  <2>1. Nat \subseteq Long
    BY <1>1, <1>2, Induction
  <2>2. QED
    BY <2>1
<1>4. PICK f \in [0 .. N -> S] :
        f[0] = start /\ \A k \in 1 .. N : f[k] = step[f[k - 1]]
  BY <1>3
<1>5. f = [n \in 0 .. N |-> IF n = 0 THEN start ELSE step[f[n - 1]]]
  BY <1>4
<1>6. QED
  BY <1>5 DEF Iterates

-----------------------------------------------------------------------------
\* The condition of the loop in _thread_update_priority.
Pending(s) ==
  s.thread # NoThread /\ stat[s.thread] = "suspended" /\ call[s.thread] \in Mutex

(***************************************************************************)
(* The invariant of that loop. The lists keep their threads (w are the     *)
(* lists it began with) and only the thread whose priority was just        *)
(* changed may be out of order or more urgent than its mutex; every owner  *)
(* is as urgent as its mutex is; and that thread owns a mutex no smaller   *)
(* than m, the one the loop began at.                                      *)
(***************************************************************************)
Walk(w, m) ==
  {s \in [thread : Thread \cup {NoThread}, prio : [Thread -> Nat],
          waiters : [Mutex -> Seq(Thread)], mprio : [Mutex -> Nat]] :
     /\ \A k \in Mutex : ToSet(s.waiters[k]) = ToSet(w[k]) /\ IsInjective(s.waiters[k])
     /\ \A t \in Thread : s.prio[t] <= InitPriority[t]
     /\ \A k \in Mutex : SortedBut(s.waiters[k], s.prio, s.thread)
     /\ \A k \in Mutex : \A t \in ToSet(w[k]) : t # s.thread => s.mprio[k] <= s.prio[t]
     /\ \A k \in Mutex : owner[k] # NoThread => s.prio[owner[k]] <= s.mprio[k]
     /\ s.thread # NoThread => \E k \in Taken(s.thread) : m <= k}

(***************************************************************************)
(* What the loop relies on: who waits is on the list of what it waits for. *)
(* The one exception is a thread that is on a list before it is suspended, *)
(* as in rt_mutex_take; the loop cannot come to it, for it owns nothing    *)
(* from m on.                                                              *)
(***************************************************************************)
Placed(w, m) ==
  \A k \in Mutex, t \in Thread :
    /\ t \in ToSet(w[k]) =>
         (stat[t] = "suspended" /\ call[t] = k) \/ \A j \in Taken(t) : ~ (m <= j)
    /\ stat[t] = "suspended" /\ call[t] = k => t \in ToSet(w[k])

\* Threads nest the mutexes in their order: who waits for one owns only
\* smaller ones; and somebody owns what is waited for.
Nested ==
  \A t \in Thread : stat[t] = "suspended" /\ call[t] \in Mutex =>
    owner[call[t]] # NoThread /\ \A k \in Taken(t) : k < call[t]

\* One turn of the loop keeps its invariant.
LEMMA OwnerUpdated ==
  ASSUME owner \in [Mutex -> Thread \cup {NoThread}], Nested,
         NEW w, NEW m \in Mutex, Placed(w, m), NEW s \in Walk(w, m), Pending(s)
  PROVE  UpdateOwner(s) \in Walk(w, m)
<1>1. PICK x \in Thread : x = s.thread /\ stat[x] = "suspended" /\ call[x] \in Mutex
  BY DEF Pending, Walk
<1>2. PICK c \in Mutex : c = call[x]
  BY <1>1
<1>3. PICK o \in Thread : o = owner[c]
  BY <1>1, <1>2 DEF Nested
<1>4. PICK list, mp, p, pr :
        /\ list = EnqueuePrio(RemoveFirst(s.waiters[c], x), x, s.prio)
        /\ mp = [s.mprio EXCEPT ![c] = HeadPriority(list, s.prio)]
        /\ p = MutexPriority(o, Taken(o), mp)
        /\ pr = [s.prio EXCEPT ![o] = p]
  OBVIOUS
<1>5. PICK y : y = IF p = s.prio[o] THEN NoThread ELSE o
  OBVIOUS
<1>6. UpdateOwner(s) = [thread |-> y, prio |-> pr,
                        waiters |-> [s.waiters EXCEPT ![c] = list], mprio |-> mp]
  BY <1>1, <1>2, <1>3, <1>4, <1>5, Zenon DEF UpdateOwner
<1>7. /\ s.prio \in [Thread -> Nat] /\ s.waiters \in [Mutex -> Seq(Thread)]
      /\ s.mprio \in [Mutex -> Nat]
  BY DEF Walk
<1>8. x \in ToSet(s.waiters[c])
  BY <1>1, <1>2 DEF Placed, Walk
<1>9. \A k \in Mutex : k # c => x \notin ToSet(s.waiters[k])
  BY <1>1, <1>2, MutexAssumption DEF Placed, Walk
<1>10. /\ list \in Seq(Thread) /\ ToSet(list) = ToSet(w[c])
       /\ IsInjective(list) /\ Sorted(list, s.prio)
  <2>1. PICK rest : rest = RemoveFirst(s.waiters[c], x)
    OBVIOUS
  <2>2. /\ IsInjective(s.waiters[c]) /\ SortedBut(s.waiters[c], s.prio, x)
        /\ ToSet(s.waiters[c]) = ToSet(w[c])
    BY <1>1 DEF Walk
  <2>3. /\ rest \in Seq(Thread) /\ ToSet(rest) = ToSet(w[c]) \ {x}
        /\ IsInjective(rest) /\ Sorted(rest, s.prio)
    BY <1>7, <1>8, <2>1, <2>2, RemoveProperties
  <2>4. list = EnqueuePrio(rest, x, s.prio) /\ x \notin ToSet(rest)
    BY <1>4, <2>1, <2>3
  <2>5. /\ list \in Seq(Thread) /\ ToSet(list) = ToSet(rest) \cup {x}
        /\ IsInjective(list) /\ Sorted(list, s.prio)
    BY <1>7, <2>3, <2>4, EnqueueProperties
  <2>6. QED
    BY <1>8, <2>2, <2>3, <2>5
<1>11. /\ HeadPriority(list, s.prio) \in Nat
       /\ \A t \in ToSet(list) : HeadPriority(list, s.prio) <= s.prio[t]
  BY <1>7, <1>10, FirstIsMostUrgent
<1>12. mp \in [Mutex -> Nat]
  BY <1>4, <1>7, <1>11
<1>13. p \in Nat /\ p <= InitPriority[o] /\ \A k \in Taken(o) : p <= mp[k]
  BY <1>4, <1>12, MutexPriorityBounds DEF Taken
<1>14. pr \in [Thread -> Nat] /\ pr[o] = p /\ \A t \in Thread : t # o => pr[t] = s.prio[t]
  BY <1>4, <1>7, <1>13
<1>15. y = NoThread => pr = s.prio
  BY <1>4, <1>5, <1>7, <1>14, MutexAssumption
<1>16. ASSUME NEW t \in Thread, t # y
       PROVE  pr[t] = s.prio[t]
  BY <1>5, <1>14, <1>15, <1>16
<1>17. PICK z : z = UpdateOwner(s)
  OBVIOUS
<1>18. /\ z \in [thread : Thread \cup {NoThread}, prio : [Thread -> Nat],
                 waiters : [Mutex -> Seq(Thread)], mprio : [Mutex -> Nat]]
       /\ z.thread = y /\ z.prio = pr /\ z.mprio = mp
       /\ \A k \in Mutex : z.waiters[k] = IF k = c THEN list ELSE s.waiters[k]
  BY <1>5, <1>6, <1>7, <1>10, <1>12, <1>14, <1>17, SMTT(30)
<1>19. \A k \in Mutex : ToSet(z.waiters[k]) = ToSet(w[k]) /\ IsInjective(z.waiters[k])
  BY <1>10, <1>18 DEF Walk
<1>20. \A t \in Thread : z.prio[t] <= InitPriority[t]
  BY <1>13, <1>14, <1>18 DEF Walk
<1>21. ASSUME NEW k \in Mutex
       PROVE  SortedBut(z.waiters[k], z.prio, z.thread)
  <2>1. z.waiters[k] \in Seq(Thread) /\ Sorted(z.waiters[k], s.prio)
    <3>1. CASE k = c
      BY <1>10, <1>18, <3>1
    <3>2. CASE k # c
      <4>1. SortedBut(s.waiters[k], s.prio, x) /\ x \notin ToSet(s.waiters[k])
        BY <1>1, <1>9, <3>2 DEF Walk
      <4>2. QED
        BY <1>7, <1>18, <3>2, <4>1, UnsortedElsewhere
    <3>3. QED
      BY <3>1, <3>2
  <2>2. PICK q : q = z.waiters[k]
    OBVIOUS
  <2>3. ASSUME NEW i \in 1 .. Len(q), NEW j \in 1 .. Len(q), i < j, q[i] # y, q[j] # y
        PROVE  pr[q[i]] <= pr[q[j]]
    <3>1. q[i] \in Thread /\ q[j] \in Thread
      BY <2>1, <2>2
    <3>2. pr[q[i]] = s.prio[q[i]] /\ pr[q[j]] = s.prio[q[j]]
      BY <1>16, <2>3, <3>1
    <3>3. QED
      BY <2>1, <2>2, <2>3, <3>2 DEF Sorted
  <2>4. QED
    BY <1>18, <2>2, <2>3 DEF SortedBut
<1>22. ASSUME NEW k \in Mutex, NEW t \in ToSet(w[k]), t # z.thread
       PROVE  z.mprio[k] <= z.prio[t]
  <2>1. t \in Thread
    <3>1. PICK q \in Seq(Thread) : ToSet(q) = ToSet(w[k])
      BY <1>18, <1>19
    <3>2. t \in ToSet(q)
      BY <1>22, <3>1
    <3>3. QED
      BY <3>2 DEF ToSet
  <2>2. pr[t] = s.prio[t]
    BY <1>16, <1>18, <1>22, <2>1
  <2>3. CASE k = c
    BY <1>4, <1>7, <1>10, <1>11, <1>18, <2>2, <2>3
  <2>4. CASE k # c
    <3>1. t # x
      BY <1>9, <2>4 DEF Walk
    <3>2. s.mprio[k] <= s.prio[t]
      BY <1>1, <3>1 DEF Walk
    <3>3. QED
      BY <1>4, <1>7, <1>18, <2>2, <2>4, <3>2
  <2>5. QED
    BY <2>3, <2>4
<1>23. ASSUME NEW k \in Mutex, owner[k] # NoThread
       PROVE  z.prio[owner[k]] <= z.mprio[k]
  <2>1. CASE owner[k] = o
    BY <1>13, <1>14, <1>18, <2>1 DEF Taken
  <2>2. CASE owner[k] # o
    <3>1. s.prio[owner[k]] <= s.mprio[k]
      BY <1>23 DEF Walk
    <3>2. k # c /\ owner[k] \in Thread
      BY <1>3, <1>23, <2>2
    <3>3. QED
      BY <1>4, <1>7, <1>14, <1>18, <2>2, <3>1, <3>2
  <2>3. QED
    BY <2>1, <2>2
<1>24. ASSUME z.thread # NoThread
       PROVE  \E k \in Taken(z.thread) : m <= k
  <2>1. PICK j \in Mutex : owner[j] = x /\ m <= j
    BY <1>1, MutexAssumption DEF Walk, Taken
  <2>2. j < c
    BY <1>1, <1>2, <2>1 DEF Nested, Taken
  <2>3. m <= c
    BY <2>1, <2>2, MutexAssumption
  <2>4. z.thread = o
    BY <1>5, <1>18, <1>24
  <2>5. QED
    BY <1>3, <2>3, <2>4 DEF Taken
<1>25. QED
  BY <1>17, <1>18, <1>19, <1>20, <1>21, <1>22, <1>23, <1>24 DEF Walk

LEMMA TurnKeeps ==
  ASSUME owner \in [Mutex -> Thread \cup {NoThread}], Nested,
         NEW w, NEW m \in Mutex, Placed(w, m), NEW s \in Walk(w, m)
  PROVE  UpdateTurn(s) \in Walk(w, m)
BY OwnerUpdated DEF UpdateTurn, Pending

\* The mutexes the loop has passed; each turn adds one.
Ahead(s) == {k \in Mutex : k < call[s.thread]}

LEMMA AheadGrows ==
  ASSUME owner \in [Mutex -> Thread \cup {NoThread}], Nested,
         NEW w, NEW m \in Mutex, Placed(w, m), NEW s \in Walk(w, m),
         Pending(UpdateTurn(s))
  PROVE  Pending(s) /\ Cardinality(Ahead(s)) + 1 <= Cardinality(Ahead(UpdateTurn(s)))
<1>1. Pending(s)
  BY DEF UpdateTurn, Pending
<1>2. UpdateTurn(s) = UpdateOwner(s)
  BY <1>1 DEF UpdateTurn, Pending
<1>3. PICK c \in Mutex : c = call[s.thread]
  BY <1>1 DEF Pending
<1>4. PICK y : y = UpdateOwner(s).thread
  OBVIOUS
<1>5. y # NoThread /\ stat[y] = "suspended" /\ call[y] \in Mutex
  BY <1>2, <1>4 DEF Pending
<1>6. y = owner[c]
  BY <1>3, <1>4, <1>5 DEF UpdateOwner
<1>7. c < call[y]
  BY <1>5, <1>6 DEF Nested, Taken
<1>8. Ahead(UpdateTurn(s)) = {k \in Mutex : k < call[y]} /\ Ahead(s) = {k \in Mutex : k < c}
  BY <1>2, <1>3, <1>4 DEF Ahead
<1>9. Ahead(s) \cup {c} \subseteq Ahead(UpdateTurn(s)) /\ c \notin Ahead(s)
  <2>1. c \in Nat /\ call[y] \in Nat /\ \A k \in Mutex : k \in Nat
    BY <1>5, MutexAssumption
  <2>2. ~ (c < c) /\ \A k \in Mutex : k < c => k < call[y]
    BY <1>7, <2>1
  <2>3. QED
    BY <1>7, <1>8, <2>2
<1>10. IsFiniteSet(Ahead(s)) /\ IsFiniteSet(Ahead(UpdateTurn(s)))
  BY <1>8, MutexAssumption, FS_Subset
<1>11. Cardinality(Ahead(s) \cup {c}) = Cardinality(Ahead(s)) + 1
  BY <1>9, <1>10, FS_AddElement
<1>12. Cardinality(Ahead(s) \cup {c}) <= Cardinality(Ahead(UpdateTurn(s)))
  BY <1>9, <1>10, FS_Subset
<1>13. QED
  BY <1>1, <1>11, <1>12

LEMMA NotAllAhead ==
  ASSUME NEW s, Pending(s)
  PROVE  Cardinality(Ahead(s)) \in Nat /\ Cardinality(Ahead(s)) < Cardinality(Mutex)
<1>1. call[s.thread] \in Mutex /\ call[s.thread] \notin Ahead(s) /\ Ahead(s) \in SUBSET Mutex
  <2>1. \A c \in Mutex : ~ (c < c)
    BY MutexAssumption
  <2>2. QED
    BY <2>1 DEF Pending, Ahead
<1>2. /\ Cardinality(Ahead(s)) <= Cardinality(Mutex)
      /\ Cardinality(Mutex) = Cardinality(Ahead(s)) => Mutex = Ahead(s)
      /\ IsFiniteSet(Ahead(s))
  BY <1>1, MutexAssumption, FS_Subset
<1>3. Cardinality(Ahead(s)) \in Nat /\ Cardinality(Mutex) \in Nat
  BY <1>2, MutexAssumption, FS_CardinalityType
<1>4. QED
  BY <1>1, <1>2, <1>3

\* The state in which the loop starts.
Started(t, p, w, mp) ==
  [thread |-> t, prio |-> [prio EXCEPT ![t] = p], waiters |-> w, mprio |-> mp]

(***************************************************************************)
(* The loop of _thread_update_priority ends within as many turns as there  *)
(* are mutexes, with whatever its turns keep: the bound in UpdatePriority  *)
(* cuts nothing off.                                                       *)
(***************************************************************************)
LEMMA UpdateSettles ==
  ASSUME owner \in [Mutex -> Thread \cup {NoThread}], Nested,
         NEW w, NEW m \in Mutex, Placed(w, m), NEW t, NEW p, NEW mp,
         NEW W \in SUBSET Walk(w, m), \A s \in W : UpdateTurn(s) \in W,
         Started(t, p, w, mp) \in W
  PROVE  UpdatePriority(t, p, w, mp) \in W /\ ~ Pending(UpdatePriority(t, p, w, mp))
<1> DEFINE N == Cardinality(Mutex)
           start == Started(t, p, w, mp)
           Turns(f) == f = [n \in 0 .. N |-> IF n = 0 THEN start ELSE UpdateTurn(f[n - 1])]
<1>1. N \in Nat
  BY MutexAssumption, FS_CardinalityType
<1>2. PICK step : step = [s \in W |-> UpdateTurn(s)]
  OBVIOUS
<1>3. step \in [W -> W]
  BY <1>2
<1>4. PICK f : Iterates(f, W, step, start, N)
  <2> HIDE DEF start, N
  <2>1. start \in W
    BY DEF start
  <2>2. QED
    BY <1>1, <1>3, <2>1, Iterated, Zenon
<1>5. Turns(f)
  <2> HIDE DEF start, N
  <2>1. ASSUME NEW n \in 0 .. N, n # 0
        PROVE  step[f[n - 1]] = UpdateTurn(f[n - 1])
    <3>1. n - 1 \in 0 .. N
      BY <1>1, <2>1
    <3>2. f[n - 1] \in W
      BY <1>4, <3>1 DEF Iterates
    <3>3. QED
      BY <1>2, <3>2
  <2>2. QED
    BY <1>4, <2>1 DEF Iterates
<1>6. PICK g : Turns(g) /\ UpdatePriority(t, p, w, mp) = g[N]
  <2> DEFINE after == CHOOSE a : Turns(a)
  <2>1. Turns(after)
    BY <1>5
  <2>2. UpdatePriority(t, p, w, mp) = after[N]
    BY DEF UpdatePriority, Started
  <2> HIDE DEF after, Turns
  <2>3. QED
    BY <2>1, <2>2
<1> DEFINE Fine == {n \in Nat : n <= N =>
                     /\ g[n] \in W
                     /\ Pending(g[n]) => n <= Cardinality(Ahead(g[n]))}
<1> HIDE DEF start, N
<1>7. 0 \in Fine
  <2>1. g[0] = start
    BY <1>1, <1>6
  <2>2. Pending(g[0]) => 0 <= Cardinality(Ahead(g[0]))
    BY NotAllAhead
  <2>3. QED
    BY <2>1, <2>2 DEF start
<1>8. ASSUME NEW n \in Nat, n \in Fine
      PROVE  n + 1 \in Fine
  <2> SUFFICES ASSUME n + 1 <= N
               PROVE  /\ g[n + 1] \in W
                      /\ Pending(g[n + 1]) => n + 1 <= Cardinality(Ahead(g[n + 1]))
    BY <1>8
  <2>1. g[n] \in W /\ (Pending(g[n]) => n <= Cardinality(Ahead(g[n])))
    BY <1>1, <1>8
  <2>2. n + 1 \in 0 .. N /\ n + 1 # 0 /\ (n + 1) - 1 = n
    BY <1>1
  <2>3. g[n + 1] = UpdateTurn(g[n])
    BY <1>6, <2>2
  <2>4. g[n + 1] \in W
    BY <2>1, <2>3
  <2>5. ASSUME Pending(g[n + 1])
        PROVE  n + 1 <= Cardinality(Ahead(g[n + 1]))
    <3>1. Pending(g[n]) /\ Cardinality(Ahead(g[n])) + 1 <= Cardinality(Ahead(g[n + 1]))
      BY <2>1, <2>3, <2>5, AheadGrows
    <3>2. Cardinality(Ahead(g[n])) \in Nat /\ Cardinality(Ahead(g[n + 1])) \in Nat
      BY <2>5, <3>1, NotAllAhead
    <3>3. QED
      BY <2>1, <3>1, <3>2
  <2>6. QED
    BY <2>4, <2>5
<1>9. N \in Fine
  <2> HIDE DEF Fine
  <2>1. Nat \subseteq Fine
    BY <1>7, <1>8, Induction
  <2>2. QED
    BY <1>1, <2>1
<1>10. g[N] \in W /\ (Pending(g[N]) => N <= Cardinality(Ahead(g[N])))
  BY <1>1, <1>9
<1>11. ~ Pending(g[N])
  BY <1>1, <1>10, NotAllAhead DEF N
<1>12. QED
  BY <1>6, <1>10, <1>11

-----------------------------------------------------------------------------
\* The invariant of the mutexes, and the steps that keep it.

\* Who is suspended is on the list of what it waits for, and nobody else is.
Listed ==
  /\ \A m \in Mutex, t \in Thread :
       t \in ToSet(waiters[m]) <=> stat[t] = "suspended" /\ call[t] = m
  /\ \A t \in Thread :
       t \in ToSet(sleepers) <=> stat[t] = "suspended" /\ call[t] = Semaphore

\* No thread is on a list twice.
Single == (\A m \in Mutex : IsInjective(waiters[m])) /\ IsInjective(sleepers)

\* What the error field and the tokens mean while a thread sleeps.
Reasons ==
  \A t \in Thread :
    /\ stat[t] = "suspended" /\ call[t] \in Mutex => error[t] = "RT_EOK"
    /\ stat[t] = "suspended" /\ call[t] = Semaphore => error[t] # "RT_EOK"
    /\ t \in given => stat[t] = "ready" /\ call[t] = Semaphore
    /\ stat[t] = "suspended" => call[t] # NoCall

\* A boost makes a thread more urgent than it was created, never less.
Within == \A t \in Thread : prio[t] <= InitPriority[t]

\* The lists stay sorted, although priorities change after threads are
\* listed.
InOrder == \A m \in Mutex : Sorted(waiters[m], prio)

\* A mutex is at least as urgent as everybody who waits for it.
HeadBound == \A m \in Mutex : \A t \in ToSet(waiters[m]) : mprio[m] <= prio[t]

\* Its owner is at least as urgent as the mutex.
OwnerBound == \A m \in Mutex : owner[m] # NoThread => prio[owner[m]] <= mprio[m]

(***************************************************************************)
(* The two halves of the inductive invariant: who is on which list and     *)
(* why, and how urgent.                                                    *)
(***************************************************************************)
Queues == TypeOK /\ Listed /\ Single /\ Nested /\ Reasons /\ ErrorTellsOutcome
Priorities == Within /\ InOrder /\ HeadBound /\ OwnerBound

LEMMA SamePriorities ==
  ASSUME Priorities, UNCHANGED <<prio, mprio, owner, waiters>>
  PROVE  Priorities'
BY DEF Priorities, Within, InOrder, HeadBound, OwnerBound, Sorted

LEMMA ListType ==
  ASSUME NEW list \in Seq(Thread)
  PROVE  ToSet(list) \subseteq Thread
BY DEF ToSet

LEMMA Types ==
  ASSUME Queues
  PROVE  /\ stat \in [Thread -> {"ready", "suspended"}]
         /\ prio \in [Thread -> Nat]
         /\ timer \in [Thread -> {"off", "armed"}]
         /\ error \in [Thread -> {"RT_EOK", "RT_EINTR", "RT_ETIMEOUT"}]
         /\ owner \in [Mutex -> Thread \cup {NoThread}]
         /\ hold \in [Mutex -> 0 .. RT_MUTEX_HOLD_MAX]
         /\ mprio \in [Mutex -> Nat]
         /\ waiters \in [Mutex -> Seq(Thread)]
         /\ value \in 0 .. RT_SEM_VALUE_MAX
         /\ sleepers \in Seq(Thread)
         /\ given \subseteq Thread
         /\ call \in [Thread -> Mutex \cup {Semaphore, NoCall}]
BY DEF Queues, TypeOK, SchedTypeOK, MutexTypeOK, SemTypeOK

-----------------------------------------------------------------------------
\* The steps of rt_sem_take and rt_sem_release.
LEMMA SemTakeKeeps ==
  ASSUME Queues, NEW t \in Thread, SemTake(t)
  PROVE  Queues'
<1>1. TypeOK'
  BY SemAssumption DEF Queues, TypeOK, SchedTypeOK, MutexTypeOK, SemTypeOK,
     SemTake, SemAvailable, schedVars, mutexVars
<1>2. (Listed /\ Single /\ Nested /\ Reasons /\ ErrorTellsOutcome)'
  BY DEF Queues, Listed, Single, Nested, Reasons, ErrorTellsOutcome, Taken,
     SemTake, SemAvailable, schedVars, mutexVars
<1>3. QED
  BY <1>1, <1>2 DEF Queues

LEMMA SemWaitKeeps ==
  ASSUME Queues, NEW t \in Thread, NEW timed \in BOOLEAN, SemWait(t, timed)
  PROVE  Queues'
<1> USE SemaphoreAssumption, Types
<1> USE DEF SemWait, SemSleep, Suspend, mutexVars, Runs
<1>1. TypeOK'
  <2>1. sleepers' \in Seq(Thread)
    BY Appended
  <2>2. QED
    BY <2>1 DEF TypeOK, SchedTypeOK, MutexTypeOK, SemTypeOK
<1>2. t \notin ToSet(sleepers) /\ \A m \in Mutex : t \notin ToSet(waiters[m])
  BY DEF Queues, Listed
<1>3. ToSet(sleepers') = ToSet(sleepers) \cup {t} /\ IsInjective(sleepers')
  BY <1>2, Appended DEF Queues, Single
<1>4. Listed'
  BY <1>2, <1>3 DEF Queues, Listed
<1>5. Single'
  BY <1>3 DEF Queues, Single
<1>6. Nested'
  BY DEF Queues, Nested, Taken
<1>7. Reasons' /\ ErrorTellsOutcome'
  BY DEF Queues, Reasons, ErrorTellsOutcome
<1>8. QED
  BY <1>1, <1>4, <1>5, <1>6, <1>7 DEF Queues

\* A call returns, while the mutexes may get their lists sorted anew.
LEMMA ReturnKeeps ==
  ASSUME Queues, NEW t \in Thread, stat[t] = "ready", Return(t),
         given' = given \ {t} \/ (given' = given /\ call[t] \in Mutex),
         UNCHANGED <<stat, owner, sleepers>>,
         \A m \in Mutex : ToSet(waiters'[m]) = ToSet(waiters[m]) /\ IsInjective(waiters'[m])
  PROVE  (Listed /\ Single /\ Nested /\ Reasons /\ ErrorTellsOutcome)'
<1> USE SemaphoreAssumption, MutexAssumption, Types
<1> USE DEF Return
<1>1. Listed'
  BY DEF Queues, Listed
<1>2. Single'
  BY DEF Queues, Single
<1>3. Nested'
  BY DEF Queues, Nested, Taken
<1>4. Reasons'
  BY DEF Queues, Reasons
<1>5. ErrorTellsOutcome'
  BY DEF Queues, ErrorTellsOutcome
<1>6. QED
  BY <1>1, <1>2, <1>3, <1>4, <1>5

LEMMA SemReturnKeeps ==
  ASSUME Queues, NEW t \in Thread, SemReturn(t)
  PROVE  Queues'
<1>1. TypeOK'
  BY DEF Queues, TypeOK, SchedTypeOK, MutexTypeOK, SemTypeOK, SemReturn, Return, mutexVars
<1>2. (Listed /\ Single /\ Nested /\ Reasons /\ ErrorTellsOutcome)'
  BY ReturnKeeps DEF Queues, Single, SemReturn, Runs, mutexVars
<1>3. QED
  BY <1>1, <1>2 DEF Queues

\* A thread comes back from rt_mutex_take owning the mutex.
LEMMA TakeGrantedKeeps ==
  ASSUME Queues, NEW t \in Thread, TakeGranted(t), UNCHANGED semVars
  PROVE  Queues'
<1>1. TypeOK'
  BY DEF Queues, TypeOK, SchedTypeOK, MutexTypeOK, SemTypeOK, TakeGranted, Return,
         mutexVars, semVars
<1>2. (Listed /\ Single /\ Nested /\ Reasons /\ ErrorTellsOutcome)'
  BY ReturnKeeps DEF Queues, Single, TakeGranted, Runs, mutexVars, semVars
<1>3. QED
  BY <1>1, <1>2 DEF Queues

LEMMA ReleaseKeeps ==
  ASSUME Queues, Release
  PROVE  Queues'
<1> USE SemaphoreAssumption, SemAssumption, Types
<1>1. CASE sleepers # <<>>
  <2>1. PICK u : u = Head(sleepers)
    OBVIOUS
  <2>2. u \in Thread /\ u \in ToSet(sleepers)
    BY <1>1, <2>1, FirstAndRest DEF Queues, Single
  <2>3. stat[u] = "suspended" /\ call[u] = Semaphore
    BY <2>2 DEF Queues, Listed
  <2>4. /\ Ready(u) /\ error' = [error EXCEPT ![u] = "RT_EOK"]
        /\ given' = given \cup {u} /\ sleepers' = Tail(sleepers)
        /\ UNCHANGED <<prio, value, mutexVars, call>>
    BY <1>1, <2>1 DEF Release, SemRelease
  <2>5. /\ sleepers' \in Seq(Thread) /\ IsInjective(sleepers')
        /\ ToSet(sleepers') = ToSet(sleepers) \ {u}
    BY <1>1, <2>1, <2>4, FirstAndRest DEF Queues, Single
  <2> USE DEF Ready, mutexVars
  <2>6. TypeOK'
    BY <2>2, <2>4, <2>5 DEF TypeOK, SchedTypeOK, MutexTypeOK, SemTypeOK
  <2>7. Listed'
    BY <2>2, <2>3, <2>4, <2>5 DEF Queues, Listed
  <2>8. Single'
    BY <2>4, <2>5 DEF Queues, Single
  <2>9. Nested'
    BY <2>2, <2>4 DEF Queues, Nested, Taken
  <2>10. Reasons'
    BY <2>2, <2>3, <2>4 DEF Queues, Reasons
  <2>11. ErrorTellsOutcome'
    BY <2>2, <2>3, <2>4 DEF Queues, ErrorTellsOutcome
  <2>12. QED
    BY <2>6, <2>7, <2>8, <2>9, <2>10, <2>11 DEF Queues
<1>2. CASE sleepers = <<>>
  <2>1. TypeOK'
    BY <1>2 DEF Queues, TypeOK, SchedTypeOK, MutexTypeOK, SemTypeOK,
       Release, SemRelease, schedVars, mutexVars
  <2>2. (Listed /\ Single /\ Nested /\ Reasons /\ ErrorTellsOutcome)'
    BY <1>2 DEF Queues, Listed, Single, Nested, Reasons, ErrorTellsOutcome, Taken,
       Release, SemRelease, schedVars, mutexVars
  <2>3. QED
    BY <2>1, <2>2 DEF Queues
<1>3. QED
  BY <1>1, <1>2

\* The owner of a mutex does not wait for it.
LEMMA NotOwnWaiter ==
  ASSUME Nested, NEW t \in Thread, stat[t] = "suspended", call[t] \in Mutex
  PROVE  owner[call[t]] \notin {t, NoThread}
<1>1. \A k \in Mutex : ~ (k < k)
  BY MutexAssumption
<1>2. QED
  BY <1>1 DEF Nested, Taken

\* _thread_timeout takes a thread off its list; the rest stays sorted.
LEMMA TimeoutKeeps ==
  ASSUME Queues, Priorities, NEW t \in Thread, Timeout(t)
  PROVE  Queues' /\ Priorities'
<1> USE SemaphoreAssumption, Types
<1>1. ASSUME NEW m \in Mutex
      PROVE  /\ waiters'[m] \in Seq(Thread) /\ IsInjective(waiters'[m])
             /\ ToSet(waiters'[m]) = ToSet(waiters[m]) \ {t}
             /\ Sorted(waiters'[m], prio)
  <2>1. waiters[m] \in Seq(Thread) /\ IsInjective(waiters[m]) /\ Sorted(waiters[m], prio)
    BY DEF Queues, Single, Priorities, InOrder
  <2>2. CASE call[t] = m
    <3>1. t \in ToSet(waiters[m])
      BY <2>2 DEF Queues, Listed, Timeout
    <3>2. waiters'[m] = RemoveFirst(waiters[m], t)
      BY <2>2 DEF Timeout
    <3>3. SortedBut(waiters[m], prio, t)
      BY <2>1 DEF Sorted, SortedBut
    <3>4. QED
      BY <2>1, <3>1, <3>2, <3>3, RemoveProperties
  <2>3. CASE call[t] # m
    BY <2>1, <2>3 DEF Queues, Listed, Timeout
  <2>4. QED
    BY <2>2, <2>3
<1>2. /\ sleepers' \in Seq(Thread) /\ IsInjective(sleepers')
      /\ ToSet(sleepers') = ToSet(sleepers) \ {t}
  <2>1. sleepers \in Seq(Thread) /\ IsInjective(sleepers)
    BY DEF Queues, Single
  <2>2. CASE call[t] = Semaphore
    <3>1. t \in ToSet(sleepers)
      BY <2>2 DEF Queues, Listed, Timeout
    <3>2. QED
      BY <2>1, <2>2, <3>1, RemoveProperties DEF Timeout
  <2>3. CASE call[t] # Semaphore
    BY <2>1, <2>3 DEF Queues, Listed, Timeout
  <2>4. QED
    BY <2>2, <2>3
<1>3. waiters' \in [Mutex -> Seq(Thread)]
  BY <1>1 DEF Timeout
<1>4. TypeOK'
  BY <1>2, <1>3 DEF Timeout, Ready, TypeOK, SchedTypeOK, MutexTypeOK, SemTypeOK
<1>5. Listed'
  <2>1. /\ stat' = [stat EXCEPT ![t] = "ready"] /\ call' = call
        /\ \A u \in Thread : stat'[u] = "suspended" <=> u # t /\ stat[u] = "suspended"
    BY DEF Timeout, Ready
  <2>2. ASSUME NEW m \in Mutex, NEW u \in Thread
        PROVE  u \in ToSet(waiters'[m]) <=> stat'[u] = "suspended" /\ call'[u] = m
    <3>1. u \in ToSet(waiters[m]) <=> stat[u] = "suspended" /\ call[u] = m
      BY DEF Queues, Listed
    <3>2. u \in ToSet(waiters'[m]) <=> u \in ToSet(waiters[m]) /\ u # t
      BY <1>1
    <3>3. QED
      BY <2>1, <3>1, <3>2
  <2>3. ASSUME NEW u \in Thread
        PROVE  u \in ToSet(sleepers') <=> stat'[u] = "suspended" /\ call'[u] = Semaphore
    BY <1>2, <2>1 DEF Queues, Listed
  <2>4. QED
    BY <2>2, <2>3 DEF Listed
<1>6. Single'
  BY <1>1, <1>2 DEF Queues, Single
<1>7. Nested'
  BY DEF Queues, Nested, Taken, Timeout, Ready
<1>8. Reasons'
  BY DEF Queues, Reasons, Timeout, Ready
<1>9. ErrorTellsOutcome'
  <2>1. stat[t] = "suspended" /\ error'[t] = "RT_ETIMEOUT" /\ owner' = owner
        /\ given' = given /\ call' = call /\ stat' = [stat EXCEPT ![t] = "ready"]
        /\ \A u \in Thread : u # t => error'[u] = error[u]
    BY DEF Timeout, Ready
  <2>2. call[t] \in Mutex => owner[call[t]] # t
    BY <2>1, NotOwnWaiter DEF Queues
  <2>3. t \notin given
    BY <2>1 DEF Queues, Reasons
  <2>4. ASSUME NEW u \in Thread, u # t, stat'[u] = "ready"
        PROVE  /\ call'[u] = Semaphore => (error'[u] = "RT_EOK" <=> u \in given')
               /\ call'[u] \in Mutex => (error'[u] = "RT_EOK" <=> owner'[call'[u]] = u)
    BY <2>1, <2>4 DEF Queues, ErrorTellsOutcome
  <2>5. QED
    BY <2>1, <2>2, <2>3, <2>4 DEF ErrorTellsOutcome
<1>10. Priorities'
  <2>1. UNCHANGED <<prio, mprio, owner>>
    BY DEF Timeout
  <2>2. QED
    BY <1>1, <2>1 DEF Priorities, Within, InOrder, HeadBound, OwnerBound
<1>11. QED
  BY <1>4, <1>5, <1>6, <1>7, <1>8, <1>9, <1>10 DEF Queues

-----------------------------------------------------------------------------
\* The steps of rt_mutex_take and rt_mutex_release.
LEMMA TakeAgainKeeps ==
  ASSUME Queues, NEW t \in Thread, NEW m \in Mutex, TakeAgain(t, m), UNCHANGED semVars
  PROVE  Queues'
<1> USE SemaphoreAssumption, MutexAssumption, Types
<1> USE DEF TakeAgain, CallsMutex, Runs, semVars
<1>1. TypeOK'
  <2>1. hold[m] + 1 \in 0 .. RT_MUTEX_HOLD_MAX
    OBVIOUS
  <2>2. QED
    BY <2>1 DEF TypeOK, SchedTypeOK, MutexTypeOK, SemTypeOK
<1>2. (Listed /\ Single /\ Nested)'
  BY DEF Queues, Listed, Single, Nested, Taken
<1>3. Reasons' /\ ErrorTellsOutcome'
  BY DEF Queues, Reasons, ErrorTellsOutcome
<1>4. QED
  BY <1>1, <1>2, <1>3 DEF Queues

LEMMA TakeFreeKeeps ==
  ASSUME Queues, Priorities, NEW t \in Thread, NEW m \in Mutex, TakeFree(t, m),
         UNCHANGED semVars
  PROVE  Queues' /\ Priorities'
<1> USE SemaphoreAssumption, MutexAssumption, PriorityAssumption, Types
<1> USE DEF TakeFree, CallsMutex, Runs, semVars
<1>1. TypeOK'
  <2>1. 1 \in 0 .. RT_MUTEX_HOLD_MAX /\ NoPriority \in Nat
    OBVIOUS
  <2>2. MutexTypeOK'
    BY <2>1 DEF TypeOK, MutexTypeOK
  <2>3. SchedTypeOK' /\ SemTypeOK'
    BY DEF TypeOK, SchedTypeOK, SemTypeOK
  <2>4. QED
    BY <2>2, <2>3 DEF TypeOK
<1>2. \A u \in Thread : stat[u] = "suspended" => call[u] # m
  BY DEF Queues, Nested
<1>3. Listed' /\ Single'
  BY DEF Queues, Listed, Single
<1>4. Nested'
  BY <1>2 DEF Queues, Nested, Taken
<1>5. Reasons'
  BY DEF Queues, Reasons
<1>6. ErrorTellsOutcome'
  <2>1. ASSUME NEW u \in Thread, stat[u] = "ready", call[u] \in Mutex
        PROVE  error'[u] = "RT_EOK" <=> owner'[call[u]] = u
    BY <2>1 DEF Queues, ErrorTellsOutcome
  <2>2. ASSUME NEW u \in Thread, stat[u] = "ready", call[u] = Semaphore
        PROVE  error'[u] = "RT_EOK" <=> u \in given
    BY <2>2 DEF Queues, ErrorTellsOutcome
  <2>3. QED
    BY <2>1, <2>2 DEF ErrorTellsOutcome
<1>7. Within' /\ InOrder'
  BY DEF Priorities, Within, InOrder, Sorted
<1>8. HeadBound'
  <2>1. ToSet(waiters[m]) = {}
    BY <1>2, ListType DEF Queues, Listed
  <2>2. QED
    BY <2>1 DEF Priorities, HeadBound
<1>9. OwnerBound'
  <2>1. prio[t] <= NoPriority
    BY DEF Priorities, Within
  <2>2. QED
    BY <2>1 DEF Priorities, OwnerBound
<1>10. QED
  BY <1>1, <1>3, <1>4, <1>5, <1>6, <1>7, <1>8, <1>9 DEF Queues, Priorities

LEMMA ReleaseInnerKeeps ==
  ASSUME Queues, NEW t \in Thread, NEW m \in Mutex, ReleaseInner(t, m), UNCHANGED semVars
  PROVE  Queues'
<1> USE DEF ReleaseInner, schedVars, semVars
<1>1. TypeOK'
  <2>1. hold[m] - 1 \in 0 .. RT_MUTEX_HOLD_MAX
    BY MutexAssumption, Types
  <2>2. QED
    BY <2>1, Types DEF TypeOK, SchedTypeOK, MutexTypeOK, SemTypeOK
<1>2. (Listed /\ Single /\ Nested /\ Reasons /\ ErrorTellsOutcome)'
  BY DEF Queues, Listed, Single, Nested, Reasons, ErrorTellsOutcome, Taken
<1>3. QED
  BY <1>1, <1>2 DEF Queues

\* What _check_and_update_prio gives a thread back still serves the waiters
\* of everything else it has taken.
LEMMA Restored ==
  ASSUME Queues, Priorities, NEW t \in Thread, NEW m \in Mutex
  PROVE  /\ RestoredPriority(t, m) \in Nat
         /\ RestoredPriority(t, m) <= InitPriority[t]
         /\ \A k \in Taken(t) \ {m} : RestoredPriority(t, m) <= mprio[k]
<1>1. CASE prio[t] = mprio[m]
  <2>1. Taken(t) \ {m} \in SUBSET Mutex
    BY DEF Taken
  <2>2. QED
    BY <1>1, <2>1, Types, MutexPriorityBounds DEF RestoredPriority
<1>2. CASE prio[t] # mprio[m]
  BY <1>2, Types, MutexAssumption
     DEF RestoredPriority, Priorities, Within, OwnerBound, Taken
<1>3. QED
  BY <1>1, <1>2

(***************************************************************************)
(* rt_mutex_release with waiters. The new owner was the first of a sorted  *)
(* list, so it is as urgent as the waiters it now has; what it had taken   *)
(* before is bounded as it was.                                            *)
(***************************************************************************)
LEMMA ReleaseToKeeps ==
  ASSUME Queues, Priorities, NEW t \in Thread, NEW m \in Mutex, ReleaseTo(t, m),
         UNCHANGED semVars
  PROVE  Queues' /\ Priorities'
<1> USE SemaphoreAssumption, MutexAssumption, Types
<1>1. PICK u : u = Head(waiters[m])
  OBVIOUS
<1>2. /\ stat[t] = "ready" /\ call[t] = NoCall /\ owner[m] = t
      /\ prio' = [prio EXCEPT ![t] = RestoredPriority(t, m)]
      /\ stat' = [stat EXCEPT ![u] = "ready"] /\ timer' = [timer EXCEPT ![u] = "off"]
      /\ owner' = [owner EXCEPT ![m] = u]
      /\ waiters' = [waiters EXCEPT ![m] = Tail(waiters[m])]
      /\ mprio' = [mprio EXCEPT ![m] = HeadPriority(Tail(waiters[m]), prio)]
      /\ UNCHANGED <<error, hold, call, value, sleepers, given>>
  BY <1>1 DEF ReleaseTo, Ready, Runs, semVars
<1>3. waiters[m] \in Seq(Thread) /\ waiters[m] # <<>> /\ IsInjective(waiters[m])
  BY DEF ReleaseTo, Queues, Single
<1>4. /\ u \in Thread /\ u \in ToSet(waiters[m])
      /\ Tail(waiters[m]) \in Seq(Thread)
      /\ ToSet(Tail(waiters[m])) = ToSet(waiters[m]) \ {u}
      /\ IsInjective(Tail(waiters[m]))
  BY <1>1, <1>3, FirstAndRest
<1>5. stat[u] = "suspended" /\ call[u] = m /\ u # t
  BY <1>2, <1>4 DEF Queues, Listed
<1>6. /\ Sorted(Tail(waiters[m]), prio)
      /\ \A v \in ToSet(waiters[m]) : prio[u] <= prio[v]
  BY <1>1, <1>3, SortedRest DEF Priorities, InOrder
<1>7. /\ HeadPriority(Tail(waiters[m]), prio) \in Nat
      /\ \A v \in ToSet(Tail(waiters[m])) : HeadPriority(Tail(waiters[m]), prio) <= prio[v]
  BY <1>4, <1>6, FirstIsMostUrgent
<1>8. /\ RestoredPriority(t, m) \in Nat
      /\ RestoredPriority(t, m) <= InitPriority[t]
      /\ \A k \in Taken(t) \ {m} : RestoredPriority(t, m) <= mprio[k]
  BY Restored
<1>9. TypeOK'
  BY <1>2, <1>4, <1>7, <1>8 DEF TypeOK, SchedTypeOK, MutexTypeOK, SemTypeOK
<1>10. Listed'
  <2>1. ASSUME NEW k \in Mutex, NEW v \in Thread
        PROVE  v \in ToSet(waiters'[k]) <=> stat'[v] = "suspended" /\ call'[v] = k
    <3>1. v \in ToSet(waiters[k]) <=> stat[v] = "suspended" /\ call[v] = k
      BY DEF Queues, Listed
    <3>2. v \in ToSet(waiters'[k]) <=> v \in ToSet(waiters[k]) /\ ~ (k = m /\ v = u)
      BY <1>2, <1>4
    <3>3. stat'[v] = "suspended" <=> stat[v] = "suspended" /\ v # u
      BY <1>2, <1>4
    <3>4. QED
      BY <1>2, <1>5, <3>1, <3>2, <3>3
  <2>2. ASSUME NEW v \in Thread
        PROVE  v \in ToSet(sleepers') <=> stat'[v] = "suspended" /\ call'[v] = Semaphore
    BY <1>2, <1>4, <1>5 DEF Queues, Listed
  <2>3. QED
    BY <2>1, <2>2 DEF Listed
<1>11. Single'
  BY <1>2, <1>4 DEF Queues, Single
<1>12. Nested'
  <2>1. ASSUME NEW v \in Thread, stat'[v] = "suspended", call'[v] \in Mutex
        PROVE  owner'[call'[v]] # NoThread /\ \A k \in Mutex : owner'[k] = v => k < call'[v]
    <3>1. stat[v] = "suspended" /\ v # u /\ v # t /\ call'[v] = call[v]
      BY <1>2, <1>4, <2>1
    <3>2. QED
      BY <1>2, <1>4, <2>1, <3>1 DEF Queues, Nested, Taken
  <2>2. QED
    BY <2>1 DEF Nested, Taken
<1>13. Reasons'
  BY <1>2, <1>4, <1>5 DEF Queues, Reasons
<1>14. ErrorTellsOutcome'
  <2>1. error[u] = "RT_EOK"
    BY <1>4, <1>5 DEF Queues, Reasons
  <2>2. ASSUME NEW v \in Thread, stat'[v] = "ready", call[v] = Semaphore
        PROVE  error[v] = "RT_EOK" <=> v \in given
    BY <1>2, <1>4, <1>5, <2>2 DEF Queues, ErrorTellsOutcome
  <2>3. ASSUME NEW v \in Thread, stat'[v] = "ready", call[v] \in Mutex
        PROVE  error[v] = "RT_EOK" <=> owner'[call[v]] = v
    <3>1. CASE v = u
      BY <1>2, <1>5, <2>1, <3>1
    <3>2. CASE v # u
      <4>1. stat[v] = "ready" /\ v # t
        BY <1>2, <2>3, <3>2
      <4>2. error[v] = "RT_EOK" <=> owner[call[v]] = v
        BY <2>3, <4>1 DEF Queues, ErrorTellsOutcome
      <4>3. owner[m] # v /\ owner'[m] # v
        BY <1>2, <3>2, <4>1
      <4>4. QED
        BY <1>2, <2>3, <4>2, <4>3
    <3>3. QED
      BY <3>1, <3>2
  <2>4. QED
    BY <1>2, <2>2, <2>3 DEF ErrorTellsOutcome
<1>15. \A k \in Mutex : t \notin ToSet(waiters[k])
  BY <1>2 DEF Queues, Listed
<1>16. \A v \in Thread : v # t => prio'[v] = prio[v]
  BY <1>2
<1>17. Within'
  BY <1>2, <1>8 DEF Priorities, Within
<1>18. InOrder'
  <2>1. ASSUME NEW k \in Mutex
        PROVE  Sorted(waiters'[k], prio')
    <3>1. PICK q : q = waiters'[k]
      OBVIOUS
    <3>2. q \in Seq(Thread) /\ Sorted(q, prio) /\ ToSet(q) \subseteq ToSet(waiters[k])
      BY <1>2, <1>4, <1>6, <3>1 DEF Priorities, InOrder
    <3>3. \A i \in 1 .. Len(q) : prio'[q[i]] = prio[q[i]]
      <4>1. \A i \in 1 .. Len(q) : q[i] \in Thread /\ q[i] \in ToSet(q)
        BY <3>2, SMTT(30) DEF ToSet
      <4>2. QED
        BY <1>15, <1>16, <3>2, <4>1
    <3>4. QED
      BY <3>1, <3>2, <3>3 DEF Sorted
  <2>2. QED
    BY <2>1 DEF InOrder
<1>19. HeadBound'
  <2>1. ASSUME NEW k \in Mutex, NEW v \in ToSet(waiters'[k])
        PROVE  mprio'[k] <= prio'[v]
    <3>1. v \in ToSet(waiters[k])
      BY <1>2, <1>4, <2>1
    <3>2. v \in Thread
      BY <3>1, ListType
    <3>3. prio'[v] = prio[v]
      BY <1>15, <1>16, <3>1, <3>2
    <3>4. CASE k = m
      BY <1>2, <1>7, <2>1, <3>3, <3>4
    <3>5. CASE k # m
      BY <1>2, <3>1, <3>3, <3>5 DEF Priorities, HeadBound
    <3>6. QED
      BY <3>4, <3>5
  <2>2. QED
    BY <2>1 DEF HeadBound
<1>20. OwnerBound'
  <2>1. prio[u] <= HeadPriority(Tail(waiters[m]), prio)
    <3>1. CASE Tail(waiters[m]) = <<>>
      BY <1>4, <3>1, PriorityAssumption DEF HeadPriority, Priorities, Within
    <3>2. CASE Tail(waiters[m]) # <<>>
      <4>1. Head(Tail(waiters[m])) \in ToSet(Tail(waiters[m]))
        BY <1>4, <3>2, FirstAndRest
      <4>2. QED
        BY <1>4, <1>6, <3>2, <4>1 DEF HeadPriority
    <3>3. QED
      BY <3>1, <3>2
  <2>2. ASSUME NEW k \in Mutex, owner'[k] # NoThread
        PROVE  prio'[owner'[k]] <= mprio'[k]
    <3>1. CASE k = m
      BY <1>2, <1>4, <1>5, <1>16, <2>1, <3>1
    <3>2. CASE k # m /\ owner[k] = t
      BY <1>2, <1>8, <3>2 DEF Taken
    <3>3. CASE k # m /\ owner[k] # t
      <4>1. owner'[k] = owner[k] /\ owner[k] \in Thread /\ mprio'[k] = mprio[k]
        BY <1>2, <2>2, <3>3
      <4>2. QED
        BY <1>16, <2>2, <3>3, <4>1 DEF Priorities, OwnerBound
    <3>4. QED
      BY <3>1, <3>2, <3>3
  <2>3. QED
    BY <2>2 DEF OwnerBound
<1>21. QED
  BY <1>9, <1>10, <1>11, <1>12, <1>13, <1>14, <1>17, <1>18, <1>19, <1>20 DEF Queues, Priorities

\* rt_mutex_release without waiters.
LEMMA ReleaseFreeKeeps ==
  ASSUME Queues, Priorities, NEW t \in Thread, NEW m \in Mutex, ReleaseFree(t, m),
         UNCHANGED semVars
  PROVE  Queues' /\ Priorities'
<1> USE SemaphoreAssumption, MutexAssumption, Types
<1>1. /\ stat[t] = "ready" /\ call[t] = NoCall /\ owner[m] = t /\ waiters[m] = <<>>
      /\ prio' = [prio EXCEPT ![t] = RestoredPriority(t, m)]
      /\ owner' = [owner EXCEPT ![m] = NoThread]
      /\ hold' = [hold EXCEPT ![m] = 0] /\ mprio' = [mprio EXCEPT ![m] = NoPriority]
      /\ UNCHANGED <<stat, timer, error, waiters, call, value, sleepers, given>>
  BY DEF ReleaseFree, Runs, semVars
<1>2. /\ RestoredPriority(t, m) \in Nat
      /\ RestoredPriority(t, m) <= InitPriority[t]
      /\ \A k \in Taken(t) \ {m} : RestoredPriority(t, m) <= mprio[k]
  BY Restored
<1>3. \A k \in Mutex : t \notin ToSet(waiters[k])
  BY <1>1 DEF Queues, Listed
<1>4. ToSet(waiters[m]) = {}
  BY <1>1 DEF ToSet
<1>5. \A v \in Thread : stat[v] = "suspended" => call[v] # m
  BY <1>4 DEF Queues, Listed
<1>6. TypeOK'
  BY <1>1, <1>2, SMTT(30) DEF TypeOK, SchedTypeOK, MutexTypeOK, SemTypeOK
<1>7. Listed' /\ Single' /\ Reasons'
  BY <1>1 DEF Queues, Listed, Single, Reasons
<1>8. Nested'
  <2>1. ASSUME NEW v \in Thread, stat[v] = "suspended", call[v] \in Mutex
        PROVE  owner'[call[v]] # NoThread /\ \A k \in Mutex : owner'[k] = v => k < call[v]
    BY <1>1, <1>5, <2>1 DEF Queues, Nested, Taken
  <2>2. QED
    BY <1>1, <2>1 DEF Nested, Taken
<1>9. ErrorTellsOutcome'
  <2>1. ASSUME NEW v \in Thread, stat[v] = "ready", call[v] \in Mutex
        PROVE  error[v] = "RT_EOK" <=> owner'[call[v]] = v
    BY <1>1, <2>1 DEF Queues, ErrorTellsOutcome
  <2>2. ASSUME NEW v \in Thread, stat[v] = "ready", call[v] = Semaphore
        PROVE  error[v] = "RT_EOK" <=> v \in given
    BY <2>2 DEF Queues, ErrorTellsOutcome
  <2>3. QED
    BY <1>1, <2>1, <2>2 DEF ErrorTellsOutcome
<1>10. \A v \in Thread : v # t => prio'[v] = prio[v]
  BY <1>1
<1>11. Within'
  BY <1>1, <1>2 DEF Priorities, Within
<1>12. InOrder'
  <2>1. ASSUME NEW k \in Mutex
        PROVE  Sorted(waiters[k], prio')
    <3>1. PICK q : q = waiters[k]
      OBVIOUS
    <3>2. q \in Seq(Thread) /\ Sorted(q, prio)
      BY <3>1 DEF Priorities, InOrder
    <3>3. \A i \in 1 .. Len(q) : prio'[q[i]] = prio[q[i]]
      <4>1. \A i \in 1 .. Len(q) : q[i] \in Thread /\ q[i] \in ToSet(q)
        BY <3>2, SMTT(30) DEF ToSet
      <4>2. QED
        BY <1>3, <1>10, <3>1, <4>1
    <3>4. QED
      BY <3>1, <3>2, <3>3 DEF Sorted
  <2>2. QED
    BY <1>1, <2>1 DEF InOrder
<1>13. HeadBound'
  <2>1. ASSUME NEW k \in Mutex, NEW v \in ToSet(waiters[k])
        PROVE  mprio'[k] <= prio'[v]
    <3>1. v \in Thread /\ v # t /\ k # m
      BY <1>3, <1>4, ListType
    <3>2. QED
      BY <1>1, <1>10, <3>1 DEF Priorities, HeadBound
  <2>2. QED
    BY <1>1, <2>1 DEF HeadBound
<1>14. OwnerBound'
  <2>1. ASSUME NEW k \in Mutex, owner'[k] # NoThread
        PROVE  prio'[owner'[k]] <= mprio'[k]
    <3>1. k # m /\ owner'[k] = owner[k] /\ mprio'[k] = mprio[k] /\ owner[k] \in Thread
      BY <1>1, <2>1
    <3>2. CASE owner[k] = t
      BY <1>1, <1>2, <3>1, <3>2 DEF Taken
    <3>3. CASE owner[k] # t
      BY <1>10, <2>1, <3>1, <3>3 DEF Priorities, OwnerBound
    <3>4. QED
      BY <3>2, <3>3
  <2>2. QED
    BY <2>1 DEF OwnerBound
<1>15. QED
  BY <1>6, <1>7, <1>8, <1>9, <1>11, <1>12, <1>13, <1>14 DEF Queues, Priorities

-----------------------------------------------------------------------------
\* What a call of _thread_update_priority leaves: the lists w, sorted, and
\* every owner as urgent as its waiters again.
Updated(w) ==
  /\ prio' \in [Thread -> Nat] /\ mprio' \in [Mutex -> Nat]
  /\ waiters' \in [Mutex -> Seq(Thread)]
  /\ \A k \in Mutex : ToSet(waiters'[k]) = ToSet(w[k]) /\ IsInjective(waiters'[k])
  /\ Priorities'

(***************************************************************************)
(* When the loop has ended, the thread it stopped at waits for no mutex,   *)
(* so no list has a thread out of order any more, and the loop invariant   *)
(* is the invariant of the mutexes.                                        *)
(***************************************************************************)
LEMMA Adopted ==
  ASSUME owner \in [Mutex -> Thread \cup {NoThread}], Nested,
         NEW w, NEW m \in Mutex, Placed(w, m), NEW t, NEW p, NEW mp,
         Started(t, p, w, mp) \in Walk(w, m),
         Adopt(UpdatePriority(t, p, w, mp)), owner' = owner
  PROVE  Updated(w)
<1>1. PICK r : r = UpdatePriority(t, p, w, mp)
  OBVIOUS
<1>2. r \in Walk(w, m) /\ ~ Pending(r)
  BY <1>1, TurnKeeps, UpdateSettles
<1>3. prio' = r.prio /\ waiters' = r.waiters /\ mprio' = r.mprio
  BY <1>1 DEF Adopt
<1>4. /\ r.thread \in Thread \cup {NoThread}
      /\ prio' \in [Thread -> Nat] /\ mprio' \in [Mutex -> Nat]
      /\ waiters' \in [Mutex -> Seq(Thread)]
  BY <1>2, <1>3 DEF Walk
<1>5. \A k \in Mutex : ToSet(waiters'[k]) = ToSet(w[k]) /\ IsInjective(waiters'[k])
  BY <1>2, <1>3 DEF Walk
<1>6. ASSUME NEW k \in Mutex
      PROVE  r.thread \notin ToSet(waiters'[k])
  <2>1. CASE r.thread = NoThread
    <3>1. ToSet(waiters'[k]) \subseteq Thread
      BY <1>4, ListType
    <3>2. QED
      BY <2>1, <3>1, MutexAssumption
  <2>2. CASE r.thread # NoThread
    <3>1. r.thread \in Thread
      BY <1>4, <2>2
    <3>2. \E j \in Taken(r.thread) : m <= j
      BY <1>2, <2>2 DEF Walk
    <3>3. ~ (stat[r.thread] = "suspended" /\ call[r.thread] = k)
      BY <1>2, <2>2 DEF Pending
    <3>4. r.thread \notin ToSet(w[k])
      BY <3>1, <3>2, <3>3 DEF Placed
    <3>5. QED
      BY <1>5, <3>4
  <2>3. QED
    BY <2>1, <2>2
<1>7. Within'
  BY <1>2, <1>3 DEF Walk, Within
<1>8. ASSUME NEW k \in Mutex
      PROVE  Sorted(waiters'[k], prio')
  <2>1. SortedBut(waiters'[k], prio', r.thread)
    BY <1>2, <1>3 DEF Walk
  <2>2. waiters'[k] \in Seq(Thread)
    BY <1>4
  <2>3. QED
    BY <1>6, <2>1, <2>2, UnsortedElsewhere
<1>9. ASSUME NEW k \in Mutex, NEW u \in ToSet(waiters'[k])
      PROVE  mprio'[k] <= prio'[u]
  BY <1>2, <1>3, <1>5, <1>6 DEF Walk
<1>10. OwnerBound'
  BY <1>2, <1>3 DEF Walk, OwnerBound
<1>11. InOrder' /\ HeadBound'
  BY <1>8, <1>9 DEF InOrder, HeadBound
<1>12. QED
  BY <1>4, <1>5, <1>7, <1>10, <1>11 DEF Updated, Priorities

LEMMA MinimumOfTwo ==
  ASSUME NEW a \in Nat, NEW b \in Nat
  PROVE  Min({a, b}) \in {a, b} /\ Min({a, b}) <= a /\ Min({a, b}) <= b
<1>1. {a, b} \in SUBSET Nat /\ {a, b} # {}
  OBVIOUS
<1>2. Min({a, b}) \in {a, b} /\ \A k \in {a, b} : Min({a, b}) <= k
  BY <1>1, Minimum
<1>3. QED
  BY <1>2

\* The lists and priorities of the mutexes once t is listed as a waiter of m.
Enqueued(t, m, w, mp) ==
  /\ w = [waiters EXCEPT ![m] = EnqueuePrio(waiters[m], t, prio)]
  /\ mp = [mprio EXCEPT ![m] = Min({mprio[m], prio[t]})]

(***************************************************************************)
(* rt_mutex_take of a mutex somebody else owns. Boosted is the owner only  *)
(* when both the mutex and the owner are less urgent than the caller; when *)
(* one of the two tests fails, the invariant says why nothing is to be     *)
(* done.                                                                   *)
(***************************************************************************)
LEMMA TakeWaitUpdates ==
  ASSUME Queues, Priorities, NEW t \in Thread, NEW m \in Mutex, NEW timed \in BOOLEAN,
         TakeWait(t, m, timed), NEW w, NEW mp, Enqueued(t, m, w, mp)
  PROVE  /\ Updated(w)
         /\ prio[t] < mprio[m] /\ prio[t] < prio[owner[m]] =>
              Placed(w, m) /\ Started(owner[m], prio[t], w, mp) \in Walk(w, m)
<1> USE Types
<1>1. /\ w = [waiters EXCEPT ![m] = EnqueuePrio(waiters[m], t, prio)]
      /\ mp = [mprio EXCEPT ![m] = Min({mprio[m], prio[t]})]
  BY DEF Enqueued
<1>2. PICK o \in Thread : o = owner[m] /\ o # t
  BY DEF TakeWait
<1>3. /\ stat[t] = "ready" /\ call[t] = NoCall /\ owner' = owner
      /\ \A k \in Taken(t) : k <= m
  BY DEF TakeWait, CallsMutex, Runs
<1>4. \A k \in Mutex : t \notin ToSet(waiters[k])
  BY <1>3 DEF Queues, Listed
<1>5. /\ EnqueuePrio(waiters[m], t, prio) \in Seq(Thread)
      /\ ToSet(EnqueuePrio(waiters[m], t, prio)) = ToSet(waiters[m]) \cup {t}
      /\ IsInjective(EnqueuePrio(waiters[m], t, prio))
      /\ Sorted(EnqueuePrio(waiters[m], t, prio), prio)
  <2>1. IsInjective(waiters[m]) /\ Sorted(waiters[m], prio) /\ waiters[m] \in Seq(Thread)
    BY DEF Queues, Single, Priorities, InOrder
  <2>2. QED
    BY <1>4, <2>1, EnqueueProperties
<1>6. ASSUME NEW k \in Mutex
      PROVE  /\ w[k] \in Seq(Thread) /\ IsInjective(w[k]) /\ Sorted(w[k], prio)
             /\ ToSet(w[k]) = IF k = m THEN ToSet(waiters[k]) \cup {t} ELSE ToSet(waiters[k])
  BY <1>1, <1>5 DEF Queues, Single, Priorities, InOrder
<1>7. w \in [Mutex -> Seq(Thread)]
  BY <1>1, <1>5
<1>8. Min({mprio[m], prio[t]}) \in Nat /\ Min({mprio[m], prio[t]}) <= mprio[m]
      /\ Min({mprio[m], prio[t]}) <= prio[t] /\ Min({mprio[m], prio[t]}) \in {mprio[m], prio[t]}
  <2>1. mprio[m] \in Nat /\ prio[t] \in Nat
    OBVIOUS
  <2>2. QED
    BY <2>1, MinimumOfTwo
<1>9. mp \in [Mutex -> Nat] /\ mp[m] = Min({mprio[m], prio[t]})
      /\ \A k \in Mutex : k # m => mp[k] = mprio[k]
  BY <1>1, <1>8
<1>10. ASSUME NEW k \in Mutex, NEW u \in ToSet(w[k])
       PROVE  mp[k] <= prio[u]
  <2>1. CASE u = t /\ k = m
    BY <1>8, <1>9, <2>1
  <2>2. CASE ~ (u = t /\ k = m)
    <3>1. u \in ToSet(waiters[k]) /\ u \in Thread
      BY <1>6, <2>2, ListType
    <3>2. mprio[k] <= prio[u]
      BY <3>1 DEF Priorities, HeadBound
    <3>3. mp[k] <= mprio[k] /\ mp[k] \in Nat /\ mprio[k] \in Nat /\ prio[u] \in Nat
      <4>1. mprio[k] \in Nat /\ prio[u] \in Nat /\ mp[k] \in Nat
        BY <1>9, <3>1
      <4>2. CASE k = m
        BY <1>8, <1>9, <4>1, <4>2
      <4>3. CASE k # m
        BY <1>9, <4>1, <4>3
      <4>4. QED
        BY <4>1, <4>2, <4>3
    <3>4. QED
      BY <3>2, <3>3
  <2>3. QED
    BY <2>1, <2>2
<1>11. CASE prio[t] < mprio[m] /\ prio[t] < prio[owner[m]]
  <2>1. Adopt(UpdatePriority(o, prio[t], w, mp))
    BY <1>1, <1>2, <1>11 DEF TakeWait
  <2>2. PICK pr : pr = [prio EXCEPT ![o] = prio[t]]
    OBVIOUS
  <2>3. pr \in [Thread -> Nat] /\ pr[o] = prio[t] /\ \A u \in Thread : u # o => pr[u] = prio[u]
    BY <1>2, <2>2
  <2>4. \A u \in Thread : pr[u] <= InitPriority[u]
    <3>1. prio[t] <= InitPriority[o]
      BY <1>2, <1>11, PriorityAssumption DEF Priorities, Within
    <3>2. QED
      BY <2>3, <3>1 DEF Priorities, Within
  <2>5. ASSUME NEW k \in Mutex
        PROVE  SortedBut(w[k], pr, o)
    <3>1. PICK q \in Seq(Thread) : q = w[k] /\ Sorted(q, prio)
      BY <1>6
    <3>2. ASSUME NEW i \in 1 .. Len(q), NEW j \in 1 .. Len(q), i < j, q[i] # o, q[j] # o
          PROVE  pr[q[i]] <= pr[q[j]]
      <4>1. q[i] \in Thread /\ q[j] \in Thread
        BY SMTT(30)
      <4>2. QED
        BY <2>3, <3>1, <3>2, <4>1 DEF Sorted
    <3>3. QED
      BY <3>1, <3>2 DEF SortedBut
  <2>6. ASSUME NEW k \in Mutex, NEW u \in ToSet(w[k]), u # o
        PROVE  mp[k] <= pr[u]
    <3>1. u \in Thread
      BY <1>6, ListType
    <3>2. QED
      BY <1>10, <2>3, <2>6, <3>1
  <2>7. ASSUME NEW k \in Mutex, owner[k] # NoThread
        PROVE  pr[owner[k]] <= mp[k]
    <3>1. prio[owner[k]] <= mprio[k] /\ owner[k] \in Thread
      BY <2>7 DEF Priorities, OwnerBound
    <3>2. CASE k = m
      BY <1>2, <1>8, <1>9, <1>11, <2>3, <3>2
    <3>3. CASE k # m /\ owner[k] = o
      <4>1. prio[t] \in Nat /\ prio[o] \in Nat /\ mprio[k] \in Nat /\ prio[t] < prio[o]
        BY <1>2, <1>11
      <4>2. QED
        BY <1>9, <2>3, <3>1, <3>3, <4>1
    <3>4. CASE k # m /\ owner[k] # o
      BY <1>9, <2>3, <3>1, <3>4
    <3>5. QED
      BY <3>2, <3>3, <3>4
  <2>8. \E k \in Taken(o) : m <= k
    <3>1. m \in Taken(o) /\ m <= m
      BY <1>2, MutexAssumption DEF Taken
    <3>2. QED
      BY <3>1
  <2>9. Started(o, prio[t], w, mp) \in Walk(w, m)
    <3>1. Started(o, prio[t], w, mp) = [thread |-> o, prio |-> pr, waiters |-> w, mprio |-> mp]
      BY <2>2 DEF Started
    <3>2. QED
      BY <1>2, <1>6, <1>7, <1>9, <2>3, <2>4, <2>5, <2>6, <2>7, <2>8, <3>1, SMTT(30) DEF Walk
  <2>10. Placed(w, m)
    <3>1. \A j \in Taken(t) : ~ (m <= j)
      <4>1. m \in Nat /\ \A j \in Taken(t) : j \in Nat /\ j # m
        BY <1>2, MutexAssumption DEF Taken
      <4>2. QED
        BY <1>3, <4>1
    <3>2. ASSUME NEW k \in Mutex, NEW u \in Thread, u \in ToSet(w[k])
          PROVE  (stat[u] = "suspended" /\ call[u] = k) \/ \A j \in Taken(u) : ~ (m <= j)
      <4>1. CASE u = t
        BY <3>1, <4>1
      <4>2. CASE u # t
        <5>1. u \in ToSet(waiters[k])
          BY <1>6, <3>2, <4>2
        <5>2. QED
          BY <5>1 DEF Queues, Listed
      <4>3. QED
        BY <4>1, <4>2
    <3>3. ASSUME NEW k \in Mutex, NEW u \in Thread, stat[u] = "suspended", call[u] = k
          PROVE  u \in ToSet(w[k])
      <4>1. u \in ToSet(waiters[k])
        BY <3>3 DEF Queues, Listed
      <4>2. QED
        BY <1>6, <4>1
    <3>4. QED
      BY <3>2, <3>3 DEF Placed
  <2>11. QED
    BY <1>2, <1>3, <2>1, <2>9, <2>10, Adopted DEF Queues
<1>12. CASE ~ (prio[t] < mprio[m] /\ prio[t] < prio[owner[m]])
  <2>1. waiters' = w /\ mprio' = mp /\ prio' = prio
    BY <1>1, <1>12 DEF TakeWait
  <2>2. Within' /\ InOrder' /\ HeadBound'
    BY <1>6, <1>10, <2>1 DEF Priorities, Within, InOrder, HeadBound
  <2>3. ASSUME NEW k \in Mutex, owner[k] # NoThread
        PROVE  prio[owner[k]] <= mp[k]
    <3>1. prio[owner[k]] <= mprio[k] /\ owner[k] \in Thread
      BY <2>3 DEF Priorities, OwnerBound
    <3>2. CASE k = m
      <4>1. prio[o] \in Nat /\ prio[t] \in Nat /\ mprio[m] \in Nat
        BY <1>2
      <4>2. prio[o] <= mprio[m] /\ ~ (prio[t] < mprio[m] /\ prio[t] < prio[o])
        BY <1>2, <1>12, <3>1, <3>2
      <4>3. prio[o] <= mprio[m] /\ prio[o] <= prio[t]
        BY <4>1, <4>2
      <4>4. QED
        BY <1>2, <1>8, <1>9, <3>2, <4>3
    <3>3. CASE k # m
      BY <1>9, <3>1, <3>3
    <3>4. QED
      BY <3>2, <3>3
  <2>4. OwnerBound'
    BY <1>3, <2>1, <2>3 DEF OwnerBound
  <2>5. Updated(w)
    BY <1>1, <1>6, <1>7, <1>9, <2>1, <2>2, <2>4 DEF Updated, Priorities
  <2>6. QED
    BY <1>12, <2>5
<1>13. QED
  BY <1>11, <1>12

LEMMA TakeWaitKeeps ==
  ASSUME Queues, Priorities, NEW t \in Thread, NEW m \in Mutex, NEW timed \in BOOLEAN,
         TakeWait(t, m, timed), UNCHANGED semVars
  PROVE  Queues' /\ Priorities'
<1> USE SemaphoreAssumption, MutexAssumption, Types
<1>1. PICK w, mp : /\ w = [waiters EXCEPT ![m] = EnqueuePrio(waiters[m], t, prio)]
                   /\ mp = [mprio EXCEPT ![m] = Min({mprio[m], prio[t]})]
  OBVIOUS
<1>2. Updated(w)
  BY <1>1, TakeWaitUpdates DEF Enqueued
<1>3. /\ stat[t] = "ready" /\ call[t] = NoCall /\ \A k \in Taken(t) : k <= m
      /\ owner[m] \notin {t, NoThread}
      /\ stat' = [stat EXCEPT ![t] = "suspended"]
      /\ timer' \in [Thread -> {"off", "armed"}]
      /\ call' = [call EXCEPT ![t] = m] /\ error' = [error EXCEPT ![t] = "RT_EOK"]
      /\ UNCHANGED <<owner, hold, value, sleepers, given>>
  BY DEF TakeWait, CallsMutex, Runs, Suspend, semVars
<1>4. ASSUME NEW k \in Mutex
      PROVE  ToSet(w[k]) = IF k = m THEN ToSet(waiters[k]) \cup {t} ELSE ToSet(waiters[k])
  BY <1>1, EnqueueProperties
<1>5. TypeOK'
  BY <1>2, <1>3 DEF Updated, TypeOK, SchedTypeOK, MutexTypeOK, SemTypeOK
<1>6. Listed'
  <2>1. ASSUME NEW k \in Mutex, NEW v \in Thread
        PROVE  v \in ToSet(waiters'[k]) <=> stat'[v] = "suspended" /\ call'[v] = k
    <3>1. v \in ToSet(waiters[k]) <=> stat[v] = "suspended" /\ call[v] = k
      BY DEF Queues, Listed
    <3>2. v \in ToSet(waiters'[k]) <=> v \in ToSet(waiters[k]) \/ (k = m /\ v = t)
      BY <1>2, <1>4, ZenonT(30) DEF Updated
    <3>3. CASE v = t
      BY <1>3, <3>1, <3>2, <3>3
    <3>4. CASE v # t
      BY <1>3, <3>1, <3>2, <3>4
    <3>5. QED
      BY <3>3, <3>4
  <2>2. ASSUME NEW v \in Thread
        PROVE  v \in ToSet(sleepers) <=> stat'[v] = "suspended" /\ call'[v] = Semaphore
    BY <1>3 DEF Queues, Listed
  <2>3. QED
    BY <1>3, <2>1, <2>2 DEF Listed
<1>7. Single'
  BY <1>2, <1>3 DEF Queues, Single, Updated
<1>8. Nested'
  <2>1. ASSUME NEW k \in Mutex, owner[k] = t
        PROVE  k < m
    <3>1. k \in Nat /\ m \in Nat /\ k <= m /\ k # m
      BY <1>3, <2>1 DEF Taken
    <3>2. QED
      BY <3>1
  <2>2. ASSUME NEW v \in Thread, stat'[v] = "suspended", call'[v] \in Mutex
        PROVE  owner[call'[v]] # NoThread /\ \A k \in Mutex : owner[k] = v => k < call'[v]
    <3>1. CASE v = t
      BY <1>3, <2>1, <3>1
    <3>2. CASE v # t
      BY <1>3, <2>2, <3>2 DEF Queues, Nested, Taken
    <3>3. QED
      BY <3>1, <3>2
  <2>3. QED
    BY <1>3, <2>2 DEF Nested, Taken
<1>9. Reasons' /\ ErrorTellsOutcome'
  BY <1>3 DEF Queues, Reasons, ErrorTellsOutcome
<1>10. QED
  BY <1>2, <1>5, <1>6, <1>7, <1>8, <1>9 DEF Queues, Updated

(***************************************************************************)
(* rt_mutex_take after its timer: the owner may lose what it inherited     *)
(* from this thread, and what those it waits for inherited through it.     *)
(***************************************************************************)
LEMMA TakeExpiredUpdates ==
  ASSUME Queues, Priorities, NEW t \in Thread, TakeExpired(t)
  PROVE  Updated(waiters)
<1> USE Types
<1>1. PICK m \in Mutex : m = call[t]
  BY DEF TakeExpired
<1>2. PICK o, mp, p : /\ o = owner[m]
                      /\ mp = [mprio EXCEPT ![m] = HeadPriority(waiters[m], prio)]
                      /\ p = MutexPriority(o, Taken(o), mp)
  OBVIOUS
<1>3. owner' = owner
  BY DEF TakeExpired
<1>4. ASSUME NEW k \in Mutex
      PROVE  waiters[k] \in Seq(Thread) /\ IsInjective(waiters[k]) /\ Sorted(waiters[k], prio)
  BY DEF Queues, Single, Priorities, InOrder
<1>5. /\ HeadPriority(waiters[m], prio) \in Nat
      /\ \A u \in ToSet(waiters[m]) : HeadPriority(waiters[m], prio) <= prio[u]
  BY <1>4, FirstIsMostUrgent
<1>6. mp \in [Mutex -> Nat] /\ mp[m] = HeadPriority(waiters[m], prio)
      /\ \A k \in Mutex : k # m => mp[k] = mprio[k]
  BY <1>2, <1>5
<1>7. ASSUME NEW k \in Mutex, NEW u \in ToSet(waiters[k])
      PROVE  mp[k] <= prio[u]
  BY <1>5, <1>6 DEF Priorities, HeadBound
<1>8. CASE o # NoThread /\ prio[o] = prio[t] /\ p # prio[o]
  <2>1. Adopt(UpdatePriority(o, p, waiters, mp))
    BY <1>1, <1>2, <1>8 DEF TakeExpired
  <2>2. o \in Thread
    BY <1>2, <1>8
  <2>3. p \in Nat /\ p <= InitPriority[o] /\ \A k \in Taken(o) : p <= mp[k]
    BY <1>2, <1>6, <2>2, MutexPriorityBounds DEF Taken
  <2>4. PICK pr : pr = [prio EXCEPT ![o] = p]
    OBVIOUS
  <2>5. pr \in [Thread -> Nat] /\ pr[o] = p /\ \A u \in Thread : u # o => pr[u] = prio[u]
    BY <2>2, <2>3, <2>4
  <2>6. \A u \in Thread : pr[u] <= InitPriority[u]
    BY <2>3, <2>5 DEF Priorities, Within
  <2>7. ASSUME NEW k \in Mutex
        PROVE  SortedBut(waiters[k], pr, o)
    <3>1. PICK q \in Seq(Thread) : q = waiters[k] /\ Sorted(q, prio)
      BY <1>4
    <3>2. ASSUME NEW i \in 1 .. Len(q), NEW j \in 1 .. Len(q), i < j, q[i] # o, q[j] # o
          PROVE  pr[q[i]] <= pr[q[j]]
      <4>1. q[i] \in Thread /\ q[j] \in Thread
        BY SMTT(30)
      <4>2. QED
        BY <2>5, <3>1, <3>2, <4>1 DEF Sorted
    <3>3. QED
      BY <3>1, <3>2 DEF SortedBut
  <2>8. ASSUME NEW k \in Mutex, NEW u \in ToSet(waiters[k]), u # o
        PROVE  mp[k] <= pr[u]
    <3>1. u \in Thread
      BY ListType
    <3>2. QED
      BY <1>7, <2>5, <2>8, <3>1
  <2>9. ASSUME NEW k \in Mutex, owner[k] # NoThread
        PROVE  pr[owner[k]] <= mp[k]
    <3>1. CASE owner[k] = o
      BY <2>3, <2>5, <3>1 DEF Taken
    <3>2. CASE owner[k] # o
      <4>1. k # m /\ owner[k] \in Thread
        BY <1>2, <2>9, <3>2
      <4>2. QED
        BY <1>6, <2>5, <2>9, <3>2, <4>1 DEF Priorities, OwnerBound
    <3>3. QED
      BY <3>1, <3>2
  <2>10. \E k \in Taken(o) : m <= k
    <3>1. m \in Taken(o) /\ m <= m
      BY <1>2, MutexAssumption DEF Taken
    <3>2. QED
      BY <3>1
  <2>11. Started(o, p, waiters, mp) \in Walk(waiters, m)
    <3>1. Started(o, p, waiters, mp)
          = [thread |-> o, prio |-> pr, waiters |-> waiters, mprio |-> mp]
      BY <2>4 DEF Started
    <3>2. QED
      BY <1>4, <1>6, <2>2, <2>5, <2>6, <2>7, <2>8, <2>9, <2>10, <3>1, SMTT(30) DEF Walk
  <2>12. Placed(waiters, m)
    BY DEF Queues, Listed, Placed
  <2>13. QED
    BY <1>3, <2>1, <2>11, <2>12, Adopted DEF Queues
<1>9. CASE ~ (o # NoThread /\ prio[o] = prio[t] /\ p # prio[o])
  <2>1. waiters' = waiters /\ mprio' = mp /\ prio' = prio
    BY <1>1, <1>2, <1>9 DEF TakeExpired
  <2>2. Within' /\ InOrder' /\ HeadBound'
    BY <1>4, <1>7, <2>1 DEF Priorities, Within, InOrder, HeadBound
  <2>3. ASSUME NEW k \in Mutex, owner[k] # NoThread
        PROVE  prio[owner[k]] <= mp[k]
    <3>1. prio[owner[k]] <= mprio[k] /\ owner[k] \in Thread
      BY <2>3 DEF Priorities, OwnerBound
    <3>2. CASE k # m
      BY <1>6, <3>1, <3>2
    <3>3. CASE k = m /\ waiters[m] = <<>>
      BY <1>6, <3>1, <3>3, MutexAssumption, PriorityAssumption
         DEF HeadPriority, Priorities, Within
    <3>4. CASE k = m /\ waiters[m] # <<>>
      <4>1. Head(waiters[m]) \in Thread /\ Head(waiters[m]) \in ToSet(waiters[m])
        BY <1>4, <3>4, FirstAndRest
      <4>2. mprio[m] <= prio[Head(waiters[m])]
        BY <4>1 DEF Priorities, HeadBound
      <4>3. /\ mp[m] = prio[Head(waiters[m])]
            /\ prio[owner[m]] \in Nat /\ mprio[m] \in Nat /\ prio[Head(waiters[m])] \in Nat
        BY <1>6, <3>1, <3>4, <4>1 DEF HeadPriority
      <4>4. QED
        BY <3>1, <3>4, <4>2, <4>3
    <3>5. QED
      BY <3>2, <3>3, <3>4
  <2>4. OwnerBound'
    BY <1>3, <2>1, <2>3 DEF OwnerBound
  <2>5. QED
    BY <1>4, <1>6, <2>1, <2>2, <2>4 DEF Updated, Priorities
<1>10. QED
  BY <1>8, <1>9

LEMMA TakeExpiredKeeps ==
  ASSUME Queues, Priorities, NEW t \in Thread, TakeExpired(t), UNCHANGED semVars
  PROVE  Queues' /\ Priorities'
<1>1. Updated(waiters)
  BY TakeExpiredUpdates
<1>2. /\ stat[t] = "ready" /\ call[t] \in Mutex /\ Return(t)
      /\ UNCHANGED <<stat, timer, owner, hold, value, sleepers, given>>
  BY DEF TakeExpired, Runs, semVars
<1>3. TypeOK'
  BY <1>1, <1>2, Types DEF Updated, Return, TypeOK, SchedTypeOK, MutexTypeOK, SemTypeOK
<1>4. (Listed /\ Single /\ Nested /\ Reasons /\ ErrorTellsOutcome)'
  BY <1>1, <1>2, ReturnKeeps DEF Updated
<1>5. QED
  BY <1>1, <1>3, <1>4 DEF Queues, Updated

-----------------------------------------------------------------------------
\* The inductive invariant.
LockInv == Queues /\ Priorities

LEMMA LockInit == Init => LockInv
<1> SUFFICES ASSUME Init PROVE LockInv
  OBVIOUS
<1> USE PriorityAssumption, MutexAssumption, SemAssumption, SemaphoreAssumption
<1> USE DEF Init, SchedInit, MutexInit, SemInit
<1>1. TypeOK
  BY DEF TypeOK, SchedTypeOK, MutexTypeOK, SemTypeOK
<1>2. ToSet(<<>>) = {} /\ IsInjective(<<>>)
  BY DEF ToSet, IsInjective
<1>3. Listed /\ Single
  BY <1>2 DEF Listed, Single
<1>4. Nested /\ Reasons
  BY DEF Nested, Reasons
<1>5. ErrorTellsOutcome
  BY DEF ErrorTellsOutcome
<1>6. Within
  BY DEF Within
<1>7. InOrder
  BY DEF InOrder, Sorted
<1>8. HeadBound
  BY <1>2 DEF HeadBound
<1>9. OwnerBound
  BY DEF OwnerBound
<1>10. QED
  BY <1>1, <1>3, <1>4, <1>5, <1>6, <1>7, <1>8, <1>9 DEF LockInv, Queues, Priorities

LEMMA StutterKeeps ==
  ASSUME Queues, Priorities, UNCHANGED vars
  PROVE  Queues' /\ Priorities'
<1> USE DEF vars, schedVars, mutexVars, semVars
<1>1. TypeOK'
  BY DEF Queues, TypeOK, SchedTypeOK, MutexTypeOK, SemTypeOK
<1>2. (Listed /\ Single /\ Nested /\ Reasons /\ ErrorTellsOutcome)'
  BY DEF Queues, Listed, Single, Nested, Reasons, ErrorTellsOutcome, Taken
<1>3. QED
  BY <1>1, <1>2, SamePriorities DEF Queues

LEMMA LockNext == LockInv /\ [Next]_vars => LockInv'
<1> SUFFICES ASSUME Queues, Priorities, [Next]_vars PROVE Queues' /\ Priorities'
  BY DEF LockInv
<1>1. CASE Release
  <2>1. UNCHANGED <<prio, mprio, owner, waiters>>
    BY <1>1 DEF Release, SemRelease, mutexVars, schedVars
  <2>2. QED
    BY <1>1, <2>1, ReleaseKeeps, SamePriorities
<1>2. ASSUME NEW t \in Thread, NEW m \in Mutex, MutexStep(t, m), UNCHANGED semVars
      PROVE  Queues' /\ Priorities'
  <2>1. CASE TakeAgain(t, m)
    <3>1. UNCHANGED <<prio, mprio, owner, waiters>>
      BY <2>1 DEF TakeAgain
    <3>2. QED
      BY <1>2, <2>1, <3>1, TakeAgainKeeps, SamePriorities
  <2>2. CASE TakeFree(t, m)
    BY <1>2, <2>2, TakeFreeKeeps
  <2>3. ASSUME NEW timed \in BOOLEAN, TakeWait(t, m, timed) PROVE Queues' /\ Priorities'
    BY <1>2, <2>3, TakeWaitKeeps
  <2>4. CASE ReleaseInner(t, m)
    <3>1. UNCHANGED <<prio, mprio, owner, waiters>>
      BY <2>4 DEF ReleaseInner, schedVars
    <3>2. QED
      BY <1>2, <2>4, <3>1, ReleaseInnerKeeps, SamePriorities
  <2>5. CASE ReleaseTo(t, m)
    BY <1>2, <2>5, ReleaseToKeeps
  <2>6. CASE ReleaseFree(t, m)
    BY <1>2, <2>6, ReleaseFreeKeeps
  <2>7. QED
    BY <1>2, <2>1, <2>2, <2>3, <2>4, <2>5, <2>6 DEF MutexStep
<1>3. ASSUME NEW t \in Thread, TakeGranted(t), UNCHANGED semVars PROVE Queues' /\ Priorities'
  <2>1. UNCHANGED <<prio, mprio, owner, waiters>>
    BY <1>3 DEF TakeGranted, mutexVars
  <2>2. QED
    BY <1>3, <2>1, TakeGrantedKeeps, SamePriorities
<1>4. ASSUME NEW t \in Thread, TakeExpired(t), UNCHANGED semVars PROVE Queues' /\ Priorities'
  BY <1>4, TakeExpiredKeeps
<1>5. ASSUME NEW t \in Thread, SemTake(t) PROVE Queues' /\ Priorities'
  <2>1. UNCHANGED <<prio, mprio, owner, waiters>>
    BY <1>5 DEF SemTake, SemAvailable, mutexVars, schedVars
  <2>2. QED
    BY <1>5, <2>1, SemTakeKeeps, SamePriorities
<1>6. ASSUME NEW t \in Thread, SemReturn(t) PROVE Queues' /\ Priorities'
  <2>1. UNCHANGED <<prio, mprio, owner, waiters>>
    BY <1>6 DEF SemReturn, mutexVars
  <2>2. QED
    BY <1>6, <2>1, SemReturnKeeps, SamePriorities
<1>7. ASSUME NEW t \in Thread, NEW timed \in BOOLEAN, SemWait(t, timed)
      PROVE  Queues' /\ Priorities'
  <2>1. UNCHANGED <<prio, mprio, owner, waiters>>
    BY <1>7 DEF SemWait, SemSleep, mutexVars
  <2>2. QED
    BY <1>7, <2>1, SemWaitKeeps, SamePriorities
<1>8. ASSUME NEW t \in Thread, Timeout(t) PROVE Queues' /\ Priorities'
  BY <1>8, TimeoutKeeps
<1>9. CASE UNCHANGED vars
  BY <1>9, StutterKeeps
<1>10. QED
  BY <1>1, <1>2, <1>3, <1>4, <1>5, <1>6, <1>7, <1>8, <1>9 DEF Next

LEMMA LockAlways == Spec => []LockInv
BY LockInit, LockNext, PTL DEF Spec

(***************************************************************************)
(* The types of the kernel state, for any threads, priorities, nested      *)
(* mutexes and limits: no list, count, priority or pending call leaves its *)
(* range.                                                                  *)
(***************************************************************************)
THEOREM TypeCorrect == Spec => []TypeOK
<1>1. LockInv => TypeOK
  BY DEF LockInv, Queues
<1>2. QED
  BY <1>1, LockAlways, PTL

(***************************************************************************)
(* The results of rt_sem_take and rt_mutex_take tell what happened: a      *)
(* caller that comes back without an error was handed the token or owns    *)
(* the mutex, and one that comes back with an error did not get it,        *)
(* whatever timeouts, releases and boosts were interleaved.                *)
(***************************************************************************)
THEOREM ResultsTellOutcome == Spec => []ErrorTellsOutcome
<1>1. LockInv => ErrorTellsOutcome
  BY DEF LockInv, Queues
<1>2. QED
  BY <1>1, LockAlways, PTL

(***************************************************************************)
(* No priority inversion by any chain of owners: the owner of a mutex is   *)
(* at least as urgent as everybody on its list, in every reachable state   *)
(* of any number of threads and of finitely many mutexes that are nested   *)
(* in one order.                                                           *)
(***************************************************************************)
THEOREM NoInversion == Spec => []OwnerServesWaiters
<1>1. ASSUME LockInv, NEW m \in Mutex, NEW t \in ToSet(waiters[m])
      PROVE  prio[owner[m]] <= prio[t]
  <2>1. t \in Thread /\ stat[t] = "suspended" /\ call[t] = m
    BY <1>1, Types, ListType DEF LockInv, Queues, Listed
  <2>2. owner[m] # NoThread
    BY <1>1, <2>1 DEF LockInv, Queues, Nested
  <2>3. owner[m] \in Thread
    BY <1>1, <2>2, Types DEF LockInv
  <2>4. prio[owner[m]] <= mprio[m] /\ mprio[m] <= prio[t]
    BY <1>1, <2>2 DEF LockInv, Priorities, OwnerBound, HeadBound
  <2>5. prio[owner[m]] \in Nat /\ mprio[m] \in Nat /\ prio[t] \in Nat
    BY <1>1, <2>1, <2>3, Types DEF LockInv
  <2>6. QED
    BY <2>4, <2>5
<1>2. LockInv => OwnerServesWaiters
  BY <1>1 DEF OwnerServesWaiters
<1>3. QED
  BY <1>2, LockAlways, PTL

-----------------------------------------------------------------------------
\* The mutexes implement PriorityLock.

\* The mapping to PriorityLock forgets the order of the lists.
WaitSets == [m \in Mutex |-> ToSet(waiters[m])]
LockStep == Locks!Next \/ UNCHANGED <<owner, WaitSets>>

\* Re-sorting the lists is no step of the abstract lock.
LEMMA LocksUnmoved ==
  ASSUME UNCHANGED owner, \A m \in Mutex : ToSet(waiters'[m]) = ToSet(waiters[m])
  PROVE  LockStep
BY DEF LockStep, WaitSets

LEMMA TakeFreeAcquires ==
  ASSUME Queues, NEW t \in Thread, NEW m \in Mutex, TakeFree(t, m)
  PROVE  LockStep
<1>1. Locks!Acquire(t, m)
  BY DEF TakeFree, Locks!Acquire
<1>2. QED
  BY <1>1 DEF LockStep, Locks!Next

LEMMA TakeWaitWaits ==
  ASSUME Queues, Priorities, NEW t \in Thread, NEW m \in Mutex, NEW timed \in BOOLEAN,
         TakeWait(t, m, timed)
  PROVE  LockStep
<1> USE Types
<1>1. PICK w, mp : /\ w = [waiters EXCEPT ![m] = EnqueuePrio(waiters[m], t, prio)]
                   /\ mp = [mprio EXCEPT ![m] = Min({mprio[m], prio[t]})]
  OBVIOUS
<1>2. Updated(w)
  BY <1>1, TakeWaitUpdates DEF Enqueued
<1>3. ASSUME NEW k \in Mutex
      PROVE  ToSet(waiters'[k]) = IF k = m THEN ToSet(waiters[k]) \cup {t} ELSE ToSet(waiters[k])
  <2>1. ToSet(w[k]) = IF k = m THEN ToSet(waiters[k]) \cup {t} ELSE ToSet(waiters[k])
    BY <1>1, EnqueueProperties
  <2>2. QED
    BY <1>2, <2>1 DEF Updated
<1>4. WaitSets' = [WaitSets EXCEPT ![m] = @ \cup {t}]
  BY <1>3 DEF WaitSets
<1>5. owner[m] \notin {t, NoThread} /\ owner' = owner
  BY DEF TakeWait
<1>6. Locks!Wait(t, m)
  BY <1>4, <1>5 DEF WaitSets, Locks!Wait
<1>7. QED
  BY <1>6 DEF LockStep, Locks!Next

LEMMA TimeoutGivesUp ==
  ASSUME Queues, NEW t \in Thread, Timeout(t)
  PROVE  LockStep
<1> USE Types
<1>1. /\ stat[t] = "suspended" /\ owner' = owner
      /\ waiters' = [m \in Mutex |-> IF call[t] = m THEN RemoveFirst(waiters[m], t)
                                                    ELSE waiters[m]]
  BY DEF Timeout
<1>2. CASE call[t] \in Mutex
  <2>1. PICK m \in Mutex : m = call[t]
    BY <1>2
  <2>2. t \in ToSet(waiters[m]) /\ IsInjective(waiters[m])
    BY <1>1, <2>1 DEF Queues, Listed, Single
  <2>3. ToSet(RemoveFirst(waiters[m], t)) = ToSet(waiters[m]) \ {t}
    BY <2>2, RemoveProperties
  <2>4. WaitSets' = [WaitSets EXCEPT ![m] = @ \ {t}]
    BY <1>1, <2>1, <2>3 DEF WaitSets
  <2>5. Locks!GiveUp(t, m)
    BY <1>1, <2>2, <2>4 DEF WaitSets, Locks!GiveUp
  <2>6. QED
    BY <2>5 DEF LockStep, Locks!Next
<1>3. CASE call[t] \notin Mutex
  BY <1>1, <1>3, LocksUnmoved
<1>4. QED
  BY <1>2, <1>3

LEMMA ReleaseHandsOver ==
  ASSUME Queues, Priorities, NEW t \in Thread, NEW m \in Mutex, ReleaseTo(t, m)
  PROVE  LockStep
<1> USE Types
<1>1. PICK u : u = Head(waiters[m])
  OBVIOUS
<1>2. /\ waiters[m] # <<>> /\ waiters[m] \in Seq(Thread)
      /\ owner' = [owner EXCEPT ![m] = u]
      /\ waiters' = [waiters EXCEPT ![m] = Tail(waiters[m])]
  BY <1>1 DEF ReleaseTo
<1>3. /\ u \in Thread /\ u \in ToSet(waiters[m])
      /\ ToSet(Tail(waiters[m])) = ToSet(waiters[m]) \ {u}
  BY <1>1, <1>2, FirstAndRest DEF Queues, Single
<1>4. \A v \in ToSet(waiters[m]) : prio[u] <= prio[v]
  BY <1>1, <1>2, SortedRest DEF Priorities, InOrder
<1>5. WaitSets' = [WaitSets EXCEPT ![m] = @ \ {u}]
  BY <1>2, <1>3 DEF WaitSets
<1>6. Locks!HandOver(u, m)
  BY <1>2, <1>3, <1>4, <1>5 DEF WaitSets, Locks!HandOver
<1>7. QED
  BY <1>3, <1>6 DEF LockStep, Locks!Next

LEMMA ReleaseFrees ==
  ASSUME Queues, NEW t \in Thread, NEW m \in Mutex, ReleaseFree(t, m)
  PROVE  LockStep
<1>1. ToSet(waiters[m]) = {}
  BY DEF ReleaseFree, ToSet
<1>2. owner[m] # NoThread /\ owner' = [owner EXCEPT ![m] = NoThread] /\ waiters' = waiters
  BY MutexAssumption DEF ReleaseFree
<1>3. Locks!Free(m)
  BY <1>1, <1>2 DEF Locks!Free
<1>4. QED
  BY <1>3 DEF LockStep, Locks!Next

\* Each step of the kernel is a step of the abstract lock, or none.
LEMMA StepRefines == LockInv /\ [Next]_vars => LockStep
<1> SUFFICES ASSUME Queues, Priorities, [Next]_vars PROVE LockStep
  BY DEF LockInv
<1>1. CASE Release
  BY <1>1, LocksUnmoved DEF Release, mutexVars
<1>2. ASSUME NEW t \in Thread, NEW m \in Mutex, MutexStep(t, m)
      PROVE  LockStep
  <2>1. CASE TakeAgain(t, m) \/ ReleaseInner(t, m)
    BY <2>1, LocksUnmoved DEF TakeAgain, ReleaseInner
  <2>2. CASE TakeFree(t, m)
    BY <2>2, TakeFreeAcquires
  <2>3. ASSUME NEW timed \in BOOLEAN, TakeWait(t, m, timed) PROVE LockStep
    BY <2>3, TakeWaitWaits
  <2>4. CASE ReleaseTo(t, m)
    BY <2>4, ReleaseHandsOver
  <2>5. CASE ReleaseFree(t, m)
    BY <2>5, ReleaseFrees
  <2>6. QED
    BY <1>2, <2>1, <2>2, <2>3, <2>4, <2>5 DEF MutexStep
<1>3. ASSUME NEW t \in Thread, TakeGranted(t) PROVE LockStep
  BY <1>3, LocksUnmoved DEF TakeGranted, mutexVars
<1>4. ASSUME NEW t \in Thread, TakeExpired(t) PROVE LockStep
  <2>1. Updated(waiters) /\ owner' = owner
    BY <1>4, TakeExpiredUpdates DEF TakeExpired
  <2>2. QED
    BY <2>1, LocksUnmoved DEF Updated
<1>5. ASSUME NEW t \in Thread, SemTake(t) \/ SemReturn(t) PROVE LockStep
  BY <1>5, LocksUnmoved DEF SemTake, SemReturn, mutexVars
<1>6. ASSUME NEW t \in Thread, NEW timed \in BOOLEAN, SemWait(t, timed) PROVE LockStep
  BY <1>6, LocksUnmoved DEF SemWait, mutexVars
<1>7. ASSUME NEW t \in Thread, Timeout(t) PROVE LockStep
  BY <1>7, TimeoutGivesUp
<1>8. CASE UNCHANGED vars
  BY <1>8, LocksUnmoved DEF vars, mutexVars
<1>9. QED
  BY <1>1, <1>2, <1>3, <1>4, <1>5, <1>6, <1>7, <1>8 DEF Next

(***************************************************************************)
(* Every mutex implements the abstract lock: whatever happens to the order *)
(* of its list, rt_mutex_release hands it to a waiter that is at that      *)
(* moment the most urgent, and to nobody else.                             *)
(***************************************************************************)
THEOREM Refinement == Spec => ImplementsPriorityLock
<1>1. Init => Locks!Init
  BY DEF Init, MutexInit, Locks!Init, ToSet
<1>2. LockInv /\ [Next]_vars => [Locks!Next]_<<owner, WaitSets>>
  BY StepRefines DEF LockStep
<1>3. LockInv /\ [Next]_vars
      => [Locks!Next]_<<owner, [m \in Mutex |-> ToSet(waiters[m])]>>
  BY <1>2 DEF WaitSets
<1>4. QED
  BY <1>1, <1>3, LockAlways, PTL DEF Spec, ImplementsPriorityLock, Locks!Spec

-----------------------------------------------------------------------------
\* Priorities that are neither less nor more urgent than they must be.

\* A mutex is as urgent as the first of those who wait for it, or not at all.
HeadExact == \A m \in Mutex : mprio[m] = HeadPriority(waiters[m], prio)

\* A thread is as urgent as what it has taken makes it.
OwnerExact == \A t \in Thread : prio[t] = MutexPriority(t, Taken(t), mprio)

\* Who comes back from waiting for a mutex has got it.
NoneExpired == \A t \in Thread : stat[t] = "ready" /\ call[t] \in Mutex => owner[call[t]] = t

Exact == HeadExact /\ OwnerExact /\ NoneExpired

\* Threads wait for mutexes with RT_WAITING_FOREVER, as in dev_spi_core.c.
WaitsForever ==
  \A t \in Thread : stat[t] = "suspended" /\ call[t] \in Mutex => timer[t] = "off"

LEMMA LeastIs ==
  ASSUME NEW S \in SUBSET Nat, NEW x \in S, \A k \in S : x <= k
  PROVE  Min(S) = x
<1>1. Min(S) \in S /\ \A k \in S : Min(S) <= k
  BY Minimum
<1>2. Min(S) <= x /\ x <= Min(S) /\ Min(S) \in Nat /\ x \in Nat
  BY <1>1
<1>3. QED
  BY <1>2

\* The first of a list does not change its priority when a thread that is not
\* on the list does.
LEMMA HeadSame ==
  ASSUME NEW list \in Seq(Thread), NEW y, y \notin ToSet(list), NEW pr, NEW qr,
         \A u \in Thread : u # y => qr[u] = pr[u]
  PROVE  HeadPriority(list, qr) = HeadPriority(list, pr)
<1>1. CASE list = <<>>
  BY <1>1 DEF HeadPriority
<1>2. CASE list # <<>>
  <2>1. Head(list) = list[1] /\ 1 \in DOMAIN list /\ list[1] \in Thread
    BY <1>2
  <2>2. Head(list) \in ToSet(list)
    BY <2>1 DEF ToSet
  <2>3. QED
    BY <1>2, <2>1, <2>2 DEF HeadPriority
<1>3. QED
  BY <1>1, <1>2

\* What a mutex inherits when one more thread waits for it.
LEMMA HeadOfEnqueue ==
  ASSUME NEW list \in Seq(Thread), NEW t \in Thread, NEW pr \in [Thread -> Nat],
         Sorted(list, pr), pr[t] < NoPriority
  PROVE  HeadPriority(EnqueuePrio(list, t, pr), pr) = Min({HeadPriority(list, pr), pr[t]})
<1>1. PICK new : new = EnqueuePrio(list, t, pr)
  OBVIOUS
<1>2. new \in Seq(Thread) /\ ToSet(new) = ToSet(list) \cup {t} /\ Sorted(new, pr)
  BY <1>1, EnqueueProperties
<1>3. PICK h : h = HeadPriority(list, pr)
  OBVIOUS
<1>4. h \in Nat /\ \A u \in ToSet(list) : h <= pr[u]
  BY <1>3, FirstIsMostUrgent
<1>5. PICK n : n = HeadPriority(new, pr)
  OBVIOUS
<1>6. n \in Nat /\ \A u \in ToSet(new) : n <= pr[u]
  BY <1>2, <1>5, FirstIsMostUrgent
<1>7. PICK u \in ToSet(new) : n = pr[u]
  <2>1. new # <<>>
    <3>1. ToSet(<<>>) = {}
      BY DEF ToSet
    <3>2. QED
      BY <1>2, <3>1
  <2>2. Head(new) = new[1] /\ 1 \in DOMAIN new
    BY <1>2, <2>1
  <2>3. QED
    BY <1>5, <2>1, <2>2 DEF HeadPriority, ToSet
<1>8. n <= pr[t] /\ pr[t] \in Nat
  BY <1>2, <1>6
<1>9. n <= h
  <2>1. CASE list = <<>>
    <3>1. h = NoPriority
      BY <1>3, <2>1 DEF HeadPriority
    <3>2. QED
      BY <1>4, <1>6, <1>8, <3>1
  <2>2. CASE list # <<>>
    <3>1. Head(list) = list[1] /\ 1 \in DOMAIN list
      BY <2>2
    <3>2. Head(list) \in ToSet(list)
      BY <3>1 DEF ToSet
    <3>3. QED
      BY <1>2, <1>3, <1>6, <2>2, <3>2 DEF HeadPriority
  <2>3. QED
    BY <2>1, <2>2
<1>10. n \in {h, pr[t]}
  <2>1. CASE u = t
    BY <1>7, <2>1
  <2>2. CASE u # t
    BY <1>2, <1>4, <1>6, <1>7, <1>9, <2>2
  <2>3. QED
    BY <2>1, <2>2
<1>11. Min({h, pr[t]}) = n
  BY <1>4, <1>6, <1>8, <1>9, <1>10, LeastIs
<1>12. QED
  BY <1>1, <1>3, <1>5, <1>11

\* _thread_get_mutex_priority reads only the mutexes the thread has taken.
LEMMA PrioritySame ==
  ASSUME NEW t, NEW taken, NEW mp, NEW np, \A k \in taken : np[k] = mp[k]
  PROVE  MutexPriority(t, taken, np) = MutexPriority(t, taken, mp)
<1>1. {np[k] : k \in taken} = {mp[k] : k \in taken}
  OBVIOUS
<1>2. QED
  BY <1>1, Zenon DEF MutexPriority

\* With no mutex taken it is the thread's own.
LEMMA PriorityOfNone ==
  ASSUME NEW t \in Thread, NEW mp
  PROVE  MutexPriority(t, {}, mp) = InitPriority[t]
<1>1. {InitPriority[t]} \in SUBSET Nat /\ \A k \in {InitPriority[t]} : InitPriority[t] <= k
  BY PriorityAssumption
<1>2. Min({InitPriority[t]}) = InitPriority[t]
  BY <1>1, LeastIs
<1>3. {InitPriority[t]} \cup {mp[m] : m \in {}} = {InitPriority[t]}
  OBVIOUS
<1>4. QED
  BY <1>2, <1>3, Zenon DEF MutexPriority

\* One more mutex makes it more urgent only if the mutex is.
LEMMA PriorityMore ==
  ASSUME NEW t \in Thread, NEW taken \in SUBSET Mutex, NEW m \in Mutex,
         NEW mp \in [Mutex -> Nat]
  PROVE  MutexPriority(t, taken \cup {m}, mp) =
           IF mp[m] < MutexPriority(t, taken, mp) THEN mp[m] ELSE MutexPriority(t, taken, mp)
<1>1. PICK P, Q : /\ P = {InitPriority[t]} \cup {mp[k] : k \in taken}
                  /\ Q = {InitPriority[t]} \cup {mp[k] : k \in taken \cup {m}}
  OBVIOUS
<1>2. Q = P \cup {mp[m]} /\ P \in SUBSET Nat /\ P # {} /\ mp[m] \in Nat
  BY <1>1, PriorityAssumption
<1>3. PICK p : p = MutexPriority(t, taken, mp)
  OBVIOUS
<1>4. p = Min(P) /\ MutexPriority(t, taken \cup {m}, mp) = Min(Q)
  BY <1>1, <1>3, Zenon DEF MutexPriority
<1>5. p \in P /\ \A k \in P : p <= k
  BY <1>2, <1>4, Minimum
<1>6. p \in Nat /\ P \subseteq Nat /\ Q \in SUBSET Nat
  BY <1>2, <1>5
<1>7. CASE mp[m] < p
  <2>1. \A k \in Q : mp[m] <= k
    BY <1>2, <1>5, <1>6, <1>7
  <2>2. mp[m] \in Q
    BY <1>2
  <2>3. Min(Q) = mp[m]
    BY <1>6, <2>1, <2>2, LeastIs
  <2>4. QED
    BY <1>3, <1>4, <1>7, <2>3
<1>8. CASE ~ (mp[m] < p)
  <2>1. \A k \in Q : p <= k
    BY <1>2, <1>5, <1>6, <1>8
  <2>2. p \in Q
    BY <1>2, <1>5
  <2>3. Min(Q) = p
    BY <1>6, <2>1, <2>2, LeastIs
  <2>4. QED
    BY <1>3, <1>4, <1>8, <2>3
<1>9. QED
  BY <1>7, <1>8

(***************************************************************************)
(* The loop of _thread_update_priority puts one pair of mutex and owner    *)
(* right after the other: only the mutex that s.thread waits for may not   *)
(* be as urgent as its first waiter yet.                                   *)
(***************************************************************************)
WalkExact(w, m) ==
  {s \in Walk(w, m) :
     /\ \A k \in Mutex : s.thread \notin ToSet(w[k]) =>
          s.mprio[k] = HeadPriority(s.waiters[k], s.prio)
     /\ \A t \in Thread : s.prio[t] = MutexPriority(t, Taken(t), s.mprio)}

LEMMA OwnerExactly ==
  ASSUME owner \in [Mutex -> Thread \cup {NoThread}], Nested,
         NEW w, NEW m \in Mutex, Placed(w, m), NEW s \in WalkExact(w, m), Pending(s)
  PROVE  UpdateOwner(s) \in WalkExact(w, m)
<1> USE DEF WalkExact
<1>1. PICK x \in Thread : x = s.thread /\ stat[x] = "suspended" /\ call[x] \in Mutex
  BY DEF Pending, Walk
<1>2. PICK c \in Mutex : c = call[x]
  BY <1>1
<1>3. PICK o \in Thread : o = owner[c]
  BY <1>1, <1>2 DEF Nested
<1>4. PICK list, mp, p, pr :
        /\ list = EnqueuePrio(RemoveFirst(s.waiters[c], x), x, s.prio)
        /\ mp = [s.mprio EXCEPT ![c] = HeadPriority(list, s.prio)]
        /\ p = MutexPriority(o, Taken(o), mp)
        /\ pr = [s.prio EXCEPT ![o] = p]
  OBVIOUS
<1>5. PICK y : y = IF p = s.prio[o] THEN NoThread ELSE o
  OBVIOUS
<1>6. UpdateOwner(s) = [thread |-> y, prio |-> pr,
                        waiters |-> [s.waiters EXCEPT ![c] = list], mprio |-> mp]
  BY <1>1, <1>2, <1>3, <1>4, <1>5, Zenon DEF UpdateOwner
<1>7. PICK z : z = UpdateOwner(s)
  OBVIOUS
<1>8. z \in Walk(w, m) /\ s \in Walk(w, m)
  BY <1>7, OwnerUpdated
<1>9. /\ s.prio \in [Thread -> Nat] /\ s.mprio \in [Mutex -> Nat]
      /\ s.waiters \in [Mutex -> Seq(Thread)] /\ z.waiters \in [Mutex -> Seq(Thread)]
      /\ z.mprio \in [Mutex -> Nat]
  BY <1>8 DEF Walk
<1>10. /\ z.thread = y /\ z.prio = pr /\ z.mprio = mp
       /\ z.waiters = [s.waiters EXCEPT ![c] = list]
  BY <1>6, <1>7
<1>11. mp[c] = HeadPriority(list, s.prio) /\ \A k \in Mutex : k # c => mp[k] = s.mprio[k]
  BY <1>4, <1>9
<1>12. pr[o] = p /\ \A t \in Thread : t # o => pr[t] = s.prio[t]
  BY <1>4, <1>9
<1>13. \A t \in Thread : t # y => pr[t] = s.prio[t]
  BY <1>4, <1>5, <1>9, <1>12
<1>14. \A k \in Mutex : z.waiters[k] = IF k = c THEN list ELSE s.waiters[k]
  BY <1>9, <1>10
<1>15. ASSUME NEW k \in Mutex, y \notin ToSet(w[k])
       PROVE  mp[k] = HeadPriority(z.waiters[k], pr)
  <2>1. PICK q \in Seq(Thread) : q = z.waiters[k] /\ ToSet(q) = ToSet(w[k])
    BY <1>8, <1>9 DEF Walk
  <2>2. HeadPriority(q, pr) = HeadPriority(q, s.prio)
    BY <1>13, <1>15, <2>1, HeadSame
  <2>3. mp[k] = HeadPriority(q, s.prio)
    <3>1. CASE k = c
      BY <1>11, <1>14, <2>1, <3>1
    <3>2. CASE k # c
      <4>1. \E j \in Taken(x) : m <= j
        BY <1>1, <1>8, MutexAssumption DEF Walk
      <4>2. x \notin ToSet(w[k])
        BY <1>1, <1>2, <3>2, <4>1 DEF Placed
      <4>3. s.mprio[k] = HeadPriority(s.waiters[k], s.prio)
        BY <1>1, <4>2
      <4>4. QED
        BY <1>11, <1>14, <2>1, <3>2, <4>3
    <3>3. QED
      BY <3>1, <3>2
  <2>4. QED
    BY <2>1, <2>2, <2>3
<1>16. ASSUME NEW t \in Thread
       PROVE  pr[t] = MutexPriority(t, Taken(t), mp)
  <2>1. CASE t = o
    BY <1>4, <1>12, <2>1
  <2>2. CASE t # o
    <3>1. \A k \in Taken(t) : mp[k] = s.mprio[k]
      BY <1>3, <1>11, <2>2 DEF Taken
    <3>2. MutexPriority(t, Taken(t), mp) = MutexPriority(t, Taken(t), s.mprio)
      BY <3>1, PrioritySame
    <3>3. QED
      BY <1>12, <2>2, <3>2
  <2>3. QED
    BY <2>1, <2>2
<1>17. QED
  BY <1>7, <1>8, <1>10, <1>15, <1>16

(***************************************************************************)
(* When it has ended, everything is as urgent as it must be, and no more.  *)
(***************************************************************************)
LEMMA AdoptedExactly ==
  ASSUME owner \in [Mutex -> Thread \cup {NoThread}], Nested,
         NEW w, NEW m \in Mutex, Placed(w, m), NEW t, NEW p, NEW mp,
         Started(t, p, w, mp) \in WalkExact(w, m),
         Adopt(UpdatePriority(t, p, w, mp)), owner' = owner
  PROVE  HeadExact' /\ OwnerExact'
<1>1. PICK r : r = UpdatePriority(t, p, w, mp)
  OBVIOUS
<1>2. r \in WalkExact(w, m) /\ ~ Pending(r)
  <2>1. WalkExact(w, m) \in SUBSET Walk(w, m)
    BY DEF WalkExact
  <2>2. ASSUME NEW s \in WalkExact(w, m)
        PROVE  UpdateTurn(s) \in WalkExact(w, m)
    BY OwnerExactly DEF UpdateTurn, Pending
  <2>3. QED
    BY <1>1, <2>1, <2>2, UpdateSettles
<1>3. prio' = r.prio /\ waiters' = r.waiters /\ mprio' = r.mprio
  BY <1>1 DEF Adopt
<1>4. ASSUME NEW k \in Mutex
      PROVE  r.thread \notin ToSet(w[k])
  <2>1. PICK q \in Seq(Thread) : ToSet(q) = ToSet(w[k])
    BY <1>2 DEF WalkExact, Walk
  <2>2. CASE r.thread = NoThread
    BY <2>1, <2>2, ListType, MutexAssumption
  <2>3. CASE r.thread # NoThread
    <3>1. r.thread \in Thread /\ \E j \in Taken(r.thread) : m <= j
      BY <1>2, <2>3 DEF WalkExact, Walk
    <3>2. ~ (stat[r.thread] = "suspended" /\ call[r.thread] = k)
      BY <1>2, <2>3 DEF Pending
    <3>3. QED
      BY <3>1, <3>2 DEF Placed
  <2>4. QED
    BY <2>2, <2>3
<1>5. HeadExact'
  BY <1>2, <1>3, <1>4 DEF WalkExact, HeadExact
<1>6. \A u \in Thread : r.prio[u] = MutexPriority(u, Taken(u), r.mprio)
  BY <1>2 DEF WalkExact
<1>7. ASSUME NEW u \in Thread
      PROVE  prio'[u] = MutexPriority(u, Taken(u)', mprio')
  BY <1>3, <1>6 DEF Taken
<1>8. OwnerExact'
  BY <1>7 DEF OwnerExact, MutexPriority
<1>9. QED
  BY <1>5, <1>8

-----------------------------------------------------------------------------
LEMMA TakeFreeExactly ==
  ASSUME Queues, Priorities, Exact, NEW t \in Thread, NEW m \in Mutex, TakeFree(t, m)
  PROVE  Exact'
<1> USE Types
<1>1. /\ call[t] = NoCall /\ owner[m] = NoThread
      /\ owner' = [owner EXCEPT ![m] = t] /\ mprio' = [mprio EXCEPT ![m] = NoPriority]
      /\ UNCHANGED <<stat, prio, waiters, call>>
  BY DEF TakeFree, CallsMutex
<1>2. waiters[m] = <<>>
  <2>1. ASSUME NEW u \in ToSet(waiters[m])
        PROVE  FALSE
    BY <1>1, <2>1, ListType DEF Queues, Listed, Nested
  <2>2. ASSUME waiters[m] # <<>>
        PROVE  waiters[m][1] \in ToSet(waiters[m])
    BY <2>2 DEF ToSet
  <2>3. QED
    BY <2>1, <2>2
<1>3. HeadExact'
  BY <1>1, <1>2, MutexAssumption DEF Exact, HeadExact, HeadPriority
<1>4. mprio' \in [Mutex -> Nat] /\ mprio'[m] = NoPriority
      /\ \A k \in Mutex : k # m => mprio'[k] = mprio[k]
  BY <1>1, MutexAssumption
<1>5. ASSUME NEW u \in Thread
      PROVE  MutexPriority(u, Taken(u), mprio') = prio[u]
  <2>1. \A k \in Taken(u) : mprio'[k] = mprio[k]
    BY <1>1, <1>4, MutexAssumption DEF Taken
  <2>2. QED
    BY <2>1, PrioritySame, ZenonT(30) DEF Exact, OwnerExact
<1>6. ASSUME NEW u \in Thread
      PROVE  MutexPriority(u, Taken(u)', mprio') = prio[u]
  <2>1. CASE u = t
    <3>1. Taken(u)' = Taken(u) \cup {m} /\ Taken(u) \in SUBSET Mutex
      BY <1>1, <2>1 DEF Taken
    <3>2. ~ (mprio'[m] < prio[u])
      <4>1. prio[u] \in Nat /\ InitPriority[u] \in Nat /\ NoPriority \in Nat
        BY PriorityAssumption, MutexAssumption
      <4>2. prio[u] <= InitPriority[u] /\ InitPriority[u] < NoPriority
        BY MutexAssumption DEF Priorities, Within
      <4>3. QED
        BY <1>4, <4>1, <4>2
    <3>3. PICK T, np : T = Taken(u) /\ np = mprio'
      OBVIOUS
    <3>4. T \in SUBSET Mutex /\ np \in [Mutex -> Nat]
      BY <1>4, <3>1, <3>3
    <3>5. MutexPriority(u, T \cup {m}, np) =
            IF np[m] < MutexPriority(u, T, np) THEN np[m] ELSE MutexPriority(u, T, np)
      BY <3>4, PriorityMore
    <3>6. MutexPriority(u, T, np) = prio[u]
      BY <1>5, <3>3
    <3>7. MutexPriority(u, T \cup {m}, np) = prio[u]
      BY <3>2, <3>3, <3>5, <3>6
    <3>8. QED
      BY <3>1, <3>3, <3>7
  <2>2. CASE u # t
    <3>1. Taken(u)' = Taken(u)
      BY <1>1, <2>2, MutexAssumption DEF Taken
    <3>2. QED
      BY <1>5, <3>1
  <2>3. QED
    BY <2>1, <2>2
<1>7. OwnerExact'
  BY <1>1, <1>6 DEF OwnerExact, MutexPriority
<1>8. NoneExpired'
  BY <1>1, MutexAssumption DEF Exact, NoneExpired
<1>9. QED
  BY <1>3, <1>7, <1>8 DEF Exact

\* What _check_and_update_prio leaves is exactly what the other mutexes give.
LEMMA RestoredExactly ==
  ASSUME Queues, OwnerExact, NEW t \in Thread, NEW m \in Mutex, owner[m] = t
  PROVE  RestoredPriority(t, m) = MutexPriority(t, Taken(t) \ {m}, mprio)
<1> USE Types
<1>1. PICK rest : rest = Taken(t) \ {m}
  OBVIOUS
<1>2. rest \in SUBSET Mutex /\ rest \cup {m} = Taken(t)
  BY <1>1 DEF Taken
<1>3. prio[t] = MutexPriority(t, rest \cup {m}, mprio)
  BY <1>2 DEF OwnerExact
<1>4. prio[t] = IF mprio[m] < MutexPriority(t, rest, mprio) THEN mprio[m]
                ELSE MutexPriority(t, rest, mprio)
  BY <1>2, <1>3, PriorityMore
<1>5. QED
  BY <1>1, <1>4 DEF RestoredPriority

LEMMA ReleaseToExactly ==
  ASSUME Queues, Priorities, Exact, NEW t \in Thread, NEW m \in Mutex, ReleaseTo(t, m)
  PROVE  Exact'
<1> USE Types
<1>1. PICK u : u = Head(waiters[m])
  OBVIOUS
<1>2. /\ stat[t] = "ready" /\ call[t] = NoCall /\ owner[m] = t
      /\ prio' = [prio EXCEPT ![t] = RestoredPriority(t, m)]
      /\ stat' = [stat EXCEPT ![u] = "ready"]
      /\ owner' = [owner EXCEPT ![m] = u]
      /\ waiters' = [waiters EXCEPT ![m] = Tail(waiters[m])]
      /\ mprio' = [mprio EXCEPT ![m] = HeadPriority(Tail(waiters[m]), prio)]
      /\ call' = call
  BY <1>1 DEF ReleaseTo, Ready, Runs
<1>3. waiters[m] \in Seq(Thread) /\ waiters[m] # <<>> /\ IsInjective(waiters[m])
      /\ Sorted(waiters[m], prio)
  BY DEF ReleaseTo, Queues, Single, Priorities, InOrder
<1>4. /\ u \in Thread /\ u \in ToSet(waiters[m])
      /\ Tail(waiters[m]) \in Seq(Thread)
      /\ ToSet(Tail(waiters[m])) = ToSet(waiters[m]) \ {u}
  BY <1>1, <1>3, FirstAndRest
<1>5. stat[u] = "suspended" /\ call[u] = m /\ u # t
  BY <1>2, <1>4 DEF Queues, Listed
<1>6. PICK h : h = HeadPriority(Tail(waiters[m]), prio)
  OBVIOUS
<1>7. h \in Nat
  BY <1>3, <1>4, <1>6, SortedRest, FirstIsMostUrgent
<1>8. prio[u] <= h
  <2>1. CASE Tail(waiters[m]) = <<>>
    <3>1. h = NoPriority
      BY <1>6, <2>1 DEF HeadPriority
    <3>2. prio[u] <= InitPriority[u] /\ InitPriority[u] < NoPriority
      BY <1>4, MutexAssumption DEF Priorities, Within
    <3>3. prio[u] \in Nat /\ InitPriority[u] \in Nat /\ NoPriority \in Nat
      BY <1>4, PriorityAssumption, MutexAssumption
    <3>4. QED
      BY <3>1, <3>2, <3>3
  <2>2. CASE Tail(waiters[m]) # <<>>
    <3>1. Head(Tail(waiters[m])) = Tail(waiters[m])[1] /\ 1 \in DOMAIN Tail(waiters[m])
      BY <1>4, <2>2
    <3>2. Head(Tail(waiters[m])) \in ToSet(Tail(waiters[m]))
      BY <3>1 DEF ToSet
    <3>3. Head(Tail(waiters[m])) \in ToSet(waiters[m])
      BY <1>4, <3>2
    <3>4. prio[u] <= prio[Head(Tail(waiters[m]))]
      BY <1>1, <1>3, <3>3, SortedRest
    <3>5. QED
      BY <1>6, <2>2, <3>4 DEF HeadPriority
  <2>3. QED
    BY <2>1, <2>2
<1>9. /\ mprio' \in [Mutex -> Nat] /\ mprio'[m] = h
      /\ \A k \in Mutex : k # m => mprio'[k] = mprio[k]
  BY <1>2, <1>6, <1>7
<1>10. prio'[t] = RestoredPriority(t, m) /\ \A v \in Thread : v # t => prio'[v] = prio[v]
  BY <1>2
<1>11. /\ waiters'[m] = Tail(waiters[m])
       /\ \A k \in Mutex : k # m => waiters'[k] = waiters[k]
  BY <1>2
<1>12. ASSUME NEW k \in Mutex
       PROVE  mprio'[k] = HeadPriority(waiters'[k], prio')
  <2>1. PICK q \in Seq(Thread) : q = waiters'[k]
    BY <1>4, <1>11
  <2>2. t \notin ToSet(q)
    BY <1>2, <1>4, <1>11, <2>1 DEF Queues, Listed
  <2>3. PICK pr, qr : pr = prio /\ qr = prio'
    OBVIOUS
  <2>4. \A v \in Thread : v # t => qr[v] = pr[v]
    BY <1>10, <2>3
  <2>5. HeadPriority(q, qr) = HeadPriority(q, pr)
    <3> HIDE Types
    <3>1. QED
      BY <2>1, <2>2, <2>4, HeadSame
  <2>6. QED
    BY <1>6, <1>9, <1>11, <2>1, <2>3, <2>5 DEF Exact, HeadExact
<1>13. HeadExact'
  BY <1>12 DEF HeadExact
<1>14. ASSUME NEW v \in Thread
       PROVE  prio'[v] = MutexPriority(v, Taken(v)', mprio')
  <2>1. CASE v = t
    <3>1. Taken(v)' = Taken(t) \ {m}
      BY <1>2, <1>4, <1>5, <2>1 DEF Taken
    <3>2. PICK rest, mp, np : rest = Taken(t) \ {m} /\ mp = mprio /\ np = mprio'
      OBVIOUS
    <3>3. \A k \in rest : np[k] = mp[k]
      BY <1>9, <3>2 DEF Taken
    <3>4. MutexPriority(t, rest, np) = MutexPriority(t, rest, mp)
      BY <3>3, PrioritySame
    <3>5. QED
      BY <1>2, <1>10, <2>1, <3>1, <3>2, <3>4, RestoredExactly DEF Exact
  <2>2. CASE v # t
    <3>1. \A k \in Taken(v) : mprio'[k] = mprio[k]
      BY <1>2, <1>9, <2>2 DEF Taken
    <3>2. MutexPriority(v, Taken(v), mprio') = prio[v]
      BY <3>1, PrioritySame, ZenonT(30) DEF Exact, OwnerExact
    <3>3. CASE v = u
      <4>1. Taken(v)' = Taken(v) \cup {m} /\ Taken(v) \in SUBSET Mutex
        BY <1>2, <3>3 DEF Taken
      <4>2. prio[v] \in Nat /\ ~ (mprio'[m] < prio[v])
        BY <1>7, <1>8, <1>9, <3>3
      <4>3. PICK T, np : T = Taken(v) /\ np = mprio'
        OBVIOUS
      <4>4. T \in SUBSET Mutex /\ np \in [Mutex -> Nat]
        BY <1>9, <4>1, <4>3
      <4>5. MutexPriority(v, T \cup {m}, np) =
              IF np[m] < MutexPriority(v, T, np) THEN np[m] ELSE MutexPriority(v, T, np)
        BY <4>4, PriorityMore
      <4>6. MutexPriority(v, T \cup {m}, np) = prio[v]
        BY <3>2, <4>2, <4>3, <4>5
      <4>7. QED
        BY <1>10, <2>2, <4>1, <4>3, <4>6
    <3>4. CASE v # u
      <4>1. Taken(v)' = Taken(v)
        BY <1>2, <2>2, <3>4 DEF Taken
      <4>2. QED
        BY <1>10, <2>2, <3>2, <4>1
    <3>5. QED
      BY <3>3, <3>4
  <2>3. QED
    BY <2>1, <2>2
<1>15. OwnerExact'
  BY <1>14 DEF OwnerExact, MutexPriority
<1>16. NoneExpired'
  <2>1. ASSUME NEW v \in Thread, stat'[v] = "ready", call[v] \in Mutex
        PROVE  owner'[call[v]] = v
    <3>1. CASE v = u
      BY <1>2, <1>5, <3>1
    <3>2. CASE v # u
      <4>1. owner[call[v]] = v
        BY <1>2, <2>1, <3>2 DEF Exact, NoneExpired
      <4>2. call[v] # m
        BY <1>2, <2>1, <4>1, MutexAssumption
      <4>3. QED
        BY <1>2, <2>1, <4>1, <4>2
    <3>3. QED
      BY <3>1, <3>2
  <2>2. QED
    BY <1>2, <2>1 DEF NoneExpired
<1>17. QED
  BY <1>13, <1>15, <1>16 DEF Exact

LEMMA ReleaseFreeExactly ==
  ASSUME Queues, Priorities, Exact, NEW t \in Thread, NEW m \in Mutex, ReleaseFree(t, m)
  PROVE  Exact'
<1> USE Types
<1>1. /\ stat[t] = "ready" /\ call[t] = NoCall /\ owner[m] = t /\ waiters[m] = <<>>
      /\ prio' = [prio EXCEPT ![t] = RestoredPriority(t, m)]
      /\ owner' = [owner EXCEPT ![m] = NoThread] /\ mprio' = [mprio EXCEPT ![m] = NoPriority]
      /\ UNCHANGED <<stat, waiters, call>>
  BY DEF ReleaseFree, Runs
<1>2. /\ prio'[t] = RestoredPriority(t, m) /\ \A v \in Thread : v # t => prio'[v] = prio[v]
      /\ mprio'[m] = NoPriority /\ \A k \in Mutex : k # m => mprio'[k] = mprio[k]
  BY <1>1
<1>3. PICK pr, qr, mp, np : pr = prio /\ qr = prio' /\ mp = mprio /\ np = mprio'
  OBVIOUS
<1>4. ASSUME NEW k \in Mutex
      PROVE  mprio'[k] = HeadPriority(waiters'[k], prio')
  <2>1. CASE k = m
    BY <1>1, <1>2, <2>1 DEF HeadPriority
  <2>2. CASE k # m
    <3>1. PICK q \in Seq(Thread) : q = waiters[k]
      OBVIOUS
    <3>2. t \notin ToSet(q)
      BY <1>1, <3>1 DEF Queues, Listed
    <3>3. \A v \in Thread : v # t => qr[v] = pr[v]
      BY <1>2, <1>3
    <3>4. HeadPriority(q, qr) = HeadPriority(q, pr)
      <4> HIDE Types
      <4>1. QED
        BY <3>1, <3>2, <3>3, HeadSame
    <3>5. mprio[k] = HeadPriority(q, prio)
      BY <3>1 DEF Exact, HeadExact
    <3>6. QED
      BY <1>1, <1>2, <1>3, <2>2, <3>1, <3>4, <3>5
  <2>3. QED
    BY <2>1, <2>2
<1>5. ASSUME NEW v \in Thread
      PROVE  prio'[v] = MutexPriority(v, Taken(v)', mprio')
  <2>1. CASE v = t
    <3>1. PICK rest : rest = Taken(t) \ {m}
      OBVIOUS
    <3>2. Taken(v)' = rest
      BY <1>1, <2>1, <3>1, MutexAssumption DEF Taken
    <3>3. \A k \in rest : np[k] = mp[k]
      BY <1>2, <1>3, <3>1 DEF Taken
    <3>4. MutexPriority(t, rest, np) = MutexPriority(t, rest, mp)
      BY <3>3, PrioritySame
    <3>5. QED
      BY <1>1, <1>2, <1>3, <2>1, <3>1, <3>2, <3>4, RestoredExactly DEF Exact
  <2>2. CASE v # t
    <3>1. PICK T : T = Taken(v)
      OBVIOUS
    <3>2. Taken(v)' = T
      BY <1>1, <2>2, <3>1, MutexAssumption DEF Taken
    <3>3. \A k \in T : np[k] = mp[k]
      BY <1>1, <1>2, <1>3, <2>2, <3>1 DEF Taken
    <3>4. MutexPriority(v, T, np) = MutexPriority(v, T, mp)
      BY <3>3, PrioritySame
    <3>5. QED
      BY <1>2, <1>3, <2>2, <3>1, <3>2, <3>4 DEF Exact, OwnerExact
  <2>3. QED
    BY <2>1, <2>2
<1>6. HeadExact' /\ OwnerExact'
  BY <1>4, <1>5 DEF HeadExact, OwnerExact, MutexPriority
<1>7. NoneExpired'
  <2>1. ASSUME NEW v \in Thread, stat[v] = "ready", call[v] \in Mutex
        PROVE  owner'[call[v]] = v
    <3>1. owner[call[v]] = v
      BY <2>1 DEF Exact, NoneExpired
    <3>2. call[v] # m
      BY <1>1, <2>1, <3>1, MutexAssumption
    <3>3. QED
      BY <1>1, <2>1, <3>1, <3>2
  <2>2. QED
    BY <1>1, <2>1 DEF NoneExpired
<1>8. QED
  BY <1>6, <1>7 DEF Exact

(***************************************************************************)
(* rt_mutex_take of a mutex somebody else owns: the two tests before       *)
(* _thread_update_priority leave out only calls that would change nothing. *)
(***************************************************************************)
LEMMA TakeWaitExactly ==
  ASSUME Queues, Priorities, Exact, NEW t \in Thread, NEW m \in Mutex,
         NEW timed \in BOOLEAN, TakeWait(t, m, timed)
  PROVE  Exact'
<1> USE Types
<1>1. PICK w, mp : Enqueued(t, m, w, mp)
  BY DEF Enqueued
<1>2. /\ w = [waiters EXCEPT ![m] = EnqueuePrio(waiters[m], t, prio)]
      /\ mp = [mprio EXCEPT ![m] = Min({mprio[m], prio[t]})]
  BY <1>1 DEF Enqueued
<1>3. PICK o \in Thread : o = owner[m]
  BY DEF TakeWait
<1>4. /\ owner' = owner /\ stat' = [stat EXCEPT ![t] = "suspended"]
      /\ call' = [call EXCEPT ![t] = m]
  BY DEF TakeWait, Suspend
<1>5. PICK pr : pr = prio /\ pr \in [Thread -> Nat]
  OBVIOUS
<1>6. PICK least : least = Min({mprio[m], prio[t]})
  OBVIOUS
<1>7. least \in Nat /\ least <= mprio[m] /\ least <= prio[t] /\ least \in {mprio[m], prio[t]}
  <2>1. mprio[m] \in Nat /\ prio[t] \in Nat
    OBVIOUS
  <2>2. QED
    BY <1>6, <2>1, MinimumOfTwo
<1>8. /\ mp \in [Mutex -> Nat] /\ mp[m] = least
      /\ \A k \in Mutex : k # m => mp[k] = mprio[k]
  BY <1>2, <1>6, <1>7
<1>9. ASSUME NEW k \in Mutex
      PROVE  w[k] \in Seq(Thread) /\ mp[k] = HeadPriority(w[k], prio)
  <2>1. CASE k = m
    <3>1. PICK list \in Seq(Thread) : list = waiters[m] /\ Sorted(list, pr)
      BY <1>5 DEF Priorities, InOrder
    <3>2. pr[t] < NoPriority
      <4>1. pr[t] <= InitPriority[t] /\ InitPriority[t] < NoPriority
        BY <1>5, MutexAssumption DEF Priorities, Within
      <4>2. pr[t] \in Nat /\ InitPriority[t] \in Nat /\ NoPriority \in Nat
        BY <1>5, PriorityAssumption, MutexAssumption
      <4>3. QED
        BY <4>1, <4>2
    <3>3. HeadPriority(EnqueuePrio(list, t, pr), pr) = Min({HeadPriority(list, pr), pr[t]})
      BY <1>5, <3>1, <3>2, HeadOfEnqueue
    <3>4. HeadPriority(list, pr) = mprio[m]
      BY <1>5, <3>1 DEF Exact, HeadExact
    <3>5. EnqueuePrio(list, t, pr) \in Seq(Thread)
      BY <1>5, <3>1, EnqueueProperties
    <3>6. w[k] = EnqueuePrio(list, t, pr)
      BY <1>2, <1>5, <2>1, <3>1
    <3>7. QED
      BY <1>5, <1>6, <1>8, <2>1, <3>3, <3>4, <3>5, <3>6
  <2>2. CASE k # m
    BY <1>2, <1>8, <2>2 DEF Exact, HeadExact
  <2>3. QED
    BY <2>1, <2>2
<1>10. ASSUME NEW u \in Thread
       PROVE  MutexPriority(u, Taken(u), mp) =
                IF u = o /\ prio[t] < mprio[m] /\ prio[t] < prio[o] THEN prio[t] ELSE prio[u]
  <2>1. CASE u = o
    <3>1. PICK rest : rest = Taken(u) \ {m}
      OBVIOUS
    <3>2. rest \in SUBSET Mutex /\ rest \cup {m} = Taken(u)
      BY <1>3, <2>1, <3>1 DEF Taken
    <3>3. PICK np : np = mprio /\ np \in [Mutex -> Nat]
      OBVIOUS
    <3>4. \A k \in rest : mp[k] = np[k]
      BY <1>8, <3>1, <3>3 DEF Taken
    <3>5. PICK x : x = MutexPriority(u, rest, mp)
      OBVIOUS
    <3>6. x \in Nat
      BY <1>8, <3>2, <3>5, MutexPriorityBounds
    <3>7. MutexPriority(u, rest, np) = x
      BY <3>4, <3>5, PrioritySame
    <3>8. MutexPriority(u, Taken(u), mp) = IF mp[m] < x THEN mp[m] ELSE x
      <4>1. MutexPriority(u, rest \cup {m}, mp) =
              IF mp[m] < MutexPriority(u, rest, mp) THEN mp[m] ELSE MutexPriority(u, rest, mp)
        BY <1>8, <3>2, PriorityMore
      <4>2. QED
        BY <3>2, <3>5, <4>1
    <3>9. MutexPriority(u, Taken(u), np) = IF np[m] < x THEN np[m] ELSE x
      <4>1. MutexPriority(u, rest \cup {m}, np) =
              IF np[m] < MutexPriority(u, rest, np) THEN np[m] ELSE MutexPriority(u, rest, np)
        BY <3>2, <3>3, PriorityMore
      <4>2. QED
        BY <3>2, <3>7, <4>1
    <3>10. prio[u] = IF mprio[m] < x THEN mprio[m] ELSE x
      BY <3>3, <3>9 DEF Exact, OwnerExact
    <3>11. prio[t] \in Nat /\ mprio[m] \in Nat
      OBVIOUS
    <3>12. QED
      BY <1>7, <1>8, <2>1, <3>6, <3>8, <3>10, <3>11
  <2>2. CASE u # o
    <3>1. PICK T, np : T = Taken(u) /\ np = mprio
      OBVIOUS
    <3>2. \A k \in T : mp[k] = np[k]
      BY <1>3, <1>8, <2>2, <3>1 DEF Taken
    <3>3. MutexPriority(u, T, mp) = MutexPriority(u, T, np)
      BY <3>2, PrioritySame
    <3>4. QED
      BY <2>2, <3>1, <3>3 DEF Exact, OwnerExact
  <2>3. QED
    BY <2>1, <2>2
<1>11. HeadExact' /\ OwnerExact'
  <2>1. CASE prio[t] < mprio[m] /\ prio[t] < prio[owner[m]]
    <3>1. Placed(w, m) /\ Started(o, prio[t], w, mp) \in Walk(w, m)
      BY <1>1, <1>3, <2>1, TakeWaitUpdates
    <3>2. PICK qr : qr = [prio EXCEPT ![o] = prio[t]]
      OBVIOUS
    <3>3. qr[o] = prio[t] /\ \A u \in Thread : u # o => qr[u] = pr[u]
      BY <1>5, <3>2
    <3>4. ASSUME NEW k \in Mutex, o \notin ToSet(w[k])
          PROVE  mp[k] = HeadPriority(w[k], qr)
      <4>1. PICK q \in Seq(Thread) : q = w[k]
        BY <1>9
      <4>2. HeadPriority(q, qr) = HeadPriority(q, pr)
        <5> HIDE Types
        <5>1. QED
          BY <3>3, <3>4, <4>1, HeadSame
      <4>3. QED
        BY <1>5, <1>9, <4>1, <4>2
    <3>5. \A u \in Thread : qr[u] = MutexPriority(u, Taken(u), mp)
      BY <1>3, <1>5, <1>10, <2>1, <3>3
    <3>6. PICK s : s = Started(o, prio[t], w, mp)
      OBVIOUS
    <3>7. s.thread = o /\ s.prio = qr /\ s.waiters = w /\ s.mprio = mp
      BY <3>2, <3>6 DEF Started
    <3>8. s \in WalkExact(w, m)
      BY <3>1, <3>4, <3>5, <3>6, <3>7 DEF WalkExact
    <3>9. Adopt(UpdatePriority(o, prio[t], w, mp))
      BY <1>2, <1>3, <2>1 DEF TakeWait
    <3>10. QED
      BY <1>4, <3>1, <3>6, <3>8, <3>9, AdoptedExactly DEF Queues
  <2>2. CASE ~ (prio[t] < mprio[m] /\ prio[t] < prio[owner[m]])
    <3>1. waiters' = w /\ mprio' = mp /\ prio' = prio
      BY <1>2, <2>2 DEF TakeWait
    <3>2. HeadExact'
      BY <1>9, <3>1 DEF HeadExact
    <3>3. \A u \in Thread : prio[u] = MutexPriority(u, Taken(u), mp)
      BY <1>3, <1>10, <2>2
    <3>4. ASSUME NEW u \in Thread
          PROVE  prio'[u] = MutexPriority(u, Taken(u)', mprio')
      BY <1>4, <3>1, <3>3 DEF Taken
    <3>5. OwnerExact'
      BY <3>4 DEF OwnerExact, MutexPriority
    <3>6. QED
      BY <3>2, <3>5
  <2>3. QED
    BY <2>1, <2>2
<1>12. NoneExpired'
  BY <1>4 DEF Exact, NoneExpired
<1>13. QED
  BY <1>11, <1>12 DEF Exact

LEMMA ExactKept ==
  ASSUME Exact, UNCHANGED <<prio, mprio, owner, waiters>>, NoneExpired'
  PROVE  Exact'
<1>1. HeadExact'
  BY DEF Exact, HeadExact, HeadPriority
<1>2. OwnerExact'
  BY DEF Exact, OwnerExact, MutexPriority, Taken
<1>3. QED
  BY <1>1, <1>2 DEF Exact

LEMMA ExactInit == Init => Exact
<1> SUFFICES ASSUME Init PROVE Exact
  OBVIOUS
<1> USE DEF Init, SchedInit, MutexInit, SemInit
<1>1. HeadExact
  BY DEF HeadExact, HeadPriority
<1>2. ASSUME NEW t \in Thread
      PROVE  prio[t] = MutexPriority(t, Taken(t), mprio)
  <2>1. Taken(t) = {}
    BY MutexAssumption DEF Taken
  <2>2. QED
    BY <2>1, PriorityOfNone
<1>3. OwnerExact
  BY <1>2 DEF OwnerExact
<1>4. NoneExpired
  BY MutexAssumption DEF NoneExpired
<1>5. QED
  BY <1>1, <1>3, <1>4 DEF Exact

LEMMA ExactNext == LockInv /\ WaitsForever /\ Exact /\ [Next]_vars => Exact'
<1> SUFFICES ASSUME Queues, Priorities, WaitsForever, Exact, [Next]_vars PROVE Exact'
  BY DEF LockInv
<1> USE Types
<1>1. CASE Release
  <2>1. UNCHANGED <<prio, mprio, owner, waiters, call>>
    BY <1>1 DEF Release, SemRelease, mutexVars, schedVars
  <2>2. \A v \in Thread : stat'[v] = "ready" => stat[v] = "ready" \/ call[v] = Semaphore
    <3>1. CASE sleepers = <<>>
      BY <1>1, <3>1 DEF Release, SemRelease, schedVars
    <3>2. CASE sleepers # <<>>
      <4>1. Head(sleepers) \in Thread /\ Head(sleepers) \in ToSet(sleepers)
        BY <3>2, FirstAndRest DEF Queues, Single
      <4>2. call[Head(sleepers)] = Semaphore
        BY <4>1 DEF Queues, Listed
      <4>3. stat' = [stat EXCEPT ![Head(sleepers)] = "ready"]
        BY <1>1, <3>2 DEF Release, SemRelease, Ready
      <4>4. QED
        BY <4>1, <4>2, <4>3
    <3>3. QED
      BY <3>1, <3>2
  <2>3. NoneExpired'
    BY <2>1, <2>2, SemaphoreAssumption DEF Exact, NoneExpired
  <2>4. QED
    BY <2>1, <2>3, ExactKept
<1>2. ASSUME NEW t \in Thread, NEW m \in Mutex, MutexStep(t, m)
      PROVE  Exact'
  <2>1. CASE TakeAgain(t, m) \/ ReleaseInner(t, m)
    <3>1. UNCHANGED <<prio, mprio, owner, waiters, stat, call>>
      BY <2>1 DEF TakeAgain, ReleaseInner, schedVars
    <3>2. QED
      BY <3>1, ExactKept DEF Exact, NoneExpired
  <2>2. CASE TakeFree(t, m)
    BY <2>2, TakeFreeExactly
  <2>3. CASE \E timed \in BOOLEAN : TakeWait(t, m, timed)
    BY <2>3, TakeWaitExactly
  <2>4. CASE ReleaseTo(t, m)
    BY <2>4, ReleaseToExactly
  <2>5. CASE ReleaseFree(t, m)
    BY <2>5, ReleaseFreeExactly
  <2>6. QED
    BY <1>2, <2>1, <2>2, <2>3, <2>4, <2>5 DEF MutexStep
<1>3. ASSUME NEW t \in Thread, TakeGranted(t) \/ SemTake(t) \/ SemReturn(t)
      PROVE  Exact'
  <2>1. UNCHANGED <<prio, mprio, owner, waiters, stat>>
    BY <1>3 DEF TakeGranted, SemTake, SemAvailable, SemReturn, mutexVars, schedVars
  <2>2. \A v \in Thread : call'[v] = call[v] \/ call'[v] = NoCall
    BY <1>3 DEF TakeGranted, SemTake, SemReturn, Return
  <2>3. NoneExpired'
    BY <2>1, <2>2, MutexAssumption DEF Exact, NoneExpired
  <2>4. QED
    BY <2>1, <2>3, ExactKept
<1>4. ASSUME NEW t \in Thread, TakeExpired(t)
      PROVE  FALSE
  BY <1>4 DEF TakeExpired, Runs, Exact, NoneExpired
<1>5. ASSUME NEW t \in Thread, \E timed \in BOOLEAN : SemWait(t, timed)
      PROVE  Exact'
  <2>1. /\ UNCHANGED <<prio, mprio, owner, waiters>>
        /\ stat' = [stat EXCEPT ![t] = "suspended"]
        /\ call' = [call EXCEPT ![t] = Semaphore]
    BY <1>5 DEF SemWait, SemSleep, Suspend, mutexVars
  <2>2. NoneExpired'
    BY <2>1 DEF Exact, NoneExpired
  <2>3. QED
    BY <2>1, <2>2, ExactKept
<1>6. ASSUME NEW t \in Thread, Timeout(t)
      PROVE  Exact'
  <2>1. /\ timer[t] = "armed" /\ stat[t] = "suspended"
        /\ UNCHANGED <<prio, mprio, owner, call>>
        /\ stat' = [stat EXCEPT ![t] = "ready"]
        /\ waiters' = [k \in Mutex |->
                         IF call[t] = k THEN RemoveFirst(waiters[k], t) ELSE waiters[k]]
    BY <1>6 DEF Timeout, Ready
  <2>2. call[t] \notin Mutex
    BY <2>1 DEF WaitsForever
  <2>3. waiters' = waiters
    BY <2>1, <2>2
  <2>4. NoneExpired'
    BY <2>1, <2>2 DEF Exact, NoneExpired
  <2>5. QED
    BY <2>1, <2>3, <2>4, ExactKept
<1>7. CASE UNCHANGED vars
  <2>1. UNCHANGED <<prio, mprio, owner, waiters, stat, call>>
    BY <1>7 DEF vars, mutexVars, schedVars
  <2>2. QED
    BY <2>1, ExactKept DEF Exact, NoneExpired
<1>8. QED
  BY <1>1, <1>2, <1>3, <1>4, <1>5, <1>6, <1>7 DEF Next

(***************************************************************************)
(* Where nobody waits for a mutex with a timeout, which is how the SPI     *)
(* framework takes its bus lock, inheritance is exact: a mutex is as       *)
(* urgent as its first waiter and a thread as urgent as what it has taken, *)
(* no less and no more, along all chains. The timeouts of the semaphore do *)
(* not matter.                                                             *)
(***************************************************************************)
THEOREM InheritanceExact == Spec /\ []WaitsForever => [](HeadExact /\ OwnerExact)
<1>1. Exact => HeadExact /\ OwnerExact
  BY DEF Exact
<1>2. QED
  BY <1>1, ExactInit, ExactNext, LockAlways, PTL DEF Spec

(***************************************************************************)
(* So what a thread inherits goes back with its last mutex then: only a    *)
(* timeout in rt_mutex_take can leave a thread too urgent.                 *)
(***************************************************************************)
THEOREM PriorityGoesBack == Spec /\ []WaitsForever => []NoMutexOwnPriority
<1>1. ASSUME OwnerExact, NEW t \in Thread, Taken(t) = {}
      PROVE  prio[t] = InitPriority[t]
  BY <1>1, PriorityOfNone DEF OwnerExact
<1>2. HeadExact /\ OwnerExact => NoMutexOwnPriority
  BY <1>1 DEF NoMutexOwnPriority
<1>3. QED
  BY <1>2, InheritanceExact, PTL
=============================================================================
