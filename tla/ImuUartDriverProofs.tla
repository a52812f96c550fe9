------------------------- MODULE ImuUartDriverProofs ------------------------
(***************************************************************************)
(* Proofs about ImuUartDriver for every buffer, table and burst size. What *)
(* the channel holds is a function of where the caller is (Held), whatever *)
(* the priorities are; where the receive thread is then follows from the   *)
(* caller's lower priority (Threads), and that it never sleeps on unread   *)
(* characters from a relation between buffer and pass (Heeded).            *)
(***************************************************************************)
EXTENDS ImuUartDriver, TLAPS

\* The calls between which, and in which, the serial device is open.
Serving ==
  \/ caller = "idle" /\ inited
  \/ caller \in {"create", "undo_close", "release", "close"}

HasFifo == Serving \/ caller \in {"free", "undo_free"}

HasEntry == HasFifo \/ caller \in {"open", "halted", "undo_unregister", "unregister"}

HasSem == HasEntry \/ caller \in {"register", "undo_detach", "detach"}

(***************************************************************************)
(* What each call has taken and not given back yet.                        *)
(***************************************************************************)
Held ==
  /\ irq <=> Serving
  /\ ref_count = IF Serving THEN 1 ELSE 0
  /\ fifo <=> HasFifo
  /\ entries = IF HasEntry THEN 1 ELSE 0
  /\ HasEntry => indicate
  /\ sem_valid <=> HasSem
  /\ inited => caller \in DeinitSteps \cup {"idle"}
  /\ caller \in DeinitSteps => inited

\* A pass goes on only with the interrupt enabled, and has room for the
\* character in the data register.
Pass ==
  /\ isr > 0 => irq /\ unread > 0
  /\ rxne => isr < MaxBurst

HeldInv == TypeOK /\ Held /\ Pass

(***************************************************************************)
(* Where the receive thread can be. The caller goes on only while it       *)
(* sleeps or has ended, so that after the release in imu_uart_deinit it    *)
(* has nothing left to do but to see that running is cleared.              *)
(***************************************************************************)
Threads ==
  /\ rx_thread # "none" => inited /\ caller \in {"idle", "release", "close"}
  /\ caller = "idle" /\ inited => running /\ rx_thread # "none"
  /\ caller \in InitSteps \ {"prepare"} => running
  /\ caller \in DeinitSteps => ~running
  /\ caller = "release" => rx_thread \in {"none", "test", "blocked"}
  /\ caller = "close" => rx_thread \in {"none", "test"}

\* The thread sleeps, or is about to.
Sleepy == rx_thread = "blocked" \/ (rx_thread = "take" /\ sem_value = 0)

\* All unread characters came in the pass in progress, which will signal.
Heeded == Sleepy /\ fifo => unread <= isr

ChannelInv == HeldInv /\ Threads /\ Heeded /\ NoFault
-----------------------------------------------------------------------------

LEMMA UndoFirst ==
  /\ UndoAfter("register") = "undo_detach"
  /\ UndoAfter("open") = "undo_unregister"
  /\ UndoAfter("create") = "undo_close"
BY Zenon DEF UndoAfter

LEMMA TypeNext == HeldInv /\ [Next]_vars => TypeOK'
<1> SUFFICES ASSUME HeldInv, [Next]_vars PROVE TypeOK'
  OBVIOUS
<1> USE BufszAssumption, SemAssumption, TableAssumption, BurstAssumption,
        BoundAssumption
    DEF HeldInv, TypeOK, Held, Pass, Serving, HasFifo, HasEntry, HasSem,
        ThreadStates, InitSteps, UndoSteps, DeinitSteps,
        vars, hw, buf, table, sem, bounds
<1>1. CASE Arrive
  BY <1>1 DEF Arrive
<1>2. CASE IsrGetc
  <2>1. isr' \in 0 .. MaxBurst
    BY <1>2 DEF IsrGetc
  <2>2. unread' \in 0 .. bufsz
    BY <1>2 DEF IsrGetc
  <2>3. QED
    BY <1>2, <2>1, <2>2 DEF IsrGetc
<1>3. CASE IsrEnd
  BY <1>3 DEF IsrEnd, SemRelease, Counted
<1>4. CASE RxTest
  BY <1>4 DEF RxTest
<1>5. CASE RxRead
  BY <1>5 DEF RxRead
<1>6. CASE RxGet
  BY <1>6 DEF RxGet
<1>7. CASE RxTake
  BY <1>7 DEF RxTake
<1>8. CASE Prepare
  BY <1>8 DEF Prepare
<1>9. CASE Register
  <2>1. entries' \in 0 .. IMU_UART_DEV_MAX
    BY <1>9 DEF Register
  <2>2. caller' \in {"open", "undo_detach"}
    BY <1>9, UndoFirst DEF Register
  <2>3. QED
    BY <1>9, <2>1, <2>2 DEF Register
<1>10. CASE OpenDevice
  <2>1. unread' \in 0 .. bufsz /\ ref_count' \in 0 .. 1
    BY <1>10 DEF OpenDevice, CallerRuns
  <2>2. caller' \in {"create", "undo_unregister", "halted"}
    BY <1>10, UndoFirst DEF OpenDevice
  <2>3. QED
    BY <1>10, <2>1, <2>2 DEF OpenDevice
<1>11. CASE CreateThread
  BY <1>11, UndoFirst DEF CreateThread
<1>12. CASE Release
  BY <1>12 DEF Release, SemRelease, Counted
<1>13. CASE CloseDevice
  <2>1. ref_count' \in 0 .. 1
    <3>1. ref_count = 1
      BY <1>13 DEF CloseDevice
    <3>2. ref_count' = ref_count - 1
      BY <1>13 DEF CloseDevice
    <3>3. QED
      BY ONLY <3>1, <3>2
  <2>2. caller' \in {"free", "undo_free"}
    BY <1>13 DEF CloseDevice
  <2>3. /\ irq' = FALSE
        /\ UNCHANGED <<rxne, isr, buf, indicate, table, sem, running,
                       rx_thread, inited, fault, bounds>>
    BY <1>13 DEF CloseDevice
  <2>4. QED
    BY <2>1, <2>2, <2>3, ZenonT(30)
<1>14. CASE FreeFifo
  <2>1. caller' \in {"unregister", "undo_unregister"}
    BY <1>14 DEF FreeFifo
  <2>2. unread' \in 0 .. bufsz
    BY <1>14 DEF FreeFifo
  <2>3. QED
    BY <1>14, <2>1, <2>2 DEF FreeFifo
<1>15. CASE Unregister
  BY <1>15 DEF Unregister
<1>16. CASE SemDetach
  BY <1>16 DEF SemDetach
<1>17. CASE StartOne
  <2>1. starts' \in 0 .. MaxStarts
    BY <1>17 DEF StartOne
  <2>2. QED
    BY <1>17, <2>1 DEF StartOne
<1>18. CASE Stop
  BY <1>18 DEF Stop
<1>19. CASE UNCHANGED vars
  BY <1>19
<1>20. QED
  BY <1>1, <1>2, <1>3, <1>4, <1>5, <1>6, <1>7, <1>8, <1>9, <1>10,
     <1>11, <1>12, <1>13, <1>14, <1>15, <1>16, <1>17, <1>18, <1>19
  DEF Next, Handler, Receive, Call

LEMMA HeldNext == HeldInv /\ [Next]_vars => Held'
<1> SUFFICES ASSUME HeldInv, [Next]_vars PROVE Held'
  OBVIOUS
<1> USE BufszAssumption, SemAssumption, TableAssumption, BurstAssumption,
        BoundAssumption
    DEF HeldInv, TypeOK, Held, Pass, Serving, HasFifo, HasEntry, HasSem,
        CallerRuns, RxRuns, InitSteps, UndoSteps, DeinitSteps,
        vars, hw, buf, table, sem, bounds
<1>1. CASE Arrive
  BY <1>1 DEF Arrive
<1>2. CASE IsrGetc
  BY <1>2 DEF IsrGetc
<1>3. CASE IsrEnd
  BY <1>3 DEF IsrEnd, SemRelease, Counted
<1>4. CASE RxTest
  BY <1>4 DEF RxTest
<1>5. CASE RxRead
  BY <1>5 DEF RxRead
<1>6. CASE RxGet
  BY <1>6 DEF RxGet
<1>7. CASE RxTake
  BY <1>7 DEF RxTake
<1>8. CASE Prepare
  BY <1>8 DEF Prepare
<1>9. CASE Register
  BY <1>9, UndoFirst DEF Register
<1>10. CASE OpenDevice
  BY <1>10, UndoFirst DEF OpenDevice
<1>11. CASE CreateThread
  BY <1>11, UndoFirst DEF CreateThread
<1>12. CASE Release
  BY <1>12 DEF Release, SemRelease, Counted
<1>13. CASE CloseDevice
  BY <1>13 DEF CloseDevice
<1>14. CASE FreeFifo
  BY <1>14 DEF FreeFifo
<1>15. CASE Unregister
  BY <1>15 DEF Unregister
<1>16. CASE SemDetach
  BY <1>16 DEF SemDetach
<1>17. CASE StartOne
  BY <1>17 DEF StartOne
<1>18. CASE Stop
  BY <1>18 DEF Stop
<1>19. CASE UNCHANGED vars
  BY <1>19
<1>20. QED
  BY <1>1, <1>2, <1>3, <1>4, <1>5, <1>6, <1>7, <1>8, <1>9, <1>10,
     <1>11, <1>12, <1>13, <1>14, <1>15, <1>16, <1>17, <1>18, <1>19
  DEF Next, Handler, Receive, Call

LEMMA PassNext == HeldInv /\ [Next]_vars => Pass'
<1> SUFFICES ASSUME HeldInv, [Next]_vars PROVE Pass'
  OBVIOUS
<1> USE BufszAssumption, SemAssumption, TableAssumption, BurstAssumption,
        BoundAssumption
    DEF HeldInv, TypeOK, Held, Pass, Serving, HasFifo, HasEntry, HasSem,
        CallerRuns, RxRuns, InitSteps, UndoSteps, DeinitSteps,
        vars, hw, buf, table, sem, bounds
<1>1. CASE Arrive
  BY <1>1 DEF Arrive
<1>2. CASE IsrGetc
  BY <1>2 DEF IsrGetc
<1>3. CASE IsrEnd
  BY <1>3 DEF IsrEnd, SemRelease, Counted
<1>4. CASE RxTest
  BY <1>4 DEF RxTest
<1>5. CASE RxRead
  BY <1>5 DEF RxRead
<1>6. CASE RxGet
  BY <1>6 DEF RxGet
<1>7. CASE RxTake
  BY <1>7 DEF RxTake
<1>8. CASE Prepare
  BY <1>8 DEF Prepare
<1>9. CASE Register
  BY <1>9, UndoFirst DEF Register
<1>10. CASE OpenDevice
  BY <1>10, UndoFirst DEF OpenDevice
<1>11. CASE CreateThread
  BY <1>11, UndoFirst DEF CreateThread
<1>12. CASE Release
  BY <1>12 DEF Release, SemRelease, Counted
<1>13. CASE CloseDevice
  BY <1>13 DEF CloseDevice
<1>14. CASE FreeFifo
  BY <1>14 DEF FreeFifo
<1>15. CASE Unregister
  BY <1>15 DEF Unregister
<1>16. CASE SemDetach
  BY <1>16 DEF SemDetach
<1>17. CASE StartOne
  BY <1>17 DEF StartOne
<1>18. CASE Stop
  BY <1>18 DEF Stop
<1>19. CASE UNCHANGED vars
  BY <1>19
<1>20. QED
  BY <1>1, <1>2, <1>3, <1>4, <1>5, <1>6, <1>7, <1>8, <1>9, <1>10,
     <1>11, <1>12, <1>13, <1>14, <1>15, <1>16, <1>17, <1>18, <1>19
  DEF Next, Handler, Receive, Call

-----------------------------------------------------------------------------

LEMMA ThreadsNext ==
  ASSUME ~CallerPreempts, ChannelInv, [Next]_vars
  PROVE  Threads'
<1> USE BufszAssumption, SemAssumption, TableAssumption, BurstAssumption
    DEF ChannelInv, HeldInv, TypeOK, Held, Pass, Threads, Serving, HasFifo,
        HasEntry, HasSem, RxRuns, CallerRuns, RxRunnable, ThreadStates,
        InitSteps, UndoSteps, DeinitSteps,
        vars, hw, buf, table, sem, bounds
<1>1. CASE Arrive
  BY <1>1 DEF Arrive
<1>2. CASE IsrGetc
  BY <1>2 DEF IsrGetc
<1>3. CASE IsrEnd
  BY <1>3 DEF IsrEnd, SemRelease, Counted
<1>4. CASE RxTest
  BY <1>4 DEF RxTest
<1>5. CASE RxRead
  BY <1>5 DEF RxRead
<1>6. CASE RxGet
  BY <1>6 DEF RxGet
<1>7. CASE RxTake
  BY <1>7 DEF RxTake
<1>8. CASE Prepare
  BY <1>8 DEF Prepare
<1>9. CASE Register
  BY <1>9, UndoFirst DEF Register
<1>10. CASE OpenDevice
  BY <1>10, UndoFirst DEF OpenDevice
<1>11. CASE CreateThread
  BY <1>11, UndoFirst DEF CreateThread
<1>12. CASE Release
  BY <1>12 DEF Release, SemRelease, Counted
<1>13. CASE CloseDevice
  BY <1>13 DEF CloseDevice
<1>14. CASE FreeFifo
  BY <1>14 DEF FreeFifo
<1>15. CASE Unregister
  BY <1>15 DEF Unregister
<1>16. CASE SemDetach
  BY <1>16 DEF SemDetach
<1>17. CASE StartOne
  BY <1>17 DEF StartOne
<1>18. CASE Stop
  BY <1>18 DEF Stop
<1>19. CASE UNCHANGED vars
  BY <1>19
<1>20. QED
  BY <1>1, <1>2, <1>3, <1>4, <1>5, <1>6, <1>7, <1>8, <1>9, <1>10,
     <1>11, <1>12, <1>13, <1>14, <1>15, <1>16, <1>17, <1>18, <1>19
  DEF Next, Handler, Receive, Call

LEMMA HeededNext ==
  ASSUME ~CallerPreempts, ChannelInv, [Next]_vars
  PROVE  Heeded'
<1> USE BufszAssumption, SemAssumption, TableAssumption, BurstAssumption
    DEF ChannelInv, HeldInv, TypeOK, Held, Pass, Threads, Serving, HasFifo,
        HasEntry, HasSem, RxRuns, CallerRuns, RxRunnable, ThreadStates,
        InitSteps, UndoSteps, DeinitSteps, Heeded, Sleepy,
        vars, hw, buf, table, sem, bounds
<1>1. CASE Arrive
  BY <1>1 DEF Arrive
<1>2. CASE IsrGetc
  BY <1>2 DEF IsrGetc
<1>3. CASE IsrEnd
  BY <1>3 DEF IsrEnd, SemRelease, Counted
<1>4. CASE RxTest
  BY <1>4 DEF RxTest
<1>5. CASE RxRead
  BY <1>5 DEF RxRead
<1>6. CASE RxGet
  BY <1>6 DEF RxGet
<1>7. CASE RxTake
  BY <1>7 DEF RxTake
<1>8. CASE Prepare
  BY <1>8 DEF Prepare
<1>9. CASE Register
  BY <1>9, UndoFirst DEF Register
<1>10. CASE OpenDevice
  BY <1>10, UndoFirst DEF OpenDevice
<1>11. CASE CreateThread
  BY <1>11, UndoFirst DEF CreateThread
<1>12. CASE Release
  BY <1>12 DEF Release, SemRelease, Counted
<1>13. CASE CloseDevice
  BY <1>13 DEF CloseDevice
<1>14. CASE FreeFifo
  BY <1>14 DEF FreeFifo
<1>15. CASE Unregister
  BY <1>15 DEF Unregister
<1>16. CASE SemDetach
  BY <1>16 DEF SemDetach
<1>17. CASE StartOne
  BY <1>17 DEF StartOne
<1>18. CASE Stop
  BY <1>18 DEF Stop
<1>19. CASE UNCHANGED vars
  BY <1>19
<1>20. QED
  BY <1>1, <1>2, <1>3, <1>4, <1>5, <1>6, <1>7, <1>8, <1>9, <1>10,
     <1>11, <1>12, <1>13, <1>14, <1>15, <1>16, <1>17, <1>18, <1>19
  DEF Next, Handler, Receive, Call

LEMMA NoFaultNext ==
  ASSUME ~CallerPreempts, ChannelInv, [Next]_vars
  PROVE  NoFault'
<1> USE BufszAssumption, SemAssumption, TableAssumption, BurstAssumption
    DEF ChannelInv, HeldInv, TypeOK, Held, Pass, Threads, Serving, HasFifo,
        HasEntry, HasSem, RxRuns, CallerRuns, RxRunnable, ThreadStates,
        InitSteps, UndoSteps, DeinitSteps, Heeded, Sleepy,
        NoFault, vars, hw, buf, table, sem, bounds
<1>1. CASE Arrive
  BY <1>1 DEF Arrive
<1>2. CASE IsrGetc
  BY <1>2 DEF IsrGetc
<1>3. CASE IsrEnd
  BY <1>3 DEF IsrEnd, SemRelease, Counted
<1>4. CASE RxTest
  BY <1>4 DEF RxTest
<1>5. CASE RxRead
  BY <1>5 DEF RxRead
<1>6. CASE RxGet
  BY <1>6 DEF RxGet
<1>7. CASE RxTake
  BY <1>7 DEF RxTake
<1>8. CASE Prepare
  BY <1>8 DEF Prepare
<1>9. CASE Register
  BY <1>9, UndoFirst DEF Register
<1>10. CASE OpenDevice
  BY <1>10, UndoFirst DEF OpenDevice
<1>11. CASE CreateThread
  BY <1>11, UndoFirst DEF CreateThread
<1>12. CASE Release
  BY <1>12 DEF Release, SemRelease, Counted
<1>13. CASE CloseDevice
  BY <1>13 DEF CloseDevice
<1>14. CASE FreeFifo
  BY <1>14 DEF FreeFifo
<1>15. CASE Unregister
  BY <1>15 DEF Unregister
<1>16. CASE SemDetach
  BY <1>16 DEF SemDetach
<1>17. CASE StartOne
  BY <1>17 DEF StartOne
<1>18. CASE Stop
  BY <1>18 DEF Stop
<1>19. CASE UNCHANGED vars
  BY <1>19
<1>20. QED
  BY <1>1, <1>2, <1>3, <1>4, <1>5, <1>6, <1>7, <1>8, <1>9, <1>10,
     <1>11, <1>12, <1>13, <1>14, <1>15, <1>16, <1>17, <1>18, <1>19
  DEF Next, Handler, Receive, Call

-----------------------------------------------------------------------------
LEMMA HeldInit == Init => HeldInv
<1> SUFFICES ASSUME Init PROVE HeldInv
  OBVIOUS
<1>1. /\ isr \in 0 .. MaxBurst /\ unread \in 0 .. bufsz
      /\ ref_count \in 0 .. 1
  BY BufszAssumption, BurstAssumption DEF Init
<1>2. /\ others \in 0 .. IMU_UART_DEV_MAX
      /\ entries \in 0 .. IMU_UART_DEV_MAX
      /\ sem_value \in 0 .. RT_SEM_VALUE_MAX
  BY TableAssumption, SemAssumption DEF Init
<1>3. arrivals \in 0 .. MaxArrivals /\ starts \in 0 .. MaxStarts
  BY BoundAssumption DEF Init
<1>4. TypeOK
  BY <1>1, <1>2, <1>3 DEF Init, TypeOK, ThreadStates
<1>5. Held /\ Pass
  BY BurstAssumption, BufszAssumption
  DEF Init, Held, Pass, Serving, HasFifo, HasEntry, HasSem, DeinitSteps
<1>6. QED
  BY <1>4, <1>5 DEF HeldInv

(***************************************************************************)
(* The sizes and counters of the channel stay in their ranges, whatever    *)
(* the priorities: a pass never finds more characters than it can, every   *)
(* open of the device is closed and every table entry removed once.        *)
(***************************************************************************)
THEOREM TypeCorrect == Spec => []TypeOK
<1>1. Init => HeldInv
  BY HeldInit
<1>2. HeldInv /\ [Next]_vars => HeldInv'
  BY TypeNext, HeldNext, PassNext DEF HeldInv
<1>3. HeldInv => TypeOK
  BY DEF HeldInv
<1>4. QED
  BY <1>1, <1>2, <1>3, PTL DEF Spec

(***************************************************************************)
(* What holds of a channel whose caller, like the shell, has a lower       *)
(* priority than the receive thread.                                       *)
(***************************************************************************)
LEMMA ChannelInvariant == ASSUME ~CallerPreempts PROVE Spec => []ChannelInv
<1>1. Init => ChannelInv
  <2>1. Init => Threads /\ Heeded /\ NoFault
    BY DEF Init, Threads, Heeded, Sleepy, NoFault, InitSteps, DeinitSteps
  <2>2. QED
    BY <2>1, HeldInit DEF ChannelInv
<1>2. ChannelInv /\ [Next]_vars => ChannelInv'
  BY TypeNext, HeldNext, PassNext, ThreadsNext, HeededNext, NoFaultNext
  DEF ChannelInv, HeldInv
<1>3. QED
  BY <1>1, <1>2, PTL DEF Spec

(***************************************************************************)
(* No path through start, failure, interrupt, receive thread and stop      *)
(* reaches a detached semaphore or a missing receive buffer, for any size  *)
(* of buffer, table and pass.                                              *)
(***************************************************************************)
THEOREM NeverFaults == ASSUME ~CallerPreempts PROVE Spec => []NoFault
<1>1. ChannelInv => NoFault
  BY DEF ChannelInv
<1>2. QED
  BY <1>1, ChannelInvariant, PTL

(***************************************************************************)
(* The receive thread never sleeps on characters it has not read: a pass   *)
(* that does not signal leaves none behind that an earlier one has not     *)
(* signalled.                                                              *)
(***************************************************************************)
THEOREM NeverLosesWakeup == ASSUME ~CallerPreempts PROVE Spec => []NoLostWakeup
<1>1. ChannelInv => NoLostWakeup
  BY DEF ChannelInv, HeldInv, TypeOK, Heeded, Sleepy, NoLostWakeup
<1>2. QED
  BY <1>1, ChannelInvariant, PTL

(***************************************************************************)
(* However a start failed or a stop met the other threads of control, the  *)
(* channel then holds nothing.                                             *)
(***************************************************************************)
THEOREM StopReleasesAll ==
  ASSUME ~CallerPreempts PROVE Spec => []StoppedHoldsNothing
<1>1. ChannelInv => StoppedHoldsNothing
  BY DEF ChannelInv, HeldInv, Held, Threads, StoppedHoldsNothing, Serving,
         HasFifo, HasEntry, HasSem
<1>2. QED
  BY <1>1, ChannelInvariant, PTL
=============================================================================
