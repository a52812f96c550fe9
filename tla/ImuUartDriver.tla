---------------------------- MODULE ImuUartDriver ---------------------------
(***************************************************************************)
(* One IMU channel over its whole life: imu_app_start_one, imu_uart_init   *)
(* with its failure paths, the UART interrupt, the receive thread, and     *)
(* imu_uart_deinit (imu_app.c, drv_imu_uart.c), with the parts of the      *)
(* device layer, the V1 serial driver and the semaphore that they use.     *)
(*                                                                         *)
(* There is one processor. A handler pass excludes both threads, and of    *)
(* the caller and the receive thread the one with the higher priority runs *)
(* whenever it can. Characters are counted, not named: SerialRxFifo says   *)
(* which ones are kept, ImuFrameParser what becomes of them.               *)
(***************************************************************************)
EXTENDS Naturals

CONSTANTS
  bufsz,            \* capacity of the receive buffer
  MaxBurst,         \* most characters one handler pass can find
  IMU_UART_DEV_MAX, \* size of the table of channels
  RT_SEM_VALUE_MAX, \* where a semaphore stops counting
  CallerPreempts,   \* does the caller have a higher priority than the thread?
  MaxArrivals,      \* bound on the characters that arrive in a behaviour
  MaxStarts         \* bound on the calls of imu_app_start_one

ASSUME BufszAssumption == bufsz \in Nat \ {0}
ASSUME SemAssumption == RT_SEM_VALUE_MAX \in Nat \ {0}
ASSUME TableAssumption == IMU_UART_DEV_MAX \in Nat \ {0}
ASSUME PriorityAssumption == CallerPreempts \in BOOLEAN
ASSUME BoundAssumption == MaxArrivals \in Nat /\ MaxStarts \in Nat

\* At 115200 baud a character takes 87 us and a handler pass a few: a pass
\* never fills the whole buffer.
ASSUME BurstAssumption == MaxBurst \in 1 .. bufsz - 1

VARIABLES
  rxne,             \* the UART's data register holds a character
  irq,              \* the receive interrupt is enabled
  isr,              \* characters taken by the handler pass in progress, or 0
  fifo,             \* serial_rx points to an allocated buffer
  unread,           \* characters in it
  ref_count,        \* of the serial device
  indicate,         \* rx_indicate is set
  others, entries,  \* table entries of other channels and of this one
  sem_valid,        \* the semaphore object is initialised
  sem_value,
  running,
  rx_thread,        \* where the receive thread is
  caller,           \* where the caller is
  inited,           \* the application's imu_inited flag
  fault,            \* a failed assertion or a use of freed memory, else "none"
  arrivals, starts  \* how much of MaxArrivals and MaxStarts is used

hw == <<rxne, irq>>
buf == <<fifo, unread>>
table == <<others, entries>>
sem == <<sem_valid, sem_value>>
bounds == <<arrivals, starts>>
vars == <<hw, isr, buf, ref_count, indicate, table, sem, running, rx_thread,
          caller, inited, fault, bounds>>

ThreadStates == {"none", "test", "read", "locked", "take", "blocked"}
InitSteps == {"prepare", "register", "open", "create"}
UndoSteps == {"undo_close", "undo_free", "undo_unregister", "undo_detach"}
DeinitSteps == {"stop", "release", "close", "free", "unregister", "detach"}

TypeOK ==
  /\ rxne \in BOOLEAN /\ irq \in BOOLEAN
  /\ isr \in 0 .. MaxBurst
  /\ fifo \in BOOLEAN /\ unread \in 0 .. bufsz
  /\ ref_count \in 0 .. 1
  /\ indicate \in BOOLEAN
  /\ others \in 0 .. IMU_UART_DEV_MAX /\ entries \in 0 .. IMU_UART_DEV_MAX
  /\ sem_valid \in BOOLEAN /\ sem_value \in 0 .. RT_SEM_VALUE_MAX
  /\ running \in BOOLEAN
  /\ rx_thread \in ThreadStates
  /\ caller \in {"idle", "halted"} \cup InitSteps \cup UndoSteps \cup DeinitSteps
  /\ inited \in BOOLEAN
  /\ fault \in {"none", "sem", "fifo"}
  /\ arrivals \in 0 .. MaxArrivals /\ starts \in 0 .. MaxStarts

Init ==
  /\ rxne = FALSE /\ irq = FALSE /\ isr = 0
  /\ fifo = FALSE /\ unread = 0 /\ ref_count = 0 /\ indicate = FALSE
  /\ others \in 0 .. IMU_UART_DEV_MAX /\ entries = 0
  /\ sem_valid = FALSE /\ sem_value = 0
  /\ running = FALSE /\ rx_thread = "none"
  /\ caller = "idle" /\ inited = FALSE
  /\ fault = "none"
  /\ arrivals = 0 /\ starts = 0

RxRunnable == rx_thread \in ThreadStates \ {"none", "blocked"}

\* Strict priorities, and no thread while a handler pass is in progress.
RxRuns == fault = "none" /\ isr = 0 /\ (CallerPreempts => caller = "idle")
CallerRuns == fault = "none" /\ isr = 0 /\ (~CallerPreempts => ~RxRunnable)

-----------------------------------------------------------------------------
(***************************************************************************)
(* The wire and the interrupt handler.                                     *)
(***************************************************************************)
\* A character arrives; with the register still occupied it is lost (overrun).
Arrive ==
  /\ fault = "none"
  /\ arrivals < MaxArrivals
  /\ isr < MaxBurst
  /\ arrivals' = arrivals + 1
  /\ rxne' = TRUE
  /\ UNCHANGED <<irq, isr, buf, ref_count, indicate, table, sem, running,
                 rx_thread, caller, inited, fault, starts>>

\* uart_isr finds RXNE, or the loop of rt_hw_serial_isr takes another character.
IsrGetc ==
  /\ fault = "none" /\ irq /\ rxne
  /\ rxne' = FALSE
  /\ IF fifo
     THEN /\ isr' = isr + 1
          /\ unread' = IF unread = bufsz THEN 1 ELSE unread + 1
          /\ UNCHANGED fault
     ELSE fault' = "fifo" /\ UNCHANGED <<isr, unread>>
  /\ UNCHANGED <<irq, fifo, ref_count, indicate, table, sem, running,
                 rx_thread, caller, inited, bounds>>

NotCounted == sem_value         \* mutation of Counted: like a condition
CountedFreely == sem_value + 1  \* mutation of Counted: no maximum

Counted == IF sem_value < RT_SEM_VALUE_MAX THEN sem_value + 1 ELSE sem_value

\* rt_sem_release: wake the waiting thread, else count, but not past the maximum.
SemRelease ==
  IF ~sem_valid
  THEN fault' = "sem" /\ UNCHANGED <<sem, rx_thread>>
  ELSE /\ IF rx_thread = "blocked"
          THEN rx_thread' = "test" /\ UNCHANGED sem_value
          ELSE sem_value' = Counted /\ UNCHANGED rx_thread
       /\ UNCHANGED <<sem_valid, fault>>

\* The pass ends. The length it computes is 0 also when the buffer is exactly
\* full; imu_uart_rx_indicate does nothing for a channel not in the table.
IsrEnd ==
  /\ fault = "none" /\ isr > 0 /\ ~rxne
  /\ isr' = 0
  /\ IF indicate /\ unread \notin {0, bufsz} /\ entries > 0
     THEN SemRelease
     ELSE UNCHANGED <<sem, rx_thread, fault>>
  /\ UNCHANGED <<hw, buf, ref_count, indicate, table, running, caller, inited,
                 bounds>>

-----------------------------------------------------------------------------
(***************************************************************************)
(* The receive thread, imu_uart_rx_thread_entry.                           *)
(***************************************************************************)
RxTest ==
  /\ RxRuns /\ rx_thread = "test"
  /\ rx_thread' = IF running THEN "read" ELSE "none"
  /\ UNCHANGED <<hw, isr, buf, ref_count, indicate, table, sem, running,
                 caller, inited, fault, bounds>>

\* rt_device_read: 0 from a closed device, else _serial_int_rx fetches serial_rx.
RxRead ==
  /\ RxRuns /\ rx_thread = "read"
  /\ rx_thread' = IF ref_count = 0 THEN "take" ELSE "locked"
  /\ UNCHANGED <<hw, isr, buf, ref_count, indicate, table, sem, running,
                 caller, inited, fault, bounds>>

\* The locked region of _serial_int_rx, on the buffer fetched before it.
RxGet ==
  /\ RxRuns /\ rx_thread = "locked"
  /\ IF ~fifo THEN fault' = "fifo" /\ UNCHANGED <<unread, rx_thread>>
     ELSE IF unread = 0 THEN rx_thread' = "take" /\ UNCHANGED <<unread, fault>>
     ELSE /\ unread' = unread - 1
          /\ rx_thread' = "read"
          /\ UNCHANGED fault
  /\ UNCHANGED <<hw, isr, fifo, ref_count, indicate, table, sem, running,
                 caller, inited, bounds>>

RxTake ==
  /\ RxRuns /\ rx_thread = "take"
  /\ IF ~sem_valid THEN fault' = "sem" /\ UNCHANGED <<sem_value, rx_thread>>
     ELSE IF sem_value > 0
     THEN sem_value' = sem_value - 1 /\ rx_thread' = "test" /\ UNCHANGED fault
     ELSE rx_thread' = "blocked" /\ UNCHANGED <<sem_value, fault>>
  /\ UNCHANGED <<hw, isr, buf, ref_count, indicate, table, sem_valid, running,
                 caller, inited, bounds>>

-----------------------------------------------------------------------------
(***************************************************************************)
(* imu_app_start_one and imu_uart_init.                                    *)
(***************************************************************************)
UndoAfterNoClose(step) ==    \* mutation of UndoAfter: the device stays open
  CASE step = "register" -> "undo_detach"
    [] OTHER -> "undo_unregister"

\* Where the clean-up begins after a step of imu_uart_init has failed.
UndoAfter(step) ==
  CASE step = "register" -> "undo_detach"
    [] step = "open" -> "undo_unregister"
    [] step = "create" -> "undo_close"

\* The structure is cleared; the serial device may not exist.
StartOne ==
  /\ CallerRuns /\ caller = "idle" /\ ~inited /\ starts < MaxStarts
  /\ starts' = starts + 1
  /\ running' = FALSE
  /\ caller' \in {"prepare", "idle"}
  /\ UNCHANGED <<hw, isr, buf, ref_count, indicate, table, sem, rx_thread,
                 inited, fault, arrivals>>

Prepare ==
  /\ CallerRuns /\ caller = "prepare"
  /\ sem_valid' = TRUE /\ sem_value' = 0
  /\ running' = TRUE
  /\ caller' = "register"
  /\ UNCHANGED <<hw, isr, buf, ref_count, indicate, table, rx_thread, inited,
                 fault, bounds>>

Register ==
  /\ CallerRuns /\ caller = "register"
  /\ IF others + entries < IMU_UART_DEV_MAX
     THEN /\ entries' = entries + 1
          /\ indicate' = TRUE
          /\ caller' = "open"
     ELSE caller' = UndoAfter("register") /\ UNCHANGED <<entries, indicate>>
  /\ UNCHANGED <<hw, isr, buf, ref_count, others, sem, running, rx_thread,
                 inited, fault, bounds>>

\* rt_device_open succeeds or reports an error; without memory for the buffer
\* the assertion of rt_serial_open stops the caller for good.
OpenDevice ==
  /\ CallerRuns /\ caller = "open"
  /\ \/ /\ fifo' = TRUE /\ unread' = 0
        /\ irq' = TRUE
        /\ ref_count' = ref_count + 1
        /\ caller' = "create"
     \/ /\ caller' \in {UndoAfter("open"), "halted"}
        /\ UNCHANGED <<buf, irq, ref_count>>
  /\ UNCHANGED <<rxne, isr, indicate, table, sem, running, rx_thread, inited,
                 fault, bounds>>

CreateThread ==
  /\ CallerRuns /\ caller = "create"
  /\ \/ rx_thread' = "test" /\ inited' = TRUE /\ caller' = "idle"
     \/ caller' = UndoAfter("create") /\ UNCHANGED <<rx_thread, inited>>
  /\ UNCHANGED <<hw, isr, buf, ref_count, indicate, table, sem, running,
                 fault, bounds>>

-----------------------------------------------------------------------------
(***************************************************************************)
(* imu_uart_deinit, and the steps it shares with the failure paths.        *)
(***************************************************************************)
StopKeepsRunning ==    \* mutation of Stop: the flag is not cleared
  /\ CallerRuns /\ caller = "idle" /\ inited
  /\ caller' = "release"
  /\ UNCHANGED <<hw, isr, buf, ref_count, indicate, table, sem, running,
                 rx_thread, inited, fault, bounds>>

Stop ==
  /\ CallerRuns /\ caller = "idle" /\ inited
  /\ running' = FALSE
  /\ caller' = "release"
  /\ UNCHANGED <<hw, isr, buf, ref_count, indicate, table, sem, rx_thread,
                 inited, fault, bounds>>

Release ==
  /\ CallerRuns /\ caller = "release"
  /\ SemRelease
  /\ caller' = "close"
  /\ UNCHANGED <<hw, isr, buf, ref_count, indicate, table, running, inited,
                 bounds>>

CloseKeepsInterrupt ==    \* mutation of CloseDevice: CLR_INT forgotten
  /\ CallerRuns /\ caller \in {"close", "undo_close"}
  /\ ref_count' = ref_count - 1
  /\ caller' = IF caller = "close" THEN "free" ELSE "undo_free"
  /\ UNCHANGED <<hw, isr, buf, indicate, table, sem, running, rx_thread,
                 inited, fault, bounds>>

\* rt_device_close up to CLR_INT.
CloseDevice ==
  /\ CallerRuns /\ caller \in {"close", "undo_close"}
  /\ ref_count' = ref_count - 1
  /\ irq' = FALSE
  /\ caller' = IF caller = "close" THEN "free" ELSE "undo_free"
  /\ UNCHANGED <<rxne, isr, buf, indicate, table, sem, running, rx_thread,
                 inited, fault, bounds>>

\* The rest of rt_serial_close.
FreeFifo ==
  /\ CallerRuns /\ caller \in {"free", "undo_free"}
  /\ fifo' = FALSE /\ unread' = 0
  /\ caller' = IF caller = "free" THEN "unregister" ELSE "undo_unregister"
  /\ UNCHANGED <<hw, isr, ref_count, indicate, table, sem, running, rx_thread,
                 inited, fault, bounds>>

Unregister ==
  /\ CallerRuns /\ caller \in {"unregister", "undo_unregister"}
  /\ entries' = IF entries > 0 THEN entries - 1 ELSE 0
  /\ caller' = IF caller = "unregister" THEN "detach" ELSE "undo_detach"
  /\ UNCHANGED <<hw, isr, buf, ref_count, indicate, others, sem, running,
                 rx_thread, inited, fault, bounds>>

\* rt_sem_detach resumes a waiting thread. The call returns, and a caller that
\* has deinitialised the channel clears its flag.
SemDetach ==
  /\ CallerRuns /\ caller \in {"detach", "undo_detach"}
  /\ IF sem_valid
     THEN /\ sem_valid' = FALSE
          /\ rx_thread' = IF rx_thread = "blocked" THEN "test" ELSE rx_thread
          /\ UNCHANGED fault
     ELSE fault' = "sem" /\ UNCHANGED <<sem_valid, rx_thread>>
  /\ caller' = "idle"
  /\ inited' = FALSE
  /\ UNCHANGED <<hw, isr, buf, ref_count, indicate, table, sem_value, running,
                 bounds>>

-----------------------------------------------------------------------------
Handler == IsrGetc \/ IsrEnd

Receive == RxTest \/ RxRead \/ RxGet \/ RxTake

\* What the caller does once a call has begun.
Call ==
  \/ Prepare \/ Register \/ OpenDevice \/ CreateThread
  \/ Release \/ CloseDevice \/ FreeFifo \/ Unregister \/ SemDetach

Next == Arrive \/ Handler \/ Receive \/ Call \/ StartOne \/ Stop

(***************************************************************************)
(* An enabled interrupt is taken, the ready thread of highest priority     *)
(* runs, and a call that has begun goes on. Nothing makes a character      *)
(* arrive or an application start or stop a channel.                       *)
(***************************************************************************)
Spec ==
  /\ Init /\ [][Next]_vars
  /\ WF_vars(Handler) /\ WF_vars(Receive) /\ WF_vars(Call)

-----------------------------------------------------------------------------
(***************************************************************************)
(* No path through start, failure, interrupt, thread and stop reaches an   *)
(* operation on a detached semaphore (an RT_ASSERT of ipc.c) or a receive  *)
(* buffer that is not there.                                               *)
(***************************************************************************)
NoFault == fault = "none"

(***************************************************************************)
(* The receive thread never sleeps on characters it has not read: one that *)
(* arrives after its last, empty read has left a count in the semaphore,   *)
(* although a pass that leaves the buffer exactly full does not signal.    *)
(***************************************************************************)
NoLostWakeup ==
  rx_thread = "blocked" /\ isr = 0 /\ fifo => unread = 0

(***************************************************************************)
(* Between calls a channel that is not initialised holds nothing, however  *)
(* the last start failed or whatever was going on when it was stopped: no  *)
(* thread, interrupt, buffer, table entry or semaphore.                    *)
(***************************************************************************)
StoppedHoldsNothing ==
  caller = "idle" /\ ~inited =>
    /\ rx_thread = "none"
    /\ ~irq /\ ~fifo /\ ref_count = 0
    /\ entries = 0
    /\ ~sem_valid

(***************************************************************************)
(* Unread characters are eventually read or, when the channel is stopped,  *)
(* dropped with the buffer: the thread is always woken for them.           *)
(***************************************************************************)
UnreadIsDrained == unread > 0 ~> unread = 0

(***************************************************************************)
(* Every call returns and, if it was a stop, the thread is gone by then,   *)
(* although imu_uart_deinit never waits for it.                            *)
(***************************************************************************)
StopEndsThread == caller = "release" ~> caller = "idle" /\ rx_thread = "none"
=============================================================================
