------------------------------ MODULE ImuPrint ------------------------------
(***************************************************************************)
(* The periodic printer of the IMU application (imu_app.c): the shell      *)
(* commands "imu print_start" and "imu print_stop" and the threads they    *)
(* create. The shell has a higher priority than a printer and the commands *)
(* do not wait, so a command is one step; a printer is interrupted between *)
(* any two of its own steps. A period too long for a timer, which a        *)
(* negative argument is, stops the whole system at the next delay.         *)
(***************************************************************************)
EXTENDS Integers, FiniteSets

CONSTANTS
  Thread,                 \* the threads the kernel can create
  NoThread,               \* RT_NULL
  Period,                 \* the periods a user asks for, in ms
  IMU_PRINT_MIN_PERIOD,   \* 200 in the code
  TickModulus             \* 2^32: rt_uint32_t and rt_tick_t

ASSUME ThreadAssumption == IsFiniteSet(Thread) /\ NoThread \notin Thread
ASSUME PeriodAssumption == Period \subseteq Int /\ IMU_PRINT_MIN_PERIOD \in 0 .. 1000
ASSUME ModulusAssumption == TickModulus \in Nat /\ TickModulus > 1000

VARIABLES
  imu_print_running,
  imu_print_tid,
  imu_print_period_ms,
  printer,                \* printer[t]: where thread t is, "free" if not alive
  asserted                \* an assertion has failed with interrupts disabled

vars == <<imu_print_running, imu_print_tid, imu_print_period_ms, printer, asserted>>

DefaultPeriod == 1000

TypeOK ==
  /\ imu_print_running \in BOOLEAN
  /\ imu_print_tid \in Thread \cup {NoThread}
  /\ imu_print_period_ms \in IMU_PRINT_MIN_PERIOD .. TickModulus - 1
  /\ printer \in [Thread -> {"free", "test", "print", "delay", "sleep", "exit"}]
  /\ asserted \in BOOLEAN

Init ==
  /\ imu_print_running = FALSE
  /\ imu_print_tid = NoThread
  /\ imu_print_period_ms = DefaultPeriod
  /\ printer = [t \in Thread |-> "free"]
  /\ asserted = FALSE

Alive == {t \in Thread : printer[t] # "free"}

AsAsked(period) == period    \* mutation of Clamp

Clamp(period) ==
  IF period < IMU_PRINT_MIN_PERIOD THEN IMU_PRINT_MIN_PERIOD ELSE period

\* (rt_uint32_t)atoi(...): a negative period becomes a huge one.
Cast(asked) == asked % TickModulus

\* rt_tick_from_millisecond takes an rt_int32_t, with a tick in a millisecond;
\* RT_WAITING_FOREVER is the largest number of ticks.
Ticks(ms) == IF ms < TickModulus \div 2 THEN ms ELSE TickModulus - 1

\* What RT_ASSERT of rt_timer_control demands: less than RT_TICK_MAX / 2.
Sleepable(ms) == Ticks(ms) < (TickModulus - 1) \div 2

PrintStartKeepsFlag(period) ==    \* mutation: a failed start leaves the flag set
  /\ ~asserted /\ ~imu_print_running
  /\ imu_print_period_ms' = Clamp(Cast(period))
  /\ imu_print_running' = TRUE
  /\ \/ \E t \in Thread \ Alive :
          /\ imu_print_tid' = t
          /\ printer' = [printer EXCEPT ![t] = "test"]
     \/ imu_print_tid' = NoThread /\ UNCHANGED printer
  /\ UNCHANGED asserted

(***************************************************************************)
(* imu print_start: refused while running, else the period is raised to    *)
(* the minimum, the flag set, and a thread created if the kernel can.      *)
(***************************************************************************)
PrintStart(period) ==
  /\ ~asserted /\ ~imu_print_running
  /\ imu_print_period_ms' = Clamp(Cast(period))
  /\ \/ \E t \in Thread \ Alive :
          /\ imu_print_running' = TRUE
          /\ imu_print_tid' = t
          /\ printer' = [printer EXCEPT ![t] = "test"]
     \/ /\ imu_print_tid' = NoThread
        /\ UNCHANGED <<imu_print_running, printer>>
  /\ UNCHANGED asserted

PrintStop ==
  /\ ~asserted /\ imu_print_running
  /\ imu_print_running' = FALSE
  /\ UNCHANGED <<imu_print_tid, imu_print_period_ms, printer, asserted>>

(***************************************************************************)
(* imu_print_thread_entry: test the flag, print the channels, sleep for    *)
(* the period there is by then. The assertion fails between disabling      *)
(* interrupts and starting the timer: nothing runs any more.               *)
(***************************************************************************)
TestNothing(t) ==    \* mutation of Test: an endless loop
  /\ printer[t] = "test"
  /\ printer' = [printer EXCEPT ![t] = "print"]
  /\ UNCHANGED <<imu_print_running, imu_print_tid, imu_print_period_ms, asserted>>

Test(t) ==
  /\ printer[t] = "test"
  /\ printer' = [printer EXCEPT ![t] = IF imu_print_running THEN "print" ELSE "exit"]
  /\ UNCHANGED <<imu_print_running, imu_print_tid, imu_print_period_ms, asserted>>

PrintChannels(t) ==
  /\ printer[t] = "print"
  /\ printer' = [printer EXCEPT ![t] = "delay"]
  /\ UNCHANGED <<imu_print_running, imu_print_tid, imu_print_period_ms, asserted>>

Delay(t) ==
  /\ printer[t] = "delay"
  /\ IF Sleepable(imu_print_period_ms)
     THEN printer' = [printer EXCEPT ![t] = "sleep"] /\ UNCHANGED asserted
     ELSE asserted' = TRUE /\ UNCHANGED printer
  /\ UNCHANGED <<imu_print_running, imu_print_tid, imu_print_period_ms>>

Wake(t) ==
  /\ printer[t] = "sleep"
  /\ printer' = [printer EXCEPT ![t] = "test"]
  /\ UNCHANGED <<imu_print_running, imu_print_tid, imu_print_period_ms, asserted>>

ExitKeepsHandle(t) ==    \* mutation of Exit: the handle is not cleared
  /\ printer[t] = "exit"
  /\ printer' = [printer EXCEPT ![t] = "free"]
  /\ UNCHANGED <<imu_print_running, imu_print_tid, imu_print_period_ms, asserted>>

Exit(t) ==
  /\ printer[t] = "exit"
  /\ printer' = [printer EXCEPT ![t] = "free"]
  /\ imu_print_tid' = NoThread
  /\ UNCHANGED <<imu_print_running, imu_print_period_ms, asserted>>

Printer(t) ==
  /\ ~asserted
  /\ Test(t) \/ PrintChannels(t) \/ Delay(t) \/ Wake(t) \/ Exit(t)

Next ==
  \/ \E period \in Period \cup {DefaultPeriod} : PrintStart(period)
  \/ PrintStop
  \/ \E t \in Thread : Printer(t)

\* The kernel runs a ready printer once the shell waits for input, and ends
\* every sleep.
Spec == Init /\ [][Next]_vars /\ \A t \in Thread : WF_vars(Printer(t))

-----------------------------------------------------------------------------
(***************************************************************************)
(* While printing is on, some thread prints: a start that comes while an   *)
(* old printer is on its way out is not swallowed by it.                   *)
(***************************************************************************)
RunningHasPrinter ==
  imu_print_running => \E t \in Alive : printer[t] # "exit"

(***************************************************************************)
(* The kept thread handle, when there is one, is that of a live printer,   *)
(* although any printer that ends clears it.                               *)
(***************************************************************************)
HandleIsLive == imu_print_tid # NoThread => imu_print_tid \in Alive

(***************************************************************************)
(* After a last print_stop every printer ends, however many there are,     *)
(* provided that no print_start has asked for a period that no timer can   *)
(* be set to: "imu print_start -1" passes the test of the minimum, and the *)
(* printer stops the system, with every command, at its first delay.       *)
(***************************************************************************)
StopEndsPrinters ==
  []Sleepable(imu_print_period_ms) /\ <>[]~imu_print_running => <>[](Alive = {})

(***************************************************************************)
(* What the message of print_start says ("imu print thread already         *)
(* running"): there is one printer. A start after a stop, before the old   *)
(* printer wakes up, makes a second one, and both stay.                    *)
(***************************************************************************)
AtMostOnePrinter == Cardinality(Alive) <= 1
=============================================================================
