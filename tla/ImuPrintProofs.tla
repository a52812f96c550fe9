--------------------------- MODULE ImuPrintProofs ---------------------------
(***************************************************************************)
(* Proofs about ImuPrint for any number of threads and any periods.        *)
(***************************************************************************)
EXTENDS ImuPrint, TLAPS

IInv == TypeOK /\ RunningHasPrinter /\ HandleIsLive

\* Whatever number is asked for, the kept period is a number of the width that
\* is not below the minimum.
LEMMA ClampedPeriod ==
  ASSUME NEW asked \in Period \cup {DefaultPeriod}
  PROVE  Clamp(Cast(asked)) \in IMU_PRINT_MIN_PERIOD .. TickModulus - 1
<1>1. asked \in Int /\ IMU_PRINT_MIN_PERIOD \in 0 .. 1000
  BY PeriodAssumption DEF DefaultPeriod
<1>2. Cast(asked) \in 0 .. TickModulus - 1
  BY <1>1, ModulusAssumption, SMTT(30) DEF Cast
<1>3. QED
  BY <1>1, <1>2, ModulusAssumption DEF Clamp

LEMMA InitInvariant == Init => IInv
<1> SUFFICES ASSUME Init PROVE IInv
  OBVIOUS
<1>1. DefaultPeriod \in IMU_PRINT_MIN_PERIOD .. TickModulus - 1
  BY PeriodAssumption, ModulusAssumption DEF DefaultPeriod
<1>2. TypeOK
  BY <1>1 DEF Init, TypeOK
<1>3. RunningHasPrinter /\ HandleIsLive
  BY DEF Init, RunningHasPrinter, HandleIsLive
<1>4. QED
  BY <1>2, <1>3 DEF IInv

\* The one step at which both flag and handle can go wrong: it creates the
\* printer it speaks of, or changes the flag not at all.
LEMMA StartInvariant ==
  ASSUME IInv, NEW period \in Period \cup {DefaultPeriod}, PrintStart(period)
  PROVE  IInv'
<1> USE ThreadAssumption DEF IInv
<1>1. TypeOK'
  BY ClampedPeriod DEF PrintStart, TypeOK, Alive
<1>2. RunningHasPrinter'
  BY DEF PrintStart, RunningHasPrinter, TypeOK, Alive
<1>3. HandleIsLive'
  BY DEF PrintStart, HandleIsLive, TypeOK, Alive
<1>4. QED
  BY <1>1, <1>2, <1>3

LEMMA PrinterInvariant ==
  ASSUME IInv, NEW t \in Thread, Printer(t)
  PROVE  IInv'
<1> USE DEF IInv
<1>1. TypeOK'
  BY DEF TypeOK, Printer, Test, PrintChannels, Delay, Wake, Exit
<1>2. RunningHasPrinter'
  <2> SUFFICES ASSUME imu_print_running'
               PROVE  \E u \in Thread : printer'[u] \notin {"free", "exit"}
    BY DEF RunningHasPrinter, Alive
  <2>1. PICK u \in Thread : printer[u] \notin {"free", "exit"}
    BY DEF Printer, Test, PrintChannels, Delay, Wake, Exit, RunningHasPrinter, Alive
  <2>2. printer'[u] \notin {"free", "exit"}
    BY <2>1 DEF Printer, Test, PrintChannels, Delay, Wake, Exit, TypeOK
  <2>3. QED
    BY <2>2
<1>3. HandleIsLive'
  BY DEF Printer, Test, PrintChannels, Delay, Wake, Exit, HandleIsLive, TypeOK, Alive
<1>4. QED
  BY <1>1, <1>2, <1>3

LEMMA NextInvariant == IInv /\ [Next]_vars => IInv'
<1> SUFFICES ASSUME IInv, [Next]_vars PROVE IInv'
  OBVIOUS
<1>1. CASE PrintStop
  BY <1>1 DEF PrintStop, IInv, TypeOK, RunningHasPrinter, HandleIsLive, Alive
<1>2. CASE UNCHANGED vars
  BY <1>2 DEF vars, IInv, TypeOK, RunningHasPrinter, HandleIsLive, Alive
<1>3. QED
  BY <1>1, <1>2, StartInvariant, PrinterInvariant DEF Next

LEMMA Invariant == Spec => []IInv
BY InitInvariant, NextInvariant, PTL DEF Spec

(***************************************************************************)
(* The kept period is never below the minimum and fits its width, and flag *)
(* and handle stay in their sets.                                          *)
(***************************************************************************)
THEOREM TypeCorrect == Spec => []TypeOK
<1>1. IInv => TypeOK
  BY DEF IInv
<1>2. QED
  BY <1>1, Invariant, PTL

(***************************************************************************)
(* While printing is on, a printer lives that is not on its way out,       *)
(* however starts, stops and wake-ups of any number of printers interleave.*)
(***************************************************************************)
THEOREM RunningPrints == Spec => []RunningHasPrinter
<1>1. IInv => RunningHasPrinter
  BY DEF IInv
<1>2. QED
  BY <1>1, Invariant, PTL

(***************************************************************************)
(* The kept handle is never that of a thread that has ended.               *)
(***************************************************************************)
THEOREM LiveHandle == Spec => []HandleIsLive
<1>1. IInv => HandleIsLive
  BY DEF IInv
<1>2. QED
  BY <1>1, Invariant, PTL
=============================================================================
