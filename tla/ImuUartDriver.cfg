SPECIFICATION Spec
CONSTANTS
  bufsz = 3
  MaxBurst = 2
  IMU_UART_DEV_MAX = 1
  RT_SEM_VALUE_MAX = 3
  CallerPreempts = FALSE
  MaxArrivals = 6
  MaxStarts = 3
INVARIANTS
  TypeOK
  NoFault
  NoLostWakeup
  StoppedHoldsNothing
PROPERTIES
  UnreadIsDrained
  StopEndsThread
CHECK_DEADLOCK FALSE
