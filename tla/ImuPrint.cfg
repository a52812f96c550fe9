SPECIFICATION Spec
CONSTANTS
  Thread = {t1, t2, t3}
  NoThread = NoThread
  Period <- MCPeriod
  IMU_PRINT_MIN_PERIOD = 200
  TickModulus = 4096
INVARIANTS
  TypeOK
  RunningHasPrinter
  HandleIsLive
PROPERTIES
  StopEndsPrinters
CHECK_DEADLOCK FALSE
