SPECIFICATION Spec
CONSTANTS
  Thread = {t1, t2, t3}
  NoThread = NoThread
  Period <- MCPeriod
  IMU_PRINT_MIN_PERIOD = 200
  TickModulus = 4096
INVARIANTS
  AtMostOnePrinter
CHECK_DEADLOCK FALSE
