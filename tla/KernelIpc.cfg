SPECIFICATION Spec
CONSTANTS
  high = high
  middle = middle
  low = low
  Thread = {high, middle, low}
  InitPriority <- MCPriority
  Mutex <- MCMutex
  NoThread = NoThread
  NoCall = NoCall
  Semaphore = Semaphore
  NoPriority = 255
  RT_MUTEX_HOLD_MAX = 2
  RT_SEM_VALUE_MAX = 1
INVARIANTS
  TypeOK
  OwnerServesWaiters
  TimerMeansSuspended
  ErrorTellsOutcome
PROPERTIES
  ImplementsPriorityLock
  UrgentIsServed
