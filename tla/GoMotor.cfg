SPECIFICATION Spec
CONSTANTS
  GO_MIN_TX_LEN = 3
  GO_MIN_RX_LEN = 2
  GO_MIN_PING_MAX_COUNT = 2
  IdArg <- MCIdArg
  ModeArg <- MCModeArg
  CountArg <- MCCountArg
  Motor = {1}
  MaxPing = 3
INVARIANTS
  TypeOK
  CommandComplete
  EachOkAnotherAnswer
  NeverHearsItself
PROPERTIES
  CommandEnds
