SPECIFICATION Spec
CONSTANTS
  Line <- MCLine
  A = A
  B = B
  Port = {A, B}
  Pin <- MCPin
  ResetPort = A
  Mode = {"falling"}
  NoEntry = NoEntry
INVARIANTS
  TypeOK
  InterruptsServeLines
  EnabledPinListens
PROPERTY
  EdgeIsAnswered
