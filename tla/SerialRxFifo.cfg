SPECIFICATION Spec
CONSTANTS
  Byte <- MCByte
  bufsz = 3
  MaxArrivals = 8
INVARIANTS
  TypeOK
  UnreadIsSuffix
PROPERTIES
  ImplementsLossyQueue
  SilentPassOnlyWhenFull
