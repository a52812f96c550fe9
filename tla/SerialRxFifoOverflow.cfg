SPECIFICATION Spec
CONSTANTS
  Byte <- MCByte
  bufsz = 3
  MaxArrivals = 8
PROPERTIES
  OverflowDiscardsOneChar
