--------------------------- MODULE MCSerialRxFifo ---------------------------
(* Three slots, two character values, enough arrivals to wrap the indexes  *)
(* twice and to overflow from every position.                              *)
EXTENDS SerialRxFifo

MCByte == {0, 1}
=============================================================================
