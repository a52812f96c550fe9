--------------------------- MODULE MCImuUartDriver ---------------------------
(* A buffer of three, passes of up to two characters, a table of one entry  *)
(* that another channel may hold, and three starts.                         *)
EXTENDS ImuUartDriver
=============================================================================
