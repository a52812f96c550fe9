------------------------------ MODULE MCImuPrint ------------------------------
(* Three threads, a period on each side of the minimum, a negative one and   *)
(* the shortest that no timer can be set to; ticks of twelve bits.           *)
EXTENDS ImuPrint

MCPeriod == {-1, 100, 500, 2047}
=============================================================================
