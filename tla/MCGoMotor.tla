------------------------------ MODULE MCGoMotor -----------------------------
(* Frames of a header, data and a CRC; two commands of up to two pings.     *)
EXTENDS GoMotor

MCIdArg == {1, 15, 16}
MCModeArg == {1}
MCCountArg == {0, 5}
=============================================================================
