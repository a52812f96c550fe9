------------------------------ MODULE MCGpioIrq -----------------------------
(* The first and the last line of an interrupt and the line beside them;    *)
(* pins of two ports meet on line 9.                                        *)
EXTENDS GpioIrq

CONSTANTS A, B

MCLine == {5, 9, 10}
MCPin == {<<A, 5>>, <<A, 9>>, <<B, 9>>, <<B, 10>>}
=============================================================================
