------------------------------ MODULE MCAd7606 ------------------------------
(* The application beside one device that does anything it may: both data   *)
(* widths the driver knows, and refused ones of a slave and of one that     *)
(* sends and receives on one line; chunks of three, messages of one chunk,  *)
(* and of a full one and a rest.                                            *)
EXTENDS Ad7606

Configuration(width, mode, lines) == [width |-> width, mode |-> mode, lines |-> lines]

MCAdcConfig == Configuration(8, "master", 2)
MCConfig == {MCAdcConfig, Configuration(16, "master", 1),
             Configuration(32, "slave", 2), Configuration(32, "master", 1)}
MCLength == {2, 5}
MCFirstLength == {2}
=============================================================================
