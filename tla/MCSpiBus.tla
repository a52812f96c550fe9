------------------------------- MODULE MCSpiBus -----------------------------
(* Two devices, two data widths the driver knows and one it refuses, chunks *)
(* of three: transfers of one chunk, and of two full ones and a rest.       *)
EXTENDS SpiBus

Configuration(width, mode, lines) == [width |-> width, mode |-> mode, lines |-> lines]

MCConfig == {Configuration(8, "master", 2), Configuration(16, "master", 1),
             Configuration(32, "slave", 2)}
MCLength == {2, 8}
MCFirstLength == {2}
=============================================================================
